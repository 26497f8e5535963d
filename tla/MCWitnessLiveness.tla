---- MODULE MCWitnessLiveness ----
EXTENDS MCWitness, WitnessLiveness
====
