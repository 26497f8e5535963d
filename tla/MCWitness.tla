----------------------------- MODULE MCWitness -----------------------------
EXTENDS Witness, TLC

CONSTANTS w1, w2, w3

MCSymmetry == Permutations(Witnesses)
=============================================================================
