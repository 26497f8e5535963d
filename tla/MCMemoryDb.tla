---------------------------- MODULE MCMemoryDb ----------------------------
EXTENDS MemoryDb, TLC

CONSTANTS l1, l2, c1, c2, c3

MCSymmetry == Permutations(Leaf) \cup Permutations(Caller)
=============================================================================
