---------------------------- MODULE MCFailover ----------------------------
EXTENDS Failover, TLC

CONSTANTS l1, l2, l3

MCEmptyTrees == {<< >>}
MCNoHeads == {}
MCSymmetry == Permutations(Leaf)
=============================================================================
