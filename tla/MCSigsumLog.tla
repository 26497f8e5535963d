---- MODULE MCSigsumLog ----
EXTENDS SigsumLog, TLC
CONSTANTS l1, l2, l3
MCEmptyTrees == {<< >>}
MCSeqs(n) == UNION {[1..k -> Leaf] : k \in 0..n}
MCPromotedTrees == MCSeqs(1)
MCNoHeads == {}
MCStrayHeads == MCSeqs(2)
MCSymmetry == Permutations(Leaf)
====
