------------------------------ MODULE Database ------------------------------
(***************************************************************************)
(* The databases of the two nodes, as the db.Client operations see them.   *)
(* The primary's backend is a Trillian tree of type LOG: leaves are queued *)
(* and a sequencer appends them.  The secondary's is of type               *)
(* PREORDERED_LOG: leaves are written at given indices and are integrated  *)
(* into the tree some time later.                                          *)
(***************************************************************************)
EXTENDS MerkleTree

CONSTANTS InitialTrees, \* trees the primary's backend may hold at first start
          MaxRange      \* most leaves of one get-leaves response

ASSUME InitialTreesAssumption == \A t \in InitialTrees : t \in TreeHead
ASSUME MaxRangeAssumption == MaxRange \in Nat \ {0}

VARIABLES ptree,    \* primary: the integrated tree
          pqueue,   \* primary: leaves queued and not yet sequenced
          stree,    \* secondary: the integrated tree
          sstored   \* secondary: leaves stored, the integrated ones included

dbVars == <<ptree, pqueue, stree, sstored>>

DbInit ==
  /\ ptree \in InitialTrees
  /\ pqueue = {}
  /\ stree = << >>
  /\ sstored = << >>

\* db.Client.AddLeaf, its effect on the backend: a leaf that is known
\* already (codes.AlreadyExists) changes nothing.
QueueLeaf(l) ==
  pqueue' = IF IncludedAt(ptree, Len(ptree), l) THEN pqueue ELSE pqueue \cup {l}

\* db.Client.AddSequencedLeaves: leaves written at start, start + 1, ...
\* An index that is taken keeps its leaf (the result of each leaf is not
\* looked at by the code).
WithLeavesAt(stored, start, leaves) ==
  LET size == IF start + Len(leaves) > Len(stored) THEN start + Len(leaves) ELSE Len(stored)
  IN  [i \in 1..size |-> IF i <= Len(stored) THEN stored[i] ELSE leaves[i - start]]

(***************************************************************************)
(* getLeavesGeneral: the range [start, end) of a tree of which maxIndex    *)
(* leaves may be served, cut to maxIndex (unless strictEnd) and to         *)
(* MaxRange leaves.                                                        *)
(***************************************************************************)
GetLeavesGeneral(tree, start, end, maxIndex, strictEnd) ==
  LET inTree  == IF end > maxIndex THEN maxIndex ELSE end
      last    == IF inTree - start > MaxRange THEN start + MaxRange ELSE inTree
      refused == \/ start >= end
                 \/ start > maxIndex
                 \/ strictEnd /\ (start >= maxIndex \/ end > maxIndex)
  IN  IF refused THEN [status |-> 400, leaves |-> << >>]
      ELSE IF start = last THEN [status |-> IF strictEnd THEN 500 ELSE 404, leaves |-> << >>]
      ELSE [status |-> 200, leaves |-> SubSeq(tree, start + 1, last)]

\* Mutant: the internal endpoint is as strict as the external one.
GetLeavesInternalStrict(start, end) == GetLeavesGeneral(ptree, start, end, Len(ptree), TRUE)

\* The internal get-leaves endpoint serves everything that is integrated.
GetLeavesInternal(start, end) == GetLeavesGeneral(ptree, start, end, Len(ptree), FALSE)

\* Trillian's sequencer appends a queued leaf to the primary's tree.
Sequence ==
  /\ \E l \in pqueue : ptree' = Append(ptree, l) /\ pqueue' = pqueue \ {l}
  /\ UNCHANGED <<stree, sstored>>

\* Trillian integrates stored leaves into the secondary's tree.
Integrate ==
  /\ \E n \in Len(stree) + 1 .. Len(sstored) : stree' = TreeAt(sstored, n)
  /\ UNCHANGED <<ptree, pqueue, sstored>>
=============================================================================
