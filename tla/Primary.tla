------------------------------ MODULE Primary ------------------------------
(***************************************************************************)
(* The add-leaf endpoint of the primary, running concurrently with the     *)
(* state manager.  A call in progress is a record of its leaf, the size of *)
(* the signed head it has read, and the backend call it makes next.  Token *)
(* check, rate limit and signature check come first and touch none of the  *)
(* state here (module RateLimit has them).                                 *)
(***************************************************************************)
EXTENDS StateManager

CONSTANT MaxInFlight      \* bound: calls of add-leaf in progress

VARIABLES adds,           \* the calls in progress
          acked           \* leaves for which some call has returned true

addVars == <<adds, acked>>

AddInit == adds = {} /\ acked = {}

AddCall == [leaf : Leaf, size : Nat, step : {"queue", "prove"}]

\* Mutant: the size is that of the backend's tree.
AddLeafStartUnsigned(l) ==
  /\ Serving
  /\ Cardinality(adds) < MaxInFlight
  /\ adds' = adds \cup {[leaf |-> l, size |-> Len(ptree), step |-> "queue"]}
  /\ UNCHANGED <<dbVars, fileVars, smVars, acked>>

\* AddLeaf, until it has read the size of the signed tree head.
AddLeafStart(l) ==
  /\ Serving
  /\ Cardinality(adds) < MaxInFlight
  /\ adds' = adds \cup {[leaf |-> l, size |-> Len(signedTreeHead), step |-> "queue"]}
  /\ UNCHANGED <<dbVars, fileVars, smVars, acked>>

\* Mutant: the empty proof of a tree of size 1 is taken for no proof.
AddLeafQueueSizeOne(r) ==
  /\ r.step = "queue"
  /\ QueueLeaf(r.leaf)
  /\ adds' = (adds \ {r}) \cup (IF r.size <= 1 THEN {} ELSE {[r EXCEPT !.step = "prove"]})
  /\ UNCHANGED <<ptree, stree, sstored, fileVars, smVars, acked>>

\* DbClient.AddLeaf queues the leaf.  In the empty tree nothing is
\* sequenced and the call returns false at once.
AddLeafQueue(r) ==
  /\ r.step = "queue"
  /\ QueueLeaf(r.leaf)
  /\ adds' = (adds \ {r}) \cup (IF r.size = 0 THEN {} ELSE {[r EXCEPT !.step = "prove"]})
  /\ UNCHANGED <<ptree, stree, sstored, fileVars, smVars, acked>>

\* Mutant: a proof in the backend's latest tree is enough.
AddLeafProveLatest(r) ==
  /\ r.step = "prove"
  /\ acked' = IF IncludedAt(ptree, Len(ptree), r.leaf) THEN acked \cup {r.leaf} ELSE acked
  /\ adds' = adds \ {r}
  /\ UNCHANGED <<dbVars, fileVars, smVars>>

\* DbClient.AddLeaf asks for an inclusion proof in the tree of that size:
\* the call returns true when there is one, false when there is none.
AddLeafProve(r) ==
  /\ r.step = "prove"
  /\ acked' = IF IncludedAt(ptree, r.size, r.leaf) THEN acked \cup {r.leaf} ELSE acked
  /\ adds' = adds \ {r}
  /\ UNCHANGED <<dbVars, fileVars, smVars>>

\* A backend call fails; QueueLeaf may have queued the leaf nevertheless.
AddLeafFails(r) ==
  /\ adds' = adds \ {r}
  /\ \/ UNCHANGED pqueue
     \/ r.step = "queue" /\ QueueLeaf(r.leaf)
  /\ UNCHANGED <<ptree, stree, sstored, fileVars, smVars, acked>>

\* The calls in progress end with the process.
PrimaryExits ==
  /\ Exit
  /\ adds' = {}
  /\ UNCHANGED acked
=============================================================================
