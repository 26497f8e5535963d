----------------------------- MODULE Secondary -----------------------------
(***************************************************************************)
(* The secondary node: every interval it copies leaves from the primary    *)
(* into its own backend until it is told that there are no more.           *)
(***************************************************************************)
EXTENDS Database

CONSTANT LeavesBatchSize     \* leaves asked for at a time

ASSUME LeavesBatchSizeAssumption == LeavesBatchSize \in Nat \ {0}

VARIABLES fpc,       \* what fetchLeavesFromPrimary does next
          fstart,    \* req.StartIndex
          fleaves    \* leaves received and not yet added

secVars == <<fpc, fstart, fleaves>>

SecInit ==
  /\ fpc = "idle"
  /\ fstart = 0
  /\ fleaves = << >>

FetchReturns ==
  /\ fpc' = "idle"
  /\ fstart' = 0
  /\ fleaves' = << >>

\* The ticker fires, fetchLeavesFromPrimary is called.
Tick ==
  /\ fpc = "idle"
  /\ fpc' = "head"
  /\ UNCHANGED <<dbVars, fstart, fleaves>>

\* The loop starts: the size of the integrated tree is where to go on.
FetchTreeHead ==
  /\ fpc = "head"
  /\ fstart' = Len(stree)
  /\ fpc' = "fetch"
  /\ UNCHANGED <<dbVars, fleaves>>

\* Primary.GetLeaves; the function returns at the end of the tree, and on
\* any other refusal.  primaryServing: the primary answers at all.
FetchLeaves(primaryServing) ==
  /\ fpc = "fetch"
  /\ primaryServing
  /\ LET rsp == GetLeavesInternal(fstart, fstart + LeavesBatchSize)
     IN  IF rsp.status = 200
         THEN fleaves' = rsp.leaves /\ fpc' = "add" /\ UNCHANGED fstart
         ELSE FetchReturns
  /\ UNCHANGED dbVars

\* AddSequencedLeaves succeeds and the loop goes round.
AddSequencedLeaves ==
  /\ fpc = "add"
  /\ sstored' = WithLeavesAt(sstored, fstart, fleaves)
  /\ fpc' = "head"
  /\ fstart' = 0
  /\ fleaves' = << >>
  /\ UNCHANGED <<ptree, pqueue, stree>>

\* AddSequencedLeaves fails, having written some of the leaves or none.
AddSequencedLeavesFails ==
  /\ fpc = "add"
  /\ \E n \in 0..Len(fleaves) : sstored' = WithLeavesAt(sstored, fstart, SubSeq(fleaves, 1, n))
  /\ FetchReturns
  /\ UNCHANGED <<ptree, pqueue, stree>>

\* A read fails, or the secondary dies and is started again.
FetchFails ==
  /\ fpc # "idle"
  /\ FetchReturns
  /\ UNCHANGED dbVars
=============================================================================
