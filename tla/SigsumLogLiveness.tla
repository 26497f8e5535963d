------------------------- MODULE SigsumLogLiveness -------------------------
(***************************************************************************)
(* What a log does in the end, once things have stopped going wrong.       *)
(*                                                                         *)
(* That faults stop is a state (calm) and no formula about steps: a refused*)
(* get-leaves request ends the secondary's loop just as a failed one does, *)
(* so the two cannot be told apart by the states before and after.         *)
(***************************************************************************)
EXTENDS SigsumLog

VARIABLE calm      \* nothing goes wrong any more

liveVars == <<vars, calm>>

LiveInit == Init /\ calm = FALSE

FaultsStop == ~calm /\ calm' = TRUE /\ UNCHANGED vars

LiveNext ==
  \/ Step /\ UNCHANGED calm
  \/ Fault /\ ~calm /\ UNCHANGED calm
  \/ FaultsStop

(***************************************************************************)
(* Fairness.  The loops of Run and fetchLeavesFromPrimary are goroutines   *)
(* driven by timers, so a step that stays possible is taken; the operator  *)
(* starts a server that is down; Trillian's sequencer and integrator run   *)
(* periodically; calls of add-leaf in progress are served.  Nothing is     *)
(* assumed of clients.  Faults may happen any number of times, but from    *)
(* some time on they stop.                                                 *)
(***************************************************************************)
Fairness ==
  /\ WF_liveVars(OperatorStep /\ UNCHANGED calm)
  /\ WF_liveVars(StateManagerStep /\ UNCHANGED calm)
  /\ WF_liveVars(AddLeafStep /\ UNCHANGED calm)
  /\ WF_liveVars(SecondaryStep /\ UNCHANGED calm)
  /\ WF_liveVars(Sequence /\ UNCHANGED <<fileVars, smVars, addVars, secVars, calm>>)
  /\ WF_liveVars(Integrate /\ UNCHANGED <<fileVars, smVars, addVars, secVars, calm>>)
  /\ WF_liveVars(FaultsStop)

FairSpec == LiveInit /\ [][LiveNext]_liveVars /\ Fairness

-----------------------------------------------------------------------------
\* Every leaf that reached the primary's backend is published in the end,
\* through the loops of the secondary and of the state manager.
LeafPublished ==
  \A l \in Leaf :
    (l \in pqueue \/ IncludedAt(ptree, Len(ptree), l))
       ~> IncludedAt(cosignedTreeHead, Len(cosignedTreeHead), l)

\* A submitter that repeats its add-leaf request gets it confirmed.
RetriedLeafAcked ==
  \A l \in Leaf : ([]<><<AddLeafStart(l)>>_vars) => <>(l \in acked)
=============================================================================
