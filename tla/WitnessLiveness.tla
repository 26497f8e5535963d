-------------------------- MODULE WitnessLiveness --------------------------
(***************************************************************************)
(* What the collector of cosignatures does in the end, once calls have     *)
(* stopped failing.  As in SigsumLogLiveness that is a state: a goroutine  *)
(* that finds its witness ahead of the log ends like one whose call fails. *)
(***************************************************************************)
EXTENDS Witness

VARIABLE calm      \* nothing goes wrong any more

liveVars == <<vars, calm>>

LiveInit == Init /\ calm = FALSE

FaultsStop == ~calm /\ calm' = TRUE /\ UNCHANGED vars

LiveNext ==
  \/ Step /\ UNCHANGED calm
  \/ Fault /\ ~calm /\ UNCHANGED calm
  \/ FaultsStop

\* Rounds follow each other for ever (the loop of Run), goroutines run, and
\* from some time on nothing fails.
FairSpec ==
  /\ LiveInit /\ [][LiveNext]_liveVars
  /\ WF_liveVars(GetCosignatures /\ UNCHANGED calm)
  /\ \A w \in Witnesses : WF_liveVars(Goroutine(w) /\ UNCHANGED calm)
  /\ WF_liveVars(CloseChannel /\ UNCHANGED calm)
  /\ WF_liveVars(CollectorReturns /\ UNCHANGED calm)
  /\ WF_liveVars(FaultsStop)

-----------------------------------------------------------------------------
\* A round comes to its end without any timeout when the witnesses answer:
\* the retry loop of getCosignature does not go round for ever.
RoundEnds == collecting ~> ~collecting

\* Once calls do not fail any more, every witness that is not ahead of the
\* log cosigns again and again, whatever sizes earlier lost answers and
\* restarts have left on either side.
WitnessesCosign ==
  \A w \in Witnesses :
    []<>(witnessSize[w] > size \/ \E i \in 1..Len(cosignatures) : cosignatures[i] = w)
=============================================================================
