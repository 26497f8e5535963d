---------------------------- MODULE ServerProofs ----------------------------
(***************************************************************************)
(* Proofs about the exit of a server process, for any number of requests   *)
(* in progress, and about the process of the secondary, for any trees and  *)
(* batches: it is such a process, and its retry loop is one call.          *)
(***************************************************************************)
EXTENDS TrillianWrite, TLAPS

USE DEF Goroutines, Servers

LEMMA InitServerInv == Init => ServerInv
<1> SUFFICES ASSUME Init PROVE ServerInv
  OBVIOUS
<1>1. gpc["loop"] = "none" /\ gpc["int"] = "none" /\ gpc["ext"] = "none"
  BY DEF Init
<1>2. Running("loop") = 0 /\ Running("int") = 0 /\ Running("ext") = 0
  BY <1>1 DEF Running
<1>3. /\ gpc \in [Goroutines -> {"none", "listen", "serve", "check", "round", "returned", "done", "ended"}]
      /\ handlers \in [Servers -> Nat]
      /\ \A s \in Servers : gpc[s] # "serve"
  BY DEF Init
<1>4. expired \in BOOLEAN
  BY Zenon DEF Init
<1>5. QED
  BY <1>2, <1>3, <1>4 DEF Init, ServerInv

\* main starts the goroutines.
LEMMA GoLemma ==
  ASSUME ServerInv, NEW g \in Goroutines, Go(g)
  PROVE  ServerInv'
BY DEF ServerInv, Running, Go, Goto

\* The goroutines run and end.
LEMMA GoroutineLemma ==
  ASSUME ServerInv, NEW g \in Goroutines, GoroutineStep(g)
  PROVE  ServerInv'
<1>1. CASE Cancels(g)
  BY <1>1 DEF ServerInv, Running, Cancels, Goto
<1>2. CASE WgDone(g)
  BY <1>2 DEF ServerInv, Running, WgDone, Goto
<1>3. QED
  BY <1>1, <1>2 DEF GoroutineStep

LEMMA ServeLemma ==
  ASSUME ServerInv, NEW s \in Servers,
         Listen(s) \/ ServeFails(s) \/ RequestStarts(s) \/ RequestEnds(s)
  PROVE  ServerInv'
<1>1. CASE Listen(s) \/ ServeFails(s)
  BY <1>1 DEF ServerInv, Running, Listen, ServeFails, Goto
<1>2. CASE RequestStarts(s)
  BY <1>2 DEF ServerInv, Running, RequestStarts
<1>3. CASE RequestEnds(s)
  BY <1>3 DEF ServerInv, Running, RequestEnds
<1>4. QED
  BY <1>1, <1>2, <1>3

LEMMA LoopLemma ==
  ASSUME ServerInv, RoundStarts \/ RoundEnds \/ RunReturns
  PROVE  ServerInv'
BY DEF ServerInv, Running, RoundStarts, RoundEnds, RunReturns, LoopGoto, Goto

\* main shuts the servers down and waits.
LEMMA MainLemma ==
  ASSUME ServerInv, MainStep
  PROVE  ServerInv'
<1>1. CASE MainWakes
  BY <1>1 DEF ServerInv, Running, MainWakes, StartShutdown
<1>2. CASE ExtShutdownReturns
  BY <1>2 DEF ServerInv, Running, ExtShutdownReturns, StartShutdown
<1>3. CASE IntShutdownReturns
  BY <1>3 DEF ServerInv, Running, IntShutdownReturns
<1>4. CASE Exits
  BY <1>4 DEF ServerInv, Running, Exits
<1>5. QED
  BY <1>1, <1>2, <1>3, <1>4 DEF MainStep

LEMMA OutsideLemma ==
  ASSUME ServerInv, Signal \/ TimeLimit \/ UNCHANGED vars
  PROVE  ServerInv'
BY DEF ServerInv, Running, Signal, TimeLimit, vars

\* ServerInv is an invariant of main, its goroutines and its servers.
THEOREM ServerInvariant == Spec => []ServerInv
<1>1. ServerInv /\ [Next]_vars => ServerInv'
  BY GoLemma, GoroutineLemma, ServeLemma, LoopLemma, MainLemma, OutsideLemma DEF Next
<1>2. QED
  BY <1>1, InitServerInv, PTL DEF Spec

\* main does not return before Run has: an orderly exit, whatever ends it,
\* comes after the last round.
THEOREM RoundsAreFinished == Spec => []RoundsFinish
<1>1. ServerInv => RoundsFinish
  BY DEF ServerInv, RoundsFinish, Running
<1>2. QED
  BY <1>1, ServerInvariant, PTL

\* The two calls of Shutdown leave no request behind within the time limit.
THEOREM RequestsAreFinished == Spec => []RequestsFinish
<1>1. ServerInv => RequestsFinish
  BY DEF ServerInv, RequestsFinish
<1>2. QED
  BY <1>1, ServerInvariant, PTL

-----------------------------------------------------------------------------
\* The rounds of the secondary are rounds of the process.
LEMMA RoundFollowsLemma ==
  ASSUME RoundFollows
  PROVE  [Next]_vars
BY DEF RoundFollows, Next, processVars

\* The secondary, whatever its fetches and its retry loop do, is a process as
\* module Server describes it, so that the theorems above hold of it.
THEOREM SecondaryIsServer == WriteSpec => Spec
<1>1. WriteInit => Init
  BY DEF WriteInit
<1>2. ASSUME [WriteNext]_allVars PROVE [Next]_vars
  <2>1. CASE FetchStep
    BY <2>1, RoundFollowsLemma DEF FetchStep, Next
  <2>2. CASE CallStep
    BY <2>2, RoundFollowsLemma DEF CallStep
  <2>3. CASE ProcessStep
    BY <2>3 DEF ProcessStep, Next
  <2>4. CASE UNCHANGED processVars
    BY <2>4 DEF processVars
  <2>5. QED
    BY <1>2, <2>1, <2>2, <2>3, <2>4 DEF WriteNext, allVars
<1>3. QED
  BY <1>1, <1>2, PTL DEF WriteSpec, Spec

-----------------------------------------------------------------------------
LEMMA InitWriteInv == WriteInit => WriteInv
<1> SUFFICES ASSUME WriteInit PROVE WriteInv
  OBVIOUS
<1>1. cancelled \in BOOLEAN
  BY Zenon DEF WriteInit, Init
<1>2. gpc["loop"] = "none"
  BY DEF WriteInit, Init
<1>3. QED
  BY <1>1, <1>2 DEF WriteInit, SecInit, WriteInv

\* The loop's state after a round has ended or gone on.
LEMMA RoundFollowsFacts ==
  ASSUME ServerInv, RoundFollows
  PROVE  /\ cancelled' = cancelled
         /\ fpc' = "idle" => gpc'["loop"] = "check"
         /\ fpc' # "idle" => gpc' = gpc
BY DEF ServerInv, RoundFollows, RoundEnds, LoopGoto, Goto, processVars, vars

LEMMA FetchStepLemma ==
  ASSUME WriteInv, ServerInv, FetchStep
  PROVE  WriteInv'
<1>1. UNCHANGED <<wpc, wait, overslept>>
  BY DEF FetchStep, callVars
<1>2. CASE Tick /\ RoundStarts
  <2>1. gpc'["loop"] = "round" /\ cancelled' = cancelled
    BY <1>2 DEF ServerInv, RoundStarts, LoopGoto, Goto
  <2>2. fpc = "idle" /\ fpc' = "head"
    BY <1>2 DEF Tick
  <2>3. QED
    BY <1>1, <2>1, <2>2 DEF WriteInv
<1>3. CASE ~cancelled /\ (FetchTreeHead \/ FetchLeaves(TRUE)) /\ RoundFollows
  <2>1. fpc \in {"head", "fetch"} /\ fpc' \in {"idle", "fetch", "add"}
    BY <1>3 DEF FetchTreeHead, FetchLeaves, FetchReturns
  <2>2. QED
    BY <1>1, <1>3, <2>1, RoundFollowsFacts DEF WriteInv
<1>4. CASE fpc # "add" /\ FetchFails /\ RoundFollows
  <2>1. fpc' = "idle"
    BY <1>4 DEF FetchFails, FetchReturns
  <2>2. QED
    BY <1>1, <1>4, <2>1, RoundFollowsFacts DEF WriteInv
<1>5. QED
  BY <1>2, <1>3, <1>4 DEF FetchStep

LEMMA CallStepLemma ==
  ASSUME WriteInv, ServerInv, CallStep
  PROVE  WriteInv'
<1>1. /\ cancelled' = cancelled
      /\ fpc' = "idle" => gpc'["loop"] = "check"
      /\ fpc' # "idle" => gpc' = gpc
  BY RoundFollowsFacts DEF CallStep
<1>2. CASE StartCall
  BY <1>1, <1>2 DEF WriteInv, StartCall, secVars
<1>3. CASE SendRequest
  BY <1>1, <1>3 DEF WriteInv, SendRequest, secVars, FetchReturns, EndCall
<1>4. CASE ResponseOk
  BY <1>1, <1>4 DEF WriteInv, ResponseOk, AddSequencedLeaves, EndCall
<1>5. CASE ResponseError
  BY <1>1, <1>5 DEF WriteInv, ResponseError, AddSequencedLeavesFails, FetchReturns, EndCall
<1>6. CASE ResponseExhausted
  BY <1>1, <1>6 DEF WriteInv, ResponseExhausted, secVars
<1>7. CASE WakeUp
  BY <1>1, <1>7 DEF WriteInv, WakeUp, secVars, FetchReturns
<1>8. QED
  BY <1>2, <1>3, <1>4, <1>5, <1>6, <1>7 DEF CallStep

\* The rest of the process neither starts nor ends a round, and a context
\* stays cancelled.
LEMMA ProcessStepLemma ==
  ASSUME WriteInv, ServerInv, ProcessStep, UNCHANGED <<dbVars, secVars, callVars>>
  PROVE  WriteInv'
<1>1. /\ gpc'["loop"] = "round" <=> gpc["loop"] = "round"
      /\ cancelled' = cancelled \/ cancelled' = TRUE
  <2>1. CASE \E g \in Goroutines : Go(g)
    BY <2>1 DEF ServerInv, Go, Goto
  <2>2. CASE \E g \in Goroutines : Cancels(g) \/ WgDone(g)
    BY <2>2 DEF ServerInv, Cancels, WgDone, Goto
  <2>3. CASE \E s \in Servers : Listen(s) \/ ServeFails(s) \/ RequestStarts(s) \/ RequestEnds(s)
    BY <2>3 DEF ServerInv, Listen, ServeFails, RequestStarts, RequestEnds, Goto
  <2>4. CASE RunReturns \/ Signal \/ TimeLimit
    BY <2>4 DEF ServerInv, RunReturns, LoopGoto, Goto, Signal, TimeLimit
  <2>5. CASE MainStep
    BY <2>5 DEF ServerInv, MainStep, MainWakes, ExtShutdownReturns, IntShutdownReturns, Exits, StartShutdown
  <2>6. QED
    BY <2>1, <2>2, <2>3, <2>4, <2>5 DEF ProcessStep, GoroutineStep
<1>2. UNCHANGED <<fpc, wpc, wait, overslept>>
  BY DEF secVars, callVars
<1>3. cancelled' \in BOOLEAN /\ (cancelled => cancelled')
  <2>1. cancelled \in BOOLEAN
    BY Zenon DEF WriteInv
  <2>2. CASE cancelled' = cancelled
    BY <2>1, <2>2, Zenon
  <2>3. CASE cancelled' = TRUE
    BY <2>3, Zenon
  <2>4. QED
    BY <1>1, <2>2, <2>3
<1>4. QED
  BY <1>1, <1>2, <1>3 DEF WriteInv

\* WriteInv is an invariant of the secondary's process.
THEOREM WriteInvariant == WriteSpec => []WriteInv
<1>1. ASSUME WriteInv, ServerInv, [WriteNext]_allVars PROVE WriteInv'
  <2>1. CASE PrimaryGrows /\ UNCHANGED <<callVars, processVars>>
    BY <1>1, <2>1 DEF WriteInv, PrimaryGrows, secVars, callVars, processVars, vars
  <2>2. CASE UNCHANGED <<secVars, callVars, processVars>>
    BY <1>1, <2>2 DEF WriteInv, secVars, callVars, processVars, vars
  <2>3. QED
    BY <1>1, <2>1, <2>2, FetchStepLemma, CallStepLemma, ProcessStepLemma DEF WriteNext, allVars
<1>2. QED
  BY <1>1, InitWriteInv, SecondaryIsServer, ServerInvariant, PTL DEF WriteSpec

\* After a signal no more than one sleep of the retry loop is waited for.
THEOREM OneSleepLeft == WriteSpec => []OneSleepAfterCancel
<1>1. WriteInv => OneSleepAfterCancel
  BY DEF WriteInv, OneSleepAfterCancel
<1>2. QED
  BY <1>1, WriteInvariant, PTL

-----------------------------------------------------------------------------
\* What a step of the retry loop is to one that sees a single call.
LEMMA CallStepAtomic ==
  ASSUME WriteInv, CallStep
  PROVE  AddSequencedLeaves \/ AddSequencedLeavesFails \/ FetchFails \/ UNCHANGED <<dbVars, secVars>>
<1>1. CASE StartCall \/ ResponseExhausted
  BY <1>1 DEF StartCall, ResponseExhausted
<1>2. CASE SendRequest
  BY <1>2 DEF WriteInv, SendRequest, FetchFails
<1>3. CASE ResponseOk \/ ResponseError
  BY <1>3 DEF ResponseOk, ResponseError
<1>4. CASE WakeUp
  BY <1>4 DEF WriteInv, WakeUp, FetchFails
<1>5. QED
  BY <1>1, <1>2, <1>3, <1>4 DEF CallStep

\* The retry loop implements the one step that module Secondary, and with it
\* the model of the log, has for AddSequencedLeaves: every other step of the
\* process leaves the databases and the fetch alone, or is one of theirs.
THEOREM RetriesAreOneCall == WriteSpec => CallIsAtomic
<1> DEFINE Step == \/ PrimaryGrows
                   \/ Integrate /\ UNCHANGED secVars
                   \/ Tick \/ FetchTreeHead \/ FetchLeaves(TRUE) \/ FetchFails
                   \/ AddSequencedLeaves \/ AddSequencedLeavesFails
<1>1. WriteInit => DbInit /\ SecInit
  BY DEF WriteInit
<1>2. ASSUME WriteInv, [WriteNext]_allVars PROVE [Step]_<<dbVars, secVars>>
  <2>1. CASE FetchStep
    BY <2>1 DEF FetchStep
  <2>2. CASE CallStep
    BY <1>2, <2>2, CallStepAtomic
  <2>3. CASE UNCHANGED <<dbVars, secVars>>
    BY <2>3
  <2>4. QED
    BY <1>2, <2>1, <2>2, <2>3 DEF WriteNext, allVars
<1>3. QED
  BY <1>1, <1>2, WriteInvariant, PTL DEF WriteSpec, CallIsAtomic
=============================================================================
