--------------------------- MODULE TrillianWrite ---------------------------
(***************************************************************************)
(* The process of the secondary: module Server, in which a round of the    *)
(* routine is fetchLeavesFromPrimary, with TrillianClient's                *)
(* AddSequencedLeaves in detail.  A backend that is out of resources is    *)
(* asked again, after sleeps of 1, 2, 4, 8 and 16 seconds, which the       *)
(* context does not cut short.  In module Secondary the call is one step.  *)
(***************************************************************************)
EXTENDS Secondary, Server

VARIABLES wpc,        \* in the call: "none", "try", "called", "sleep"
          wait,       \* seconds
          overslept   \* seconds slept in a call that end after a signal

callVars == <<wpc, wait, overslept>>

processVars == vars

allVars == <<dbVars, secVars, callVars, processVars>>

WriteInit ==
  /\ Init
  /\ DbInit
  /\ SecInit
  /\ wpc = "none"
  /\ wait = 0
  /\ overslept = 0

\* The primary's backend gets another leaf.
PrimaryGrows ==
  /\ \E l \in Leaf : ~IncludedAt(ptree, Len(ptree), l) /\ ptree' = Append(ptree, l)
  /\ UNCHANGED <<pqueue, stree, sstored, secVars>>

\* The round is over when fetchLeavesFromPrimary has returned.
RoundFollows == IF fpc' = "idle" THEN RoundEnds ELSE UNCHANGED processVars

\* Run and fetchLeavesFromPrimary, up to the call.  With a cancelled context
\* every call of theirs fails.
FetchStep ==
  /\ \/ Tick /\ RoundStarts
     \/ ~cancelled /\ (FetchTreeHead \/ FetchLeaves(TRUE)) /\ RoundFollows
     \/ fpc # "add" /\ FetchFails /\ RoundFollows
  /\ UNCHANGED callVars

StartCall ==
  /\ fpc = "add"
  /\ wpc = "none"
  /\ wpc' = "try"
  /\ wait' = 1
  /\ UNCHANGED <<dbVars, secVars, overslept>>

EndCall == wpc' = "none" /\ wait' = 0 /\ UNCHANGED overslept

\* A request is sent, unless the context is cancelled.
SendRequest ==
  /\ wpc = "try"
  /\ IF cancelled
     THEN FetchReturns /\ EndCall
     ELSE wpc' = "called" /\ UNCHANGED <<secVars, wait, overslept>>
  /\ UNCHANGED dbVars

\* codes.OK: all leaves are stored.
ResponseOk == wpc = "called" /\ AddSequencedLeaves /\ EndCall

\* Any other code than the one below; some leaves may be stored.
ResponseError == wpc = "called" /\ AddSequencedLeavesFails /\ EndCall

\* codes.ResourceExhausted: the request was refused as a whole.
ResponseExhausted ==
  /\ wpc = "called"
  /\ wpc' = "sleep"
  /\ UNCHANGED <<dbVars, secVars, wait, overslept>>

\* Mutant: one more attempt.
WakeUpLater ==
  /\ wpc = "sleep"
  /\ overslept' = IF cancelled THEN overslept + wait ELSE overslept
  /\ IF 2 * wait < 60
     THEN wpc' = "try" /\ wait' = 2 * wait /\ UNCHANGED secVars
     ELSE wpc' = "none" /\ wait' = 0 /\ FetchReturns
  /\ UNCHANGED dbVars

\* Mutant: the end of the loop is no error.
WakeUpNoError ==
  /\ wpc = "sleep"
  /\ overslept' = IF cancelled THEN overslept + wait ELSE overslept
  /\ IF 2 * wait < 30
     THEN wpc' = "try" /\ wait' = 2 * wait /\ UNCHANGED secVars
     ELSE wpc' = "none" /\ wait' = 0 /\ fpc' = "head" /\ fstart' = 0 /\ fleaves' = << >>
  /\ UNCHANGED dbVars

\* Mutant: no back-off, and so no end.
WakeUpNoBackoff ==
  /\ wpc = "sleep"
  /\ overslept' = overslept
  /\ wpc' = "try"
  /\ UNCHANGED <<dbVars, secVars, wait>>

\* The loop goes round, or gives up.
WakeUp ==
  /\ wpc = "sleep"
  /\ overslept' = IF cancelled THEN overslept + wait ELSE overslept
  /\ IF 2 * wait < 30
     THEN wpc' = "try" /\ wait' = 2 * wait /\ UNCHANGED secVars
     ELSE wpc' = "none" /\ wait' = 0 /\ FetchReturns
  /\ UNCHANGED dbVars

CallStep ==
  /\ StartCall \/ SendRequest \/ ResponseOk \/ ResponseError \/ ResponseExhausted \/ WakeUp
  /\ RoundFollows

\* The rest of the process: main, the HTTP servers, the ends of goroutines.
ProcessStep ==
  \/ \E g \in Goroutines : Go(g) \/ GoroutineStep(g)
  \/ \E s \in Servers : Listen(s) \/ ServeFails(s) \/ RequestStarts(s) \/ RequestEnds(s)
  \/ RunReturns
  \/ Signal
  \/ MainStep
  \/ TimeLimit

WriteNext ==
  \/ FetchStep
  \/ CallStep
  \/ ProcessStep /\ UNCHANGED <<dbVars, secVars, callVars>>
  \/ PrimaryGrows /\ UNCHANGED <<callVars, processVars>>
  \/ Integrate /\ UNCHANGED <<secVars, callVars, processVars>>

WriteSpec == WriteInit /\ [][WriteNext]_allVars

\* With what module Server assumes: the loop runs, calls are answered and
\* sleeps end.
FairSpec ==
  /\ WriteSpec
  /\ WF_allVars(FetchStep)
  /\ WF_allVars(CallStep)
  /\ ProcessFairness

-----------------------------------------------------------------------------
\* The retry loop can be taken for one call that succeeds or fails: it is
\* what module Secondary, and with it the model of the log, assumes of it.
CallIsAtomic ==
  /\ DbInit
  /\ SecInit
  /\ [][\/ PrimaryGrows
        \/ Integrate /\ UNCHANGED secVars
        \/ Tick \/ FetchTreeHead \/ FetchLeaves(TRUE) \/ FetchFails
        \/ AddSequencedLeaves \/ AddSequencedLeavesFails]_<<dbVars, secVars>>

\* A call is over, whatever the backend answers and however often.
CallsEnd == fpc = "add" ~> fpc # "add"

\* The sleep that ends after the signal is the last: the server's exit waits
\* for no more than 16 seconds for it.
OneSleepAfterCancel == overslept <= 16

\* The inductive invariant: a round of the process is a run of
\* fetchLeavesFromPrimary, the retry loop runs only inside its call, and
\* once a sleep has ended after the signal there is no way back to another.
WriteInv ==
  /\ cancelled \in BOOLEAN
  /\ fpc \in {"idle", "head", "fetch", "add"}
  /\ fpc = "idle" <=> gpc["loop"] # "round"
  /\ \/ wpc = "none" /\ wait = 0
     \/ wpc \in {"try", "called", "sleep"} /\ wait \in {1, 2, 4, 8, 16} /\ fpc = "add"
  /\ \/ overslept = 0
     \/ overslept \in {1, 2, 4, 8, 16} /\ cancelled /\ (fpc = "add" => wpc = "try")
=============================================================================
