------------------------------- MODULE Server -------------------------------
(***************************************************************************)
(* The life of a server process, the same for the two nodes: main starts   *)
(* the node's periodic routine and two HTTP servers as goroutines, waits   *)
(* for a signal or for one of them to end, shuts the HTTP servers down     *)
(* with one time limit for both, and waits for the goroutines.             *)
(***************************************************************************)
EXTENDS Integers

CONSTANT MaxHandlers    \* bound: requests in progress per server

Servers == {"ext", "int"}
Goroutines == Servers \cup {"loop"}

VARIABLES mpc,        \* main: "start", "wait", "ext", "int", "defer", "exited"
          gpc,        \* the goroutines
          wg,         \* the wait group's counter
          cancelled,  \* the context
          closing,    \* servers on which Shutdown has been called
          handlers,   \* requests in progress
          expired     \* the 60 seconds for the two Shutdowns are over

vars == <<mpc, gpc, wg, cancelled, closing, handlers, expired>>

Init ==
  /\ mpc = "start"
  /\ gpc = [g \in Goroutines |-> "none"]
  /\ wg = 0
  /\ cancelled = FALSE
  /\ closing = {}
  /\ handlers = [s \in Servers |-> 0]
  /\ expired = FALSE

Goto(g, p) == gpc' = [gpc EXCEPT ![g] = p]

\* Mutant: the goroutine is not counted before it runs.
GoUncounted(g) ==
  /\ mpc = "start"
  /\ gpc[g] = "none"
  /\ g # "loop" => gpc["loop"] # "none"
  /\ g = "ext" => gpc["int"] # "none"
  /\ wg' = IF g = "loop" THEN wg ELSE wg + 1
  /\ Goto(g, IF g = "loop" THEN "check" ELSE "listen")
  /\ mpc' = IF g = "ext" THEN "wait" ELSE mpc
  /\ UNCHANGED <<cancelled, closing, handlers, expired>>

\* wg.Add(1); go ...: the routine, the internal and the external server.
Go(g) ==
  /\ mpc = "start"
  /\ gpc[g] = "none"
  /\ g # "loop" => gpc["loop"] # "none"
  /\ g = "ext" => gpc["int"] # "none"
  /\ wg' = wg + 1
  /\ Goto(g, IF g = "loop" THEN "check" ELSE "listen")
  /\ mpc' = IF g = "ext" THEN "wait" ELSE mpc
  /\ UNCHANGED <<cancelled, closing, handlers, expired>>

\* SIGINT or SIGTERM, from the first instruction after NotifyContext on.
Signal ==
  /\ mpc # "exited"
  /\ cancelled' = TRUE
  /\ UNCHANGED <<mpc, gpc, wg, closing, handlers, expired>>

LoopGoto(p) == Goto("loop", p) /\ UNCHANGED <<mpc, wg, cancelled, closing, handlers, expired>>

\* Run of either node.  The secondary waits for a tick or the end of the
\* context, and with both to choose from may take the tick; the state manager
\* looks at the context first.
RoundStarts == gpc["loop"] = "check" /\ LoopGoto("round")

RoundEnds == gpc["loop"] = "round" /\ LoopGoto("check")

RunReturns == gpc["loop"] = "check" /\ cancelled /\ LoopGoto("returned")

\* ListenAndServe: on a server that is shut down already it returns.
Listen(s) ==
  /\ gpc[s] = "listen"
  /\ Goto(s, IF s \in closing THEN "returned" ELSE "serve")
  /\ UNCHANGED <<mpc, wg, cancelled, closing, handlers, expired>>

\* The address is in use, or accepting connections fails.
ServeFails(s) ==
  /\ gpc[s] \in {"listen", "serve"}
  /\ Goto(s, "returned")
  /\ UNCHANGED <<mpc, wg, cancelled, closing, handlers, expired>>

RequestStarts(s) ==
  /\ gpc[s] = "serve"
  /\ handlers[s] < MaxHandlers
  /\ handlers' = [handlers EXCEPT ![s] = @ + 1]
  /\ UNCHANGED <<mpc, gpc, wg, cancelled, closing, expired>>

RequestEnds(s) ==
  /\ mpc # "exited"
  /\ handlers[s] > 0
  /\ handlers' = [handlers EXCEPT ![s] = @ - 1]
  /\ UNCHANGED <<mpc, gpc, wg, cancelled, closing, expired>>

\* Mutant: a server that fails does not stop the others.
CancelsOnlyLoop(g) ==
  /\ gpc[g] = "returned"
  /\ cancelled' = (cancelled \/ g = "loop")
  /\ Goto(g, "done")
  /\ UNCHANGED <<mpc, wg, closing, handlers, expired>>

\* The goroutine ends: cancel() ...
Cancels(g) ==
  /\ gpc[g] = "returned"
  /\ cancelled' = TRUE
  /\ Goto(g, "done")
  /\ UNCHANGED <<mpc, wg, closing, handlers, expired>>

\* ... and the deferred wg.Done().
WgDone(g) ==
  /\ gpc[g] = "done"
  /\ wg > 0
  /\ wg' = wg - 1
  /\ Goto(g, "ended")
  /\ UNCHANGED <<mpc, cancelled, closing, handlers, expired>>

\* Shutdown closes the listeners at once, so that Serve returns.
StartShutdown(s) ==
  /\ closing' = closing \cup {s}
  /\ gpc' = [gpc EXCEPT ![s] = IF @ = "serve" THEN "returned" ELSE @]

\* <-ctx.Done(), the time limit starts, extserver.Shutdown.
MainWakes ==
  /\ mpc = "wait"
  /\ cancelled
  /\ mpc' = "ext"
  /\ StartShutdown("ext")
  /\ UNCHANGED <<wg, cancelled, handlers, expired>>

\* Shutdown returns when no request is in progress, or at the time limit.
ExtShutdownReturns ==
  /\ mpc = "ext"
  /\ handlers["ext"] = 0 \/ expired
  /\ mpc' = "int"
  /\ StartShutdown("int")
  /\ UNCHANGED <<wg, cancelled, handlers, expired>>

\* Mutant: Shutdown of the internal server does not wait.
IntShutdownAtOnce ==
  /\ mpc = "int"
  /\ mpc' = "defer"
  /\ UNCHANGED <<gpc, wg, cancelled, closing, handlers, expired>>

IntShutdownReturns ==
  /\ mpc = "int"
  /\ handlers["int"] = 0 \/ expired
  /\ mpc' = "defer"
  /\ UNCHANGED <<gpc, wg, cancelled, closing, handlers, expired>>

TimeLimit ==
  /\ mpc \in {"ext", "int"}
  /\ ~expired
  /\ expired' = TRUE
  /\ UNCHANGED <<mpc, gpc, wg, cancelled, closing, handlers>>

\* main returns: cancel() and wg.Wait() are deferred.  Requests that are
\* still in progress end with the process.
Exits ==
  /\ mpc = "defer"
  /\ wg = 0
  /\ mpc' = "exited"
  /\ UNCHANGED <<gpc, wg, cancelled, closing, handlers, expired>>

GoroutineStep(g) == Cancels(g) \/ WgDone(g)

MainStep == MainWakes \/ ExtShutdownReturns \/ IntShutdownReturns \/ Exits

Next ==
  \/ \E g \in Goroutines : Go(g) \/ GoroutineStep(g)
  \/ \E s \in Servers : Listen(s) \/ ServeFails(s) \/ RequestStarts(s) \/ RequestEnds(s)
  \/ RoundStarts \/ RoundEnds \/ RunReturns
  \/ Signal
  \/ MainStep
  \/ TimeLimit

Spec == Init /\ [][Next]_vars

\* The goroutines are scheduled and time passes.  The context is taken by Run
\* at some time if it can be again and again, since select chooses at random.
\* Requests need not end, and no signal need come.
ProcessFairness ==
  /\ \A g \in Goroutines : WF_vars(Go(g)) /\ WF_vars(GoroutineStep(g))
  /\ \A s \in Servers : WF_vars(Listen(s))
  /\ SF_vars(RunReturns)
  /\ WF_vars(MainStep)
  /\ WF_vars(TimeLimit)

-----------------------------------------------------------------------------
\* Whoever ends it and however late a goroutine gets to run, the process
\* does not exit in the middle of a round: no head is signed but not stored,
\* or stored but not published, because of an orderly exit.
RoundsFinish == mpc = "exited" => gpc["loop"] = "ended"

\* Nor in the middle of a request, unless the time limit has cut it short.
RequestsFinish == mpc = "exited" /\ ~expired => \A s \in Servers : handlers[s] = 0

\* "Must have state manager running": when the routine or a server ends, or
\* a signal arrives, also before the servers listen, the process exits, even
\* if requests in progress never end.
Stops == cancelled \/ (\E g \in Goroutines : gpc[g] \in {"returned", "done", "ended"}) ~> mpc = "exited"

Running(g) == IF gpc[g] \in {"none", "ended"} THEN 0 ELSE 1

\* The inductive invariant: the wait group counts the goroutines that have
\* been started and have not ended, which is what makes "wait for clean-up
\* before exit" (the comment on it in main) true; a server that is being
\* shut down accepts nothing any more, so that a drained one stays drained.
ServerInv ==
  /\ mpc \in {"start", "wait", "ext", "int", "defer", "exited"}
  /\ gpc \in [Goroutines -> {"none", "listen", "serve", "check", "round", "returned", "done", "ended"}]
  /\ handlers \in [Servers -> Nat]
  /\ expired \in BOOLEAN
  /\ wg = Running("loop") + Running("int") + Running("ext")
  /\ mpc # "start" => \A g \in Goroutines : gpc[g] # "none"
  /\ mpc \in {"ext", "int", "defer", "exited"} => "ext" \in closing
  /\ mpc \in {"int", "defer", "exited"} => "int" \in closing
  /\ \A s \in Servers : s \in closing => gpc[s] # "serve"
  /\ mpc \in {"int", "defer", "exited"} /\ ~expired => handlers["ext"] = 0
  /\ mpc \in {"defer", "exited"} /\ ~expired => handlers["int"] = 0
  /\ mpc = "exited" => wg = 0
=============================================================================
