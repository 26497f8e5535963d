------------------------------ MODULE Witness ------------------------------
(***************************************************************************)
(* Collection of cosignatures (internal/witness).  In each round           *)
(* GetCosignatures starts one goroutine per witness, which asks for a      *)
(* consistency proof, sends the tree head and, when the witness disagrees  *)
(* about the old size, asks for that size and tries again.  Cosignatures   *)
(* travel over an unbuffered channel that another goroutine closes when    *)
(* the wait group is down to zero.                                         *)
(*                                                                         *)
(* A tree head is its size here: heads of a log are prefixes of each other *)
(* (module SigsumLog), so a proof for increasing sizes always verifies.    *)
(***************************************************************************)
EXTENDS Integers, Sequences, FiniteSets

CONSTANTS Witnesses,     \* the configured witnesses
          MaxSize        \* bound: tree sizes

ASSUME MaxSizeAssumption == MaxSize \in Nat
ASSUME WitnessesAssumption == IsFiniteSet(Witnesses)

VARIABLES size,          \* sth.Size of the round, or of the last one
          witnessSize,   \* external: the size each witness has cosigned
          prevSize,      \* witness.prevSize, for each witness
          gpc,           \* where the goroutine of each witness is
          wg,            \* the wait group's counter
          closed,        \* the channel has been closed
          collecting,    \* GetCosignatures is running
          obtained,      \* witnesses whose cosignature of this round verified
          cosignatures   \* witnesses in the order their cosignatures arrived

vars == <<size, witnessSize, prevSize, gpc, wg, closed, collecting, obtained, cosignatures>>

\* A log that is (re)started with a tree of some size; witnesses may know
\* less of it, or, when the log has lost leaves, more.
Init ==
  /\ size \in 0..MaxSize
  /\ witnessSize \in [Witnesses -> 0..MaxSize]
  /\ prevSize = [w \in Witnesses |-> 0]
  /\ gpc = [w \in Witnesses |-> "none"]
  /\ wg = 0
  /\ closed = TRUE
  /\ collecting = FALSE
  /\ obtained = {}
  /\ cosignatures = << >>

\* Mutant: the goroutines have not been added to the wait group.
GetCosignaturesNoAdd ==
  /\ ~collecting
  /\ size' \in size..MaxSize
  /\ gpc' = [w \in Witnesses |-> "proof"]
  /\ wg' = 0
  /\ closed' = FALSE
  /\ collecting' = TRUE
  /\ obtained' = {}
  /\ cosignatures' = << >>
  /\ UNCHANGED <<witnessSize, prevSize>>

\* GetCosignatures is called for a tree head that is not smaller than the
\* previous one, and starts the goroutines.
GetCosignatures ==
  /\ ~collecting
  /\ size' \in size..MaxSize
  /\ gpc' = [w \in Witnesses |-> "proof"]
  /\ wg' = Cardinality(Witnesses)
  /\ closed' = FALSE
  /\ collecting' = TRUE
  /\ obtained' = {}
  /\ cosignatures' = << >>
  /\ UNCHANGED <<witnessSize, prevSize>>

Goto(w, pc) == gpc' = [gpc EXCEPT ![w] = pc]

\* Mutant: a proof between equal sizes is refused.
GetConsistencyProofStrict(w) ==
  /\ gpc[w] = "proof"
  /\ Goto(w, IF prevSize[w] >= size THEN "done" ELSE "add")
  /\ UNCHANGED <<size, witnessSize, prevSize, wg, closed, collecting, obtained, cosignatures>>

\* Mutant: from a larger to a smaller size there is a trivial proof as well.
GetConsistencyProofTrivial(w) ==
  /\ gpc[w] = "proof"
  /\ Goto(w, "add")
  /\ UNCHANGED <<size, witnessSize, prevSize, wg, closed, collecting, obtained, cosignatures>>

\* getConsistencyProof: no backend has a proof from a larger to a smaller size.
GetConsistencyProof(w) ==
  /\ gpc[w] = "proof"
  /\ Goto(w, IF prevSize[w] > size THEN "done" ELSE "add")
  /\ UNCHANGED <<size, witnessSize, prevSize, wg, closed, collecting, obtained, cosignatures>>

\* AddTreeHead: the witness cosigns when the old size is the one it knows,
\* and answers with a conflict otherwise.
AddTreeHead(w) ==
  /\ gpc[w] = "add"
  /\ IF prevSize[w] = witnessSize[w]
     THEN /\ witnessSize' = [witnessSize EXCEPT ![w] = size]
          /\ prevSize' = [prevSize EXCEPT ![w] = size]
          /\ obtained' = obtained \cup {w}
          /\ Goto(w, "send")
     ELSE /\ Goto(w, "size")
          /\ UNCHANGED <<witnessSize, prevSize, obtained>>
  /\ UNCHANGED <<size, wg, closed, collecting, cosignatures>>

\* Mutant: the answer is not remembered.
GetTreeSizeForgets(w) ==
  /\ gpc[w] = "size"
  /\ Goto(w, "proof")
  /\ UNCHANGED <<size, witnessSize, prevSize, wg, closed, collecting, obtained, cosignatures>>

\* The size the witness knows is where the next attempt starts from.
GetTreeSize(w) ==
  /\ gpc[w] = "size"
  /\ prevSize' = [prevSize EXCEPT ![w] = witnessSize[w]]
  /\ Goto(w, "proof")
  /\ UNCHANGED <<size, witnessSize, wg, closed, collecting, obtained, cosignatures>>

\* ch <- cs meets the range loop of the collector.
SendCosignature(w) ==
  /\ gpc[w] = "send"
  /\ ~closed
  /\ cosignatures' = Append(cosignatures, w)
  /\ Goto(w, "done")
  /\ UNCHANGED <<size, witnessSize, prevSize, wg, closed, collecting, obtained>>

\* Mutant: a goroutine may give up on sending, the cosignature is dropped.
WgDoneDropping(w) ==
  /\ gpc[w] \in {"send", "done"}
  /\ wg' = wg - 1
  /\ Goto(w, "none")
  /\ UNCHANGED <<size, witnessSize, prevSize, closed, collecting, obtained, cosignatures>>

WgDone(w) ==
  /\ gpc[w] = "done"
  /\ wg' = wg - 1
  /\ Goto(w, "none")
  /\ UNCHANGED <<size, witnessSize, prevSize, closed, collecting, obtained, cosignatures>>

\* Mutant: the channel is closed while a goroutine is still running.
CloseChannelEarly ==
  /\ collecting
  /\ ~closed
  /\ wg <= 1
  /\ closed' = TRUE
  /\ UNCHANGED <<size, witnessSize, prevSize, gpc, wg, collecting, obtained, cosignatures>>

\* The goroutine that waits and closes the channel.
CloseChannel ==
  /\ collecting
  /\ ~closed
  /\ wg = 0
  /\ closed' = TRUE
  /\ UNCHANGED <<size, witnessSize, prevSize, gpc, wg, collecting, obtained, cosignatures>>

\* The range loop sees the closed channel, GetCosignatures returns.
CollectorReturns ==
  /\ collecting
  /\ closed
  /\ collecting' = FALSE
  /\ UNCHANGED <<size, witnessSize, prevSize, gpc, wg, closed, obtained, cosignatures>>

-----------------------------------------------------------------------------
\* The backend or the witness fails, the context times out, or the answer
\* is lost or does not verify, after the witness has cosigned or before.
CallFails(w) ==
  /\ gpc[w] \in {"proof", "add", "size"}
  /\ \/ UNCHANGED witnessSize
     \/ /\ gpc[w] = "add"
        /\ prevSize[w] = witnessSize[w]
        /\ witnessSize' = [witnessSize EXCEPT ![w] = size]
  /\ Goto(w, "done")
  /\ UNCHANGED <<size, prevSize, wg, closed, collecting, obtained, cosignatures>>

\* The log server is started again: newWitness sets prevSize to zero.
Restart ==
  /\ prevSize' = [w \in Witnesses |-> 0]
  /\ gpc' = [w \in Witnesses |-> "none"]
  /\ wg' = 0
  /\ closed' = TRUE
  /\ collecting' = FALSE
  /\ obtained' = {}
  /\ cosignatures' = << >>
  /\ UNCHANGED <<size, witnessSize>>

Goroutine(w) ==
  \/ GetConsistencyProof(w)
  \/ AddTreeHead(w)
  \/ GetTreeSize(w)
  \/ SendCosignature(w)
  \/ WgDone(w)

Fault == Restart \/ \E w \in Witnesses : CallFails(w)

Step ==
  \/ GetCosignatures
  \/ \E w \in Witnesses : Goroutine(w)
  \/ CloseChannel
  \/ CollectorReturns

Next == Step \/ Fault

Spec == Init /\ [][Next]_vars

-----------------------------------------------------------------------------
\* The values of the variables, with the counter of sync.WaitGroup, which
\* panics when it gets negative.
TypeOK ==
  /\ size \in 0..MaxSize
  /\ witnessSize \in [Witnesses -> 0..MaxSize]
  /\ prevSize \in [Witnesses -> 0..MaxSize]
  /\ gpc \in [Witnesses -> {"none", "proof", "add", "size", "send", "done"}]
  /\ wg \in 0..Cardinality(Witnesses)
  /\ closed \in BOOLEAN
  /\ collecting \in BOOLEAN
  /\ obtained \in SUBSET Witnesses
  /\ cosignatures \in Seq(Witnesses)

\* What GetCosignatures returns is every cosignature that was obtained and
\* verified in this round, once: the wait group and the channel lose none,
\* whatever the order in which goroutines fail and finish.
CosignaturesExact ==
  closed => /\ {cosignatures[i] : i \in 1..Len(cosignatures)} = obtained
            /\ Len(cosignatures) = Cardinality(obtained)

\* No goroutine of an earlier round is alive when the channel is closed: it
\* would write prevSize, which is not locked, or send on a closed channel,
\* which panics.
NoStragglers == closed => \A w \in Witnesses : gpc[w] = "none"

\* A witness is never asked to go back, from the size that it has cosigned to
\* a smaller one, also when the log was started again with fewer leaves and
\* getCosignature takes over the larger size that the witness reports, or
\* when the witness has cosigned and the answer was lost.
CosignedSizesGrow ==
  [][\A w \in Witnesses : witnessSize[w] <= witnessSize'[w]]_vars

Running == {w \in Witnesses : gpc[w] # "none"}
Sending == {w \in Witnesses : gpc[w] = "send"}
Arrived == {cosignatures[i] : i \in 1..Len(cosignatures)}

\* The inductive invariant of a round: the wait group counts the goroutines
\* that are running, and a cosignature that getCosignature has returned is
\* either on its way to the channel or has arrived.  A tree head is sent to a
\* witness only with an old size that is not beyond it.
WitnessInv ==
  /\ TypeOK
  /\ wg = Cardinality(Running)
  /\ NoStragglers
  /\ ~collecting => closed
  /\ Sending \cup Arrived = obtained
  /\ Len(cosignatures) + Cardinality(Sending) = Cardinality(obtained)
  /\ \A w \in Witnesses : gpc[w] \in {"proof", "add", "size"} => w \notin obtained
  /\ \A w \in Witnesses : gpc[w] = "add" => prevSize[w] <= size
=============================================================================
