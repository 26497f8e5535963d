# A TLA+ model of the sigsum log server

This directory holds TLA+ specifications of the log server in this repository,
the TLC configurations that check them on small instances, and TLAPS proofs for
instances of every size. `PROJECT.json` lists the components, the runs, the
source lines each definition models, the hazards of the code and the theorems.

## The system

A sigsum log is run by two nodes.

* The **primary** (`cmd/sigsum-log-primary`) serves the public API. `add-leaf`
  (`internal/node/primary/endpoint_external.go`) passes a rate limiter
  (`internal/rate-limit`), queues the leaf in a Trillian tree (`internal/db`)
  and says whether it is already in the signed tree.
* The **state manager** (`internal/state`) is a goroutine of the primary. Every
  interval it looks for a tree head that the secondary has replicated, signs
  it, writes it to the sth file, collects cosignatures from witnesses
  (`internal/witness`) and publishes it.
* The **secondary** (`cmd/sigsum-log-secondary`, `internal/node/secondary`)
  copies leaves from the primary into a Trillian tree of its own and signs the
  head of what it has integrated.
* The **operator** creates a log with `sigsum-mktree`, and promotes a secondary
  by hand (`doc/failover.md`), in both cases through a startup file.

## Modules

| Module | Models | State |
|---|---|---|
| `MerkleTree` | heads, inclusion and consistency proofs | none |
| `AppendOnlyLog` | what a log promises (abstract specification) | committed, published, acked |
| `Database` | the two backends as `db.Client` sees them, get-leaves | `ptree`, `pqueue`, `stree`, `sstored` |
| `SthFile` | sth file, startup file, `sigsum-mktree` | `sthFile`, `startupFile` |
| `StateManager` | `NewStateManagerSingle`, `Run`, `ReplicatedTreeHead`, `rotate` | `smpc`, the two heads in memory, the locals of the loop |
| `Primary` | `AddLeaf`, several calls at once | `adds`, `acked` |
| `Secondary` | `Run`, `fetchLeavesFromPrimary` | `fpc`, `fstart`, `fleaves` |
| `SigsumLog` | all of these together, with faults; the properties | |
| `ReadEndpoints` | the four get endpoints and a client that compares answers with the head it has | `seen`, `rpc`, `req`, `rsize`, `answer` |
| `Failover` | promotion of the secondary next to an old primary that may still run | the promoted node: server, tree and its type, files, published, acked |
| `Server` | `main` of both servers: goroutines, wait group, HTTP servers, exit | `mpc`, `gpc`, `wg`, context, requests |
| `TrillianWrite` | `Server` with the routine of the secondary, the retry loop of `AddSequencedLeaves` in steps | `wpc`, `wait`, `overslept` |
| `MemoryDb` | the in-memory backend under concurrent callers | lock, blobs, hashes of the tree, calls |
| `Witness` | `GetCosignatures`, `getCosignature` | goroutines, wait group, channel, sizes |
| `RateLimit` | `AccessAllowed`, `IsTime`, `Reset`, relax, concurrent handlers | clock, schedule, counts, handlers |
| `DomainDb` | the registered domain of a name | none |
| `SuffixFile` | `parseSuffixFile`, `NewDomainDb` | file, position, rules |
| `LimitConfig` | `ParseConfig`, `newLimiter` (which reads the suffix file) | file, position, tables of limits |
| `SigsumLogLiveness`, `WitnessLiveness` | fairness and the liveness properties | `calm`: no more faults |
| `*Proofs` | proofs | |
| `MC*` | values for TLC | |

`StateManager` extends `Database` and `SthFile`; `Primary` extends
`StateManager`; `SigsumLog` extends `Primary` and `Secondary`, so the backends
are shared by everybody who calls them. `ReadEndpoints` and `Failover` extend
`SigsumLog`: every step of the log may come between two steps of a read, or of
a promotion. `TrillianWrite` extends `Secondary` and `Server`, and
`LimitConfig` extends `SuffixFile`. `Witness`, `RateLimit` and `MemoryDb` stand
alone. The log model only needs to know that rounds of cosigning end. It treats
the rate limiter as a check that lets a call through.

In `Failover` the promoted node is modelled step by step until it serves. From
then on it is an append-only log over its own tree. That is what
`LogIsAppendOnly` proves of the program it runs. The checks that keep the steps
of a promotion in order are those of the servers: each looks at the type of its
Trillian tree when it starts.

**Data.** A tree is the sequence of its leaves and a tree head *is* that
sequence, which amounts to assuming that the hash has no collisions. A
consistency proof verifies when one sequence is a prefix of the other. A
signature is part of the head. A domain name is the sequence of its labels.

**Steps.** There is one action for each piece of code between two accesses to
state that somebody else can change: a backend call, a call to the other node, a
file operation, a critical section. The value of `smpc`, `fpc`, `gpc` or `pc` is
the place in the code. The actions whose names end in `Fails` are the error
returns.

**Faults.** The primary may die at every step, also between the deletion of the
startup file and the creation of the sth file, and between the replacement of
the sth file and the update in memory. The secondary may die or fail at every
step. Calls fail with or without having had their effect. A startup file may be
cut short, or be written by hand next to an existing sth file. In
`log_bad_secondary` the secondary may answer with any head in `StrayHeads`.

**External parts**, modelled by how the code uses them: the Trillian sequencer
and integrator, the witnesses, the clients, `net/http`, the operator and the
clock.

## What is checked

| Run | Instance | Distinct states |
|---|---|---|
| `failover` | 2 leaves, 2 calls at once, start from an empty tree, one promotion | 165,718 |
| `log_bad_secondary` | 3 leaves, 2 calls at once, stray heads up to length 2, both modes, promoted trees | 608,049 |
| `log_liveness` | 2 leaves, 1 call at once, both modes | 26,646 |
| `read_endpoints` | 2 leaves, requests for these and another one with indices and sizes up to 2, no secondary | 1,783,773 |
| `secondary_server` | 2 leaves, 1 of them on the primary at the start, 1 request per HTTP server | 218,362 |
| `memory_db` | 2 leaves, 3 callers | 221,577 |
| `witness` | 3 witnesses, sizes 0..2 | 111,278 |
| `ratelimit_counts` | 2 handlers, 1 leaf, 5 kinds of requests, 2 periods | 654,401 |
| `limit_config` | files of up to 3 lines, suffix files of up to 3 lines | 1,208,884 |

* `failover`: `Replicated` (no head is signed that the secondary does not hold),
  `AckedReplicated` (no leaf is confirmed that it does not hold), and what they
  are for: `NoSplitView` (what the old primary signs, even after the promotion,
  is a prefix of what the new one signs), `AckedSurvive` (no confirmed leaf is
  lost) and `FailoverIsLog` (both nodes together refine `AppendOnlyLog`). Also
  the invariants of the proofs, `ReplicationInv` and `FailoverInv`.
* `log_bad_secondary`: `ImplementsLog` (refinement of `AppendOnlyLog`),
  `PublishedServable`, `NoTruncation` and the inductive invariant `LogInv`, none
  of which rely on an honest secondary or on an empty start.
* `log_liveness`: `LeafPublished` and `RetriedLeafAcked`.
* `read_endpoints`: `ReadsAgree` (whatever happens in between, also a crash and
  restart, requests for leaves within the head a client has, and for proofs in
  it, are answered, and from that head; requests that need no proof are left out,
  see below) and `NothingUnpublished` (no answer goes beyond the published head).
* `secondary_server`: `RoundsFinish` and `RequestsFinish` (an orderly exit comes
  after the round, and within the time limit after the requests), `Stops` (it
  comes when anything ends, or a signal arrives), `OneSleepAfterCancel`
  and `CallsEnd` (the sleeps of the retry loop, which do not look at the context,
  delay it by at most 16 seconds), and `CallIsAtomic` (the retry loop
  is the one step that `Secondary` takes for it). Also the invariant of the
  proofs about the process, `ServerInv`.
* `memory_db`: `ReadsMatchTree` (the two copies of the leaves never show a
  reader a difference), `SequencedIsIncluded`, and `MemoryIsLog` (blobs
  are only appended, also when a batch is given up half way).
* `witness`: `CosignaturesExact`, `NoStragglers`, `CosignedSizesGrow` (no witness
  is asked to go back to a smaller tree, also by a log that has lost leaves),
  `RoundEnds`, `WitnessesCosign`. A conflict is taken to be recognized as one:
  `witness.go:61` calls `errors.Is` with its arguments swapped, which is the same
  for the error value that the client returns in the tests.
* `ratelimit_counts`: `CountsTrackUse`, `ScheduleNotAhead`, `ResetsExact`.
* `limit_config`: `OrderDoesntMatter` and `NothingTwice` for the limits,
  `RegisteredDomainRight` and `RefusalsRight` for the suffix file, each against
  a definition by the set of lines instead of by the loop over them.

**Bounds.** `MaxRange` 1 below `LeavesBatchSize` 2 makes every answer of
get-leaves shorter than what was asked for; in `secondary_server` it is 2, so that
a call has two leaves of which one may be stored. Two leaves are enough for a head
that is behind, equal or ahead on either side; three let the primary, what is
stored and what is integrated all differ. `MaxInFlight`, `MaxHandlers` and
`Thread` bound concurrent handlers, `MaxTime` the clock, `MaxIndex` the indices
that are asked for, and `MaxSize` the tree sizes of `Witness`. One leaf is
enough in `ratelimit_counts`, since a failing request is counted like one for
another new leaf. Three lines are enough for a wildcard, its exception and a
repetition of either, in every order. Symmetry is used in runs without liveness
properties only.

**Fairness.** Weak fairness of the loops of `Run` and of the secondary (driven
by timers), of calls in progress, of Trillian's sequencer and integrator, and of
an operator who restarts a server that is down. Faults may happen any number of
times but stop at some time; without that nothing can be promised. The end of
faults is a state, the variable `calm`. It cannot be written as a formula that
forbids fault steps: an ordinary step may change the state just as a fault does
(the secondary's loop ends on a 404 as it does on a failed call), and such a
formula would rule out the behaviours of a healthy log as well. Clients are
not assumed to do anything: `RetriedLeafAcked` has the repetition of the request
as its hypothesis. In `secondary_server` goroutines are scheduled, calls are
answered, sleeps end and the time limit of the shutdown passes; requests need
not end and no signal need come. The return of `Run` has strong fairness: its
`select` may have a tick and a cancelled context to choose from, and Go chooses
at random.

## Where code and documents disagree

Three runs end in a violation, each of a sentence in the documents.

* `ratelimit_daily`, `DailyLimit`. `doc/rate-limit.md` has "the maximum number
  of leaves that may be submitted per 24 hours". `IsTime` moves the schedule on
  by one period, so after an idle time of several periods each of the next
  requests resets the counts.
* `ratelimit_repeat`, `RepeatNotRefused`. The same document says that a client
  repeats its request and that only the first one is counted. The limit is
  compared before the backend is asked, so at the limit the repetition of an
  accepted request is refused.
* `limit_config_long`, `OrderDoesntMatter`. The same document says "The order of
  the config lines doesn't matter." `ParseConfig` does not look at the error of
  its scanner: after a line that is too long for the buffer the rest of the file
  is dropped, and no error is reported. `parseSuffixFile` reads its lines in the
  same way. The passing run `limit_config` has no such lines.

A weaker remark: `doc/failover.md` says that the primary "only signs and
publishes tree heads that are fully replicated by the secondary node". A start
in mode `local-tree` signs the local tree without asking the secondary, which
after a promotion is a new node. The same document prescribes this procedure.
`Replicated` is therefore stated for a log that was started empty, and `failover`
says what holds across a promotion.

Another one: the tests of the read handlers call a request for an inclusion proof
of size 1 (`endpoint_external_test.go:181`) and for a consistency proof from size
0 (`:111`), or to a smaller size (`:116`), a bad request. They pass because the
published tree is empty in these tests, so that the size asked for is outside of
it. When the published tree is large enough, the handlers go on to the backend
(`trillian.go:196-253`): an inclusion proof for size 0 or 1 ends in an internal
error, or at size 1 in "not found" for a leaf that is not there; a consistency proof from
size 0 is answered with an empty proof, and one to a smaller size with an
internal error. `sigsum-go/pkg/server`, which is not in this repository, may
refuse such requests first: a comment in `getLeavesGeneral` says so of empty
ranges. There is therefore no run about it, the actions of `ReadEndpoints`
follow the handlers, and `ReadsAgree` leaves these requests out.

## What is proved

The theorems hold for every value of the constants that satisfies the named
assumptions: any set of leaves, number of calls and requests, batch sizes,
witnesses, limits, suffix rules and periods.

Each proof has an inductive invariant. `WriteInv`, `MemoryInv`, `ConfigInv` and
`SuffixInv` are not in the configurations, since the safety properties there follow
from them; added as `INVARIANT` they hold on the same instances.

**The log** (`SigsumLogProofs`), with or without a secondary, from any initial
trees and with any stray heads. The module begins with the facts about prefixes
of trees on which this and the next two rest.

* `LogInvariant`: `LogInv` is an invariant. It is inductive, and says how the
  trees (`stree` prefix of `sstored` prefix of `ptree`), the sth file and the
  heads held at each program counter are related. The properties alone are not
  inductive: that a signed head extends the previous one depends on what
  `currentTH`, `primaryTH` and `secTH` were when they were read, and on the trees
  having only grown since. There is one lemma per action.
* `TypeCorrect`, `PublishedIsServable`, `NeverTruncates` follow from `LogInv`.
* `LogIsAppendOnly`: `Spec => ImplementsLog`. Storing the sth file is `Commit`,
  publishing and installing are `Publish`, a successful proof is `Acknowledge`,
  and every other step is a stutter.
* `ReplicationInvariant`, `SignedHeadsReplicated`, `AckedLeavesReplicated`: with
  `StrayHeads = {}` and no start from a local tree. `ReplicationInv` adds to
  `LogInv` that every head on its way to a signature is integrated by the
  secondary.

**Failover** (`FailoverProofs`). `FailoverInv` puts the frozen tree of the
secondary between what the old primary may still sign (by `ReplicationInv`) and
what the promoted node has signed (by the steps of its start). `NoSplitView`,
`AckedSurvive` and the refinement `FailoverIsLog` follow.

**Reads** (`ReadProofs`). `ReadInv` adds to `LogInv` that the head a client has
is a prefix of the published one, and that the size a handler has read
lies between the two. It needs `LogInv` for restarts: the head that is installed
from the sth file extends the one published before.

**Servers** (`ServerProofs`), for the loop of either node. `ServerInv`: the wait
group counts the goroutines, and a server that is shutting down accepts nothing.
For the secondary the module goes on to the retry loop.

* `SecondaryIsServer`: every behaviour of `TrillianWrite` is one of `Server`, so
  the theorems about `Server` hold of it.
* `WriteInvariant`: `WriteInv` ties the rounds that `Server` counts to the program
  counter of `fetchLeavesFromPrimary`, and the retry loop to the call it is in. It
  is needed because `Server` knows rounds and `Secondary` knows steps, and neither
  knows of the other.
* `OneSleepLeft` follows: once a sleep has ended after the cancellation the loop is
  at the test of the context, which ends it.
* `RetriesAreOneCall`: `WriteSpec => CallIsAtomic`. The attempt whose result is
  returned is the call of `Secondary`, giving up is a failing call that stores
  nothing, and every other step of the loop is a stutter.

**In-memory backend** (`MemoryDbProofs`), for any number of callers and leaves.
`MemoryInv` says who holds the lock at which program counter, and that the tree is
ahead of the list of blobs only inside a writer's critical section, by the leaf the
writer is about to append (`LeavesWithPending`). `ReadsMatch` follows because a
reader's critical section excludes a writer's. `SequencedStays` is a conjunct of the
invariant. `MemoryImplementsLog` maps the appending of a blob to `Commit` and the
report of a sequenced leaf to `Acknowledge`.

**Rate limit file and suffix file** (`LimitConfigProofs`), for files of any length,
any lines, any normalization and any names.

* `ConfigInvariant`: after every line the tables are those of the set of lines read
  so far (`TableOf`), and no two of these are about the same entry. The second part
  is what makes the first one inductive: a line that replaced an entry would make
  the table depend on the order.
* `OrderIsIrrelevant` and `NoEntryTwice` follow for files without over-long lines
  (`NoLongLine`); with such a line the first is false, as `limit_config_long` shows.
* `SuffixInvariant`: plain rules and wildcards are those of the lines read so far,
  exceptions are held back, and enter the wildcards once all of these are known.
* `RefusalsAreRight` and `RegisteredDomainIsRight` follow, again for files without
  over-long lines (`NoLongSuffixLine`). For the second, a round of the loop of
  `getSuffix` succeeds exactly for the endings of the name that are public
  suffixes (`FoundIsPublic`); it stops at the first, which is the longest
  (`LongestIsFirst`).

**Rate limiter** (`RateLimitProofs`). `RateInv` ties the counts to the requests
in progress (`InFlightHeld`): a relax undoes a count of its own period, or is one
of the late ones that `CountsTrackUse` allows for.

**Cosignatures** (`WitnessProofs`). `WitnessInv`: the wait group counts the
goroutines that run or send, and a cosignature that was obtained is being sent
or has arrived. A tree head is sent only with an old size that is not beyond the
size of the round (`NeverAskedBack`).

**Only model-checked.** Liveness is out of the prover's reach: `LeafPublished`,
`RetriedLeafAcked`, `RoundEnds`, `WitnessesCosign`, `CallsEnd` and `Stops`. Every
invariant and every refinement of a passing run has a theorem. Loops over data are
not proved by induction over the data, which the prover does not have, but as
steps of a state machine with an invariant about the part that was read; where a
least element is needed it comes from the well-foundedness of the naturals
(`LeastNat`).

## Not modelled

* Flags, the configuration file and the set-up of the servers from them: they
  choose the constants of the model. A set-up that fails half way is a
  `PrimaryExits` before `Install`.
* Metrics, which nothing in the program reads, and generated mocks.
* The encoding of files and messages, and the checks of signatures, which
  succeed or fail by choice.
* Integer conversions between `uint64` and `int64` in the Trillian client; sizes
  are natural numbers. A malformed answer of Trillian is a failing call.
* A backend that loses leaves, and an answer `OK` of Trillian in which a single
  leaf was refused: the code does not look at the results of single leaves, and
  the tree of such a backend would have gaps.
* Cosignatures as part of the published head: `rotate` replaces them by those of
  the current round, of which there may be fewer, and no document says more.
