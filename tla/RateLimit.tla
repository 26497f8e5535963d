----------------------------- MODULE RateLimit -----------------------------
(***************************************************************************)
(* The rate limiter (internal/rate-limit) and the part of the add-leaf     *)
(* handler that uses it: AccessAllowed counts the request, and the request *)
(* is taken off the count again (relax) when the backend says that it knew *)
(* the leaf already.  Handlers run concurrently; each of the three tables  *)
(* of counts and the reset schedule have locks of their own, so a handler  *)
(* passes through several critical sections, in each of which it may be    *)
(* overtaken.                                                              *)
(***************************************************************************)
EXTENDS DomainDb, FiniteSets

CONSTANTS AllowedKeys,      \* limits of the allowed keys
          ConfigDomains,    \* limits of the allowed domains in the config file
          AllowPublic,      \* limit of public access, 0 if there is none
          AllowTestDomain,  \* the option --allow-test-domain
          TestDomain,       \* test.sigsum.org
          NoDomain,         \* a request without (verified) submit token
          Requests,         \* requests: records of a key and a domain
          Leaf,             \* leaves submitted
          Thread,           \* bound: handlers running concurrently
          Period,           \* schedulePeriod
          MaxTime           \* bound: the clock

ASSUME PeriodAssumption == Period \in Nat \ {0}
ASSUME MaxTimeAssumption == MaxTime \in Nat
ASSUME ThreadAssumption == IsFiniteSet(Thread)
ASSUME LimitsAssumption ==
  /\ AllowedKeys \in [DOMAIN AllowedKeys -> Nat]
  /\ ConfigDomains \in [DOMAIN ConfigDomains -> Nat]
  /\ AllowPublic \in Nat
  /\ AllowTestDomain \in BOOLEAN
ASSUME RequestsAssumption ==
  \A r \in Requests : r.domain # NoDomain => Len(r.domain) \in Nat

Tables == {"key", "domain", "public"}

Refused == <<"none", << >> >>

\* newLimiter: unless it is allowed, the test domain gets the limit zero.
AllowedDomains ==
  [d \in DOMAIN ConfigDomains \cup (IF AllowTestDomain THEN {} ELSE {TestDomain}) |->
     IF d = TestDomain /\ ~AllowTestDomain THEN 0 ELSE ConfigDomains[d]]

\* domainAllowed: the longest suffix of the domain that is on the list.
AllowedStart(domain) ==
  FirstIndex(domain, LAMBDA i : SuffixFrom(domain, i) \in DOMAIN AllowedDomains)

\* AccessAllowed, after the reset: which entry of which table the request
\* is counted in.
BucketOf(r) ==
  IF r.key \in DOMAIN AllowedKeys THEN <<"key", r.key>>
  ELSE IF r.domain = NoDomain THEN Refused
  ELSE IF AllowedStart(r.domain) # 0
  THEN <<"domain", SuffixFrom(r.domain, AllowedStart(r.domain))>>
  ELSE IF AllowPublic <= 0 \/ ~HasRegisteredDomain(r.domain) THEN Refused
  ELSE <<"public", RegisteredDomain(r.domain)>>

Buckets == {BucketOf(r) : r \in Requests} \ {Refused}

LimitOf(b) ==
  CASE b[1] = "key"    -> AllowedKeys[b[2]]
    [] b[1] = "domain" -> AllowedDomains[b[2]]
    [] b[1] = "public" -> AllowPublic

VARIABLES now,      \* the clock
          next,     \* schedule.next
          counts,   \* the entries of the three tables
          known,    \* leaves the backend knows, with the entry they were
                    \* counted in and the day their request came in
          pc,       \* what each handler does next
          call,     \* its request, leaf, and time read from the clock
          \* and to state properties:
          epoch,    \* how often each table has been reset
          held,     \* accesses since the reset of the table, less relaxed ones
          late      \* accesses from before the reset that were relaxed after it

vars == <<now, next, counts, known, pc, call, epoch, held, late>>

NoCall == [req |-> Refused, leaf |-> Refused, time |-> 0, epoch |-> 0]

Init ==
  /\ now = 0
  /\ next = Period
  /\ counts = [b \in Buckets |-> 0]
  /\ known = {}
  /\ pc = [t \in Thread |-> "idle"]
  /\ call = [t \in Thread |-> NoCall]
  /\ epoch = [m \in Tables |-> 0]
  /\ held = [b \in Buckets |-> 0]
  /\ late = [b \in Buckets |-> 0]

Goto(t, p) == pc' = [pc EXCEPT ![t] = p]

Return(t) == Goto(t, "idle") /\ call' = [call EXCEPT ![t] = NoCall]

Tick ==
  /\ now < MaxTime
  /\ now' = now + 1
  /\ UNCHANGED <<next, counts, known, pc, call, epoch, held, late>>

\* AddLeaf: the submit token, if any, is fine, AccessAllowed is called, and
\* IsTime reads the clock before it takes the lock.
AccessAllowed(t, r, l) ==
  /\ pc[t] = "idle"
  /\ call' = [call EXCEPT ![t] = [req |-> r, leaf |-> l, time |-> now, epoch |-> 0]]
  /\ Goto(t, "schedule")
  /\ UNCHANGED <<now, next, counts, known, epoch, held, late>>

\* Mutant: the reset comes one unit of time early.
IsTimeEarly(t) ==
  /\ pc[t] = "schedule"
  /\ IF call[t].time + 1 < next
     THEN Goto(t, "count") /\ UNCHANGED next
     ELSE Goto(t, "key") /\ next' = next + Period
  /\ UNCHANGED <<now, counts, known, call, epoch, held, late>>

\* schedule.IsTime, under its lock.
IsTime(t) ==
  /\ pc[t] = "schedule"
  /\ IF call[t].time < next
     THEN Goto(t, "count") /\ UNCHANGED next
     ELSE Goto(t, "key") /\ next' = next + Period
  /\ UNCHANGED <<now, counts, known, call, epoch, held, late>>

\* Mutant: the counts of allowed domains are never reset.
ResetNotDomain(t) ==
  /\ pc[t] \in Tables
  /\ LET Cleared(f) == [b \in Buckets |-> IF b[1] = pc[t] THEN 0 ELSE f[b]]
     IN  counts' = Cleared(counts) /\ held' = Cleared(held) /\ late' = Cleared(late)
  /\ epoch' = [epoch EXCEPT ![pc[t]] = @ + 1]
  /\ Goto(t, IF pc[t] = "key" THEN "public" ELSE "count")
  /\ UNCHANGED <<now, next, known, call>>

\* Reset of the three tables, one after the other.
Reset(t) ==
  /\ pc[t] \in Tables
  /\ LET Cleared(f) == [b \in Buckets |-> IF b[1] = pc[t] THEN 0 ELSE f[b]]
     IN  counts' = Cleared(counts) /\ held' = Cleared(held) /\ late' = Cleared(late)
  /\ epoch' = [epoch EXCEPT ![pc[t]] = @ + 1]
  /\ Goto(t, CASE pc[t] = "key" -> "domain"
               [] pc[t] = "domain" -> "public"
               [] pc[t] = "public" -> "count")
  /\ UNCHANGED <<now, next, known, call>>

\* Mutant: the limit is compared with > instead of >=.
CountOneMore(t) ==
  /\ pc[t] = "count"
  /\ LET b == BucketOf(call[t].req)
     IN  IF b = Refused \/ counts[b] > LimitOf(b)
         THEN Return(t) /\ UNCHANGED <<counts, held>>
         ELSE /\ counts' = [counts EXCEPT ![b] = @ + 1]
              /\ held' = [held EXCEPT ![b] = @ + 1]
              /\ call' = [call EXCEPT ![t].epoch = epoch[b[1]]]
              /\ Goto(t, "add")
  /\ UNCHANGED <<now, next, known, epoch, late>>

\* accessCounts.AccessAllowed.
Count(t) ==
  /\ pc[t] = "count"
  /\ LET b == BucketOf(call[t].req)
     IN  IF b = Refused \/ counts[b] >= LimitOf(b)
         THEN Return(t) /\ UNCHANGED <<counts, held>>
         ELSE /\ counts' = [counts EXCEPT ![b] = @ + 1]
              /\ held' = [held EXCEPT ![b] = @ + 1]
              /\ call' = [call EXCEPT ![t].epoch = epoch[b[1]]]
              /\ Goto(t, "add")
  /\ UNCHANGED <<now, next, known, epoch, late>>

IsKnown(l) == \E k \in known : k.leaf = l

BecomesKnown(t) ==
  known' = known \cup {[leaf |-> call[t].leaf, bucket |-> BucketOf(call[t].req),
                        day |-> call[t].time \div Period]}

\* DbClient.AddLeaf succeeds.
AddLeaf(t) ==
  /\ pc[t] = "add"
  /\ IF IsKnown(call[t].leaf)
     THEN Goto(t, "relax") /\ UNCHANGED <<known, call>>
     ELSE BecomesKnown(t) /\ Return(t)
  /\ UNCHANGED <<now, next, counts, epoch, held, late>>

\* The leaf's signature is not valid, or the backend fails, having queued
\* the leaf nevertheless or not; the access stays counted.
AddLeafFails(t) ==
  /\ pc[t] = "add"
  /\ \/ UNCHANGED known
     \/ ~IsKnown(call[t].leaf) /\ BecomesKnown(t)
  /\ Return(t)
  /\ UNCHANGED <<now, next, counts, epoch, held, late>>

\* Mutant: a count of zero is decremented.
RelaxBelowZero(t) ==
  /\ pc[t] = "relax"
  /\ LET b == BucketOf(call[t].req)
     IN  /\ counts' = [counts EXCEPT ![b] = @ - 1]
         /\ IF call[t].epoch = epoch[b[1]]
            THEN held' = [held EXCEPT ![b] = @ - 1] /\ UNCHANGED late
            ELSE late' = [late EXCEPT ![b] = @ + 1] /\ UNCHANGED held
  /\ Return(t)
  /\ UNCHANGED <<now, next, known, epoch>>

\* accessRelax.
Relax(t) ==
  /\ pc[t] = "relax"
  /\ LET b == BucketOf(call[t].req)
     IN  /\ counts' = IF counts[b] > 0 THEN [counts EXCEPT ![b] = @ - 1] ELSE counts
         /\ IF call[t].epoch = epoch[b[1]]
            THEN held' = [held EXCEPT ![b] = @ - 1] /\ UNCHANGED late
            ELSE late' = [late EXCEPT ![b] = @ + 1] /\ UNCHANGED held
  /\ Return(t)
  /\ UNCHANGED <<now, next, known, epoch>>

Next ==
  \/ Tick
  \/ \E t \in Thread :
       \/ \E r \in Requests, l \in Leaf : AccessAllowed(t, r, l)
       \/ IsTime(t)
       \/ Reset(t)
       \/ Count(t)
       \/ AddLeaf(t)
       \/ AddLeafFails(t)
       \/ Relax(t)

Spec == Init /\ [][Next]_vars

-----------------------------------------------------------------------------
\* The values of the variables.
TypeOK ==
  /\ now \in 0..MaxTime
  /\ next \in Nat
  /\ counts \in [Buckets -> Nat]
  /\ known \subseteq [leaf : Leaf, bucket : Buckets, day : 0..MaxTime]
  /\ pc \in [Thread -> Tables \cup {"idle", "schedule", "count", "add", "relax"}]
  /\ epoch \in [Tables -> Nat]
  /\ held \in [Buckets -> Nat]
  /\ late \in [Buckets -> Nat]

\* A submitter is charged for no more than it has used since the table was
\* reset, and for less only by the relaxed accesses of an earlier period,
\* which accessRelax cannot tell from those of this one.  In every period
\* between two resets at most limit + late leaves get in.
CountsTrackUse ==
  \A b \in Buckets :
    /\ held[b] - late[b] <= counts[b]
    /\ counts[b] <= held[b]
    /\ held[b] <= LimitOf(b) + late[b]

\* The schedule never runs ahead of the clock: however many handlers see at
\* once that a reset is due, IsTime grants it to one of them.
ScheduleNotAhead == next <= now + Period

\* Handlers that have been granted a reset and have not got to table m yet.
Resetting(m) ==
  {t \in Thread : \/ pc[t] = m
                  \/ m = "public" /\ pc[t] \in {"key", "domain"}
                  \/ m = "domain" /\ pc[t] = "key"}

\* Every time the schedule moves on, each of the three tables is reset
\* exactly once.
ResetsExact ==
  \A m \in Tables : (epoch[m] + Cardinality(Resetting(m)) + 1) * Period = next

\* Handlers that have been counted in b since its table was reset and may yet
\* undo it.
InFlight(b) ==
  {t \in Thread : /\ pc[t] \in {"add", "relax"}
                  /\ BucketOf(call[t].req) = b
                  /\ call[t].epoch = epoch[b[1]]}

\* What a handler carries from one critical section to the next.
CallsOK ==
  /\ call = [t \in Thread |-> [req |-> call[t].req, leaf |-> call[t].leaf,
                               time |-> call[t].time, epoch |-> call[t].epoch]]
  /\ \A t \in Thread :
       /\ call[t].time \in 0..now
       /\ call[t].epoch \in Nat
       /\ pc[t] # "idle" => call[t].req \in Requests /\ call[t].leaf \in Leaf
       /\ pc[t] \in {"add", "relax"} =>
            /\ BucketOf(call[t].req) # Refused
            /\ call[t].epoch <= epoch[BucketOf(call[t].req)[1]]

\* An access is relaxed at most once: what is held in an entry covers the
\* handlers that may still relax it.
InFlightHeld == \A b \in Buckets : Cardinality(InFlight(b)) <= held[b]

\* The inductive invariant of the limiter and its handlers: no access counted
\* by AccessAllowed is relaxed twice, and with that counts and schedule are
\* what CountsTrackUse, ScheduleNotAhead and ResetsExact say.
RateInv ==
  /\ TypeOK
  /\ CallsOK
  /\ InFlightHeld
  /\ CountsTrackUse
  /\ ScheduleNotAhead
  /\ ResetsExact

-----------------------------------------------------------------------------
\* doc/rate-limit.md on the limit of an entry: "the maximum number of leaves
\* that may be submitted per 24 hours", for the 24 hours of the schedule.
DailyLimit ==
  \A b \in Buckets, day \in 0..MaxTime :
    Cardinality({k \in known : k.bucket = b /\ k.day = day}) <= LimitOf(b)

\* doc/rate-limit.md: a client "will then repeat the request until it gets a
\* 200 response", and "only the first request for each leaf is counted".
\* So a repeated request is not one that the limit refuses.
RepeatNotRefused ==
  \A t \in Thread :
    pc[t] = "count" /\ IsKnown(call[t].leaf)
      => LET b == BucketOf(call[t].req) IN b # Refused /\ counts[b] < LimitOf(b)
=============================================================================
