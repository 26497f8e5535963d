-------------------------- MODULE RateLimitProofs --------------------------
(***************************************************************************)
(* Proof that RateInv is an invariant of the rate limiter, for any number  *)
(* of handlers, any requests, limits and suffix rules, and any period.     *)
(***************************************************************************)
EXTENDS RateLimit, FiniteSetTheorems, WellFoundedInduction, TLAPS

USE PeriodAssumption, MaxTimeAssumption, ThreadAssumption

-----------------------------------------------------------------------------
\* A set of natural numbers that is not empty has a least element.
LEMMA LeastNat ==
  ASSUME NEW S, S \subseteq Nat, S # {}
  PROVE  \E j \in S : \A k \in S : j <= k
<1> DEFINE Less == OpToRel(<, Nat)
<1>1. IsWellFoundedOn(Less, Nat)
  BY NatLessThanWellFounded
<1>2. \A j, k \in Nat : k < j => <<k, j>> \in Less
  BY DEF OpToRel
<1> HIDE DEF Less
<1>3. PICK j \in S : \A k \in S : ~(<<k, j>> \in Less)
  BY <1>1, WFMin
<1>4. ASSUME NEW k \in S PROVE j <= k
  <2>1. j \in Nat /\ k \in Nat
    OBVIOUS
  <2>2. ~(k < j)
    BY <1>2, <1>3, <2>1, Zenon
  <2>3. QED
    BY <2>1, <2>2
<1>5. QED
  BY <1>4, Zenon

\* The search of domainAllowed: where it finds a suffix, the suffix is one of
\* the allowed domains.
LEMMA AllowedStartFound ==
  ASSUME NEW domain, Len(domain) \in Nat, AllowedStart(domain) # 0
  PROVE  SuffixFrom(domain, AllowedStart(domain)) \in DOMAIN AllowedDomains
<1> DEFINE Found(i) == SuffixFrom(domain, i) \in DOMAIN AllowedDomains
           Hits == {i \in 1..Len(domain) : Found(i)}
<1>1. PICK i \in 1..Len(domain) : Found(i)
  BY DEF AllowedStart, FirstIndex
<1>2. \E j \in Hits : \A k \in Hits : j <= k
  <2>1. Hits \subseteq Nat /\ Hits # {}
    BY <1>1
  <2>2. QED
    BY <2>1, LeastNat
<1>3. \E j \in 1..Len(domain) : Found(j) /\ \A k \in 1..j - 1 : ~Found(k)
  <2> HIDE DEF Found
  <2> QED  BY <1>2
<1>4. QED
  BY <1>1, <1>3 DEF AllowedStart, FirstIndex

\* AccessAllowed counts a request in one of the three tables, under an entry
\* that has a limit.
LEMMA BucketsOK ==
  ASSUME NEW b \in Buckets
  PROVE  b[1] \in Tables /\ LimitOf(b) \in Nat
<1>1. PICK r \in Requests : b = BucketOf(r) /\ b # Refused
  BY DEF Buckets
<1>2. CASE r.key \in DOMAIN AllowedKeys
  <2>1. b = <<"key", r.key>>
    BY <1>1, <1>2 DEF BucketOf
  <2>2. QED
    BY <1>2, <2>1, LimitsAssumption DEF Tables, LimitOf
<1>3. CASE r.key \notin DOMAIN AllowedKeys /\ r.domain # NoDomain /\ AllowedStart(r.domain) # 0
  <2>1. b = <<"domain", SuffixFrom(r.domain, AllowedStart(r.domain))>>
    BY <1>1, <1>3 DEF BucketOf
  <2>2. b[2] \in DOMAIN AllowedDomains
    BY <1>3, <2>1, RequestsAssumption, AllowedStartFound
  <2>3. \A d \in DOMAIN AllowedDomains : AllowedDomains[d] \in Nat
    BY LimitsAssumption DEF AllowedDomains
  <2>4. QED
    BY <2>1, <2>2, <2>3 DEF Tables, LimitOf
<1>4. CASE r.key \notin DOMAIN AllowedKeys /\ r.domain # NoDomain /\ AllowedStart(r.domain) = 0
  <2>1. b = <<"public", RegisteredDomain(r.domain)>>
    BY <1>1, <1>4 DEF BucketOf
  <2>2. QED
    BY <2>1, LimitsAssumption DEF Tables, LimitOf
<1>5. CASE r.key \notin DOMAIN AllowedKeys /\ r.domain = NoDomain
  BY <1>1, <1>5 DEF BucketOf
<1>6. QED
  BY <1>2, <1>3, <1>4, <1>5

\* A set of handlers is finite.
LEMMA HandlersFinite ==
  ASSUME NEW S \in SUBSET Thread
  PROVE  IsFiniteSet(S) /\ Cardinality(S) \in Nat
BY FS_Subset, FS_CardinalityType

\* Adding a handler to a set of them, or taking one away.
LEMMA OneHandlerMore ==
  ASSUME NEW S \in SUBSET Thread, NEW t \in Thread
  PROVE  /\ t \notin S => Cardinality(S \cup {t}) = Cardinality(S) + 1
         /\ t \in S => Cardinality(S \ {t}) = Cardinality(S) - 1
BY HandlersFinite, FS_AddElement, FS_RemoveElement

\* The day a request is entered under is one the clock has seen.
LEMMA DayBound ==
  ASSUME NEW n \in Nat
  PROVE  n \div Period \in 0..n
OBVIOUS

LEMMA NextPeriod ==
  ASSUME NEW n \in Nat
  PROVE  (n + 1) * Period = n * Period + Period
OBVIOUS

-----------------------------------------------------------------------------
LEMMA InitRateInv == Init => RateInv
<1> SUFFICES ASSUME Init PROVE RateInv
  OBVIOUS
<1> USE DEF Init
<1>1. TypeOK
  BY DEF TypeOK, Tables
<1>2. CallsOK
  BY DEF CallsOK, NoCall
<1>3. InFlightHeld
  <2> SUFFICES ASSUME NEW b \in Buckets PROVE Cardinality(InFlight(b)) <= held[b]
    BY DEF InFlightHeld
  <2>1. InFlight(b) = {}
    BY DEF InFlight
  <2>2. QED
    BY <2>1, FS_EmptySet
<1>4. CountsTrackUse
  BY BucketsOK DEF CountsTrackUse
<1>5. ScheduleNotAhead
  BY DEF ScheduleNotAhead
<1>6. ResetsExact
  <2> SUFFICES ASSUME NEW m \in Tables
               PROVE  (epoch[m] + Cardinality(Resetting(m)) + 1) * Period = next
    BY DEF ResetsExact
  <2>1. Resetting(m) = {}
    BY DEF Resetting, Tables
  <2>2. QED
    BY <2>1, FS_EmptySet
<1>7. QED
  BY <1>1, <1>2, <1>3, <1>4, <1>5, <1>6 DEF RateInv
-----------------------------------------------------------------------------
\* Steps after which no handler is in flight that was not before.
LEMMA InFlightShrinks ==
  ASSUME InFlightHeld, TypeOK, held' = held,
         \A b \in Buckets : InFlight(b)' \subseteq InFlight(b)
  PROVE  InFlightHeld'
<1> SUFFICES ASSUME NEW b \in Buckets PROVE Cardinality(InFlight(b)') <= held'[b]
  BY DEF InFlightHeld
<1>1. InFlight(b) \in SUBSET Thread /\ InFlight(b)' \in SUBSET Thread
  BY DEF InFlight
<1>2. Cardinality(InFlight(b)') <= Cardinality(InFlight(b))
  BY <1>1, HandlersFinite, FS_Subset
<1>3. held[b] \in Nat /\ Cardinality(InFlight(b)) \in Nat /\ Cardinality(InFlight(b)') \in Nat
  BY <1>1, HandlersFinite DEF TypeOK
<1>4. QED
  BY <1>2, <1>3 DEF InFlightHeld

\* Steps that no reset is part of.
LEMMA NoReset ==
  ASSUME ResetsExact, next' = next, epoch' = epoch,
         \A m \in Tables : Resetting(m)' = Resetting(m)
  PROVE  ResetsExact'
BY DEF ResetsExact

\* Steps of a single handler t.
LEMMA CallsKept ==
  ASSUME TypeOK, CallsOK, NEW t \in Thread, UNCHANGED <<now, epoch>>,
         call' = [u \in Thread |-> call'[u]],
         call'[t] = [req |-> call'[t].req, leaf |-> call'[t].leaf,
                     time |-> call'[t].time, epoch |-> call'[t].epoch],
         call'[t].time \in 0..now, call'[t].epoch \in Nat,
         pc'[t] # "idle" => call'[t].req \in Requests /\ call'[t].leaf \in Leaf,
         pc'[t] \in {"add", "relax"} =>
           BucketOf(call'[t].req) # Refused /\ call'[t].epoch <= epoch[BucketOf(call'[t].req)[1]],
         \A u \in Thread : u # t => call'[u] = call[u] /\ pc'[u] = pc[u]
  PROVE  CallsOK'
<1>1. call' = [u \in Thread |-> [req |-> call'[u].req, leaf |-> call'[u].leaf,
                                time |-> call'[u].time, epoch |-> call'[u].epoch]]
  BY DEF CallsOK
<1>2. ASSUME NEW u \in Thread
      PROVE  /\ call'[u].time \in 0..now
             /\ call'[u].epoch \in Nat
             /\ pc'[u] # "idle" => call'[u].req \in Requests /\ call'[u].leaf \in Leaf
             /\ pc'[u] \in {"add", "relax"} =>
                  /\ BucketOf(call'[u].req) # Refused
                  /\ call'[u].epoch <= epoch[BucketOf(call'[u].req)[1]]
  <2>1. CASE u = t
    BY <2>1
  <2>2. CASE u # t
    BY <2>2 DEF CallsOK
  <2>3. QED
    BY <2>1, <2>2
<1>3. QED
  BY <1>1, <1>2 DEF CallsOK

LEMMA TickInv == RateInv /\ Tick => RateInv'
<1> SUFFICES ASSUME RateInv, Tick PROVE RateInv'
  OBVIOUS
<1> USE DEF RateInv, Tick
<1>1. TypeOK'
  BY DEF TypeOK
<1>2. CallsOK'
  <2>1. now \in Nat /\ now' = now + 1
    BY DEF TypeOK
  <2>2. \A t \in Thread : call[t].time \in 0..now'
    BY <2>1 DEF CallsOK
  <2>3. QED
    BY <2>2 DEF CallsOK
<1>3. InFlightHeld'
  BY InFlightShrinks DEF InFlight
<1>4. CountsTrackUse'
  BY DEF CountsTrackUse
<1>5. ScheduleNotAhead'
  BY DEF ScheduleNotAhead, TypeOK
<1>6. ResetsExact'
  BY NoReset DEF Resetting
<1>7. QED
  BY <1>1, <1>2, <1>3, <1>4, <1>5, <1>6

LEMMA AccessAllowedInv ==
  ASSUME RateInv, NEW t \in Thread, NEW r \in Requests, NEW l \in Leaf, AccessAllowed(t, r, l)
  PROVE  RateInv'
<1> USE DEF RateInv, AccessAllowed, Goto
<1>1. TypeOK'
  BY DEF TypeOK
<1>2. CallsOK'
  <2>1. DOMAIN call = Thread
    BY DEF CallsOK
  <2>2. call'[t] = [req |-> r, leaf |-> l, time |-> now, epoch |-> 0] /\ pc'[t] = "schedule"
    BY <2>1 DEF TypeOK
  <2>3. \A u \in Thread : u # t => call'[u] = call[u] /\ pc'[u] = pc[u]
    BY <2>1 DEF TypeOK
  <2>4. call' = [u \in Thread |-> call'[u]] /\ now \in 0..now
    BY <2>1 DEF TypeOK, CallsOK
  <2>5. QED
    BY <2>2, <2>3, <2>4, CallsKept
<1>3. InFlightHeld'
  BY InFlightShrinks DEF InFlight, TypeOK, CallsOK
<1>4. CountsTrackUse'
  BY DEF CountsTrackUse
<1>5. ScheduleNotAhead'
  BY DEF ScheduleNotAhead
<1>6. ResetsExact'
  BY NoReset DEF Resetting, TypeOK, Tables
<1>7. QED
  BY <1>1, <1>2, <1>3, <1>4, <1>5, <1>6

\* IsTime grants the reset to handler t, which from now on counts as being
\* about to reset each of the tables.
LEMMA IsTimeInv ==
  ASSUME RateInv, NEW t \in Thread, IsTime(t)
  PROVE  RateInv'
<1> USE DEF RateInv, IsTime, Goto
<1>1. TypeOK'
  BY DEF TypeOK, Tables
<1>2. CallsOK'
  BY DEF CallsOK, TypeOK
<1>3. InFlightHeld'
  BY InFlightShrinks DEF InFlight, TypeOK
<1>4. CountsTrackUse'
  BY DEF CountsTrackUse
<1>5. ScheduleNotAhead'
  BY DEF ScheduleNotAhead, TypeOK, CallsOK
<1>6. ResetsExact'
  <2>1. CASE call[t].time < next
    BY <2>1, NoReset DEF Resetting, TypeOK, Tables
  <2>2. CASE ~(call[t].time < next)
    <3> SUFFICES ASSUME NEW m \in Tables
                 PROVE  (epoch'[m] + Cardinality(Resetting(m)') + 1) * Period = next'
      BY DEF ResetsExact
    <3>1. Resetting(m)' = Resetting(m) \cup {t} /\ t \notin Resetting(m)
      BY <2>2 DEF Resetting, TypeOK, Tables
    <3>2. Resetting(m) \in SUBSET Thread
      BY DEF Resetting
    <3>3. Cardinality(Resetting(m)') = Cardinality(Resetting(m)) + 1 /\ Cardinality(Resetting(m)) \in Nat
      BY <3>1, <3>2, OneHandlerMore, HandlersFinite
    <3> DEFINE n == epoch[m] + Cardinality(Resetting(m)) + 1
    <3>4. n \in Nat /\ epoch'[m] + Cardinality(Resetting(m)') + 1 = n + 1
      BY <3>3 DEF TypeOK
    <3>5. n * Period = next /\ next' = next + Period
      BY <2>2 DEF ResetsExact
    <3> HIDE DEF n
    <3>6. QED
      BY <3>4, <3>5, NextPeriod
  <2>3. QED
    BY <2>1, <2>2
<1>7. QED
  BY <1>1, <1>2, <1>3, <1>4, <1>5, <1>6

\* Reset of a table takes its handlers out of flight: what they were counted
\* under is gone.
LEMMA ResetInv ==
  ASSUME RateInv, NEW t \in Thread, Reset(t)
  PROVE  RateInv'
<1> USE DEF RateInv, Reset, Goto
<1>moved.
  /\ epoch' = [epoch EXCEPT ![pc[t]] = @ + 1]
  /\ pc[t] \in Tables
  /\ pc[t] = "key" => pc'[t] = "domain"
  /\ pc[t] = "domain" => pc'[t] = "public"
  /\ pc[t] = "public" => pc'[t] = "count"
  /\ \A u \in Thread : u # t => pc'[u] = pc[u]
  BY DEF TypeOK, Tables
<1>cleared.
  \A b \in Buckets :
    IF b[1] = pc[t] THEN counts'[b] = 0 /\ held'[b] = 0 /\ late'[b] = 0
    ELSE counts'[b] = counts[b] /\ held'[b] = held[b] /\ late'[b] = late[b]
  BY DEF TypeOK
<1>1. TypeOK'
  <2>1. pc' \in [Thread -> Tables \cup {"idle", "schedule", "count", "add", "relax"}]
    BY <1>moved DEF TypeOK, Tables
  <2>2. counts' \in [Buckets -> Nat] /\ held' \in [Buckets -> Nat] /\ late' \in [Buckets -> Nat]
    BY DEF TypeOK
  <2>3. epoch' \in [Tables -> Nat]
    BY <1>moved DEF TypeOK
  <2>4. now' = now /\ next' = next /\ known' = known
    OBVIOUS
  <2>5. QED
    BY <2>1, <2>2, <2>3, <2>4 DEF TypeOK
<1>2. CallsOK'
  <2>1. \A m \in Tables : epoch[m] <= epoch'[m] /\ epoch[m] \in Nat /\ epoch'[m] \in Nat
    BY <1>moved DEF TypeOK
  <2>2. ASSUME NEW u \in Thread, pc'[u] \in {"add", "relax"}
        PROVE  call'[u].epoch <= epoch'[BucketOf(call'[u].req)[1]]
    <3>1. pc[u] \in {"add", "relax"}
      BY <1>moved, <2>2 DEF Tables
    <3>2. BucketOf(call[u].req) \in Buckets
      BY <3>1 DEF CallsOK, Buckets
    <3>3. BucketOf(call[u].req)[1] \in Tables
      BY <3>2, BucketsOK
    <3>4. QED
      BY <2>1, <3>1, <3>3 DEF CallsOK
  <2>3. QED
    BY <1>moved, <2>2 DEF CallsOK, Tables
<1>3. InFlightHeld'
  <2> SUFFICES ASSUME NEW b \in Buckets PROVE Cardinality(InFlight(b)') <= held'[b]
    BY DEF InFlightHeld
  <2>1. CASE b[1] = pc[t]
    <3>1. InFlight(b)' = {}
      BY <1>moved, <2>1 DEF InFlight, CallsOK, TypeOK, Tables
    <3>2. QED
      BY <1>cleared, <2>1, <3>1, FS_EmptySet
  <2>2. CASE b[1] # pc[t]
    <3>1. InFlight(b)' = InFlight(b)
      BY <1>moved, <2>2, BucketsOK DEF InFlight, TypeOK, Tables
    <3>2. QED
      BY <1>cleared, <2>2, <3>1 DEF InFlightHeld
  <2>3. QED
    BY <2>1, <2>2
<1>4. CountsTrackUse'
  BY <1>cleared, BucketsOK DEF CountsTrackUse
<1>5. ScheduleNotAhead'
  BY DEF ScheduleNotAhead
<1>6. ResetsExact'
  <2> SUFFICES ASSUME NEW m \in Tables
               PROVE  (epoch'[m] + Cardinality(Resetting(m)') + 1) * Period = next'
    BY DEF ResetsExact
  <2>1. CASE m = pc[t]
    <3>1. Resetting(m)' = Resetting(m) \ {t} /\ t \in Resetting(m)
      <4>1. t \in Resetting(m) /\ t \notin Resetting(m)'
        BY <1>moved, <2>1 DEF Resetting, Tables
      <4>2. \A u \in Thread : u # t => (u \in Resetting(m)' <=> u \in Resetting(m))
        BY <1>moved DEF Resetting
      <4>3. Resetting(m)' \subseteq Thread /\ Resetting(m) \subseteq Thread
        BY DEF Resetting
      <4>4. QED
        BY <4>1, <4>2, <4>3
    <3>2. Resetting(m) \in SUBSET Thread
      BY DEF Resetting
    <3>3. Cardinality(Resetting(m)') = Cardinality(Resetting(m)) - 1 /\ Cardinality(Resetting(m)) \in Nat
      BY <3>1, <3>2, OneHandlerMore, HandlersFinite
    <3>4. epoch'[m] = epoch[m] + 1 /\ epoch[m] \in Nat
      BY <1>moved, <2>1 DEF TypeOK
    <3>5. epoch'[m] + Cardinality(Resetting(m)') + 1 = epoch[m] + Cardinality(Resetting(m)) + 1
      BY <3>3, <3>4
    <3>6. QED
      BY <3>5 DEF ResetsExact
  <2>2. CASE m # pc[t]
    <3>1. Resetting(m)' = Resetting(m)
      BY <1>moved, <2>2 DEF Resetting, Tables
    <3>2. epoch'[m] = epoch[m]
      BY <1>moved, <2>2 DEF TypeOK
    <3>3. QED
      BY <3>1, <3>2 DEF ResetsExact
  <2>3. QED
    BY <2>1, <2>2
<1>7. QED
  BY <1>1, <1>2, <1>3, <1>4, <1>5, <1>6

\* A handler that returns is not in flight any more.
LEMMA ReturnKeeps ==
  ASSUME RateInv, NEW t \in Thread, pc[t] \notin Tables, Return(t), UNCHANGED <<now, epoch>>
  PROVE  /\ pc' \in [Thread -> Tables \cup {"idle", "schedule", "count", "add", "relax"}]
         /\ CallsOK'
         /\ \A b \in Buckets : InFlight(b)' = InFlight(b) \ {t}
         /\ \A m \in Tables : Resetting(m)' = Resetting(m)
<1> USE DEF RateInv, Return, Goto
<1>0. DOMAIN call = Thread
  BY DEF CallsOK
<1>1. call'[t] = NoCall /\ pc'[t] = "idle"
  BY <1>0 DEF TypeOK
<1>2. \A u \in Thread : u # t => call'[u] = call[u] /\ pc'[u] = pc[u]
  BY <1>0 DEF TypeOK
<1>3. pc' \in [Thread -> Tables \cup {"idle", "schedule", "count", "add", "relax"}]
  BY DEF TypeOK
<1>4. CallsOK'
  <2>1. call' = [u \in Thread |-> call'[u]] /\ 0 \in 0..now
    BY <1>0 DEF TypeOK, CallsOK
  <2>2. QED
    BY <1>1, <1>2, <2>1, CallsKept DEF NoCall
<1>5. ASSUME NEW b \in Buckets PROVE InFlight(b)' = InFlight(b) \ {t}
  BY <1>1, <1>2 DEF InFlight
<1>6. ASSUME NEW m \in Tables PROVE Resetting(m)' = Resetting(m)
  BY <1>1, <1>2 DEF Resetting, Tables
<1>7. QED
  BY <1>3, <1>4, <1>5, <1>6

LEMMA CountInv ==
  ASSUME RateInv, NEW t \in Thread, Count(t)
  PROVE  RateInv'
<1> DEFINE b == BucketOf(call[t].req)
<1> USE DEF RateInv
<1>0. pc[t] = "count" /\ UNCHANGED <<now, next, known, epoch, late>>
  BY DEF Count
<1>1. CASE b = Refused \/ counts[b] >= LimitOf(b)
  <2>1. Return(t) /\ UNCHANGED <<counts, held>>
    BY <1>1 DEF Count
  <2>2. pc[t] \notin Tables
    BY <1>0 DEF Tables
  <2>3. TypeOK' /\ CallsOK'
    BY <1>0, <2>1, <2>2, ReturnKeeps DEF TypeOK
  <2>4. InFlightHeld'
    BY <1>0, <2>1, <2>2, ReturnKeeps, InFlightShrinks
  <2>5. CountsTrackUse' /\ ScheduleNotAhead'
    BY <1>0, <2>1 DEF CountsTrackUse, ScheduleNotAhead
  <2>6. ResetsExact'
    BY <1>0, <2>1, <2>2, ReturnKeeps, NoReset
  <2>7. QED
    BY <2>3, <2>4, <2>5, <2>6
<1>2. CASE ~(b = Refused \/ counts[b] >= LimitOf(b))
  <2>1. /\ counts' = [counts EXCEPT ![b] = @ + 1]
        /\ held' = [held EXCEPT ![b] = @ + 1]
        /\ call' = [call EXCEPT ![t].epoch = epoch[b[1]]]
        /\ pc' = [pc EXCEPT ![t] = "add"]
    BY <1>2 DEF Count, Goto
  <2>2. b \in Buckets /\ b[1] \in Tables /\ LimitOf(b) \in Nat
    <3>1. b \in Buckets
      BY <1>0, <1>2 DEF CallsOK, Buckets
    <3>2. QED
      BY <3>1, BucketsOK
  <2>3. TypeOK'
    BY <1>0, <2>1, <2>2 DEF TypeOK
  <2>4. /\ DOMAIN call = Thread
        /\ call[t] = [req |-> call[t].req, leaf |-> call[t].leaf,
                      time |-> call[t].time, epoch |-> call[t].epoch]
    BY DEF CallsOK
  <2>5. /\ call'[t] = [req |-> call[t].req, leaf |-> call[t].leaf,
                       time |-> call[t].time, epoch |-> epoch[b[1]]]
        /\ pc'[t] = "add"
        /\ \A u \in Thread : u # t => call'[u] = call[u] /\ pc'[u] = pc[u]
        /\ call' = [u \in Thread |-> call'[u]]
    BY <2>1, <2>4 DEF TypeOK
  <2> HIDE DEF b
  <2>6. CallsOK'
    <3>1. /\ call'[t].req \in Requests /\ call'[t].leaf \in Leaf
          /\ call'[t].time \in 0..now /\ call'[t].epoch \in Nat
          /\ BucketOf(call'[t].req) = b
      BY <1>0, <2>2, <2>5 DEF CallsOK, TypeOK, b
    <3>2. b # Refused /\ call'[t].epoch <= epoch[b[1]]
      BY <1>2, <2>2, <2>5 DEF TypeOK
    <3>3. call'[t] = [req |-> call'[t].req, leaf |-> call'[t].leaf,
                      time |-> call'[t].time, epoch |-> call'[t].epoch]
      BY <2>5
    <3>4. QED
      BY <1>0, <2>5, <3>1, <3>2, <3>3, CallsKept
  <2>7. InFlightHeld'
    <3> SUFFICES ASSUME NEW c \in Buckets PROVE Cardinality(InFlight(c)') <= held'[c]
      BY DEF InFlightHeld
    <3>1. InFlight(c) \in SUBSET Thread /\ t \notin InFlight(c)
      BY <1>0 DEF InFlight
    <3>2. Cardinality(InFlight(c)) \in Nat /\ Cardinality(InFlight(c)) <= held[c] /\ held[c] \in Nat
      BY <3>1, HandlersFinite DEF InFlightHeld, TypeOK
    <3>3. CASE c = b
      <4>1. InFlight(c)' = InFlight(c) \cup {t}
        BY <1>0, <2>5, <3>3 DEF InFlight, b
      <4>2. Cardinality(InFlight(c)') = Cardinality(InFlight(c)) + 1
        BY <3>1, <4>1, OneHandlerMore
      <4>3. QED
        BY <2>1, <3>2, <3>3, <4>2 DEF TypeOK
    <3>4. CASE c # b
      <4>1. InFlight(c)' = InFlight(c)
        BY <1>0, <2>5, <3>4 DEF InFlight, b
      <4>2. QED
        BY <2>1, <3>2, <3>4, <4>1 DEF TypeOK
    <3>5. QED
      BY <3>3, <3>4
  <2>8. CountsTrackUse'
    BY <1>0, <1>2, <2>1, <2>2 DEF CountsTrackUse, TypeOK
  <2>9. ScheduleNotAhead' /\ ResetsExact'
    <3>1. \A m \in Tables : Resetting(m)' = Resetting(m)
      BY <1>0, <2>5 DEF Resetting, Tables
    <3>2. QED
      BY <1>0, <3>1, NoReset DEF ScheduleNotAhead
  <2>10. QED
    BY <2>3, <2>6, <2>7, <2>8, <2>9
<1>3. QED
  BY <1>1, <1>2

\* What the backend gets to know is a leaf that was counted.
LEMMA KnownKeeps ==
  ASSUME RateInv, NEW t \in Thread, pc[t] = "add", known' = known \/ BecomesKnown(t)
  PROVE  known' \subseteq [leaf : Leaf, bucket : Buckets, day : 0..MaxTime]
<1> USE DEF RateInv
<1>1. call[t].leaf \in Leaf /\ BucketOf(call[t].req) \in Buckets
  BY DEF CallsOK, Buckets
<1>2. call[t].time \div Period \in 0..MaxTime
  <2>1. call[t].time \in Nat /\ call[t].time <= MaxTime
    BY DEF CallsOK, TypeOK
  <2>2. call[t].time \div Period \in 0..call[t].time
    BY <2>1, DayBound
  <2>3. QED
    BY <2>1, <2>2
<1>3. QED
  BY <1>1, <1>2 DEF TypeOK, BecomesKnown

\* A handler that returns without relaxing its access.
LEMMA ReturnInv ==
  ASSUME RateInv, NEW t \in Thread, pc[t] = "add", Return(t),
         known' = known \/ BecomesKnown(t),
         UNCHANGED <<now, next, counts, epoch, held, late>>
  PROVE  RateInv'
<1> USE DEF RateInv
<1>1. pc[t] \notin Tables
  BY DEF Tables
<1>2. TypeOK' /\ CallsOK'
  BY <1>1, ReturnKeeps, KnownKeeps DEF TypeOK
<1>3. InFlightHeld'
  BY <1>1, ReturnKeeps, InFlightShrinks
<1>4. CountsTrackUse' /\ ScheduleNotAhead'
  BY DEF CountsTrackUse, ScheduleNotAhead
<1>5. ResetsExact'
  BY <1>1, ReturnKeeps, NoReset
<1>6. QED
  BY <1>2, <1>3, <1>4, <1>5

LEMMA AddLeafInv ==
  ASSUME RateInv, NEW t \in Thread, AddLeaf(t)
  PROVE  RateInv'
<1>1. CASE IsKnown(call[t].leaf)
  <2> USE DEF RateInv
  <2>1. /\ pc[t] = "add" /\ pc' = [pc EXCEPT ![t] = "relax"]
        /\ UNCHANGED <<known, call, now, next, counts, epoch, held, late>>
    BY <1>1 DEF AddLeaf, Goto
  <2>2. TypeOK'
    BY <2>1 DEF TypeOK
  <2>3. CallsOK'
    BY <2>1 DEF CallsOK, TypeOK
  <2>4. InFlightHeld'
    BY <2>1, InFlightShrinks DEF InFlight, TypeOK
  <2>5. CountsTrackUse' /\ ScheduleNotAhead'
    BY <2>1 DEF CountsTrackUse, ScheduleNotAhead
  <2>6. ResetsExact'
    <3>1. \A m \in Tables : Resetting(m)' = Resetting(m)
      BY <2>1 DEF Resetting, Tables, TypeOK
    <3>2. QED
      BY <2>1, <3>1, NoReset
  <2>7. QED
    BY <2>2, <2>3, <2>4, <2>5, <2>6
<1>2. CASE ~IsKnown(call[t].leaf)
  BY <1>2, ReturnInv DEF AddLeaf
<1>3. QED
  BY <1>1, <1>2

\* A relaxed access: the handler was in flight if and only if its table has
\* not been reset, and then the entry holds at least its access.
LEMMA RelaxInv ==
  ASSUME RateInv, NEW t \in Thread, Relax(t)
  PROVE  RateInv'
<1> DEFINE b == BucketOf(call[t].req)
           fresh == call[t].epoch = epoch[b[1]]
<1> USE DEF RateInv
<1>1. /\ pc[t] = "relax" /\ pc[t] \notin Tables
      /\ Return(t)
      /\ UNCHANGED <<now, next, known, epoch>>
      /\ counts' = IF counts[b] > 0 THEN [counts EXCEPT ![b] = @ - 1] ELSE counts
      /\ IF fresh THEN held' = [held EXCEPT ![b] = @ - 1] /\ UNCHANGED late
                  ELSE late' = [late EXCEPT ![b] = @ + 1] /\ UNCHANGED held
  BY DEF Relax, Tables
<1>2. b \in Buckets
  BY <1>1 DEF CallsOK, Buckets
<1>3. \A c \in Buckets :
        /\ InFlight(c) \in SUBSET Thread
        /\ t \in InFlight(c) <=> c = b /\ fresh
  BY <1>1 DEF InFlight
<1>4. \A c \in Buckets :
        /\ InFlight(c)' = InFlight(c) \ {t}
        /\ Cardinality(InFlight(c)) \in Nat
        /\ Cardinality(InFlight(c)) <= held[c]
        /\ held[c] \in Nat /\ late[c] \in Nat /\ counts[c] \in Nat
  BY <1>1, <1>3, ReturnKeeps, HandlersFinite DEF InFlightHeld, TypeOK
<1> HIDE DEF b, fresh
<1>5. fresh => held[b] >= 1
  <2> SUFFICES ASSUME fresh PROVE held[b] >= 1
    OBVIOUS
  <2>1. t \in InFlight(b) /\ InFlight(b) \in SUBSET Thread
    BY <1>2, <1>3
  <2>2. Cardinality(InFlight(b) \ {t}) = Cardinality(InFlight(b)) - 1
    BY <2>1, OneHandlerMore
  <2>3. Cardinality(InFlight(b) \ {t}) \in Nat
    BY <2>1, HandlersFinite
  <2>4. QED
    BY <1>2, <1>4, <2>2, <2>3
<1>6. TypeOK' /\ CallsOK'
  <2>1. CallsOK' /\ pc' \in [Thread -> Tables \cup {"idle", "schedule", "count", "add", "relax"}]
    BY <1>1, ReturnKeeps
  <2>2. counts' \in [Buckets -> Nat]
    BY <1>1, <1>2 DEF TypeOK
  <2>3. held' \in [Buckets -> Nat] /\ late' \in [Buckets -> Nat]
    BY <1>1, <1>2, <1>5 DEF TypeOK
  <2>4. QED
    BY <1>1, <2>1, <2>2, <2>3 DEF TypeOK
<1>7. InFlightHeld'
  <2> SUFFICES ASSUME NEW c \in Buckets PROVE Cardinality(InFlight(c)') <= held'[c]
    BY DEF InFlightHeld
  <2>1. CASE c = b /\ fresh
    <3>1. Cardinality(InFlight(c)') = Cardinality(InFlight(c)) - 1
      BY <1>3, <1>4, <2>1, OneHandlerMore
    <3>2. held'[c] = held[c] - 1
      BY <1>1, <2>1 DEF TypeOK
    <3>3. QED
      BY <1>4, <3>1, <3>2
  <2>2. CASE ~(c = b /\ fresh)
    <3>1. InFlight(c)' = InFlight(c)
      BY <1>3, <1>4, <2>2
    <3>2. held'[c] = held[c]
      BY <1>1, <2>2 DEF TypeOK
    <3>3. QED
      BY <1>4, <3>1, <3>2
  <2>3. QED
    BY <2>1, <2>2
<1>8. CountsTrackUse'
  <2> SUFFICES ASSUME NEW c \in Buckets
               PROVE  /\ held'[c] - late'[c] <= counts'[c]
                      /\ counts'[c] <= held'[c]
                      /\ held'[c] <= LimitOf(c) + late'[c]
    BY DEF CountsTrackUse
  <2>1. /\ held[c] - late[c] <= counts[c]
        /\ counts[c] <= held[c]
        /\ held[c] <= LimitOf(c) + late[c]
        /\ LimitOf(c) \in Nat
    BY BucketsOK DEF CountsTrackUse
  <2>2. CASE c # b
    BY <1>1, <2>1, <2>2 DEF TypeOK
  <2>3. CASE c = b
    <3>1. counts'[c] = IF counts[c] > 0 THEN counts[c] - 1 ELSE counts[c]
      BY <1>1, <1>2, <2>3 DEF TypeOK
    <3>2. IF fresh THEN held'[c] = held[c] - 1 /\ late'[c] = late[c]
                   ELSE held'[c] = held[c] /\ late'[c] = late[c] + 1
      BY <1>1, <1>2, <2>3 DEF TypeOK
    <3>3. QED
      BY <1>4, <1>5, <2>1, <2>3, <3>1, <3>2
  <2>4. QED
    BY <2>2, <2>3
<1>9. ScheduleNotAhead' /\ ResetsExact'
  BY <1>1, ReturnKeeps, NoReset DEF ScheduleNotAhead
<1>10. QED
  BY <1>6, <1>7, <1>8, <1>9

LEMMA NextRateInv == RateInv /\ [Next]_vars => RateInv'
<1> SUFFICES ASSUME RateInv, [Next]_vars PROVE RateInv'
  OBVIOUS
<1>1. CASE Tick
  BY <1>1, TickInv
<1>2. ASSUME NEW t \in Thread, NEW r \in Requests, NEW l \in Leaf, AccessAllowed(t, r, l)
      PROVE  RateInv'
  BY <1>2, AccessAllowedInv
<1>3. ASSUME NEW t \in Thread, IsTime(t) \/ Reset(t) \/ Count(t) PROVE RateInv'
  BY <1>3, IsTimeInv, ResetInv, CountInv
<1>4. ASSUME NEW t \in Thread, AddLeaf(t) \/ Relax(t) PROVE RateInv'
  BY <1>4, AddLeafInv, RelaxInv
<1>5. ASSUME NEW t \in Thread, AddLeafFails(t) PROVE RateInv'
  BY <1>5, ReturnInv DEF AddLeafFails
<1>6. CASE UNCHANGED vars
  BY <1>6 DEF vars, RateInv, TypeOK, CallsOK, InFlightHeld, InFlight, CountsTrackUse,
              ScheduleNotAhead, ResetsExact, Resetting
<1>7. QED
  BY <1>1, <1>2, <1>3, <1>4, <1>5, <1>6 DEF Next

-----------------------------------------------------------------------------
\* The inductive invariant of limiter and handlers: an access that
\* AccessAllowed has counted is relaxed at most once, and handlers carry the
\* entry they were counted under.
THEOREM RateInvariant == Spec => []RateInv
<1>1. QED
  BY InitRateInv, NextRateInv, PTL DEF Spec

\* However handlers interleave with each other and with resets, a submitter
\* is charged for no more than was counted since the last reset, and never
\* gets in more than its limit and the late relaxes of the period before.
THEOREM LimitKept == Spec => []CountsTrackUse
<1>1. RateInv => CountsTrackUse
  BY DEF RateInv
<1>2. QED
  BY <1>1, RateInvariant, PTL

\* IsTime grants every reset to one handler only, which resets all three
\* tables: each table is reset as often as the schedule has moved on, but for
\* the resets under way.
THEOREM ResetsOncePerPeriod == Spec => []ResetsExact
<1>1. RateInv => ResetsExact
  BY DEF RateInv
<1>2. QED
  BY <1>1, RateInvariant, PTL

\* schedule.next is never more than one period ahead of the clock, although
\* IsTime reads the clock before it takes the lock.
THEOREM ScheduleKeepsPace == Spec => []ScheduleNotAhead
<1>1. RateInv => ScheduleNotAhead
  BY DEF RateInv
<1>2. QED
  BY <1>1, RateInvariant, PTL
=============================================================================
