--------------------------- MODULE WitnessProofs ---------------------------
(***************************************************************************)
(* Proof that WitnessInv is an invariant of the cosignature collector, for *)
(* any finite set of witnesses and trees of any size.                      *)
(***************************************************************************)
EXTENDS Witness, FiniteSetTheorems, TLAPS

USE MaxSizeAssumption, WitnessesAssumption

-----------------------------------------------------------------------------
LEMMA SubsetsFinite ==
  ASSUME NEW S \in SUBSET Witnesses
  PROVE  /\ IsFiniteSet(S)
         /\ Cardinality(S) \in 0..Cardinality(Witnesses)
         /\ Cardinality(Witnesses) \in Nat
<1>1. IsFiniteSet(S) /\ Cardinality(S) <= Cardinality(Witnesses)
  BY FS_Subset
<1>2. Cardinality(S) \in Nat /\ Cardinality(Witnesses) \in Nat
  BY <1>1, FS_CardinalityType
<1>3. QED
  BY <1>1, <1>2

\* Adding a witness to a set of them, or taking one away.
LEMMA OneWitnessMore ==
  ASSUME NEW S \in SUBSET Witnesses, NEW w \in Witnesses
  PROVE  /\ w \notin S => Cardinality(S \cup {w}) = Cardinality(S) + 1
         /\ w \in S => Cardinality(S \ {w}) = Cardinality(S) - 1
BY SubsetsFinite, FS_AddElement, FS_RemoveElement

\* Nothing is going on: the collector when it has just been made.
Quiet ==
  /\ size \in 0..MaxSize
  /\ witnessSize \in [Witnesses -> 0..MaxSize]
  /\ prevSize \in [Witnesses -> 0..MaxSize]
  /\ gpc = [w \in Witnesses |-> "none"]
  /\ wg = 0
  /\ closed = TRUE
  /\ collecting = FALSE
  /\ obtained = {}
  /\ cosignatures = << >>

LEMMA QuietInv == Quiet => WitnessInv
<1> SUFFICES ASSUME Quiet PROVE WitnessInv
  OBVIOUS
<1> USE DEF Quiet
<1>1. Running = {} /\ Sending = {} /\ Arrived = {}
  BY DEF Running, Sending, Arrived
<1>2. Cardinality({}) = 0 /\ Cardinality(Witnesses) \in Nat
  BY FS_EmptySet, FS_CardinalityType
<1>3. TypeOK
  <2>1. closed \in BOOLEAN /\ collecting \in BOOLEAN
    BY Zenon
  <2>2. /\ gpc \in [Witnesses -> {"none", "proof", "add", "size", "send", "done"}]
        /\ wg \in 0..Cardinality(Witnesses)
        /\ obtained \in SUBSET Witnesses
        /\ cosignatures \in Seq(Witnesses)
    BY <1>2
  <2>3. QED
    BY <2>1, <2>2, Zenon DEF TypeOK
<1>4. NoStragglers
  BY DEF NoStragglers
<1>5. QED
  BY <1>1, <1>2, <1>3, <1>4 DEF WitnessInv

LEMMA QuietNext == Quiet' => WitnessInv'
BY QuietInv, PTL

LEMMA GetCosignaturesInv == WitnessInv /\ GetCosignatures => WitnessInv'
<1> SUFFICES ASSUME WitnessInv, GetCosignatures PROVE WitnessInv'
  OBVIOUS
<1> USE DEF GetCosignatures
<1>1. Running' = Witnesses /\ Sending' = {} /\ Arrived' = {}
  BY DEF Running, Sending, Arrived
<1>2. Cardinality({}) = 0 /\ Cardinality(Witnesses) \in Nat
  BY FS_EmptySet, FS_CardinalityType
<1>3. TypeOK'
  <2>1. closed' \in BOOLEAN /\ collecting' \in BOOLEAN
    BY Zenon
  <2>2. /\ gpc' \in [Witnesses -> {"none", "proof", "add", "size", "send", "done"}]
        /\ wg' \in 0..Cardinality(Witnesses)
        /\ obtained' \in SUBSET Witnesses
        /\ cosignatures' \in Seq(Witnesses)
    BY <1>2
  <2>3. /\ size' \in 0..MaxSize
        /\ witnessSize' \in [Witnesses -> 0..MaxSize]
        /\ prevSize' \in [Witnesses -> 0..MaxSize]
    BY DEF WitnessInv, TypeOK
  <2>4. QED
    BY <2>1, <2>2, <2>3, Zenon DEF TypeOK
<1>4. NoStragglers'
  BY DEF NoStragglers
<1>5. QED
  BY <1>1, <1>2, <1>3, <1>4 DEF WitnessInv

\* Steps of a goroutine before it has a cosignature, among them the failing
\* calls.
LEMMA WorkingInv ==
  ASSUME WitnessInv, NEW w \in Witnesses,
         GetConsistencyProof(w) \/ GetTreeSize(w) \/ CallFails(w)
           \/ (AddTreeHead(w) /\ prevSize[w] # witnessSize[w])
  PROVE  WitnessInv'
<1> USE DEF WitnessInv
<1>1. /\ gpc[w] \in {"proof", "add", "size"}
      /\ \E p \in {"proof", "add", "size", "done"} : gpc' = [gpc EXCEPT ![w] = p]
      /\ UNCHANGED <<size, wg, closed, collecting, obtained, cosignatures>>
  BY DEF GetConsistencyProof, GetTreeSize, CallFails, AddTreeHead, Goto
<1>2. PICK p \in {"proof", "add", "size", "done"} : gpc' = [gpc EXCEPT ![w] = p]
  BY <1>1
<1>3. witnessSize' \in [Witnesses -> 0..MaxSize] /\ prevSize' \in [Witnesses -> 0..MaxSize]
  BY DEF GetConsistencyProof, GetTreeSize, CallFails, AddTreeHead, TypeOK
<1>4. TypeOK'
  BY <1>1, <1>2, <1>3 DEF TypeOK
<1>5. Running' = Running /\ Sending' = Sending /\ Arrived' = Arrived
  BY <1>1, <1>2 DEF Running, Sending, Arrived, TypeOK
<1>6. NoStragglers'
  BY <1>1, <1>2 DEF NoStragglers, TypeOK
<1>7. \A v \in Witnesses : gpc'[v] \in {"proof", "add", "size"} => v \notin obtained
  BY <1>1, <1>2 DEF TypeOK
<1>8. \A v \in Witnesses : gpc'[v] = "add" => prevSize'[v] <= size'
  <2> SUFFICES ASSUME NEW v \in Witnesses, gpc'[v] = "add" PROVE prevSize'[v] <= size'
    OBVIOUS
  <2>1. CASE v = w
    <3>1. GetConsistencyProof(w)
      BY <2>1 DEF GetConsistencyProof, GetTreeSize, CallFails, AddTreeHead, Goto, TypeOK
    <3>2. ~(prevSize[w] > size) /\ prevSize' = prevSize /\ size' = size
      BY <2>1, <3>1 DEF GetConsistencyProof, Goto, TypeOK
    <3>3. QED
      BY <2>1, <3>2 DEF TypeOK
  <2>2. CASE v # w
    <3>1. gpc[v] = "add" /\ size' = size
      BY <1>1, <1>2, <2>2 DEF TypeOK
    <3>2. prevSize'[v] = prevSize[v]
      BY <2>2 DEF GetConsistencyProof, GetTreeSize, CallFails, AddTreeHead, TypeOK
    <3>3. QED
      BY <3>1, <3>2
  <2>3. QED
    BY <2>1, <2>2
<1>9. QED
  BY <1>1, <1>4, <1>5, <1>6, <1>7, <1>8

LEMMA CosignedInv ==
  ASSUME WitnessInv, NEW w \in Witnesses, AddTreeHead(w), prevSize[w] = witnessSize[w]
  PROVE  WitnessInv'
<1> USE DEF WitnessInv
<1>1. /\ gpc[w] = "add" /\ gpc' = [gpc EXCEPT ![w] = "send"]
      /\ obtained' = obtained \cup {w}
      /\ witnessSize' = [witnessSize EXCEPT ![w] = size]
      /\ prevSize' = [prevSize EXCEPT ![w] = size]
      /\ UNCHANGED <<size, wg, closed, collecting, cosignatures>>
  BY DEF AddTreeHead, Goto
<1>2. TypeOK'
  BY <1>1 DEF TypeOK
<1>3. Running' = Running /\ Sending' = Sending \cup {w} /\ Arrived' = Arrived
  BY <1>1 DEF Running, Sending, Arrived, TypeOK
<1>4. NoStragglers'
  BY <1>1 DEF NoStragglers, TypeOK
<1>5. /\ Sending \in SUBSET Witnesses /\ w \notin Sending
      /\ obtained \in SUBSET Witnesses /\ w \notin obtained
  BY <1>1 DEF Sending, TypeOK
<1>6. Cardinality(Sending') = Cardinality(Sending) + 1
  BY <1>3, <1>5, OneWitnessMore
<1>7. Cardinality(obtained') = Cardinality(obtained) + 1
  BY <1>1, <1>5, OneWitnessMore
<1>8. Len(cosignatures') + Cardinality(Sending') = Cardinality(obtained')
  <2>1. cosignatures' = cosignatures /\ Len(cosignatures) \in Nat
    BY <1>1 DEF TypeOK
  <2>2. Cardinality(Sending) \in Nat /\ Cardinality(obtained) \in Nat
    BY <1>5, SubsetsFinite
  <2>3. QED
    BY <1>6, <1>7, <2>1, <2>2
<1>9. \A v \in Witnesses : gpc'[v] \in {"proof", "add", "size"} => v \notin obtained'
  BY <1>1 DEF TypeOK
<1>10. \A v \in Witnesses : gpc'[v] = "add" => prevSize'[v] <= size'
  BY <1>1 DEF TypeOK
<1>11. QED
  BY <1>1, <1>2, <1>3, <1>4, <1>8, <1>9, <1>10

LEMMA SendCosignatureInv ==
  ASSUME WitnessInv, NEW w \in Witnesses, SendCosignature(w)
  PROVE  WitnessInv'
<1> USE DEF WitnessInv
<1>1. /\ gpc[w] = "send" /\ ~closed
      /\ gpc' = [gpc EXCEPT ![w] = "done"]
      /\ cosignatures' = Append(cosignatures, w)
      /\ UNCHANGED <<size, witnessSize, prevSize, wg, closed, collecting, obtained>>
  BY DEF SendCosignature, Goto
<1>2. cosignatures \in Seq(Witnesses)
  BY DEF TypeOK
<1>3. TypeOK'
  BY <1>1 DEF TypeOK
<1>4. Running' = Running /\ Sending' = Sending \ {w} /\ w \in Sending
  BY <1>1 DEF Running, Sending, TypeOK
<1>5. Arrived' = Arrived \cup {w} /\ Len(cosignatures') = Len(cosignatures) + 1
  BY <1>1, <1>2 DEF Arrived
<1>6. Sending \in SUBSET Witnesses /\ obtained \in SUBSET Witnesses
  BY DEF Sending, TypeOK
<1>7. Cardinality(Sending') = Cardinality(Sending) - 1
  BY <1>4, <1>6, OneWitnessMore
<1>8. Len(cosignatures') + Cardinality(Sending') = Cardinality(obtained')
  <2>1. obtained' = obtained /\ Len(cosignatures) \in Nat
    BY <1>1, <1>2
  <2>2. Cardinality(Sending) \in Nat /\ Cardinality(obtained) \in Nat
    BY <1>6, SubsetsFinite
  <2>3. QED
    BY <1>5, <1>7, <2>1, <2>2
<1>9. Sending' \cup Arrived' = obtained'
  BY <1>1, <1>4, <1>5
<1>10. NoStragglers'
  BY <1>1 DEF NoStragglers
<1>11. \A v \in Witnesses : gpc'[v] \in {"proof", "add", "size"} => v \notin obtained'
  BY <1>1 DEF TypeOK
<1>12. \A v \in Witnesses : gpc'[v] = "add" => prevSize'[v] <= size'
  BY <1>1 DEF TypeOK
<1>13. QED
  BY <1>1, <1>3, <1>4, <1>8, <1>9, <1>10, <1>11, <1>12

LEMMA WgDoneInv ==
  ASSUME WitnessInv, NEW w \in Witnesses, WgDone(w)
  PROVE  WitnessInv'
<1> USE DEF WitnessInv
<1>1. /\ gpc[w] = "done" /\ wg' = wg - 1
      /\ gpc' = [gpc EXCEPT ![w] = "none"]
      /\ UNCHANGED <<size, witnessSize, prevSize, closed, collecting, obtained, cosignatures>>
  BY DEF WgDone, Goto
<1>2. /\ Running' = Running \ {w} /\ w \in Running
      /\ Running \in SUBSET Witnesses /\ Running' \in SUBSET Witnesses
      /\ Sending' = Sending /\ Arrived' = Arrived
  BY <1>1 DEF Running, Sending, Arrived, TypeOK
<1>3. Cardinality(Running') = Cardinality(Running) - 1
  BY <1>2, OneWitnessMore
<1>4. wg' = Cardinality(Running') /\ wg' \in 0..Cardinality(Witnesses)
  BY <1>1, <1>2, <1>3, SubsetsFinite
<1>5. TypeOK'
  BY <1>1, <1>4 DEF TypeOK
<1>6. NoStragglers'
  BY <1>1 DEF NoStragglers, TypeOK
<1>7. \A v \in Witnesses : gpc'[v] \in {"proof", "add", "size"} => v \notin obtained'
  BY <1>1 DEF TypeOK
<1>8. \A v \in Witnesses : gpc'[v] = "add" => prevSize'[v] <= size'
  BY <1>1 DEF TypeOK
<1>9. QED
  BY <1>1, <1>2, <1>4, <1>5, <1>6, <1>7, <1>8

\* The channel is closed only when the wait group is down to zero, that is,
\* when no goroutine is running.
LEMMA CloseChannelInv == WitnessInv /\ CloseChannel => WitnessInv'
<1> SUFFICES ASSUME WitnessInv, CloseChannel PROVE WitnessInv'
  OBVIOUS
<1> USE DEF WitnessInv, CloseChannel
<1>1. Running = {}
  <2>1. Running \in SUBSET Witnesses /\ Cardinality(Running) = 0
    BY DEF Running
  <2>2. QED
    BY <2>1, SubsetsFinite, FS_EmptySet
<1>2. NoStragglers'
  BY <1>1 DEF NoStragglers, Running
<1>3. closed' \in BOOLEAN
  BY Zenon
<1>4. TypeOK'
  BY <1>3, Zenon DEF TypeOK
<1>5. Running' = Running /\ Sending' = Sending /\ Arrived' = Arrived
  BY DEF Running, Sending, Arrived
<1>6. ~collecting' => closed'
  BY Zenon
<1>7. QED
  BY <1>2, <1>4, <1>5, <1>6

LEMMA CollectorReturnsInv == WitnessInv /\ CollectorReturns => WitnessInv'
<1> SUFFICES ASSUME WitnessInv, CollectorReturns PROVE WitnessInv'
  OBVIOUS
<1> USE DEF WitnessInv, CollectorReturns
<1>1. collecting' \in BOOLEAN
  BY Zenon
<1>2. TypeOK'
  BY <1>1, Zenon DEF TypeOK
<1>3. Running' = Running /\ Sending' = Sending /\ Arrived' = Arrived /\ NoStragglers'
  BY DEF Running, Sending, Arrived, NoStragglers
<1>4. QED
  BY <1>2, <1>3

LEMMA NextWitnessInv == WitnessInv /\ [Next]_vars => WitnessInv'
<1> SUFFICES ASSUME WitnessInv, [Next]_vars PROVE WitnessInv'
  OBVIOUS
<1>1. CASE GetCosignatures \/ CloseChannel \/ CollectorReturns
  BY <1>1, GetCosignaturesInv, CloseChannelInv, CollectorReturnsInv
<1>2. ASSUME NEW w \in Witnesses, Goroutine(w) PROVE WitnessInv'
  BY <1>2, WorkingInv, CosignedInv, SendCosignatureInv, WgDoneInv DEF Goroutine
<1>3. ASSUME NEW w \in Witnesses, CallFails(w) PROVE WitnessInv'
  BY <1>3, WorkingInv
<1>4. CASE Restart
  <2>1. size' \in 0..MaxSize /\ witnessSize' \in [Witnesses -> 0..MaxSize]
    BY <1>4 DEF Restart, WitnessInv, TypeOK
  <2>2. prevSize' \in [Witnesses -> 0..MaxSize]
    BY <1>4 DEF Restart
  <2>3. Quiet'
    BY <1>4, <2>1, <2>2, Zenon DEF Restart, Quiet
  <2>4. QED
    BY <2>3, QuietNext
<1>5. CASE UNCHANGED vars
  BY <1>5 DEF vars, WitnessInv, TypeOK, NoStragglers, Running, Sending, Arrived
<1>6. QED
  BY <1>1, <1>2, <1>3, <1>4, <1>5 DEF Next, Step, Fault

-----------------------------------------------------------------------------
\* The inductive invariant of the rounds of GetCosignatures, for any number
\* of witnesses, failing calls and restarts.
THEOREM WitnessInvariant == Spec => []WitnessInv
<1>1. Init => Quiet
  <2>1. [w \in Witnesses |-> 0] \in [Witnesses -> 0..MaxSize]
    OBVIOUS
  <2>2. QED
    BY <2>1, Zenon DEF Init, Quiet
<1>2. QED
  BY <1>1, QuietInv, NextWitnessInv, PTL DEF Spec

\* GetCosignatures returns every cosignature that was obtained, once.
THEOREM NoCosignatureLost == Spec => []CosignaturesExact
<1>1. WitnessInv => CosignaturesExact
  <2> SUFFICES ASSUME WitnessInv, closed
               PROVE  Arrived = obtained /\ Len(cosignatures) = Cardinality(obtained)
    BY DEF CosignaturesExact, Arrived
  <2>1. Sending = {}
    BY DEF Sending, WitnessInv, NoStragglers
  <2>2. Cardinality(Sending) = 0 /\ Len(cosignatures) \in Nat
    BY <2>1, FS_EmptySet DEF WitnessInv, TypeOK
  <2>3. QED
    BY <2>1, <2>2 DEF WitnessInv
<1>2. QED
  BY <1>1, WitnessInvariant, PTL

\* No goroutine is left when the channel is closed: none can write prevSize
\* while the next round reads it, nor send on a closed channel.
THEOREM NoGoroutineLeft == Spec => []NoStragglers
<1>1. WitnessInv => NoStragglers
  BY DEF WitnessInv
<1>2. QED
  BY <1>1, WitnessInvariant, PTL

\* The sizes a witness has cosigned only grow, whatever the log has lost:
\* getCosignature has asked for a consistency proof from the old size, and
\* has got one, before it sends a tree head.
THEOREM NeverAskedBack == Spec => CosignedSizesGrow
<1>1. WitnessInv /\ [Next]_vars => [\A w \in Witnesses : witnessSize[w] <= witnessSize'[w]]_vars
  <2> SUFFICES ASSUME WitnessInv, Next, NEW v \in Witnesses
               PROVE  witnessSize[v] <= witnessSize'[v]
    OBVIOUS
  <2>1. witnessSize \in [Witnesses -> 0..MaxSize] /\ size \in 0..MaxSize
    BY DEF WitnessInv, TypeOK
  <2>2. CASE witnessSize' = witnessSize
    BY <2>1, <2>2
  <2>3. CASE \E w \in Witnesses : /\ gpc[w] = "add" /\ prevSize[w] = witnessSize[w]
                                /\ witnessSize' = [witnessSize EXCEPT ![w] = size]
    <3>1. PICK w \in Witnesses : /\ gpc[w] = "add" /\ prevSize[w] = witnessSize[w]
                                 /\ witnessSize' = [witnessSize EXCEPT ![w] = size]
      BY <2>3
    <3>2. witnessSize[w] <= size
      BY <3>1 DEF WitnessInv
    <3>3. QED
      BY <2>1, <3>1, <3>2
  <2>4. QED
    BY <2>2, <2>3 DEF Next, Step, Fault, Goroutine, GetCosignatures, CloseChannel, CollectorReturns,
       Restart, CallFails, GetConsistencyProof, AddTreeHead, GetTreeSize, SendCosignature, WgDone
<1>2. QED
  BY <1>1, WitnessInvariant, PTL DEF Spec, CosignedSizesGrow
=============================================================================
