--------------------------- MODULE FailoverProofs ---------------------------
(***************************************************************************)
(* Proofs about the promotion of a secondary.  The old log keeps its       *)
(* invariants, since what is added only takes steps away from it; its      *)
(* signed heads stay within the replicated tree, which the conversion      *)
(* freezes and which the new node starts from.                             *)
(***************************************************************************)
EXTENDS Failover, SigsumLogProofs

\* Every step is one of the old log, or leaves the old log alone.
LEMMA OldLogInvariants ==
  ASSUME LogInv, ReplicationInv, [Next]_vars
  PROVE  LogInv' /\ ReplicationInv'
<1>1. LogInv'
  BY NextLogInv
<1>2. QED
  BY <1>1, FailoverAssumption, NextReplicationInv

\* What is known of the old log: types, and that it is replicated.
LEMMA OldLogFacts ==
  ASSUME LogInv, ReplicationInv
  PROVE  /\ stree \in TreeHead /\ Committed \in TreeHead /\ cosignedTreeHead \in TreeHead
         /\ IsPrefix(Committed, stree) /\ IsPrefix(cosignedTreeHead, Committed)
         /\ acked \in SUBSET Leaf
         /\ \A l \in acked : IncludedAt(Committed, Len(Committed), l)
BY CommittedType, FailoverAssumption DEF LogInv, TypeOK, ReplicationInv, Replicated, FileInv, AddLeafInv

\* Nothing of this has begun when the log is new.
LEMMA InitFailoverInv == FailoverInit => FailoverInv
<1> SUFFICES ASSUME FailoverInit PROVE FailoverInv
  OBVIOUS
<1>1. LogInv /\ ReplicationInv
  BY InitLogInv, InitReplicationInv DEF FailoverInit
<1>2. FailoverTypeOK
  BY EmptyHead DEF FailoverInit, FailoverTypeOK
<1>3. QED
  BY <1>1, <1>2 DEF FailoverInit, FailoverInv

\* The old log goes on, or its secondary stops.
LEMMA OldLogLemma ==
  ASSUME FailoverInv, OldLogStep \/ SecondaryStops
  PROVE  FailoverInv'
<1>1. [Next]_vars
  BY DEF OldLogStep, SecondaryStops, Next, Fault
<1>2. LogInv' /\ ReplicationInv'
  BY <1>1, OldLogInvariants DEF FailoverInv
<1>3. UNCHANGED <<treeType, newTree, newStartup, newSth, newPublished, newAcked>>
  BY DEF OldLogStep, SecondaryStops, newVars
<1>4. treeType = "LOG" => UNCHANGED <<stree, server>>
  BY DEF OldLogStep, SecondaryStops, FailoverInv
<1>5. server' = server \/ (server = "secondary" /\ server' = "none")
  BY DEF OldLogStep, SecondaryStops
<1>6. FailoverTypeOK'
  BY <1>3, <1>5 DEF FailoverInv, FailoverTypeOK
<1>7. QED
  BY <1>2, <1>3, <1>4, <1>5, <1>6 DEF FailoverInv

\* The operator and the new node do not touch the old log.
LEMMA NewNodeFrame ==
  ASSUME FailoverInv, UNCHANGED vars
  PROVE  LogInv' /\ ReplicationInv' /\ stree' = stree
BY OldLogInvariants DEF FailoverInv, vars, dbVars

\* The operator's steps: nothing is signed by them.
LEMMA OperatorFailoverLemma ==
  ASSUME FailoverInv, SecondaryStarts \/ ConvertTree \/ WriteStartupFile
  PROVE  FailoverInv'
<1>1. LogInv' /\ ReplicationInv' /\ stree' = stree
  BY NewNodeFrame DEF SecondaryStarts, ConvertTree, WriteStartupFile
<1>2. stree \in TreeHead /\ IsPrefix(stree, stree)
  BY PrefixRefl DEF FailoverInv, LogInv, TypeOK
<1>3. FailoverTypeOK'
  BY <1>2 DEF FailoverInv, FailoverTypeOK, SecondaryStarts, ConvertTree, WriteStartupFile, newVars
<1>4. CASE SecondaryStarts \/ WriteStartupFile
  BY <1>1, <1>3, <1>4 DEF FailoverInv, SecondaryStarts, WriteStartupFile, newVars
<1>5. CASE ConvertTree
  <2>1. newSth = NoFile /\ newSth' = NoFile /\ newPublished' = NoFile /\ newAcked' = {}
    BY <1>5 DEF FailoverInv, ConvertTree
  <2>2. server' = "none" /\ treeType' = "LOG" /\ newTree' = stree
    BY <1>5 DEF ConvertTree
  <2>3. QED
    BY <1>1, <1>2, <1>3, <2>1, <2>2 DEF FailoverInv
<1>6. QED
  BY <1>4, <1>5

\* The new node's first signature covers the whole replicated tree.
LEMMA PromotedStartLemma ==
  ASSUME FailoverInv, PromotedCreate \/ PromotedCreateCut \/ PromotedStartSaved \/ PromotedInstall \/ PromotedExits
  PROVE  FailoverInv'
<1>1. LogInv' /\ ReplicationInv' /\ stree' = stree
  BY NewNodeFrame DEF PromotedCreate, PromotedCreateCut, PromotedStartSaved, PromotedInstall, PromotedExits
<1>2. FailoverTypeOK'
  BY DEF FailoverInv, FailoverTypeOK, PromotedCreate, PromotedCreateCut, PromotedStartSaved, PromotedInstall,
     PromotedExits, newVars
<1>3. CASE PromotedCreate
  <2>1. newSth = NoFile /\ newAcked = {} /\ newPublished = NoFile
    BY <1>3 DEF FailoverInv, PromotedCreate
  <2>2. newTree \in TreeHead /\ newTree # NoFile /\ IsPrefix(newTree, newTree) /\ IsPrefix(stree, newTree)
    BY <1>3, PrefixRefl, NoFileAssumption DEF FailoverInv, FailoverTypeOK, PromotedCreate
  <2>3. /\ newSth' = newTree /\ newTree' = newTree /\ newAcked' = {} /\ newPublished' = NoFile
        /\ treeType' = "LOG" /\ server' = "install" /\ newStartup' = "none"
    BY <1>3, <2>1 DEF PromotedCreate
  <2>4. QED
    BY <1>1, <1>2, <2>2, <2>3 DEF FailoverInv
<1>4. CASE PromotedCreateCut \/ PromotedStartSaved \/ PromotedExits
  BY <1>1, <1>2, <1>4 DEF FailoverInv, PromotedCreateCut, PromotedStartSaved, PromotedExits, newVars
<1>5. CASE PromotedInstall
  <2>1. newSth # NoFile /\ newSth \in TreeHead /\ IsPrefix(newSth, newSth)
    BY <1>5, PrefixRefl DEF FailoverInv, FailoverTypeOK, PromotedInstall
  <2>2. QED
    BY <1>1, <1>2, <1>5, <2>1 DEF FailoverInv, PromotedInstall
<1>6. QED
  BY <1>3, <1>4, <1>5

\* The next head the new node signs lies between its last one and its tree.
LEMMA PromotedSignExtends ==
  ASSUME FailoverInv, PromotedSign
  PROVE  /\ newSth \in TreeHead /\ newSth # NoFile
         /\ newSth' \in TreeHead /\ newSth' # NoFile
         /\ IsPrefix(newSth, newSth') /\ IsPrefix(newSth', newTree)
<1>1. newSth \in TreeHead /\ newSth # NoFile /\ newTree \in TreeHead /\ IsPrefix(newSth, newTree)
  BY DEF FailoverInv, FailoverTypeOK, PromotedSign
<1>2. PICK n \in Len(newSth)..Len(newTree) : newSth' = TreeAt(newTree, n)
  BY DEF PromotedSign
<1>3. Len(newSth) \in Nat /\ Len(newTree) \in Nat /\ n \in 0..Len(newTree) /\ Len(newSth) <= n
  BY <1>1 DEF TreeHead
<1>4. newSth' \in TreeHead /\ Len(newSth') = n /\ IsPrefix(newSth', newTree)
  BY <1>1, <1>2, <1>3, PrefixTreeAt
<1>5. QED
  BY <1>1, <1>3, <1>4, PrefixOrder, NoFileAssumption

\* From then on it is a log over its own tree.
LEMMA PromotedLogLemma ==
  ASSUME FailoverInv, PromotedSequence \/ PromotedSign \/ PromotedPublish \/ PromotedAck
  PROVE  FailoverInv'
<1>1. LogInv' /\ ReplicationInv' /\ stree' = stree /\ stree \in TreeHead
  BY NewNodeFrame DEF PromotedSequence, PromotedSign, PromotedPublish, PromotedAck, FailoverInv, LogInv, TypeOK
<1>2. /\ newSth \in TreeHead /\ newSth # NoFile /\ newTree \in TreeHead /\ IsPrefix(newSth, newTree)
      /\ IsPrefix(stree, newSth) /\ IsPrefix(stree, newTree) /\ server = "primary" /\ treeType = "LOG"
  BY DEF FailoverInv, FailoverTypeOK, PromotedSequence, PromotedSign, PromotedPublish, PromotedAck
<1>3. CASE PromotedSequence
  <2>1. PICK l \in Leaf : newTree' = Append(newTree, l)
    BY <1>3 DEF PromotedSequence
  <2>2. newTree' \in TreeHead /\ IsPrefix(newTree, newTree')
    BY <1>2, <2>1, PrefixAppend
  <2>3. IsPrefix(newSth, newTree') /\ IsPrefix(stree, newTree')
    BY <1>1, <1>2, <2>2, PrefixTrans
  <2>4. FailoverTypeOK'
    BY <1>3, <2>2 DEF FailoverInv, FailoverTypeOK, PromotedSequence
  <2>5. QED
    BY <1>1, <1>3, <2>3, <2>4 DEF FailoverInv, PromotedSequence
<1>4. CASE PromotedSign
  <2>1. /\ newSth' \in TreeHead /\ newSth' # NoFile /\ IsPrefix(newSth, newSth') /\ IsPrefix(newSth', newTree)
    BY <1>4, PromotedSignExtends
  <2>2. IsPrefix(stree, newSth')
    BY <1>1, <1>2, <2>1, PrefixTrans
  <2>3. FailoverTypeOK'
    BY <1>4, <2>1 DEF FailoverInv, FailoverTypeOK, PromotedSign
  <2>4. newPublished' = newPublished /\ (newPublished # NoFile => IsPrefix(newPublished, newSth'))
    <3>1. newPublished # NoFile => newPublished \in TreeHead /\ IsPrefix(newPublished, newSth)
      BY DEF FailoverInv, FailoverTypeOK
    <3>2. QED
      BY <1>2, <1>4, <2>1, <3>1, PrefixTrans DEF PromotedSign
  <2>5. \A l \in newAcked : IncludedAt(newSth', Len(newSth'), l)
    <3>1. \A l \in newAcked : l \in Leaf /\ IncludedAt(newSth, Len(newSth), l)
      BY <1>2 DEF FailoverInv, FailoverTypeOK
    <3>2. Len(newSth) \in Nat /\ Len(newSth) <= Len(newSth)
      BY <1>2 DEF TreeHead
    <3>3. QED
      BY <1>2, <2>1, <3>1, <3>2, IncludedPrefix
  <2>6. QED
    BY <1>1, <1>2, <1>4, <2>1, <2>2, <2>3, <2>4, <2>5 DEF FailoverInv, PromotedSign
<1>5. CASE PromotedPublish
  <2>1. IsPrefix(newSth, newSth)
    BY <1>2, PrefixRefl
  <2>2. FailoverTypeOK'
    BY <1>5 DEF FailoverInv, FailoverTypeOK, PromotedPublish
  <2>3. QED
    BY <1>1, <1>2, <1>5, <2>1, <2>2 DEF FailoverInv, PromotedPublish
<1>6. CASE PromotedAck
  <2>1. FailoverTypeOK'
    BY <1>6 DEF FailoverInv, FailoverTypeOK, PromotedAck
  <2>2. QED
    BY <1>1, <1>2, <1>6, <2>1 DEF FailoverInv, PromotedAck
<1>7. QED
  BY <1>3, <1>4, <1>5, <1>6

\* The invariant holds throughout, for every number of leaves, calls and
\* faults and every order of the steps of the promotion.
LEMMA NextFailoverInv == FailoverInv /\ [FailoverNext]_allVars => FailoverInv'
<1> SUFFICES ASSUME FailoverInv, [FailoverNext]_allVars PROVE FailoverInv'
  OBVIOUS
<1>1. CASE UNCHANGED allVars
  <2>1. LogInv' /\ ReplicationInv' /\ stree' = stree
    BY <1>1, NewNodeFrame DEF allVars
  <2>2. FailoverTypeOK'
    BY <1>1 DEF FailoverInv, FailoverTypeOK, allVars, newVars
  <2>3. QED
    BY <1>1, <2>1, <2>2 DEF FailoverInv, allVars, newVars
<1>2. QED
  BY <1>1, OldLogLemma, OperatorFailoverLemma, PromotedStartLemma, PromotedLogLemma DEF FailoverNext

\* The inductive invariant of the promotion is an invariant.
THEOREM FailoverInvariant == FailoverSpec => []FailoverInv
BY InitFailoverInv, NextFailoverInv, PTL DEF FailoverSpec

\* What the old primary has signed is part of what the new node signs.
LEMMA OldWithinNew ==
  ASSUME FailoverInv, newSth # NoFile
  PROVE  newSth \in TreeHead /\ IsPrefix(Committed, newSth)
<1>1. newSth \in TreeHead /\ IsPrefix(stree, newSth)
  BY DEF FailoverInv, FailoverTypeOK
<1>2. stree \in TreeHead /\ Committed \in TreeHead /\ IsPrefix(Committed, stree)
  BY OldLogFacts DEF FailoverInv
<1>3. QED
  BY <1>1, <1>2, PrefixTrans

\* No two heads signed by the old and by the new primary contradict each
\* other, in whatever state the old one was when it was given up.
THEOREM PromotionNeverSplits == FailoverSpec => []NoSplitView
<1>1. FailoverInv => NoSplitView
  BY OldWithinNew DEF NoSplitView
<1>2. QED
  BY <1>1, FailoverInvariant, PTL

\* Leaves confirmed by the old primary are in the new primary's log.
LEMMA AckedWithinNew ==
  ASSUME FailoverInv, newSth # NoFile, NEW l \in acked
  PROVE  l \in Leaf /\ IncludedAt(newSth, Len(newSth), l)
<1>1. newSth \in TreeHead /\ IsPrefix(Committed, newSth)
  BY OldWithinNew
<1>2. Committed \in TreeHead /\ l \in Leaf /\ IncludedAt(Committed, Len(Committed), l)
  BY OldLogFacts DEF FailoverInv
<1>3. Len(Committed) \in Nat /\ Len(Committed) <= Len(Committed)
  BY <1>2 DEF TreeHead
<1>4. QED
  BY <1>1, <1>2, <1>3, IncludedPrefix

\* No confirmation is lost with the old primary.
THEOREM PromotionKeepsAcked == FailoverSpec => []AckedSurvive
<1>1. FailoverInv => AckedSurvive
  BY AckedWithinNew DEF AckedSurvive
<1>2. QED
  BY <1>1, FailoverInvariant, PTL

-----------------------------------------------------------------------------
\* The view of both nodes together uses the same notions.
LEMMA SameNotionsWhole ==
  /\ Whole!TreeHead = TreeHead
  /\ \A s, t : Whole!IsPrefix(s, t) <=> IsPrefix(s, t)
  /\ \A s, n, l : Whole!IncludedAt(s, n, l) <=> IncludedAt(s, n, l)
BY DEF Whole!TreeHead, TreeHead, Whole!IsPrefix, IsPrefix, Whole!IncludedAt, IncludedAt

\* What is committed and published in the combined view is ordered.
WholeTypeOK ==
  AllCommitted \in TreeHead /\ AllPublished \in TreeHead /\ IsPrefix(AllPublished, AllCommitted)

\* Types of the combined view.
LEMMA WholeTypes == FailoverInv => WholeTypeOK
<1> SUFFICES ASSUME FailoverInv PROVE WholeTypeOK
  OBVIOUS
<1>1. /\ Committed \in TreeHead /\ cosignedTreeHead \in TreeHead
      /\ IsPrefix(cosignedTreeHead, Committed)
  BY OldLogFacts DEF FailoverInv
<1>2. CASE newSth = NoFile
  BY <1>1, <1>2 DEF FailoverInv, WholeTypeOK, AllCommitted, AllPublished
<1>3. CASE newSth # NoFile
  <2>1. newSth \in TreeHead /\ IsPrefix(Committed, newSth)
    BY <1>3, OldWithinNew
  <2>2. newPublished # NoFile => newPublished \in TreeHead /\ IsPrefix(newPublished, newSth)
    BY DEF FailoverInv, FailoverTypeOK
  <2>3. IsPrefix(cosignedTreeHead, newSth)
    BY <1>1, <2>1, PrefixTrans
  <2>4. QED
    BY <1>1, <1>3, <2>1, <2>2, <2>3 DEF WholeTypeOK, AllCommitted, AllPublished
<1>4. QED
  BY <1>2, <1>3

\* The same after a step.
LEMMA WholeTypesAfter == FailoverInv' => WholeTypeOK'
BY WholeTypes, PTL

\* A step of the old log, seen in the combined view: before the new node has
\* signed it is a step of the log, afterwards only publications and
\* confirmations of the old node are seen, of what the new node has as well.
LEMMA OldLogRefines ==
  ASSUME FailoverInv, FailoverInv', OldLogStep \/ SecondaryStops
  PROVE  [Whole!LogNext]_<<AllCommitted, AllPublished, acked \cup newAcked>>
<1>1. UNCHANGED <<newSth, newPublished, newAcked>>
  BY DEF OldLogStep, SecondaryStops, newVars
<1>2. [Log!LogNext]_<<Committed, cosignedTreeHead, acked>>
  BY NextRefines DEF FailoverInv, OldLogStep, SecondaryStops, Next, Fault
<1>3. AllCommitted' \in TreeHead /\ AllPublished' \in TreeHead /\ IsPrefix(AllPublished', AllCommitted')
  BY WholeTypesAfter DEF WholeTypeOK
<1>4. AllPublished \in TreeHead /\ IsPrefix(AllPublished, AllPublished)
  BY WholeTypes, PrefixRefl DEF WholeTypeOK
<1>5. CASE Log!Commit
  <2>1. UNCHANGED <<cosignedTreeHead, acked>> /\ IsPrefix(Committed, Committed')
    BY <1>5, SameNotions DEF Log!Commit
  <2>2. CASE newSth = NoFile
    <3>1. Whole!Commit
      BY <1>1, <1>3, <2>1, <2>2, SameNotionsWhole DEF Whole!Commit, AllCommitted, AllPublished
    <3>2. QED
      BY <3>1 DEF Whole!LogNext
  <2>3. CASE newSth # NoFile
    BY <1>1, <2>1, <2>3 DEF AllCommitted, AllPublished
  <2>4. QED
    BY <2>2, <2>3
<1>6. CASE Log!Publish
  <2>1. UNCHANGED <<Committed, acked>> /\ IsPrefix(cosignedTreeHead, cosignedTreeHead')
    BY <1>6, SameNotions DEF Log!Publish
  <2>2. UNCHANGED AllCommitted /\ IsPrefix(AllPublished, AllPublished')
    BY <1>1, <1>4, <2>1 DEF AllCommitted, AllPublished
  <2>3. Whole!Publish
    BY <1>1, <1>3, <2>1, <2>2, SameNotionsWhole DEF Whole!Publish
  <2>4. QED
    BY <2>3 DEF Whole!LogNext
<1>7. CASE Log!Acknowledge
  <2>1. UNCHANGED <<Committed, cosignedTreeHead>>
    BY <1>7 DEF Log!Acknowledge
  <2>2. PICK l \in Leaf : IncludedAt(Committed, Len(Committed), l) /\ acked' = acked \cup {l}
    BY <1>7 DEF Log!Acknowledge, Log!IncludedAt, IncludedAt
  <2>3. UNCHANGED <<AllCommitted, AllPublished>>
    BY <1>1, <2>1 DEF AllCommitted, AllPublished
  <2>4. IncludedAt(AllCommitted, Len(AllCommitted), l)
    <3>1. CASE newSth = NoFile
      BY <2>2, <3>1 DEF AllCommitted
    <3>2. CASE newSth # NoFile
      <4>1. newSth \in TreeHead /\ Committed \in TreeHead /\ IsPrefix(Committed, newSth)
        BY <3>2, OldWithinNew, OldLogFacts DEF FailoverInv
      <4>2. Len(Committed) \in Nat /\ Len(Committed) <= Len(Committed)
        BY <4>1 DEF TreeHead
      <4>3. QED
        BY <2>2, <3>2, <4>1, <4>2, IncludedPrefix DEF AllCommitted
    <3>3. QED
      BY <3>1, <3>2
  <2>5. (acked \cup newAcked)' = (acked \cup newAcked) \cup {l}
    BY <1>1, <2>2
  <2>6. Whole!Acknowledge
    BY <2>3, <2>4, <2>5, SameNotionsWhole DEF Whole!Acknowledge
  <2>7. QED
    BY <2>6 DEF Whole!LogNext
<1>8. CASE UNCHANGED <<Committed, cosignedTreeHead, acked>>
  BY <1>1, <1>8 DEF AllCommitted, AllPublished
<1>9. QED
  BY <1>2, <1>5, <1>6, <1>7, <1>8 DEF Log!LogNext

\* Steps that sign, publish and confirm nothing.
LEMMA InvisibleFailoverStep ==
  ASSUME UNCHANGED <<vars, newSth, newPublished, newAcked>>
  PROVE  UNCHANGED <<AllCommitted, AllPublished, acked \cup newAcked>>
BY DEF AllCommitted, AllPublished, Committed, vars, fileVars, smVars, addVars

\* The steps of the new node: its first signature extends what the old one
\* is committed to, its first publication what the old one has published.
LEMMA PromotedRefines ==
  ASSUME FailoverInv, FailoverInv',
         PromotedCreate \/ PromotedInstall \/ PromotedSign \/ PromotedPublish \/ PromotedAck
  PROVE  [Whole!LogNext]_<<AllCommitted, AllPublished, acked \cup newAcked>>
<1>1. UNCHANGED <<Committed, cosignedTreeHead, acked>>
  BY DEF PromotedCreate, PromotedInstall, PromotedSign, PromotedPublish, PromotedAck, vars, fileVars, smVars,
     addVars, Committed
<1>2. AllCommitted' \in TreeHead /\ AllPublished' \in TreeHead /\ IsPrefix(AllPublished', AllCommitted')
  BY WholeTypesAfter DEF WholeTypeOK
<1>3. AllCommitted \in TreeHead /\ AllPublished \in TreeHead /\ IsPrefix(AllPublished, AllCommitted)
  BY WholeTypes DEF WholeTypeOK
<1>4. CASE PromotedCreate \/ PromotedSign
  <2>1. UNCHANGED <<AllPublished, acked \cup newAcked>>
    BY <1>1, <1>4 DEF PromotedCreate, PromotedSign, AllPublished
  <2>2. IsPrefix(AllCommitted, AllCommitted')
    <3>1. CASE PromotedCreate
      <4>1. newSth = NoFile
        BY <3>1 DEF FailoverInv, PromotedCreate
      <4>2. /\ stree \in TreeHead /\ Committed \in TreeHead /\ newTree \in TreeHead
            /\ IsPrefix(Committed, stree) /\ IsPrefix(stree, newTree)
        BY <3>1, OldLogFacts DEF FailoverInv, FailoverTypeOK, PromotedCreate
      <4>3. newSth' = newTree /\ newSth' # NoFile
        BY <3>1, <4>2, NoFileAssumption DEF PromotedCreate
      <4>4. QED
        BY <4>1, <4>2, <4>3, PrefixTrans DEF AllCommitted
    <3>2. CASE PromotedSign
      BY <3>2, PromotedSignExtends DEF AllCommitted
    <3>3. QED
      BY <1>4, <3>1, <3>2
  <2>3. Whole!Commit
    BY <1>2, <2>1, <2>2, SameNotionsWhole DEF Whole!Commit
  <2>4. QED
    BY <2>3 DEF Whole!LogNext
<1>5. CASE PromotedInstall \/ PromotedPublish
  <2>1. newSth # NoFile /\ newSth' = newSth /\ newPublished' = newSth /\ newAcked' = newAcked
    BY <1>5 DEF FailoverInv, PromotedInstall, PromotedPublish
  <2>2. AllCommitted' = AllCommitted /\ AllPublished' = AllCommitted
    BY <2>1 DEF AllCommitted, AllPublished
  <2>3. Whole!Publish
    BY <1>1, <1>2, <1>3, <2>1, <2>2, SameNotionsWhole DEF Whole!Publish
  <2>4. QED
    BY <2>3 DEF Whole!LogNext
<1>6. CASE PromotedAck
  <2>1. PICK l \in Leaf : IncludedAt(newSth, Len(newSth), l) /\ newAcked' = newAcked \cup {l}
    BY <1>6 DEF PromotedAck
  <2>2. newSth # NoFile /\ UNCHANGED <<newSth, newPublished>>
    BY <1>6 DEF FailoverInv, PromotedAck
  <2>3. UNCHANGED <<AllCommitted, AllPublished>> /\ AllCommitted = newSth
    BY <1>1, <2>2 DEF AllCommitted, AllPublished
  <2>4. (acked \cup newAcked)' = (acked \cup newAcked) \cup {l}
    BY <1>1, <2>1
  <2>5. Whole!Acknowledge
    BY <2>1, <2>3, <2>4, SameNotionsWhole DEF Whole!Acknowledge
  <2>6. QED
    BY <2>5 DEF Whole!LogNext
<1>7. QED
  BY <1>4, <1>5, <1>6

\* The log that clients see across the promotion, the old primary's last
\* rounds included, is one append-only log.
THEOREM PromotionIsLog == FailoverSpec => FailoverIsLog
<1>1. FailoverInit => Whole!LogInit
  BY DEF FailoverInit, Init, FileInit, SmInit, AddInit, Committed, AllCommitted, AllPublished, Whole!LogInit
<1>2. FailoverInv /\ FailoverInv' /\ [FailoverNext]_allVars
        => [Whole!LogNext]_<<AllCommitted, AllPublished, acked \cup newAcked>>
  <2> SUFFICES ASSUME FailoverInv, FailoverInv', [FailoverNext]_allVars
               PROVE  [Whole!LogNext]_<<AllCommitted, AllPublished, acked \cup newAcked>>
    OBVIOUS
  <2>1. CASE OldLogStep \/ SecondaryStops
    BY <2>1, OldLogRefines
  <2>2. CASE PromotedCreate \/ PromotedInstall \/ PromotedSign \/ PromotedPublish \/ PromotedAck
    BY <2>2, PromotedRefines
  <2>3. CASE SecondaryStarts \/ ConvertTree \/ WriteStartupFile \/ PromotedCreateCut \/ PromotedStartSaved
             \/ PromotedExits \/ PromotedSequence \/ UNCHANGED allVars
    <3>1. UNCHANGED <<vars, newSth, newPublished, newAcked>>
      BY <2>3 DEF SecondaryStarts, ConvertTree, WriteStartupFile, PromotedCreateCut, PromotedStartSaved,
         PromotedExits, PromotedSequence, allVars, newVars
    <3>2. QED
      BY <3>1, InvisibleFailoverStep
  <2>4. QED
    BY <2>1, <2>2, <2>3 DEF FailoverNext
<1>3. QED
  BY <1>1, <1>2, FailoverInvariant, PTL DEF FailoverSpec, FailoverIsLog, Whole!LogSpec
=============================================================================
