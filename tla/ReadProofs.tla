----------------------------- MODULE ReadProofs -----------------------------
(***************************************************************************)
(* Proofs about the read endpoints.  What a client has got, and the limit  *)
(* that a handler has read, are prefixes of the published head, which is   *)
(* itself a prefix of the backend's tree: an answer taken from that tree   *)
(* is the answer that the client's own head gives.                         *)
(***************************************************************************)
EXTENDS ReadEndpoints, SigsumLogProofs

\* Two trees, one a prefix of the other, have the same leaves up to the end
\* of the shorter one.
LEMMA PrefixRange ==
  ASSUME NEW s \in TreeHead, NEW t \in TreeHead, IsPrefix(s, t),
         NEW m \in Nat \ {0}, NEW n \in Nat, n <= Len(s)
  PROVE  SubSeq(s, m, n) = SubSeq(t, m, n)
BY DEF TreeHead, IsPrefix

\* A range that is within bounds is served, up to MaxRange leaves of it.
LEMMA StrictRange ==
  ASSUME NEW tree \in TreeHead, NEW start \in Nat, NEW end \in Nat, NEW size \in Nat
  PROVE  LET last == IF end - start > MaxRange THEN start + MaxRange ELSE end
         IN  GetLeavesGeneral(tree, start, end, size, TRUE) =
               IF start < end /\ end <= size
               THEN [status |-> 200, leaves |-> SubSeq(tree, start + 1, last)]
               ELSE [status |-> 400, leaves |-> << >>]
<1> DEFINE last == IF end - start > MaxRange THEN start + MaxRange ELSE end
<1>1. CASE start < end /\ end <= size
  <2>1. ~(start >= end) /\ ~(start > size) /\ ~(start >= size) /\ ~(end > size)
    BY <1>1
  <2>2. start # last
    BY <1>1, MaxRangeAssumption
  <2>3. (IF end > size THEN size ELSE end) = end
    BY <2>1, Zenon
  <2>4. QED
    BY <1>1, <2>1, <2>2, <2>3, ZenonT(60) DEF GetLeavesGeneral
<1>2. CASE ~(start < end /\ end <= size)
  <2>1. start >= end \/ end > size
    BY <1>2
  <2>2. QED
    BY <1>2, <2>1, Zenon DEF GetLeavesGeneral
<1>3. QED
  BY <1>1, <1>2

\* The published head is in the backend's tree and only grows.
LEMMA PublishedGrows ==
  ASSUME LogInv, Next
  PROVE  /\ LogInv'
         /\ cosignedTreeHead \in TreeHead /\ cosignedTreeHead' \in TreeHead
         /\ IsPrefix(cosignedTreeHead, cosignedTreeHead')
<1>1. LogInv'
  BY NextLogInv
<1>2. cosignedTreeHead \in TreeHead /\ cosignedTreeHead' \in TreeHead
  BY <1>1 DEF LogInv, TypeOK
<1>3. QED
  <2>1. [Log!LogNext]_<<Committed, cosignedTreeHead, acked>>
    BY <1>1, NextRefines
  <2>2. cosignedTreeHead' = cosignedTreeHead \/ IsPrefix(cosignedTreeHead, cosignedTreeHead')
    BY <2>1 DEF Log!LogNext, Log!Commit, Log!Publish, Log!Acknowledge, Log!IsPrefix, IsPrefix
  <2>3. IsPrefix(cosignedTreeHead, cosignedTreeHead)
    BY <1>2, PrefixRefl
  <2>4. QED
    BY <1>1, <1>2, <2>2, <2>3

LEMMA PublishedInTree ==
  ASSUME LogInv
  PROVE  ptree \in TreeHead /\ cosignedTreeHead \in TreeHead /\ IsPrefix(cosignedTreeHead, ptree)
<1>1. ptree \in TreeHead /\ cosignedTreeHead \in TreeHead /\ Committed \in TreeHead
  BY CommittedType DEF LogInv, TypeOK
<1>2. IsPrefix(cosignedTreeHead, Committed) /\ IsPrefix(Committed, ptree)
  BY <1>1, PrefixRefl DEF LogInv, FileInv, Committed
<1>3. QED
  BY <1>1, <1>2, PrefixTrans
LEMMA InitReadInv == ReadInit => ReadInv
<1> SUFFICES ASSUME ReadInit PROVE ReadInv
  OBVIOUS
<1>1. LogInv
  BY InitLogInv DEF ReadInit
<1>2. seen \in TreeHead /\ IsPrefix(seen, cosignedTreeHead)
  BY <1>1, PublishedInTree, PrefixRefl DEF ReadInit
<1>3. QED
  BY <1>1, <1>2 DEF ReadInit, ReadInv, ReadsAgree, NothingUnpublished

\* The log goes on under the client's feet.
LEMMA LogStepLemma ==
  ASSUME ReadInv, LogStep
  PROVE  ReadInv'
<1>1. /\ LogInv'
      /\ cosignedTreeHead \in TreeHead /\ cosignedTreeHead' \in TreeHead
      /\ IsPrefix(cosignedTreeHead, cosignedTreeHead')
  BY PublishedGrows DEF ReadInv, LogStep
<1>2. /\ seen' = seen /\ seen \in TreeHead /\ answer' = answer
      /\ \/ rpc' = rpc /\ req' = req /\ rsize' = rsize
         \/ rpc' = "idle" /\ rsize' = 0
  BY DEF LogStep, ReadInv
<1>3. IsPrefix(seen', cosignedTreeHead')
  BY <1>1, <1>2, PrefixTrans DEF ReadInv
<1>4. Len(cosignedTreeHead) \in Nat /\ Len(cosignedTreeHead') \in Nat
      /\ Len(cosignedTreeHead) <= Len(cosignedTreeHead')
  BY <1>1, PrefixLen
<1>5. rpc' = "backend" => Len(seen') <= rsize' /\ rsize' <= Len(cosignedTreeHead')
  <2>1. rsize \in Nat /\ Len(seen) \in Nat
    BY <1>2 DEF ReadInv, TreeHead
  <2>2. QED
    BY <1>2, <1>4, <2>1 DEF ReadInv
<1>6. ReadsAgree'
  BY <1>2 DEF ReadInv, ReadsAgree, Within, LeavesAgree, InclusionAgrees, ConsistencyAgrees
<1>7. NothingUnpublished'
  <2> SUFFICES ASSUME rpc' = "done", answer'.status = 200
               PROVE  NothingUnpublished'
    BY DEF NothingUnpublished
  <2>1. rpc = "done" /\ req' = req /\ answer' = answer /\ req \in AnyRequest
    BY <1>2 DEF ReadInv
  <2>2. NothingUnpublished /\ answer.status = 200
    BY <2>1 DEF ReadInv
  <2>3. req.kind = "leaves" => req.start + Len(answer.body) <= Len(cosignedTreeHead')
    <3> SUFFICES ASSUME req.kind = "leaves"
                 PROVE  req.start + Len(answer.body) <= Len(cosignedTreeHead')
      OBVIOUS
    <3>1. answer.body \in TreeHead /\ req \in LeavesRequest
      BY <2>1 DEF ReadInv, AnyRequest, InclusionRequest, ConsistencyRequest
    <3>2. Len(answer.body) \in Nat /\ req.start \in Nat
      BY <3>1, MaxIndexAssumption DEF TreeHead, LeavesRequest
    <3>3. QED
      BY <1>4, <2>1, <2>2, <3>2 DEF NothingUnpublished
  <2>4. req.kind = "inclusion" => req.size <= Len(cosignedTreeHead')
    <3> SUFFICES ASSUME req.kind = "inclusion"
                 PROVE  req.size <= Len(cosignedTreeHead')
      OBVIOUS
    <3>1. req \in InclusionRequest
      BY <2>1 DEF AnyRequest, LeavesRequest, ConsistencyRequest
    <3>2. req.size \in Nat
      BY <3>1, MaxIndexAssumption DEF InclusionRequest
    <3>3. QED
      BY <1>4, <2>1, <2>2, <3>2 DEF NothingUnpublished
  <2>5. req.kind = "consistency" => req.new <= Len(cosignedTreeHead')
    <3> SUFFICES ASSUME req.kind = "consistency"
                 PROVE  req.new <= Len(cosignedTreeHead')
      OBVIOUS
    <3>1. req \in ConsistencyRequest
      BY <2>1 DEF AnyRequest, LeavesRequest, InclusionRequest
    <3>2. req.new \in Nat
      BY <3>1, MaxIndexAssumption DEF ConsistencyRequest
    <3>3. QED
      BY <1>4, <2>1, <2>2, <3>2 DEF NothingUnpublished
  <2>6. QED
    BY <2>1, <2>3, <2>4, <2>5 DEF NothingUnpublished
<1>8. QED
  BY <1>1, <1>2, <1>3, <1>5, <1>6, <1>7 DEF ReadInv

\* The client gets a head, asks, or is not answered.
LEMMA ClientLemma ==
  ASSUME ReadInv, GetTreeHead \/ Request \/ ReadFails
  PROVE  ReadInv'
<1>1. UNCHANGED vars /\ rpc' \in {"idle", "backend"}
  BY DEF GetTreeHead, Request, ReadFails
<1>2. LogInv' /\ cosignedTreeHead' = cosignedTreeHead
  BY <1>1, NextLogInv DEF ReadInv, vars, smVars
<1>3. cosignedTreeHead \in TreeHead /\ IsPrefix(cosignedTreeHead, cosignedTreeHead)
  BY PublishedInTree, PrefixRefl DEF ReadInv
<1>4. Len(cosignedTreeHead) \in Nat /\ Len(seen) <= Len(cosignedTreeHead)
  BY <1>3, PrefixLen DEF ReadInv
<1>5. QED
  BY <1>1, <1>2, <1>3, <1>4 DEF ReadInv, GetTreeHead, Request, ReadFails, ReadsAgree, NothingUnpublished

\* What the handlers return.
LEMMA ReturnFrame ==
  ASSUME ReadInv, rpc = "backend", NEW rsp, Return(rsp), ReadsAgree', NothingUnpublished',
         req.kind = "leaves" => rsp.body \in TreeHead
  PROVE  ReadInv'
<1>1. LogInv' /\ cosignedTreeHead' = cosignedTreeHead
  BY NextLogInv DEF ReadInv, Return, vars, smVars
<1>2. QED
  BY <1>1 DEF ReadInv, Return

\* The three handlers, from the tree of the backend.
LEMMA GetLeavesLemma ==
  ASSUME ReadInv, GetLeaves
  PROVE  ReadInv'
<1> DEFINE last == IF req.end - req.start > MaxRange THEN req.start + MaxRange ELSE req.end
           rsp == GetLeavesGeneral(ptree, req.start, req.end, rsize, TRUE)
           ret == [status |-> rsp.status, body |-> rsp.leaves]
<1>1. rpc = "backend" /\ req.kind = "leaves" /\ Return(ret)
  BY DEF GetLeaves
<1>2. req.start \in Nat /\ req.end \in Nat /\ rsize \in Nat
  BY <1>1, MaxIndexAssumption
     DEF ReadInv, AnyRequest, LeavesRequest, InclusionRequest, ConsistencyRequest
<1>3. /\ ptree \in TreeHead /\ cosignedTreeHead \in TreeHead /\ seen \in TreeHead
      /\ IsPrefix(cosignedTreeHead, ptree) /\ IsPrefix(seen, cosignedTreeHead)
  BY PublishedInTree DEF ReadInv
<1>4. /\ IsPrefix(seen, ptree) /\ Len(seen) \in Nat /\ Len(ptree) \in Nat
      /\ Len(seen) <= rsize /\ rsize <= Len(cosignedTreeHead) /\ rsize <= Len(ptree)
      /\ Len(cosignedTreeHead) \in Nat
  BY <1>1, <1>2, <1>3, PrefixTrans, PrefixLen DEF ReadInv
<1>5. CASE req.start < req.end /\ req.end <= rsize
  <2>1. last \in Nat /\ req.start < last /\ last <= req.end /\ last <= rsize
    BY <1>2, <1>5, MaxRangeAssumption
  <2>2. rsp = [status |-> 200, leaves |-> SubSeq(ptree, req.start + 1, last)]
    <3>1. rsp = IF req.start < req.end /\ req.end <= rsize
                THEN [status |-> 200, leaves |-> SubSeq(ptree, req.start + 1, last)]
                ELSE [status |-> 400, leaves |-> << >>]
      BY <1>2, <1>3, StrictRange, Zenon
    <3>2. QED
      BY <1>5, <3>1, Zenon
  <2> HIDE DEF rsp
  <2>3. /\ answer' = [status |-> 200, body |-> SubSeq(ptree, req.start + 1, last)]
        /\ rpc' = "done" /\ req' = req /\ seen' = seen
        /\ cosignedTreeHead' = cosignedTreeHead
    BY <1>1, <2>2 DEF Return, vars, smVars
  <2>4. req.end <= Len(seen) => SubSeq(ptree, req.start + 1, last) = SubSeq(seen, req.start + 1, last)
    <3> HIDE DEF last
    <3>1. req.start + 1 \in Nat \ {0} /\ (req.end <= Len(seen) => last <= Len(seen))
      BY <1>2, <1>4, <2>1
    <3>2. QED
      BY <1>3, <1>4, <2>1, <3>1, PrefixRange
  <2>5. ReadsAgree'
    BY <1>1, <2>3, <2>4 DEF ReadsAgree, Within, LeavesAgree
  <2> HIDE DEF last
  <2>6. /\ SubSeq(ptree, req.start + 1, last) \in TreeHead
        /\ Len(SubSeq(ptree, req.start + 1, last)) = last - req.start
    BY <1>2, <1>3, <1>4, <2>1 DEF TreeHead
  <2>7. NothingUnpublished'
    <3>1. req.start + (last - req.start) <= Len(cosignedTreeHead)
      BY <1>2, <1>4, <2>1
    <3>2. req.start + Len(SubSeq(ptree, req.start + 1, last)) <= Len(cosignedTreeHead)
      BY <2>6, <3>1, Zenon
    <3>3. /\ req'.start + Len(answer'.body) <= Len(cosignedTreeHead')
          /\ req'.kind = "leaves"
      BY <1>1, <2>3, <3>2
    <3>4. QED
      BY <3>3 DEF NothingUnpublished
  <2>8. QED
    BY <1>1, <2>2, <2>5, <2>6, <2>7, ReturnFrame
<1>6. CASE ~(req.start < req.end /\ req.end <= rsize)
  <2>1. rsp = [status |-> 400, leaves |-> << >>]
    BY <1>2, <1>3, <1>6, StrictRange
  <2> HIDE DEF rsp
  <2>2. /\ answer' = [status |-> 400, body |-> << >>] /\ rpc' = "done" /\ req' = req
        /\ seen' = seen /\ << >> \in TreeHead
    BY <1>1, <2>1 DEF Return, TreeHead
  <2>3. ~(req.start < req.end /\ req.end <= Len(seen))
    BY <1>2, <1>4, <1>6
  <2>4. ReadsAgree' /\ NothingUnpublished'
    BY <1>1, <2>2, <2>3 DEF ReadsAgree, Within, NothingUnpublished
  <2>5. QED
    BY <1>1, <2>1, <2>2, <2>4, ReturnFrame
<1>7. QED
  BY <1>5, <1>6

LEMMA GetInclusionProofLemma ==
  ASSUME ReadInv, GetInclusionProof
  PROVE  ReadInv'
<1> DEFINE ret == IF req.size > rsize THEN Refuse(400)
                  ELSE IF req.size = 0 THEN Refuse(500)
                  ELSE IF ~IncludedAt(ptree, req.size, req.leaf) THEN Refuse(404)
                  ELSE IF req.size = 1 THEN Refuse(500)
                  ELSE [status |-> 200, body |-> TreeAt(ptree, req.size)]
<1>1. rpc = "backend" /\ req.kind = "inclusion" /\ Return(ret)
  BY DEF GetInclusionProof
<1>2. req.size \in Nat /\ rsize \in Nat
  BY <1>1, MaxIndexAssumption
     DEF ReadInv, AnyRequest, LeavesRequest, InclusionRequest, ConsistencyRequest
<1>3. /\ ptree \in TreeHead /\ cosignedTreeHead \in TreeHead /\ seen \in TreeHead
      /\ IsPrefix(cosignedTreeHead, ptree) /\ IsPrefix(seen, cosignedTreeHead)
  BY PublishedInTree DEF ReadInv
<1>4. /\ IsPrefix(seen, ptree) /\ Len(seen) \in Nat /\ Len(cosignedTreeHead) \in Nat
      /\ Len(seen) <= rsize /\ rsize <= Len(cosignedTreeHead)
  BY <1>1, <1>2, <1>3, PrefixTrans, PrefixLen DEF ReadInv
<1>5. /\ answer' = ret /\ rpc' = "done" /\ req' = req /\ seen' = seen
      /\ cosignedTreeHead' = cosignedTreeHead
  BY <1>1 DEF Return, vars, smVars
<1>6. NothingUnpublished'
  BY <1>1, <1>2, <1>4, <1>5 DEF NothingUnpublished, Refuse
<1>7. ReadsAgree'
  <2>1. CASE 2 <= req.size /\ req.size <= Len(seen)
    <3>1. IncludedAt(ptree, req.size, req.leaf) <=> IncludedAt(seen, req.size, req.leaf)
      <4>1. \A i \in 1..Len(seen) : seen[i] = ptree[i]
        BY <1>4 DEF IsPrefix
      <4>2. \A i \in 1..req.size : i \in 1..Len(seen)
        BY <1>2, <1>4, <2>1
      <4>3. \A i \in 1..req.size : seen[i] = ptree[i]
        BY <4>1, <4>2, Zenon
      <4>4. QED
        BY <4>3, Zenon DEF IncludedAt
    <3>2. TreeAt(ptree, req.size) = TreeAt(seen, req.size)
      <4>1. SubSeq(seen, 1, req.size) = SubSeq(ptree, 1, req.size)
        BY <1>2, <1>3, <1>4, <2>1, PrefixRange
      <4>2. QED
        BY <4>1 DEF TreeAt
    <3>3. ~(req.size > rsize) /\ req.size # 0 /\ req.size # 1
      BY <1>2, <1>4, <2>1
    <3>4. InclusionAgrees'
      BY <1>5, <3>1, <3>2, <3>3, <1>2 DEF InclusionAgrees, Refuse
    <3>5. QED
      BY <1>1, <1>5, <3>4 DEF ReadsAgree
  <2>2. CASE ~(2 <= req.size /\ req.size <= Len(seen))
    BY <1>1, <1>5, <2>2 DEF ReadsAgree, Within
  <2>3. QED
    BY <2>1, <2>2
<1>8. QED
  BY <1>1, <1>6, <1>7, ReturnFrame

LEMMA GetConsistencyProofLemma ==
  ASSUME ReadInv, GetConsistencyProof
  PROVE  ReadInv'
<1> DEFINE ret == IF req.new > rsize THEN Refuse(400)
                  ELSE IF req.old = 0 \/ req.old = req.new THEN [status |-> 200, body |-> << >>]
                  ELSE IF req.old > req.new THEN Refuse(500)
                  ELSE [status |-> 200, body |-> <<TreeAt(ptree, req.old), TreeAt(ptree, req.new)>>]
<1>1. rpc = "backend" /\ req.kind = "consistency" /\ Return(ret)
  BY DEF GetConsistencyProof
<1>2. req.old \in Nat /\ req.new \in Nat /\ rsize \in Nat
  BY <1>1, MaxIndexAssumption
     DEF ReadInv, AnyRequest, LeavesRequest, InclusionRequest, ConsistencyRequest
<1>3. /\ ptree \in TreeHead /\ cosignedTreeHead \in TreeHead /\ seen \in TreeHead
      /\ IsPrefix(cosignedTreeHead, ptree) /\ IsPrefix(seen, cosignedTreeHead)
  BY PublishedInTree DEF ReadInv
<1>4. /\ IsPrefix(seen, ptree) /\ Len(seen) \in Nat /\ Len(cosignedTreeHead) \in Nat
      /\ Len(seen) <= rsize /\ rsize <= Len(cosignedTreeHead)
  BY <1>1, <1>2, <1>3, PrefixTrans, PrefixLen DEF ReadInv
<1>5. /\ answer' = ret /\ rpc' = "done" /\ req' = req /\ seen' = seen
      /\ cosignedTreeHead' = cosignedTreeHead
  BY <1>1 DEF Return, vars, smVars
<1>6. NothingUnpublished'
  BY <1>1, <1>2, <1>4, <1>5 DEF NothingUnpublished, Refuse
<1>7. ReadsAgree'
  <2>1. CASE 1 <= req.old /\ req.old <= req.new /\ req.new <= Len(seen)
    <3>1. TreeAt(ptree, req.old) = TreeAt(seen, req.old) /\ TreeAt(ptree, req.new) = TreeAt(seen, req.new)
      <4>1. req.old <= Len(seen) /\ 1 \in Nat \ {0}
        BY <1>2, <1>4, <2>1
      <4>2. SubSeq(seen, 1, req.old) = SubSeq(ptree, 1, req.old)
        BY <1>2, <1>3, <1>4, <4>1, PrefixRange
      <4>3. SubSeq(seen, 1, req.new) = SubSeq(ptree, 1, req.new)
        BY <1>2, <1>3, <1>4, <2>1, <4>1, PrefixRange
      <4>4. QED
        BY <4>2, <4>3 DEF TreeAt
    <3>2. req.new <= rsize
      BY <1>2, <1>4, <2>1
    <3>3. CASE req.old = req.new
      BY <1>1, <1>2, <1>5, <3>2, <3>3 DEF ReadsAgree, ConsistencyAgrees
    <3>4. CASE req.old # req.new
      <4>1. answer' = [status |-> 200, body |-> <<TreeAt(seen, req.old), TreeAt(seen, req.new)>>]
        BY <1>2, <1>5, <2>1, <3>1, <3>2, <3>4
      <4>2. QED
        BY <1>1, <1>5, <3>4, <4>1 DEF ReadsAgree, ConsistencyAgrees
    <3>5. QED
      BY <3>3, <3>4
  <2>2. CASE ~(1 <= req.old /\ req.old <= req.new /\ req.new <= Len(seen))
    BY <1>1, <1>5, <2>2 DEF ReadsAgree, Within
  <2>3. QED
    BY <2>1, <2>2
<1>8. QED
  BY <1>1, <1>6, <1>7, ReturnFrame

\* ReadInv is an invariant: of the read handlers of the primary, whatever
\* the state manager, the files and the process do between their steps.
THEOREM ReadInvariant == ReadSpec => []ReadInv
<1>1. ReadInv /\ [ReadNext]_allVars => ReadInv'
  <2> SUFFICES ASSUME ReadInv, [ReadNext]_allVars PROVE ReadInv'
    OBVIOUS
  <2>1. CASE ReadNext
    BY <2>1, LogStepLemma, ClientLemma, GetLeavesLemma, GetInclusionProofLemma,
       GetConsistencyProofLemma DEF ReadNext
  <2>2. CASE UNCHANGED allVars
    <3>1. LogInv' /\ cosignedTreeHead' = cosignedTreeHead
      BY <2>2, NextLogInv DEF ReadInv, allVars, vars, smVars
    <3>2. seen' = seen /\ rpc' = rpc /\ req' = req /\ rsize' = rsize /\ answer' = answer
      BY <2>2 DEF allVars, readVars
    <3>3. ReadsAgree'
      BY <3>2 DEF ReadInv, ReadsAgree, Within, LeavesAgree, InclusionAgrees, ConsistencyAgrees
    <3>4. NothingUnpublished'
      BY <3>1, <3>2 DEF ReadInv, NothingUnpublished
    <3>5. QED
      BY <3>1, <3>2, <3>3, <3>4 DEF ReadInv
  <2>3. QED
    BY <2>1, <2>2
<1>2. QED
  BY <1>1, InitReadInv, PTL DEF ReadSpec

\* A client's requests within the head it got from GetTreeHead, other than
\* those that need no proof, are answered from that head, for every number of
\* crashes, restarts and rounds since.
THEOREM ReadsAnswered == ReadSpec => []ReadsAgree
<1>1. ReadInv => ReadsAgree
  BY DEF ReadInv
<1>2. QED
  BY <1>1, ReadInvariant, PTL

\* GetLeaves and the proof handlers return nothing beyond what is published.
THEOREM UnpublishedStaysInside == ReadSpec => []NothingUnpublished
<1>1. ReadInv => NothingUnpublished
  BY DEF ReadInv
<1>2. QED
  BY <1>1, ReadInvariant, PTL

=============================================================================
