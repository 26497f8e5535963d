--------------------------- MODULE MemoryDbProofs ---------------------------
(***************************************************************************)
(* Proofs about the in-memory backend, for any number of concurrent calls  *)
(* and any leaves.                                                         *)
(***************************************************************************)
EXTENDS MemoryDb, SequenceTheorems, TLAPS

USE NoCallerAssumption, MaxIndexAssumption

-----------------------------------------------------------------------------
\* One leaf more: the leaves before it stay where they are.
LEMMA AppendFacts ==
  ASSUME NEW s \in TreeHead, NEW l \in Leaf
  PROVE  /\ Append(s, l) \in TreeHead
         /\ Len(s) \in Nat
         /\ Len(Append(s, l)) = Len(s) + 1
         /\ \A i \in 1..Len(s) : Append(s, l)[i] = s[i]
         /\ Append(s, l)[Len(s) + 1] = l
BY AppendProperties, LenProperties DEF TreeHead

\* A batch that is not empty has a first leaf, and a rest.
LEMMA BatchFacts ==
  ASSUME NEW b \in Seq(Leaf), b # << >>
  PROVE  /\ Head(b) \in Leaf
         /\ Tail(b) \in Seq(Leaf)
         /\ Len(b) # 1 => Tail(b) # << >>
<1>1. /\ Head(b) \in Leaf
      /\ Tail(b) \in Seq(Leaf)
      /\ Len(Tail(b)) = Len(b) - 1
  BY HeadTailProperties
<1>2. Len(b) \in Nat /\ Len(<< >>) = 0
  BY LenProperties, EmptySeq
<1>3. Len(b) # 1 => Len(Tail(b)) # 0
  BY <1>1, <1>2
<1>4. QED
  BY <1>1, <1>2, <1>3

LEMMA BatchesFacts ==
  ASSUME NEW b \in Batches
  PROVE  b \in Seq(Leaf) /\ b # << >>
<1>1. CASE \E l \in Leaf : b = <<l>>
  BY <1>1
<1>2. CASE \E l \in Leaf, m \in Leaf : b = <<l, m>>
  BY <1>2
<1>3. QED
  BY <1>1, <1>2 DEF Batches

LEMMA InitMemoryInv == Init => MemoryInv
<1> SUFFICES ASSUME Init PROVE MemoryInv
  OBVIOUS
<1>1. leafs \in TreeHead /\ Len(leafs) = 0 /\ Len(tree) = 0
  BY DEF Init, TreeHead
<1>2. tree = LeavesWithPending
  BY DEF Init, LeavesWithPending
<1>3. QED
  BY <1>1, <1>2 DEF Init, MemoryInv, SequencedIsIncluded

-----------------------------------------------------------------------------
\* A call comes in.
LEMMA CallLemma ==
  ASSUME MemoryInv, NEW c \in Caller, NEW p, NEW a, Call(c, p, a),
         \/ p = "lock" /\ a \in WriteArg /\ a.leaves # << >>
         \/ p = "rlock" /\ a \in ReadArg
  PROVE  MemoryInv'
<1>1. writer # c
  BY DEF MemoryInv, Call
<1>2. LeavesWithPending' = LeavesWithPending
  BY <1>1 DEF MemoryInv, Call, Goto, LeavesWithPending
<1>3. SequencedIsIncluded'
  BY DEF MemoryInv, Call, SequencedIsIncluded
<1>4. QED
  BY <1>1, <1>2, <1>3 DEF MemoryInv, Call, Goto

\* A call returns without having added anything since it last did.
LEMMA ReturnLemma ==
  ASSUME MemoryInv, NEW c \in Caller, Return(c), pc[c] # "blob", UNCHANGED <<leafs, tree>>,
         acked' \subseteq Leaf \X Nat, SequencedIsIncluded'
  PROVE  MemoryInv'
<1>1. tree' = LeavesWithPending'
  <2>1. CASE writer = c
    BY <2>1 DEF MemoryInv, LeavesWithPending, Return, Goto
  <2>2. CASE writer # c
    BY <2>2 DEF MemoryInv, LeavesWithPending, Return, Goto
  <2>3. QED
    BY <2>1, <2>2
<1>2. writer' \in Caller \cup {NoCaller} /\ readers' \subseteq Caller
  BY DEF MemoryInv, Return
<1>3. readers' # {} => writer' = NoCaller
  BY DEF MemoryInv, Return
<1>4. /\ pc' = [pc EXCEPT ![c] = "idle"]
      /\ arg' = [arg EXCEPT ![c] = NoArg]
  BY DEF Return, Goto
<1>5. ASSUME NEW d \in Caller
      PROVE  /\ pc'[d] \in {"lock", "hash", "blob"} => arg'[d] \in WriteArg /\ arg'[d].leaves # << >>
             /\ pc'[d] \in {"rlock", "copy"} => arg'[d] \in ReadArg
             /\ pc'[d] \in {"hash", "blob"} <=> writer' = d
             /\ pc'[d] = "copy" <=> d \in readers'
             /\ pc'[d] = "copy" => arg'[d].end <= Len(leafs')
  <2>1. CASE d = c
    BY <2>1, <1>4 DEF MemoryInv, Return
  <2>2. CASE d # c
    BY <2>2, <1>4 DEF MemoryInv, Return
  <2>3. QED
    BY <2>1, <2>2
<1>6. QED
  BY <1>1, <1>2, <1>3, <1>4, <1>5 DEF MemoryInv

\* The lock is taken for writing.
LEMMA LockLemma ==
  ASSUME MemoryInv, NEW c \in Caller, Lock(c)
  PROVE  MemoryInv'
<1>1. SequencedIsIncluded' /\ acked' \subseteq Leaf \X Nat
  BY DEF MemoryInv, Lock, SequencedIsIncluded
<1>2. CASE Return(c)
  BY <1>1, <1>2, ReturnLemma DEF Lock
<1>3. CASE Goto(c, "hash") /\ writer' = c /\ UNCHANGED <<arg, readers>>
  <2>1. tree' = LeavesWithPending'
    BY <1>3 DEF MemoryInv, Lock, LeavesWithPending, Goto
  <2>2. QED
    BY <1>1, <1>3, <2>1 DEF MemoryInv, Lock, Goto
<1>4. QED
  BY <1>2, <1>3 DEF Lock

\* tree.AddLeafHash: the leaf is new, or it is there already.
LEMMA AddLeafHashLemma ==
  ASSUME MemoryInv, NEW c \in Caller, AddLeafHash(c)
  PROVE  MemoryInv'
<1> DEFINE l == Head(arg[c].leaves)
<1>1. arg[c] \in WriteArg /\ l \in Leaf /\ writer = c /\ tree = leafs
  <2>1. arg[c] \in WriteArg /\ arg[c].leaves # << >> /\ writer = c
    BY DEF MemoryInv, AddLeafHash
  <2>2. arg[c].leaves \in Seq(Leaf)
    BY <2>1 DEF WriteArg
  <2>3. QED
    BY <2>1, <2>2, BatchFacts DEF MemoryInv, AddLeafHash, LeavesWithPending
<1>2. CASE IncludedAt(tree, Len(tree), l)
  <2>1. Return(c) /\ UNCHANGED <<leafs, tree>>
    BY <1>2 DEF AddLeafHash
  <2>2. \/ acked' = acked
        \/ /\ \E i \in 1..Len(leafs) : leafs[i] = l /\ i <= arg[c].size
           /\ acked' = acked \cup {<<l, arg[c].size>>}
    BY <1>1, <1>2 DEF AddLeafHash
  <2>3. arg[c].size \in Nat
    BY <1>1 DEF WriteArg
  <2>4. acked' \subseteq Leaf \X Nat
    BY <1>1, <2>2, <2>3 DEF MemoryInv
  <2>5. SequencedIsIncluded'
    BY <2>1, <2>2 DEF MemoryInv, SequencedIsIncluded
  <2>6. QED
    BY <2>1, <2>4, <2>5, ReturnLemma DEF AddLeafHash
<1>3. CASE ~IncludedAt(tree, Len(tree), l)
  <2>1. /\ tree' = Append(tree, l)
        /\ pc' = [pc EXCEPT ![c] = "blob"]
        /\ UNCHANGED <<leafs, arg, writer, readers, acked>>
    BY <1>3 DEF AddLeafHash, Goto
  <2>2. tree' = LeavesWithPending'
    BY <1>1, <2>1 DEF MemoryInv, LeavesWithPending
  <2>3. \A i, j \in 1..Len(tree') : tree'[i] = tree'[j] => i = j
    BY <1>1, <1>3, <2>1, AppendFacts DEF MemoryInv, IncludedAt
  <2>4. SequencedIsIncluded'
    BY <2>1 DEF MemoryInv, SequencedIsIncluded
  <2>5. ASSUME NEW d \in Caller
        PROVE  /\ pc'[d] \in {"lock", "hash", "blob"} => arg'[d] \in WriteArg /\ arg'[d].leaves # << >>
               /\ pc'[d] \in {"rlock", "copy"} => arg'[d] \in ReadArg
               /\ pc'[d] \in {"hash", "blob"} <=> writer' = d
               /\ pc'[d] = "copy" <=> d \in readers'
               /\ pc'[d] = "copy" => arg'[d].end <= Len(leafs')
    BY <2>1 DEF MemoryInv, AddLeafHash
  <2>6. QED
    BY <2>1, <2>2, <2>3, <2>4, <2>5 DEF MemoryInv
<1>4. QED
  BY <1>2, <1>3

\* The blob follows, and the batch is over or goes on.
LEMMA AppendBlobLemma ==
  ASSUME MemoryInv, NEW c \in Caller, AppendBlob(c)
  PROVE  MemoryInv'
<1> DEFINE l == Head(arg[c].leaves)
           rest == Tail(arg[c].leaves)
<1>1. /\ arg[c] \in WriteArg /\ writer = c /\ readers = {}
      /\ l \in Leaf /\ rest \in Seq(Leaf) /\ (Len(arg[c].leaves) # 1 => rest # << >>)
      /\ tree = Append(leafs, l)
  <2>1. arg[c] \in WriteArg /\ arg[c].leaves # << >> /\ writer = c /\ readers = {}
    BY DEF MemoryInv, AppendBlob
  <2>2. arg[c].leaves \in Seq(Leaf)
    BY <2>1 DEF WriteArg
  <2>3. tree = Append(leafs, l)
    BY <2>1 DEF MemoryInv, AppendBlob, LeavesWithPending
  <2>4. QED
    BY <2>1, <2>2, <2>3, BatchFacts
<1>2. leafs' = Append(leafs, l) /\ UNCHANGED <<tree, acked>>
  BY DEF AppendBlob
<1>3. /\ leafs' \in TreeHead
      /\ Len(leafs) \in Nat /\ Len(leafs') = Len(leafs) + 1
      /\ \A i \in 1..Len(leafs) : leafs'[i] = leafs[i]
  <2>1. leafs \in TreeHead
    BY DEF MemoryInv
  <2>2. QED
    BY <1>1, <1>2, <2>1, AppendFacts
<1>4. SequencedIsIncluded'
  <2>1. ASSUME NEW a \in acked PROVE \E i \in 1..Len(leafs') : leafs'[i] = a[1] /\ i <= a[2]
    <3>1. PICK i \in 1..Len(leafs) : leafs[i] = a[1] /\ i <= a[2]
      BY DEF MemoryInv, SequencedIsIncluded
    <3>2. i \in 1..Len(leafs')
      BY <1>3
    <3>3. QED
      BY <1>3, <3>1, <3>2
  <2>2. QED
    BY <1>2, <2>1 DEF SequencedIsIncluded
<1>5. CASE Len(arg[c].leaves) = 1
  <2>1. /\ pc' = [pc EXCEPT ![c] = "idle"]
        /\ arg' = [arg EXCEPT ![c] = NoArg]
        /\ writer' = NoCaller /\ readers' = {}
    BY <1>1, <1>5 DEF AppendBlob, Return, Goto
  <2>2. tree' = LeavesWithPending'
    BY <1>1, <1>2, <2>1 DEF LeavesWithPending
  <2>3. QED
    BY <1>1, <1>2, <1>3, <1>4, <2>1, <2>2 DEF MemoryInv, AppendBlob
<1>6. CASE Len(arg[c].leaves) # 1
  <2>1. /\ pc' = [pc EXCEPT ![c] = "hash"]
        /\ arg' = [arg EXCEPT ![c].leaves = rest]
        /\ writer' = c /\ readers' = {}
    BY <1>1, <1>6 DEF AppendBlob, Goto
  <2>2. pc'[c] = "hash" /\ arg'[c] \in WriteArg /\ arg'[c].leaves # << >>
    BY <1>1, <1>6, <2>1 DEF MemoryInv, WriteArg
  <2>3. tree' = LeavesWithPending'
    BY <1>1, <1>2, <2>1, <2>2 DEF LeavesWithPending
  <2>4. ASSUME NEW d \in Caller, d # c PROVE pc'[d] = pc[d] /\ arg'[d] = arg[d]
    BY <2>1, <2>4 DEF MemoryInv
  <2>5. /\ pc' \in [Caller -> {"idle", "lock", "hash", "blob", "rlock", "copy"}]
        /\ arg' \in [Caller -> {NoArg} \cup WriteArg \cup ReadArg]
    BY <2>1, <2>2 DEF MemoryInv
  <2>6. ASSUME NEW d \in Caller
        PROVE  /\ pc'[d] \in {"lock", "hash", "blob"} => arg'[d] \in WriteArg /\ arg'[d].leaves # << >>
               /\ pc'[d] \in {"rlock", "copy"} => arg'[d] \in ReadArg
               /\ pc'[d] \in {"hash", "blob"} <=> writer' = d
               /\ pc'[d] = "copy" <=> d \in readers'
               /\ pc'[d] = "copy" => arg'[d].end <= Len(leafs')
    <3>1. CASE d = c
      BY <3>1, <2>1, <2>2
    <3>2. CASE d # c
      BY <3>2, <1>1, <2>1, <2>4 DEF MemoryInv
    <3>3. QED
      BY <3>1, <3>2
  <2>7. \A i, j \in 1..Len(tree') : tree'[i] = tree'[j] => i = j
    BY <1>2 DEF MemoryInv
  <2>8. QED
    BY <1>1, <1>2, <1>3, <1>4, <2>1, <2>3, <2>5, <2>6, <2>7 DEF MemoryInv
<1>7. QED
  BY <1>5, <1>6

\* GetLeaves takes the lock for reading, or refuses the range.
LEMMA CheckRangeLemma ==
  ASSUME MemoryInv, NEW c \in Caller, CheckRange(c)
  PROVE  MemoryInv'
<1>1. SequencedIsIncluded' /\ acked' \subseteq Leaf \X Nat
  BY DEF MemoryInv, CheckRange, SequencedIsIncluded
<1>2. CASE Return(c)
  BY <1>1, <1>2, ReturnLemma DEF CheckRange
<1>3. CASE ~Return(c)
  <2>1. /\ arg[c].end <= Len(tree)
        /\ pc' = [pc EXCEPT ![c] = "copy"]
        /\ readers' = readers \cup {c}
        /\ writer = NoCaller
        /\ UNCHANGED <<leafs, tree, arg, writer, acked>>
    <3>1. arg[c] \in ReadArg
      BY DEF MemoryInv, CheckRange
    <3>2. arg[c].end \in Nat /\ Len(tree) \in Nat
      BY <3>1 DEF MemoryInv, ReadArg, LeavesWithPending, CheckRange, TreeHead
    <3>3. QED
      BY <1>3, <3>2 DEF CheckRange, Goto
  <2>2. tree = leafs /\ tree' = LeavesWithPending'
    BY <2>1 DEF MemoryInv, LeavesWithPending
  <2>3. QED
    BY <1>1, <2>1, <2>2 DEF MemoryInv, CheckRange
<1>4. QED
  BY <1>2, <1>3

LEMMA CopyBlobsLemma ==
  ASSUME MemoryInv, NEW c \in Caller, CopyBlobs(c)
  PROVE  MemoryInv'
<1>1. SequencedIsIncluded' /\ acked' \subseteq Leaf \X Nat
  BY DEF MemoryInv, CopyBlobs, SequencedIsIncluded
<1>2. QED
  BY <1>1, ReturnLemma DEF CopyBlobs

\* MemoryInv is an invariant of the in-memory backend.
THEOREM MemoryInvariant == Spec => []MemoryInv
<1>1. ASSUME MemoryInv, Next PROVE MemoryInv'
  <2>1. PICK c \in Caller :
          \/ \E l \in Leaf, n \in 0..MaxIndex : AddLeaf(c, l, n)
          \/ \E b \in Batches, n \in 0..MaxIndex : AddSequencedLeaves(c, b, n)
          \/ \E m \in 0..MaxIndex, n \in 0..MaxIndex : GetLeaves(c, m, n)
          \/ Lock(c) \/ AddLeafHash(c) \/ AppendBlob(c) \/ CheckRange(c) \/ CopyBlobs(c)
    BY <1>1 DEF Next
  <2>2. ASSUME NEW l \in Leaf, NEW n \in 0..MaxIndex, AddLeaf(c, l, n) PROVE MemoryInv'
    <3>1. <<l>> \in Seq(Leaf) /\ <<l>> # << >> /\ n \in Nat
      OBVIOUS
    <3>2. [kind |-> "add", leaves |-> <<l>>, size |-> n] \in WriteArg
      BY <3>1 DEF WriteArg
    <3>3. QED
      BY <1>1, <2>2, <3>1, <3>2, CallLemma DEF AddLeaf
  <2>3. ASSUME NEW b \in Batches, NEW n \in 0..MaxIndex, AddSequencedLeaves(c, b, n) PROVE MemoryInv'
    <3>1. b \in Seq(Leaf) /\ b # << >> /\ n \in Nat
      BY BatchesFacts
    <3>2. [kind |-> "sequenced", leaves |-> b, size |-> n] \in WriteArg
      BY <3>1 DEF WriteArg
    <3>3. QED
      BY <1>1, <2>3, <3>1, <3>2, CallLemma DEF AddSequencedLeaves
  <2>4. ASSUME NEW m \in 0..MaxIndex, NEW n \in 0..MaxIndex, GetLeaves(c, m, n) PROVE MemoryInv'
    <3>1. [kind |-> "get", start |-> m, end |-> n] \in ReadArg
      BY DEF ReadArg
    <3>2. QED
      BY <1>1, <2>4, <3>1, CallLemma DEF GetLeaves
  <2>5. QED
    BY <1>1, <2>1, <2>2, <2>3, <2>4, LockLemma, AddLeafHashLemma, AppendBlobLemma,
       CheckRangeLemma, CopyBlobsLemma
<1>2. ASSUME MemoryInv, UNCHANGED vars PROVE MemoryInv'
  BY <1>2 DEF vars, MemoryInv, LeavesWithPending, SequencedIsIncluded
<1>3. QED
  BY <1>1, <1>2, InitMemoryInv, PTL DEF Spec

-----------------------------------------------------------------------------
\* GetLeaves returns blobs that exist and are those the tree was built from,
\* however many calls of AddLeaf and AddSequencedLeaves run beside it.
THEOREM ReadsMatch == Spec => []ReadsMatchTree
<1>1. ASSUME MemoryInv PROVE ReadsMatchTree
  <2>1. ASSUME NEW c \in Caller, pc[c] = "copy" PROVE tree = leafs /\ arg[c].end <= Len(leafs)
    BY <1>1, <2>1 DEF MemoryInv, LeavesWithPending
  <2>2. QED
    BY <2>1 DEF ReadsMatchTree
<1>2. QED
  BY <1>1, MemoryInvariant, PTL

\* A leaf that AddLeaf reports as sequenced is in the tree of that size.
THEOREM SequencedStays == Spec => []SequencedIsIncluded
<1>1. MemoryInv => SequencedIsIncluded
  BY DEF MemoryInv
<1>2. QED
  BY <1>1, MemoryInvariant, PTL

-----------------------------------------------------------------------------
\* The leaves reported as sequenced, which the log calls acknowledged.
Reported == {a[1] : a \in acked}

\* A step that touches neither the list nor the reports.
LEMMA InvisibleStep ==
  ASSUME UNCHANGED <<leafs, acked>>
  PROVE  UNCHANGED <<leafs, << >>, Reported>>
BY DEF Reported

LEMMA AddLeafHashRefines ==
  ASSUME MemoryInv, NEW c \in Caller, AddLeafHash(c)
  PROVE  [Log!LogNext]_<<leafs, << >>, Reported>>
<1> DEFINE l == Head(arg[c].leaves)
<1>1. l \in Leaf /\ tree = leafs /\ UNCHANGED leafs
  <2>1. arg[c] \in WriteArg /\ arg[c].leaves # << >> /\ writer = c
    BY DEF MemoryInv, AddLeafHash
  <2>2. arg[c].leaves \in Seq(Leaf)
    BY <2>1 DEF WriteArg
  <2>3. QED
    BY <2>1, <2>2, BatchFacts DEF MemoryInv, AddLeafHash, LeavesWithPending
<1>2. CASE acked' = acked
  BY <1>1, <1>2, InvisibleStep
<1>3. CASE acked' # acked
  <2>1. IncludedAt(tree, Len(tree), l) /\ acked' = acked \cup {<<l, arg[c].size>>}
    BY <1>3 DEF AddLeafHash
  <2>2. Reported' = Reported \cup {l}
    <3>1. ASSUME NEW x PROVE (\E a \in acked' : x = a[1]) <=> x \in Reported \/ x = l
      <4>1. <<l, arg[c].size>>[1] = l
        OBVIOUS
      <4>2. QED
        BY <2>1, <4>1, Zenon DEF Reported
    <3>2. QED
      BY <3>1 DEF Reported
  <2>3. Log!Acknowledge
    BY <1>1, <2>1, <2>2 DEF Log!Acknowledge, Log!IncludedAt, IncludedAt, Reported
  <2>4. QED
    BY <2>3 DEF Log!LogNext
<1>4. QED
  BY <1>2, <1>3

LEMMA AppendBlobRefines ==
  ASSUME MemoryInv, MemoryInv', NEW c \in Caller, AppendBlob(c)
  PROVE  [Log!LogNext]_<<leafs, << >>, Reported>>
<1> DEFINE l == Head(arg[c].leaves)
<1>1. leafs' = Append(leafs, l) /\ UNCHANGED acked
  BY DEF AppendBlob
<1>2. leafs \in TreeHead /\ leafs' \in TreeHead
  BY DEF MemoryInv
<1>3. l \in Leaf
  <2>1. arg[c] \in WriteArg /\ arg[c].leaves # << >>
    BY DEF MemoryInv, AppendBlob
  <2>2. arg[c].leaves \in Seq(Leaf)
    BY <2>1 DEF WriteArg
  <2>3. QED
    BY <2>1, <2>2, BatchFacts
<1>4. IsPrefix(leafs, leafs')
  BY <1>1, <1>2, <1>3, AppendFacts DEF IsPrefix
<1>5. Log!Commit
  BY <1>1, <1>2, <1>4 DEF Log!Commit, Log!TreeHead, Log!IsPrefix, TreeHead, IsPrefix, Reported
<1>6. QED
  BY <1>5 DEF Log!LogNext

\* The backend, its lock and its two copies of every leaf implement the
\* append-only log: a blob that is appended is a commit, and a leaf that
\* AddLeaf reports as sequenced is one of the log.
THEOREM MemoryImplementsLog == Spec => MemoryIsLog
<1>1. Init => Log!LogInit
  BY DEF Init, Log!LogInit
<1>2. ASSUME MemoryInv, MemoryInv', [Next]_vars PROVE [Log!LogNext]_<<leafs, << >>, Reported>>
  <2>1. CASE UNCHANGED <<leafs, acked>>
    BY <2>1, InvisibleStep
  <2>2. CASE \E c \in Caller : AddLeafHash(c)
    BY <1>2, <2>2, AddLeafHashRefines
  <2>3. CASE \E c \in Caller : AppendBlob(c)
    BY <1>2, <2>3, AppendBlobRefines
  <2>4. QED
    BY <1>2, <2>1, <2>2, <2>3 DEF Next, vars, AddLeaf, AddSequencedLeaves, GetLeaves, Call, Lock,
       CheckRange, CopyBlobs
<1>3. QED
  BY <1>1, <1>2, MemoryInvariant, PTL DEF Spec, MemoryIsLog, Log!LogSpec, Reported
=============================================================================
