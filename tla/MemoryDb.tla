------------------------------ MODULE MemoryDb ------------------------------
(***************************************************************************)
(* The in-memory backend (internal/db/memory.go).  It keeps every leaf     *)
(* twice: its hash in a Merkle tree, which also finds duplicates, and its  *)
(* blob in a list.  Handlers call it concurrently; a read-write lock makes *)
(* the two updates one, also when a batch of sequenced leaves is given up  *)
(* half way.                                                               *)
(***************************************************************************)
EXTENDS MerkleTree

CONSTANTS Caller,       \* bound: concurrent calls
          NoCaller,
          MaxIndex      \* bound: sizes and indices in requests

ASSUME NoCallerAssumption == NoCaller \notin Caller
ASSUME MaxIndexAssumption == MaxIndex \in Nat

VARIABLES leafs,        \* the blobs
          tree,         \* the Merkle tree, as the sequence of its leaves
          writer,       \* who holds the lock for writing
          readers,      \* who holds it for reading
          pc,
          arg,          \* the arguments of the calls
          acked         \* leaves that AddLeaf has said to be sequenced

vars == <<leafs, tree, writer, readers, pc, arg, acked>>

NoArg == [kind |-> "none"]

Init ==
  /\ leafs = << >>
  /\ tree = << >>
  /\ writer = NoCaller
  /\ readers = {}
  /\ pc = [c \in Caller |-> "idle"]
  /\ arg = [c \in Caller |-> NoArg]
  /\ acked = {}

Goto(c, p) == pc' = [pc EXCEPT ![c] = p]

Call(c, p, a) ==
  /\ pc[c] = "idle"
  /\ Goto(c, p)
  /\ arg' = [arg EXCEPT ![c] = a]
  /\ UNCHANGED <<leafs, tree, writer, readers, acked>>

\* Every return releases the lock.
Return(c) ==
  /\ Goto(c, "idle")
  /\ arg' = [arg EXCEPT ![c] = NoArg]
  /\ writer' = IF writer = c THEN NoCaller ELSE writer
  /\ readers' = readers \ {c}

AddLeaf(c, l, treeSize) == Call(c, "lock", [kind |-> "add", leaves |-> <<l>>, size |-> treeSize])

AddSequencedLeaves(c, leaves, index) ==
  Call(c, "lock", [kind |-> "sequenced", leaves |-> leaves, size |-> index])

GetLeaves(c, start, end) == Call(c, "rlock", [kind |-> "get", start |-> start, end |-> end])

\* The lock is taken; sequenced leaves must start at the end of the tree.
Lock(c) ==
  /\ pc[c] = "lock"
  /\ writer = NoCaller
  /\ readers = {}
  /\ IF arg[c].kind = "sequenced" /\ Len(tree) # arg[c].size
     THEN Return(c)
     ELSE Goto(c, "hash") /\ writer' = c /\ UNCHANGED <<arg, readers>>
  /\ UNCHANGED <<leafs, tree, acked>>

\* Mutant: a leaf that exists is sequenced.
AddLeafHashIgnoresSize(c) ==
  /\ pc[c] = "hash"
  /\ LET l == Head(arg[c].leaves)
     IN  IF IncludedAt(tree, Len(tree), l)
         THEN /\ acked' = IF arg[c].kind = "add" THEN acked \cup {<<l, arg[c].size>>} ELSE acked
              /\ UNCHANGED tree
              /\ Return(c)
         ELSE /\ tree' = Append(tree, l)
              /\ Goto(c, "blob")
              /\ UNCHANGED <<arg, writer, readers, acked>>
  /\ UNCHANGED leafs

\* tree.AddLeafHash.  For a leaf that is there already AddLeaf reports
\* whether it is in the tree of the given size; AddSequencedLeaves gives up.
AddLeafHash(c) ==
  /\ pc[c] = "hash"
  /\ LET l == Head(arg[c].leaves)
     IN  IF IncludedAt(tree, Len(tree), l)
         THEN /\ acked' = IF arg[c].kind = "add" /\ \E i \in 1..Len(tree) : tree[i] = l /\ i <= arg[c].size
                          THEN acked \cup {<<l, arg[c].size>>} ELSE acked
              /\ UNCHANGED tree
              /\ Return(c)
         ELSE /\ tree' = Append(tree, l)
              /\ Goto(c, "blob")
              /\ UNCHANGED <<arg, writer, readers, acked>>
  /\ UNCHANGED leafs

\* Mutant: the blobs of sequenced leaves are put in front of the list.
AppendBlobInFront(c) ==
  /\ pc[c] = "blob"
  /\ leafs' = <<Head(arg[c].leaves)>> \o leafs
  /\ IF Len(arg[c].leaves) = 1
     THEN Return(c)
     ELSE /\ arg' = [arg EXCEPT ![c].leaves = Tail(@)]
          /\ Goto(c, "hash")
          /\ UNCHANGED <<writer, readers>>
  /\ UNCHANGED <<tree, acked>>

\* The blob is appended; the next leaf of the batch follows.
AppendBlob(c) ==
  /\ pc[c] = "blob"
  /\ leafs' = Append(leafs, Head(arg[c].leaves))
  /\ IF Len(arg[c].leaves) = 1
     THEN Return(c)
     ELSE /\ arg' = [arg EXCEPT ![c].leaves = Tail(@)]
          /\ Goto(c, "hash")
          /\ UNCHANGED <<writer, readers>>
  /\ UNCHANGED <<tree, acked>>

\* Mutant: GetLeaves does not wait for a writer.
CheckRangeUnlocked(c) ==
  /\ pc[c] = "rlock"
  /\ IF arg[c].start >= Len(tree) \/ arg[c].end > Len(tree) \/ arg[c].start >= arg[c].end
     THEN Return(c)
     ELSE Goto(c, "copy") /\ readers' = readers \cup {c} /\ UNCHANGED <<arg, writer>>
  /\ UNCHANGED <<leafs, tree, acked>>

\* GetLeaves compares the range with the size of the tree ...
CheckRange(c) ==
  /\ pc[c] = "rlock"
  /\ writer = NoCaller
  /\ IF arg[c].start >= Len(tree) \/ arg[c].end > Len(tree) \/ arg[c].start >= arg[c].end
     THEN Return(c)
     ELSE Goto(c, "copy") /\ readers' = readers \cup {c} /\ UNCHANGED <<arg, writer>>
  /\ UNCHANGED <<leafs, tree, acked>>

\* ... and then copies from the list of blobs.
CopyBlobs(c) ==
  /\ pc[c] = "copy"
  /\ Return(c)
  /\ UNCHANGED <<leafs, tree, acked>>

Batches == {<<l>> : l \in Leaf} \cup {<<l, m>> : l \in Leaf, m \in Leaf}

Next ==
  \E c \in Caller :
    \/ \E l \in Leaf, n \in 0..MaxIndex : AddLeaf(c, l, n)
    \/ \E b \in Batches, n \in 0..MaxIndex : AddSequencedLeaves(c, b, n)
    \/ \E m \in 0..MaxIndex, n \in 0..MaxIndex : GetLeaves(c, m, n)
    \/ Lock(c)
    \/ AddLeafHash(c)
    \/ AppendBlob(c)
    \/ CheckRange(c)
    \/ CopyBlobs(c)

Spec == Init /\ [][Next]_vars

-----------------------------------------------------------------------------
\* What GetLeaves copies is in the list, and is what the tree was built from:
\* no read comes between the two updates of an add, or after a batch that
\* was given up on a duplicate and left the two apart.
ReadsMatchTree ==
  \A c \in Caller : pc[c] = "copy" =>
    /\ arg[c].end <= Len(leafs)
    /\ \A i \in arg[c].start + 1 .. arg[c].end : leafs[i] = tree[i]

\* AddLeaf says that a leaf is sequenced only of one that is in the tree of
\* the size the caller asked about, and stays there.
SequencedIsIncluded ==
  \A a \in acked : \E i \in 1..Len(leafs) : leafs[i] = a[1] /\ i <= a[2]

\* With the in-memory backend the leaves served are an append-only log:
\* added at the end only, and none reported as logged that is not.  (A
\* database publishes nothing itself.)
Log == INSTANCE AppendOnlyLog WITH committed <- leafs,
                                   published <- << >>,
                                   acked <- {a[1] : a \in acked}

MemoryIsLog == Log!LogSpec

WriteArg == [kind : {"add", "sequenced"}, leaves : Seq(Leaf), size : Nat]
ReadArg == [kind : {"get"}, start : Nat, end : Nat]

\* The leaves with the one that is in the tree and not yet in the list.
LeavesWithPending ==
  IF writer # NoCaller /\ pc[writer] = "blob" THEN Append(leafs, Head(arg[writer].leaves)) ELSE leafs

\* The inductive invariant: who is where in the code holds the lock for it,
\* readers and a writer exclude each other, the tree is ahead of the list
\* only inside a writer's critical section and by its leaf only, no leaf is
\* there twice, and a reader's range stays within the list.
MemoryInv ==
  /\ leafs \in TreeHead
  /\ writer \in Caller \cup {NoCaller}
  /\ pc \in [Caller -> {"idle", "lock", "hash", "blob", "rlock", "copy"}]
  /\ arg \in [Caller -> {NoArg} \cup WriteArg \cup ReadArg]
  /\ acked \subseteq Leaf \X Nat
  /\ \A c \in Caller :
       /\ pc[c] \in {"lock", "hash", "blob"} => arg[c] \in WriteArg /\ arg[c].leaves # << >>
       /\ pc[c] \in {"rlock", "copy"} => arg[c] \in ReadArg
       /\ pc[c] \in {"hash", "blob"} <=> writer = c
       /\ pc[c] = "copy" <=> c \in readers
       /\ pc[c] = "copy" => arg[c].end <= Len(leafs)
  /\ readers \subseteq Caller
  /\ readers # {} => writer = NoCaller
  /\ tree = LeavesWithPending
  /\ \A i, j \in 1..Len(tree) : tree[i] = tree[j] => i = j
  /\ SequencedIsIncluded
=============================================================================
