-------------------------- MODULE SigsumLogProofs --------------------------
(***************************************************************************)
(* Proofs about the whole log.  The argument: both backends only append,   *)
(* and the secondary copies; at every point of its program the state       *)
(* manager's heads are ordered between what is committed (the sth file)    *)
(* and the primary's tree.  LogInv says how, and is inductive.             *)
(***************************************************************************)
EXTENDS SigsumLog, TLAPS

(***************************************************************************)
(* Facts about trees as sequences, on which the proofs rest.               *)
(***************************************************************************)
\* Every head extends the empty one, and itself.
LEMMA PrefixRefl ==
  ASSUME NEW s \in TreeHead
  PROVE  << >> \in TreeHead /\ IsPrefix(<< >>, s) /\ IsPrefix(s, s)
<1>1. << >> \in TreeHead /\ Len(<< >>) = 0 /\ Len(s) \in Nat
  BY DEF TreeHead
<1>2. IsPrefix(<< >>, s)
  BY <1>1 DEF IsPrefix
<1>3. IsPrefix(s, s)
  BY <1>1 DEF IsPrefix
<1>4. QED
  BY <1>1, <1>2, <1>3

\* What extends an extension is an extension.
LEMMA PrefixTrans ==
  ASSUME NEW s \in TreeHead, NEW t \in TreeHead, NEW u \in TreeHead,
         IsPrefix(s, t), IsPrefix(t, u)
  PROVE  IsPrefix(s, u)
BY DEF IsPrefix, TreeHead

\* Two heads of one tree are ordered by their sizes.
LEMMA PrefixOrder ==
  ASSUME NEW s \in TreeHead, NEW t \in TreeHead, NEW u \in TreeHead,
         IsPrefix(s, u), IsPrefix(t, u), Len(s) <= Len(t)
  PROVE  IsPrefix(s, t)
BY DEF IsPrefix, TreeHead

\* A head as long as the tree it is a prefix of is that tree.
LEMMA PrefixEqual ==
  ASSUME NEW s \in TreeHead, NEW t \in TreeHead, IsPrefix(s, t), Len(t) <= Len(s)
  PROVE  s = t
BY DEF IsPrefix, TreeHead

\* Only the empty head is a prefix of the empty head.
LEMMA PrefixEmpty ==
  ASSUME NEW s \in TreeHead, IsPrefix(s, << >>)
  PROVE  s = << >>
<1>1. << >> \in TreeHead /\ Len(<< >>) = 0
  BY DEF TreeHead
<1>2. Len(<< >>) <= Len(s)
  BY DEF TreeHead
<1>3. QED
  BY <1>1, <1>2, PrefixEqual

\* A prefix is no longer than what it is a prefix of.
LEMMA PrefixLen ==
  ASSUME NEW s \in TreeHead, NEW t \in TreeHead, IsPrefix(s, t)
  PROVE  Len(s) \in Nat /\ Len(t) \in Nat /\ Len(s) <= Len(t)
BY DEF IsPrefix, TreeHead

\* Appending a leaf extends a tree.
LEMMA PrefixAppend ==
  ASSUME NEW s \in TreeHead, NEW l \in Leaf
  PROVE  Append(s, l) \in TreeHead /\ IsPrefix(s, Append(s, l))
<1>1. Append(s, l) \in TreeHead /\ Len(Append(s, l)) = Len(s) + 1
  BY DEF TreeHead
<1>2. \A i \in 1..Len(s) : Append(s, l)[i] = s[i]
  BY DEF TreeHead
<1>3. Len(s) <= Len(Append(s, l))
  BY DEF TreeHead
<1>4. QED
  BY <1>1, <1>2, <1>3 DEF IsPrefix

\* The head of size n of a tree is one of its prefixes.
LEMMA PrefixTreeAt ==
  ASSUME NEW t \in TreeHead, NEW n \in 0..Len(t)
  PROVE  /\ TreeAt(t, n) \in TreeHead
         /\ Len(TreeAt(t, n)) = n
         /\ IsPrefix(TreeAt(t, n), t)
<1>1. TreeAt(t, n) \in TreeHead /\ Len(TreeAt(t, n)) = n
  BY DEF TreeAt, TreeHead
<1>2. \A i \in 1..n : TreeAt(t, n)[i] = t[i]
  BY DEF TreeAt, TreeHead
<1>3. QED
  BY <1>1, <1>2 DEF TreeHead, IsPrefix

\* A leaf found among the first n of a tree is in each of the tree's
\* prefixes and extensions that have as many leaves.
LEMMA IncludedPrefix ==
  ASSUME NEW s \in TreeHead, NEW t \in TreeHead, IsPrefix(s, t),
         NEW n \in Nat, n <= Len(s), NEW l \in Leaf
  PROVE  /\ IncludedAt(t, n, l) => IncludedAt(s, Len(s), l)
         /\ IncludedAt(s, n, l) => IncludedAt(t, Len(t), l)
BY DEF IsPrefix, TreeHead, IncludedAt

\* A head for which checkConsistency succeeds is a head of the tree.
LEMMA VerifiedPrefix ==
  ASSUME NEW tree \in TreeHead, NEW old \in TreeHead, NEW new \in TreeHead,
         IsPrefix(new, tree), Len(old) <= Len(new), ConsistencyVerified(tree, old, new)
  PROVE  IsPrefix(old, tree)
<1>1. CASE Len(old) = 0
  BY <1>1 DEF IsPrefix, TreeHead
<1>2. CASE old = new
  BY <1>2
<1>3. CASE Len(new) <= Len(tree) /\ old = TreeAt(tree, Len(old))
  <2>1. Len(old) \in 0..Len(tree)
    BY <1>3 DEF TreeHead
  <2>2. QED
    BY <1>3, <2>1, PrefixTreeAt
<1>4. QED
  BY <1>1, <1>2, <1>3 DEF ConsistencyVerified

(***************************************************************************)
(* LogInv is an invariant.                                                 *)
(***************************************************************************)
\* The head of the empty tree, with which StartupEmpty begins.
LEMMA EmptyHead == << >> \in TreeHead /\ Len(<< >>) = 0
BY DEF TreeHead

\* The invariant holds before the first start of the primary.
LEMMA InitLogInv == Init => LogInv
<1> SUFFICES ASSUME Init PROVE LogInv
  OBVIOUS
<1>1. TypeOK
  BY EmptyHead, InitialTreesAssumption DEF Init, DbInit, FileInit, SmInit, AddInit, SecInit, TypeOK, SmPc
<1>2. BackendInv /\ FileInv
  BY <1>1, PrefixRefl DEF Init, DbInit, FileInit, SmInit, AddInit, SecInit, TypeOK, BackendInv, FileInv, Committed
<1>3. StartInv /\ LoopInv /\ AddLeafInv /\ FetchInv
  BY DEF Init, SmInit, AddInit, SecInit, StartInv, LoopInv, AddLeafInv, FetchInv, Serving
<1>4. QED
  BY <1>1, <1>2, <1>3 DEF LogInv

\* Most steps of the state manager leave trees, files, the published head,
\* add-leaf calls and the secondary alone, and with them most of LogInv.
LEMMA StateManagerFrame ==
  ASSUME LogInv, UNCHANGED <<dbVars, fileVars, cosignedTreeHead, addVars, secVars>>
  PROVE  (BackendInv /\ FileInv /\ AddLeafInv /\ FetchInv)'
BY DEF LogInv, dbVars, fileVars, addVars, secVars, BackendInv, FileInv, AddLeafInv, FetchInv, Committed

\* The same for the types of what the state manager does not change.
LEMMA StateManagerTypes ==
  ASSUME TypeOK, UNCHANGED <<dbVars, addVars, secVars>>,
         (sthFile \in TreeHead \cup {NoFile})',
         (startupFile \in {"none", "empty", "local-tree", "partial"})',
         (smpc \in SmPc)',
         (signedTreeHead \in TreeHead)', (cosignedTreeHead \in TreeHead)',
         (currentTH \in TreeHead)', (primaryTH \in TreeHead)',
         (secTH \in TreeHead)', (nextTH \in TreeHead)'
  PROVE  TypeOK'
BY DEF TypeOK, dbVars, addVars, secVars

\* NewStateManagerSingle picks a head of the local tree in every startup mode.
LEMMA StartLemma ==
  ASSUME LogInv, StartSaved \/ StartEmpty \/ StartLocalTree, UNCHANGED <<addVars, secVars>>
  PROVE  LogInv'
<1> USE DEF LogInv, StartSaved, StartEmpty, StartLocalTree, fileVars
<1>1. TypeOK'
  BY EmptyHead, StateManagerTypes DEF TypeOK, SmPc, dbVars
<1>2. (BackendInv /\ FileInv /\ AddLeafInv /\ FetchInv)'
  BY StateManagerFrame
<1>3. StartInv'
  BY PrefixRefl DEF TypeOK, FileInv, StartInv, StartupMode, dbVars
<1>4. LoopInv'
  BY DEF LoopInv, Serving
<1>5. QED
  BY <1>1, <1>2, <1>3, <1>4

\* Create deletes the startup file; no head changes.
LEMMA CreateRemovesStartupLemma ==
  ASSUME LogInv, CreateRemovesStartup, UNCHANGED <<addVars, secVars>>
  PROVE  LogInv'
<1> USE DEF LogInv, CreateRemovesStartup, RemoveStartup, dbVars
<1>1. TypeOK'
  BY StateManagerTypes DEF TypeOK, SmPc
<1>2. (BackendInv /\ FileInv /\ AddLeafInv /\ FetchInv)'
  BY DEF BackendInv, FileInv, AddLeafInv, FetchInv, Committed, addVars, secVars
<1>3. (StartInv /\ LoopInv)'
  BY DEF StartInv, LoopInv, Serving
<1>4. QED
  BY <1>1, <1>2, <1>3

\* Create either writes the first head of the log, when nothing has been
\* published or confirmed yet, or leaves the file alone and gives up.
LEMMA CreateCommitsLemma ==
  ASSUME LogInv, CreateCommits, UNCHANGED <<addVars, secVars>>
  PROVE  LogInv'
<1> USE DEF LogInv, CreateCommits, CommitIfNotExists, dbVars
<1>1. TypeOK'
  BY EmptyHead, StateManagerTypes DEF TypeOK, SmPc
<1>2. (BackendInv /\ FetchInv)'
  BY DEF BackendInv, FetchInv, secVars
<1>3. CASE sthFile = NoFile
  <2>1. sthFile' = nextTH /\ sthFile' # NoFile /\ smpc' = "install"
    BY <1>3, NoFileAssumption DEF TypeOK
  <2>2. Committed = << >> /\ Committed' = nextTH
    BY <1>3, <2>1 DEF Committed
  <2>3. cosignedTreeHead = << >>
    BY <2>2, PrefixEmpty DEF FileInv, TypeOK
  <2>4. acked = {}
    BY <2>2, EmptyHead DEF AddLeafInv, IncludedAt
  <2>5. \A r \in adds : r.size = 0
    BY <2>2, EmptyHead DEF AddLeafInv, TypeOK, AddCall
  <2>6. FileInv'
    BY <2>2, <2>3, PrefixRefl DEF FileInv, StartInv, TypeOK
  <2>7. AddLeafInv'
    BY <2>2, <2>4, <2>5 DEF AddLeafInv, addVars, TypeOK, TreeHead
  <2>8. (StartInv /\ LoopInv)'
    BY <1>3, <2>1 DEF StartInv, LoopInv, Serving
  <2>9. QED
    BY <1>1, <1>2, <2>6, <2>7, <2>8
<1>4. CASE sthFile # NoFile
  <2>1. UNCHANGED sthFile /\ smpc' = "down"
    BY <1>4
  <2>2. (FileInv /\ AddLeafInv)'
    BY <2>1 DEF FileInv, AddLeafInv, Committed, addVars
  <2>3. (StartInv /\ LoopInv)'
    BY <2>1 DEF StartInv, LoopInv, Serving
  <2>4. QED
    BY <1>1, <1>2, <2>2, <2>3
<1>5. QED
  BY <1>3, <1>4

\* The head a server starts to serve with is the one in the sth file.
LEMMA InstallLemma ==
  ASSUME LogInv, Install, UNCHANGED <<addVars, secVars>>
  PROVE  LogInv'
<1> USE DEF LogInv, Install, dbVars, fileVars
<1>1. TypeOK'
  BY EmptyHead, StateManagerTypes DEF TypeOK, SmPc
<1>2. nextTH = Committed /\ nextTH = sthFile /\ Committed' = Committed
  BY DEF StartInv, Committed
<1>3. (BackendInv /\ AddLeafInv /\ FetchInv)'
  BY <1>2 DEF BackendInv, AddLeafInv, FetchInv, addVars, secVars
<1>4. FileInv'
  BY <1>2, PrefixRefl DEF FileInv, TypeOK
<1>5. (StartInv /\ LoopInv)'
  BY <1>2 DEF StartInv, LoopInv, Serving
<1>6. QED
  BY <1>1, <1>3, <1>4, <1>5

-----------------------------------------------------------------------------
\* An iteration of Run starts from the head in the sth file.
LEMMA RunIterationLemma ==
  ASSUME LogInv, RunIteration, UNCHANGED <<addVars, secVars>>
  PROVE  LogInv'
<1> USE DEF LogInv, RunIteration
<1>1. TypeOK'
  BY StateManagerTypes DEF TypeOK, SmPc, fileVars
<1>2. (BackendInv /\ FileInv /\ AddLeafInv /\ FetchInv)'
  BY StateManagerFrame
<1>3. (StartInv /\ LoopInv)'
  BY DEF StartInv, LoopInv, Serving, fileVars
<1>4. QED
  BY <1>1, <1>2, <1>3

\* The loop goes on with a head th that extends what is committed.
LEMMA RotateToLemma ==
  ASSUME LogInv, NEW th \in TreeHead, RotateTo(th), Serving,
         IsPrefix(Committed, th), IsPrefix(th, ptree), signedTreeHead = sthFile,
         UNCHANGED <<dbVars, fileVars, signedTreeHead, cosignedTreeHead, addVars, secVars>>
  PROVE  LogInv'
<1> USE DEF LogInv, RotateTo, ForgetReplication, fileVars
<1>1. TypeOK'
  BY EmptyHead, StateManagerTypes DEF TypeOK, SmPc
<1>2. (BackendInv /\ FileInv /\ AddLeafInv /\ FetchInv)'
  BY StateManagerFrame
<1>3. (StartInv /\ LoopInv)'
  BY DEF StartInv, LoopInv, Serving, Committed, dbVars
<1>4. QED
  BY <1>1, <1>2, <1>3

\* While the loop looks for a replicated head, the current head is what is
\* committed, and going on with it is always possible.
LEMMA CurrentIsCommitted ==
  ASSUME LogInv, smpc \in {"primary", "secondary", "check"}
  PROVE  /\ Serving
         /\ currentTH = Committed /\ currentTH \in TreeHead /\ signedTreeHead = sthFile
         /\ IsPrefix(Committed, currentTH) /\ IsPrefix(currentTH, ptree)
<1>1. Serving /\ currentTH = sthFile /\ signedTreeHead = sthFile /\ sthFile # NoFile
  BY DEF LogInv, LoopInv, Serving
<1>2. currentTH = Committed /\ currentTH \in TreeHead
  BY <1>1 DEF Committed, LogInv, TypeOK
<1>3. QED
  BY <1>1, <1>2, PrefixRefl DEF LogInv, FileInv

\* getPrimaryTreeHead: the primary's tree extends the current head.
LEMMA GetPrimaryTreeHeadLemma ==
  ASSUME LogInv, GetPrimaryTreeHead, UNCHANGED <<addVars, secVars>>
  PROVE  LogInv'
<1>1. smpc = "primary" /\ UNCHANGED <<dbVars, fileVars, signedTreeHead, cosignedTreeHead>>
  BY DEF GetPrimaryTreeHead
<1>2. CASE RotateTo(currentTH)
  BY <1>1, <1>2, CurrentIsCommitted, RotateToLemma
<1>3. CASE RotateTo(ptree)
  BY <1>1, <1>3, CurrentIsCommitted, RotateToLemma, PrefixRefl DEF LogInv, TypeOK
<1>4. CASE primaryTH' = ptree /\ smpc' = "secondary" /\ UNCHANGED <<currentTH, secTH, nextTH>>
  <2>1. TypeOK'
    BY <1>1, <1>4, StateManagerTypes DEF LogInv, TypeOK, SmPc, fileVars
  <2>2. (BackendInv /\ FileInv /\ AddLeafInv /\ FetchInv)'
    BY <1>1, StateManagerFrame
  <2>3. (StartInv /\ LoopInv)'
    BY <1>1, <1>4, PrefixRefl DEF LogInv, TypeOK, StartInv, LoopInv, Serving, fileVars, dbVars
  <2>4. QED
    BY <2>1, <2>2, <2>3 DEF LogInv
<1>5. QED
  BY <1>2, <1>3, <1>4 DEF GetPrimaryTreeHead

\* getSecondaryTreeHead bounds the size of the head it returns.
LEMMA GetSecondaryTreeHeadLemma ==
  ASSUME LogInv, GetSecondaryTreeHead, UNCHANGED <<addVars, secVars>>
  PROVE  LogInv'
<1>1. smpc = "secondary" /\ UNCHANGED <<dbVars, fileVars, signedTreeHead, cosignedTreeHead>>
  BY DEF GetSecondaryTreeHead
<1>2. PICK th \in {stree} \cup StrayHeads :
        \/ RotateTo(currentTH)
        \/ /\ ~(Len(th) > Len(primaryTH) \/ Len(th) < Len(currentTH))
           /\ secTH' = th /\ smpc' = "check" /\ UNCHANGED <<currentTH, primaryTH, nextTH>>
  BY DEF GetSecondaryTreeHead
<1>3. CASE RotateTo(currentTH)
  BY <1>1, <1>3, CurrentIsCommitted, RotateToLemma
<1>4. CASE ~RotateTo(currentTH)
  <2>1. /\ th \in TreeHead /\ Len(currentTH) <= Len(th) /\ Len(th) <= Len(primaryTH)
        /\ secTH' = th /\ smpc' = "check" /\ UNCHANGED <<currentTH, primaryTH, nextTH>>
    BY <1>2, <1>4, StrayHeadsAssumption DEF LogInv, TypeOK, TreeHead
  <2>2. TypeOK'
    BY <1>1, <2>1, StateManagerTypes DEF LogInv, TypeOK, SmPc, fileVars
  <2>3. (BackendInv /\ FileInv /\ AddLeafInv /\ FetchInv)'
    BY <1>1, StateManagerFrame
  <2>4. (StartInv /\ LoopInv)'
    BY <1>1, <2>1 DEF LogInv, StartInv, LoopInv, Serving, fileVars, dbVars
  <2>5. QED
    BY <2>2, <2>3, <2>4 DEF LogInv
<1>5. QED
  BY <1>3, <1>4

\* checkConsistency: a head that passes lies between current head and tree.
LEMMA CheckConsistencyLemma ==
  ASSUME LogInv, CheckConsistency, UNCHANGED <<addVars, secVars>>
  PROVE  LogInv'
<1>1. smpc = "check" /\ UNCHANGED <<dbVars, fileVars, signedTreeHead, cosignedTreeHead>>
  BY DEF CheckConsistency
<1>2. CASE ~ConsistencyVerified(ptree, secTH, primaryTH)
  <2>1. RotateTo(currentTH)
    BY <1>2 DEF CheckConsistency
  <2>2. QED
    BY <1>1, <2>1, CurrentIsCommitted, RotateToLemma
<1>3. CASE ConsistencyVerified(ptree, secTH, primaryTH)
  <2>1. RotateTo(secTH)
    BY <1>3 DEF CheckConsistency
  <2>2. /\ secTH \in TreeHead /\ ptree \in TreeHead /\ primaryTH \in TreeHead
        /\ IsPrefix(primaryTH, ptree)
        /\ Len(currentTH) <= Len(secTH) /\ Len(secTH) <= Len(primaryTH)
    BY <1>1 DEF LogInv, TypeOK, LoopInv
  <2>3. IsPrefix(secTH, ptree)
    BY <1>3, <2>2, VerifiedPrefix
  <2>4. IsPrefix(Committed, secTH)
    BY <1>1, <2>2, <2>3, CurrentIsCommitted, PrefixOrder
  <2>5. QED
    BY <1>1, <2>1, <2>2, <2>3, <2>4, CurrentIsCommitted, RotateToLemma
<1>4. QED
  BY <1>2, <1>3

\* After an error Run goes on with the head it has.
LEMMA ReplicatedTreeHeadFailsLemma ==
  ASSUME LogInv, ReplicatedTreeHeadFails, UNCHANGED <<addVars, secVars>>
  PROVE  LogInv'
BY CurrentIsCommitted, RotateToLemma DEF ReplicatedTreeHeadFails

\* When the committed head grows within the primary's tree, add-leaf calls
\* and confirmations stay covered.
LEMMA CommittedGrows ==
  ASSUME LogInv, UNCHANGED addVars, Committed' \in TreeHead, IsPrefix(Committed, Committed')
  PROVE  AddLeafInv'
<1>1. Committed \in TreeHead
  BY EmptyHead DEF LogInv, TypeOK, Committed
<1>2. Len(Committed) \in Nat /\ Len(Committed') \in Nat /\ Len(Committed) <= Len(Committed')
  BY <1>1, PrefixLen
<1>3. \A r \in adds : r.size <= Len(Committed')
  BY <1>2 DEF LogInv, AddLeafInv, TypeOK, AddCall
<1>4. \A l \in acked : IncludedAt(Committed', Len(Committed'), l)
  BY <1>1, <1>2, IncludedPrefix DEF LogInv, AddLeafInv, TypeOK
<1>5. QED
  BY <1>3, <1>4 DEF AddLeafInv, addVars

\* signTreeHead stores a head that extends the stored one.
LEMMA SignAndStoreLemma ==
  ASSUME LogInv, SignAndStore, UNCHANGED <<addVars, secVars>>
  PROVE  LogInv'
<1> USE DEF LogInv, SignAndStore, Store
<1>1. TypeOK'
  BY StateManagerTypes DEF TypeOK, SmPc
<1>2. /\ nextTH \in TreeHead /\ nextTH # NoFile /\ sthFile # NoFile
      /\ Committed = sthFile /\ Committed' = nextTH /\ Committed \in TreeHead
      /\ IsPrefix(Committed, nextTH) /\ IsPrefix(nextTH, ptree)
  BY NoFileAssumption DEF TypeOK, Committed, LoopInv, Serving, FileInv
<1>3. (BackendInv /\ FetchInv)'
  BY DEF BackendInv, FetchInv, dbVars, secVars
<1>4. FileInv'
  BY <1>2, PrefixTrans DEF TypeOK, FileInv, dbVars
<1>5. AddLeafInv'
  BY <1>2, CommittedGrows
<1>6. StartInv'
  BY DEF StartInv
<1>7. LoopInv'
  BY <1>2 DEF LoopInv, Serving
<1>8. QED
  BY <1>1, <1>3, <1>4, <1>5, <1>6, <1>7

\* An error of signTreeHead leaves file and heads as they were.
LEMMA SignFailsLemma ==
  ASSUME LogInv, SignFails, UNCHANGED <<addVars, secVars>>
  PROVE  LogInv'
<1> USE DEF LogInv, SignFails
<1>1. TypeOK'
  BY EmptyHead, StateManagerTypes DEF TypeOK, SmPc, fileVars
<1>2. (BackendInv /\ FileInv /\ AddLeafInv /\ FetchInv)'
  BY StateManagerFrame
<1>3. (StartInv /\ LoopInv)'
  BY DEF StartInv, LoopInv, Serving, fileVars
<1>4. QED
  BY <1>1, <1>2, <1>3

\* Under its lock signTreeHead installs the head that is in the file.
LEMMA CommitSignedLemma ==
  ASSUME LogInv, CommitSigned, UNCHANGED <<addVars, secVars>>
  PROVE  LogInv'
<1> USE DEF LogInv, CommitSigned
<1>1. ~(Len(nextTH) < Len(signedTreeHead))
  BY PrefixLen DEF LoopInv, TypeOK
<1>2. TypeOK'
  BY <1>1, StateManagerTypes DEF TypeOK, SmPc, fileVars
<1>3. (BackendInv /\ FileInv /\ AddLeafInv /\ FetchInv)'
  BY StateManagerFrame
<1>4. (StartInv /\ LoopInv)'
  BY <1>1 DEF StartInv, LoopInv, Serving, fileVars
<1>5. QED
  BY <1>2, <1>3, <1>4

\* rotate publishes the head that is in the file.
LEMMA PublishCosignedLemma ==
  ASSUME LogInv, PublishCosigned, UNCHANGED <<addVars, secVars>>
  PROVE  LogInv'
<1> USE DEF LogInv, PublishCosigned, dbVars, fileVars
<1>1. TypeOK'
  BY EmptyHead, StateManagerTypes DEF TypeOK, SmPc
<1>2. nextTH = Committed /\ Committed' = Committed /\ nextTH = sthFile
  BY DEF LoopInv, Serving, Committed
<1>3. (BackendInv /\ AddLeafInv /\ FetchInv)'
  BY <1>2 DEF BackendInv, AddLeafInv, FetchInv, addVars, secVars
<1>4. FileInv'
  BY <1>2, PrefixRefl DEF FileInv, TypeOK
<1>5. (StartInv /\ LoopInv)'
  BY <1>2 DEF StartInv, LoopInv, Serving
<1>6. QED
  BY <1>1, <1>3, <1>4, <1>5

\* A crash of the primary loses what is in memory only.
LEMMA PrimaryExitsLemma ==
  ASSUME LogInv, PrimaryExits, UNCHANGED secVars
  PROVE  LogInv'
<1> USE DEF LogInv, PrimaryExits, Exit, ForgetReplication, dbVars, fileVars, secVars
<1>1. TypeOK'
  BY EmptyHead DEF TypeOK, SmPc
<1>2. (BackendInv /\ FileInv /\ AddLeafInv /\ FetchInv)'
  BY DEF BackendInv, FileInv, AddLeafInv, FetchInv, Committed
<1>3. (StartInv /\ LoopInv)'
  BY DEF StartInv, LoopInv, Serving
<1>4. QED
  BY <1>1, <1>2, <1>3

\* Whatever startup file the operator leaves, no head changes.
LEMMA OperatorLemma ==
  ASSUME LogInv, smpc = "down", UNCHANGED <<dbVars, smVars, addVars, secVars>>,
         \/ \E mode \in StartupModes : MkTree(mode)
         \/ MkTreeInterrupted
         \/ RemovePartialStartup
         \/ \E mode \in StartupModes : StartupByHand(mode)
  PROVE  LogInv'
<1> USE DEF LogInv, MkTree, MkTreeInterrupted, RemovePartialStartup, StartupByHand, dbVars, smVars
<1>1. TypeOK'
  BY StartupModesAssumption, StateManagerTypes DEF TypeOK
<1>2. (BackendInv /\ FileInv /\ AddLeafInv /\ FetchInv)'
  BY DEF BackendInv, FileInv, AddLeafInv, FetchInv, Committed, addVars, secVars
<1>3. (StartInv /\ LoopInv)'
  BY DEF StartInv, LoopInv, Serving
<1>4. QED
  BY <1>1, <1>2, <1>3

-----------------------------------------------------------------------------
\* A step of an add-leaf call changes the calls, the queue and the set of
\* confirmed leaves, nothing else.
LEMMA AddLeafFrame ==
  ASSUME LogInv, UNCHANGED <<ptree, stree, sstored, fileVars, smVars, secVars>>,
         (pqueue \in SUBSET Leaf)', (\A r \in adds : r \in AddCall)', (acked \in SUBSET Leaf)',
         AddLeafInv'
  PROVE  LogInv'
<1> USE DEF LogInv, fileVars, smVars, secVars
<1>1. TypeOK'
  BY DEF TypeOK
<1>2. (BackendInv /\ FileInv /\ FetchInv)'
  BY DEF BackendInv, FileInv, FetchInv, Committed
<1>3. (StartInv /\ LoopInv)'
  BY DEF StartInv, LoopInv, Serving, Committed
<1>4. QED
  BY <1>1, <1>2, <1>3

\* An add-leaf call starts with the size of a committed head.
LEMMA AddLeafStartLemma ==
  ASSUME LogInv, NEW l \in Leaf, AddLeafStart(l), UNCHANGED secVars
  PROVE  LogInv'
<1> DEFINE r == [leaf |-> l, size |-> Len(signedTreeHead), step |-> "queue"]
<1>1. Len(signedTreeHead) \in Nat
  BY DEF LogInv, TypeOK, TreeHead
<1>2. r \in AddCall
  BY <1>1 DEF AddCall
<1>3. Len(signedTreeHead) <= Len(Committed)
  <2>1. smpc # "commit" => signedTreeHead = Committed
    BY DEF LogInv, LoopInv, AddLeafStart, Serving, Committed, TypeOK, SmPc
  <2>2. smpc = "commit" => IsPrefix(signedTreeHead, Committed) /\ Committed \in TreeHead
    BY DEF LogInv, LoopInv, Serving, Committed, TypeOK
  <2>3. QED
    BY <1>1, <2>1, <2>2, PrefixLen DEF LogInv, TypeOK
<1>4. adds' = adds \cup {r} /\ UNCHANGED <<dbVars, fileVars, smVars, acked>>
  BY DEF AddLeafStart
<1>5. AddLeafInv'
  BY <1>3, <1>4 DEF LogInv, AddLeafInv, Committed, fileVars
<1>6. QED
  BY <1>2, <1>4, <1>5, AddLeafFrame DEF LogInv, TypeOK, dbVars

\* Queueing a leaf changes neither tree.
LEMMA AddLeafQueueLemma ==
  ASSUME LogInv, NEW r \in adds, AddLeafQueue(r), UNCHANGED secVars
  PROVE  LogInv'
<1>1. r \in AddCall /\ r.leaf \in Leaf
  BY DEF LogInv, TypeOK, AddCall
<1>2. \A q \in adds' : q \in AddCall /\ q.size <= Len(Committed)
  BY <1>1 DEF LogInv, TypeOK, AddLeafInv, AddLeafQueue, AddCall
<1>3. pqueue' \in SUBSET Leaf
  BY <1>1 DEF LogInv, TypeOK, AddLeafQueue, QueueLeaf
<1>4. AddLeafInv'
  BY <1>2 DEF LogInv, AddLeafInv, AddLeafQueue, Committed, fileVars
<1>5. QED
  BY <1>2, <1>3, <1>4, AddLeafFrame DEF AddLeafQueue, LogInv, TypeOK

\* A leaf that is confirmed is in a committed head.
LEMMA AddLeafProveLemma ==
  ASSUME LogInv, NEW r \in adds, AddLeafProve(r), UNCHANGED secVars
  PROVE  LogInv'
<1>1. /\ r.leaf \in Leaf /\ r.size \in Nat /\ r.size <= Len(Committed)
      /\ Committed \in TreeHead /\ ptree \in TreeHead /\ IsPrefix(Committed, ptree)
  BY EmptyHead DEF LogInv, TypeOK, AddCall, AddLeafInv, FileInv, Committed
<1>2. IncludedAt(ptree, r.size, r.leaf) => IncludedAt(Committed, Len(Committed), r.leaf)
  BY <1>1, IncludedPrefix
<1>3. Committed' = Committed
  BY DEF AddLeafProve, Committed, fileVars
<1>4. AddLeafInv'
  BY <1>2, <1>3 DEF LogInv, AddLeafInv, AddLeafProve
<1>5. QED
  BY <1>1, <1>4, AddLeafFrame DEF AddLeafProve, LogInv, TypeOK, dbVars

\* A failed add-leaf call confirms nothing.
LEMMA AddLeafFailsLemma ==
  ASSUME LogInv, NEW r \in adds, AddLeafFails(r), UNCHANGED secVars
  PROVE  LogInv'
<1>1. pqueue' \in SUBSET Leaf
  BY DEF LogInv, TypeOK, AddCall, AddLeafFails, QueueLeaf
<1>2. AddLeafInv'
  BY DEF LogInv, AddLeafInv, AddLeafFails, Committed, fileVars
<1>3. QED
  BY <1>1, <1>2, AddLeafFrame DEF AddLeafFails, LogInv, TypeOK

-----------------------------------------------------------------------------
\* Leaves copied from a tree and written at their own indices keep the
\* stored leaves a prefix of that tree.
LEMMA WithLeavesAtPrefix ==
  ASSUME NEW stored \in TreeHead, NEW tree \in TreeHead, NEW leaves \in TreeHead, NEW start \in Nat,
         IsPrefix(stored, tree), start <= Len(stored), LeavesFrom(tree, start, leaves)
  PROVE  /\ WithLeavesAt(stored, start, leaves) \in TreeHead
         /\ IsPrefix(stored, WithLeavesAt(stored, start, leaves))
         /\ IsPrefix(WithLeavesAt(stored, start, leaves), tree)
<1> DEFINE size == IF start + Len(leaves) > Len(stored) THEN start + Len(leaves) ELSE Len(stored)
           w == WithLeavesAt(stored, start, leaves)
<1>1. Len(stored) \in Nat /\ Len(tree) \in Nat /\ Len(leaves) \in Nat
  BY DEF TreeHead
<1>2. size \in Nat /\ Len(stored) <= size /\ size <= Len(tree)
  BY <1>1 DEF IsPrefix, LeavesFrom
<1>3. w = [i \in 1..size |-> IF i <= Len(stored) THEN stored[i] ELSE leaves[i - start]]
  BY DEF WithLeavesAt
<1>4. \A i \in 1..size : w[i] = tree[i]
  <2>1. SUFFICES ASSUME NEW i \in 1..size PROVE w[i] = tree[i]
    OBVIOUS
  <2>2. CASE i <= Len(stored)
    BY <1>1, <1>2, <1>3, <2>2 DEF IsPrefix
  <2>3. CASE i > Len(stored)
    <3>1. i - start \in 1..Len(leaves) /\ start + (i - start) = i
      BY <1>1, <2>3
    <3>2. QED
      BY <1>1, <1>3, <2>3, <3>1 DEF LeavesFrom
  <2>4. QED
    BY <1>1, <2>2, <2>3
<1>5. \A i \in 1..size : w[i] \in Leaf
  BY <1>1, <1>2, <1>4 DEF TreeHead
<1> HIDE DEF w, size
<1>6. w \in TreeHead /\ Len(w) = size
  BY <1>2, <1>3, <1>5 DEF TreeHead
<1>7. IsPrefix(w, tree)
  BY <1>2, <1>4, <1>6 DEF IsPrefix
<1>8. IsPrefix(stored, w)
  BY <1>1, <1>2, <1>4, <1>6 DEF IsPrefix
<1>9. QED
  BY <1>6, <1>7, <1>8 DEF w

\* What the internal get-leaves endpoint answers are the leaves of the
\* primary's tree from the start index on.
LEMMA GetLeavesInternalAnswer ==
  ASSUME ptree \in TreeHead, NEW start \in Nat, NEW end \in Nat, NEW STATE rsp,
         rsp = GetLeavesInternal(start, end), rsp.status = 200
  PROVE  rsp.leaves \in TreeHead /\ LeavesFrom(ptree, start, rsp.leaves)
<1> DEFINE inTree == IF end > Len(ptree) THEN Len(ptree) ELSE end
           last == IF inTree - start > MaxRange THEN start + MaxRange ELSE inTree
           refused == \/ start >= end
                      \/ start > Len(ptree)
                      \/ FALSE /\ (start >= Len(ptree) \/ end > Len(ptree))
           leaves == SubSeq(ptree, start + 1, last)
<1>1. rsp = IF refused THEN [status |-> 400, leaves |-> << >>]
            ELSE IF start = last THEN [status |-> 404, leaves |-> << >>]
            ELSE [status |-> 200, leaves |-> leaves]
  BY DEF GetLeavesInternal, GetLeavesGeneral
<1>2. ~refused /\ start # last /\ rsp.leaves = leaves
  <2> HIDE DEF refused, last, leaves
  <2>1. QED
    BY <1>1
<1>3. Len(ptree) \in Nat
  BY DEF TreeHead
<1>4. last \in Nat /\ start < last /\ last <= Len(ptree)
  BY <1>2, <1>3, MaxRangeAssumption
<1> HIDE DEF last
<1>5. leaves \in TreeHead /\ Len(leaves) = last - start /\ \A i \in 1..(last - start) : leaves[i] = ptree[start + i]
  BY <1>3, <1>4 DEF TreeHead
<1> HIDE DEF leaves
<1>6. QED
  BY <1>2, <1>3, <1>4, <1>5 DEF LeavesFrom

\* Steps of the secondary's loop that only move its program counter.
LEMMA FetchFrame ==
  ASSUME LogInv, UNCHANGED <<dbVars, fileVars, smVars, addVars>>,
         (fpc \in {"idle", "head", "fetch", "add"})', (fstart \in Nat)', (fleaves \in TreeHead)',
         FetchInv'
  PROVE  LogInv'
<1> USE DEF LogInv, dbVars, fileVars, smVars, addVars
<1>1. TypeOK'
  BY DEF TypeOK
<1>2. (BackendInv /\ FileInv /\ AddLeafInv)'
  BY DEF BackendInv, FileInv, AddLeafInv, Committed
<1>3. (StartInv /\ LoopInv)'
  BY DEF StartInv, LoopInv, Serving, Committed
<1>4. QED
  BY <1>1, <1>2, <1>3

\* Ticks, reads of the size and failures of the secondary's loop.
LEMMA FetchLemma ==
  ASSUME LogInv, Tick \/ FetchTreeHead \/ FetchFails, UNCHANGED <<fileVars, smVars, addVars>>
  PROVE  LogInv'
<1>0. Len(stree) \in Nat
  BY DEF LogInv, TypeOK, TreeHead
<1>1. (fpc \in {"idle", "head", "fetch", "add"})' /\ (fstart \in Nat)' /\ (fleaves \in TreeHead)'
  BY <1>0, EmptyHead DEF LogInv, TypeOK, Tick, FetchTreeHead, FetchFails, FetchReturns
<1>2. FetchInv'
  BY <1>0 DEF LogInv, FetchInv, Tick, FetchTreeHead, FetchFails, FetchReturns, dbVars
<1>3. QED
  BY <1>1, <1>2, FetchFrame DEF Tick, FetchTreeHead, FetchFails

\* What the secondary receives is a range of the primary's tree.
LEMMA FetchLeavesLemma ==
  ASSUME LogInv, FetchLeaves(Serving), UNCHANGED <<fileVars, smVars, addVars>>
  PROVE  LogInv'
<1> DEFINE end == fstart + LeavesBatchSize
           rsp == GetLeavesInternal(fstart, end)
<1>1. CASE rsp.status = 200
  <2>1. fleaves' = rsp.leaves /\ fpc' = "add" /\ fstart' = fstart /\ fpc = "fetch" /\ UNCHANGED dbVars
    BY <1>1 DEF FetchLeaves
  <2>2. ptree \in TreeHead /\ fstart \in Nat /\ end \in Nat
    BY LeavesBatchSizeAssumption DEF LogInv, TypeOK
  <2> HIDE DEF end
  <2>0. rsp = GetLeavesInternal(fstart, end)
    OBVIOUS
  <2> HIDE DEF rsp
  <2>3. rsp.leaves \in TreeHead /\ LeavesFrom(ptree, fstart, rsp.leaves)
    BY <1>1, <2>0, <2>2, GetLeavesInternalAnswer
  <2>4. FetchInv'
    BY <2>1, <2>3 DEF LogInv, FetchInv, dbVars
  <2>5. QED
    BY <2>1, <2>2, <2>3, <2>4, FetchFrame
<1>2. CASE rsp.status # 200
  <2>1. FetchReturns /\ UNCHANGED dbVars
    BY <1>2 DEF FetchLeaves
  <2>2. QED
    BY <2>1, EmptyHead, FetchFrame DEF FetchReturns, FetchInv
<1>3. QED
  BY <1>1, <1>2

\* What the secondary stores grows, within the primary's tree.
LEMMA StoredGrows ==
  ASSUME LogInv, sstored' \in TreeHead, IsPrefix(sstored, sstored'), IsPrefix(sstored', ptree),
         (fpc \in {"idle", "head"})', fstart' = 0, fleaves' = << >>,
         UNCHANGED <<ptree, pqueue, stree, fileVars, smVars, addVars>>
  PROVE  LogInv'
<1> USE DEF LogInv, fileVars, smVars, addVars
<1>1. TypeOK'
  BY EmptyHead DEF TypeOK
<1>2. BackendInv'
  BY PrefixTrans DEF BackendInv, TypeOK
<1>3. (FileInv /\ AddLeafInv /\ FetchInv)'
  BY DEF FileInv, AddLeafInv, FetchInv, Committed
<1>4. (StartInv /\ LoopInv)'
  BY DEF StartInv, LoopInv, Serving, Committed
<1>5. QED
  BY <1>1, <1>2, <1>3, <1>4

\* AddSequencedLeaves keeps the secondary's leaves a prefix of the primary's,
\* also when it fails half way.
LEMMA AddSequencedLeavesLemma ==
  ASSUME LogInv, AddSequencedLeaves \/ AddSequencedLeavesFails, UNCHANGED <<fileVars, smVars, addVars>>
  PROVE  LogInv'
<1>1. PICK n \in 0..Len(fleaves) : sstored' = WithLeavesAt(sstored, fstart, SubSeq(fleaves, 1, n))
  <2>1. fleaves \in TreeHead /\ Len(fleaves) \in 0..Len(fleaves) /\ SubSeq(fleaves, 1, Len(fleaves)) = fleaves
    BY DEF LogInv, TypeOK, TreeHead
  <2>2. QED
    BY <2>1 DEF AddSequencedLeaves, AddSequencedLeavesFails
<1> DEFINE leaves == SubSeq(fleaves, 1, n)
<1>2. /\ fpc = "add" /\ (fpc \in {"idle", "head"})' /\ fstart' = 0 /\ fleaves' = << >>
      /\ UNCHANGED <<ptree, pqueue, stree>>
  BY DEF AddSequencedLeaves, AddSequencedLeavesFails, FetchReturns
<1>3. /\ stree \in TreeHead /\ sstored \in TreeHead /\ ptree \in TreeHead /\ fleaves \in TreeHead /\ fstart \in Nat
      /\ IsPrefix(stree, sstored) /\ IsPrefix(sstored, ptree)
      /\ fstart <= Len(stree) /\ LeavesFrom(ptree, fstart, fleaves)
  BY <1>2 DEF LogInv, TypeOK, BackendInv, FetchInv
<1>4. leaves \in TreeHead /\ Len(leaves) = n /\ \A i \in 1..n : leaves[i] = fleaves[i]
  BY <1>3 DEF TreeHead
<1> HIDE DEF leaves
<1>5. fstart <= Len(sstored) /\ LeavesFrom(ptree, fstart, leaves)
  <2>1. Len(stree) \in Nat /\ Len(sstored) \in Nat /\ Len(ptree) \in Nat /\ Len(fleaves) \in Nat
    BY <1>3 DEF TreeHead
  <2>2. Len(stree) <= Len(sstored)
    BY <1>3, PrefixLen
  <2>3. \A i \in 1..n : i \in 1..Len(fleaves) /\ leaves[i] = ptree[fstart + i]
    <3>1. \A i \in 1..Len(fleaves) : fleaves[i] = ptree[fstart + i]
      BY <1>3 DEF LeavesFrom
    <3>2. \A i \in 1..n : i \in 1..Len(fleaves)
      BY <2>1
    <3>3. QED
      BY <1>4, <3>1, <3>2, Zenon
  <2>4. QED
    BY <1>3, <1>4, <2>1, <2>2, <2>3 DEF LeavesFrom
<1>6. /\ WithLeavesAt(sstored, fstart, leaves) \in TreeHead
      /\ IsPrefix(sstored, WithLeavesAt(sstored, fstart, leaves))
      /\ IsPrefix(WithLeavesAt(sstored, fstart, leaves), ptree)
  BY <1>3, <1>4, <1>5, WithLeavesAtPrefix
<1>7. QED
  BY <1>1, <1>2, <1>6, StoredGrows DEF leaves

-----------------------------------------------------------------------------
\* The primary's tree grows at its end.
LEMMA SequenceLemma ==
  ASSUME LogInv, Sequence, UNCHANGED <<fileVars, smVars, addVars, secVars>>
  PROVE  LogInv'
<1> USE DEF LogInv, fileVars, smVars, addVars, secVars
<1>1. PICK l \in pqueue : ptree' = Append(ptree, l) /\ pqueue' = pqueue \ {l}
  BY DEF Sequence
<1>2. ptree \in TreeHead /\ ptree' \in TreeHead /\ IsPrefix(ptree, ptree')
  BY <1>1, PrefixAppend DEF TypeOK
<1>3. UNCHANGED <<stree, sstored>>
  BY DEF Sequence
<1>4. TypeOK'
  BY <1>1, <1>2, <1>3 DEF TypeOK
<1>5. Committed \in TreeHead /\ Committed' = Committed
  BY EmptyHead DEF TypeOK, Committed
<1>6. \A th \in TreeHead : IsPrefix(th, ptree) => IsPrefix(th, ptree')
  BY <1>2, PrefixTrans
<1>7. (BackendInv /\ FileInv)'
  BY <1>3, <1>5, <1>6 DEF BackendInv, FileInv, TypeOK
<1>8. (StartInv /\ LoopInv /\ AddLeafInv)'
  BY <1>5, <1>6 DEF StartInv, LoopInv, AddLeafInv, Serving, TypeOK
<1>9. FetchInv'
  <2>1. /\ Len(ptree) \in Nat /\ Len(ptree') \in Nat /\ Len(ptree) <= Len(ptree') /\ Len(fleaves) \in Nat
        /\ fstart \in Nat /\ \A i \in 1..Len(ptree) : ptree[i] = ptree'[i]
    <3>1. fleaves \in TreeHead /\ fstart \in Nat
      BY DEF TypeOK
    <3>2. Len(ptree) \in Nat /\ Len(ptree') \in Nat /\ Len(fleaves) \in Nat
      BY <1>2, <3>1 DEF TreeHead
    <3>3. Len(ptree) <= Len(ptree') /\ \A i \in 1..Len(ptree) : ptree[i] = ptree'[i]
      BY <1>2, Zenon DEF IsPrefix
    <3>4. QED
      BY <3>1, <3>2, <3>3
  <2>2. LeavesFrom(ptree, fstart, fleaves) => LeavesFrom(ptree', fstart, fleaves)
    <3> SUFFICES ASSUME LeavesFrom(ptree, fstart, fleaves) PROVE LeavesFrom(ptree', fstart, fleaves)
      OBVIOUS
    <3>1. fstart + Len(fleaves) <= Len(ptree) /\ \A i \in 1..Len(fleaves) : fleaves[i] = ptree[fstart + i]
      BY DEF LeavesFrom
    <3>2. fstart + Len(fleaves) <= Len(ptree') /\ \A i \in 1..Len(fleaves) : fstart + i \in 1..Len(ptree)
      BY <2>1, <3>1
    <3>3. \A i \in 1..Len(fleaves) : fleaves[i] = ptree'[fstart + i]
      BY <2>1, <3>1, <3>2, Zenon
    <3>4. QED
      BY <3>2, <3>3 DEF LeavesFrom
  <2>3. fpc' = fpc /\ fstart' = fstart /\ fleaves' = fleaves
    OBVIOUS
  <2>4. QED
    BY <1>3, <2>2, <2>3, Zenon DEF FetchInv
<1>10. QED
  BY <1>4, <1>7, <1>8, <1>9

\* The secondary's tree grows to a prefix of its stored leaves.
LEMMA IntegrateLemma ==
  ASSUME LogInv, Integrate, UNCHANGED <<fileVars, smVars, addVars, secVars>>
  PROVE  LogInv'
<1> USE DEF LogInv, fileVars, smVars, addVars, secVars
<1>1. PICK n \in Len(stree) + 1 .. Len(sstored) : stree' = TreeAt(sstored, n)
  BY DEF Integrate
<1>2. n \in 0..Len(sstored) /\ Len(stree) \in Nat /\ Len(stree) <= n
  BY DEF TypeOK, TreeHead
<1>3. stree' \in TreeHead /\ Len(stree') = n /\ IsPrefix(stree', sstored)
  BY <1>1, <1>2, PrefixTreeAt DEF TypeOK
<1>4. UNCHANGED <<ptree, pqueue, sstored>>
  BY DEF Integrate
<1>5. TypeOK'
  BY <1>3, <1>4 DEF TypeOK
<1>6. BackendInv'
  BY <1>3, <1>4 DEF BackendInv
<1>7. (FileInv /\ StartInv /\ LoopInv /\ AddLeafInv)'
  BY <1>4 DEF FileInv, StartInv, LoopInv, AddLeafInv, Serving, Committed
<1>8. FetchInv'
  BY <1>2, <1>3, <1>4 DEF FetchInv, TypeOK
<1>9. QED
  BY <1>5, <1>6, <1>7, <1>8

-----------------------------------------------------------------------------
\* Every step of the system preserves the invariant.
LEMMA NextLogInv == LogInv /\ [Next]_vars => LogInv'
<1> SUFFICES ASSUME LogInv, [Next]_vars PROVE LogInv'
  OBVIOUS
<1>1. CASE OperatorStep
  BY <1>1, OperatorLemma DEF OperatorStep
<1>2. CASE StateManagerStep
  BY <1>2, StartLemma, CreateRemovesStartupLemma, CreateCommitsLemma, InstallLemma, RunIterationLemma,
     GetPrimaryTreeHeadLemma, GetSecondaryTreeHeadLemma, CheckConsistencyLemma, SignAndStoreLemma,
     CommitSignedLemma, PublishCosignedLemma DEF StateManagerStep, SmStep
<1>3. CASE ClientStep
  BY <1>3, AddLeafStartLemma DEF ClientStep
<1>4. CASE AddLeafStep
  BY <1>4, AddLeafQueueLemma, AddLeafProveLemma DEF AddLeafStep
<1>5. CASE SecondaryStep
  BY <1>5, FetchLemma, FetchLeavesLemma, AddSequencedLeavesLemma DEF SecondaryStep
<1>6. CASE BackendStep
  BY <1>6, SequenceLemma, IntegrateLemma DEF BackendStep
<1>7. CASE Fault
  BY <1>7, PrimaryExitsLemma, ReplicatedTreeHeadFailsLemma, SignFailsLemma, AddLeafFailsLemma,
     AddSequencedLeavesLemma, FetchLemma, OperatorLemma DEF Fault
<1>8. CASE UNCHANGED vars
  <2> USE <1>8 DEF vars, dbVars, fileVars, smVars, addVars, secVars, LogInv
  <2>1. TypeOK'
    BY DEF TypeOK
  <2>2. BackendInv' /\ FileInv'
    BY DEF BackendInv, FileInv, Committed
  <2>3. StartInv' /\ LoopInv'
    BY DEF StartInv, LoopInv, Committed, Serving
  <2>4. AddLeafInv' /\ FetchInv'
    BY DEF AddLeafInv, FetchInv, Committed, Serving
  <2>5. QED
    BY <2>1, <2>2, <2>3, <2>4
<1>9. QED
  BY <1>1, <1>2, <1>3, <1>4, <1>5, <1>6, <1>7, <1>8 DEF Next, Step

\* The inductive invariant holds in every state the log can reach.
THEOREM LogInvariant == Spec => []LogInv
BY InitLogInv, NextLogInv, PTL DEF Spec

\* Types, and the invariants of the runs that follow from LogInv alone,
\* whatever heads the secondary answers with and however the log started.
THEOREM TypeCorrect == Spec => []TypeOK
<1>1. LogInv => TypeOK
  BY DEF LogInv
<1>2. QED
  BY <1>1, LogInvariant, PTL

\* The backend always holds the tree of the published head.
THEOREM PublishedIsServable == Spec => []PublishedServable
<1>1. LogInv => PublishedServable
  BY EmptyHead, PrefixTrans DEF LogInv, FileInv, TypeOK, Committed, PublishedServable
<1>2. QED
  BY <1>1, LogInvariant, PTL

\* signTreeHead never overwrites the sth file with a shorter head.
THEOREM NeverTruncates == Spec => []NoTruncation
<1>1. LogInv => NoTruncation
  <2>1. SUFFICES ASSUME LogInv, smpc = "commit" PROVE Len(nextTH) >= Len(signedTreeHead)
    BY DEF NoTruncation
  <2>2. IsPrefix(signedTreeHead, nextTH) /\ signedTreeHead \in TreeHead /\ nextTH \in TreeHead
    BY <2>1 DEF LogInv, LoopInv, TypeOK
  <2>3. QED
    BY <2>2, PrefixLen
<1>2. QED
  BY <1>1, LogInvariant, PTL

-----------------------------------------------------------------------------
\* Whatever happens, what is committed and published only grows: each step
\* is a step of the abstract log or changes nothing it talks about.
LEMMA CommittedType == (LogInv => Committed \in TreeHead) /\ (LogInv' => Committed' \in TreeHead)
BY EmptyHead DEF LogInv, TypeOK, Committed

\* The abstract log uses the same notions of tree head and prefix.
LEMMA SameNotions ==
  /\ Log!TreeHead = TreeHead
  /\ \A s, t : Log!IsPrefix(s, t) <=> IsPrefix(s, t)
BY DEF Log!TreeHead, TreeHead, Log!IsPrefix, IsPrefix

\* Steps that leave the files, the published head and acked alone.
LEMMA InvisibleStep ==
  ASSUME UNCHANGED <<sthFile, cosignedTreeHead, acked>>
  PROVE  UNCHANGED <<Committed, cosignedTreeHead, acked>>
BY DEF Committed

\* A step of the state manager commits, publishes or is invisible.
LEMMA StateManagerRefines ==
  ASSUME LogInv, LogInv', SmStep, UNCHANGED addVars
  PROVE  [Log!LogNext]_<<Committed, cosignedTreeHead, acked>>
<1> USE DEF addVars
<1>1. CASE CreateCommits
  <2>1. CASE sthFile = NoFile
    <3>1. Committed = << >> /\ UNCHANGED cosignedTreeHead
      BY <1>1, <2>1 DEF Committed, CreateCommits
    <3>2. Log!Commit
      BY <3>1, CommittedType, SameNotions, PrefixRefl DEF Log!Commit
    <3>3. QED
      BY <3>2 DEF Log!LogNext
  <2>2. CASE sthFile # NoFile
    BY <1>1, <2>2, InvisibleStep DEF CreateCommits, CommitIfNotExists
  <2>3. QED
    BY <2>1, <2>2
<1>2. CASE SignAndStore
  <2>1. Committed' = nextTH /\ IsPrefix(Committed, nextTH) /\ UNCHANGED cosignedTreeHead
    BY <1>2, NoFileAssumption DEF LogInv, TypeOK, LoopInv, Committed, SignAndStore, Store
  <2>2. Log!Commit
    BY <2>1, CommittedType, SameNotions DEF Log!Commit
  <2>3. QED
    BY <2>2 DEF Log!LogNext
<1>3. CASE Install \/ PublishCosigned
  <2>1. cosignedTreeHead' = Committed /\ Committed' = Committed
    BY <1>3 DEF LogInv, StartInv, LoopInv, Serving, Committed, Install, PublishCosigned, fileVars
  <2>2. Log!Publish
    BY <2>1, CommittedType, SameNotions, PrefixRefl DEF Log!Publish, LogInv, FileInv
  <2>3. QED
    BY <2>2 DEF Log!LogNext
<1>4. CASE ~(CreateCommits \/ SignAndStore \/ Install \/ PublishCosigned)
  <2>1. UNCHANGED <<sthFile, cosignedTreeHead>>
    BY <1>4 DEF SmStep, StartSaved, StartEmpty, StartLocalTree, CreateRemovesStartup, RemoveStartup,
       RunIteration, GetPrimaryTreeHead, GetSecondaryTreeHead, CheckConsistency, CommitSigned, fileVars
  <2>2. QED
    BY <2>1, InvisibleStep
<1>5. QED
  BY <1>1, <1>2, <1>3, <1>4

\* A confirmation by add-leaf acknowledges a committed leaf.
LEMMA AddLeafProveRefines ==
  ASSUME LogInv, NEW r \in adds, AddLeafProve(r)
  PROVE  [Log!LogNext]_<<Committed, cosignedTreeHead, acked>>
<1>1. UNCHANGED <<sthFile, cosignedTreeHead>> /\ UNCHANGED Committed
  BY DEF AddLeafProve, fileVars, smVars, Committed
<1>2. CASE IncludedAt(ptree, r.size, r.leaf)
  <2>1. /\ r.leaf \in Leaf /\ r.size \in Nat /\ r.size <= Len(Committed)
        /\ Committed \in TreeHead /\ ptree \in TreeHead /\ IsPrefix(Committed, ptree)
    BY CommittedType DEF LogInv, TypeOK, AddCall, AddLeafInv, FileInv
  <2>2. IncludedAt(Committed, Len(Committed), r.leaf)
    BY <1>2, <2>1, IncludedPrefix
  <2>3. acked' = acked \cup {r.leaf}
    BY <1>2 DEF AddLeafProve
  <2>4. Log!Acknowledge
    BY <1>1, <2>1, <2>2, <2>3 DEF Log!Acknowledge, Log!IncludedAt, IncludedAt
  <2>5. QED
    BY <2>4 DEF Log!LogNext
<1>3. CASE ~IncludedAt(ptree, r.size, r.leaf)
  BY <1>1, <1>3 DEF AddLeafProve
<1>4. QED
  BY <1>2, <1>3

\* Every step of the system is one of the abstract log, or invisible to it.
LEMMA NextRefines ==
  ASSUME LogInv, LogInv', [Next]_vars
  PROVE  [Log!LogNext]_<<Committed, cosignedTreeHead, acked>>
<1>1. CASE StateManagerStep
  BY <1>1, StateManagerRefines DEF StateManagerStep
<1>2. CASE AddLeafStep
  <2>1. PICK r \in adds : AddLeafQueue(r) \/ AddLeafProve(r)
    BY <1>2 DEF AddLeafStep
  <2>2. CASE AddLeafQueue(r)
    BY <2>2, InvisibleStep DEF AddLeafQueue, fileVars, smVars
  <2>3. CASE AddLeafProve(r)
    BY <2>3, AddLeafProveRefines
  <2>4. QED
    BY <2>1, <2>2, <2>3
<1>3. CASE OperatorStep
  BY <1>3, InvisibleStep DEF OperatorStep, MkTree, RemovePartialStartup, smVars, addVars
<1>4. CASE ClientStep
  BY <1>4, InvisibleStep DEF ClientStep, AddLeafStart, fileVars, smVars
<1>5. CASE SecondaryStep \/ BackendStep
  BY <1>5, InvisibleStep DEF SecondaryStep, BackendStep, fileVars, smVars, addVars
<1>6. CASE Fault
  BY <1>6, InvisibleStep DEF Fault, PrimaryExits, Exit, ReplicatedTreeHeadFails, SignFails,
     AddLeafFails, MkTreeInterrupted, StartupByHand, fileVars, smVars, addVars
<1>7. CASE UNCHANGED vars
  BY <1>7, InvisibleStep DEF vars, fileVars, smVars, addVars
<1>8. QED
  BY <1>1, <1>2, <1>3, <1>4, <1>5, <1>6, <1>7 DEF Next, Step

\* The whole system, with crashes, failing calls, any answers of the
\* secondary and any way to start, implements the append-only log.
THEOREM LogIsAppendOnly == Spec => ImplementsLog
<1>1. Init => Log!LogInit
  BY DEF Init, FileInit, SmInit, AddInit, Committed, Log!LogInit
<1>2. LogInv /\ LogInv' /\ [Next]_vars => [Log!LogNext]_<<Committed, cosignedTreeHead, acked>>
  BY NextRefines
<1>3. QED
  BY <1>1, <1>2, LogInvariant, PTL DEF Spec, ImplementsLog, Log!LogSpec

-----------------------------------------------------------------------------
\* The secondary's tree only grows, so what it has replicated stays so.
LEMMA SecondaryGrows ==
  ASSUME LogInv, LogInv', [Next]_vars
  PROVE  IsPrefix(stree, stree')
<1>1. CASE BackendStep
  <2>1. CASE Integrate
    <3>1. /\ stree \in TreeHead /\ stree' \in TreeHead /\ sstored \in TreeHead
          /\ IsPrefix(stree, sstored) /\ IsPrefix(stree', sstored)
      BY <2>1 DEF LogInv, TypeOK, BackendInv, Integrate
    <3>2. Len(stree) <= Len(stree')
      <4>1. PICK n \in Len(stree) + 1 .. Len(sstored) : stree' = TreeAt(sstored, n)
        BY <2>1 DEF Integrate
      <4>2. Len(stree) \in Nat /\ Len(sstored) \in Nat /\ n \in 0..Len(sstored) /\ Len(stree) <= n
        BY <3>1 DEF TreeHead
      <4>3. QED
        BY <3>1, <4>1, <4>2, PrefixTreeAt
    <3>3. QED
      BY <3>1, <3>2, PrefixOrder
  <2>2. CASE Sequence
    BY <2>2, PrefixRefl DEF Sequence, LogInv, TypeOK
  <2>3. QED
    BY <1>1, <2>1, <2>2 DEF BackendStep
<1>2. CASE ~BackendStep
  <2>1. UNCHANGED stree
    BY <1>2 DEF Next, Step, vars, dbVars, OperatorStep, StateManagerStep, SmStep, StartSaved, StartEmpty,
       StartLocalTree, CreateRemovesStartup, CreateCommits, Install, RunIteration, GetPrimaryTreeHead,
       GetSecondaryTreeHead, CheckConsistency, SignAndStore, CommitSigned, PublishCosigned,
       ClientStep, AddLeafStart, AddLeafStep, AddLeafQueue, AddLeafProve, SecondaryStep, Tick,
       FetchTreeHead, FetchLeaves, AddSequencedLeaves, Fault, PrimaryExits, Exit,
       ReplicatedTreeHeadFails, SignFails, AddLeafFails, AddSequencedLeavesFails, FetchFails
  <2>2. QED
    BY <2>1, PrefixRefl DEF LogInv, TypeOK
<1>3. QED
  BY <1>1, <1>2

\* Steps of others: the state manager's heads and the files stay as they are.
LEMMA ReplicationFrame ==
  ASSUME LogInv, LogInv', [Next]_vars, ReplicationInv,
         UNCHANGED <<sthFile, smpc, nextTH, secTH>>, startupFile' # "local-tree"
  PROVE  ReplicationInv'
<1>1. /\ stree \in TreeHead /\ stree' \in TreeHead /\ secTH \in TreeHead /\ nextTH \in TreeHead
      /\ Committed \in TreeHead /\ Committed' = Committed
  BY EmptyHead DEF LogInv, TypeOK, Committed
<1>2. \A th \in TreeHead : IsPrefix(th, stree) => IsPrefix(th, stree')
  BY <1>1, SecondaryGrows, PrefixTrans
<1>3. QED
  BY <1>1, <1>2 DEF ReplicationInv, Replicated

\* The loop goes on with the current head, or with one the secondary has.
LEMMA ReplicationRotate ==
  ASSUME LogInv, ReplicationInv, NEW th, RotateTo(th), UNCHANGED <<dbVars, fileVars>>,
         HasSecondary => IsPrefix(th, stree)
  PROVE  ReplicationInv'
BY DEF ReplicationInv, Replicated, RotateTo, Committed, dbVars, fileVars

\* Steps of the state manager keep to heads the secondary has.
LEMMA ReplicationStateManager ==
  ASSUME StrayHeads = {}, LogInv, LogInv', ReplicationInv, SmStep \/ ReplicatedTreeHeadFails \/ SignFails \/ Exit
  PROVE  ReplicationInv'
<1>1. ASSUME smpc \in {"primary", "secondary", "check"}
      PROVE  HasSecondary => IsPrefix(currentTH, stree)
  BY <1>1, CurrentIsCommitted DEF ReplicationInv, Replicated
<1>2. CASE GetPrimaryTreeHead
  <2>1. UNCHANGED <<dbVars, fileVars>> /\ smpc = "primary"
    BY <1>2 DEF GetPrimaryTreeHead
  <2>2. CASE RotateTo(currentTH)
    BY <1>1, <2>1, <2>2, ReplicationRotate
  <2>3. CASE RotateTo(ptree) /\ (Len(ptree) = Len(currentTH) \/ ~HasSecondary)
    <3>1. Len(ptree) = Len(currentTH) => ptree = currentTH
      <4>1. IsPrefix(currentTH, ptree) /\ currentTH \in TreeHead /\ ptree \in TreeHead
        BY <2>1, CurrentIsCommitted DEF LogInv, TypeOK
      <4>2. QED
        BY <4>1, PrefixEqual DEF TreeHead
    <3>2. QED
      BY <1>1, <2>1, <2>3, <3>1, ReplicationRotate
  <2>4. CASE primaryTH' = ptree /\ smpc' = "secondary" /\ UNCHANGED <<currentTH, secTH, nextTH>>
    BY <2>1, <2>4 DEF ReplicationInv, Replicated, Committed, dbVars, fileVars
  <2>5. QED
    BY <1>2, <2>2, <2>3, <2>4 DEF GetPrimaryTreeHead
<1>3. CASE GetSecondaryTreeHead
  <2>1. UNCHANGED <<dbVars, fileVars>> /\ smpc = "secondary"
    BY <1>3 DEF GetSecondaryTreeHead
  <2>2. CASE RotateTo(currentTH)
    BY <1>1, <2>1, <2>2, ReplicationRotate
  <2>3. CASE secTH' = stree /\ smpc' = "check"
    BY <2>1, <2>3, PrefixRefl DEF LogInv, TypeOK, ReplicationInv, Replicated, Committed, dbVars, fileVars
  <2>4. QED
    BY <1>3, <2>2, <2>3 DEF GetSecondaryTreeHead
<1>4. CASE CheckConsistency
  <2>1. UNCHANGED <<dbVars, fileVars>> /\ smpc = "check" /\ (RotateTo(secTH) \/ RotateTo(currentTH))
    BY <1>4 DEF CheckConsistency
  <2>2. IsPrefix(secTH, stree)
    BY <2>1 DEF ReplicationInv
  <2>3. QED
    BY <1>1, <2>1, <2>2, ReplicationRotate
<1>5. CASE ReplicatedTreeHeadFails
  BY <1>1, <1>5, ReplicationRotate DEF ReplicatedTreeHeadFails
<1>6. CASE SignAndStore
  BY <1>6, NoFileAssumption DEF LogInv, TypeOK, ReplicationInv, Replicated, Committed, SignAndStore, Store, dbVars
<1>7. CASE CreateCommits
  BY <1>7, PrefixRefl DEF LogInv, TypeOK, StartInv, ReplicationInv, Replicated, Committed, CreateCommits,
     CommitIfNotExists, dbVars
<1>8. CASE StartSaved \/ StartEmpty \/ StartLocalTree
  BY <1>8 DEF ReplicationInv, Replicated, Committed, StartSaved, StartEmpty, StartLocalTree, StartupMode,
     dbVars, fileVars
<1>9. CASE CreateRemovesStartup \/ Install \/ RunIteration \/ CommitSigned \/ PublishCosigned \/ SignFails \/ Exit
  BY <1>9 DEF ReplicationInv, Replicated, Committed, CreateRemovesStartup, RemoveStartup, Install,
     RunIteration, CommitSigned, PublishCosigned, SignFails, Exit, dbVars, fileVars
<1>10. QED
  BY <1>2, <1>3, <1>4, <1>5, <1>6, <1>7, <1>8, <1>9 DEF SmStep

\* The empty log has nothing to replicate.
LEMMA InitReplicationInv == Init => ReplicationInv
<1>1. << >> \in TreeHead
  BY EmptyHead
<1>2. QED
  BY <1>1, PrefixRefl DEF Init, DbInit, FileInit, SmInit, ReplicationInv, Replicated, Committed

\* Every step keeps to heads the secondary has.
LEMMA NextReplicationInv ==
  ASSUME StrayHeads = {}, "local-tree" \notin StartupModes,
         LogInv, LogInv', ReplicationInv, [Next]_vars
  PROVE  ReplicationInv'
<1>1. CASE StateManagerStep
  BY <1>1, ReplicationStateManager DEF StateManagerStep
<1>2. CASE OperatorStep
  BY <1>2, ReplicationFrame, StartupModesAssumption DEF OperatorStep, MkTree, RemovePartialStartup, smVars
<1>3. CASE ClientStep \/ AddLeafStep
  BY <1>3, ReplicationFrame DEF ClientStep, AddLeafStep, AddLeafStart, AddLeafQueue, AddLeafProve,
     fileVars, smVars, ReplicationInv
<1>4. CASE SecondaryStep \/ BackendStep
  BY <1>4, ReplicationFrame DEF SecondaryStep, BackendStep, fileVars, smVars, ReplicationInv
<1>5. CASE Fault
  BY <1>5, ReplicationFrame, ReplicationStateManager DEF Fault, PrimaryExits, AddLeafFails,
     MkTreeInterrupted, StartupByHand, fileVars, smVars, ReplicationInv
<1>6. CASE UNCHANGED vars
  BY <1>6, ReplicationFrame DEF vars, fileVars, smVars, ReplicationInv
<1>7. QED
  BY <1>1, <1>2, <1>3, <1>4, <1>5, <1>6 DEF Next, Step

\* At each point of the program the head that is about to be signed is one
\* the secondary has: in a log that was started empty, with a secondary that
\* answers with its own tree head.
THEOREM ReplicationInvariant ==
  ASSUME StrayHeads = {}, "local-tree" \notin StartupModes
  PROVE  Spec => []ReplicationInv
<1>1. LogInv /\ LogInv' /\ ReplicationInv /\ [Next]_vars => ReplicationInv'
  BY NextReplicationInv
<1>2. QED
  BY <1>1, InitReplicationInv, LogInvariant, PTL DEF Spec

\* In such a log no head was ever signed that the secondary does not hold.
THEOREM SignedHeadsReplicated ==
  ASSUME StrayHeads = {}, "local-tree" \notin StartupModes
  PROVE  Spec => []Replicated
<1>1. ReplicationInv => Replicated
  BY DEF ReplicationInv
<1>2. Spec => []ReplicationInv
  BY ReplicationInvariant
<1>3. QED
  BY <1>1, <1>2, PTL

\* Under the same conditions, a leaf that add-leaf has confirmed is in the
\* secondary's tree and outlives the primary.
THEOREM AckedLeavesReplicated ==
  ASSUME StrayHeads = {}, "local-tree" \notin StartupModes
  PROVE  Spec => []AckedReplicated
<1>1. LogInv /\ Replicated => AckedReplicated
  <2>1. SUFFICES ASSUME LogInv, Replicated, HasSecondary, NEW l \in acked
                 PROVE  IncludedAt(stree, Len(stree), l)
    BY DEF AckedReplicated
  <2>2. /\ l \in Leaf /\ stree \in TreeHead /\ Committed \in TreeHead /\ Len(Committed) \in Nat
        /\ IsPrefix(Committed, stree) /\ IncludedAt(Committed, Len(Committed), l)
    BY <2>1, CommittedType DEF LogInv, TypeOK, AddLeafInv, Replicated, TreeHead
  <2>3. QED
    BY <2>2, IncludedPrefix
<1>2. Spec => []Replicated
  BY SignedHeadsReplicated
<1>3. QED
  BY <1>1, <1>2, LogInvariant, PTL
=============================================================================
