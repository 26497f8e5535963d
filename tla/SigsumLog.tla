----------------------------- MODULE SigsumLog -----------------------------
(***************************************************************************)
(* A whole log: primary, secondary, their backends, the operator, crashes  *)
(* and failing calls.                                                      *)
(***************************************************************************)
EXTENDS Primary, Secondary

vars == <<dbVars, fileVars, smVars, addVars, secVars>>

Init == DbInit /\ FileInit /\ SmInit /\ AddInit /\ SecInit

\* The operator runs sigsum-mktree, never during the start of the server.
OperatorStep ==
  /\ smpc = "down"
  /\ \/ \E mode \in StartupModes : MkTree(mode)
     \/ RemovePartialStartup
  /\ UNCHANGED <<dbVars, smVars, addVars, secVars>>

StateManagerStep == SmStep /\ UNCHANGED <<addVars, secVars>>

ClientStep == \E l \in Leaf : AddLeafStart(l) /\ UNCHANGED secVars

AddLeafStep == \E r \in adds : (AddLeafQueue(r) \/ AddLeafProve(r)) /\ UNCHANGED secVars

SecondaryStep ==
  /\ Tick \/ FetchTreeHead \/ FetchLeaves(Serving) \/ AddSequencedLeaves
  /\ UNCHANGED <<fileVars, smVars, addVars>>

BackendStep == (Sequence \/ Integrate) /\ UNCHANGED <<fileVars, smVars, addVars, secVars>>

\* What can go wrong: a process dies, a call fails, a write is cut short, a
\* startup file appears that should not be there.
Fault ==
  \/ PrimaryExits /\ UNCHANGED secVars
  \/ (ReplicatedTreeHeadFails \/ SignFails) /\ UNCHANGED <<addVars, secVars>>
  \/ \E r \in adds : AddLeafFails(r) /\ UNCHANGED secVars
  \/ (AddSequencedLeavesFails \/ FetchFails) /\ UNCHANGED <<fileVars, smVars, addVars>>
  \/ /\ smpc = "down"
     /\ MkTreeInterrupted \/ \E mode \in StartupModes : StartupByHand(mode)
     /\ UNCHANGED <<dbVars, smVars, addVars, secVars>>

Step ==
  \/ OperatorStep
  \/ StateManagerStep
  \/ ClientStep
  \/ AddLeafStep
  \/ SecondaryStep
  \/ BackendStep

Next == Step \/ Fault

Spec == Init /\ [][Next]_vars

-----------------------------------------------------------------------------
\* The values of the variables: heads and trees are sequences of leaves that
\* were submitted, whatever mixture of files, answers and crashes there was.
TypeOK ==
  /\ ptree \in TreeHead
  /\ stree \in TreeHead
  /\ sstored \in TreeHead
  /\ pqueue \in SUBSET Leaf
  /\ sthFile \in TreeHead \cup {NoFile}
  /\ startupFile \in {"none", "empty", "local-tree", "partial"}
  /\ smpc \in SmPc
  /\ signedTreeHead \in TreeHead
  /\ cosignedTreeHead \in TreeHead
  /\ currentTH \in TreeHead
  /\ primaryTH \in TreeHead
  /\ secTH \in TreeHead
  /\ nextTH \in TreeHead
  /\ \A r \in adds : r \in AddCall
  /\ acked \in SUBSET Leaf
  /\ fpc \in {"idle", "head", "fetch", "add"}
  /\ fstart \in Nat
  /\ fleaves \in TreeHead

\* What the log is committed to, whoever crashes: the stored head.
Committed == IF sthFile = NoFile THEN << >> ELSE sthFile

\* The primary only signs heads that the secondary holds (ReplicatedTreeHead
\* and doc/failover.md): the head in the sth file, and with it every signed
\* head of the past, is a prefix of the secondary's integrated tree.
Replicated == HasSecondary => IsPrefix(Committed, stree)

\* A leaf confirmed by add-leaf is in the secondary's tree, so the
\* confirmation survives the loss of the primary at any moment.
AckedReplicated == HasSecondary => \A l \in acked : IncludedAt(stree, Len(stree), l)

\* The backend can serve leaves and proofs for the head clients have, also
\* for one they got before a crash.
PublishedServable == IsPrefix(cosignedTreeHead, ptree)

\* signTreeHead replaces the file before it compares sizes: the comparison
\* must never find that the new head is shorter.
NoTruncation == smpc = "commit" => Len(nextTH) >= Len(signedTreeHead)

\* Across crashes, restarts and bad answers of the secondary, the system is
\* an append-only log: committed and published heads only get longer,
\* published ones are committed, confirmed leaves are in committed trees.
Log == INSTANCE AppendOnlyLog WITH committed <- Committed,
                                   published <- cosignedTreeHead,
                                   acked <- acked

ImplementsLog == Log!LogSpec

-----------------------------------------------------------------------------
(***************************************************************************)
(* The inductive invariant of the proofs: how the trees and the heads the  *)
(* processes hold are related at each point of their programs.             *)
(***************************************************************************)
BackendInv == IsPrefix(stree, sstored) /\ IsPrefix(sstored, ptree)

FileInv ==
  /\ IsPrefix(Committed, ptree)
  /\ IsPrefix(cosignedTreeHead, Committed)

StartInv ==
  /\ smpc \in {"remove", "create"} => IsPrefix(nextTH, ptree)
  /\ smpc = "install" => sthFile # NoFile /\ nextTH = sthFile

LoopInv ==
  /\ Serving => sthFile # NoFile
  /\ smpc \in {"wait", "primary", "secondary", "check", "sign", "cosign"} => signedTreeHead = sthFile
  /\ smpc \in {"primary", "secondary", "check"} => currentTH = sthFile
  /\ smpc \in {"secondary", "check"} => IsPrefix(primaryTH, ptree)
  /\ smpc = "check" => Len(currentTH) <= Len(secTH) /\ Len(secTH) <= Len(primaryTH)
  /\ smpc = "sign" => IsPrefix(Committed, nextTH) /\ IsPrefix(nextTH, ptree)
  /\ smpc = "commit" => IsPrefix(signedTreeHead, nextTH)
  /\ smpc \in {"commit", "cosign"} => nextTH = sthFile

AddLeafInv ==
  /\ \A r \in adds : r.size <= Len(Committed)
  /\ \A l \in acked : IncludedAt(Committed, Len(Committed), l)

\* The leaves are those of the tree from index start on.
LeavesFrom(tree, start, leaves) ==
  /\ start + Len(leaves) <= Len(tree)
  /\ \A i \in 1..Len(leaves) : leaves[i] = tree[start + i]

FetchInv ==
  /\ fpc \in {"fetch", "add"} => fstart <= Len(stree)
  /\ fpc = "add" => LeavesFrom(ptree, fstart, fleaves)

\* Whatever steps are interleaved: each tree extends the one that lags behind
\* it, the file extends what was published, and the heads held by Run, by
\* add-leaf calls and by the secondary's loop fit the trees they came from.
LogInv == TypeOK /\ BackendInv /\ FileInv /\ StartInv /\ LoopInv /\ AddLeafInv /\ FetchInv

\* What is needed in addition for Replicated, when the secondary answers
\* with its own head and no log starts from a local tree.
ReplicationInv ==
  /\ Replicated
  /\ smpc \in {"remove", "create"} => nextTH = << >>
  /\ startupFile # "local-tree"
  /\ smpc = "check" => IsPrefix(secTH, stree)
  /\ smpc = "sign" => (HasSecondary => IsPrefix(nextTH, stree))
=============================================================================
