------------------------------ MODULE Failover ------------------------------
(***************************************************************************)
(* Promotion of the secondary (doc/failover.md) while the old primary may  *)
(* be dead, alive, in the middle of a round, or starting again.  The old   *)
(* log is module SigsumLog.  The operator shuts the secondary down; the    *)
(* other steps may come in any order, and what the servers do not allow    *)
(* fails: each checks the type of its Trillian tree when it starts.        *)
(*                                                                         *)
(* The promoted node runs the same program as the old primary.  Its start  *)
(* is modelled step by step; from then on it is an append-only log over    *)
(* its own tree, which is what SigsumLogProofs shows of the program.       *)
(***************************************************************************)
EXTENDS SigsumLog

ASSUME FailoverAssumption ==
  /\ HasSecondary
  /\ StrayHeads = {}
  /\ "local-tree" \notin StartupModes

VARIABLES server,       \* what runs on the node: "secondary", "none", or the
                        \* primary, in "install" or "primary"
          treeType,     \* type of the node's Trillian tree
          newTree,      \* the tree from the conversion on
          newStartup,   \* the node's startup file: "none" or "local-tree"
          newSth,       \* its sth file
          newPublished, \* the head its clients get, or got last
          newAcked      \* leaves it has confirmed

newVars == <<newTree, newStartup, newSth, newPublished, newAcked>>

allVars == <<vars, server, treeType, newVars>>

FailoverInit ==
  /\ Init
  /\ server = "secondary"
  /\ treeType = "PREORDERED_LOG"
  /\ newTree = << >>
  /\ newStartup = "none"
  /\ newSth = NoFile
  /\ newPublished = NoFile
  /\ newAcked = {}

\* The old log goes on.  A secondary that is not running neither copies nor
\* answers, and its tree is integrated only as long as it is preordered.
OldLogStep ==
  /\ Next
  /\ server # "secondary" => /\ UNCHANGED <<sstored, secVars>>
                             /\ ~(smpc = "secondary" /\ smpc' = "check")
  /\ treeType = "LOG" => UNCHANGED stree
  /\ UNCHANGED <<server, treeType, newVars>>

\* The secondary is shut down or dies, with whatever it was doing.
SecondaryStops ==
  /\ server = "secondary"
  /\ server' = "none"
  /\ \/ (AddSequencedLeavesFails \/ FetchFails) /\ UNCHANGED <<fileVars, smVars, addVars>>
     \/ fpc = "idle" /\ UNCHANGED vars
  /\ UNCHANGED <<treeType, newVars>>

\* Mutant: a secondary starts on whatever tree it finds.
SecondaryStartsUnchecked ==
  /\ server = "none"
  /\ server' = "secondary"
  /\ UNCHANGED <<vars, treeType, newVars>>

\* DialTrillian of the secondary insists on a preordered tree.
SecondaryStarts ==
  /\ server = "none"
  /\ treeType = "PREORDERED_LOG"
  /\ server' = "secondary"
  /\ UNCHANGED <<vars, treeType, newVars>>

\* updatetree turns the tree of a node without server into one of type LOG.
ConvertTree ==
  /\ server = "none"
  /\ treeType = "PREORDERED_LOG"
  /\ treeType' = "LOG"
  /\ newTree' = stree
  /\ UNCHANGED <<vars, server, newStartup, newSth, newPublished, newAcked>>

\* The startup file, which the operator may write at any time.
WriteStartupFile ==
  /\ newStartup = "none"
  /\ newSth = NoFile
  /\ newStartup' = "local-tree"
  /\ UNCHANGED <<vars, server, treeType, newTree, newSth, newPublished, newAcked>>

\* Mutant: a primary starts on whatever tree it finds.
PromotedCreateUnchecked ==
  /\ server = "none"
  /\ newStartup = "local-tree"
  /\ newStartup' = "none"
  /\ newSth' = newTree
  /\ server' = "install"
  /\ UNCHANGED <<vars, treeType, newTree, newPublished, newAcked>>

\* The primary server starts: DialTrillian insists on a tree of type LOG, and
\* NewStateManagerSingle in mode local-tree creates the sth file.
PromotedCreate ==
  /\ server = "none"
  /\ treeType = "LOG"
  /\ newStartup = "local-tree"
  /\ newStartup' = "none"
  /\ newSth' = newTree
  /\ server' = "install"
  /\ UNCHANGED <<vars, treeType, newTree, newPublished, newAcked>>

\* It dies between the removal of the startup file and the creation of the
\* sth file.
PromotedCreateCut ==
  /\ server = "none"
  /\ treeType = "LOG"
  /\ newStartup = "local-tree"
  /\ newStartup' = "none"
  /\ UNCHANGED <<vars, server, treeType, newTree, newSth, newPublished, newAcked>>

\* A later start finds the file.
PromotedStartSaved ==
  /\ server = "none"
  /\ treeType = "LOG"
  /\ newStartup = "none"
  /\ newSth # NoFile
  /\ server' = "install"
  /\ UNCHANGED <<vars, treeType, newVars>>

PromotedInstall ==
  /\ server = "install"
  /\ server' = "primary"
  /\ newPublished' = newSth
  /\ UNCHANGED <<vars, treeType, newTree, newStartup, newSth, newAcked>>

PromotedExits ==
  /\ server \in {"install", "primary"}
  /\ server' = "none"
  /\ UNCHANGED <<vars, treeType, newVars>>

\* Its clients' leaves are sequenced, in an order of its own.
PromotedSequence ==
  /\ server = "primary"
  /\ \E l \in Leaf : ~IncludedAt(newTree, Len(newTree), l) /\ newTree' = Append(newTree, l)
  /\ UNCHANGED <<vars, server, treeType, newStartup, newSth, newPublished, newAcked>>

\* A round of Run signs and stores what the new secondary has by then.
PromotedSign ==
  /\ server = "primary"
  /\ \E n \in Len(newSth)..Len(newTree) : newSth' = TreeAt(newTree, n)
  /\ UNCHANGED <<vars, server, treeType, newTree, newStartup, newPublished, newAcked>>

PromotedPublish ==
  /\ server = "primary"
  /\ newPublished' = newSth
  /\ UNCHANGED <<vars, server, treeType, newTree, newStartup, newSth, newAcked>>

PromotedAck ==
  /\ server = "primary"
  /\ \E l \in Leaf : IncludedAt(newSth, Len(newSth), l) /\ newAcked' = newAcked \cup {l}
  /\ UNCHANGED <<vars, server, treeType, newTree, newStartup, newSth, newPublished>>

FailoverNext ==
  \/ OldLogStep
  \/ SecondaryStops
  \/ SecondaryStarts
  \/ ConvertTree
  \/ WriteStartupFile
  \/ PromotedCreate
  \/ PromotedCreateCut
  \/ PromotedStartSaved
  \/ PromotedInstall
  \/ PromotedExits
  \/ PromotedSequence
  \/ PromotedSign
  \/ PromotedPublish
  \/ PromotedAck

FailoverSpec == FailoverInit /\ [][FailoverNext]_allVars

-----------------------------------------------------------------------------
\* The values of the new node's variables.
FailoverTypeOK ==
  /\ server \in {"secondary", "none", "install", "primary"}
  /\ treeType \in {"PREORDERED_LOG", "LOG"}
  /\ newTree \in TreeHead
  /\ newStartup \in {"none", "local-tree"}
  /\ newSth \in TreeHead \cup {NoFile}
  /\ newPublished \in TreeHead \cup {NoFile}
  /\ newAcked \in SUBSET Leaf

\* Two nodes now sign with one key.  Whatever the old primary still signs,
\* finishing a round or after a restart, the new node's log contains it: no
\* two signed heads contradict each other.
NoSplitView == newSth # NoFile => IsPrefix(Committed, newSth)

\* Every leaf the old primary has confirmed, or confirms from now on, is in
\* the log of the node that took over.
AckedSurvive == newSth # NoFile => \A l \in acked : IncludedAt(newSth, Len(newSth), l)

\* What the two nodes are committed to and have published, taken together:
\* the new node's word counts from the moment it has given one.
AllCommitted == IF newSth = NoFile THEN Committed ELSE newSth
AllPublished == IF newPublished = NoFile THEN cosignedTreeHead ELSE newPublished

Whole == INSTANCE AppendOnlyLog WITH committed <- AllCommitted,
                                     published <- AllPublished,
                                     acked     <- acked \cup newAcked

\* Old and new node together are one append-only log: doc/architecture.md
\* has failover "without losing data or violating the append-only property".
FailoverIsLog == Whole!LogSpec

\* The inductive invariant: from the conversion on the replicated tree stays
\* as it is, between what the old primary signs and what the new one does.
FailoverInv ==
  /\ LogInv
  /\ ReplicationInv
  /\ FailoverTypeOK
  /\ treeType = "LOG" => server # "secondary" /\ IsPrefix(stree, newTree)
  /\ server \in {"install", "primary"} => newSth # NoFile
  /\ newSth = NoFile => newPublished = NoFile /\ newAcked = {}
  /\ newSth # NoFile => /\ treeType = "LOG"
                        /\ newStartup = "none"
                        /\ IsPrefix(stree, newSth)
                        /\ IsPrefix(newSth, newTree)
                        /\ \A l \in newAcked : IncludedAt(newSth, Len(newSth), l)
  /\ newPublished # NoFile => IsPrefix(newPublished, newSth)
=============================================================================
