---------------------------- MODULE StateManager ----------------------------
(***************************************************************************)
(* The state manager of the primary (internal/state): how the process      *)
(* starts from its files, and the loop that every interval looks for a     *)
(* tree head replicated by the secondary, signs it, stores it, has it      *)
(* cosigned and publishes it.  One goroutine runs the loop; the variable   *)
(* smpc is its program counter, with a step for each call that reads or    *)
(* writes state shared with somebody else.                                 *)
(***************************************************************************)
EXTENDS Database, SthFile

CONSTANTS HasSecondary, \* a secondary node is configured
          StrayHeads    \* heads a secondary in a bad state may answer with

ASSUME HasSecondaryAssumption == HasSecondary \in BOOLEAN
ASSUME StrayHeadsAssumption == \A th \in StrayHeads : th \in TreeHead

VARIABLES smpc,              \* what the process does next
          signedTreeHead,    \* the signed head in memory
          cosignedTreeHead,  \* the head clients get; while the process is
                             \* down, the head they got last
          currentTH,         \* local to Run: the head at the loop's start
          primaryTH,         \* local: the primary's head
          secTH,             \* local: the secondary's head
          nextTH             \* local: the head to sign

smVars == <<smpc, signedTreeHead, cosignedTreeHead, currentTH, primaryTH, secTH, nextTH>>

SmPc == {"down", "remove", "create", "install", "wait", "primary",
         "secondary", "check", "sign", "commit", "cosign"}

\* The HTTP servers answer once the state manager exists.
Serving == smpc \notin {"down", "remove", "create", "install"}

SmInit ==
  /\ smpc = "down"
  /\ signedTreeHead = << >>
  /\ cosignedTreeHead = << >>
  /\ currentTH = << >>
  /\ primaryTH = << >>
  /\ secTH = << >>
  /\ nextTH = << >>

ForgetReplication ==
  /\ currentTH' = << >>
  /\ primaryTH' = << >>
  /\ secTH' = << >>

-----------------------------------------------------------------------------
(***************************************************************************)
(* NewStateManagerSingle.  The process exits, and may be started again,    *)
(* when the startup file has no mode or the saved file does not exist.     *)
(***************************************************************************)
StartSaved ==
  /\ smpc = "down"
  /\ StartupMode = "saved"
  /\ sthFile # NoFile
  /\ nextTH' = sthFile
  /\ smpc' = "install"
  /\ UNCHANGED <<dbVars, fileVars, signedTreeHead, cosignedTreeHead, currentTH, primaryTH, secTH>>

StartEmpty ==
  /\ smpc = "down"
  /\ StartupMode = "empty"
  /\ nextTH' = << >>
  /\ smpc' = "remove"
  /\ UNCHANGED <<dbVars, fileVars, signedTreeHead, cosignedTreeHead, currentTH, primaryTH, secTH>>

StartLocalTree ==
  /\ smpc = "down"
  /\ StartupMode = "local-tree"
  /\ nextTH' = ptree
  /\ smpc' = "remove"
  /\ UNCHANGED <<dbVars, fileVars, signedTreeHead, cosignedTreeHead, currentTH, primaryTH, secTH>>

CreateRemovesStartup ==
  /\ smpc = "remove"
  /\ RemoveStartup
  /\ smpc' = "create"
  /\ UNCHANGED <<dbVars, signedTreeHead, cosignedTreeHead, currentTH, primaryTH, secTH, nextTH>>

\* The process exits when the sth file exists.
CreateCommits ==
  /\ smpc = "create"
  /\ CommitIfNotExists(nextTH)
  /\ IF sthFile = NoFile
     THEN smpc' = "install" /\ UNCHANGED nextTH
     ELSE smpc' = "down" /\ nextTH' = << >>
  /\ UNCHANGED <<dbVars, signedTreeHead, cosignedTreeHead, currentTH, primaryTH, secTH>>

\* Mutant: nothing is published until the first rotation.
InstallUnpublished ==
  /\ smpc = "install"
  /\ signedTreeHead' = nextTH
  /\ cosignedTreeHead' = << >>
  /\ nextTH' = << >>
  /\ smpc' = "wait"
  /\ UNCHANGED <<dbVars, fileVars, currentTH, primaryTH, secTH>>

\* The state manager is returned and the servers are started.
Install ==
  /\ smpc = "install"
  /\ signedTreeHead' = nextTH
  /\ cosignedTreeHead' = nextTH
  /\ nextTH' = << >>
  /\ smpc' = "wait"
  /\ UNCHANGED <<dbVars, fileVars, currentTH, primaryTH, secTH>>

-----------------------------------------------------------------------------
\* Run: the interval is over and the next iteration reads the signed head.
RunIteration ==
  /\ smpc = "wait"
  /\ currentTH' = signedTreeHead
  /\ smpc' = "primary"
  /\ UNCHANGED <<dbVars, fileVars, signedTreeHead, cosignedTreeHead, primaryTH, secTH, nextTH>>

\* What the loop goes on with: a replicated head, or, after an error of
\* ReplicatedTreeHead, the current one, which is signed again.
RotateTo(th) ==
  /\ nextTH' = th
  /\ smpc' = "sign"
  /\ ForgetReplication

\* getPrimaryTreeHead, and the early return of ReplicatedTreeHead.
GetPrimaryTreeHead ==
  /\ smpc = "primary"
  /\ IF Len(ptree) < Len(currentTH)
     THEN RotateTo(currentTH)
     ELSE IF Len(ptree) = Len(currentTH) \/ ~HasSecondary
     THEN RotateTo(ptree)
     ELSE /\ primaryTH' = ptree
          /\ smpc' = "secondary"
          /\ UNCHANGED <<currentTH, secTH, nextTH>>
  /\ UNCHANGED <<dbVars, fileVars, signedTreeHead, cosignedTreeHead>>

\* Mutant: the secondary answers for leaves it has stored, not integrated.
GetSecondaryStored ==
  /\ smpc = "secondary"
  /\ IF Len(sstored) > Len(primaryTH) \/ Len(sstored) < Len(currentTH)
     THEN RotateTo(currentTH)
     ELSE /\ secTH' = sstored
          /\ smpc' = "check"
          /\ UNCHANGED <<currentTH, primaryTH, nextTH>>
  /\ UNCHANGED <<dbVars, fileVars, signedTreeHead, cosignedTreeHead>>

\* Mutant: no lower bound on the size of the secondary's tree.
GetSecondaryNoMinSize ==
  /\ smpc = "secondary"
  /\ \E th \in {stree} \cup StrayHeads :
       IF Len(th) > Len(primaryTH)
       THEN RotateTo(currentTH)
       ELSE /\ secTH' = th
            /\ smpc' = "check"
            /\ UNCHANGED <<currentTH, primaryTH, nextTH>>
  /\ UNCHANGED <<dbVars, fileVars, signedTreeHead, cosignedTreeHead>>

\* getSecondaryTreeHead: an answer that is ahead or behind is an error.
GetSecondaryTreeHead ==
  /\ smpc = "secondary"
  /\ \E th \in {stree} \cup StrayHeads :
       IF Len(th) > Len(primaryTH) \/ Len(th) < Len(currentTH)
       THEN RotateTo(currentTH)
       ELSE /\ secTH' = th
            /\ smpc' = "check"
            /\ UNCHANGED <<currentTH, primaryTH, nextTH>>
  /\ UNCHANGED <<dbVars, fileVars, signedTreeHead, cosignedTreeHead>>

\* Mutant: ReplicatedTreeHead returns the primary's tree head.
CheckReturnsPrimary ==
  /\ smpc = "check"
  /\ RotateTo(IF ConsistencyVerified(ptree, secTH, primaryTH) THEN primaryTH ELSE currentTH)
  /\ UNCHANGED <<dbVars, fileVars, signedTreeHead, cosignedTreeHead>>

\* Mutant: the consistency proof is not verified.
CheckSkipped ==
  /\ smpc = "check"
  /\ RotateTo(secTH)
  /\ UNCHANGED <<dbVars, fileVars, signedTreeHead, cosignedTreeHead>>

\* checkConsistency of the secondary's head with the primary's.
CheckConsistency ==
  /\ smpc = "check"
  /\ RotateTo(IF ConsistencyVerified(ptree, secTH, primaryTH) THEN secTH ELSE currentTH)
  /\ UNCHANGED <<dbVars, fileVars, signedTreeHead, cosignedTreeHead>>

\* A call of the three above fails, times out or has a bad signature.
ReplicatedTreeHeadFails ==
  /\ smpc \in {"primary", "secondary", "check"}
  /\ RotateTo(currentTH)
  /\ UNCHANGED <<dbVars, fileVars, signedTreeHead, cosignedTreeHead>>

\* signTreeHead, until storeSth has replaced the file.
SignAndStore ==
  /\ smpc = "sign"
  /\ Store(nextTH)
  /\ smpc' = "commit"
  /\ UNCHANGED <<dbVars, signedTreeHead, cosignedTreeHead, currentTH, primaryTH, secTH, nextTH>>

\* Sign or storeSth fails: nothing is replaced and rotate returns.
SignFails ==
  /\ smpc = "sign"
  /\ smpc' = "wait"
  /\ nextTH' = << >>
  /\ UNCHANGED <<dbVars, fileVars, signedTreeHead, cosignedTreeHead, currentTH, primaryTH, secTH>>

\* signTreeHead, the locked part.
CommitSigned ==
  /\ smpc = "commit"
  /\ IF Len(nextTH) < Len(signedTreeHead)
     THEN smpc' = "wait" /\ nextTH' = << >> /\ UNCHANGED signedTreeHead
     ELSE smpc' = "cosign" /\ signedTreeHead' = nextTH /\ UNCHANGED nextTH
  /\ UNCHANGED <<dbVars, fileVars, cosignedTreeHead, currentTH, primaryTH, secTH>>

\* rotate: the witnesses have answered or timed out, with whatever
\* cosignatures there are the head is published.
PublishCosigned ==
  /\ smpc = "cosign"
  /\ cosignedTreeHead' = nextTH
  /\ nextTH' = << >>
  /\ smpc' = "wait"
  /\ UNCHANGED <<dbVars, fileVars, signedTreeHead, currentTH, primaryTH, secTH>>

-----------------------------------------------------------------------------
\* The process dies, or exits with an error or on a signal.
Exit ==
  /\ smpc # "down"
  /\ smpc' = "down"
  /\ signedTreeHead' = << >>
  /\ nextTH' = << >>
  /\ ForgetReplication
  /\ UNCHANGED <<dbVars, fileVars, cosignedTreeHead>>

SmStep ==
  \/ StartSaved
  \/ StartEmpty
  \/ StartLocalTree
  \/ CreateRemovesStartup
  \/ CreateCommits
  \/ Install
  \/ RunIteration
  \/ GetPrimaryTreeHead
  \/ GetSecondaryTreeHead
  \/ CheckConsistency
  \/ SignAndStore
  \/ CommitSigned
  \/ PublishCosigned
=============================================================================
