------------------------------ MODULE SthFile ------------------------------
(***************************************************************************)
(* The two files by which a primary survives a restart: the signed tree    *)
(* head file (sth file) and the startup file, with the tool sigsum-mktree  *)
(* that writes the latter.                                                 *)
(***************************************************************************)
EXTENDS MerkleTree

CONSTANTS NoFile,        \* the sth file does not exist
          StartupModes   \* modes the operator passes to sigsum-mktree

ASSUME NoFileAssumption == NoFile \notin TreeHead
ASSUME StartupModesAssumption == StartupModes \subseteq {"empty", "local-tree"}

VARIABLES sthFile,       \* the head in the sth file, or NoFile
          startupFile    \* mode in the startup file, "none" or "partial"

fileVars == <<sthFile, startupFile>>

FileInit == sthFile = NoFile /\ startupFile = "none"

\* sigsum-mktree --mode: refuses when either file exists.  The file is not
\* written atomically, an interrupted write leaves a file without a mode.
MkTree(mode) ==
  /\ sthFile = NoFile
  /\ startupFile = "none"
  /\ startupFile' = mode
  /\ UNCHANGED sthFile

MkTreeInterrupted ==
  /\ sthFile = NoFile
  /\ startupFile = "none"
  /\ startupFile' = "partial"
  /\ UNCHANGED sthFile

\* The operator writes the startup file by hand, as doc/failover.md says,
\* and does not look whether there is a sth file.
StartupByHand(mode) ==
  /\ startupFile = "none"
  /\ startupFile' = mode
  /\ UNCHANGED sthFile

\* Startup() fails on a partial file until the operator deletes it.
RemovePartialStartup ==
  /\ startupFile = "partial"
  /\ startupFile' = "none"
  /\ UNCHANGED sthFile

\* Startup(): without a startup file the saved head is used.
StartupMode == IF startupFile = "none" THEN "saved" ELSE startupFile

\* First half of Create: the startup file is deleted before ...
RemoveStartup == startupFile' = "none" /\ UNCHANGED sthFile

\* Mutant: Commit instead of CommitIfNotExists.
CommitAlways(th) == sthFile' = th /\ UNCHANGED startupFile

\* ... the second half creates the sth file, if there is none.
CommitIfNotExists(th) ==
  /\ sthFile' = IF sthFile = NoFile THEN th ELSE sthFile
  /\ UNCHANGED startupFile

\* Store: atomically replaces the file.
Store(th) == sthFile' = th /\ UNCHANGED startupFile
=============================================================================
