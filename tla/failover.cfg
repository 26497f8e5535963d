CONSTANTS
  l1 = l1
  l2 = l2
  l3 = l3
  Leaf = {l1, l2}
  InitialTrees <- MCEmptyTrees
  MaxRange = 1
  LeavesBatchSize = 2
  StrayHeads <- MCNoHeads
  NoFile = NoFile
  StartupModes = {"empty"}
  HasSecondary = TRUE
  MaxInFlight = 2
SPECIFICATION FailoverSpec
SYMMETRY MCSymmetry
INVARIANT FailoverInv
INVARIANT ReplicationInv
INVARIANT Replicated
INVARIANT AckedReplicated
INVARIANT NoSplitView
INVARIANT AckedSurvive
PROPERTY FailoverIsLog
