CONSTANTS
  l1 = l1
  l2 = l2
  l3 = l3
  Leaf = {l1, l2, l3}
  InitialTrees <- MCPromotedTrees
  MaxRange = 1
  LeavesBatchSize = 2
  StrayHeads <- MCStrayHeads
  NoFile = NoFile
  StartupModes = {"empty", "local-tree"}
  HasSecondary = TRUE
  MaxInFlight = 2
SPECIFICATION Spec
SYMMETRY MCSymmetry
INVARIANT LogInv
INVARIANT PublishedServable
INVARIANT NoTruncation
PROPERTY ImplementsLog
