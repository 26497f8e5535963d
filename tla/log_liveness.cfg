CONSTANTS
  l1 = l1
  l2 = l2
  l3 = l3
  Leaf = {l1, l2}
  InitialTrees <- MCEmptyTrees
  MaxRange = 1
  LeavesBatchSize = 2
  StrayHeads <- MCNoHeads
  NoFile = NoFile
  StartupModes = {"empty", "local-tree"}
  HasSecondary = TRUE
  MaxInFlight = 1
SPECIFICATION FairSpec

PROPERTY LeafPublished
PROPERTY RetriedLeafAcked
