CONSTANTS
  l1 = l1
  l2 = l2
  l3 = l3
  Leaf = {l1, l2}
  InitialTrees <- MCEmptyTrees
  MaxRange = 1
  LeavesBatchSize = 2
  StrayHeads <- MCNoHeads
  NoFile = NoFile
  StartupModes = {"empty"}
  HasSecondary = FALSE
  MaxInFlight = 1
  MaxIndex = 2
  UnknownLeaf = UnknownLeaf
SPECIFICATION ReadSpec
SYMMETRY MCSymmetry
INVARIANT ReadsAgree
INVARIANT NothingUnpublished
INVARIANT ReadInv
