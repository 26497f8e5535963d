CONSTANTS
  l1 = l1
  l2 = l2
  Leaf = {l1, l2}
  InitialTrees <- MCInitialTrees
  MaxRange = 2
  LeavesBatchSize = 2
  MaxHandlers = 1
SPECIFICATION FairSpec
INVARIANT ServerInv
INVARIANT RoundsFinish
INVARIANT RequestsFinish
INVARIANT OneSleepAfterCancel
PROPERTY CallIsAtomic
PROPERTY CallsEnd
PROPERTY Stops
CHECK_DEADLOCK FALSE
