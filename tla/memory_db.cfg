CONSTANTS
  l1 = l1
  l2 = l2
  c1 = c1
  c2 = c2
  c3 = c3
  Leaf = {l1, l2}
  Caller = {c1, c2, c3}
  NoCaller = NoCaller
  MaxIndex = 2
SPECIFICATION Spec
SYMMETRY MCSymmetry
INVARIANT ReadsMatchTree
INVARIANT SequencedIsIncluded
PROPERTY MemoryIsLog
