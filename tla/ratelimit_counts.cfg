CONSTANTS
  k1 = k1
  k2 = k2
  l1 = l1
  l2 = l2
  l3 = l3
  t1 = t1
  t2 = t2
  Suffixes <- MCSuffixes
  Wildcards <- MCWildcards
  AllowedKeys <- MCKeys
  ConfigDomains <- MCDomains
  AllowPublic = 1
  AllowTestDomain = FALSE
  TestDomain <- MCTestDomain
  NoDomain = NoDomain
  Requests <- MCRequests
  Leaf = {l1}
  Thread = {t1, t2}
  Period = 1
  MaxTime = 2
SPECIFICATION Spec
SYMMETRY MCSymmetry
INVARIANT RateInv
INVARIANT CountsTrackUse
INVARIANT ScheduleNotAhead
INVARIANT ResetsExact
