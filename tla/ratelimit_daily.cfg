CONSTANTS
  k1 = k1
  k2 = k2
  l1 = l1
  l2 = l2
  l3 = l3
  t1 = t1
  t2 = t2
  Suffixes <- MCSuffixes
  Wildcards <- MCWildcards
  AllowedKeys <- MCKeys
  ConfigDomains <- MCDomains
  AllowPublic = 1
  AllowTestDomain = FALSE
  TestDomain <- MCTestDomain
  NoDomain = NoDomain
  Requests <- MCOneSubmitter
  Leaf = {l1, l2}
  Thread = {t1}
  Period = 1
  MaxTime = 2
SPECIFICATION Spec
INVARIANT DailyLimit
