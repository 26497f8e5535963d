CONSTANTS
  Lines <- MCLines
  MaxLines = 3
  MaxLimit = 2
  SuffixLines <- MCSuffixLines
  MaxSuffixLines = 3
  Domains <- MCDomains
  Normalize <- MCNormalize
  TestDomain = "test"
  AllowTestDomain = FALSE
SPECIFICATION Spec
INVARIANT OrderDoesntMatter
INVARIANT NothingTwice
INVARIANT RegisteredDomainRight
INVARIANT RefusalsRight
CHECK_DEADLOCK FALSE
