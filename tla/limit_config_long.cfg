CONSTANTS
  Lines <- MCLongLines
  MaxLines = 2
  MaxLimit = 2
  SuffixLines <- MCSuffixLines
  MaxSuffixLines = 3
  Domains <- MCDomains
  Normalize <- MCNormalize
  TestDomain = "test"
  AllowTestDomain = FALSE
SPECIFICATION Spec
INVARIANT OrderDoesntMatter
CHECK_DEADLOCK FALSE
