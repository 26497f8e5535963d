CONSTANTS
  w1 = w1
  w2 = w2
  w3 = w3
  Witnesses = {w1, w2, w3}
  MaxSize = 2
SPECIFICATION FairSpec
INVARIANT WitnessInv
INVARIANT CosignaturesExact
INVARIANT NoStragglers
PROPERTY CosignedSizesGrow
PROPERTY RoundEnds
PROPERTY WitnessesCosign
