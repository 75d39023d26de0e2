\* The ratio of the default mMatPoolSizeFactor (40) to the default mMaxIter (100).
CONSTANTS
  PairCount = 2
  Shapes <- TwoBlocks
  MaxWorkSize = 2
  MaxRelativeCoord = 5
  MaxIter = 5
  Factors = {2}
SPECIFICATION Spec
INVARIANT OffsetsInPool
