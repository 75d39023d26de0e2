\* Three ranks with three, two and two leaves, and two slots each at most.
CONSTANTS
  MPISize = 3
  LeafCount = 7
  BlockSize = 2
  MaxRelativeCoord = 9
  LeafSizes <- MixedSizes
  Products <- RightAndWrong
SPECIFICATION PostSpec
INVARIANTS TypeOK NoBlockTwice AllProcessed PoolSuffices ReportTruthful
PROPERTIES Implements Returns
