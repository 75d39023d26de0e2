\* Six pairs, some larger than the pool of 8, and an int too narrow to count
\* five of the largest; a batch takes at most five.
CONSTANTS
  PairCount = 6
  Lists <- MixedLists
  MaxWorkSize = 5
  MaxRelativeCoord = 8
  IntMax = 40
SPECIFICATION Spec
INVARIANTS TypeOK AddedOnce BatchSized
PROPERTIES Implements Completes
