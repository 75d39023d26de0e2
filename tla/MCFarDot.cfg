\* Four far pairs in batches of at most three, at most three
\* crosses for each, and pools that are large enough or not.
CONSTANTS
  PairCount = 4
  Shapes <- MixedShapes
  MaxWorkSize = 3
  MaxRelativeCoord = 6
  MaxIter = 3
  Factors = {2, 3}
SPECIFICATION Spec
INVARIANTS TypeOK CountersAgree CrossesOwn PivotsDiffer BatchSized
PROPERTIES Implements Completes
