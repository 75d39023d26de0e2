SPECIFICATION ListsSpec
CONSTANTS
  Low <- Origin
  High <- FarCorner
  Coords <- Samples
  Radii = {2, 3}
  IntMax = 127
  SizeMod = 1024
  MaxRows = 100
  MaxTargets = 2
  MaxCalls = 6
INVARIANTS
  ListsTypeOK
  EdgesExact
  ForcesExact
  StaysDefined
