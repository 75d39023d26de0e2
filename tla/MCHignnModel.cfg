\* Two ranks, three leaves of two particles, blocks of three.
SPECIFICATION Spec
CONSTANTS
  MPISize = 2
  N = 3
  LeafSize = 2
  BlockSize = 3
  Programs <- SmallPrograms
INVARIANTS
  TypeOK
  AnswersRight
PROPERTIES
  CallsReturn
