CONSTANTS
  Parts = {a, b}
  MaxNames = 3
SPECIFICATION Spec
SYMMETRY Symmetry
INVARIANTS
  TypeOK
  SourceSafe
  NoDebris
  PublishedWhole
  EndsAsTold
PROPERTY
  NoOverwrite
