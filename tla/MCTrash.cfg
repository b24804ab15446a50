CONSTANTS
  Procs = {q1, q2}
  Paths = {p1, p2}
  Items = {i1, i2}
  Base = n
  Uuids = {u}
  None = None
SPECIFICATION Spec
SYMMETRY Symmetry
INVARIANTS
  TypeOK
  InfoNamesOrigin
  NothingLost
  TidyAtRest
