CONSTANTS
  Items = {x, y}
  Folders = {A, B}
  Slots = {s1}
  MaxHistory = 2
SPECIFICATION Spec
SYMMETRY Symmetry
INVARIANTS
  TypeOK
  HistoryReplays
  EmptiedForgotten
  HistoryBounded
