CONSTANTS
  Items = {x}
  Folders = {A}
  Slots = {s1, s2}
  MaxHistory = 1
SPECIFICATION Spec
SYMMETRY Symmetry
INVARIANT FreshForks
