CONSTANTS
  Callers = {a, b}
  Threads = {t, u}
  Wanted = 2
  Blocks = 2
  CreationFails = FALSE
SPECIFICATION FairSpec
INVARIANTS
  TypeOK
  NeverBehind
  StackAlive
  ListingWhole
PROPERTY
  CallsReturn
