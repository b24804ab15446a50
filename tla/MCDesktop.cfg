CONSTANTS
  u1 = u1
  u2 = u2
  sda = sda
  sdb = sdb
  stick = stick
  none = none
  r1 = r1
  r2 = r2
SPECIFICATION Spec
CHECK_DEADLOCK FALSE
INVARIANTS
  TypeOK
  Mirrors
  Answered
  BusyWhile
PROPERTY
  FinishedDid
