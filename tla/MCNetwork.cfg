CONSTANTS
  hci0 = hci0
  headset = headset
  p1 = p1
  cafe = cafe
  home = home
  c1 = c1
  s1 = s1
  s2 = s2
  s3 = s3
  l1 = l1
  j1 = j1
  h1 = h1
  g1 = g1
  g2 = g2
  r1 = r1
  r2 = r2
  speakers = speakers
SPECIFICATION Spec
CHECK_DEADLOCK FALSE
INVARIANTS
  TypeOK
  Mirrors
  Answered
  AsAsked
  BusyWhile
  SavesWhole
