CONSTANTS
  Callers = {a, b}
  Threads = {t, u}
  Wanted = 2
  Blocks = 2
  CreationFails = TRUE
SPECIFICATION Spec
INVARIANT StackAlive
