CONSTANTS
  NumSources = 2
  DestroyInStart = TRUE
SPECIFICATION Spec
INVARIANT NoUseAfterDestroy
