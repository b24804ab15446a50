CONSTANTS
  NumSources = 3
  DestroyInStart = FALSE
SPECIFICATION FairSpec
INVARIANTS
  TypeOK
  AnswersHonoured
  OutcomeHonest
  NoUseAfterDestroy
PROPERTIES
  KeepsPromise
  CancelEnds
  UnattendedFinishes
