CONSTANTS
  D = D
  trash = trash
  Folders = {D, trash}
  Top = Top
  TrashRoots = {trash}
  None = None
  MaxChanges <- ChangesDef
  MaxCalls = 2
SPECIFICATION FairSpec
INVARIANTS
  TypeOK
  Reentrant
PROPERTY
  FreshIfWatched
