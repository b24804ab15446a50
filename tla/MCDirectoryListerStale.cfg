CONSTANTS
  D = D
  trash = trash
  Folders = {D, trash}
  Top = Top
  TrashRoots = {trash}
  None = None
  MaxChanges <- ChangesDef
  MaxCalls = 1
SPECIFICATION FairSpec
PROPERTY KeepsUpToDate
