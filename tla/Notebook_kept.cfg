SPECIFICATION Spec
CONSTANTS
  s1 = s1
  s2 = s2
  f1 = f1
  f2 = f2
  f3 = f3
  f4 = f4
  n1 = n1
  n2 = n2
  Spaces <- TwoSpaces
  Folders <- OneFolder
  Notes <- TwoNotes
  MaxDepth = 1
  None = None
  Unmade = Unmade
  Gone = Gone
SYMMETRY Symmetry
CHECK_DEADLOCK FALSE
INVARIANTS
  TypeOK
  NoFileIsLeftBehind
  UndoPutsBack
PROPERTIES
  OnlyTheTrashIsPurged
