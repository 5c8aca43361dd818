SPECIFICATION Spec
CONSTANTS
  a = a
  b = b
  Notes <- TwoNotes
  Instants <- TwoInstants
  Texts <- OneText
  Slice = 1
  MaxUnlocks = 2
  Faults <- AllFaults
  Gone = Gone
  NoCursor = NoCursor
  Uncounted = Uncounted
CHECK_DEADLOCK FALSE
INVARIANTS
  TypeOK
  NeverStale
  NothingSkipped
  NothingOutlivesItsLibrary
  PartOnlyWhileFilling
