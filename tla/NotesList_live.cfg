SPECIFICATION LiveSpec
CONSTANTS
  a = a
  Notes <- TwoNotes
  Instants <- OneInstant
  Texts <- OneText
  Slice = 1
  MaxUnlocks = 1
  Faults <- NoFaults
  Gone = Gone
  NoCursor = NoCursor
  Uncounted = Uncounted
  MaxWrites = 1
  RegistryFails = FALSE
  Nothing = Nothing
CHECK_DEADLOCK FALSE
INVARIANTS
  GateFollowsTheEngine
PROPERTIES
  OpenedComesWhole
