SPECIFICATION ListSpec
CONSTANTS
  a = a
  Notes <- OneNote
  Instants <- OneInstant
  Texts <- OneText
  Slice = 1
  MaxUnlocks = 2
  Faults <- AllFaults
  Gone = Gone
  NoCursor = NoCursor
  Uncounted = Uncounted
  MaxWrites = 1
  RegistryFails = TRUE
  Nothing = Nothing
CHECK_DEADLOCK FALSE
INVARIANTS
  QuietIsAnswered
  ShownIsOfTheOpenLibrary
