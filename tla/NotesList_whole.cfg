SPECIFICATION ListSpec
CONSTANTS
  a = a
  Notes <- TwoNotes
  Instants <- OneInstant
  Texts <- OneText
  Slice = 1
  MaxUnlocks = 2
  Faults <- AnnounceFault
  Gone = Gone
  NoCursor = NoCursor
  Uncounted = Uncounted
  MaxWrites = 1
  RegistryFails = TRUE
  Nothing = Nothing
CHECK_DEADLOCK FALSE
INVARIANTS
  ListTypeOK
  QuietMeansWhole
PROPERTIES
  NeverPartAgain
