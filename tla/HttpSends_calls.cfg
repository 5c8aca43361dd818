SPECIFICATION LiveSpec
CONSTANTS
  s1 = s1
  s2 = s2
  r1 = r1
  r2 = r2
  Sends <- OneSend
  Runs <- OneRun
  MaxOpened = 2
  MaxTurns = 1
  StoreFails = FALSE
CHECK_DEADLOCK FALSE
INVARIANTS
  TypeOK
  WritesStayHome
  RunningIsExact
  AnsweredIsKept
  CancelKeepsItIn
PROPERTY
  AllEnd
