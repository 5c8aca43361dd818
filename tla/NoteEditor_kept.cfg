SPECIFICATION LiveSpec
CONSTANTS
  x = x
  y = y
  Blank = Blank
  Texts <- OneText
  Typed <- OneText
  Pretty <- Kept
  FormatOnSave = TRUE
  Failures <- CreatesAndReads
  MaxSessions = 2
  MaxBusy = 2
  MaxFiles = 1
CHECK_DEADLOCK FALSE
INVARIANTS
  TypeOK
  CreatedOnce
  SettlesOnWhatWasLeft
  ReadIsCurrent
PROPERTY
  WindowFollows
