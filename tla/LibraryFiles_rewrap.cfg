SPECIFICATION Spec
CONSTANTS
  i1 = i1
  m1 = m1
  m2 = m2
  p1 = p1
  p2 = p2
  Items <- OneItem
  Masters <- TwoMasters
  Phrases <- TwoPhrases
  NoMaster = NoMaster
  NoKey = NoKey
  Torn = Torn
  Keep = 1
  MaxCopies = 2
  MaxAsides = 1
  Crashes <- NoSteps
  Faults <- NoSteps
  Losses = FALSE
SYMMETRY Symmetry
CHECK_DEADLOCK FALSE
INVARIANT
  OpenableCopiesOpen
