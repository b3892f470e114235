SPECIFICATION WorkingSpec
CONSTANTS
  W <- MCW
  NotFinite = NotFinite
  NearTol = 1
  Budget = 5
  StallLimit = 3
  Others = TRUE
  MayRaise = TRUE
INVARIANTS WorkingTypeOK ExitIsEarned ValueIsTheModels
CHECK_DEADLOCK FALSE
