SPECIFICATION Spec
CONSTANTS
  z1 = z1
  z2 = z2
  t1 = t1
  t2 = t2
  Zetas <- MCZetas
  Positions <- MCPositions
  ZStart = z1
  Value <- MCValue
  Criterion <- MCCriterion
  Tie = 1
  Models <- MCModels
  NoCrit = NoCrit
  Unread = Unread
  NoHeld = NoHeld
  NoFit = NoFit
INVARIANTS TypeOK ReturnedFitIsOne HeldWhereTheCriterionPutThem
PROPERTIES CriterionNeverLost
CHECK_DEADLOCK FALSE
