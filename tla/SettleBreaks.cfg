SPECIFICATION SettleSpec
CONSTANTS
  p1 = p1
  p2 = p2
  p3 = p3
  q1 = q1
  q2 = q2
  q3 = q3
  z1 = z1
  z2 = z2
  Par <- MCPar
  Pos <- MCPos
  Zeta <- OneZeta
  Value <- MCValue
  NonFinite = NonFinite
  Modes <- AllOfThem
  Rounds = 3
  MaxCand = 4
INVARIANTS SettleTypeOK ReturnedFitIsTheDesigns MovedIsTheVerdict
CHECK_DEADLOCK FALSE
