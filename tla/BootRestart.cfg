SPECIFICATION Spec
CONSTANTS
  p1 = p1
  p2 = p2
  q1 = q1
  q2 = q2
  z1 = z1
  z2 = z2
  Par <- MCPar
  Pos <- MCPos
  Zeta <- MCZeta
  Value <- MCValue
  NonFinite = NonFinite
  NBoot = 6
  MayRaise = TRUE
INVARIANTS TypeOK
PROPERTIES RefinesSearch
CHECK_DEADLOCK FALSE
