SPECIFICATION Spec
CONSTANTS
  p1 = p1
  p2 = p2
  q1 = q1
  q2 = q2
  z1 = z1
  z2 = z2
  c1 = c1
  c2 = c2
  Par <- MCPar
  Pos <- MCPos
  Zeta <- MCZeta
  Scale <- MCScale
  Value <- MCValue
  NonFinite = NonFinite
  Stationary <- MCStationary
  Models <- MCModels
  Tol = 0
  MaxIt = 3
INVARIANTS TypeOK ValueIsOfThePoint ConvergedIsAnAnswer FinishIsAllOrNothing
CHECK_DEADLOCK FALSE
