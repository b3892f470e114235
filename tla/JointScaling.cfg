SPECIFICATION Spec
CONSTANTS
  Prime = 13
  K = 2
  Families <- MCFamilies
  MaxOrder = 5
  NoFamily = NoFamily
INVARIANTS TypeOK ScalingIsThePower DriveIsTheDerivative
