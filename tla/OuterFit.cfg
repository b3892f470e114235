SPECIFICATION Spec
CONSTANTS
  Hyper <- MCHyper
  Start = "near"
  Beta = {1, 2}
  Zeta = {1, 2}
  Terms <- OneTerms
  Inner <- MCInner
  NonFinite = NonFinite
  NoPoint = NoPoint
  Limit = 1
  MaxEvals = 5
INVARIANTS TypeOK TrialsAreReproducible IncumbentIsOneReading BarrierIsAbove
PROPERTIES WhatIsNotTakenLeavesNoTrace
CHECK_DEADLOCK FALSE
