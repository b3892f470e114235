SPECIFICATION Spec
CONSTANTS
  Problems <- MCProblems
  Starts <- MCStarts
  MaxSweeps = 6
  MaxTrips = 3
  Tol = 1
  CovWidth = 3
  CovRatio = 1
  Gamma = 3
  Halvings = {1, 2}
  None = None
INVARIANTS TypeOK CacheIsTheGradient AnswerIsOfEveryColumn
PROPERTIES FitEnds
