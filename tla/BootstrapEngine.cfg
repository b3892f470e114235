SPECIFICATION EngineSpec
CONSTANTS
  fit = fit
  copy = copy
  Keys = {fit, copy}
  Seeds <- MCSeeds
  After <- MCAfter
  Reseeded <- MCReseeded
  Outcome <- MCOutcome
  Wanted = {1, 3}
  Cores = {2}
  NoSeed = NoSeed
  NoEntry = NoEntry
  NoCall = NoCall
  NotRun = NotRun
INVARIANTS EngineTypeOK EntryIsOneRun RowsAreTheKept
PROPERTIES CallsEnd
