SPECIFICATION Spec
CONSTANTS
  Calls <- MCCalls
  Envs = {nearest, upward}
  MaxThreads = 3
  LeverageGate = 2
  QrGate = 4
  NoCall = NoCall
  Nothing = Nothing
INVARIANTS TypeOK NoSharedEntry EntriesAreTheirSums
PROPERTIES SameAtAnyCount CallsReturn
