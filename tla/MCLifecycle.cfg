CONSTANTS
  c = c
  d = d
  Callers <- Two
  MaxStarts = 3
  MaxFailures = 2
  Overlap = FALSE
  Bootstrap = TRUE
SPECIFICATION FairSpec
INVARIANTS
  TypeOK
  FreedIsUnused
  FlagTellsTheTruth
  CallsMeetABridge
PROPERTIES
  StopReturns
  EngineDeathStops
CHECK_DEADLOCK FALSE
