CONSTANTS
  MinIdle <- minIdleSleep
  MaxIdle <- maxIdleSleep
  MayLose = TRUE
  MayFail = TRUE
  MaxRing = 2
SPECIFICATION EngineFairSpec
INVARIANTS
  EngineTypeOK
  NothingFreedInUse
  NothingLeftOpen
  PauseFollowsSilence
PROPERTIES
  EngineStops
  KeepsContract
CHECK_DEADLOCK FALSE
