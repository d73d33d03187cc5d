SPECIFICATION FairSpec
CONSTANTS
  ContinueCadence = 1
  QuiescentCadence = 2
  MaxAge = 1
  MaxAttempts = 2
  MaxRuntime = 1
  MaxTotal = 2
  MaxInWindow = 1
  Window = 2
  MinInterval = 1
  NoTime = NoTime
  NoCursor = NoCursor
  NoTask = NoTask
  MaxTime = 3
  MaxFaults = 2
  MaxDisturbances = 1
INVARIANTS
  GenerationsAccounted
PROPERTIES
  ImplementsPromise
  SilentForCause
  OpportunitiesEnd
CHECK_DEADLOCK FALSE
