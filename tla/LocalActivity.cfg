SPECIFICATION FairSpec
CONSTANTS
  Cadence = 1
  MaxGeneration = 3
  MaxAttempts = 2
  MaxRuntime = 1
  NoCheckpoint = NoCheckpoint
  NoTime = NoTime
  NoCursor = NoCursor
  Foreign = Foreign
  MaxTime = 3
  MaxFaults = 2
  MaxDisturbances = 1
INVARIANTS
  SilentForCause
  AnchorTruthful
  StatusTruthful
PROPERTIES
  ImplementsPromise
  DriftEndsObservation
  GenerationsSettle
CHECK_DEADLOCK FALSE
