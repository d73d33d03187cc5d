SPECIFICATION FirstModelSpec
CONSTANTS
  Sources = {s1, s2}
  NoSource = noSource
  Models = {m1, m2}
  NoTask = noTask
  NoTime = noTime
  Delays = {0}
  NoWake = noWake
  MinDelay = 1
  MaxAttempts = 2
  MaxTime = 1
  MaxRevision = 6
  MaxFaults = 1
INVARIANTS
  ChainOnTime
  StimuliRearmOnce
PROPERTIES
  ImplementsPromise
  CycleProgresses
CHECK_DEADLOCK FALSE
