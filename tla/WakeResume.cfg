SPECIFICATION FairSpec
CONSTANTS
  Sources = {s1}
  Requests = {r1}
  Foreign = {r1, r2}
  Delays = {1}
  FreshFor = 1
  Cooldown = 1
  NoTime = NoTime
  NoWake = NoWake
  NoTask = NoTask
  NoRequest = NoRequest
  MaxTime = 4
  MaxFaults = 1
INVARIANTS
  CallsAccounted
  ResumesWhatWasSelected
PROPERTIES
  ImplementsPromise
  WakeAttended
CHECK_DEADLOCK FALSE
