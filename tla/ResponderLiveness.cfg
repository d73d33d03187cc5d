SPECIFICATION RetryingSpec
CONSTANTS
  Leases = {l1}
  Requests = {h1, s1}
  SystemRequests = {s1}
  Root = root
  NoTask = noTask
  NoLease = noLease
  MaxTurns = 1
  MaxRevision = 3
  Observers = {o1}
  OperatorSeqs = {}
  DeclineSeqs = {2}
  MaxFaults = 1
INVARIANTS
  LeaseBoundsSystemTurns
PROPERTIES
  DecisionsSettle
CHECK_DEADLOCK FALSE
