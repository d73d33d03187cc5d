SPECIFICATION Spec
CONSTANTS
  Leases = {l1, l2}
  Requests = {h1}
  SystemRequests = {}
  Root = root
  NoTask = noTask
  NoLease = noLease
  MaxTurns = 1
  MaxRevision = 3
  Observers = {o1, o2}
  OperatorSeqs = {2}
  DeclineSeqs = {2}
  MaxFaults = 1
SYMMETRY ProcessSymmetry
INVARIANTS
  ThreadSound
  CursorJustified
  RecordsAgree
PROPERTIES
  DecisionsAreFinal
  ImplementsPromise
CHECK_DEADLOCK FALSE
