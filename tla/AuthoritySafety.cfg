CONSTANTS
  Grants = {g1}
  NoGrant = NoGrant
  MaxTurns = 1
  MinInterval = 0
  GrantTTL = 2
  LeaseTTL = 1
  IntentTTL = 2
  MaxRevision = 2
  MaxTime = 2
SPECIFICATION Spec
INVARIANTS
  ChainSound
  RecoveryHidesNoTurn
PROPERTIES
  ImplementsPromise
CHECK_DEADLOCK FALSE
