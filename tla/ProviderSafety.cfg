SPECIFICATION Spec
CONSTANTS
  Tasks = {t1, t2, t3}
  NoTask = noTask
  MaxTotal = 2
  MaxAttempts = 2
  MaxFaults = 2
SYMMETRY TaskSymmetry
INVARIANTS
  CallsOnRecord
  WithinBudget
  OutcomesTruthful
CHECK_DEADLOCK FALSE
