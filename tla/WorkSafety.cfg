SPECIFICATION Spec
CONSTANTS
  Tasks = {t1, t2}
  Handled = {t1, t2}
  DialogueTasks = {t2}
  PumpingTasks = {t2}
  WakeSource = t1
  Wake = wake
  NoTask = noTask
  NoRequest = noRequest
  MaxAttempts = 2
  MaxFaults = 1
INVARIANTS
  NoLostWakeup
  AttemptsExplained
  ExitIsClean
CHECK_DEADLOCK FALSE
