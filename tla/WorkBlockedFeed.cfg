SPECIFICATION FairSpec
CONSTANTS
  Tasks = {t1}
  Handled = {t1}
  DialogueTasks = {t1}
  PumpingTasks = {t1}
  WakeSource = t1
  Wake = wake
  NoTask = noTask
  NoRequest = noRequest
  MaxAttempts = 2
  MaxFaults = 0
PROPERTY StopCompletes
CHECK_DEADLOCK FALSE
