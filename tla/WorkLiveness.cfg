SPECIFICATION FairSpec
CONSTANTS
  Tasks = {t1}
  Handled = {t1}
  DialogueTasks = {}
  PumpingTasks = {t1}
  WakeSource = t1
  Wake = wake
  NoTask = noTask
  NoRequest = noRequest
  MaxAttempts = 2
  MaxFaults = 1
PROPERTIES
  ServiceProgresses
CHECK_DEADLOCK FALSE
