SPECIFICATION FairTiesSpec
CONSTANTS
  Callers = {c1}
  Worker = worker
  OneShot = OneShot
  MaxTasks = 2
  MaxTime = 1
  Delays = {1}
  Periods = {0}
PROPERTIES
  DueTasksRun
