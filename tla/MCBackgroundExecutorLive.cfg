SPECIFICATION FairSpec
CONSTANTS
  Callers = {c1}
  Worker = worker
  OneShot = OneShot
  MaxTasks = 2
  MaxTime = 2
  Delays = {2}
  Periods = {1}
PROPERTIES
  DueTasksRun
  DestructorReturns
