SPECIFICATION Spec
CONSTANTS
  Callers = {c1}
  Worker = worker
  OneShot = OneShot
  MaxTasks = 1
  MaxTime = 1
  Delays = {1}
  Periods = {1}
PROPERTIES
  NoStartAfterCancel
