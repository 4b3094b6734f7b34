SPECIFICATION Spec
CONSTANTS
  Callers = {c1, c2}
  Worker = worker
  OneShot = OneShot
  MaxTasks = 2
  MaxTime = 3
  Delays = {2}
  Periods = {1}
SYMMETRY CallerSymmetry
INVARIANTS
  TypeOK
  IdsUnique
  RegistryExact
  NoLostWakeup
  FixedRate
  OneLateRun
PROPERTIES
  ImplementsLifecycle
