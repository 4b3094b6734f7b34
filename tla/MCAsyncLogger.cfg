SPECIFICATION FairSpec
CONSTANTS
  Producers = {p1, p2, p3}
  MaxLogs = 5
  Sqlite = TRUE
INVARIANTS
  TypeOK
  InOrderOnce
  NoLostWakeup
  OnlyStillbornStrands
  DestroyedIsQuiet
PROPERTIES
  ImplementsChannel
  LoggedIsHandled
  DestructorReturns
CHECK_DEADLOCK FALSE
