SPECIFICATION FairSpec
CONSTANTS
  Producers = {p1}
  MaxLogs = 1
  Sqlite = FALSE
PROPERTIES
  NotifiedWorkerExits
CHECK_DEADLOCK FALSE
