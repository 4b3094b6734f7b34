\* The plugin ends, or its process does, hence no deadlock check.
CONSTANTS
  MaxFlows = 2
  Sector <- MCSector
  Icaos = {"EDDK"}
  Callsigns = {}
  Lower <- MCLower
  Lines <- MCLines
  Prefixed <- MCPrefixed
  MaxLogs = 2
SPECIFICATION FairSpec
INVARIANTS
  TypeOK
  FaultIsKnown
  ClientOutlivesRequests
PROPERTY
  UnloadReturns
CHECK_DEADLOCK FALSE
