CONSTANTS
  Users = {u1, u2}
  NoUser = nobody
  MaxCalls = 3
SPECIFICATION FairSpec
INVARIANTS
  TypeOK
  OwnRequest
  OwnAnswer
  NoListLeaks
PROPERTY
  TimedCallsReturn
