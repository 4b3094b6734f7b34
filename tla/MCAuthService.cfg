\* The passing run.  A crash ends the process, hence no deadlock check.
CONSTANT MaxFlows = 3
SPECIFICATION FairSpec
INVARIANTS
  TypeOK
  OnePoller
  PendingMeansPolling
  OnlyVouchedTokens
PROPERTY
  MainReturns
CHECK_DEADLOCK FALSE
