CONSTANT MaxFlows = 2
SPECIFICATION Spec
INVARIANT
  ParseErrorMeansUnparsed
CHECK_DEADLOCK FALSE
