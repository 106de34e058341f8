SPECIFICATION FairSpec
CONSTANTS
  RFB_BUF_SIZE = 3
  ReadSizes = {0, 1, 2, 4, 5}
  RetryLimits = {0, 2}
  MaxStream = 8
INVARIANTS
  Safety
PROPERTIES
  CallReturns
  ImplementsByteStream
CHECK_DEADLOCK FALSE
