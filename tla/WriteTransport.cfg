SPECIFICATION WriteSpec
CONSTANTS
  SendBuffer = 2
  ReceiveBuffer = 2
  WriteSizes = {0, 1, 3}
  MaxCalls = 3
  MaxDue = 2
INVARIANTS
  InOrder
  CompleteOnReturn
  FailsOnlyOnError
PROPERTY WriteReturns
CHECK_DEADLOCK FALSE
