SPECIFICATION Spec
CONSTANTS
  Sizes = {1, 2, 3}
  Servers = {"basic", "extended", "h264", "echo"}
  MaxEvents = 3
INVARIANTS
  NeverTooLarge
  RequestChain
  SkippingIsCovered
CHECK_DEADLOCK FALSE
