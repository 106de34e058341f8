SPECIFICATION FairSpec
CONSTANTS
  Total = 2
  Periods = {1, 2}
  Sizes = {3}
  Prelude = 1
  Modulus = 16
  MaxStarts = 1
  MaxCalls = 2
  MaxLost = 1
INVARIANTS
  SizesInRange
  InStepUnlessLost
PROPERTY CallsReturn
CHECK_DEADLOCK FALSE
