SPECIFICATION FairSpec
CONSTANTS
  BufFragments = 2
  SockFragments = 3
  MaxScreen = 2
  MaxEvents = 2
  Connections <- MCConnections
INVARIANTS
  RequestChain
  InStep
PROPERTIES
  UpToDate
  StuckOnlyByReadAhead
CHECK_DEADLOCK FALSE
