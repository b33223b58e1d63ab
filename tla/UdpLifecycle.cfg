\* A writer with two writes, an owner that may bind twice, packets at any time.
CONSTANTS
  Writers = {w1}
  MaxWrites = 2
  MaxBinds = 2
  MaxInbox = 1
SPECIFICATION FairSpec
CHECK_DEADLOCK FALSE
INVARIANTS
  
  ClosedMeansSilent
PROPERTIES
  CloseReturns
  AcceptedIsHandled
