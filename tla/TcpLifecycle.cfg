\* Three sessions of either kind, two clients, and a callback that may close the socket.
SPECIFICATION FairSpec
CONSTANTS
  MaxFd = 3
  MaxSessions = 3
  MaxClients = 2
  CallbackCloses = TRUE
INVARIANTS DescriptorsAreOwned  ClosedMeansAlone
PROPERTIES CloseReturns
CHECK_DEADLOCK FALSE
