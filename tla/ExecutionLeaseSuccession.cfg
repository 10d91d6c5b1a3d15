SPECIFICATION FairSpec
CONSTANTS
  p1 = p1
  p2 = p2
  a = a
  b = b
  c = c
  None = None
  Process <- MCProcess
  Server <- SuccessionServer
  HostOf <- SuccessionHostOf
  Alone <- SuccessionAlone
  MaxTenure <- SuccessionTenures
  TTL = 2
  MaxLog = 0
PROPERTIES ReleaseSparesSuccessor LostHolderStops CrashedLeaseLapses
CHECK_DEADLOCK FALSE
