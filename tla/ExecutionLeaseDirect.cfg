SPECIFICATION Spec
CONSTANTS
  p1 = p1
  p2 = p2
  a = a
  b = b
  c = c
  None = None
  Process <- MCProcess
  Server <- DeriverServer
  HostOf <- DeriverHostOf
  Alone <- DeriverAlone
  MaxTenure <- DeriverTenures
  TTL = 1
  MaxLog = 1
INVARIANT LapsedDirectAborts
CHECK_DEADLOCK FALSE
