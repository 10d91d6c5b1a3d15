SPECIFICATION Spec
CONSTANTS
  MaxFires = 2
  MaxLosses = 0
  MaxTenures = 2
  MaxFaults = 0
  Refused = {}
  Lapses = TRUE
INVARIANT NoAppendLost
