SPECIFICATION FairSpec
CONSTANTS
  MaxCalls = 0
  MaxLosses = 2
  Signs = TRUE
  Forgets = FALSE
  Calm = FALSE
  Modes = {FALSE}
PROPERTY Reconnects
CHECK_DEADLOCK FALSE
