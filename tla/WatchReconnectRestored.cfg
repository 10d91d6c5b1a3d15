SPECIFICATION FairSpec
CONSTANTS
  MaxCalls = 4
  MaxLosses = 3
  Signs = TRUE
  Forgets = TRUE
  Calm = TRUE
  Modes = {TRUE, FALSE}
INVARIANTS TypeOK RewatchHeard IntentServed
PROPERTIES Reconnects CallsReturn
CHECK_DEADLOCK FALSE
