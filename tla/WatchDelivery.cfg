SPECIFICATION Spec
CONSTANTS
  d1 = d1
  d2 = d2
  Docs = {d1, d2}
  Watched <- Some
  MaxOwn = 1
  MaxForeign = 2
  MaxFaults = 1
  MaxLosses = 1
  MaxCalls = 1
INVARIANTS TypeOK QuietReplicaAgrees QuietCommitsSettled HeldIsDurable
PROPERTIES RetryMovesOn
SYMMETRY Symmetry
CHECK_DEADLOCK FALSE
