SPECIFICATION FairSpec
CONSTANTS
  MaxCommits = 2
  MaxConns = 3
  MaxCrashes = 1
  Contested = {1}
  Rivals = TRUE
  AclActive = TRUE
INVARIANTS TypeOK RecordedInLocalOrder NoSessionError
PROPERTIES ImplementsOnceSession EveryCommitAnswered MarkerArrives
CHECK_DEADLOCK FALSE
