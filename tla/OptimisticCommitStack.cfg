SPECIFICATION Spec
CONSTANTS
  a = a
  b = b
  x = x
  y = y
  f = f
  g = g
  None = None
  Client <- Clients
  Doc = {x}
  Field = {f, g}
  Tx <- StackTx
  Watched <- WatchAll
  MaxLocal <- StackMax
INVARIANTS TypeOK ReadCoherence OwnWriteStays QuietReplicasAgree
CHECK_DEADLOCK FALSE
