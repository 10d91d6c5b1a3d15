SPECIFICATION Spec
CONSTANTS
  a = a
  b = b
  x = x
  y = y
  f = f
  g = g
  None = None
  Client <- Clients
  Doc = {x, y}
  Field = {f}
  Tx <- UnwatchedTx
  Watched <- WatchSome
  MaxLocal <- StackMax
INVARIANT ReadCoherence
CHECK_DEADLOCK FALSE
