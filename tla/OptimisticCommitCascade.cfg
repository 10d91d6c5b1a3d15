SPECIFICATION LiveSpec
CONSTANTS
  a = a
  b = b
  x = x
  y = y
  f = f
  g = g
  None = None
  Client <- Clients
  Doc = {x, y}
  Field = {f}
  Tx <- CascadeTx
  Watched <- WatchAll
  MaxLocal <- CascadeMax
INVARIANTS BaseIsDurable FatesAgree RepairedBaseIsFresh
PROPERTIES ImplementsSerialSpace CommitsSettle
CHECK_DEADLOCK FALSE
