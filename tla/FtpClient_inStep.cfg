SPECIFICATION Spec
CONSTANTS
  WithHost = FALSE
  Operations <- AnyLine
  MaxOperations = 4
  MayRefuse <- Refusable
  Pieces <- UpToTwo
  Coalesce = TRUE
  Wordings = {3}
  Slow = TRUE
  LocalFails <- GetAndPut
  ForkMayFail = TRUE
  MayHangUp = TRUE
  Sizes = {0, 2}
  Buffer = 1
  Uninitialised <- Garbage
INVARIANTS TypeOK InStep LoginTruthful LostOnlyAfterClosing
CHECK_DEADLOCK FALSE
