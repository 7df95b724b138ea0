SPECIFICATION FairSpec
CONSTANTS
  WithHost = TRUE
  Operations <- LsOnly
  MaxOperations = 1
  MayRefuse <- Nothing
  Pieces <- OnePiece
  Coalesce = TRUE
  Wordings = {3}
  Slow = FALSE
  LocalFails <- Nothing
  ForkMayFail = FALSE
  MayHangUp = FALSE
  Sizes = {1}
  Buffer = 1
  Uninitialised <- Zero
PROPERTIES PromptReturns
CHECK_DEADLOCK FALSE
