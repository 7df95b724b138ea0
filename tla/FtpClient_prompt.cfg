SPECIFICATION FairSpec
CONSTANTS
  WithHost = TRUE
  Operations <- NoCloseNoEmpty
  MaxOperations = 4
  MayRefuse <- NoDataRefused
  Pieces <- UpToTwo
  Coalesce = FALSE
  Wordings = {3}
  Slow = FALSE
  LocalFails <- Nothing
  ForkMayFail = TRUE
  MayHangUp = FALSE
  Sizes = {0, 1}
  Buffer = 1
  Uninitialised <- Garbage
INVARIANTS CdTruthful NeverStuck
PROPERTIES PromptReturns
