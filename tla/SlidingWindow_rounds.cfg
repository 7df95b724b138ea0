SPECIFICATION Spec
CONSTANTS
  MAX = 3
  FirstWin = 1
  LastWin = 3
  TIMEOUT = 1
  FINAL_ACKS = 1
  MaxCount = 1
  DataFaults <- LoseOnly
  AckFaults <- LoseOnly
  MaxFaults = 2
  MaxInFlight = 3
INVARIANTS RoundsInStep
