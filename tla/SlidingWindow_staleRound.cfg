SPECIFICATION Spec
CONSTANTS
  MAX = 3
  FirstWin = 1
  LastWin = 2
  TIMEOUT = 1
  FINAL_ACKS = 1
  MaxCount = 1
  DataFaults <- NoFaults
  AckFaults <- NoFaults
  MaxFaults = 0
  MaxInFlight = 3
INVARIANTS RoundComplete
