SPECIFICATION FairSpec
CONSTANTS
  MAX = 2
  TIMEOUT = 1
  FINAL_ACKS = 2
  MaxCount = 1
  DataFaults <- NoFaults
  AckFaults <- LoseOnly
  MaxFaults = 1
  MaxInFlight = 3
PROPERTIES ClientReturns
