SPECIFICATION FairSpec
CONSTANTS
  MAX = 4
  DataFaults <- ReorderOnly
  AckFaults <- NoFaults
  MaxFaults = 3
  MaxInFlight = 0
INVARIANTS TypeOK NoneMissing
PROPERTIES ServerReturns
