SPECIFICATION FairSpec
CONSTANTS
  MAX = 3
  FirstWin = 2
  LastWin = 2
  TIMEOUT = 1
  FINAL_ACKS = 1
  MaxCount = 1
  DataFaults <- DuplicateOnly
  AckFaults <- FaultKinds
  MaxFaults = 2
  MaxInFlight = 4
INVARIANTS TypeOK TruthfulAcks
PROPERTIES ImplementsTransfer OnlyLostAckStops
