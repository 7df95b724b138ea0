SPECIFICATION FairSpec
CONSTANTS
  MAX = 3
  TIMEOUT = 1
  FINAL_ACKS = 3
  MaxCount = 4
  DataFaults <- FaultKinds
  AckFaults <- FaultKinds
  MaxFaults = 3
  MaxInFlight = 3
INVARIANTS TypeOK Lockstep CountsRetransmissions
PROPERTIES ImplementsTransfer OnlyLostAckStops LastAckDelivered
