SPECIFICATION FairSpec
CONSTANTS
  c1 = c1
  c2 = c2
  Nobody = Nobody
  Clients <- Two
  Capacity = 4
  BUFSIZE = 3
  Sizes <- AnySizes
  MaxRepetitions = 2
  Addresses <- AnyAddresses
  Killed <- One
  PortTaken = TRUE
INVARIANTS TypeOK NoByteLost CountPlausible NeverStuck
PROPERTIES ClientsEnd
CHECK_DEADLOCK FALSE
