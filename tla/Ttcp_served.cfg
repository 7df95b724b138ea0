SPECIFICATION FairSpec
CONSTANTS
  t1 = t1
  t2 = t2
  Receiver = Receiver
  Transmitters <- Two
  BufLens <- GivenLengths
  OptionArguments <- UpToThree
  Hosts <- OneHost
  MaxArguments = 2
  NBUF = 2
  NoSocket <- Second
  Killed <- FirstAndReceiver
  Capacity = 2
INVARIANTS TypeOK NoByteLost OwnResults NeverStuck OptionsAsTyped
PROPERTIES ImplementsCountedTransfer AllServed
