CONSTANTS
  Messages <- AllMessages
  Magic <- MCMagic
  MaxPayload = 5
  FifoSize = 1
  Mtus = {0, 7, 9}
  DefaultMtu = 7
  MaxSent = 2
  MaxFailed = 1
  MaxLinks = 2
SPECIFICATION FairSpec
INVARIANT StreamCorrect
PROPERTY PopulateEnds
CHECK_DEADLOCK FALSE
