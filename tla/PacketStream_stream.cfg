SPECIFICATION FairSpec
CONSTANTS
  Sizes <- MCSizes
  HeaderSize = 2
  SendBufferSize = 8
  WireSize = 4
  MaxPackets = 3
  Unknown <- Third
  MaxSize = 9
INVARIANTS
  NothingLost
  OnlyCrampedOvertake
PROPERTIES
  Delivered
CHECK_DEADLOCK FALSE
