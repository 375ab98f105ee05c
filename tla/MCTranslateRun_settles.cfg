CONSTANTS
  p1 = p1
  p2 = p2
  p3 = p3
  NoPacket = NoPacket
  NoOwner = NoOwner
  Gone = Gone
  Packets = {p1}
  Chapter <- Lone
  Ordinal <- LoneLane
  Tokens = {t1, t2}
  Drivers = {d1}
  MaxAttempts = 2
  MaxParallel = 1
  MaxFaults = 2
SPECIFICATION FairSpec
CHECK_DEADLOCK FALSE
PROPERTIES
  OwnedItemIsReleased
  DrivenRunRests
