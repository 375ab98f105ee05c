CONSTANTS
  p1 = p1
  p2 = p2
  p3 = p3
  NoPacket = NoPacket
  NoOwner = NoOwner
  Gone = Gone
  Packets = {p1}
  Chapter <- Lone
  Ordinal <- LoneLane
  Tokens = {t1, t2, t3}
  Drivers = {d1, d2}
  MaxAttempts = 1
  MaxParallel = 1
  MaxFaults = 1
SPECIFICATION Spec
SYMMETRY Symmetry
CHECK_DEADLOCK FALSE
INVARIANTS
  TranslatedOnce
