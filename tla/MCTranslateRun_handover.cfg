CONSTANTS
  p1 = p1
  p2 = p2
  p3 = p3
  NoPacket = NoPacket
  NoOwner = NoOwner
  Gone = Gone
  Packets = {p1, p2, p3}
  Chapter <- TwoChapters
  Ordinal <- TwoLanes
  Tokens = {t1, t2}
  Drivers = {d1, d2}
  MaxAttempts = 1
  MaxParallel = 1
  MaxFaults = 1
SPECIFICATION SerialSpec
SYMMETRY Symmetry
CHECK_DEADLOCK FALSE
INVARIANTS
  TypeOK
  ExclusiveLease
  TranslatedOnce
  ParallelLimit
PROPERTIES
  SettledItemStays
  KeepsPromise
