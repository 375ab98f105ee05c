CONSTANTS
  p1 = p1
  p2 = p2
  p3 = p3
  NoPacket = NoPacket
  NoOwner = NoOwner
  Gone = Gone
  Packets = {p1, p2}
  Chapter <- OneChapter
  Ordinal <- OneLane
  Tokens = {t1, t2}
  Drivers = {d1, d2}
  MaxAttempts = 2
  MaxParallel = 2
  MaxFaults = 0
SPECIFICATION Spec
SYMMETRY Symmetry
CHECK_DEADLOCK FALSE
INVARIANTS
  SucceededRunIsDone
  ChapterOrder
  
  
PROPERTIES
  TerminalRunStays
