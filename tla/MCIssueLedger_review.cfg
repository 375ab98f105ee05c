CONSTANTS
  i1 = i1
  i2 = i2
  p1 = p1
  p2 = p2
  Nothing = Nothing
  Issues = {i1, i2}
  Packets = {p1, p2}
  PacketOf <- TwoPackets
  Blocking = {i1}
  FollowUps = {i1, i2}
  Concepts = {i2}
  Briefs = {}
  MaxFollowUps = 2
  MaxRequests = 2
  MaxRounds = 1
SPECIFICATION FairSpec
CHECK_DEADLOCK FALSE
INVARIANTS
  TypeOK
  RepeatedFailuresAreHeld
  VerdictMatchesIssues
PROPERTIES
  HumanClosureStands
  
