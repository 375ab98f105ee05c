SPECIFICATION FairSpec
CONSTANTS
  Runs = {r1}
  Requests = {}
  WallClock = 2
  NoProgress = 2
  MaxFailures = 1
  MaxTime = 4
  MaxInflight = 1
  NoRun = NoRun
  Never = Never
INVARIANTS ClockMeasuresWork
PROPERTIES  SpentRunStops
CHECK_DEADLOCK FALSE
