SPECIFICATION Spec
CONSTANTS
  Runs = {r1, r2}
  Requests = {q1}
  WallClock = 1
  NoProgress = 1
  MaxFailures = 1
  MaxTime = 0
  MaxInflight = 1
  NoRun = NoRun
  Never = Never
SYMMETRY Symmetry
INVARIANTS TypeOK
PROPERTIES OneRunTakesWork
CHECK_DEADLOCK FALSE
