CONSTANTS
  c1 = c1
  c2 = c2
  c3 = c3
  Nothing = Nothing
  Calls = {c1, c2}
  Irreversible = {c1, c2}
  Workers = {w1, w2}
  People = {a1, a2}
  MaxSteps = 2
  MaxAttempts = 2
  MaxExtensions = 0
  MaxFaults = 1
SPECIFICATION FairSpec
CHECK_DEADLOCK FALSE
INVARIANTS
  TypeOK
  OneResultPerCall
  StepsWithinBudget
  WaitingTurnCanBeWoken
PROPERTIES
  ApprovedBeforeItRuns
  LatestTurnMoves
