CONSTANTS
  c1 = c1
  c2 = c2
  c3 = c3
  Nothing = Nothing
  Calls = {c1}
  Irreversible = {c1}
  Workers = {w1, w2}
  People = {a1}
  MaxSteps = 1
  MaxAttempts = 2
  MaxExtensions = 1
  MaxFaults = 1
SPECIFICATION Spec
CHECK_DEADLOCK FALSE
INVARIANTS
  AdvisoryNeverSinksRun
