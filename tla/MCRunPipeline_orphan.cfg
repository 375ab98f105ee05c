SPECIFICATION FairSpec
CONSTANTS
  Packets <- One
  Requests <- NoAgents
  MaxEdits = 1
  MaxFaults = 0
CHECK_DEADLOCK FALSE
PROPERTIES OrphanHoldsNoRun
