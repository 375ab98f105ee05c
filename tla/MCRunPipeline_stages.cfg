SPECIFICATION FairSpec
CONSTANTS
  Packets <- Pair
  Requests <- SomeRequests
  MaxEdits = 1
  MaxFaults = 2
CHECK_DEADLOCK FALSE
INVARIANTS TypeOK  OneExportAtATime 
PROPERTIES  DeliveryInOrder RunSettles
