SPECIFICATION FairSpec
CONSTANTS
  r1 = r1
  r2 = r2
  k1 = k1
  k2 = k2
  Request = {r1, r2}
  Key = {k1, k2}
  KeyOf <- KeysApart
  MaxConc = 1
  CheckpointInterval = 1
  Polling = TRUE
  MayStop = TRUE
  MaxExtra = 0
  MaxFaults = 1
CHECK_DEADLOCK FALSE
PROPERTIES
  StopReturns
  
