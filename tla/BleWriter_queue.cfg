SPECIFICATION FairSpec
CONSTANTS
  CccdMaxAttempts = 3
  MaxStreak = 2
  FramesPerSend = 2
  MaxSends = 3
  MaxConnects = 3
  MaxDrops = 2
  MaxFaults = 3
CHECK_DEADLOCK FALSE
INVARIANTS
  TypeOK
  FramesInOrder
  
 
