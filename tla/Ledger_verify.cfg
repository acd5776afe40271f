CONSTANTS
  a = a
  b = b
  c = c
  Device = {a, b, c}
  Pair <- Triangle
  Bytes = {2}
  Forking = {a}
  Subject = {a}
  WitnessLists <- OneAndTwo
  NoCheckpoint = NoCheckpoint
  FetchLimit = 9
  MaxRecords = 3
  MaxTime = 2
  DripRate = 4
  MaxBalance = 5
  WindowSize = 2
  HalfLife = 2
  PerPeerCap = 3
  Epoch = 2
  Day = 1
  MinWitnesses = 2
  MinClusters = 2
  MinFresh = 1
SPECIFICATION Spec
CHECK_DEADLOCK FALSE
INVARIANTS TypeOK BranchesAreRejected TakersAreBounded  
