CONSTANTS
  d1 = d1
  d2 = d2
  f1 = f1
  f2 = f2
  Device = {d1, d2}
  File = {f1}
  Slot = {s1, s2}
  NoSession = NoSession
  NumChunks = 2
  Counts = {2}
  MaxChunksPerBatch = 2
  QueueCap = 2
  MaxConc = 1
  MaxRequests = 2
  MaxLoss = 0
  MaxDrops = 0
  MaxFaults = 0
  Seed <- SeedOne
  MayRequest <- AskOne
SPECIFICATION FairSpec
CHECK_DEADLOCK FALSE
PROPERTIES RequestServed StoredSessionEnds
