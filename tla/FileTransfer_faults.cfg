CONSTANTS
  d1 = d1
  d2 = d2
  f1 = f1
  f2 = f2
  Device = {d1, d2}
  File = {f1, f2}
  Slot = {s1, s2}
  NoSession = NoSession
  NumChunks = 2
  Counts = {2}
  MaxChunksPerBatch = 2
  QueueCap = 2
  MaxConc = 1
  MaxRequests = 2
  MaxLoss = 1
  MaxDrops = 1
  MaxFaults = 1
  Seed <- SeedPart
  MayRequest <- AskOne
SPECIFICATION Spec
CHECK_DEADLOCK FALSE
INVARIANTS TypeOK CompleteIsStored  
PROPERTY ImplementsDelivery
SYMMETRY SlotSymmetry
