CONSTANTS
  n1 = n1
  n2 = n2
  p1 = p1
  f1 = f1
  f2 = f2
  Node = {n1, n2}
  Phone = {p1}
  File = {f1, f2}
  NoRow = NoRow
  Contact <- Chain
  Shared <- SharedOne
  MayShare <- ShareOther
  MayLearn <- LearnOwn
  MaxItems = 4
  MaxForks = 1
  MaxFaults = 1
SPECIFICATION FairSpec
CHECK_DEADLOCK FALSE
INVARIANTS TypeOK HearsayIsTrue FilesHaveOrigin
  
