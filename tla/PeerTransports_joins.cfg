CONSTANTS
  Link = {1, 2, 3}
  Reader = {r1}
  QueueCap = 1
  MaxEnvelopes = 1
  MaxConnects = 3
  MaxDrops = 0
  MaxSessions = 0
SPECIFICATION FairSpec
CHECK_DEADLOCK FALSE
INVARIANTS JoinsReachActive
PROPERTY HandlersReturn
