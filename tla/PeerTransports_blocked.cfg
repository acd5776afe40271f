CONSTANTS
  Link = {1, 2}
  Reader = {r1}
  QueueCap = 1
  MaxEnvelopes = 1
  MaxConnects = 2
  MaxDrops = 0
  MaxSessions = 1
SPECIFICATION Spec
CHECK_DEADLOCK FALSE
INVARIANT BlockedRecvContinues
