CONSTANTS
  Link = {1, 2}
  Reader = {r1}
  QueueCap = 2
  MaxEnvelopes = 2
  MaxConnects = 3
  MaxDrops = 1
  MaxSessions = 1
SPECIFICATION Spec
CHECK_DEADLOCK FALSE
INVARIANTS TypeOK AtMostOnce
PROPERTY DelegationIsFinal
