CONSTANTS
  Thread = {t1, t2}
  NoKey = NoKey
  NoNode = NoNode
  MaxKeys = 2
  MaxHandles = 2
  MaxCrashes = 2
SPECIFICATION Spec
CHECK_DEADLOCK FALSE
INVARIANTS TypeOK NodesHaveTables OneIdentity 
 
