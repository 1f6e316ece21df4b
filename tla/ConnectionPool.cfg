SPECIFICATION FairSpec
CONSTANTS
  r1 = r1
  r2 = r2
  q1 = q1
  x1 = x1
  x2 = x2
  hour1 = hour1
  hour2 = hour2
  NoConn = NoConn
  Runs <- TwoRuns
  Requests <- OneRequest
  Conns <- TwoConns
  Slots <- TwoSlots
  PoolSize = 1
  Transactions = 1
  MaxStuck = 1
  Faults = {"session", "database", "unlock"}
INVARIANTS
  ConnectionsAccounted
  LocksAccounted
  OneRunPerSlot
  StallNeedsRuns
PROPERTIES
  EveryClientEnds
