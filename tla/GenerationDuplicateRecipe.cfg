SPECIFICATION Spec
CONSTANTS
  p1 = p1
  p2 = p2
  p3 = p3
  hour1 = hour1
  Procs <- TwoProcs
  Slots <- OneSlot
  LockTimeout = 2
  StaleAfter = 2
  MaxRetryCount = 2
  PostgresLock = TRUE
  LeaseCoversRun = FALSE
  Faults = {"afterCommit"}

INVARIANTS
  AtMostOneRecipe
