SPECIFICATION Spec
CONSTANTS
  p1 = p1
  p2 = p2
  p3 = p3
  hour1 = hour1
  Procs <- ThreeProcs
  Slots <- OneSlot
  LockTimeout = 2
  StaleAfter = 3
  MaxRetryCount = 2
  PostgresLock = TRUE
  LeaseCoversRun = FALSE
  Faults = {"crash", "redis", "database"}
SYMMETRY Symmetry
INVARIANTS
  OneWorkerPerSlot
  AtMostOneRecipe
  WorkerOwnsJob
  RecipeMatchesJob
  ImageStored
  AttemptBudget
  ObjectsAccounted
  StatusAgreement
PROPERTIES
  CompletedIsFinal
  ImplementsHourlySlot
