SPECIFICATION FairSpec
CONSTANTS
  c1 = c1
  c2 = c2
  c3 = c3
  hour1 = hour1
  hour2 = hour2
  Calls <- ThreeCalls
  Hours <- TwoHours
CHECK_DEADLOCK FALSE
INVARIANTS
  SameRow
  HeldRowsAreStored
  NeverUnresolved
PROPERTIES
  ImplementsGetOrCreate
  EveryCallEnds
