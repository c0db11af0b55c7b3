SPECIFICATION FairSpec
CONSTANTS
  Tasks = {t1, t2, t3}
  NULL = NULL
  MaxRetries = 2
  MaxCycles = 5
INVARIANTS
  NoLostWakeup
  PointersLive
  RetriesBounded
PROPERTIES
  Refines
  Attended
