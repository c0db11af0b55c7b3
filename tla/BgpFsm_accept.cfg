SPECIFICATION Spec
CONSTANTS
  Real = real
  Accept = {a1}
  RouteAFs = {"ipv4"}
  OpenCaps = {"restart"}
  Passive = FALSE
  PmaxRestart = FALSE
  MaxBatch = 1
  MaxClearQueue = 1
INVARIANTS
  SessionAttended
  AcceptIsTemporary
