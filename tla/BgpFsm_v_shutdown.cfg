SPECIFICATION Spec
CONSTANTS
  Real = real
  Accept = {a1}
  RouteAFs = {"ipv4"}
  OpenCaps = {"none"}
  Passive = FALSE
  PmaxRestart = TRUE
  MaxBatch = 2
  MaxClearQueue = 2
INVARIANT ShutdownDropsPeer
