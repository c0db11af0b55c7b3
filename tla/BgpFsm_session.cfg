SPECIFICATION Spec
CONSTANTS
  Real = real
  Accept = {}
  RouteAFs = {"ipv6"}
  OpenCaps = {"none", "preserve"}
  Passive = FALSE
  PmaxRestart = TRUE
  MaxBatch = 2
  MaxClearQueue = 2
INVARIANTS
  TypeOK
  ClearingCompletes
  SessionAttended
  ClearingIsQuiet
  StaleIsSweepable
  IdleRestarts
