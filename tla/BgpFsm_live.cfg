SPECIFICATION FairSpec
CONSTANTS
  Real = real
  Accept = {}
  RouteAFs = {"ipv4"}
  OpenCaps = {"none"}
  Passive = FALSE
  PmaxRestart = TRUE
  MaxBatch = 1
  MaxClearQueue = 2
PROPERTY
  ClearingEnds
