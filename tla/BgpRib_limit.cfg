SPECIFICATION Spec
CONSTANTS
  Peers = {1}
  Prefixes = {n1, n2}
  MaxAttr = 1
  Prefers <- Larger
  ExportDenied <- NoneDenied
  Pmax = 1
  Dampening = TRUE
  Restarting = {}
  FirstFamily = TRUE
INVARIANTS
  PcountExact
  
SYMMETRY Symmetry
