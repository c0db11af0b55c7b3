SPECIFICATION Spec
CONSTANTS
  Peers = {1, 2}
  Prefixes = {n1}
  MaxAttr = 2
  Prefers <- Larger
  ExportDenied <- EachDenied
  Pmax = 9
  Dampening = FALSE
  Restarting = {1}
  FirstFamily = FALSE
INVARIANTS
  TypeOK
  PcountExact
  
  FibFollowsSelection
  SelectionSettled
  RemovedIsScheduled
  
