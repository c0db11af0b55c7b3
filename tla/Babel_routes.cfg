SPECIFICATION Spec
CONSTANTS
  Nodes = {o, a, b}
  Owner = o
  Links <- Triangle
  Costs = {20000}
  MaxSeqno = 2
  MaxQueue = 1
  MaxFaults = 2
SYMMETRY Alike
INVARIANTS
  AnnouncedIsRemembered
  LoopsAreUnfeasible
  InstalledAtHead
