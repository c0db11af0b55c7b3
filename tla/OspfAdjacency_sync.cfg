SPECIFICATION Spec
CONSTANTS
  Keys = {0, 1, 2}
  Learned <- MCLearned
  MaxInst = 3
  MaxQueue = 1
  MaxFaults = 2
INVARIANTS
  FullIsSynchronised
  RetransmitsCurrent
  RequestsNewer
  InStep
