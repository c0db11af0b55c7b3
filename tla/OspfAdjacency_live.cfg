SPECIFICATION FairSpec
CONSTANTS
  Keys = {1, 2}
  Learned = {}
  MaxInst = 2
  MaxQueue = 1
  MaxFaults = 2
PROPERTY
  Converges
