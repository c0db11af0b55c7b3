SPECIFICATION Spec
CONSTANTS
  AS = {1, 2, 3, 4}
  Wiser = {2, 3}
  LinkCost <- SquareLinks
  Origin <- TwoPrefixes
  SoftReconfig = {3}
  MaxKeys = 4
  MaxCommands = 1
  MaxTotal = 20
\* Routers that have told each other everything are at rest.
CHECK_DEADLOCK FALSE
INVARIANTS
  NoAssertionFails
  KeysUnshared
  CheapestAnnounced
  NeighboursAgree
