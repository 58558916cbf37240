SPECIFICATION Spec
CONSTANTS
  Ids = {id1, id2}
  MaxParts = 3
  MaxMessages = 4
  MaxSockets = 2
SYMMETRY Alike
INVARIANTS WholeHere HeldNotFreed GoesClean
CHECK_DEADLOCK FALSE
