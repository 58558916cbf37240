SPECIFICATION Spec
CONSTANTS
  Chunk = 2
  Messages <- Every
  MaxParts = 2
  MaxCopies = 1
  MaxElements = 2
  MaxLeaks = 4
INVARIANTS MessageKept CopiesKeep FreesAll TypesCounted
CHECK_DEADLOCK FALSE
