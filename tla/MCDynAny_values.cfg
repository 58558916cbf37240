SPECIFICATION Spec
CONSTANTS
  d1 = d1
  d2 = d2
  d3 = d3
  none = none
  Dyns = {d1, d2, d3}
  None = none
  Types = {"long", "short", "seq", "rec", "pair", "colour", "either", "alias"}
  Kind <- KindOf
  Subtypes <- SubtypesOf
  Length <- LengthOfType
  Padded = {}
  Data = {0}
  Made = {"rec", "pair", "colour", "alias", "either"}
  Given <- Few
  MaxLen = 2
  MaxMasters = 2
  Careful = TRUE
  ElementLists <- RunLists
SYMMETRY Symmetry
INVARIANTS ValuesTyped ParentKnows MemorySafe
CHECK_DEADLOCK FALSE
