SPECIFICATION Spec
CONSTANTS
  root = root
  sub = sub
  o1 = o1
  o2 = o2
  n1 = n1
  n2 = n2
  b1 = b1
  b2 = b2
  none = none
  Contexts = {root, sub}
  Root = root
  Objects = {o1, o2}
  Names = {n1, n2}
  Bindings = {b1, b2}
  Listings = {1}
  None = none
  MaxCalls = 1
  Careful = TRUE
SYMMETRY Symmetry
INVARIANTS RefsCounted ListedOnce
PROPERTY ImplementsDirectory
CHECK_DEADLOCK FALSE
