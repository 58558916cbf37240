SPECIFICATION Spec
CONSTANTS
  s1 = s1
  s2 = s2
  t1 = t1
  t2 = t2
  here = here
  there = there
  gone = gone
  pipe = pipe
  tcp = tcp
  own1 = own1
  own2 = own2
  none = none
  Threads = {t1, t2}
  Slots = {s1, s2}
  Remote <- TwoRemote
  Forwards <- OneForward
  LocalKeys = {here}
  Own <- TwoStarts
  Unix = {pipe}
  LocalHost = {tcp}
  None = none
  MaxHeld = 2
SYMMETRY Symmetry
INVARIANTS RegistrySound UniqueHere SharedListLives
CHECK_DEADLOCK FALSE
