SPECIFICATION FairSpec
CONSTANTS
  t1 = t1
  t2 = t2
  t3 = t3
  io = io
  none = none
  l1 = l1
  Users = {t1, t2, t3}
  Main = t1
  Io = io
  Nobody = none
  Listeners = {l1}
  Local = TRUE
  Timed = TRUE
  Size = 2
  MaxBuffer = 0
  MaxWrites = 0
  MaxSockets = 3
INVARIANT HeardOnce
PROPERTY ReconnectEnds
CHECK_DEADLOCK FALSE
