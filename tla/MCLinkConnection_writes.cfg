SPECIFICATION FairSpec
CONSTANTS
  t1 = t1
  t2 = t2
  t3 = t3
  io = io
  none = none
  l1 = l1
  Users = {t1, t2}
  Main = t1
  Io = io
  Nobody = none
  Listeners = {}
  Local = FALSE
  Timed = TRUE
  Size = 2
  MaxBuffer = 3
  MaxWrites = 1
  MaxSockets = 2

PROPERTIES StreamInOrder QueueFlushed
CHECK_DEADLOCK FALSE
