SPECIFICATION Spec
CONSTANTS
  Sync = {t1, t2}
  Async = {a1}
  Oneways = {t1}
  Cnxs = {c1}
  Unix = {}
  Timed = {c1}
  Limited = {c1}
  Deactivated = {c1}
  MaxCalls = 1
  MaxSockets = 2
  NoCnx = NoCnx
  NoReply = NoReply
  NoSlot = NoSlot
INVARIANTS EntryAlive TimerRemovable
CHECK_DEADLOCK FALSE
