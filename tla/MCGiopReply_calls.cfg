SPECIFICATION FairSpec
CONSTANTS
  Sync = {t1, t2}
  Async = {}
  Oneways = {}
  Cnxs = {c1, c2}
  Unix = {c1}
  Timed = {}
  Limited = {c1}
  Deactivated = {}
  MaxCalls = 2
  MaxSockets = 2
  NoCnx = NoCnx
  NoReply = NoReply
  NoSlot = NoSlot
INVARIANT NoLostReply
PROPERTY CallsEnd
CHECK_DEADLOCK FALSE
