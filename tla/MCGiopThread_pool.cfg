SPECIFICATION FairSpec
CONSTANTS
  r1 = r1  r2 = r2  r3 = r3  r4 = r4  r5 = r5  k1 = k1  c1 = c1
  poa1 = poa1  poa2 = poa2
  Pool = {p1, p2}
  Main = Main
  Users = {}
  Keys = {k1}
  NoKey = NoKey
  MainQueue = MainQueue
  Requests <- PoolRequests
  KeyOf <- PoolKeyOf
  Poas = {poa1}
  PoaOf <- PoolPoaOf
  Policies = {}
  Calls = {}
  AskerOf <- NoAskerOf
  MaxSync = 0
  PipeSize = 1
  NoThread = NoThread
  NoRequest = NoRequest
  NoPolicy = NoPolicy
INVARIANTS NoOrphan PerKeySerial NoLostWakeup
PROPERTIES Served CallsReturn ImplementsDispatch
