SPECIFICATION Spec
CONSTANTS
  r1 = r1  r2 = r2  r3 = r3  r4 = r4  r5 = r5  k1 = k1  c1 = c1
  poa1 = poa1  poa2 = poa2
  Pool = {p1}
  Main = Main
  Users = {u1}
  Keys = {k1}
  NoKey = NoKey
  MainQueue = MainQueue
  Requests <- MainRequests
  KeyOf <- MainKeyOf
  Poas = {poa1, poa2}
  PoaOf <- MainPoaOf
  Policies <- MainPolicies
  Calls = {c1}
  AskerOf <- MainAskerOf
  MaxSync = 1
  PipeSize = 1
  NoThread = NoThread
  NoRequest = NoRequest
  NoPolicy = NoPolicy
INVARIANTS KeysOwned MainWillWake PopFindsWork
PROPERTY PolicyObeyed
CHECK_DEADLOCK FALSE
