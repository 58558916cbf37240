SPECIFICATION Spec
CONSTANTS
  root = root
  child = child
  o1 = o1
  o2 = o2
  s1 = s1
  s2 = s2
  t1 = t1
  t2 = t2
  Poas = {root, child}
  Parent <- ParentOf
  NoPoa = none
  Oids = {o1, o2}
  Home <- HomeOf
  Servants = {s1, s2}
  DefaultServant = dflt
  NoServant = none
  Threads = {t1, t2}
  Nobody = none
  Policies <- RunPolicies
SYMMETRY Symmetry
INVARIANTS CallsKeepServant FinalizedUnused DeactivationPending RefsCounted
CHECK_DEADLOCK FALSE
