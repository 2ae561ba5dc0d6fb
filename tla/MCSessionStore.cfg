SPECIFICATION Spec
CONSTANTS
  i1 = i1 t1 = t1 t2 = t2 v1 = v1 v2 = v2
  None = None
  Ids = {i1}
  Targets = {t1, t2}
  Saves = {v1, v2}
  IdleTimeout = 1
  MaxTime = 5
  MaxDeletes = 2
  MaxCrashes = 2
INVARIANTS
  NoneResurrected
  StoredAtRest
PROPERTIES
  IdleSessionsEnd
