SPECIFICATION Spec
CONSTANTS
  t1 = t1 t2 = t2 t3 = t3 r1 = r1 r2 = r2
  deploy = deploy pause = pause main = main
  Targets = {t1, t2}
  All <- WriterAndReader
  ReadOnly = {t2}
  Requests = {r1, r2}
  Reads = {r1, r2}
  WriteCookie = {r2}
  Starts <- Deployed
  Drains = {deploy}
  DeployDrain = deploy
  MainUpdate = main
CONSTRAINT NoHijacks
INVARIANTS
  PoolFollowsHealth
  AllHealthyTogether
  WritesStayOffReaders
CHECK_DEADLOCK FALSE
