SPECIFICATION FairSpec
CONSTANTS
  t1 = t1 t2 = t2 t3 = t3 r1 = r1 r2 = r2
  deploy = deploy pause = pause main = main
  Targets = {t1}
  All <- OneTarget
  ReadOnly = {}
  Requests = {r1, r2}
  Reads = {}
  WriteCookie = {}
  Starts <- DeployedOrRestored
  Drains = {deploy, pause}
  DeployDrain = deploy
  MainUpdate = main
INVARIANTS
  NoTargetLeftDraining
  DrainedUnlessOverlapped
  SoleTargetStaysPooled
PROPERTIES
  ReplacedIsDeployed
CHECK_DEADLOCK FALSE
