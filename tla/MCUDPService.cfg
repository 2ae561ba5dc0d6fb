SPECIFICATION FairSpec
CONSTANTS
  d1 = d1 d2 = d2 t1 = t1 t2 = t2 t3 = t3 c1 = c1 p1 = p1 p2 = p2
  Deploys = {d1, d2}
  Targets = {t1, t2, t3}
  TargetsOf <- TwoThenOne
  Ticking = {t2}
  Kinds <- FirstMayBeEither
  Clients = {c1}
  Hash <- Hashes
  Packets = {p1, p2}
  ClientOf <- SameClient
  None = None
INVARIANTS
  TypeOK
  ReplacedAreStopped
PROPERTIES
  SessionsStick
  NothingWaitsForEver
CHECK_DEADLOCK FALSE
