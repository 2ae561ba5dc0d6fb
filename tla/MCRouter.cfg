SPECIFICATION Spec
CONSTANTS
  c1 = c1 c2 = c2 c3 = c3 a = a b = b h1 = h1 h2 = h2
  Commands = {c1, c2, c3}
  Names = {a, b}
  Hosts = {h1, h2}
  Options <- ValidOrNot
  Kinds = {"deploy", "rollout", "split", "endrollout", "remove", "pause", "resume"}
  None = None
  MaxConcurrent = 2
  MaxCrashes = 1
SYMMETRY Symmetry
INVARIANTS
  TypeOK
  OneServiceIfAccepted
  RoutesMatchOptions
  LiveUnlessRevived
  UnreachableAreDisposed
  RestartKeepsServices
  CrashKeepsWhole
CHECK_DEADLOCK FALSE
