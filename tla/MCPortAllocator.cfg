SPECIFICATION Spec
CONSTANTS
  d1 = d1 d2 = d2 d3 = d3 d4 = d4
  n1 = n1 n2 = n2
  Deploys = {d1, d2, d3, d4}
  Names = {n1, n2}
  NumTargets = 2
  RTPStart = 10
  RTPEnd = 16
  RTPStep = 2
  None = None
SYMMETRY Symmetry
INVARIANTS
  PairsWhole
  FailedLeavesNoPair
  ServicesKeepPairs
CHECK_DEADLOCK FALSE
