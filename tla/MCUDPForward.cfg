SPECIFICATION FairSpec
CONSTANTS
  p1 = p1 p2 = p2
  Packets = {p1, p2}
  Interval = 3
  ProbeTimeout = 1
  ResponseTimeout = 3
  MaxNet = 2
  MaxInbox = 2
  None = None
INVARIANTS
  HealthyGetsPackets
