SPECIFICATION Spec
CONSTANTS
  a = a b = b c = c
  None = None
  Names = {a, b, c}
  Hosts <- MCHosts
  Prefixes <- MCPrefixes
  Length <- MCLength
  Requested <- MCRequested
  RequestHosts <- MCRequestHosts
  Paths <- MCPaths
  TLSSettings <- MCTLSSettings
  DefaultTLS <- Off
  Requests <- MCRequests
  Setups <- MCSetups
  Statuses = {404}
  Chunks = {1, 2}
  MaxBody = 4
  MaxBytes = 3
  MaxMem = 1
CONSTRAINT FewServicesInFlight
INVARIANTS
  BuffersBounded
  NoSpillFileLeft
  ForwardedWhole
  WholeOrNothing
  StreamsPassOn
  ErrorsReachClient
PROPERTIES
  RoutesByTable
CHECK_DEADLOCK FALSE
