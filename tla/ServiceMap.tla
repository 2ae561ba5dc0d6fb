----------------------------- MODULE ServiceMap -----------------------------
(***************************************************************************)
(* The service map (service_map.go): the services by name, and the path    *)
(* bindings of every host that requests are routed by.                     *)
(*                                                                         *)
(* A host is the sequence of its labels, with "*" for a wildcard and <<>>  *)
(* for the empty host; a path is the sequence of its segments, <<>> for    *)
(* the root.  The code sorts bindings by the length of the prefix as a     *)
(* string, which Length gives.                                             *)
(***************************************************************************)
EXTENDS Naturals, Sequences, FiniteSets

CONSTANTS
  Names,         \* the service names
  Hosts,         \* the hosts services are deployed for
  Prefixes,      \* the path prefixes services are deployed for
  Length,        \* the length of each prefix as a string
  Requested,     \* the ServiceOptions deployments ask for
  RequestHosts,  \* the hosts requests ask for
  Paths,         \* the paths requests ask for
  TLSSettings,   \* TLSEnabled and TLSRedirect
  DefaultTLS,    \* those of defaultServiceOptions
  None

Root == <<>>
AnyHost == <<>>

\* HasPrefix of two paths that both end in a slash.
Matches(q, p) == Len(q) <= Len(p) /\ \A i \in 1..Len(q) : q[i] = p[i]

OptionsRecord == [hosts : Seq(Hosts), prefixes : SUBSET Prefixes, tls : TLSSettings]

ASSUME ServiceMapConstants ==
  /\ IsFiniteSet(Names) /\ IsFiniteSet(Prefixes)
  /\ AnyHost \in Hosts /\ Root \in Prefixes
  /\ \A h \in Hosts \cup RequestHosts : h \in Seq(STRING)
  /\ \A p \in Prefixes \cup Paths : p \in Seq(STRING)
  /\ Length \in [Prefixes -> Nat]
  /\ \A p, q \in Prefixes : p # q /\ Matches(p, q) => Length[p] < Length[q]
  /\ \A r \in Requested : r.hosts \in Seq(Hosts) /\ r.prefixes \subseteq Prefixes /\ r.tls \in TLSSettings
  /\ DefaultTLS \in TLSSettings
  /\ None \notin Names /\ None \notin OptionsRecord
  /\ None \notin [hosts : Seq(Hosts), prefixes : SUBSET Prefixes]

VARIABLES
  options,   \* services: the options of each service in the map, or None
  bindings   \* requestServiceMap: the path bindings of each host, in their order

mapVars == <<options, bindings>>

Present(opts) == {n \in Names : opts[n] # None}
HasHost(o, h) == \E i \in 1..Len(o.hosts) : o.hosts[i] = h

-----------------------------------------------------------------------------
\* ServiceOptions.Normalize: no hosts stand for every host, no prefixes for the root.
Normalize(r) ==
  [hosts |-> IF r.hosts = <<>> THEN <<AnyHost>> ELSE r.hosts,
   prefixes |-> IF r.prefixes = {} THEN {Root} ELSE r.prefixes,
   tls |-> r.tls]

servesRootPath(o) == Root \in o.prefixes

Wildcard(h) == [i \in 1..Len(h) |-> IF i = 1 THEN "*" ELSE h[i]]

\* A host is in the map when it has bindings.
bindingsForHost(index, h) ==
  IF h \in Hosts /\ index[h] # <<>> THEN index[h]
  ELSE IF Len(h) > 1 /\ Wildcard(h) \in Hosts /\ index[Wildcard(h)] # <<>> THEN index[Wildcard(h)]
  ELSE index[AnyHost]

NoBinding == [prefix |-> Root, service |-> None]

\* serviceFor: the first binding that matches.
serviceFor(index, h, p) ==
  LET found == bindingsForHost(index, h)
      hits == {i \in DOMAIN found : Matches(found[i].prefix, p)}
  IN IF hits = {} THEN NoBinding ELSE found[CHOOSE i \in hits : \A j \in hits : i <= j]

\* CheckAvailability: a host and prefix asked for are another service's.
CheckAvailability(n, o) ==
  \A h \in Hosts : HasHost(o, h) =>
    \A i \in DOMAIN bindings[h] : bindings[h][i].prefix \in o.prefixes => bindings[h][i].service = n

\* What updateRequestServiceMap appends for a host.
BindingsFor(opts, h) ==
  {b \in [prefix : Prefixes, service : Names] :
     opts[b.service] # None /\ HasHost(opts[b.service], h) /\ b.prefix \in opts[b.service].prefixes}

\* Mutant: the shortest prefix comes first.
Sorted_ShortestFirst(s) == \A i, j \in DOMAIN s : i < j => Length[s[i].prefix] <= Length[s[j].prefix]

Sorted(s) == \A i, j \in DOMAIN s : i < j => Length[s[i].prefix] >= Length[s[j].prefix]

\* SortFunc orders by length alone and services come in the order of a Go map,
\* so any order of bindings of one length may result.
Orders(bs) ==
  {s \in [1..Cardinality(bs) -> bs] : (\A b \in bs : \E i \in DOMAIN s : s[i] = b) /\ Sorted(s)}

Indexes(opts) ==
  LET orders == [h \in Hosts |-> Orders(BindingsFor(opts, h))]
  IN {index \in [Hosts -> UNION {orders[h] : h \in Hosts}] : \A h \in Hosts : index[h] \in orders[h]}

\* syncTLSOptionsFromRootDomain
syncTLSOptions(opts, index) ==
  [n \in Names |->
     IF opts[n] = None \/ servesRootPath(opts[n]) THEN opts[n]
     ELSE LET root == serviceFor(index, opts[n].hosts[1], Root).service
          IN [opts[n] EXCEPT !.tls = IF root = None THEN DefaultTLS ELSE opts[root].tls]]

\* updateRequestServiceMap
updateRequestServiceMap(opts) ==
  \E index \in Indexes(opts) :
    /\ bindings' = index
    /\ options' = syncTLSOptions(opts, index)

-----------------------------------------------------------------------------
MapInit ==
  /\ options = [n \in Names |-> None]
  /\ bindings = [h \in Hosts |-> <<>>]

\* What installLoadBalancer does to the map for a deployment that succeeds.
Set(n, r) ==
  /\ CheckAvailability(n, Normalize(r))
  /\ updateRequestServiceMap([options EXCEPT ![n] = Normalize(r)])

\* RemoveService finds the service and removes it.
RemoveName(n) ==
  /\ options[n] # None
  /\ updateRequestServiceMap([options EXCEPT ![n] = None])

MapNext == \E n \in Names : RemoveName(n) \/ \E r \in Requested : Set(n, r)

MapSpec == MapInit /\ [][MapNext]_mapVars

-----------------------------------------------------------------------------
\* Properties.

Table == INSTANCE RoutingTable WITH
  Offers <- {Normalize(r) : r \in Requested},
  claims <- [n \in Names |-> IF options[n] = None THEN None
                             ELSE [hosts |-> options[n].hosts, prefixes |-> options[n].prefixes]],
  tls <- [n \in Names |-> IF options[n] = None THEN DefaultTLS ELSE options[n].tls],
  route <- [r \in RequestHosts \X Paths |-> serviceFor(bindings, r[1], r[2]).service]

\* The map implements the routing table: after every change, in whatever order
\* updateRequestServiceMap (service_map.go) bound the services, each request goes
\* to the service with the longest prefix at the host that answers for it, and
\* each service has the TLS settings of the root of its first host.
RoutesByTable == Table!Spec
=============================================================================
