---------------------------- MODULE RoutingTable ----------------------------
(***************************************************************************)
(* What the service map promises, without its bindings: which service a    *)
(* request goes to and which TLS settings that service has follow from     *)
(* the deployed services alone.                                            *)
(***************************************************************************)
EXTENDS Naturals, Sequences

CONSTANTS
  Names,         \* the service names
  Offers,        \* the options services are deployed with
  RequestHosts,  \* the hosts requests ask for
  Paths,         \* the paths requests ask for
  DefaultTLS,    \* the TLS settings of a service without a root service
  None

VARIABLES
  claims,  \* of each deployed service: its hosts, in order, and its path prefixes
  tls,     \* the TLS settings each service goes by
  route    \* the service every request goes to

vars == <<claims, tls, route>>

Claim(o) == [hosts |-> o.hosts, prefixes |-> o.prefixes]
Deployed(cl) == {n \in Names : cl[n] # None}
HasHost(cl, n, h) == \E i \in 1..Len(cl[n].hosts) : cl[n].hosts[i] = h

\* Hosts are sequences of labels; the host <<>> stands for every host.
AnyLabel(h) == [i \in 1..Len(h) |-> IF i = 1 THEN "*" ELSE h[i]]

\* The host whose services answer for h: itself, the same with any first label,
\* or every host, whichever some service claims first.
Authority(cl, h) ==
  IF \E n \in Deployed(cl) : HasHost(cl, n, h) THEN h
  ELSE IF Len(h) > 1 /\ \E n \in Deployed(cl) : HasHost(cl, n, AnyLabel(h)) THEN AnyLabel(h)
  ELSE <<>>

Covers(q, p) == Len(q) <= Len(p) /\ \A i \in 1..Len(q) : q[i] = p[i]

Candidates(cl, h, p) ==
  {x \in Deployed(cl) \X UNION {cl[n].prefixes : n \in Deployed(cl)} :
     x[2] \in cl[x[1]].prefixes /\ Covers(x[2], p) /\ HasHost(cl, x[1], Authority(cl, h))}

\* The service with the longest path prefix that covers the path.
Chosen(cl, h, p) ==
  IF Candidates(cl, h, p) = {} THEN None
  ELSE (CHOOSE x \in Candidates(cl, h, p) :
          \A y \in Candidates(cl, h, p) : Len(y[2]) <= Len(x[2]))[1]

Routes(cl) == [r \in RequestHosts \X Paths |-> Chosen(cl, r[1], r[2])]

\* A service of the root path has the settings it was deployed with; any other
\* has those of the service of the root path of its (first) host.
Settings(cl, own) ==
  [n \in Names |->
     IF cl[n] = None THEN DefaultTLS
     ELSE IF <<>> \in cl[n].prefixes THEN own[n]
     ELSE IF Chosen(cl, cl[n].hosts[1], <<>>) = None THEN DefaultTLS
     ELSE own[Chosen(cl, cl[n].hosts[1], <<>>)]]

Free(n, o) ==
  \A m \in Deployed(claims) \ {n} :
    ~(\E i \in 1..Len(o.hosts) : HasHost(claims, m, o.hosts[i])) \/ o.prefixes \cap claims[m].prefixes = {}

Update(cl, own) ==
  /\ claims' = cl
  /\ tls' = Settings(cl, own)
  /\ route' = Routes(cl)

Init ==
  /\ claims = [n \in Names |-> None]
  /\ tls = [n \in Names |-> DefaultTLS]
  /\ route = [r \in RequestHosts \X Paths |-> None]

Deploy(n, o) ==
  /\ Free(n, o)
  /\ Update([claims EXCEPT ![n] = Claim(o)], [tls EXCEPT ![n] = o.tls])

Remove(n) ==
  /\ claims[n] # None
  /\ Update([claims EXCEPT ![n] = None], tls)

Next == \E n \in Names : Remove(n) \/ \E o \in Offers : Deploy(n, o)

Spec == Init /\ [][Next]_vars
=============================================================================
