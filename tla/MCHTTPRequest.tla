--------------------------- MODULE MCHTTPRequest ----------------------------
(* An instance of HTTPRequest, with its service map, for TLC. *)
EXTENDS HTTPRequest

CONSTANTS a, b, c

Off == [enabled |-> FALSE, redirect |-> TRUE]
On == [enabled |-> TRUE, redirect |-> TRUE]
MCTLSSettings == {Off, On}

ax == <<"a", "x">>
wx == <<"*", "x">>
MCHosts == {AnyHost, ax, wx}
MCRequestHosts == {ax, <<"c", "x">>, <<"x">>}

api == <<"api">>
doc == <<"doc">>
v1 == <<"api", "v1">>
MCPrefixes == {Root, api, doc, v1}
MCPaths == {Root, <<"api", "v1", "z">>, <<"apix">>, doc}

\* "/", "/api", "/doc" and "/api/v1"
MCLength == [p \in MCPrefixes |-> CASE p = Root -> 1 [] p = v1 -> 7 [] OTHER -> 4]

Deployment(hosts, prefixes, tls) == [hosts |-> hosts, prefixes |-> prefixes, tls |-> tls]

\* A service for every host, one at the root of a host, one below it, one below
\* the wildcard and that host with a prefix of the same length, and one at two
\* prefixes of the wildcard.
MCRequested ==
  {Deployment(<<>>, {}, Off), Deployment(<<ax>>, {}, On), Deployment(<<ax>>, {doc}, On),
   Deployment(<<wx, ax>>, {api}, Off), Deployment(<<wx>>, {Root, v1}, On)}

Request(h, p, s, pr) == [host |-> h, path |-> p, secure |-> s, probe |-> pr]
MCRequests ==
  {Request(ax, <<"api", "v1", "z">>, TRUE, FALSE), Request(<<"c", "x">>, Root, FALSE, TRUE)}

Setup(rq, rs, str, cust, pgs) ==
  [bufferRequests |-> rq, bufferResponses |-> rs, strip |-> str, custom |-> cust, pages |-> pgs]
MCSetups ==
  {Setup(FALSE, FALSE, FALSE, FALSE, {}), Setup(TRUE, FALSE, TRUE, FALSE, {}),
   Setup(FALSE, TRUE, FALSE, TRUE, {502})}

\* Bound: the map changes under a request where two services are deployed, and
\* requests are followed beyond the pause gate where at most one is, for every host or for the wildcard.
FewServicesInFlight ==
  \/ stage = "idle"
  \/ stage = "serving" /\ Cardinality(Present(options)) <= 2
  \/ \A n \in Present(options) : n = a /\ ~HasHost(options[n], ax)
=============================================================================
