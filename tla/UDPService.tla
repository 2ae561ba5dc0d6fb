----------------------------- MODULE UDPService -----------------------------
(***************************************************************************)
(* UDP services: their deployment, the health checks of their targets and  *)
(* the routing of packets by session (udp_service_map.go, udp_target.go,   *)
(* session_manager.go, udp_server.go, udp_deployment.go).                  *)
(*                                                                         *)
(* Three locks are held over other work and are modelled as such: the      *)
(* map's, over a whole deployment; a target's, by Stop while it waits for  *)
(* the target's checker; and the session manager's, by RoutePacket while   *)
(* it asks targets for their health.  Everything else that takes one of    *)
(* them is a step that needs it free.                                      *)
(*                                                                         *)
(* The server listens on one port, so there is one service to route to; a  *)
(* service is named after the deployment that made it.  A zero-downtime    *)
(* deployment copies CurrentTargets from the one before, and nothing ever  *)
(* assigns them: its loops over them, and DrainTarget with them, run over  *)
(* no target, and sessions here are active until they expire.  Time is     *)
(* abstracted: a tick, a timeout or an expiry may come at any moment.      *)
(***************************************************************************)
EXTENDS Naturals, Sequences

CONSTANTS
  Deploys,    \* the deployments
  Targets,    \* the targets
  TargetsOf,  \* the targets each deployment brings, in order
  Ticking,    \* bound: the targets checked again after their first check
  Kinds,      \* what each deployment may be: "deploy", "zerodowntime"
  Clients,    \* the clients
  Hash,       \* the hash of each client's session ID
  Packets,    \* the packets
  ClientOf,   \* the client that sends each packet
  None

Members(seq) == {seq[i] : i \in 1..Len(seq)}

ASSUME UDPConstants ==
  /\ \A d \in Deploys : TargetsOf[d] \in Seq(Targets)
  /\ \A d, e \in Deploys : d # e => Members(TargetsOf[d]) \cap Members(TargetsOf[e]) = {}
  /\ Ticking \subseteq Targets
  /\ \A d \in Deploys : Kinds[d] \subseteq {"deploy", "zerodowntime"}
  /\ Hash \in [Clients -> Nat]
  /\ ClientOf \in [Packets -> Clients]
  /\ None \notin Deploys \cup Targets \cup Packets

VARIABLES
  service,   \* services[port]
  emptied,   \* the services whose targets Stop has set to nil
  mapLock,   \* the deployment that holds the map's lock
  kind,      \* what each deployment is
  pc,        \* where it is
  at,        \* the target it is at
  conn,      \* UDPTarget.conn; "closed" once Stop has closed it and the stop channel
  healthy,   \* UDPTarget.healthy
  mu,        \* the deployment that holds a target's lock inside Stop
  checker,   \* where a target's health check goroutine is
  session,   \* the target of each client's session, or None
  smLock,    \* the packet that holds the session manager's lock
  step,      \* where each packet is
  svc,       \* the service it was looked up for
  list,      \* the targets ServeUDP passed to RoutePacket
  up,        \* the healthy ones among them, as far as selectTarget has asked
  chosen,    \* the target RoutePacket chose
  crashed,   \* the process has died of a nil dereference
  failed     \* history: the targets that were healthy and then failed a check

deployVars == <<service, emptied, mapLock, kind, pc, at>>
targetVars == <<conn, healthy, failed, mu, checker>>
packetVars == <<step, svc, list, up, chosen, crashed>>
vars == <<deployVars, targetVars, session, smLock, packetVars>>

\* Type correctness of services, targets, sessions and packets.
TypeOK ==
  /\ service \in Deploys \cup {None}
  /\ emptied \subseteq Deploys
  /\ mapLock \in Deploys \cup {None}
  /\ kind \in [Deploys -> {"deploy", "zerodowntime", None}]
  /\ pc \in [Deploys -> {"idle", "starting", "stopping", "awaiting", "emptying", "checking", "done",
                         "failed"}]
  /\ at \in [Deploys -> Nat \ {0}]
  /\ conn \in [Targets -> {"none", "open", "closed"}]
  /\ healthy \in [Targets -> BOOLEAN]
  /\ mu \in [Targets -> Deploys \cup {None}]
  /\ checker \in [Targets -> {"off", "idle", "entering", "probing", "passed", "failed", "ended"}]
  /\ session \in [Clients -> Targets \cup {None}]
  /\ smLock \in Packets \cup {None}
  /\ step \in [Packets -> {"new", "serving", "locking", "routing", "selecting",
                           "forwarding", "ended"}]
  /\ svc \in [Packets -> Deploys \cup {None}]
  /\ list \in [Packets -> Seq(Targets \cup {None})]
  /\ up \in [Packets -> Seq(Targets)]
  /\ chosen \in [Packets -> Targets \cup {None}]
  /\ crashed \in BOOLEAN
  /\ failed \subseteq Targets

\* NewUDPServiceMap.  A session loaded from the store has no target, and is routed
\* as one that does not exist.
Init ==
  /\ service = None
  /\ emptied = {}
  /\ mapLock = None
  /\ kind = [d \in Deploys |-> None]
  /\ pc = [d \in Deploys |-> "idle"]
  /\ at = [d \in Deploys |-> 1]
  /\ conn = [t \in Targets |-> "none"]
  /\ healthy = [t \in Targets |-> FALSE]
  /\ mu = [t \in Targets |-> None]
  /\ checker = [t \in Targets |-> "off"]
  /\ session = [c \in Clients |-> None]
  /\ smLock = None
  /\ step = [p \in Packets |-> "new"]
  /\ svc = [p \in Packets |-> None]
  /\ list = [p \in Packets |-> <<>>]
  /\ up = [p \in Packets |-> <<>>]
  /\ chosen = [p \in Packets |-> None]
  /\ crashed = FALSE
  /\ failed = {}

-----------------------------------------------------------------------------
\* Deployments, which hold the map's lock from beginning to end.

Issue(d, k) ==
  /\ ~crashed
  /\ pc[d] = "idle"
  /\ mapLock = None
  /\ mapLock' = d
  /\ kind' = [kind EXCEPT ![d] = k]
  /\ pc' = [pc EXCEPT ![d] = "starting"]
  /\ UNCHANGED <<service, emptied, at, targetVars, session, smLock, packetVars>>

\* NewUDPTarget and Start: the checker runs its first check at once.
StartTarget(d) ==
  /\ ~crashed
  /\ pc[d] = "starting"
  /\ at[d] <= Len(TargetsOf[d])
  /\ LET t == TargetsOf[d][at[d]] IN
       /\ conn' = [conn EXCEPT ![t] = "open"]
       /\ checker' = [checker EXCEPT ![t] = "entering"]
  /\ at' = [at EXCEPT ![d] = @ + 1]
  /\ UNCHANGED <<service, emptied, mapLock, kind, pc, healthy, failed, mu, session, smLock, packetVars>>

\* A target does not resolve, or has no socket: the deployment fails, and the
\* targets it has started go on.
StartFails(d) ==
  /\ ~crashed
  /\ pc[d] = "starting"
  /\ at[d] <= Len(TargetsOf[d])
  /\ pc' = [pc EXCEPT ![d] = "failed"]
  /\ mapLock' = None
  /\ UNCHANGED <<service, emptied, kind, at, targetVars, session, smLock, packetVars>>

AllStarted(d) == pc[d] = "starting" /\ at[d] > Len(TargetsOf[d])

\* DeployServiceZeroDowntime hands its targets to the deployment manager.
DeployUDPService(d) ==
  /\ ~crashed
  /\ AllStarted(d) /\ kind[d] = "zerodowntime"
  /\ pc' = [pc EXCEPT ![d] = "checking"]
  /\ mapLock' = None
  /\ UNCHANGED <<service, emptied, kind, at, targetVars, session, smLock, packetVars>>

\* Mutant: the old service is left running.
ReplaceService_LeavesOld(d) ==
  /\ ~crashed
  /\ AllStarted(d) /\ kind[d] = "deploy"
  /\ service # None
  /\ pc' = [pc EXCEPT ![d] = "stopping"]
  /\ at' = [at EXCEPT ![d] = Len(TargetsOf[service]) + 1]
  /\ UNCHANGED <<service, emptied, mapLock, kind, targetVars, session, smLock, packetVars>>

\* DeployService finds a service on its port, and stops its targets in turn.
ReplaceService(d) ==
  /\ ~crashed
  /\ AllStarted(d) /\ kind[d] = "deploy"
  /\ service # None
  /\ pc' = [pc EXCEPT ![d] = "stopping"]
  /\ at' = [at EXCEPT ![d] = 1]
  /\ UNCHANGED <<service, emptied, mapLock, kind, targetVars, session, smLock, packetVars>>

\* Stop closes the connection and the stop channel under the target's lock ...
StopTarget(d) ==
  /\ ~crashed
  /\ pc[d] = "stopping"
  /\ at[d] <= Len(TargetsOf[service])
  /\ LET t == TargetsOf[service][at[d]] IN
       /\ mu[t] = None
       /\ mu' = [mu EXCEPT ![t] = d]
       /\ conn' = [conn EXCEPT ![t] = "closed"]
  /\ pc' = [pc EXCEPT ![d] = "awaiting"]
  /\ UNCHANGED <<service, emptied, mapLock, kind, at, healthy, failed, checker, session, smLock,
                 packetVars>>

\* ... and keeps the lock until the checker has ended.
TargetStopped(d) ==
  /\ ~crashed
  /\ pc[d] = "awaiting"
  /\ LET t == TargetsOf[service][at[d]] IN
       /\ checker[t] = "ended"
       /\ mu' = [mu EXCEPT ![t] = None]
  /\ at' = [at EXCEPT ![d] = @ + 1]
  /\ pc' = [pc EXCEPT ![d] = "stopping"]
  /\ UNCHANGED <<service, emptied, mapLock, kind, conn, healthy, failed, checker, session, smLock,
                 packetVars>>

\* UDPService.Stop begins to set the old service's targets to nil.
TargetsToNil(d) ==
  /\ ~crashed
  /\ pc[d] = "stopping"
  /\ at[d] > Len(TargetsOf[service])
  /\ pc' = [pc EXCEPT ![d] = "emptying"]
  /\ UNCHANGED <<service, emptied, mapLock, kind, at, targetVars, session, smLock, packetVars>>

\* Mutant: the port's entry is stopped without looking whether there is one.
DeployService_Unchecked(d) ==
  /\ ~crashed
  /\ \/ AllStarted(d) /\ kind[d] = "deploy" /\ service = None
     \/ pc[d] = "emptying"
  /\ emptied' = emptied \cup {service}
  /\ service' = d
  /\ mapLock' = None
  /\ pc' = [pc EXCEPT ![d] = "done"]
  /\ UNCHANGED <<kind, at, targetVars, session, smLock, packetVars>>

\* They are nil, and the new service takes the port.
DeployService(d) ==
  /\ ~crashed
  /\ \/ AllStarted(d) /\ kind[d] = "deploy" /\ service = None
     \/ pc[d] = "emptying"
  /\ emptied' = emptied \cup ({service} \ {None})
  /\ service' = d
  /\ mapLock' = None
  /\ pc' = [pc EXCEPT ![d] = "done"]
  /\ UNCHANGED <<kind, at, targetVars, session, smLock, packetVars>>

\* executeUDPDeployment: once its targets are healthy, or the time for that is
\* over, it is completed or has failed; nothing else changes.
executeUDPDeployment(d) ==
  /\ ~crashed
  /\ pc[d] = "checking"
  /\ \/ /\ \A t \in Members(TargetsOf[d]) : healthy[t]
        /\ pc' = [pc EXCEPT ![d] = "done"]
     \/ pc' = [pc EXCEPT ![d] = "failed"]
  /\ UNCHANGED <<service, emptied, mapLock, kind, at, targetVars, session, smLock, packetVars>>

-----------------------------------------------------------------------------
\* The health check of a target.

\* The select may prefer a tick to the closed stop channel.
Tick(t) ==
  /\ ~crashed
  /\ t \in Ticking
  /\ checker[t] = "idle"
  /\ checker' = [checker EXCEPT ![t] = "entering"]
  /\ UNCHANGED <<deployVars, conn, healthy, failed, mu, session, smLock, packetVars>>

performCheck(t) ==
  /\ ~crashed
  /\ checker[t] = "entering"
  /\ mu[t] = None
  /\ checker' = [checker EXCEPT ![t] = IF conn[t] = "open" THEN "probing" ELSE "failed"]
  /\ UNCHANGED <<deployVars, conn, healthy, failed, mu, session, smLock, packetVars>>

\* An answer needs an open connection; a closed one fails the read.
ProbeEnds(t, answered) ==
  /\ ~crashed
  /\ checker[t] = "probing"
  /\ answered => conn[t] = "open"
  /\ checker' = [checker EXCEPT ![t] = IF answered THEN "passed" ELSE "failed"]
  /\ UNCHANGED <<deployVars, conn, healthy, failed, mu, session, smLock, packetVars>>

\* check writes the result under the target's lock.
CheckCompleted(t) ==
  /\ ~crashed
  /\ checker[t] \in {"passed", "failed"}
  /\ mu[t] = None
  /\ healthy' = [healthy EXCEPT ![t] = checker[t] = "passed"]
  /\ failed' = IF healthy[t] /\ ~healthy'[t] THEN failed \cup {t} ELSE failed
  /\ checker' = [checker EXCEPT ![t] = "idle"]
  /\ UNCHANGED <<deployVars, conn, mu, session, smLock, packetVars>>

CheckerEnds(t) ==
  /\ ~crashed
  /\ checker[t] = "idle"
  /\ conn[t] = "closed"
  /\ checker' = [checker EXCEPT ![t] = "ended"]
  /\ UNCHANGED <<deployVars, conn, healthy, failed, mu, session, smLock, packetVars>>

-----------------------------------------------------------------------------
\* Packets: each has a goroutine of its own.

Goto(p, to) == step' = [step EXCEPT ![p] = to]

\* ServiceForPort waits for the map's lock.  It looks for a WebRTC service only
\* where no service has the port, by the allocator's entry for it; there is none,
\* for the allocator hands out only ports it can bind, and the server has this one.
ServiceForPort(p) ==
  /\ ~crashed
  /\ step[p] = "new"
  /\ mapLock = None
  /\ svc' = [svc EXCEPT ![p] = service]
  /\ Goto(p, IF service = None THEN "ended" ELSE "serving")
  /\ UNCHANGED <<deployVars, targetVars, session, smLock, list, up, chosen, crashed>>

\* What a read of s.targets may return.  Stop writes the slice's three words
\* while ServeUDP reads them without the lock: the old length may come with the
\* new pointer, a slice of nil pointers.
TargetsRead(s) ==
  IF s \in emptied THEN {<<>>}
  ELSE IF s = service /\ \E d \in Deploys : pc[d] = "emptying"
    THEN {TargetsOf[s], <<>>, [i \in 1..Len(TargetsOf[s]) |-> None]}
  ELSE {TargetsOf[s]}

ServeUDP(p) ==
  /\ ~crashed
  /\ step[p] = "serving"
  /\ \E targets \in TargetsRead(svc[p]) : list' = [list EXCEPT ![p] = targets]
  /\ Goto(p, "locking")
  /\ UNCHANGED <<deployVars, targetVars, session, smLock, svc, up, chosen, crashed>>

LockSessions(p) ==
  /\ ~crashed
  /\ step[p] = "locking"
  /\ smLock = None
  /\ smLock' = p
  /\ Goto(p, "routing")
  /\ UNCHANGED <<deployVars, targetVars, session, svc, list, up, chosen, crashed>>

\* The packet's goroutine ends: the packet was sent, or dropped with an error.
Ends(p) ==
  /\ Goto(p, "ended")
  /\ svc' = [svc EXCEPT ![p] = None]
  /\ chosen' = [chosen EXCEPT ![p] = None]

\* RoutePacket returns: the session manager's lock is released.
Routed(p, target) ==
  /\ smLock' = None
  /\ list' = [list EXCEPT ![p] = <<>>]
  /\ up' = [up EXCEPT ![p] = <<>>]
  /\ IF target = None
       THEN Ends(p)
       ELSE /\ chosen' = [chosen EXCEPT ![p] = target]
            /\ Goto(p, "forwarding")
            /\ UNCHANGED svc

\* Mutant: every packet selects anew.
RoutePacket_Anew(p) ==
  /\ ~crashed
  /\ step[p] = "routing"
  /\ Goto(p, "selecting")
  /\ UNCHANGED <<chosen, smLock>>
  /\ UNCHANGED <<deployVars, targetVars, session, svc, list, up, crashed>>

\* A session keeps its target if that is healthy.
RoutePacket(p) ==
  LET target == session[ClientOf[p]] IN
  /\ ~crashed
  /\ step[p] = "routing"
  /\ target # None => mu[target] = None
  /\ IF target # None /\ healthy[target]
       THEN Routed(p, target)
       ELSE Goto(p, "selecting") /\ UNCHANGED <<svc, list, up, chosen, smLock>>
  /\ UNCHANGED <<deployVars, targetVars, session, crashed>>

\* selectTarget asks each target for its health, under the target's lock.
AskHealth(p) ==
  LET t == Head(list[p]) IN
  /\ ~crashed
  /\ step[p] = "selecting"
  /\ list[p] # <<>>
  /\ t # None => mu[t] = None
  /\ crashed' = (t = None)
  /\ up' = [up EXCEPT ![p] = IF t # None /\ healthy[t] THEN Append(@, t) ELSE @]
  /\ list' = [list EXCEPT ![p] = Tail(@)]
  /\ UNCHANGED <<deployVars, targetVars, session, smLock, step, svc, chosen>>

\* Mutant: the lock is not released when no target is healthy.
selectTarget_KeepsLock(p) ==
  LET c == ClientOf[p]
      target == IF up[p] = <<>> THEN None ELSE up[p][(Hash[c] % Len(up[p])) + 1] IN
  /\ ~crashed
  /\ step[p] = "selecting"
  /\ list[p] = <<>>
  /\ session' = IF target = None THEN session ELSE [session EXCEPT ![c] = target]
  /\ IF target = None THEN Ends(p) /\ UNCHANGED <<list, up, smLock>>
                      ELSE Routed(p, target)
  /\ UNCHANGED <<deployVars, targetVars, crashed>>

\* The session gets a target by the hash of its ID among the healthy ones.
selectTarget(p) ==
  LET c == ClientOf[p]
      target == IF up[p] = <<>> THEN None ELSE up[p][(Hash[c] % Len(up[p])) + 1] IN
  /\ ~crashed
  /\ step[p] = "selecting"
  /\ list[p] = <<>>
  /\ session' = IF target = None THEN session ELSE [session EXCEPT ![c] = target]
  /\ Routed(p, target)
  /\ UNCHANGED <<deployVars, targetVars, crashed>>

\* cleanupExpiredSessions: a session was idle for too long.
cleanupExpiredSessions(c) ==
  /\ ~crashed
  /\ smLock = None
  /\ session[c] # None
  /\ session' = [session EXCEPT ![c] = None]
  /\ UNCHANGED <<deployVars, targetVars, smLock, packetVars>>

\* ForwardPacket takes the connection under the target's lock.  It writes to it
\* without, if the target is healthy, and whether that succeeds changes nothing
\* here.
ForwardPacket(p) ==
  /\ ~crashed
  /\ step[p] = "forwarding"
  /\ mu[chosen[p]] = None
  /\ Ends(p)
  /\ UNCHANGED <<deployVars, targetVars, session, smLock, list, up, crashed>>

DeployStep(d) ==
  \/ StartTarget(d) \/ StartFails(d) \/ DeployUDPService(d) \/ ReplaceService(d)
  \/ StopTarget(d) \/ TargetStopped(d) \/ TargetsToNil(d) \/ DeployService(d)

CheckStep(t) == performCheck(t) \/ CheckCompleted(t) \/ CheckerEnds(t)

PacketStep(p) ==
  \/ ServeUDP(p) \/ LockSessions(p) \/ RoutePacket(p) \/ AskHealth(p) \/ selectTarget(p)
  \/ ForwardPacket(p)

Next ==
  \/ \E d \in Deploys : \E k \in Kinds[d] : Issue(d, k)
  \/ \E d \in Deploys : DeployStep(d) \/ executeUDPDeployment(d)
  \/ \E t \in Targets : Tick(t) \/ CheckStep(t)
  \/ \E t \in Targets, answered \in BOOLEAN : ProbeEnds(t, answered)
  \/ \E p \in Packets : ServiceForPort(p) \/ PacketStep(p)
  \/ \E c \in Clients : cleanupExpiredSessions(c)

Spec == Init /\ [][Next]_vars

\* The goroutines of deployments, stopped checkers and packets go on when they can.
\* Issues, ticks, packets and expiries are not promised;
\* nor is the end of a probe, whose read deadline handleResponse moves on with
\* every packet that is forwarded.  (Each of them takes finitely many steps, so that
\* fairness to the set of them is fairness to each.)
FairSpec ==
  /\ Spec
  /\ WF_vars(\E d \in Deploys : DeployStep(d))
  /\ WF_vars(\E t \in Targets : CheckerEnds(t))
  /\ WF_vars(\E p \in Packets : PacketStep(p))

-----------------------------------------------------------------------------
\* Properties.

\* Stop waits for a checker that waits for Stop's lock: neither goes on.
Hung == \E t \in Targets : mu[t] # None /\ checker[t] \notin {"idle", "ended"}

\* When no deployment is in progress, the targets of the service in the map run,
\* and those of every service it replaced have been stopped, checker included
\* (DeployService, UDPService.Stop).
ReplacedAreStopped ==
  mapLock = None =>
    \A d \in Deploys : pc[d] = "done" /\ kind[d] = "deploy" =>
      \A t \in Members(TargetsOf[d]) :
        IF d = service THEN conn[t] = "open" /\ checker[t] # "ended"
                       ELSE conn[t] = "closed" /\ checker[t] = "ended"

\* README: packets from the same client consistently reach the same target.
\* Among the targets of one service RoutePacket moves a session only off one that
\* has failed a health check since it was healthy, however many packets of the
\* client select a target meanwhile and whichever other targets come up or go down.
\* Moves from one service to the next are not its subject: see DeployTakesOver.
SessionsStick ==
  [][\A c \in Clients, d \in Deploys :
       {session[c], session'[c]} \subseteq Members(TargetsOf[d]) =>
         session'[c] = session[c] \/ session[c] \in failed]_vars

\* The locks of the map, the sessions and the targets are in no cycle but the one
\* of Stop and a check: unless that one closes, every deployment returns and
\* releases the map's lock, and every packet a service was found for (routePacket)
\* is sent or dropped.  There are finitely many of them, so that each ends if and
\* only if there always comes a time when none is left.
NothingWaitsForEver ==
  LET InProgress == mapLock # None \/ \E p \in Packets : step[p] \notin {"new", "ended"}
  IN  InProgress ~> (~InProgress \/ Hung \/ crashed)

\* README: each deployment takes over all the traffic from the one before.  A
\* packet for the service now in the map (RoutePacket) goes to one of its targets.
DeployTakesOver ==
  \A p \in Packets :
    chosen[p] # None /\ svc[p] = service => chosen[p] \in Members(TargetsOf[service])
=============================================================================
