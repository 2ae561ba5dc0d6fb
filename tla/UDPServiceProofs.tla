-------------------------- MODULE UDPServiceProofs --------------------------
(***************************************************************************)
(* Theorems about UDPService: for every set of deployments, targets,       *)
(* clients and packets.                                                    *)
(***************************************************************************)
EXTENDS UDPService, TLAPS

-----------------------------------------------------------------------------
\* The targets a deployment brings, and the choice by hash.

LEMMA Listed ==
  ASSUME NEW d \in Deploys
  PROVE  /\ TargetsOf[d] \in Seq(Targets)
         /\ Len(TargetsOf[d]) \in Nat
         /\ \A i \in 1..Len(TargetsOf[d]) :
              TargetsOf[d][i] \in Targets /\ TargetsOf[d][i] \in Members(TargetsOf[d])
         /\ \A t \in Members(TargetsOf[d]) :
              t \in Targets /\ \E i \in 1..Len(TargetsOf[d]) : t = TargetsOf[d][i]
  <1>1. TargetsOf[d] \in Seq(Targets)
    BY UDPConstants
  <1> QED BY <1>1 DEF Members

LEMMA Apart ==
  ASSUME NEW d \in Deploys, NEW e \in Deploys, d # e, NEW t \in Members(TargetsOf[d])
  PROVE  t \notin Members(TargetsOf[e])
  BY Zenon, UDPConstants

LEMMA IndexByHash == \A h \in Nat, n \in Nat \ {0} : (h % n) + 1 \in 1..n
  OBVIOUS

LEMMA PickedByHash ==
  ASSUME NEW S, NEW s \in Seq(S), s # <<>>, NEW h \in Nat
  PROVE  \E i \in 1..Len(s) : s[(h % Len(s)) + 1] = s[i] /\ s[i] \in S
  <1>1. Len(s) \in Nat \ {0}
    OBVIOUS
  <1>2. (h % Len(s)) + 1 \in 1..Len(s)
    BY Zenon, <1>1, IndexByHash
  <1> DEFINE i == (h % Len(s)) + 1
  <1> HIDE DEF i
  <1>3. \A j \in 1..Len(s) : s[j] \in S
    OBVIOUS
  <1> QED BY Zenon, <1>2, <1>3

\* The constants are apart from their null value.
LEMMA NullApart == None \notin Deploys /\ None \notin Targets /\ None \notin Packets
  BY Zenon, UDPConstants

-----------------------------------------------------------------------------
\* Type correctness, part by part.

DeployTypes ==
  /\ service \in Deploys \cup {None}
  /\ emptied \subseteq Deploys
  /\ mapLock \in Deploys \cup {None}
  /\ kind \in [Deploys -> {"deploy", "zerodowntime", None}]
  /\ pc \in [Deploys -> {"idle", "starting", "stopping", "awaiting", "emptying", "checking", "done",
                         "failed"}]
  /\ at \in [Deploys -> Nat \ {0}]

TargetTypes ==
  /\ conn \in [Targets -> {"none", "open", "closed"}]
  /\ healthy \in [Targets -> BOOLEAN]
  /\ mu \in [Targets -> Deploys \cup {None}]
  /\ checker \in [Targets -> {"off", "idle", "entering", "probing", "passed", "failed", "ended"}]
  /\ failed \subseteq Targets

PacketTypes ==
  /\ session \in [Clients -> Targets \cup {None}]
  /\ smLock \in Packets \cup {None}
  /\ step \in [Packets -> {"new", "serving", "locking", "routing", "selecting",
                           "forwarding", "ended"}]
  /\ svc \in [Packets -> Deploys \cup {None}]
  /\ list \in [Packets -> Seq(Targets \cup {None})]
  /\ up \in [Packets -> Seq(Targets)]
  /\ chosen \in [Packets -> Targets \cup {None}]
  /\ crashed \in BOOLEAN

\* A packet that is served has been looked up a service for.
ServedFor == \A p \in Packets : step[p] = "serving" => svc[p] \in Deploys

TypeInv == DeployTypes /\ TargetTypes /\ PacketTypes /\ ServedFor

LEMMA TypesTogether == DeployTypes /\ TargetTypes /\ PacketTypes => TypeOK
  BY Zenon DEF DeployTypes, TargetTypes, PacketTypes, TypeOK

LEMMA TypesInit == Init => TypeInv
  <1> SUFFICES ASSUME Init PROVE TypeInv
    OBVIOUS
  <1>1. DeployTypes
    BY DEF Init, DeployTypes
  <1>2. TargetTypes
    BY DEF Init, TargetTypes
  <1>3. PacketTypes
    <2>1. \A S : [p \in Packets |-> <<>>] \in [Packets -> Seq(S)]
      OBVIOUS
    <2>2. list \in [Packets -> Seq(Targets \cup {None})] /\ up \in [Packets -> Seq(Targets)]
      BY Zenon, <2>1 DEF Init
    <2> QED BY Zenon, <2>2 DEF Init, PacketTypes
  <1>4. ServedFor
    BY DEF Init, ServedFor
  <1> QED BY Zenon, <1>1, <1>2, <1>3, <1>4 DEF TypeInv

\* A step of a deployment, of a check, or on a packet or a session.
Deployment(d) == (\E k \in Kinds[d] : Issue(d, k)) \/ DeployStep(d) \/ executeUDPDeployment(d)

Check(t) == Tick(t) \/ CheckStep(t) \/ \E answered \in BOOLEAN : ProbeEnds(t, answered)

Routing == (\E p \in Packets : ServiceForPort(p) \/ PacketStep(p)) \/ \E c \in Clients : cleanupExpiredSessions(c)

LEMMA NextSplit ==
  Next => (\E d \in Deploys : Deployment(d)) \/ (\E t \in Targets : Check(t)) \/ Routing
  BY Zenon DEF Next, Deployment, Check, Routing

LEMMA DeploymentFrame ==
  ASSUME NEW d \in Deploys, Deployment(d)
  PROVE  UNCHANGED <<healthy, failed, session, smLock, packetVars>>
  BY Zenon DEF Deployment, DeployStep, Issue, StartTarget, StartFails, DeployUDPService, ReplaceService,
               StopTarget, TargetStopped, TargetsToNil, DeployService, executeUDPDeployment, targetVars

LEMMA CheckFrame ==
  ASSUME NEW t \in Targets, Check(t)
  PROVE  UNCHANGED <<deployVars, conn, mu, session, smLock, packetVars>>
  BY Zenon DEF Check, CheckStep, Tick, performCheck, ProbeEnds, CheckCompleted, CheckerEnds

LEMMA RoutingFrame == Routing => UNCHANGED <<deployVars, targetVars>>
  BY Zenon DEF Routing, PacketStep, ServiceForPort, ServeUDP, LockSessions, RoutePacket, AskHealth,
               selectTarget, ForwardPacket, cleanupExpiredSessions

-----------------------------------------------------------------------------
\* Every step keeps the types.

LEMMA DeploymentTypes ==
  ASSUME DeployTypes, TargetTypes, NEW d \in Deploys, Deployment(d)
  PROVE  DeployTypes' /\ TargetTypes'
  <1> USE DEF DeployTypes, TargetTypes
  <1>0. UNCHANGED <<healthy, failed>>
    BY Zenon, DeploymentFrame
  <1>1. ASSUME NEW k \in Kinds[d], Issue(d, k) PROVE DeployTypes' /\ TargetTypes'
    <2>1. k \in {"deploy", "zerodowntime"}
      BY UDPConstants
    <2> QED BY <1>1, <2>1 DEF Issue, targetVars
  <1>n. \A n \in Nat \ {0} : n + 1 \in Nat \ {0}
    OBVIOUS
  <1>2. CASE StartTarget(d)
    <2>1. at' \in [Deploys -> Nat \ {0}]
      BY Zenon, <1>2, <1>n DEF StartTarget
    <2>2. conn' \in [Targets -> {"none", "open", "closed"}]
      BY Zenon, <1>2 DEF StartTarget
    <2>3. checker' \in [Targets -> {"off", "idle", "entering", "probing", "passed", "failed", "ended"}]
      BY Zenon, <1>2 DEF StartTarget
    <2> QED BY Zenon, <1>0, <1>2, <2>1, <2>2, <2>3 DEF StartTarget
  <1>3. CASE StartFails(d) \/ DeployUDPService(d)
    BY <1>3 DEF StartFails, DeployUDPService, targetVars
  <1>4. CASE ReplaceService(d) \/ TargetsToNil(d)
    <2>1. 1 \in Nat \ {0}
      OBVIOUS
    <2>2. at' \in [Deploys -> Nat \ {0}]
      BY Zenon, <1>4, <2>1 DEF ReplaceService, TargetsToNil
    <2>3. pc' \in [Deploys -> {"idle", "starting", "stopping", "awaiting", "emptying", "checking", "done",
                             "failed"}]
      BY Zenon, <1>4 DEF ReplaceService, TargetsToNil
    <2> QED BY Zenon, <1>4, <2>2, <2>3 DEF ReplaceService, TargetsToNil, targetVars
  <1>5. CASE StopTarget(d)
    <2>1. pc' \in [Deploys -> {"idle", "starting", "stopping", "awaiting", "emptying", "checking", "done",
                             "failed"}]
      BY Zenon, <1>5 DEF StopTarget
    <2>2. conn' \in [Targets -> {"none", "open", "closed"}] /\ mu' \in [Targets -> Deploys \cup {None}]
      BY Zenon, <1>5 DEF StopTarget
    <2> QED BY Zenon, <1>0, <1>5, <2>1, <2>2 DEF StopTarget
  <1>6. CASE TargetStopped(d)
    <2>1. at' \in [Deploys -> Nat \ {0}]
      BY Zenon, <1>6, <1>n DEF TargetStopped
    <2>2. pc' \in [Deploys -> {"idle", "starting", "stopping", "awaiting", "emptying", "checking", "done",
                             "failed"}]
      BY Zenon, <1>6 DEF TargetStopped
    <2>3. mu' \in [Targets -> Deploys \cup {None}]
      BY Zenon, <1>6 DEF TargetStopped
    <2> QED BY Zenon, <1>0, <1>6, <2>1, <2>2, <2>3 DEF TargetStopped
  <1>7. CASE DeployService(d)
    BY <1>7 DEF DeployService, targetVars
  <1>8. CASE executeUDPDeployment(d)
    BY <1>8 DEF executeUDPDeployment, targetVars
  <1> QED BY Zenon, <1>1, <1>2, <1>3, <1>4, <1>5, <1>6, <1>7, <1>8 DEF Deployment, DeployStep

LEMMA CheckTypes ==
  ASSUME TargetTypes, NEW t \in Targets, Check(t)
  PROVE  TargetTypes'
  <1> USE DEF TargetTypes
  <1>1. CASE Tick(t) \/ performCheck(t) \/ CheckerEnds(t)
    BY <1>1 DEF Tick, performCheck, CheckerEnds
  <1>2. ASSUME NEW answered \in BOOLEAN, ProbeEnds(t, answered) PROVE TargetTypes'
    BY <1>2 DEF ProbeEnds
  <1>3. CASE CheckCompleted(t)
    <2>1. healthy' \in [Targets -> BOOLEAN] /\ failed' \subseteq Targets
      BY Zenon, <1>3 DEF CheckCompleted
    <2> QED BY <1>3, <2>1 DEF CheckCompleted
  <1> QED BY Zenon, <1>1, <1>2, <1>3 DEF Check, CheckStep

\* What ServeUDP may read of the targets.
LEMMA ReadTypes ==
  ASSUME NEW s \in Deploys, NEW targets \in TargetsRead(s)
  PROVE  targets \in Seq(Targets \cup {None})
  <1>1. TargetsOf[s] \in Seq(Targets)
    BY Zenon, Listed
  <1>2. TargetsOf[s] \in Seq(Targets \cup {None}) /\ <<>> \in Seq(Targets \cup {None})
        /\ [i \in 1..Len(TargetsOf[s]) |-> None] \in Seq(Targets \cup {None})
    BY <1>1
  <1> QED BY Zenon, <1>2 DEF TargetsRead

\* A packet that ends, and one that has been routed.
LEMMA RoutedTypes ==
  ASSUME PacketTypes, NEW p \in Packets, NEW target \in Targets \cup {None}, Routed(p, target)
  PROVE  /\ smLock' = None
         /\ step' \in [Packets -> {"new", "serving", "locking", "routing", "selecting",
                                   "forwarding", "ended"}]
         /\ svc' \in [Packets -> Deploys \cup {None}]
         /\ list' \in [Packets -> Seq(Targets \cup {None})]
         /\ up' \in [Packets -> Seq(Targets)]
         /\ chosen' \in [Packets -> Targets \cup {None}]
  <1>1. \A S : <<>> \in Seq(S)
    OBVIOUS
  <1>2. list' \in [Packets -> Seq(Targets \cup {None})] /\ up' \in [Packets -> Seq(Targets)]
    BY <1>1 DEF Routed, PacketTypes
  <1>3. CASE target = None
    BY <1>2, <1>3 DEF Routed, PacketTypes, Ends, Goto
  <1>4. CASE target # None
    BY <1>2, <1>4 DEF Routed, PacketTypes, Ends, Goto
  <1> QED BY Zenon, <1>3, <1>4

LEMMA RoutingTypes ==
  ASSUME PacketTypes, DeployTypes, ServedFor, Routing
  PROVE  PacketTypes' /\ ServedFor'
  <1> DEFINE Steps == {"new", "serving", "locking", "routing", "selecting", "forwarding", "ended"}
  <1>1. ASSUME NEW p \in Packets, ServiceForPort(p) PROVE PacketTypes' /\ ServedFor'
    <2>1. step' \in [Packets -> Steps] /\ svc' \in [Packets -> Deploys \cup {None}]
      BY <1>1 DEF ServiceForPort, PacketTypes, DeployTypes, Goto
    <2>2. ServedFor'
      BY <1>1 DEF ServiceForPort, PacketTypes, DeployTypes, Goto, ServedFor
    <2> QED BY Zenon, <1>1, <2>1, <2>2 DEF ServiceForPort, PacketTypes
  <1>2. ASSUME NEW p \in Packets, ServeUDP(p) PROVE PacketTypes' /\ ServedFor'
    <2>1. svc[p] \in Deploys
      BY Zenon, <1>2 DEF ServeUDP, ServedFor
    <2>2. PICK targets \in TargetsRead(svc[p]) : list' = [list EXCEPT ![p] = targets]
      BY Zenon, <1>2 DEF ServeUDP
    <2>3. targets \in Seq(Targets \cup {None})
      BY Zenon, <2>1, <2>2, ReadTypes
    <2>4. list' \in [Packets -> Seq(Targets \cup {None})]
      BY Zenon, <2>2, <2>3 DEF PacketTypes
    <2>5. step' \in [Packets -> Steps] /\ ServedFor'
      BY <1>2 DEF ServeUDP, PacketTypes, Goto, ServedFor
    <2> QED BY Zenon, <1>2, <2>4, <2>5 DEF ServeUDP, PacketTypes
  <1>3. ASSUME NEW p \in Packets, LockSessions(p) PROVE PacketTypes' /\ ServedFor'
    <2>1. step' \in [Packets -> Steps] /\ ServedFor'
      BY <1>3 DEF LockSessions, PacketTypes, Goto, ServedFor
    <2> QED BY Zenon, <1>3, <2>1 DEF LockSessions, PacketTypes
  <1>r. ASSUME NEW p \in Packets, NEW target \in Targets \cup {None}, Routed(p, target) PROVE ServedFor'
    BY <1>r DEF Routed, Ends, Goto, PacketTypes, ServedFor
  <1>c. \A p \in Packets : session[ClientOf[p]] \in Targets \cup {None}
    BY UDPConstants DEF PacketTypes
  <1>4. ASSUME NEW p \in Packets, RoutePacket(p) PROVE PacketTypes' /\ ServedFor'
    <2> DEFINE target == session[ClientOf[p]]
    <2>1. CASE Routed(p, target)
      <3>1. target \in Targets \cup {None}
        BY Zenon, <1>c
      <3> HIDE DEF target
      <3> QED BY Zenon, <1>4, <1>r, <2>1, <3>1, RoutedTypes DEF RoutePacket, PacketTypes
    <2>2. CASE Goto(p, "selecting") /\ UNCHANGED <<svc, list, up, chosen, smLock>>
      <3>1. step' \in [Packets -> Steps] /\ ServedFor'
        BY <2>2 DEF PacketTypes, Goto, ServedFor
      <3> QED BY Zenon, <1>4, <2>2, <3>1 DEF RoutePacket, PacketTypes
    <2> QED BY Zenon, <1>4, <2>1, <2>2 DEF RoutePacket
  <1>5. ASSUME NEW p \in Packets, AskHealth(p) PROVE PacketTypes' /\ ServedFor'
    <2> DEFINE t == Head(list[p])
    <2>1. list[p] \in Seq(Targets \cup {None}) /\ up[p] \in Seq(Targets) /\ list[p] # <<>>
      BY Zenon, <1>5 DEF AskHealth, PacketTypes
    <2>2. t \in Targets \cup {None} /\ Tail(list[p]) \in Seq(Targets \cup {None})
      BY <2>1
    <2>3. t \in Targets => Append(up[p], t) \in Seq(Targets)
      BY <2>1
    <2>4. list' = [list EXCEPT ![p] = Tail(list[p])]
      BY <1>5 DEF AskHealth
    <2>5. up' = [up EXCEPT ![p] = IF t # None /\ healthy[t] THEN Append(up[p], t) ELSE up[p]]
      BY <1>5 DEF AskHealth
    <2> HIDE DEF t
    <2>6. list' \in [Packets -> Seq(Targets \cup {None})]
      BY Zenon, <2>2, <2>4 DEF PacketTypes
    <2>7. (IF t # None /\ healthy[t] THEN Append(up[p], t) ELSE up[p]) \in Seq(Targets)
      BY Zenon, <2>1, <2>2, <2>3
    <2>8. up' \in [Packets -> Seq(Targets)]
      BY Zenon, <2>5, <2>7 DEF PacketTypes
    <2>9. crashed' \in BOOLEAN
      BY Zenon, <1>5 DEF AskHealth
    <2> QED BY Zenon, <1>5, <2>6, <2>8, <2>9 DEF AskHealth, PacketTypes, ServedFor

<1>6. ASSUME NEW p \in Packets, selectTarget(p) PROVE PacketTypes' /\ ServedFor'
    <2> DEFINE c == ClientOf[p]
               target == IF up[p] = <<>> THEN None ELSE up[p][(Hash[c] % Len(up[p])) + 1]
    <2>1. c \in Clients /\ Hash[c] \in Nat
      BY UDPConstants
    <2>2. up[p] \in Seq(Targets)
      BY Zenon DEF PacketTypes
    <2>3. target \in Targets \cup {None}
      BY Zenon, <2>1, <2>2, PickedByHash
    <2>4. Routed(p, target) /\ session' = IF target = None THEN session ELSE [session EXCEPT ![c] = target]
      BY Zenon, <1>6 DEF selectTarget
    <2> HIDE DEF c, target
    <2>5. session' \in [Clients -> Targets \cup {None}]
      BY Zenon, <2>3, <2>4 DEF PacketTypes
    <2> QED BY Zenon, <1>6, <1>r, <2>3, <2>4, <2>5, RoutedTypes DEF selectTarget, PacketTypes
  <1>7. ASSUME NEW p \in Packets, ForwardPacket(p) PROVE PacketTypes' /\ ServedFor'
    <2>1. step' \in [Packets -> Steps] /\ ServedFor'
      BY <1>7 DEF ForwardPacket, Ends, PacketTypes, Goto, ServedFor
    <2>2. svc' \in [Packets -> Deploys \cup {None}] /\ chosen' \in [Packets -> Targets \cup {None}]
      BY Zenon, <1>7 DEF ForwardPacket, Ends, PacketTypes
    <2> QED BY Zenon, <1>7, <2>1, <2>2 DEF ForwardPacket, PacketTypes
  <1>8. ASSUME NEW c \in Clients, cleanupExpiredSessions(c) PROVE PacketTypes' /\ ServedFor'
    <2>1. session' \in [Clients -> Targets \cup {None}]
      BY Zenon, <1>8 DEF cleanupExpiredSessions, PacketTypes
    <2> QED BY Zenon, <1>8, <2>1 DEF cleanupExpiredSessions, packetVars, PacketTypes, ServedFor
  <1> QED BY Zenon, <1>1, <1>2, <1>3, <1>4, <1>5, <1>6, <1>7, <1>8 DEF Routing, PacketStep

LEMMA TypesNext == TypeInv /\ [Next]_vars => TypeInv'
  <1> SUFFICES ASSUME TypeInv, [Next]_vars PROVE TypeInv'
    OBVIOUS
  <1>0. DeployTypes /\ TargetTypes /\ PacketTypes /\ ServedFor
    BY Zenon DEF TypeInv
  <1>d. UNCHANGED deployVars => DeployTypes'
    BY Zenon, <1>0 DEF deployVars, DeployTypes
  <1>t. UNCHANGED targetVars => TargetTypes'
    BY Zenon, <1>0 DEF targetVars, TargetTypes
  <1>p. UNCHANGED <<session, smLock, packetVars>> => PacketTypes' /\ ServedFor'
    BY Zenon, <1>0 DEF packetVars, PacketTypes, ServedFor
  <1>1. ASSUME NEW d \in Deploys, Deployment(d) PROVE TypeInv'
    <2>1. UNCHANGED <<session, smLock, packetVars>>
      BY Zenon, <1>1, DeploymentFrame
    <2> QED BY Zenon, <1>0, <1>1, <1>p, <2>1, DeploymentTypes DEF TypeInv
  <1>2. ASSUME NEW t \in Targets, Check(t) PROVE TypeInv'
    <2>1. UNCHANGED <<session, smLock, packetVars>> /\ UNCHANGED deployVars
      BY Zenon, <1>2, CheckFrame
    <2> QED BY Zenon, <1>0, <1>2, <1>d, <1>p, <2>1, CheckTypes DEF TypeInv
  <1>3. CASE Routing
    BY Zenon, <1>0, <1>3, <1>d, <1>t, RoutingFrame, RoutingTypes DEF TypeInv
  <1>4. CASE UNCHANGED vars
    BY Zenon, <1>4, <1>d, <1>t, <1>p DEF vars, TypeInv
  <1> QED BY Zenon, <1>1, <1>2, <1>3, <1>4, NextSplit

\* Type correctness of every step of deployments, checks and packets.
THEOREM UDPTypesCorrect == Spec => []TypeOK
  <1>1. TypeInv => TypeOK
    BY Zenon, TypesTogether DEF TypeInv
  <1> QED BY <1>1, TypesInit, TypesNext, PTL DEF Spec

-----------------------------------------------------------------------------
\* Deployments and the targets they start and stop.

Running(t) == conn[t] = "open" /\ checker[t] # "ended"
Stopped(t) == conn[t] = "closed" /\ checker[t] = "ended"
Replacing == {"stopping", "awaiting", "emptying"}

\* A deployment has the map's lock from its issue until it is installed, fails or
\* is handed to the deployment manager.
LockHeld == \A d \in Deploys : mapLock = d <=> pc[d] \in {"starting"} \cup Replacing

\* Only plain deployments replace or become the service.
Installing ==
  /\ service # None => pc[service] = "done" /\ kind[service] = "deploy"
  /\ \A d \in Deploys :
       /\ pc[d] \in Replacing => kind[d] = "deploy" /\ service # None
       /\ pc[d] = "checking" => kind[d] = "zerodowntime"

\* What a deployment has started runs.
StartedRun ==
  \A d \in Deploys :
    /\ pc[d] = "idle" => at[d] = 1
    /\ pc[d] = "starting" => \A i \in 1..Len(TargetsOf[d]) : i < at[d] => Running(TargetsOf[d][i])
    /\ pc[d] \in Replacing => \A t \in Members(TargetsOf[d]) : Running(t)

\* The service's targets are stopped in turn, each before the next.
StoppedInTurn ==
  \A d \in Deploys :
    /\ pc[d] \in {"stopping", "awaiting"} =>
         \A i \in 1..Len(TargetsOf[service]) : i < at[d] => Stopped(TargetsOf[service][i])
    /\ pc[d] = "awaiting" =>
         at[d] \in 1..Len(TargetsOf[service]) /\ conn[TargetsOf[service][at[d]]] = "closed"
    /\ pc[d] = "emptying" => \A t \in Members(TargetsOf[service]) : Stopped(t)

\* The service's targets run until a deployment begins to replace it.
ServiceRuns ==
  service # None /\ (\A d \in Deploys : pc[d] \notin Replacing) =>
    \A t \in Members(TargetsOf[service]) : Running(t)

\* Those of every service before it do not.
OthersStopped ==
  \A d \in Deploys : pc[d] = "done" /\ kind[d] = "deploy" /\ d # service =>
    \A t \in Members(TargetsOf[d]) : Stopped(t)

ReplaceInv == LockHeld /\ Installing /\ StartedRun /\ StoppedInTurn /\ ServiceRuns /\ OthersStopped

\* Sessions: the manager's lock, and what is known of the targets.
SessionLock == \A p \in Packets : smLock = p <=> step[p] \in {"routing", "selecting"}

WasHealthy(t) == healthy[t] \/ t \in failed

\* A session's target, and those a packet may choose from, were healthy once.
ChosenWereHealthy ==
  /\ \A c \in Clients : session[c] # None => WasHealthy(session[c])
  /\ \A p \in Packets : \A i \in 1..Len(up[p]) : WasHealthy(up[p][i])

\* A packet selects anew for a session only if its target has failed.
SelectsAfterFailure ==
  \A p \in Packets : step[p] = "selecting" /\ session[ClientOf[p]] # None => session[ClientOf[p]] \in failed

StickInv == SessionLock /\ ChosenWereHealthy /\ SelectsAfterFailure

-----------------------------------------------------------------------------
\* Sessions stick to their targets.

\* A target once healthy is healthy, or has failed since.
LEMMA HealthKept ==
  ASSUME TypeInv, [Next]_vars
  PROVE  failed \subseteq failed' /\ \A t \in Targets : WasHealthy(t) => WasHealthy(t)'
  <1>1. CASE UNCHANGED <<healthy, failed>>
    BY Zenon, <1>1 DEF WasHealthy
  <1>2. ASSUME NEW t \in Targets, CheckCompleted(t)
        PROVE  failed \subseteq failed' /\ \A u \in Targets : WasHealthy(u) => WasHealthy(u)'
    <2>1. \A u \in Targets : u # t => healthy'[u] = healthy[u]
      BY Zenon, <1>2 DEF CheckCompleted, TypeInv, TargetTypes
    <2>2. failed' = IF healthy[t] /\ ~healthy'[t] THEN failed \cup {t} ELSE failed
      BY Zenon, <1>2 DEF CheckCompleted
    <2> QED BY Zenon, <2>1, <2>2 DEF WasHealthy
  <1>3. ASSUME NEW t \in Targets, Check(t), ~CheckCompleted(t) PROVE UNCHANGED <<healthy, failed>>
    BY Zenon, <1>3 DEF Check, CheckStep, Tick, performCheck, CheckerEnds, ProbeEnds
  <1>4. (\E d \in Deploys : Deployment(d)) \/ Routing \/ UNCHANGED vars => UNCHANGED <<healthy, failed>>
    BY Zenon, DeploymentFrame, RoutingFrame DEF vars, targetVars
  <1> QED BY Zenon, <1>1, <1>2, <1>3, <1>4, NextSplit

LEMMA StickInit == Init => StickInv
  <1> SUFFICES ASSUME Init PROVE StickInv
    OBVIOUS
  <1>1. SessionLock
    BY NullApart DEF Init, SessionLock
  <1>2. ChosenWereHealthy
    BY DEF Init, ChosenWereHealthy
  <1>3. SelectsAfterFailure
    BY DEF Init, SelectsAfterFailure
  <1> QED BY Zenon, <1>1, <1>2, <1>3 DEF StickInv

\* A packet that is at another step, or not under way.
LEMMA StepOf ==
  ASSUME PacketTypes, NEW p \in Packets, NEW to, Goto(p, to)
  PROVE  step'[p] = to /\ \A q \in Packets : q # p => step'[q] = step[q]
  BY Zenon DEF PacketTypes, Goto

\* RoutePacket returns: nobody has the lock, and the packet has nothing left to choose from.
LEMMA RoutedSticks ==
  ASSUME PacketTypes, StickInv, NEW p \in Packets, smLock = p,
         NEW target \in Targets \cup {None}, Routed(p, target)
  PROVE  /\ SessionLock'
         /\ \A q \in Packets : step'[q] # "selecting"
         /\ \A q \in Packets : up'[q] = <<>> \/ up'[q] = up[q]
  <1>1. step'[p] \in {"ended", "forwarding"} /\ \A q \in Packets : q # p => step'[q] = step[q]
    <2>1. CASE target = None
      BY Zenon, <2>1, StepOf DEF Routed, Ends
    <2>2. CASE target # None
      BY Zenon, <2>2, StepOf DEF Routed
    <2> QED BY Zenon, <2>1, <2>2
  <1>2. smLock' = None
    BY Zenon DEF Routed
  <1>3. \A q \in Packets : step'[q] \notin {"routing", "selecting"}
    BY <1>1 DEF StickInv, SessionLock
  <1>4. SessionLock'
    BY Zenon, <1>2, <1>3, NullApart DEF SessionLock
  <1>5. \A q \in Packets : up'[q] = <<>> \/ up'[q] = up[q]
    BY Zenon DEF Routed, PacketTypes
  <1> QED BY Zenon, <1>3, <1>4, <1>5

LEMMA RoutingSticks ==
  ASSUME TypeInv, StickInv, Routing
  PROVE  StickInv'
  <1>0. PacketTypes /\ SessionLock /\ ChosenWereHealthy /\ SelectsAfterFailure
    BY Zenon DEF TypeInv, StickInv
  <1>h. healthy' = healthy /\ failed' = failed /\ \A t : WasHealthy(t)' <=> WasHealthy(t)
    BY Zenon, RoutingFrame DEF targetVars, WasHealthy
  <1>s. UNCHANGED <<session, up>> => ChosenWereHealthy'
    BY Zenon, <1>0, <1>h DEF ChosenWereHealthy
  <1>e. \A t : Len(<<>>) = 0 /\ ~(t \in 1..0)
    OBVIOUS
  <1>c. ASSUME NEW p \in Packets PROVE ClientOf[p] \in Clients /\ session[ClientOf[p]] \in Targets \cup {None}
    BY UDPConstants, <1>0 DEF PacketTypes
  <1>1. ASSUME NEW p \in Packets,
               \/ ServiceForPort(p) \/ ServeUDP(p) \/ ForwardPacket(p)
        PROVE  StickInv'
    <2>1. /\ step[p] \notin {"routing", "selecting"} /\ step'[p] \notin {"routing", "selecting"}
          /\ \A q \in Packets : q # p => step'[q] = step[q]
      BY <1>0, <1>1, StepOf DEF ServiceForPort, ServeUDP, ForwardPacket, Ends
    <2>2. UNCHANGED <<session, smLock, up>>
      BY Zenon, <1>1 DEF ServiceForPort, ServeUDP, ForwardPacket
    <2>3. SessionLock'
      BY Zenon, <1>0, <2>1, <2>2 DEF SessionLock
    <2>4. SelectsAfterFailure'
      BY <1>0, <1>h, <2>1, <2>2 DEF SelectsAfterFailure
    <2> QED BY Zenon, <1>s, <2>2, <2>3, <2>4 DEF StickInv
  <1>2. ASSUME NEW p \in Packets, LockSessions(p) PROVE StickInv'
    <2>1. step'[p] = "routing" /\ \A q \in Packets : q # p => step'[q] = step[q]
      BY Zenon, <1>0, <1>2, StepOf DEF LockSessions
    <2>2. smLock = None /\ smLock' = p /\ UNCHANGED <<session, up>>
      BY Zenon, <1>2 DEF LockSessions
    <2>3. SessionLock'
      BY <1>0, <2>1, <2>2, NullApart DEF SessionLock
    <2>4. SelectsAfterFailure'
      BY <1>0, <1>h, <2>1, <2>2 DEF SelectsAfterFailure
    <2> QED BY Zenon, <1>s, <2>2, <2>3, <2>4 DEF StickInv
  <1>3. ASSUME NEW p \in Packets, RoutePacket(p) PROVE StickInv'
    <2> DEFINE target == session[ClientOf[p]]
    <2>1. step[p] = "routing" /\ smLock = p /\ UNCHANGED session
      BY Zenon, <1>0, <1>3 DEF RoutePacket, SessionLock
    <2>2. CASE Routed(p, target)
      <3>1. target \in Targets \cup {None}
        BY Zenon, <1>c
      <3> HIDE DEF target
      <3>2. /\ SessionLock'
            /\ \A q \in Packets : step'[q] # "selecting"
            /\ \A q \in Packets : up'[q] = <<>> \/ up'[q] = up[q]
        BY Zenon, <1>0, <2>1, <2>2, <3>1, RoutedSticks
      <3>3. ChosenWereHealthy'
        BY <1>0, <1>h, <1>e, <2>1, <3>2 DEF ChosenWereHealthy
      <3>4. SelectsAfterFailure'
        BY Zenon, <3>2 DEF SelectsAfterFailure
      <3> QED BY Zenon, <3>2, <3>3, <3>4 DEF StickInv
    <2>3. CASE ~(target # None /\ healthy[target]) /\ Goto(p, "selecting")
               /\ UNCHANGED <<svc, list, up, chosen, smLock>>
      <3>1. step'[p] = "selecting" /\ \A q \in Packets : q # p => step'[q] = step[q]
        BY Zenon, <1>0, <2>3, StepOf
      <3>2. target # None => target \in failed
        BY Zenon, <1>0, <1>c, <2>3 DEF ChosenWereHealthy, WasHealthy
      <3> HIDE DEF target
      <3>3. SessionLock'
        BY <1>0, <2>1, <2>3, <3>1 DEF SessionLock
      <3>4. SelectsAfterFailure'
        BY <1>0, <1>h, <2>1, <3>1, <3>2 DEF SelectsAfterFailure, target
      <3> QED BY Zenon, <1>s, <2>1, <2>3, <3>3, <3>4 DEF StickInv
    <2> QED BY Zenon, <1>3, <2>2, <2>3 DEF RoutePacket

<1>4. ASSUME NEW p \in Packets, AskHealth(p) PROVE StickInv'
    <2> DEFINE t == Head(list[p])
    <2>1. UNCHANGED <<session, smLock, step>>
      BY Zenon, <1>4 DEF AskHealth
    <2>2. SessionLock' /\ SelectsAfterFailure'
      BY Zenon, <1>0, <1>h, <2>1 DEF SessionLock, SelectsAfterFailure
    <2>3. up' = [up EXCEPT ![p] = IF t # None /\ healthy[t] THEN Append(up[p], t) ELSE up[p]]
      BY <1>4 DEF AskHealth
    <2>4. up[p] \in Seq(Targets) /\ up \in [Packets -> Seq(Targets)]
      BY Zenon, <1>0 DEF PacketTypes
    <2> HIDE DEF t
    <2>5. ASSUME NEW q \in Packets, NEW i \in 1..Len(up'[q]) PROVE WasHealthy(up'[q][i])
      <3>1. CASE up'[q] = up[q]
        BY Zenon, <1>0, <2>5, <3>1 DEF ChosenWereHealthy
      <3>2. CASE q = p /\ healthy[t] /\ up'[q] = Append(up[p], t)
        <4>1. up'[q][i] = t \/ (i \in 1..Len(up[p]) /\ up'[q][i] = up[p][i])
          BY <2>4, <2>5, <3>2
        <4> QED BY Zenon, <1>0, <3>2, <4>1 DEF ChosenWereHealthy, WasHealthy
      <3> QED BY Zenon, <2>3, <2>4, <3>1, <3>2
    <2>6. ChosenWereHealthy'
      BY Zenon, <1>0, <1>h, <2>1, <2>5 DEF ChosenWereHealthy
    <2> QED BY Zenon, <2>2, <2>6 DEF StickInv
  <1>5. ASSUME NEW p \in Packets, selectTarget(p) PROVE StickInv'
    <2> DEFINE c == ClientOf[p]
               target == IF up[p] = <<>> THEN None ELSE up[p][(Hash[c] % Len(up[p])) + 1]
    <2>1. step[p] = "selecting" /\ smLock = p
      BY <1>0, <1>5 DEF selectTarget, SessionLock
    <2>2. Routed(p, target) /\ session' = IF target = None THEN session ELSE [session EXCEPT ![c] = target]
      BY Zenon, <1>5 DEF selectTarget
    <2>3. c \in Clients /\ Hash[c] \in Nat
      BY UDPConstants
    <2>4. target \in Targets \cup {None} /\ (target # None => WasHealthy(target))
      <3>1. CASE up[p] = <<>>
        BY Zenon, <3>1
      <3>2. CASE up[p] # <<>>
        <4>1. up[p] \in Seq(Targets)
          BY Zenon, <1>0 DEF PacketTypes
        <4>2. PICK i \in 1..Len(up[p]) : up[p][(Hash[c] % Len(up[p])) + 1] = up[p][i] /\ up[p][i] \in Targets
          BY Zenon, <2>3, <3>2, <4>1, PickedByHash
        <4> QED BY Zenon, <1>0, <3>2, <4>2 DEF ChosenWereHealthy
      <3> QED BY Zenon, <3>1, <3>2
    <2> HIDE DEF c, target
    <2>5. /\ SessionLock'
          /\ \A q \in Packets : step'[q] # "selecting"
          /\ \A q \in Packets : up'[q] = <<>> \/ up'[q] = up[q]
      BY Zenon, <1>0, <2>1, <2>2, <2>4, RoutedSticks
    <2>6. SelectsAfterFailure'
      BY Zenon, <2>5 DEF SelectsAfterFailure
    <2>7. \A b \in Clients : session'[b] # None => WasHealthy(session'[b])
      BY Zenon, <1>0, <2>2, <2>4 DEF ChosenWereHealthy, PacketTypes
    <2>8. \A q \in Packets : \A i \in 1..Len(up'[q]) : WasHealthy(up'[q][i])
      BY <1>0, <1>e, <2>5 DEF ChosenWereHealthy
    <2>9. ChosenWereHealthy'
      BY Zenon, <1>h, <2>7, <2>8 DEF ChosenWereHealthy
    <2> QED BY Zenon, <2>5, <2>6, <2>9 DEF StickInv
  <1>6. ASSUME NEW c \in Clients, cleanupExpiredSessions(c) PROVE StickInv'
    <2>1. smLock = None /\ UNCHANGED <<smLock, step, up>> /\ session' = [session EXCEPT ![c] = None]
      BY Zenon, <1>6 DEF cleanupExpiredSessions, packetVars
    <2>2. SessionLock'
      BY Zenon, <1>0, <2>1 DEF SessionLock
    <2>3. \A p \in Packets : step'[p] # "selecting"
      BY <1>0, <2>1, NullApart DEF SessionLock
    <2>4. \A b \in Clients : session'[b] # None => WasHealthy(session'[b])
      BY Zenon, <1>0, <2>1 DEF ChosenWereHealthy, PacketTypes
    <2>5. ChosenWereHealthy'
      BY Zenon, <1>0, <1>h, <2>1, <2>4 DEF ChosenWereHealthy
    <2> QED BY Zenon, <2>2, <2>3, <2>5 DEF StickInv, SelectsAfterFailure
  <1> QED BY Zenon, <1>1, <1>2, <1>3, <1>4, <1>5, <1>6 DEF Routing, PacketStep

LEMMA StickNext == TypeInv /\ StickInv /\ [Next]_vars => StickInv'
  <1> SUFFICES ASSUME TypeInv, StickInv, [Next]_vars PROVE StickInv'
    OBVIOUS
  <1>1. failed \subseteq failed' /\ \A t \in Targets : WasHealthy(t) => WasHealthy(t)'
    BY Zenon, HealthKept
  <1>2. CASE UNCHANGED <<session, smLock, packetVars>>
    <2>1. UNCHANGED <<session, smLock, step, up>>
      BY Zenon, <1>2 DEF packetVars
    <2>2. SessionLock' /\ SelectsAfterFailure'
      BY Zenon, <1>1, <2>1 DEF StickInv, SessionLock, SelectsAfterFailure
    <2>3. ASSUME NEW c \in Clients, session[c] # None PROVE WasHealthy(session[c])'
      BY Zenon, <1>1, <2>1, <2>3 DEF StickInv, ChosenWereHealthy, TypeInv, PacketTypes
    <2>4. ASSUME NEW p \in Packets, NEW i \in 1..Len(up[p]) PROVE WasHealthy(up[p][i])'
      <3>1. up[p] \in Seq(Targets)
        BY Zenon DEF TypeInv, PacketTypes
      <3>2. up[p][i] \in Targets
        BY <3>1
      <3> QED BY Zenon, <1>1, <2>1, <3>1, <3>2 DEF StickInv, ChosenWereHealthy
    <2> QED BY Zenon, <2>1, <2>2, <2>3, <2>4 DEF StickInv, ChosenWereHealthy
  <1>3. ~Routing => UNCHANGED <<session, smLock, packetVars>>
    BY Zenon, NextSplit, DeploymentFrame, CheckFrame DEF vars
  <1> QED BY Zenon, <1>2, <1>3, RoutingSticks

\* Within a service a session moves only off a target that has failed a check since
\* it was healthy (RoutePacket, selectTarget), whatever is deployed, checked and
\* expires meanwhile.
THEOREM SessionsStickToTargets == Spec => SessionsStick
  <1> DEFINE Sticks == \A c \in Clients :
                         session[c] # None /\ session'[c] \notin {None, session[c]} => session[c] \in failed
             SticksInService == \A c \in Clients, d \in Deploys :
                                  {session[c], session'[c]} \subseteq Members(TargetsOf[d]) =>
                                    session'[c] = session[c] \/ session[c] \in failed
  <1>1. TypeInv /\ StickInv /\ [Next]_vars => [Sticks]_vars
    <2> SUFFICES ASSUME TypeInv, StickInv, [Next]_vars PROVE Sticks \/ UNCHANGED vars
      OBVIOUS
    <2>1. ASSUME NEW p \in Packets, selectTarget(p) PROVE Sticks
      <3>1. step[p] = "selecting"
        BY Zenon, <2>1 DEF selectTarget
      <3>2. session[ClientOf[p]] # None => session[ClientOf[p]] \in failed
        BY Zenon, <3>1 DEF StickInv, SelectsAfterFailure
      <3>3. \A c \in Clients : c # ClientOf[p] => session'[c] = session[c]
        BY Zenon, <2>1 DEF selectTarget, TypeInv, PacketTypes
      <3> QED BY Zenon, <3>2, <3>3
    <2>2. ASSUME NEW c \in Clients, cleanupExpiredSessions(c) PROVE Sticks
      BY Zenon, <2>2 DEF cleanupExpiredSessions, TypeInv, PacketTypes
    <2>3. CASE UNCHANGED session
      BY Zenon, <2>3
    <2>4. ASSUME NEW p \in Packets, ServiceForPort(p) \/ PacketStep(p), ~selectTarget(p)
          PROVE  UNCHANGED session
      BY Zenon, <2>4 DEF PacketStep, ServiceForPort, ServeUDP, LockSessions, RoutePacket, AskHealth,
                         ForwardPacket
    <2>5. ~Routing => UNCHANGED session
      BY Zenon, NextSplit, DeploymentFrame, CheckFrame DEF vars
    <2> QED BY Zenon, <2>1, <2>2, <2>3, <2>4, <2>5 DEF Routing
  <1>2. Sticks => SticksInService
    <2>1. \A d \in Deploys : None \notin Members(TargetsOf[d])
      BY Zenon, Listed, NullApart
    <2> QED BY Zenon, <2>1
  <1>3. TypeInv /\ StickInv /\ [Next]_vars => [SticksInService]_vars
    BY Zenon, <1>1, <1>2
  <1> QED BY <1>3, TypesInit, TypesNext, StickInit, StickNext, PTL DEF Spec, SessionsStick

-----------------------------------------------------------------------------
\* Replaced services are stopped.

LEMMA ReplaceInit == Init => ReplaceInv
  <1> SUFFICES ASSUME Init PROVE ReplaceInv
    OBVIOUS
  <1>1. service = None /\ mapLock = None /\ \A d \in Deploys : pc[d] = "idle" /\ at[d] = 1
    BY DEF Init
  <1>2. LockHeld
    BY <1>1, NullApart DEF LockHeld, Replacing
  <1>3. Installing /\ StartedRun /\ StoppedInTurn /\ ServiceRuns /\ OthersStopped
    BY <1>1 DEF Installing, StartedRun, StoppedInTurn, ServiceRuns, OthersStopped, Replacing
  <1> QED BY Zenon, <1>2, <1>3 DEF ReplaceInv

\* What stays as it is when the deployments do and no target is started or stopped.
LEMMA RunsKeep ==
  ASSUME TypeInv, ReplaceInv, UNCHANGED <<deployVars, conn>>,
         \A t \in Targets : (Running(t) => Running(t)') /\ (Stopped(t) => Stopped(t)')
  PROVE  ReplaceInv'
  <1>0. /\ UNCHANGED <<service, mapLock, kind, pc, at, conn>>
        /\ LockHeld /\ Installing /\ StartedRun /\ StoppedInTurn /\ ServiceRuns /\ OthersStopped
        /\ service \in Deploys \cup {None}
    BY Zenon DEF deployVars, ReplaceInv, TypeInv, DeployTypes
  <1>1. LockHeld' /\ Installing'
    BY Zenon, <1>0 DEF LockHeld, Installing
  <1>2. StartedRun'
    BY Zenon, <1>0, Listed DEF StartedRun
  <1>3. StoppedInTurn'
    <2>1. ASSUME NEW d \in Deploys, pc[d] \in {"stopping", "awaiting", "emptying"} PROVE service \in Deploys
      BY Zenon, <1>0, <2>1 DEF Installing, Replacing
    <2>2. ASSUME NEW d \in Deploys, pc[d] \in {"stopping", "awaiting"},
                 NEW i \in 1..Len(TargetsOf[service]), i < at[d]
          PROVE  Stopped(TargetsOf[service][i])'
      BY Zenon, <1>0, <2>1, <2>2, Listed DEF StoppedInTurn
    <2>3. ASSUME NEW d \in Deploys, pc[d] = "emptying", NEW t \in Members(TargetsOf[service]) PROVE Stopped(t)'
      BY Zenon, <1>0, <2>1, <2>3, Listed DEF StoppedInTurn
    <2> QED BY Zenon, <1>0, <2>2, <2>3 DEF StoppedInTurn
  <1>4. ServiceRuns'
    BY Zenon, <1>0, Listed DEF ServiceRuns
  <1>5. OthersStopped'
    BY Zenon, <1>0, Listed DEF OthersStopped
  <1> QED BY Zenon, <1>1, <1>2, <1>3, <1>4, <1>5 DEF ReplaceInv

\* A check ends for good only on a closed connection.
LEMMA CheckKeepsRuns ==
  ASSUME TypeInv, NEW t \in Targets, Check(t)
  PROVE  \A u \in Targets : (Running(u) => Running(u)') /\ (Stopped(u) => Stopped(u)')
  <1>0. conn' = conn /\ checker \in [Targets -> {"off", "idle", "entering", "probing", "passed", "failed", "ended"}]
    BY Zenon, CheckFrame DEF TypeInv, TargetTypes
  <1>1. /\ checker[t] # "ended" /\ \A u \in Targets : u # t => checker'[u] = checker[u]
        /\ checker'[t] = "ended" => conn[t] = "closed"
    <2>1. CASE Tick(t)
      BY <1>0, <2>1 DEF Tick
    <2>2. CASE performCheck(t)
      BY <1>0, <2>2 DEF performCheck
    <2>3. CASE CheckCompleted(t)
      BY <1>0, <2>3 DEF CheckCompleted
    <2>4. CASE CheckerEnds(t)
      BY <1>0, <2>4 DEF CheckerEnds
    <2>5. ASSUME NEW answered \in BOOLEAN, ProbeEnds(t, answered)
          PROVE  /\ checker[t] # "ended" /\ \A u \in Targets : u # t => checker'[u] = checker[u]
                 /\ checker'[t] # "ended"
      BY <1>0, <2>5 DEF ProbeEnds
    <2> QED BY Zenon, <2>1, <2>2, <2>3, <2>4, <2>5 DEF Check, CheckStep
  <1> QED BY <1>0, <1>1 DEF Running, Stopped

\* While one deployment has the lock no other is in progress, and the service is
\* neither.
LEMMA Alone ==
  ASSUME TypeInv, ReplaceInv, NEW d \in Deploys, pc[d] \in {"starting"} \cup Replacing
  PROVE  /\ mapLock = d /\ service # d
         /\ \A e \in Deploys : e # d => pc[e] \notin {"starting"} \cup Replacing
  <1>1. LockHeld /\ Installing
    BY Zenon DEF ReplaceInv
  <1>2. mapLock = d /\ \A e \in Deploys : e # d => pc[e] \notin {"starting"} \cup Replacing
    BY Zenon, <1>1 DEF LockHeld
  <1>3. service # d
    BY <1>1, NullApart DEF Installing, Replacing
  <1> QED BY Zenon, <1>2, <1>3

\* One deployment moves on.
LEMMA MoveOf ==
  ASSUME TypeInv, NEW d \in Deploys, NEW to, pc' = [pc EXCEPT ![d] = to]
  PROVE  pc'[d] = to /\ \A e \in Deploys : e # d => pc'[e] = pc[e]
  BY Zenon DEF TypeInv, DeployTypes

LEMMA IssueKeeps ==
  ASSUME TypeInv, ReplaceInv, NEW d \in Deploys, NEW k \in Kinds[d], Issue(d, k)
  PROVE  ReplaceInv'
  <1>0. /\ LockHeld /\ Installing /\ StartedRun /\ StoppedInTurn /\ ServiceRuns /\ OthersStopped
        /\ service \in Deploys \cup {None}
    BY Zenon DEF ReplaceInv, TypeInv, DeployTypes
  <1>1. /\ pc[d] = "idle" /\ mapLock = None /\ mapLock' = d /\ UNCHANGED <<service, at, conn, checker>>
    BY Zenon DEF Issue, targetVars
  <1>2. pc'[d] = "starting" /\ \A e \in Deploys : e # d => pc'[e] = pc[e]
    BY Zenon, MoveOf DEF Issue
  <1>3. \A e \in Deploys : e # d => kind'[e] = kind[e]
    BY Zenon DEF Issue, TypeInv, DeployTypes
  <1>4. \A t : (Running(t)' <=> Running(t)) /\ (Stopped(t)' <=> Stopped(t))
    BY Zenon, <1>1 DEF Running, Stopped
  <1>5. \A e \in Deploys : pc[e] \notin {"starting"} \cup Replacing
    BY Zenon, <1>0, <1>1, NullApart DEF LockHeld
  <1>6. service # d
    BY <1>0, <1>1, NullApart DEF Installing
  <1>7. \A e \in Deploys : pc'[e] \notin Replacing
    BY <1>2, <1>5 DEF Replacing
  <1>8. LockHeld'
    BY <1>1, <1>2, <1>5 DEF LockHeld
  <1>9. Installing'
    BY <1>0, <1>1, <1>2, <1>3, <1>6, <1>7 DEF Installing
  <1>10. StartedRun'
    <2>1. ASSUME NEW e \in Deploys, pc'[e] = "starting", NEW i \in 1..Len(TargetsOf[e]), i < at'[e] PROVE FALSE
      <3>1. e = d
        BY <1>2, <1>5, <2>1
      <3>2. at'[d] = 1
        BY Zenon, <1>0, <1>1 DEF StartedRun
      <3> QED BY <2>1, <3>1, <3>2, Listed
    <2>2. \A e \in Deploys : pc'[e] = "idle" => at'[e] = 1
      BY <1>0, <1>1, <1>2 DEF StartedRun
    <2> QED BY Zenon, <1>7, <2>1, <2>2 DEF StartedRun
  <1>11. StoppedInTurn'
    BY Zenon, <1>7 DEF StoppedInTurn, Replacing
  <1>12. ServiceRuns'
    BY Zenon, <1>0, <1>1, <1>4, <1>5 DEF ServiceRuns
  <1>13. OthersStopped'
    BY <1>0, <1>1, <1>2, <1>3, <1>4 DEF OthersStopped
  <1> QED BY Zenon, <1>8, <1>9, <1>10, <1>11, <1>12, <1>13 DEF ReplaceInv

LEMMA StartTargetKeeps ==
  ASSUME TypeInv, ReplaceInv, NEW d \in Deploys, StartTarget(d)
  PROVE  ReplaceInv'
  <1>0. /\ LockHeld /\ Installing /\ StartedRun /\ StoppedInTurn /\ ServiceRuns /\ OthersStopped
        /\ service \in Deploys \cup {None} /\ at[d] \in Nat \ {0}
    BY Zenon DEF ReplaceInv, TypeInv, DeployTypes
  <1>1. /\ pc[d] = "starting" /\ at[d] <= Len(TargetsOf[d]) /\ UNCHANGED <<service, mapLock, kind, pc>>
        /\ conn' = [conn EXCEPT ![TargetsOf[d][at[d]]] = "open"]
        /\ checker' = [checker EXCEPT ![TargetsOf[d][at[d]]] = "entering"]
        /\ at' = [at EXCEPT ![d] = at[d] + 1]
    BY DEF StartTarget
  <1>2. at[d] \in 1..Len(TargetsOf[d])
    BY <1>0, <1>1, Listed
  <1>3. PICK t \in Targets : t = TargetsOf[d][at[d]] /\ t \in Members(TargetsOf[d])
    BY Zenon, <1>2, Listed
  <1>4. at'[d] = at[d] + 1 /\ \A e \in Deploys : e # d => at'[e] = at[e]
    BY Zenon, <1>1 DEF TypeInv, DeployTypes
  <1>5. Running(t)'
    BY Zenon, <1>1, <1>3 DEF Running, TypeInv, TargetTypes
  <1>6. \A u \in Targets : u # t => (Running(u)' <=> Running(u)) /\ (Stopped(u)' <=> Stopped(u))
    BY Zenon, <1>1, <1>3 DEF Running, Stopped, TypeInv, TargetTypes
  <1>7. service # d /\ \A e \in Deploys : pc[e] \notin Replacing
    BY <1>1, Alone DEF Replacing
  <1>8. LockHeld' /\ Installing'
    BY Zenon, <1>0, <1>1 DEF LockHeld, Installing
  <1>9. StartedRun'
    <2>1. ASSUME NEW i \in 1..Len(TargetsOf[d]), i < at[d] + 1 PROVE Running(TargetsOf[d][i])'
      <3>1. i < at[d] \/ i = at[d]
        BY <1>0, <2>1, Listed
      <3>2. TargetsOf[d][i] \in Targets
        BY Zenon, Listed
      <3>3. i < at[d] => Running(TargetsOf[d][i])
        BY Zenon, <1>0, <1>1 DEF StartedRun
      <3> QED BY Zenon, <1>5, <1>6, <3>1, <1>3, <3>2, <3>3
    <2>2. \A e \in Deploys : pc'[e] = "starting" => e = d
      BY Zenon, <1>1, Alone
    <2>3. \A e \in Deploys : pc'[e] = "idle" => at'[e] = 1
      BY <1>0, <1>1, <1>4 DEF StartedRun
    <2>4. \A i \in 1..Len(TargetsOf[d]) : i < at'[d] => Running(TargetsOf[d][i])'
      BY Zenon, <1>4, <2>1
    <2> QED BY Zenon, <1>1, <1>7, <2>2, <2>3, <2>4 DEF StartedRun
  <1>10. StoppedInTurn'
    BY Zenon, <1>1, <1>7 DEF StoppedInTurn, Replacing
  <1>11. \A e \in Deploys : e # d => \A u \in Members(TargetsOf[e]) : u \in Targets /\ u # t
    <2>1. ASSUME NEW e \in Deploys, e # d, NEW u \in Members(TargetsOf[e]) PROVE u # t
      BY Zenon, <1>3, <2>1, Apart
    <2> QED BY Zenon, <2>1, Listed
  <1>12. ServiceRuns'
    BY Zenon, <1>0, <1>1, <1>6, <1>7, <1>11 DEF ServiceRuns
  <1>13. OthersStopped'
    <2>1. \A e \in Deploys : pc[e] = "done" => e # d
      BY <1>1
    <2> QED BY Zenon, <1>0, <1>1, <1>6, <1>11, <2>1 DEF OthersStopped
  <1> QED BY Zenon, <1>8, <1>9, <1>10, <1>12, <1>13 DEF ReplaceInv

\* A deployment that fails, or that the deployment manager takes or ends, is none
\* that ends as the service.
LEMMA LeaveKeeps ==
  ASSUME TypeInv, ReplaceInv, NEW d \in Deploys,
         StartFails(d) \/ DeployUDPService(d) \/ executeUDPDeployment(d)
  PROVE  ReplaceInv'
  <1>0. /\ LockHeld /\ Installing /\ StartedRun /\ StoppedInTurn /\ ServiceRuns /\ OthersStopped
        /\ service \in Deploys \cup {None}
    BY Zenon DEF ReplaceInv, TypeInv, DeployTypes
  <1>1. UNCHANGED <<service, kind, at, conn, checker>>
    BY Zenon DEF StartFails, DeployUDPService, executeUDPDeployment, targetVars
  <1>2. PICK to \in {"failed", "checking", "done"} : pc' = [pc EXCEPT ![d] = to]
    BY DEF StartFails, DeployUDPService, executeUDPDeployment
  <1>3. pc'[d] = to /\ \A e \in Deploys : e # d => pc'[e] = pc[e]
    BY Zenon, <1>2, MoveOf
  <1>4. pc[d] \in {"starting", "checking"} /\ (to # "failed" => kind[d] = "zerodowntime")
    BY <1>0, <1>2, <1>3 DEF StartFails, DeployUDPService, executeUDPDeployment, AllStarted, Installing
  <1>5. \A t : (Running(t)' <=> Running(t)) /\ (Stopped(t)' <=> Stopped(t))
    BY Zenon, <1>1 DEF Running, Stopped
  <1>6. service # d
    BY <1>0, <1>4, NullApart DEF Installing
  <1>7. /\ pc'[d] \notin {"idle", "starting"} \cup Replacing
        /\ \A e \in Deploys : pc'[e] \in Replacing <=> pc[e] \in Replacing
    BY <1>3, <1>4 DEF Replacing
  <1>8. LockHeld'
    <2>1. CASE pc[d] = "starting"
      <3>1. mapLock' = None
        BY <2>1 DEF StartFails, DeployUDPService, executeUDPDeployment
      <3>2. \A e \in Deploys : e # d => pc[e] \notin {"starting"} \cup Replacing
        BY Zenon, <2>1, Alone
      <3> QED BY <1>3, <1>7, <3>1, <3>2, NullApart DEF LockHeld
    <2>2. CASE pc[d] = "checking"
      <3>1. mapLock' = mapLock
        BY <2>2 DEF StartFails, DeployUDPService, executeUDPDeployment, AllStarted
      <3>2. mapLock # d
        BY <1>0, <2>2 DEF LockHeld, Replacing
      <3> QED BY <1>0, <1>3, <1>7, <3>1, <3>2 DEF LockHeld
    <2> QED BY <1>4, <2>1, <2>2
  <1>9. Installing'
    BY <1>0, <1>1, <1>3, <1>4, <1>6, <1>7 DEF Installing
  <1>10. StartedRun'
    <2>1. ASSUME NEW e \in Deploys, pc'[e] = "starting" \/ pc'[e] = "idle" PROVE pc[e] = pc'[e]
      BY <1>3, <1>7, <2>1
    <2> QED BY Zenon, <1>0, <1>1, <1>5, <1>7, <2>1 DEF StartedRun
  <1>11. StoppedInTurn'
    <2>1. ASSUME NEW e \in Deploys, pc'[e] \in Replacing PROVE pc'[e] = pc[e]
      BY Zenon, <1>3, <1>7, <2>1
    <2>2. \A e \in Deploys : /\ pc'[e] \in {"stopping", "awaiting"} => pc'[e] = pc[e]
                             /\ pc'[e] = "awaiting" => pc'[e] = pc[e]
                             /\ pc'[e] = "emptying" => pc'[e] = pc[e]
      BY Zenon, <2>1 DEF Replacing
    <2> QED BY Zenon, <1>0, <1>1, <1>5, <2>2 DEF StoppedInTurn
  <1>12. ServiceRuns'
    BY Zenon, <1>0, <1>1, <1>5, <1>7 DEF ServiceRuns
  <1>13. OthersStopped'
    <2>1. ASSUME NEW e \in Deploys, pc'[e] = "done", kind[e] = "deploy" PROVE pc[e] = "done"
      BY <1>3, <1>4, <2>1
    <2> QED BY Zenon, <1>0, <1>1, <1>5, <2>1 DEF OthersStopped
  <1> QED BY Zenon, <1>8, <1>9, <1>10, <1>11, <1>12, <1>13 DEF ReplaceInv

\* DeployService begins to replace the service: what it has started runs.
LEMMA ReplaceServiceKeeps ==
  ASSUME TypeInv, ReplaceInv, NEW d \in Deploys, ReplaceService(d)
  PROVE  ReplaceInv'
  <1>0. /\ LockHeld /\ Installing /\ StartedRun /\ StoppedInTurn /\ ServiceRuns /\ OthersStopped
        /\ service \in Deploys \cup {None} /\ at \in [Deploys -> Nat \ {0}]
    BY Zenon DEF ReplaceInv, TypeInv, DeployTypes
  <1>1. /\ pc[d] = "starting" /\ at[d] > Len(TargetsOf[d]) /\ kind[d] = "deploy" /\ service # None
        /\ at' = [at EXCEPT ![d] = 1] /\ UNCHANGED <<service, mapLock, kind, conn, checker>>
    BY Zenon DEF ReplaceService, AllStarted, targetVars
  <1>2. pc'[d] = "stopping" /\ \A e \in Deploys : e # d => pc'[e] = pc[e]
    BY Zenon, MoveOf DEF ReplaceService
  <1>3. at'[d] = 1 /\ \A e \in Deploys : e # d => at'[e] = at[e]
    BY Zenon, <1>0, <1>1
  <1>4. \A t : (Running(t)' <=> Running(t)) /\ (Stopped(t)' <=> Stopped(t))
    BY Zenon, <1>1 DEF Running, Stopped
  <1>5. mapLock = d /\ service # d /\ \A e \in Deploys : e # d => pc[e] \notin {"starting"} \cup Replacing
    BY Zenon, <1>1, Alone
  <1>6. LockHeld'
    BY <1>1, <1>2, <1>5 DEF LockHeld, Replacing
  <1>7. Installing'
    BY <1>0, <1>1, <1>2, <1>5 DEF Installing, Replacing
  <1>8. StartedRun'
    <2>1. ASSUME NEW t \in Members(TargetsOf[d]) PROVE Running(t)
      <3>1. PICK i \in 1..Len(TargetsOf[d]) : t = TargetsOf[d][i]
        BY Zenon, Listed
      <3>2. i < at[d]
        BY <1>0, <1>1, <3>1, Listed
      <3> QED BY Zenon, <1>0, <1>1, <3>1, <3>2 DEF StartedRun
    <2>2. \A e \in Deploys : pc'[e] # "starting" /\ (pc'[e] \in Replacing => e = d)
      BY <1>2, <1>5
    <2>3. \A e \in Deploys : pc'[e] = "idle" => at'[e] = 1
      BY <1>0, <1>2, <1>3 DEF StartedRun
    <2> QED BY Zenon, <1>4, <2>1, <2>2, <2>3 DEF StartedRun
  <1>9. StoppedInTurn'
    <2>1. \A e \in Deploys : pc'[e] # "awaiting" /\ pc'[e] # "emptying" /\ (pc'[e] = "stopping" => e = d)
      BY <1>2, <1>5 DEF Replacing
    <2>2. \A i \in 1..Len(TargetsOf[service']) : ~(i < at'[d])
      BY <1>3
    <2> QED BY Zenon, <2>1, <2>2 DEF StoppedInTurn
  <1>10. ServiceRuns'
    BY <1>2 DEF ServiceRuns, Replacing
  <1>11. OthersStopped'
    BY <1>0, <1>1, <1>2, <1>4 DEF OthersStopped
  <1> QED BY Zenon, <1>6, <1>7, <1>8, <1>9, <1>10, <1>11 DEF ReplaceInv

\* Stop closes a target of the service, and of no other.
LEMMA StopTargetKeeps ==
  ASSUME TypeInv, ReplaceInv, NEW d \in Deploys, StopTarget(d)
  PROVE  ReplaceInv'
  <1>0. /\ LockHeld /\ Installing /\ StartedRun /\ StoppedInTurn /\ ServiceRuns /\ OthersStopped
        /\ service \in Deploys \cup {None} /\ at[d] \in Nat \ {0}
    BY Zenon DEF ReplaceInv, TypeInv, DeployTypes
  <1>1. /\ pc[d] = "stopping" /\ at[d] <= Len(TargetsOf[service])
        /\ conn' = [conn EXCEPT ![TargetsOf[service][at[d]]] = "closed"]
        /\ UNCHANGED <<service, mapLock, kind, at, checker>>
    BY DEF StopTarget
  <1>2. pc'[d] = "awaiting" /\ \A e \in Deploys : e # d => pc'[e] = pc[e]
    BY Zenon, MoveOf DEF StopTarget
  <1>3. /\ mapLock = d /\ service # d /\ pc[d] \in Replacing
        /\ \A e \in Deploys : e # d => pc[e] \notin {"starting"} \cup Replacing
    BY Zenon, <1>1, Alone DEF Replacing
  <1>4. service \in Deploys /\ kind[d] = "deploy"
    BY Zenon, <1>0, <1>3 DEF Installing
  <1>5. at[d] \in 1..Len(TargetsOf[service])
    BY <1>0, <1>1, <1>4, Listed
  <1>6. PICK t \in Targets : t = TargetsOf[service][at[d]] /\ t \in Members(TargetsOf[service])
    BY Zenon, <1>4, <1>5, Listed
  <1>7. conn'[t] = "closed" /\ \A u \in Targets : u # t => conn'[u] = conn[u]
    BY Zenon, <1>1, <1>6 DEF TypeInv, TargetTypes
  <1>8. \A u \in Targets : Stopped(u) => Stopped(u)'
    BY Zenon, <1>1, <1>7 DEF Stopped
  <1>9. \A u \in Targets : u # t /\ Running(u) => Running(u)'
    BY Zenon, <1>1, <1>7 DEF Running
  <1>10. LockHeld'
    BY <1>1, <1>2, <1>3 DEF LockHeld, Replacing
  <1>11. Installing'
    BY <1>0, <1>1, <1>2, <1>3, <1>4 DEF Installing, Replacing
  <1>12. StartedRun'
    <2>1. ASSUME NEW u \in Members(TargetsOf[d]) PROVE Running(u)'
      <3>1. u \notin Members(TargetsOf[service])
        BY Zenon, <1>3, <1>4, Apart
      <3>t. u # t /\ u \in Targets
        BY Zenon, <1>6, <3>1, Listed
      <3>2. Running(u)
        BY Zenon, <1>0, <1>3 DEF StartedRun
      <3> QED BY Zenon, <1>9, <3>t, <3>2
    <2>2. \A e \in Deploys : pc'[e] # "starting" /\ (pc'[e] \in Replacing => e = d)
      BY <1>2, <1>3
    <2>3. \A e \in Deploys : pc'[e] = "idle" => at'[e] = 1
      BY <1>0, <1>1, <1>2 DEF StartedRun
    <2> QED BY Zenon, <2>1, <2>2, <2>3 DEF StartedRun
  <1>13. StoppedInTurn'
    <2>1. ASSUME NEW i \in 1..Len(TargetsOf[service]), i < at[d] PROVE Stopped(TargetsOf[service][i])'
      <3>1. TargetsOf[service][i] \in Targets
        BY Zenon, <1>4, Listed
      <3>2. Stopped(TargetsOf[service][i])
        BY Zenon, <1>0, <1>1, <2>1 DEF StoppedInTurn
      <3> QED BY Zenon, <1>1, <1>8, <3>1, <3>2
    <2>2. \A e \in Deploys : pc'[e] # "emptying" /\ (pc'[e] \in {"stopping", "awaiting"} => e = d)
      BY <1>2, <1>3 DEF Replacing
    <2>3. at'[d] \in 1..Len(TargetsOf[service']) /\ conn'[TargetsOf[service'][at'[d]]] = "closed"
      BY Zenon, <1>1, <1>5, <1>6, <1>7
    <2> QED BY Zenon, <1>1, <2>1, <2>2, <2>3 DEF StoppedInTurn
  <1>14. ServiceRuns'
    BY <1>2 DEF ServiceRuns, Replacing
  <1>15. OthersStopped'
    <2>1. \A e \in Deploys : pc'[e] = "done" => pc[e] = "done"
      BY <1>2
    <2> QED BY Zenon, <1>0, <1>1, <1>8, <2>1, Listed DEF OthersStopped
  <1> QED BY Zenon, <1>10, <1>11, <1>12, <1>13, <1>14, <1>15 DEF ReplaceInv

\* Stop goes on to the next target, or to the end, when the checker has ended.
LEMMA StoppedKeeps ==
  ASSUME TypeInv, ReplaceInv, NEW d \in Deploys, TargetStopped(d) \/ TargetsToNil(d)
  PROVE  ReplaceInv'
  <1>0. /\ LockHeld /\ Installing /\ StartedRun /\ StoppedInTurn /\ ServiceRuns /\ OthersStopped
        /\ service \in Deploys \cup {None} /\ at \in [Deploys -> Nat \ {0}]
    BY Zenon DEF ReplaceInv, TypeInv, DeployTypes
  <1>1. UNCHANGED <<service, mapLock, kind, conn, checker>>
    BY Zenon DEF TargetStopped, TargetsToNil, targetVars
  <1>2. PICK to \in {"stopping", "emptying"} : pc' = [pc EXCEPT ![d] = to]
    BY DEF TargetStopped, TargetsToNil
  <1>3. pc'[d] = to /\ \A e \in Deploys : e # d => pc'[e] = pc[e]
    BY Zenon, <1>2, MoveOf
  <1>4. \A e \in Deploys : e # d => at'[e] = at[e]
    BY Zenon, <1>0 DEF TargetStopped, TargetsToNil
  <1>5. pc[d] \in Replacing /\ to \in Replacing
    BY <1>2 DEF TargetStopped, TargetsToNil, Replacing
  <1>6. mapLock = d /\ service # d /\ \A e \in Deploys : e # d => pc[e] \notin {"starting"} \cup Replacing
    BY Zenon, <1>5, Alone
  <1>7. service \in Deploys /\ kind[d] = "deploy"
    BY Zenon, <1>0, <1>5 DEF Installing
  <1>8. \A t : (Running(t)' <=> Running(t)) /\ (Stopped(t)' <=> Stopped(t))
    BY Zenon, <1>1 DEF Running, Stopped
  <1>9. LockHeld'
    BY Zenon, <1>1, <1>3, <1>5, <1>6 DEF LockHeld
  <1>10. Installing'
    <2>1. service' # None => pc'[service'] = "done" /\ kind'[service'] = "deploy"
      BY Zenon, <1>0, <1>1, <1>3, <1>6, <1>7 DEF Installing
    <2>2. \A e \in Deploys : pc'[e] = "checking" => pc[e] = "checking"
      BY <1>2, <1>3
    <2> QED BY Zenon, <1>0, <1>1, <1>3, <1>6, <1>7, <2>1, <2>2, NullApart DEF Installing
  <1>11. StartedRun'
    <2>1. \A e \in Deploys : pc'[e] # "starting" /\ (pc'[e] \in Replacing => e = d)
      BY <1>2, <1>3, <1>6
    <2>2. \A e \in Deploys : pc'[e] = "idle" => at'[e] = 1
      BY <1>0, <1>2, <1>3, <1>4 DEF StartedRun
    <2> QED BY Zenon, <1>0, <1>5, <1>8, <2>1, <2>2 DEF StartedRun
  <1>12. StoppedInTurn'
    <2>1. \A e \in Deploys : pc'[e] # "awaiting" /\ (pc'[e] \in {"stopping", "emptying"} => e = d)
      BY <1>2, <1>3, <1>6 DEF Replacing
    <2>2. CASE TargetStopped(d)
      <3>1. pc[d] = "awaiting" /\ checker[TargetsOf[service][at[d]]] = "ended" /\ at' = [at EXCEPT ![d] = at[d] + 1]
        BY <2>2 DEF TargetStopped
      <3>2. at'[d] = at[d] + 1 /\ at[d] \in Nat
        BY Zenon, <1>0, <3>1
      <3>3. Stopped(TargetsOf[service][at[d]])
        BY Zenon, <1>0, <3>1 DEF StoppedInTurn, Stopped
      <3>4. ASSUME NEW i \in 1..Len(TargetsOf[service]), i < at'[d] PROVE Stopped(TargetsOf[service][i])
        <4>1. i < at[d] \/ i = at[d]
          BY <1>7, <3>2, <3>4, Listed
        <4> QED BY Zenon, <1>0, <3>1, <3>3, <4>1 DEF StoppedInTurn
      <3>5. pc'[d] = "stopping"
        BY Zenon, <2>2, MoveOf DEF TargetStopped
      <3>6. \A e \in Deploys : pc'[e] # "emptying"
        BY <2>1, <3>5
      <3> QED BY Zenon, <1>1, <1>8, <2>1, <3>4, <3>6 DEF StoppedInTurn
    <2>3. CASE TargetsToNil(d)
      <3>1. pc[d] = "stopping" /\ at[d] > Len(TargetsOf[service])
        BY Zenon, <2>3 DEF TargetsToNil
      <3>2. ASSUME NEW t \in Members(TargetsOf[service]) PROVE Stopped(t)
        <4>1. PICK i \in 1..Len(TargetsOf[service]) : t = TargetsOf[service][i]
          BY Zenon, <1>7, Listed
        <4>2. i < at[d]
          BY <1>0, <1>7, <3>1, <4>1, Listed
        <4> QED BY Zenon, <1>0, <3>1, <4>1, <4>2 DEF StoppedInTurn
      <3>3. pc'[d] = "emptying"
        BY Zenon, <2>3, MoveOf DEF TargetsToNil
      <3>4. \A e \in Deploys : pc'[e] \notin {"stopping", "awaiting"}
        BY <2>1, <3>3
      <3> QED BY Zenon, <1>1, <1>8, <2>1, <3>2, <3>4 DEF StoppedInTurn
    <2> QED BY Zenon, <2>2, <2>3
  <1>13. ServiceRuns'
    BY Zenon, <1>3, <1>5 DEF ServiceRuns
  <1>14. OthersStopped'
    <2>1. \A e \in Deploys : pc'[e] = "done" => pc[e] = "done"
      BY <1>2, <1>3
    <2> QED BY Zenon, <1>0, <1>1, <1>8, <2>1 DEF OthersStopped
  <1> QED BY Zenon, <1>9, <1>10, <1>11, <1>12, <1>13, <1>14 DEF ReplaceInv

\* The new service is installed: what it has started runs, and what it replaced has
\* been stopped.
LEMMA DeployServiceKeeps ==
  ASSUME TypeInv, ReplaceInv, NEW d \in Deploys, DeployService(d)
  PROVE  ReplaceInv'
  <1>0. /\ LockHeld /\ Installing /\ StartedRun /\ StoppedInTurn /\ ServiceRuns /\ OthersStopped
        /\ service \in Deploys \cup {None} /\ at \in [Deploys -> Nat \ {0}]
    BY Zenon DEF ReplaceInv, TypeInv, DeployTypes
  <1>1. mapLock' = None /\ service' = d /\ UNCHANGED <<kind, at, conn, checker>>
    BY Zenon DEF DeployService, targetVars
  <1>2. pc'[d] = "done" /\ \A e \in Deploys : e # d => pc'[e] = pc[e]
    BY Zenon, MoveOf DEF DeployService
  <1>3. \A t : (Running(t)' <=> Running(t)) /\ (Stopped(t)' <=> Stopped(t))
    BY Zenon, <1>1 DEF Running, Stopped
  <1>4. /\ pc[d] \in {"starting"} \cup Replacing /\ kind[d] = "deploy"
        /\ \A t \in Members(TargetsOf[d]) : Running(t)
        /\ service # None => \A t \in Members(TargetsOf[service]) : Stopped(t)
    <2>1. CASE AllStarted(d) /\ kind[d] = "deploy" /\ service = None
      <3>1. pc[d] = "starting" /\ at[d] > Len(TargetsOf[d])
        BY Zenon, <2>1 DEF AllStarted
      <3>2. ASSUME NEW t \in Members(TargetsOf[d]) PROVE Running(t)
        <4>1. PICK i \in 1..Len(TargetsOf[d]) : t = TargetsOf[d][i]
          BY Zenon, Listed
        <4>2. i < at[d]
          BY <1>0, <3>1, <4>1, Listed
        <4> QED BY Zenon, <1>0, <3>1, <4>1, <4>2 DEF StartedRun
      <3> QED BY Zenon, <2>1, <3>1, <3>2
    <2>2. CASE pc[d] = "emptying"
      <3>1. pc[d] \in Replacing
        BY Zenon, <2>2 DEF Replacing
      <3> QED BY Zenon, <1>0, <2>2, <3>1 DEF Installing, StartedRun, StoppedInTurn
    <2> QED BY Zenon, <2>1, <2>2 DEF DeployService
  <1>5. \A e \in Deploys : e # d => pc[e] \notin {"starting"} \cup Replacing
    BY Zenon, <1>4, Alone
  <1>6. \A e \in Deploys : pc'[e] \notin {"starting"} \cup Replacing
    BY <1>2, <1>5 DEF Replacing
  <1>7. LockHeld'
    BY Zenon, <1>1, <1>6, NullApart DEF LockHeld
  <1>8. Installing'
    <2>1. \A e \in Deploys : pc'[e] = "checking" => pc[e] = "checking"
      BY <1>2
    <2> QED BY Zenon, <1>0, <1>1, <1>2, <1>4, <1>6, <2>1 DEF Installing
  <1>9. StartedRun'
    <2>1. \A e \in Deploys : pc'[e] = "idle" => pc[e] = "idle"
      BY <1>2
    <2>2. \A e \in Deploys : pc'[e] # "starting"
      BY <1>6
    <2> QED BY Zenon, <1>0, <1>1, <1>6, <2>1, <2>2 DEF StartedRun
  <1>10. StoppedInTurn'
    BY Zenon, <1>6 DEF StoppedInTurn, Replacing
  <1>11. ServiceRuns'
    BY Zenon, <1>1, <1>3, <1>4 DEF ServiceRuns
  <1>12. OthersStopped'
    <2>1. ASSUME NEW e \in Deploys, pc'[e] = "done", kind'[e] = "deploy", e # d,
                 NEW t \in Members(TargetsOf[e])
          PROVE  Stopped(t)
      <3>1. pc[e] = "done" /\ kind[e] = "deploy"
        BY Zenon, <1>1, <1>2, <2>1
      <3>2. CASE e = service
        BY Zenon, <1>4, <2>1, <3>2, NullApart
      <3>3. CASE e # service
        BY Zenon, <1>0, <2>1, <3>1, <3>3 DEF OthersStopped
      <3> QED BY Zenon, <3>2, <3>3
    <2> QED BY Zenon, <1>1, <1>3, <2>1 DEF OthersStopped
  <1> QED BY Zenon, <1>7, <1>8, <1>9, <1>10, <1>11, <1>12 DEF ReplaceInv

LEMMA ReplaceNext == TypeInv /\ ReplaceInv /\ [Next]_vars => ReplaceInv'
  <1> SUFFICES ASSUME TypeInv, ReplaceInv, [Next]_vars PROVE ReplaceInv'
    OBVIOUS
  <1>1. ASSUME NEW d \in Deploys, Deployment(d) PROVE ReplaceInv'
    BY Zenon, <1>1, IssueKeeps, StartTargetKeeps, LeaveKeeps, ReplaceServiceKeeps, StopTargetKeeps,
       StoppedKeeps, DeployServiceKeeps DEF Deployment, DeployStep
  <1>2. ASSUME NEW t \in Targets, Check(t) PROVE ReplaceInv'
    BY Zenon, <1>2, CheckFrame, CheckKeepsRuns, RunsKeep
  <1>3. CASE UNCHANGED <<deployVars, targetVars>>
    BY Zenon, <1>3, RunsKeep DEF targetVars, Running, Stopped
  <1> QED BY Zenon, <1>1, <1>2, <1>3, NextSplit, RoutingFrame DEF vars

\* When no deployment is in progress, the targets of the service in the map run and
\* those of every service it replaced have been stopped (DeployService,
\* UDPService.Stop), also if their checks and packets to them were under way.
THEOREM ReplacedServicesStopped == Spec => []ReplacedAreStopped
  <1>1. TypeInv /\ ReplaceInv => ReplacedAreStopped
    <2> SUFFICES ASSUME TypeInv, ReplaceInv, mapLock = None,
                        NEW d \in Deploys, pc[d] = "done", kind[d] = "deploy",
                        NEW t \in Members(TargetsOf[d])
                 PROVE  IF d = service THEN Running(t) ELSE Stopped(t)
      BY Zenon DEF ReplacedAreStopped, Running, Stopped
    <2>1. \A e \in Deploys : pc[e] \notin Replacing
      BY Zenon, NullApart DEF ReplaceInv, LockHeld
    <2>2. CASE d = service
      BY Zenon, <2>1, <2>2, NullApart DEF ReplaceInv, ServiceRuns
    <2>3. CASE d # service
      BY Zenon, <2>3 DEF ReplaceInv, OthersStopped
    <2> QED BY Zenon, <2>2, <2>3
  <1> QED BY <1>1, TypesInit, TypesNext, ReplaceInit, ReplaceNext, PTL DEF Spec
=============================================================================
