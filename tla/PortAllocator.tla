---------------------------- MODULE PortAllocator ----------------------------
(***************************************************************************)
(* The allocation of RTP/RTCP port pairs (port_allocator.go) under the     *)
(* WebRTC deployments that use it (udp_service_map.go, udp_deployment.go). *)
(*                                                                         *)
(* A deployment holds the map's lock while it allocates, but the clean-up  *)
(* of a zero-downtime deployment whose targets stay unhealthy does not: it *)
(* frees its pairs one by one, by port number, between the steps of        *)
(* others.  Each operation of the allocator is atomic by its own lock.     *)
(*                                                                         *)
(* Other programs may hold any port at any moment, also between the test   *)
(* of isPortAvailable and the bind, so that any pair that is not the       *)
(* proxy's own may be the first that the scan of the range can bind, and   *)
(* it may find none.  InUse is never FALSE (only CurrentAllocations, which *)
(* nothing assigns, would make it so), hence no allocation expires.        *)
(***************************************************************************)
EXTENDS Naturals, Sequences

CONSTANTS
  Deploys,     \* the deployments
  Names,       \* the names of WebRTC services
  NumTargets,  \* the number of targets a deployment brings
  RTPStart, RTPEnd, RTPStep,  \* PortConfig.RTPPortRange
  None

ASSUME PortConstants ==
  /\ NumTargets \in Nat
  /\ RTPStart \in Nat /\ RTPEnd \in Nat /\ RTPStep \in Nat \ {0}
  /\ None \notin Deploys \cup Names

Ports == RTPStart..RTPEnd

\* The RTP ports that allocateAdjacentPair tries: start, start + step, ... < end.
RTPPorts == {p \in Ports : p < RTPEnd /\ (p - RTPStart) % RTPStep = 0}

\* An allocation of allocateAdjacentPair; the RTCP port is the one after RTPPort.
Allocations == [deploy : Deploys, target : 1..NumTargets, rtp : RTPPorts]

PairOf(a) == {a.rtp, a.rtp + 1}

VARIABLES
  allocated,     \* the allocation that has each port
  listeners,     \* the ports the allocator listens on
  portServices,  \* the deployment that made each service
  mapLock,       \* the deployment that holds the map's lock
  pc, kind, name, at,  \* of each deployment: where it is, what, for which name, at which target
  held,          \* the allocations in its hands, in order
  redeployed     \* history: some name has been deployed again

vars == <<allocated, listeners, portServices, mapLock, pc, kind, name, at, held, redeployed>>

NoAllocation == [deploy |-> None, target |-> 0, rtp |-> 0]

\* Type correctness of the allocator's maps and of the deployments.
TypeOK ==
  /\ allocated \in [Ports -> Allocations \cup {NoAllocation}]
  /\ listeners \subseteq Ports
  /\ portServices \in [Names -> Deploys \cup {None}]
  /\ mapLock \in Deploys \cup {None}
  /\ pc \in [Deploys -> {"idle", "allocating", "replacing", "stopping", "undoing", "checking",
                         "cleaning", "done", "failed"}]
  /\ kind \in [Deploys -> {"deploy", "zerodowntime", "none"}]
  /\ name \in [Deploys -> Names \cup {None}]
  /\ at \in [Deploys -> 1..NumTargets + 1]
  /\ held \in [Deploys -> Seq(Allocations)]
  /\ redeployed \in BOOLEAN

\* NewPortAllocator
Init ==
  /\ allocated = [p \in Ports |-> NoAllocation]
  /\ listeners = {}
  /\ portServices = [n \in Names |-> None]
  /\ mapLock = None
  /\ pc = [d \in Deploys |-> "idle"]
  /\ kind = [d \in Deploys |-> "none"]
  /\ name = [d \in Deploys |-> None]
  /\ at = [d \in Deploys |-> 1]
  /\ held = [d \in Deploys |-> <<>>]
  /\ redeployed = FALSE

-----------------------------------------------------------------------------
\* The allocator.

\* Both ports have no allocation, and can be bound.
isPortAvailable(p) == allocated[p] = NoAllocation /\ p \notin listeners

allocateAdjacentPair(a) ==
  /\ \A p \in PairOf(a) : isPortAvailable(p)
  /\ allocated' = [p \in Ports |-> IF p \in PairOf(a) THEN a ELSE allocated[p]]
  /\ listeners' = listeners \cup PairOf(a)

\* Mutant: the entry of the RTCP port stays.
DeallocatePort_KeepsRTCP(port) ==
  LET a == allocated[port] IN
  IF a = NoAllocation THEN UNCHANGED <<allocated, listeners>>
  ELSE /\ allocated' = [allocated EXCEPT ![a.rtp] = NoAllocation]
       /\ listeners' = listeners \ PairOf(a)

\* Mutant: all the pairs of the deployment's service are freed.
DeallocatePort_WholeService(port) ==
  LET a == allocated[port]
      Freed == {p \in Ports : /\ allocated[p] # NoAllocation
                              /\ name[allocated[p].deploy] = name[a.deploy]} IN
  IF a = NoAllocation THEN UNCHANGED <<allocated, listeners>>
  ELSE /\ allocated' = [p \in Ports |-> IF p \in Freed THEN NoAllocation ELSE allocated[p]]
       /\ listeners' = listeners \ Freed

\* The pair that has the port now is freed, whoever allocated it; it is an error,
\* which no caller looks at, if there is none.
DeallocatePort(port) ==
  LET a == allocated[port] IN
  IF a = NoAllocation THEN UNCHANGED <<allocated, listeners>>
  ELSE /\ allocated' = [p \in Ports |-> IF p \in PairOf(a) THEN NoAllocation ELSE allocated[p]]
       /\ listeners' = listeners \ PairOf(a)

\* The pairs allocated under the service's name are freed.
DeallocateService(n) ==
  LET Freed == {p \in Ports : /\ allocated[p] # NoAllocation
                              /\ name[allocated[p].deploy] = n} IN
  /\ allocated' = [p \in Ports |-> IF p \in Freed THEN NoAllocation ELSE allocated[p]]
  /\ listeners' = listeners \ UNION {PairOf(allocated[p]) : p \in Freed}

-----------------------------------------------------------------------------
\* Deployments.

Issue(d, n, k) ==
  /\ pc[d] = "idle"
  /\ mapLock = None
  /\ mapLock' = d
  /\ pc' = [pc EXCEPT ![d] = "allocating"]
  /\ kind' = [kind EXCEPT ![d] = k]
  /\ name' = [name EXCEPT ![d] = n]
  /\ UNCHANGED <<allocated, listeners, portServices, at, held, redeployed>>

Returns(d, to) ==
  /\ mapLock' = None
  /\ pc' = [pc EXCEPT ![d] = to]

\* A pair for the next target.
Allocate(d, p) ==
  LET a == [deploy |-> d, target |-> at[d], rtp |-> p] IN
  /\ pc[d] = "allocating"
  /\ at[d] <= NumTargets
  /\ allocateAdjacentPair(a)
  /\ held' = [held EXCEPT ![d] = Append(@, a)]
  /\ at' = [at EXCEPT ![d] = @ + 1]
  /\ UNCHANGED <<portServices, mapLock, pc, kind, name, redeployed>>

\* No pair is found.  DeployWebRTCService goes on to its next target; a
\* zero-downtime deployment gives up: it stops its targets, and then frees the
\* pairs it has.
AllocateFails(d) ==
  /\ pc[d] = "allocating"
  /\ at[d] <= NumTargets
  /\ IF kind[d] = "deploy"
       THEN at' = [at EXCEPT ![d] = @ + 1] /\ UNCHANGED pc
       ELSE pc' = [pc EXCEPT ![d] = "stopping"] /\ UNCHANGED at
  /\ UNCHANGED <<allocated, listeners, portServices, mapLock, kind, name, held, redeployed>>

\* The targets' Stop has returned.  It need not (Hung in UDPService): the
\* deployment then keeps its pairs and the map's lock, as it may here.
TargetsStopped(d) ==
  /\ pc[d] = "stopping"
  /\ pc' = [pc EXCEPT ![d] = "undoing"]
  /\ UNCHANGED <<allocated, listeners, portServices, mapLock, kind, name, at, held, redeployed>>

\* A target cannot be made or started.  DeployWebRTCService starts each target
\* before its pair, and leaves the pairs it has as they are; a zero-downtime
\* deployment has none yet.
TargetFails(d) ==
  /\ pc[d] = "allocating"
  /\ at[d] <= NumTargets
  /\ kind[d] = "zerodowntime" => at[d] = 1
  /\ Returns(d, "failed")
  /\ UNCHANGED <<allocated, listeners, portServices, kind, name, at, held, redeployed>>

\* There is a service of the name, and its Stop begins, which need not return
\* either.
ReplaceService(d) ==
  /\ pc[d] = "allocating" /\ at[d] > NumTargets
  /\ kind[d] = "deploy"
  /\ held[d] # <<>> /\ portServices[name[d]] # None
  /\ pc' = [pc EXCEPT ![d] = "replacing"]
  /\ UNCHANGED <<allocated, listeners, portServices, mapLock, kind, name, at, held, redeployed>>

\* The service is installed; when it replaces one, that one has stopped, and the
\* pairs of the name are freed.  Without any pair the deployment fails.
DeployWebRTCService(d) ==
  /\ \/ /\ pc[d] = "allocating" /\ at[d] > NumTargets
        /\ held[d] = <<>> \/ portServices[name[d]] = None
     \/ pc[d] = "replacing"
  /\ kind[d] = "deploy"
  /\ IF held[d] = <<>>
       THEN Returns(d, "failed") /\ UNCHANGED <<allocated, listeners, portServices, redeployed>>
       ELSE /\ IF portServices[name[d]] # None
                 THEN DeallocateService(name[d]) /\ redeployed' = TRUE
                 ELSE UNCHANGED <<allocated, listeners, redeployed>>
            /\ portServices' = [portServices EXCEPT ![name[d]] = d]
            /\ Returns(d, "done")
  /\ UNCHANGED <<kind, name, at, held>>

\* The deployment manager takes over; it will not install the service anywhere.
DeployWebRTCServiceZeroDowntime(d) ==
  /\ pc[d] = "allocating"
  /\ at[d] > NumTargets
  /\ kind[d] = "zerodowntime"
  /\ Returns(d, "checking")
  /\ UNCHANGED <<allocated, listeners, portServices, kind, name, at, held, redeployed>>

\* healthCheckTargets: all become healthy in time, or not.
executeWebRTCDeployment(d) ==
  /\ pc[d] = "checking"
  /\ \E to \in {"done", "cleaning"} : pc' = [pc EXCEPT ![d] = to]
  /\ UNCHANGED <<allocated, listeners, portServices, mapLock, kind, name, at, held, redeployed>>

\* Mutant: the clean-up returns at the first error.
FreePair_StopsAtError(d) ==
  LET a == Head(held[d]) IN
  /\ pc[d] \in {"undoing", "cleaning"}
  /\ held[d] # <<>>
  /\ DeallocatePort(a.rtp)
  /\ held' = [held EXCEPT ![d] = IF allocated[a.rtp] = NoAllocation THEN <<>> ELSE Tail(@)]
  /\ UNCHANGED <<portServices, mapLock, pc, kind, name, at, redeployed>>

\* The clean-up frees each pair by its RTP port.
FreePair(d) ==
  /\ pc[d] \in {"undoing", "cleaning"}
  /\ held[d] # <<>>
  /\ DeallocatePort(Head(held[d]).rtp)
  /\ held' = [held EXCEPT ![d] = Tail(@)]
  /\ UNCHANGED <<portServices, mapLock, pc, kind, name, at, redeployed>>

CleanedUp(d) ==
  /\ pc[d] \in {"undoing", "cleaning"}
  /\ held[d] = <<>>
  /\ pc' = [pc EXCEPT ![d] = "failed"]
  /\ mapLock' = IF pc[d] = "undoing" THEN None ELSE mapLock
  /\ UNCHANGED <<allocated, listeners, portServices, kind, name, at, held, redeployed>>

Next ==
  \E d \in Deploys :
    \/ \E n \in Names, k \in {"deploy", "zerodowntime"} : Issue(d, n, k)
    \/ \E p \in RTPPorts : Allocate(d, p)
    \/ AllocateFails(d) \/ TargetFails(d) \/ TargetsStopped(d)
    \/ ReplaceService(d) \/ DeployWebRTCService(d) \/ DeployWebRTCServiceZeroDowntime(d)
    \/ executeWebRTCDeployment(d)
    \/ FreePair(d) \/ CleanedUp(d)

Spec == Init /\ [][Next]_vars

-----------------------------------------------------------------------------
\* Properties.

\* allocated and listeners agree, and a pair is in them with both its ports or
\* not at all, whatever order pairs are allocated and freed in (DeallocatePort,
\* DeallocateService): an RTP port never stays behind without its RTCP port.
PairsWhole ==
  /\ \A p \in Ports : p \in listeners <=> allocated[p] # NoAllocation
  /\ \A p \in Ports : allocated[p] # NoAllocation =>
       p \in PairOf(allocated[p]) /\ \A q \in PairOf(allocated[p]) : allocated[q] = allocated[p]

\* A zero-downtime deployment that has failed leaves no pair of its own, also when
\* others have freed its pairs and taken their ports meanwhile.
FailedLeavesNoPair ==
  \A d \in Deploys : pc[d] = "failed" /\ kind[d] = "zerodowntime" =>
    \A p \in Ports : allocated[p].deploy # d

\* As long as no name has been deployed twice, each service that is installed has
\* all the pairs it was given, whatever clean-ups run meanwhile.
ServicesKeepPairs ==
  ~redeployed =>
    \A n \in Names : LET d == portServices[n] IN
      d # None => \A i \in 1..Len(held[d]) :
        \A p \in PairOf(held[d][i]) : allocated[p] = held[d][i]
=============================================================================
