------------------------ MODULE PortAllocatorProofs ------------------------
(***************************************************************************)
(* Theorems about PortAllocator, for every set of deployments and names,   *)
(* every number of targets and every port range.                           *)
(***************************************************************************)
EXTENDS PortAllocator, TLAPS

\* An allocation's ports are in the range: the RTP port is below its end.
LEMMA PairInRange == \A a \in Allocations : a.rtp \in Ports /\ a.rtp + 1 \in Ports
  BY PortConstants DEF Allocations, RTPPorts, Ports

\* No allocation is mistaken for the absence of one.
LEMMA NoAllocationIsNone == NoAllocation \notin Allocations
  BY PortConstants DEF NoAllocation, Allocations

-----------------------------------------------------------------------------
\* The allocator's operations alone: what they do to the type and the pairs.

\* The types of the allocator's own variables.
Maps ==
  /\ allocated \in [Ports -> Allocations \cup {NoAllocation}]
  /\ listeners \subseteq Ports

\* A pair is only allocated on ports of no other pair.
LEMMA AllocateKeepsPairs ==
  ASSUME Maps, PairsWhole, NEW a \in Allocations, allocateAdjacentPair(a)
  PROVE  Maps' /\ PairsWhole'
  <1>1. a.rtp \in Ports /\ a.rtp + 1 \in Ports
    BY PairInRange
  <1>2. Maps'
    BY <1>1 DEF Maps, allocateAdjacentPair, PairOf
  <1>3. a # NoAllocation
    BY NoAllocationIsNone
  <1>4. ASSUME NEW p \in Ports
        PROVE  p \in listeners' <=> allocated'[p] # NoAllocation
    BY <1>3, <1>4 DEF Maps, allocateAdjacentPair, PairsWhole
  <1>5. ASSUME NEW p \in Ports, allocated'[p] # NoAllocation
        PROVE  /\ p \in PairOf(allocated'[p])
               /\ \A q \in PairOf(allocated'[p]) : allocated'[q] = allocated'[p]
    <2>1. CASE p \in PairOf(a)
      BY <1>1, <2>1 DEF allocateAdjacentPair, PairOf
    <2>2. CASE p \notin PairOf(a)
      <3>1. allocated'[p] = allocated[p]
        BY <2>2 DEF allocateAdjacentPair
      <3>2. /\ p \in PairOf(allocated[p])
            /\ \A q \in PairOf(allocated[p]) : allocated[q] = allocated[p]
        BY <1>5, <3>1 DEF PairsWhole
      <3>3. allocated[p] \in Allocations
        BY <1>5, <3>1 DEF Maps
      <3>4. PairOf(allocated[p]) \subseteq Ports
        BY <3>3, PairInRange DEF PairOf
      <3>5. \A q \in PairOf(allocated[p]) : q \notin PairOf(a)
        BY <1>5, <3>1, <3>2 DEF allocateAdjacentPair, isPortAvailable
      <3> QED BY <3>1, <3>2, <3>4, <3>5 DEF allocateAdjacentPair
    <2> QED BY <2>1, <2>2
  <1> QED BY <1>2, <1>4, <1>5 DEF PairsWhole, PairOf

\* A pair is freed with both its ports, and no other pair has either.
LEMMA DeallocatePortKeepsPairs ==
  ASSUME Maps, PairsWhole, NEW port \in Ports, DeallocatePort(port)
  PROVE  Maps' /\ PairsWhole'
  <1> DEFINE a == allocated[port]
  <1>1. CASE a = NoAllocation
    BY <1>1 DEF Maps, PairsWhole, DeallocatePort
  <1>2. CASE a # NoAllocation
    <2>1. /\ allocated' = [p \in Ports |-> IF p \in PairOf(a) THEN NoAllocation ELSE allocated[p]]
          /\ listeners' = listeners \ PairOf(a)
      BY <1>2 DEF DeallocatePort
    <2>2. Maps'
      BY <2>1 DEF Maps
    <2>3. ASSUME NEW p \in Ports
          PROVE  p \in listeners' <=> allocated'[p] # NoAllocation
      BY <2>1, <2>3 DEF PairsWhole
    <2>4. ASSUME NEW p \in Ports, allocated'[p] # NoAllocation
          PROVE  /\ p \in PairOf(allocated'[p])
                 /\ \A q \in PairOf(allocated'[p]) : allocated'[q] = allocated'[p]
      <3>1. p \notin PairOf(a) /\ allocated'[p] = allocated[p]
        BY <2>1, <2>4
      <3>2. /\ p \in PairOf(allocated[p])
            /\ \A q \in PairOf(allocated[p]) : allocated[q] = allocated[p]
        BY <2>4, <3>1 DEF PairsWhole
      <3>3. allocated[p] \in Allocations
        BY <2>4, <3>1 DEF Maps
      <3>4. PairOf(allocated[p]) \subseteq Ports
        BY <3>3, PairInRange DEF PairOf
      <3>5. \A q \in PairOf(a) : allocated[q] = a
        BY <1>2 DEF PairsWhole
      <3>6. \A q \in PairOf(allocated[p]) : q \notin PairOf(a)
        BY <3>1, <3>2, <3>5
      <3> QED BY <2>1, <3>1, <3>2, <3>4, <3>6
    <2> QED BY <2>2, <2>3, <2>4 DEF PairsWhole
  <1> QED BY <1>1, <1>2

\* The ports of a service are whole pairs, so that its listeners are theirs.
LEMMA DeallocateServiceKeepsPairs ==
  ASSUME Maps, PairsWhole, NEW n, DeallocateService(n)
  PROVE  Maps' /\ PairsWhole'
  <1> DEFINE Freed == {p \in Ports : /\ allocated[p] # NoAllocation
                                     /\ name[allocated[p].deploy] = n}
  <1>1. /\ allocated' = [p \in Ports |-> IF p \in Freed THEN NoAllocation ELSE allocated[p]]
        /\ listeners' = listeners \ UNION {PairOf(allocated[p]) : p \in Freed}
    BY DEF DeallocateService
  <1>2. \A p \in Freed : p \in PairOf(allocated[p])
    BY DEF PairsWhole
  <1>3. ASSUME NEW p \in Freed, NEW q \in PairOf(allocated[p])
        PROVE  q \in Freed
    <2>1. allocated[p] \in Allocations
      BY <1>3 DEF Maps
    <2>2. q \in Ports
      BY <1>3, <2>1, PairInRange DEF PairOf
    <2>3. allocated[q] = allocated[p]
      BY <1>3 DEF PairsWhole
    <2> QED BY <1>3, <2>2, <2>3
  <1>4. UNION {PairOf(allocated[p]) : p \in Freed} = Freed
    BY <1>2, <1>3
  <1>5. listeners' = listeners \ Freed
    BY <1>1, <1>4
  <1> HIDE DEF Freed
  <1>6. Maps'
    BY <1>1, <1>5 DEF Maps
  <1>7. ASSUME NEW p \in Ports
        PROVE  p \in listeners' <=> allocated'[p] # NoAllocation
    BY <1>1, <1>5, <1>7 DEF PairsWhole
  <1>8. ASSUME NEW p \in Ports, allocated'[p] # NoAllocation
        PROVE  /\ p \in PairOf(allocated'[p])
               /\ \A q \in PairOf(allocated'[p]) : allocated'[q] = allocated'[p]
    <2>1. p \notin Freed /\ allocated'[p] = allocated[p]
      BY <1>1, <1>8
    <2>2. /\ p \in PairOf(allocated[p])
          /\ \A q \in PairOf(allocated[p]) : allocated[q] = allocated[p]
      BY <1>8, <2>1 DEF PairsWhole
    <2>3. allocated[p] \in Allocations
      BY <1>8, <2>1 DEF Maps
    <2>4. PairOf(allocated[p]) \subseteq Ports
      BY <2>3, PairInRange DEF PairOf
    <2>5. \A q \in PairOf(allocated[p]) : q \notin Freed
      BY <2>1, <2>2, <2>4 DEF Freed
    <2> QED BY <1>1, <2>1, <2>2, <2>4, <2>5
  <1> QED BY <1>6, <1>7, <1>8 DEF PairsWhole
-----------------------------------------------------------------------------
\* Type correctness and whole pairs.

\* Every step leaves the allocator's variables to one of its operations.
LEMMA AllocatorStep ==
  ASSUME TypeOK, NEW d \in Deploys,
         \/ \E p \in RTPPorts : Allocate(d, p)
         \/ DeployWebRTCService(d) \/ FreePair(d)
  PROVE  \/ \E a \in Allocations : allocateAdjacentPair(a)
         \/ \E port \in Ports : DeallocatePort(port)
         \/ \E n \in Names \cup {None} : DeallocateService(n)
         \/ UNCHANGED <<allocated, listeners>>
  <1>1. ASSUME NEW p \in RTPPorts, Allocate(d, p)
        PROVE  \E a \in Allocations : allocateAdjacentPair(a)
    <2> DEFINE a == [deploy |-> d, target |-> at[d], rtp |-> p]
    <2>1. at[d] \in 1..NumTargets
      BY <1>1, PortConstants DEF TypeOK, Allocate
    <2>2. a \in Allocations
      BY <2>1 DEF Allocations
    <2> QED BY <1>1, <2>2 DEF Allocate
  <1>2. CASE DeployWebRTCService(d)
    BY <1>2 DEF DeployWebRTCService, TypeOK
  <1>3. CASE FreePair(d)
    <2>1. Head(held[d]) \in Allocations
      BY <1>3 DEF FreePair, TypeOK
    <2>2. Head(held[d]).rtp \in Ports
      BY <2>1, PairInRange
    <2> QED BY SMTT(30), <1>3, <2>2 DEF FreePair
  <1> QED BY <1>1, <1>2, <1>3

\* Hence TypeOK and PairsWhole are kept by every step.
LEMMA MapsStep ==
  ASSUME TypeOK, PairsWhole, [Next]_vars
  PROVE  Maps' /\ PairsWhole'
  <1>0. Maps
    BY DEF TypeOK, Maps
  <1>1. CASE UNCHANGED <<allocated, listeners>>
    BY <1>0, <1>1 DEF Maps, PairsWhole
  <1>2. ASSUME NEW d \in Deploys,
               \/ \E p \in RTPPorts : Allocate(d, p)
               \/ DeployWebRTCService(d) \/ FreePair(d)
        PROVE  Maps' /\ PairsWhole'
    BY <1>0, <1>1, <1>2, AllocatorStep, AllocateKeepsPairs, DeallocatePortKeepsPairs,
       DeallocateServiceKeepsPairs
  <1> QED BY SMTT(30), <1>1, <1>2 DEF Next, vars, Issue, AllocateFails, TargetFails,
     TargetsStopped, ReplaceService,
       DeployWebRTCServiceZeroDowntime, executeWebRTCDeployment, CleanedUp

\* The deployments keep their types.
LEMMA TypeStep ==
  ASSUME TypeOK, PairsWhole, [Next]_vars
  PROVE  TypeOK'
  <1>0. Maps'
    BY MapsStep
  <1>1. ASSUME NEW d \in Deploys, NEW n \in Names, NEW k \in {"deploy", "zerodowntime"},
               Issue(d, n, k)
        PROVE  TypeOK'
    BY <1>1 DEF TypeOK, Issue
  <1>2. ASSUME NEW d \in Deploys, NEW p \in RTPPorts, Allocate(d, p)
        PROVE  TypeOK'
    <2>1. at[d] \in 1..NumTargets /\ at[d] + 1 \in 1..NumTargets + 1
      BY <1>2, PortConstants DEF TypeOK, Allocate
    <2>2. [deploy |-> d, target |-> at[d], rtp |-> p] \in Allocations
      BY <2>1 DEF Allocations
    <2>3. Append(held[d], [deploy |-> d, target |-> at[d], rtp |-> p]) \in Seq(Allocations)
      BY <2>2 DEF TypeOK
    <2> QED BY <1>0, <1>2, <2>1, <2>3 DEF TypeOK, Allocate, Maps
  <1>3. ASSUME NEW d \in Deploys, AllocateFails(d)
        PROVE  TypeOK'
    <2>1. at[d] + 1 \in 1..NumTargets + 1
      BY <1>3, PortConstants DEF TypeOK, AllocateFails
    <2> QED BY Zenon, <1>3, <2>1 DEF TypeOK, AllocateFails
  <1>4. ASSUME NEW d \in Deploys, TargetFails(d) \/ DeployWebRTCServiceZeroDowntime(d)
        PROVE  TypeOK'
    BY Zenon, <1>4 DEF TypeOK, TargetFails, DeployWebRTCServiceZeroDowntime, Returns
  <1>5. ASSUME NEW d \in Deploys, DeployWebRTCService(d)
        PROVE  TypeOK'
    <2>1. portServices' \in [Names -> Deploys \cup {None}] /\ redeployed' \in BOOLEAN
      BY Zenon, <1>5 DEF TypeOK, DeployWebRTCService
    <2>2. /\ mapLock' \in Deploys \cup {None}
          /\ pc' \in [Deploys -> {"idle", "allocating", "replacing", "stopping", "undoing",
                                  "checking", "cleaning", "done", "failed"}]
      BY Zenon, <1>5 DEF TypeOK, DeployWebRTCService, Returns
    <2> QED BY SMTT(30), <1>0, <1>5, <2>1, <2>2 DEF TypeOK, DeployWebRTCService, Maps
  <1>6. ASSUME NEW d \in Deploys,
               executeWebRTCDeployment(d) \/ CleanedUp(d) \/ TargetsStopped(d) \/ ReplaceService(d)
        PROVE  TypeOK'
    BY Zenon, <1>6 DEF TypeOK, executeWebRTCDeployment, CleanedUp, TargetsStopped, ReplaceService
  <1>7. ASSUME NEW d \in Deploys, FreePair(d)
        PROVE  TypeOK'
    <2>1. Tail(held[d]) \in Seq(Allocations)
      BY <1>7 DEF TypeOK, FreePair
    <2> QED BY <1>0, <1>7, <2>1 DEF TypeOK, FreePair, Maps
  <1>8. CASE UNCHANGED vars
    BY <1>8 DEF TypeOK, vars
  <1> QED BY <1>1, <1>2, <1>3, <1>4, <1>5, <1>6, <1>7, <1>8 DEF Next

\* No port is allocated to begin with.
LEMMA InitPairs == Init => TypeOK /\ PairsWhole
  <1> SUFFICES ASSUME Init PROVE TypeOK /\ PairsWhole
    OBVIOUS
  <1>1. TypeOK
    <2>1. at \in [Deploys -> 1..NumTargets + 1]
      BY PortConstants DEF Init
    <2>2. held \in [Deploys -> Seq(Allocations)]
      BY DEF Init
    <2>3. allocated \in [Ports -> Allocations \cup {NoAllocation}]
      BY DEF Init
    <2> QED BY Zenon, <2>1, <2>2, <2>3 DEF Init, TypeOK
  <1>2. PairsWhole
    BY DEF Init, PairsWhole
  <1> QED BY <1>1, <1>2

\* Type correctness: in particular no deployment runs past its targets, and only
\* pairs of the configured range are ever allocated.
THEOREM TypeCorrect == Spec => []TypeOK
  <1>1. TypeOK /\ PairsWhole /\ [Next]_vars => (TypeOK /\ PairsWhole)'
    BY TypeStep, MapsStep
  <1> QED BY <1>1, InitPairs, PTL DEF Spec

\* A pair is in the allocator's two maps with both its ports or not at all
\* (allocateAdjacentPair, DeallocatePort, DeallocateService).
THEOREM PairsAreWhole == Spec => []PairsWhole
  <1>1. TypeOK /\ PairsWhole /\ [Next]_vars => (TypeOK /\ PairsWhole)'
    BY TypeStep, MapsStep
  <1> QED BY <1>1, InitPairs, PTL DEF Spec
-----------------------------------------------------------------------------
\* A failed zero-downtime deployment has freed its pairs.  FailedLeavesNoPair is
\* not inductive: while the clean-up runs, the pairs it has yet to free are those
\* it holds; a deployment that fails early must hold none.

\* The pairs of a deployment that is not a plain one are among those it holds.
PairsAreHeld ==
  \A d \in Deploys : kind[d] # "deploy" =>
    \A p \in Ports : allocated[p].deploy = d =>
      \E i \in 1..Len(held[d]) : held[d][i] = allocated[p]

\* A deployment holds at most one pair for each target it has passed.
HeldBehindAt ==
  \A d \in Deploys : pc[d] \in {"idle", "allocating"} => Len(held[d]) < at[d]

\* It holds none when it has failed.
FailedHoldsNone ==
  \A d \in Deploys : pc[d] = "failed" /\ kind[d] = "zerodowntime" => held[d] = <<>>

\* Until it is issued it is neither kind, and only then.
KindWhenIssued == \A d \in Deploys : pc[d] = "idle" <=> kind[d] = "none"

CleanUpInv ==
  TypeOK /\ PairsWhole /\ PairsAreHeld /\ HeldBehindAt /\ FailedHoldsNone /\ KindWhenIssued

\* The invariant is as strong as the property.
LEMMA CleanUpInvSuffices == CleanUpInv => FailedLeavesNoPair
  <1> SUFFICES ASSUME CleanUpInv,
                      NEW d \in Deploys, pc[d] = "failed", kind[d] = "zerodowntime",
                      NEW p \in Ports, allocated[p].deploy = d
               PROVE  FALSE
    BY DEF FailedLeavesNoPair
  <1>1. held[d] = <<>>
    BY DEF CleanUpInv, FailedHoldsNone
  <1>2. \E i \in 1..Len(held[d]) : held[d][i] = allocated[p]
    BY DEF CleanUpInv, PairsAreHeld
  <1> QED BY <1>1, <1>2

\* Freeing the first pair a deployment holds leaves none of it in the map, be it
\* the deployment's own or another's that has the port now.
LEMMA FreedIsGone ==
  ASSUME Maps, PairsWhole, NEW a \in Allocations, DeallocatePort(a.rtp), NEW p \in Ports
  PROVE  allocated'[p] # a /\ allocated'[p] \in {allocated[p], NoAllocation}
  <1>1. a.rtp \in Ports /\ a # NoAllocation
    BY PairInRange, NoAllocationIsNone
  <1>2. allocated[p] = a => allocated[a.rtp] = a /\ p \in PairOf(a)
    BY <1>1 DEF PairsWhole, PairOf
  <1>3. CASE allocated[a.rtp] = NoAllocation
    BY <1>1, <1>2, <1>3 DEF DeallocatePort
  <1>4. CASE allocated[a.rtp] # NoAllocation
    BY <1>1, <1>2, <1>4 DEF DeallocatePort
  <1> QED BY <1>3, <1>4

\* The steps that leave the pairs a deployment holds alone: all but allocating a
\* pair and freeing one.
KeepsHeld(d) ==
  \/ \E n \in Names, k \in {"deploy", "zerodowntime"} : Issue(d, n, k)
  \/ AllocateFails(d) \/ TargetFails(d) \/ TargetsStopped(d)
  \/ ReplaceService(d) \/ DeployWebRTCService(d) \/ DeployWebRTCServiceZeroDowntime(d)
  \/ executeWebRTCDeployment(d) \/ CleanedUp(d)

\* They take pairs out of the map, at most.
LEMMA MapShrinks ==
  ASSUME CleanUpInv, NEW d \in Deploys, KeepsHeld(d)
  PROVE  \A p \in Ports : allocated'[p] \in {allocated[p], NoAllocation}
  BY SMTT(30) DEF KeepsHeld, CleanUpInv, TypeOK, Issue, AllocateFails, TargetFails,
     TargetsStopped, ReplaceService, DeployWebRTCService, DeallocateService,
     DeployWebRTCServiceZeroDowntime, executeWebRTCDeployment, CleanedUp

\* PairsAreHeld is kept: an allocation is added to both sides, and a pair leaves
\* held only when it has left the map.
LEMMA PairsAreHeldStep ==
  ASSUME CleanUpInv, [Next]_vars
  PROVE  PairsAreHeld'
  <1>0. NoAllocation.deploy \notin Deploys
    BY PortConstants DEF NoAllocation
  <1>1. ASSUME NEW d \in Deploys, KeepsHeld(d)
        PROVE  PairsAreHeld'
    <2>1. held' = held
      BY SMTT(30), <1>1 DEF KeepsHeld, Issue, AllocateFails, TargetFails,
         TargetsStopped, ReplaceService, DeployWebRTCService,
         DeployWebRTCServiceZeroDowntime, executeWebRTCDeployment, CleanedUp
    <2>2. \A e \in Deploys : kind'[e] # "deploy" => kind[e] # "deploy"
      BY SMTT(30), <1>1 DEF KeepsHeld, CleanUpInv, TypeOK, KindWhenIssued, Issue, AllocateFails, TargetFails,
         TargetsStopped, ReplaceService,
         DeployWebRTCService, DeployWebRTCServiceZeroDowntime, executeWebRTCDeployment, CleanedUp
    <2>3. \A p \in Ports : allocated'[p] \in {allocated[p], NoAllocation}
      BY <1>1, MapShrinks
    <2> QED BY SMTT(30), <1>0, <2>1, <2>2, <2>3 DEF CleanUpInv, PairsAreHeld
  <1>2. ASSUME NEW d \in Deploys, NEW q \in RTPPorts, Allocate(d, q)
        PROVE  PairsAreHeld'
    <2> DEFINE a == [deploy |-> d, target |-> at[d], rtp |-> q]
    <2>1. /\ allocated' = [p \in Ports |-> IF p \in PairOf(a) THEN a ELSE allocated[p]]
          /\ held' = [held EXCEPT ![d] = Append(@, a)]
          /\ kind' = kind
      BY SMTT(30), <1>2 DEF Allocate, allocateAdjacentPair
    <2>2. held \in [Deploys -> Seq(Allocations)]
      BY DEF CleanUpInv, TypeOK
    <2>3. at[d] \in 1..NumTargets
      BY <1>2, PortConstants DEF CleanUpInv, TypeOK, Allocate
    <2>4. a \in Allocations
      BY <2>3 DEF Allocations
    <2>5. a.deploy = d
      OBVIOUS
    <2> HIDE DEF a
    <2>6. /\ \A i \in 1..Len(held[d]) : i \in 1..Len(held'[d]) /\ held'[d][i] = held[d][i]
          /\ Len(held'[d]) \in 1..Len(held'[d]) /\ held'[d][Len(held'[d])] = a
      BY <2>1, <2>2, <2>4
    <2> SUFFICES ASSUME NEW e \in Deploys, kind[e] # "deploy",
                        NEW p \in Ports, allocated'[p].deploy = e
                 PROVE  \E i \in 1..Len(held'[e]) : held'[e][i] = allocated'[p]
      BY <2>1 DEF PairsAreHeld
    <2>7. CASE p \in PairOf(a)
      BY <2>1, <2>5, <2>6, <2>7
    <2>8. CASE p \notin PairOf(a)
      <3>1. allocated'[p] = allocated[p]
        BY <2>1, <2>8
      <3>2. PICK i \in 1..Len(held[e]) : held[e][i] = allocated[p]
        BY <3>1 DEF CleanUpInv, PairsAreHeld
      <3>3. CASE e = d
        BY <2>6, <3>1, <3>2, <3>3
      <3>4. CASE e # d
        <4>1. held'[e] = held[e]
          BY <2>1, <2>2, <3>4
        <4> QED BY <3>1, <3>2, <4>1
      <3> QED BY <3>3, <3>4
    <2> QED BY <2>7, <2>8
  <1>3. ASSUME NEW d \in Deploys, FreePair(d)
        PROVE  PairsAreHeld'
    <2> DEFINE a == Head(held[d])
    <2>1. /\ held \in [Deploys -> Seq(Allocations)] /\ held[d] # <<>>
          /\ held' = [held EXCEPT ![d] = Tail(@)]
          /\ kind' = kind
      BY <1>3 DEF FreePair, CleanUpInv, TypeOK
    <2>2. a \in Allocations /\ DeallocatePort(a.rtp)
      BY <1>3, <2>1 DEF FreePair
    <2>3. \A p \in Ports : allocated'[p] # a /\ allocated'[p] \in {allocated[p], NoAllocation}
      BY <2>2, FreedIsGone DEF CleanUpInv, TypeOK, Maps
    <2>4. \A i \in 1..Len(held[d]) : held[d][i] # a =>
            i - 1 \in 1..Len(Tail(held[d])) /\ Tail(held[d])[i - 1] = held[d][i]
      BY <2>1
    <2> SUFFICES ASSUME NEW e \in Deploys, kind[e] # "deploy",
                        NEW p \in Ports, allocated'[p].deploy = e
                 PROVE  \E i \in 1..Len(held'[e]) : held'[e][i] = allocated'[p]
      BY Zenon, <2>1 DEF PairsAreHeld
    <2>5. allocated'[p] = allocated[p] /\ allocated[p] # a
      BY <1>0, <2>3
    <2>6. PICK i \in 1..Len(held[e]) : held[e][i] = allocated[p]
      BY <2>5 DEF CleanUpInv, PairsAreHeld
    <2>7. CASE e = d
      <3>1. held'[e] = Tail(held[d])
        BY <2>1, <2>7
      <3>2. i - 1 \in 1..Len(Tail(held[d])) /\ Tail(held[d])[i - 1] = allocated[p]
        BY <2>4, <2>5, <2>6, <2>7
      <3> QED BY <2>5, <3>1, <3>2
    <2>8. CASE e # d
      BY <2>1, <2>5, <2>6, <2>8
    <2> QED BY <2>7, <2>8
  <1>4. CASE UNCHANGED vars
    BY <1>4 DEF vars, CleanUpInv, PairsAreHeld
  <1> QED BY <1>1, <1>2, <1>3, <1>4 DEF Next, KeepsHeld

\* The other parts follow the control of each deployment.
LEMMA ControlStep ==
  ASSUME CleanUpInv, [Next]_vars
  PROVE  HeldBehindAt' /\ FailedHoldsNone' /\ KindWhenIssued'
  <1> USE DEF CleanUpInv, TypeOK, HeldBehindAt, FailedHoldsNone, KindWhenIssued
  <1>1. ASSUME NEW d \in Deploys, NEW n \in Names, NEW k \in {"deploy", "zerodowntime"},
               Issue(d, n, k)
        PROVE  HeldBehindAt' /\ FailedHoldsNone' /\ KindWhenIssued'
    BY <1>1 DEF Issue
  <1>2. ASSUME NEW d \in Deploys, NEW p \in RTPPorts, Allocate(d, p)
        PROVE  HeldBehindAt' /\ FailedHoldsNone' /\ KindWhenIssued'
    <2> DEFINE a == [deploy |-> d, target |-> at[d], rtp |-> p]
    <2>1. at[d] \in 1..NumTargets /\ a \in Allocations
      BY SMTT(30), <1>2, PortConstants DEF Allocate, Allocations
    <2>2. /\ held' = [held EXCEPT ![d] = Append(@, a)]
          /\ at' = [at EXCEPT ![d] = @ + 1]
          /\ pc' = pc /\ kind' = kind /\ pc[d] = "allocating"
      BY SMTT(30), <1>2 DEF Allocate
    <2> HIDE DEF a
    <2>3. Len(held'[d]) = Len(held[d]) + 1 /\ Len(held[d]) \in Nat
      BY <2>1, <2>2
    <2>4. HeldBehindAt'
      BY <2>1, <2>2, <2>3
    <2> QED BY <2>2, <2>4
  <1>3. ASSUME NEW d \in Deploys, AllocateFails(d)
        PROVE  HeldBehindAt' /\ FailedHoldsNone' /\ KindWhenIssued'
    <2>1. Len(held[d]) \in Nat /\ at[d] \in Nat
      BY PortConstants
    <2>2. CASE kind[d] = "deploy"
      <3>1. /\ at' = [at EXCEPT ![d] = @ + 1]
            /\ pc' = pc /\ kind' = kind /\ held' = held
        BY <1>3, <2>2 DEF AllocateFails
      <3>2. at'[d] = at[d] + 1 /\ \A e \in Deploys : e # d => at'[e] = at[e]
        BY <3>1
      <3>3. HeldBehindAt'
        BY <2>1, <3>1, <3>2
      <3> QED BY <3>1, <3>3
    <2>3. CASE kind[d] # "deploy"
      BY SMTT(30), <1>3, <2>3 DEF AllocateFails
    <2> QED BY SMTT(30), <2>2, <2>3
  <1>4. ASSUME NEW d \in Deploys, TargetFails(d)
        PROVE  HeldBehindAt' /\ FailedHoldsNone' /\ KindWhenIssued'
    <2>1. kind[d] = "zerodowntime" => held[d] = <<>>
      <3>1. kind[d] = "zerodowntime" => Len(held[d]) < 1
        BY <1>4 DEF TargetFails
      <3>2. held[d] \in Seq(Allocations)
        OBVIOUS
      <3> QED BY <3>1, <3>2
    <2> QED BY <1>4, <2>1 DEF TargetFails, Returns
  <1>5. ASSUME NEW d \in Deploys, DeployWebRTCService(d)
        PROVE  HeldBehindAt' /\ FailedHoldsNone' /\ KindWhenIssued'
    BY SMTT(30), <1>5 DEF DeployWebRTCService, Returns
  <1>6. ASSUME NEW d \in Deploys,
               \/ DeployWebRTCServiceZeroDowntime(d) \/ executeWebRTCDeployment(d)
               \/ TargetsStopped(d) \/ ReplaceService(d)
        PROVE  HeldBehindAt' /\ FailedHoldsNone' /\ KindWhenIssued'
    BY SMTT(30), <1>6 DEF DeployWebRTCServiceZeroDowntime, executeWebRTCDeployment, TargetsStopped,
       ReplaceService, Returns
  <1>7. ASSUME NEW d \in Deploys, FreePair(d) \/ CleanedUp(d)
        PROVE  HeldBehindAt' /\ FailedHoldsNone' /\ KindWhenIssued'
    <2>1. CASE FreePair(d)
      BY <2>1 DEF FreePair
    <2>2. CASE CleanedUp(d)
      BY <2>2 DEF CleanedUp
    <2> QED BY SMTT(30), <1>7, <2>1, <2>2
  <1>8. CASE UNCHANGED vars
    BY <1>8 DEF vars
  <1> HIDE DEF CleanUpInv, TypeOK, HeldBehindAt, FailedHoldsNone, KindWhenIssued
  <1> QED BY <1>1, <1>2, <1>3, <1>4, <1>5, <1>6, <1>7, <1>8 DEF Next

\* A zero-downtime WebRTC deployment that fails leaves no port pair of its own
\* allocated, whatever other deployments did to its pairs and their ports while
\* executeWebRTCDeployment checked its targets and cleaned up.
THEOREM FailedDeploymentsFreeTheirPairs == Spec => []FailedLeavesNoPair
  <1>1. Init => CleanUpInv
    <2> SUFFICES ASSUME Init PROVE PairsAreHeld /\ HeldBehindAt /\ FailedHoldsNone /\ KindWhenIssued
      BY InitPairs DEF CleanUpInv
    <2>1. PairsAreHeld
      BY PortConstants DEF Init, PairsAreHeld, NoAllocation
    <2>2. HeldBehindAt
      BY DEF Init, HeldBehindAt
    <2> QED BY <2>1, <2>2 DEF Init, FailedHoldsNone, KindWhenIssued
  <1>2. CleanUpInv /\ [Next]_vars => CleanUpInv'
    <2> SUFFICES ASSUME CleanUpInv, [Next]_vars PROVE CleanUpInv'
      OBVIOUS
    <2>1. TypeOK' /\ PairsWhole'
      BY TypeStep, MapsStep DEF CleanUpInv
    <2> QED BY <2>1, PairsAreHeldStep, ControlStep DEF CleanUpInv
  <1> QED BY <1>1, <1>2, CleanUpInvSuffices, PTL DEF Spec

-----------------------------------------------------------------------------
\* An installed service has the pairs it was given.  ServicesKeepPairs is not
\* inductive: a clean-up frees by port number, and it frees none of another's
\* because, until a name is deployed again, what any deployment holds is its own.

\* A deployment holds pairs of its own, for different targets.
HeldInOrder ==
  \A d \in Deploys : \A i \in 1..Len(held[d]) :
    /\ held[d][i].deploy = d /\ held[d][i].target < at[d]
    /\ \A j \in 1..Len(held[d]) : i < j => held[d][i].target < held[d][j].target

\* Both ports of a pair that is held are allocated to it.
HeldIsAllocated ==
  ~redeployed => \A d \in Deploys : \A i \in 1..Len(held[d]) :
    \A p \in PairOf(held[d][i]) : allocated[p] = held[d][i]

KeepInv == TypeOK /\ PairsWhole /\ HeldInOrder /\ HeldIsAllocated

LEMMA KeepInvSuffices == KeepInv => ServicesKeepPairs
  <1> SUFFICES ASSUME KeepInv PROVE ServicesKeepPairs
    OBVIOUS
  <1>1. \A n \in Names : portServices[n] # None => portServices[n] \in Deploys
    BY Zenon DEF KeepInv, TypeOK
  <1> QED BY Zenon, <1>1 DEF KeepInv, HeldIsAllocated, ServicesKeepPairs

\* A step that neither allocates nor frees a pair of a deployment leaves what it
\* holds; DeployWebRTCService takes others out of the map only when a name is
\* deployed again.
LEMMA KeepsHeldKeeps ==
  ASSUME KeepInv, NEW d \in Deploys, KeepsHeld(d)
  PROVE  HeldInOrder' /\ HeldIsAllocated'
  <1>1. held' = held
    BY SMTT(30), ZenonT(30) DEF KeepsHeld, Issue, AllocateFails, TargetFails,
       TargetsStopped, ReplaceService, DeployWebRTCService,
       DeployWebRTCServiceZeroDowntime, executeWebRTCDeployment, CleanedUp
  <1>2. ~redeployed' => ~redeployed /\ allocated' = allocated
    BY Zenon DEF KeepsHeld, Issue, AllocateFails, TargetFails,
       TargetsStopped, ReplaceService, DeployWebRTCService,
       DeployWebRTCServiceZeroDowntime, executeWebRTCDeployment, CleanedUp
  <1>3. at' = at \/ (at' = [at EXCEPT ![d] = @ + 1])
    BY Zenon DEF KeepsHeld, Issue, AllocateFails, TargetFails,
       TargetsStopped, ReplaceService, DeployWebRTCService,
       DeployWebRTCServiceZeroDowntime, executeWebRTCDeployment, CleanedUp
  <1>4. \A e \in Deploys : at[e] \in Nat /\ at'[e] \in Nat /\ at[e] <= at'[e]
    <2>1. at \in [Deploys -> Nat]
      BY PortConstants DEF KeepInv, TypeOK
    <2> QED BY <1>3, <2>1
  <1>5. ASSUME NEW e \in Deploys, NEW i \in 1..Len(held[e])
        PROVE  held[e][i].target \in Nat
    <2>1. held[e] \in Seq(Allocations)
      BY Zenon DEF KeepInv, TypeOK
    <2>2. held[e][i] \in Allocations
      BY SMTT(30), <2>1
    <2> QED BY SMTT(30), <2>2 DEF Allocations
  <1>6. HeldInOrder
    BY Zenon DEF KeepInv
  <1>7. ASSUME NEW e \in Deploys, NEW i \in 1..Len(held[e])
        PROVE  held[e][i].target < at'[e]
    <2>1. held[e][i].target < at[e]
      BY Zenon, <1>6 DEF HeldInOrder
    <2> QED BY SMTT(30), <1>4, <1>5, <2>1
  <1>8. HeldInOrder'
    <2> SUFFICES ASSUME NEW e \in Deploys, NEW i \in 1..Len(held[e])
                 PROVE  /\ held[e][i].deploy = e /\ held[e][i].target < at'[e]
                        /\ \A j \in 1..Len(held[e]) : i < j => held[e][i].target < held[e][j].target
      BY Zenon, <1>1 DEF HeldInOrder
    <2> QED BY Zenon, <1>6, <1>7 DEF HeldInOrder
  <1>9. HeldIsAllocated'
    <2> SUFFICES ASSUME ~redeployed, allocated' = allocated
                 PROVE  \A e \in Deploys : \A i \in 1..Len(held[e]) :
                          \A p \in PairOf(held[e][i]) : allocated[p] = held[e][i]
      BY SMTT(30), <1>1, <1>2 DEF HeldIsAllocated
    <2> QED BY Zenon DEF KeepInv, HeldIsAllocated
  <1> QED BY <1>8, <1>9

\* A pair is allocated on ports that nobody's pair has.
LEMMA AllocateKeepsHeld ==
  ASSUME KeepInv, NEW d \in Deploys, NEW q \in RTPPorts, Allocate(d, q)
  PROVE  HeldInOrder' /\ HeldIsAllocated'
  <1> DEFINE a == [deploy |-> d, target |-> at[d], rtp |-> q]
  <1>1. /\ allocated' = [p \in Ports |-> IF p \in PairOf(a) THEN a ELSE allocated[p]]
        /\ \A p \in PairOf(a) : allocated[p] = NoAllocation
        /\ held' = [held EXCEPT ![d] = Append(@, a)]
        /\ at' = [at EXCEPT ![d] = @ + 1]
        /\ redeployed' = redeployed
    BY SMTT(30) DEF Allocate, allocateAdjacentPair, isPortAvailable
  <1>2. held \in [Deploys -> Seq(Allocations)] /\ at \in [Deploys -> Nat]
    BY PortConstants DEF KeepInv, TypeOK
  <1>3. at[d] \in 1..NumTargets
    BY PortConstants DEF KeepInv, TypeOK, Allocate
  <1>4. a \in Allocations /\ a.deploy = d /\ a.target = at[d]
    BY <1>3 DEF Allocations
  <1> HIDE DEF a
  <1>5. /\ \A e \in Deploys : e # d => held'[e] = held[e] /\ at'[e] = at[e]
        /\ held'[d] = Append(held[d], a) /\ at'[d] = at[d] + 1
    BY <1>1, <1>2
  <1>6. /\ Len(held[d]) \in Nat /\ Len(held'[d]) = Len(held[d]) + 1
        /\ \A i \in 1..Len(held[d]) : held'[d][i] = held[d][i]
        /\ held'[d][Len(held[d]) + 1] = a
    BY <1>2, <1>4, <1>5
  <1>7. \A i \in 1..Len(held'[d]) : i \in 1..Len(held[d]) \/ i = Len(held[d]) + 1
    BY <1>6
  <1>8. HeldInOrder'
    <2>1. ASSUME NEW i \in 1..Len(held'[d])
          PROVE  held'[d][i].deploy = d /\ held'[d][i].target < at'[d]
      <3>1. CASE i \in 1..Len(held[d])
        <4>1. held[d][i].deploy = d /\ held[d][i].target < at[d] /\ held[d][i] \in Allocations
          BY <1>2, <3>1 DEF KeepInv, HeldInOrder
        <4>2. held[d][i].target \in Nat
          BY <4>1 DEF Allocations
        <4> QED BY <1>2, <1>5, <1>6, <3>1, <4>1, <4>2
      <3>2. CASE i = Len(held[d]) + 1
        BY <1>2, <1>4, <1>5, <1>6, <3>2
      <3> QED BY <1>7, <3>1, <3>2
    <2>2. ASSUME NEW i \in 1..Len(held'[d]), NEW j \in 1..Len(held'[d]), i < j
          PROVE  held'[d][i].target < held'[d][j].target
      <3>1. i \in 1..Len(held[d])
        BY <1>6, <2>2
      <3>2. CASE j \in 1..Len(held[d])
        <4>1. held[d][i].target < held[d][j].target
          BY Zenon, <2>2, <3>1, <3>2 DEF KeepInv, HeldInOrder
        <4> QED BY Zenon, <1>6, <3>1, <3>2, <4>1
      <3>3. CASE j = Len(held[d]) + 1
        <4>1. held[d][i].target < at[d]
          BY Zenon, <3>1 DEF KeepInv, HeldInOrder
        <4> QED BY Zenon, <1>4, <1>6, <3>1, <3>3, <4>1
      <3> QED BY <1>7, <3>2, <3>3
    <2>3. ASSUME NEW e \in Deploys, e # d, NEW i \in 1..Len(held'[e])
          PROVE  /\ held'[e][i].deploy = e /\ held'[e][i].target < at'[e]
                 /\ \A j \in 1..Len(held'[e]) : i < j => held'[e][i].target < held'[e][j].target
      BY Zenon, <1>5, <2>3 DEF KeepInv, HeldInOrder
    <2> QED BY Zenon, <2>1, <2>2, <2>3 DEF HeldInOrder
  <1>9. HeldIsAllocated'
    <2> SUFFICES ASSUME ~redeployed, NEW e \in Deploys, NEW i \in 1..Len(held'[e]),
                        NEW p \in PairOf(held'[e][i])
                 PROVE  allocated'[p] = held'[e][i]
      BY Zenon, <1>1 DEF HeldIsAllocated
    <2>1. CASE e = d /\ i = Len(held[d]) + 1
      <3>1. p \in Ports
        BY <1>4, <1>6, <2>1, PairInRange DEF PairOf
      <3> QED BY <1>1, <1>6, <2>1, <3>1
    <2>2. CASE e # d \/ i \in 1..Len(held[d])
      <3>1. i \in 1..Len(held[e]) /\ held'[e][i] = held[e][i]
        BY Zenon, <1>5, <1>6, <2>2
      <3>2. allocated[p] = held[e][i]
        BY Zenon, <3>1 DEF KeepInv, HeldIsAllocated
      <3>3. held[e][i] \in Allocations
        BY <1>2, <3>1
      <3>4. p \in Ports /\ p \notin PairOf(a)
        BY <1>1, <3>1, <3>2, <3>3, PairInRange, NoAllocationIsNone DEF PairOf
      <3> QED BY <1>1, <3>1, <3>2, <3>4
    <2> QED BY Zenon, <1>7, <2>1, <2>2
  <1> QED BY <1>8, <1>9

\* A clean-up frees the pair it holds, and so no other's.
LEMMA FreePairKeepsHeld ==
  ASSUME KeepInv, NEW d \in Deploys, FreePair(d)
  PROVE  HeldInOrder' /\ HeldIsAllocated'
  <1>1. /\ held[d] # <<>> /\ DeallocatePort(Head(held[d]).rtp)
        /\ held' = [held EXCEPT ![d] = Tail(@)] /\ at' = at /\ redeployed' = redeployed
    BY Zenon DEF FreePair
  <1>2. held \in [Deploys -> Seq(Allocations)]
    BY Zenon DEF KeepInv, TypeOK
  <1>3. /\ \A e \in Deploys : e # d => held'[e] = held[e]
        /\ held'[d] = Tail(held[d])
    BY <1>1, <1>2
  <1>4. /\ Len(held[d]) \in Nat /\ 1 \in 1..Len(held[d]) /\ Head(held[d]) = held[d][1]
        /\ Len(held'[d]) = Len(held[d]) - 1
        /\ \A i \in 1..Len(held'[d]) : i + 1 \in 1..Len(held[d]) /\ held'[d][i] = held[d][i + 1]
    BY <1>1, <1>2, <1>3
  <1>5. HeldInOrder /\ (~redeployed => HeldIsAllocated)
    BY Zenon DEF KeepInv
  <1>6. HeldInOrder'
    <2>1. ASSUME NEW i \in 1..Len(held'[d])
          PROVE  /\ held'[d][i].deploy = d /\ held'[d][i].target < at[d]
                 /\ \A j \in 1..Len(held'[d]) : i < j => held'[d][i].target < held'[d][j].target
      <3>1. i + 1 \in 1..Len(held[d]) /\ held'[d][i] = held[d][i + 1]
        BY Zenon, <1>4
      <3>2. held[d][i + 1].deploy = d /\ held[d][i + 1].target < at[d]
        BY Zenon, <1>5, <3>1 DEF HeldInOrder
      <3>3. ASSUME NEW j \in 1..Len(held'[d]), i < j
            PROVE  held'[d][i].target < held'[d][j].target
        <4>1. i + 1 < j + 1
          BY <1>4, <3>3
        <4>2. j + 1 \in 1..Len(held[d]) /\ held'[d][j] = held[d][j + 1]
          BY Zenon, <1>4
        <4>3. held[d][i + 1].target < held[d][j + 1].target
          BY Zenon, <1>5, <3>1, <4>1, <4>2 DEF HeldInOrder
        <4> QED BY Zenon, <3>1, <4>2, <4>3
      <3> QED BY Zenon, <3>1, <3>2, <3>3
    <2> QED BY ZenonT(30), <1>1, <1>3, <1>5, <2>1 DEF HeldInOrder
  <1>7. HeldIsAllocated'
    <2> SUFFICES ASSUME ~redeployed, NEW e \in Deploys, NEW i \in 1..Len(held'[e]),
                        NEW p \in PairOf(held'[e][i])
                 PROVE  allocated'[p] = held'[e][i]
      BY Zenon, <1>1 DEF HeldIsAllocated
    <2>1. PICK a : a = held[d][1]
      OBVIOUS
    <2>2. a \in Allocations /\ a.deploy = d /\ DeallocatePort(a.rtp)
      BY <1>1, <1>2, <1>4, <1>5, <2>1 DEF HeldInOrder
    <2>3. \A q \in PairOf(a) : allocated[q] = a
      BY Zenon, <1>4, <1>5, <2>1 DEF HeldIsAllocated
    <2>4. PICK k \in 1..Len(held[e]) : held'[e][i] = held[e][k] /\ (e = d => 1 < k)
      <3>1. CASE e = d
        <4>1. 1 < i + 1
          BY <1>4, <3>1
        <4> QED BY Zenon, <1>4, <3>1, <4>1
      <3>2. CASE e # d
        BY Zenon, <1>3, <3>2
      <3> QED BY Zenon, <3>1, <3>2
    <2>5. allocated[p] = held[e][k] /\ held[e][k] \in Allocations
      BY <1>2, <1>5, <2>4 DEF HeldIsAllocated
    <2>6. held[e][k] # a
      <3>1. CASE e = d
        <4>1. a.target < held[d][k].target
          BY Zenon, <1>4, <1>5, <2>1, <2>4, <3>1 DEF HeldInOrder
        <4>2. a.target \in Nat
          BY <2>2 DEF Allocations
        <4> QED BY <3>1, <4>1, <4>2
      <3>2. CASE e # d
        BY Zenon, <1>5, <2>2, <3>2 DEF HeldInOrder
      <3> QED BY Zenon, <3>1, <3>2
    <2>7. p \in Ports /\ p \notin PairOf(a)
      BY <2>3, <2>4, <2>5, <2>6, PairInRange DEF PairOf
    <2>8. allocated'[p] = allocated[p]
      <3>1. allocated[a.rtp] = a /\ a # NoAllocation
        BY Zenon, <2>2, <2>3, NoAllocationIsNone DEF PairOf
      <3> QED BY Zenon, <2>2, <2>7, <3>1 DEF DeallocatePort
    <2> QED BY Zenon, <2>4, <2>5, <2>8
  <1> QED BY <1>6, <1>7

\* Until a name is deployed again, an installed WebRTC service has all the pairs
\* it was given: the clean-ups of zero-downtime deployments, which free by port
\* number without the map's lock (DeallocatePort), free only their own.
THEOREM InstalledServicesKeepTheirPairs == Spec => []ServicesKeepPairs
  <1>1. Init => KeepInv
    <2> SUFFICES ASSUME Init PROVE HeldInOrder /\ HeldIsAllocated
      BY InitPairs DEF KeepInv
    <2>1. \A d \in Deploys : held[d] = <<>>
      BY Zenon DEF Init
    <2> QED BY <2>1 DEF HeldInOrder, HeldIsAllocated
  <1>2. KeepInv /\ [Next]_vars => KeepInv'
    <2> SUFFICES ASSUME KeepInv, [Next]_vars PROVE KeepInv'
      OBVIOUS
    <2>1. TypeOK' /\ PairsWhole'
      <3>1. TypeOK /\ PairsWhole
        BY Zenon DEF KeepInv
      <3> QED BY <3>1, TypeStep, MapsStep
    <2>2. CASE UNCHANGED vars
      <3>1. held' = held /\ at' = at /\ allocated' = allocated /\ redeployed' = redeployed
        BY <2>2 DEF vars
      <3>2. HeldInOrder'
        BY Zenon, <3>1 DEF KeepInv, HeldInOrder
      <3>3. HeldIsAllocated'
        BY ZenonT(30), <3>1 DEF KeepInv, HeldIsAllocated
      <3> QED BY Zenon, <2>1, <3>2, <3>3 DEF KeepInv
    <2>3. HeldInOrder' /\ HeldIsAllocated'
      BY Zenon, <2>2, KeepsHeldKeeps, AllocateKeepsHeld, FreePairKeepsHeld DEF Next, KeepsHeld, KeepInv
    <2> QED BY <2>1, <2>3 DEF KeepInv
  <1> QED BY <1>1, <1>2, KeepInvSuffices, PTL DEF Spec
=============================================================================
