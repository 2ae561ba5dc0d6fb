------------------------- MODULE LoadBalancerProofs -------------------------
(***************************************************************************)
(* What LoadBalancer promises for any number of targets, requests and      *)
(* drains: LoadBalancerInv is inductive.  The lemmas take the steps in the *)
(* groups of the module, and each group by the conjuncts it can disturb.   *)
(***************************************************************************)
EXTENDS LoadBalancer, TLAPS

\* The deployment's own drain is one of the drains.
LEMMA DeployDrainIsDrain == DeployDrain \in Drains
  BY LoadBalancerConstants

\* A load balancer just created satisfies the invariant.
LEMMA LoadBalancerInit == Init => LoadBalancerInv
<1> SUFFICES ASSUME Init PROVE LoadBalancerInv
  OBVIOUS
<1> USE DEF Init, NewTargets, Adding, Draining, Healthy, Unhealthy
<1>1. TypeOK
  <2>1. TargetTypeOK
    BY DEF TargetTypeOK, TargetStates, NoState
  <2>2. Len(All) \in Nat /\ phase \in Phases
    BY LoadBalancerConstants DEF Phases
  <2>3. marked \in 0..Len(All) /\ scanned \in 0..Len(All)
    BY <2>2
  <2>4. writers \in Seq(Targets) /\ readers \in Seq(Targets)
    OBVIOUS
  <2>5. writerIndex \in Nat /\ readerIndex \in Nat /\ lock \in Targets \cup {MainUpdate, NoHolder}
    OBVIOUS
  <2>6. announced \in BOOLEAN /\ allHealthy \in BOOLEAN
    BY Zenon
  <2> QED
    BY <2>1, <2>2, <2>3, <2>4, <2>5, <2>6 DEF TypeOK
<1>2. NoTargetLeftDraining
  BY DEF NoTargetLeftDraining
<1>3. DrainKnowsState
  BY DEF DrainKnowsState, InProgress
<1>4. CopiedRequestsDone
  BY DEF CopiedRequestsDone
<1>5. DeployDrainsReplaced /\ DeployCopyComplete
  BY LoadBalancerConstants DEF DeployDrainsReplaced, DeployCopyComplete
<1>6. WritersWrite /\ RestoringWhileMarking
  BY LoadBalancerConstants DEF WritersWrite, RestoringWhileMarking, NoHolder
<1>7. WritesStayOffReaders
  BY NoTargetIsNone, LoadBalancerConstants DEF WritesStayOffReaders, NoTarget
<1> QED
  BY <1>1, <1>2, <1>3, <1>4, <1>5, <1>6, <1>7 DEF LoadBalancerInv

-----------------------------------------------------------------------------
\* A step that leaves requests and drains alone, makes no target draining, does
\* not go back to before the deployment's drain and pools no reader among the
\* writers keeps the invariant, given the types.
LEMMA LoadBalancerFrame ==
  ASSUME LoadBalancerInv, TypeOK',
         UNCHANGED <<requestVars, drainVars>>,
         \A t \in Targets : state'[t] = Draining => state[t] = Draining,
         phase \in {"draining", "deployed"} => phase' \in {"draining", "deployed"},
         WritersWrite', RestoringWhileMarking'
  PROVE  LoadBalancerInv'
<1> USE DEF requestVars, drainVars
<1>1. NoTargetLeftDraining'
  BY DEF LoadBalancerInv, NoTargetLeftDraining
<1>2. DrainKnowsState' /\ CopiedRequestsDone'
  BY DEF LoadBalancerInv, DrainKnowsState, CopiedRequestsDone
<1>3. DeployDrainsReplaced'
  BY DEF LoadBalancerInv, DeployDrainsReplaced
<1>4. DeployCopyComplete'
  BY DEF LoadBalancerInv, DeployCopyComplete, Inflight
<1>5. WritesStayOffReaders'
  BY DEF LoadBalancerInv, WritesStayOffReaders
<1> QED
  BY <1>1, <1>2, <1>3, <1>4, <1>5 DEF LoadBalancerInv

\* updateHealthyTargets keeps the invariant: what it appends to the writers is
\* not a reader.
LEMMA LoadBalancerUpdate ==
  ASSUME LoadBalancerInv,
         (\E u \in Targets \cup {MainUpdate} : BeginUpdate(u)) \/ ScanTarget \/ EndUpdate
  PROVE  LoadBalancerInv'
<1> USE DEF targetVars, checkVars, requestVars, drainVars
<1>1. TypeOK /\ TargetTypeOK /\ WritersWrite /\ RestoringWhileMarking
  BY DEF LoadBalancerInv, TypeOK
<1>2. Len(All) \in Nat
  BY LoadBalancerConstants
<1>3. ASSUME NEW u \in Targets \cup {MainUpdate}, BeginUpdate(u)
      PROVE  LoadBalancerInv'
  <2>1. TypeOK'
    BY SMTT(30), <1>1, <1>2, <1>3 DEF TypeOK, TargetTypeOK, BeginUpdate
  <2>2. WritersWrite' /\ RestoringWhileMarking'
    BY <1>3 DEF WritersWrite, RestoringWhileMarking, BeginUpdate, WantsUpdate
  <2> QED
    BY <1>3, <2>1, <2>2, LoadBalancerFrame DEF BeginUpdate
<1>4. ASSUME ScanTarget PROVE LoadBalancerInv'
  <2> DEFINE t == All[scanned + 1]
  <2>1. t \in Targets
    BY SMTT(30), <1>1, <1>2, <1>4, LoadBalancerConstants DEF ScanTarget, TypeOK
  <2>2. WritersWrite' /\ writers' \in Seq(Targets) /\ readers' \in Seq(Targets)
    BY SMTT(30), <1>1, <1>4, <2>1 DEF ScanTarget, TypeOK, WritersWrite
  <2>3. TargetTypeOK'
    BY SMTT(30), <1>1, <1>4 DEF ScanTarget, TargetTypeOK
  <2>4. TypeOK'
    BY SMTT(30), <1>1, <1>2, <1>4, <2>2, <2>3 DEF ScanTarget, TypeOK
  <2> QED
    BY <1>1, <1>4, <2>2, <2>4, LoadBalancerFrame DEF ScanTarget, RestoringWhileMarking
<1>5. ASSUME EndUpdate PROVE LoadBalancerInv'
  <2>1. closed' \in [Targets -> BOOLEAN]
    BY Zenon, <1>1, <1>5 DEF EndUpdate, StopHealthChecks, TargetTypeOK
  <2>2. /\ checker' \in [Targets -> {"idle", "probing", "passed", "failed", "changed", "off"}]
        /\ phase' \in Phases
        /\ phase' # phase => phase' = "active" /\ lock = MainUpdate
    BY Zenon, <1>1, <1>5 DEF EndUpdate, UpdateReturns, NotificationDone, TypeOK, TargetTypeOK, Phases
  <2>3. TargetTypeOK'
    BY <1>1, <1>5, <2>1, <2>2 DEF EndUpdate, TargetTypeOK
  <2>4. announced' \in BOOLEAN
    BY <1>1, <1>5 DEF EndUpdate, TypeOK
  <2>5. TypeOK'
    BY <1>1, <1>5, <2>2, <2>3, <2>4 DEF EndUpdate, TypeOK, poolVars
  <2> QED
    BY SMTT(30), <1>1, <1>5, <2>2, <2>5, LoadBalancerFrame, LoadBalancerConstants
       DEF EndUpdate, WritersWrite, RestoringWhileMarking, NoHolder, poolVars
<1> QED
  BY <1>3, <1>4, <1>5

\* The steps of the load balancer's life keep the invariant.
LEMMA LoadBalancerLife ==
  ASSUME LoadBalancerInv,
         \/ Install \/ InstallFails \/ DeployTimeout \/ UpdateLoadBalancer
         \/ Dispose \/ DeployReturns \/ RemoveService
  PROVE  LoadBalancerInv'
<1> USE DEF Install, InstallFails, DeployTimeout, UpdateLoadBalancer, Dispose, DeployReturns,
            RemoveService, targetVars, checkVars, requestVars, drainVars, poolVars, updateVars
<1>1. TypeOK /\ TargetTypeOK /\ WritersWrite /\ RestoringWhileMarking
  BY SMTT(30) DEF LoadBalancerInv, TypeOK
<1>2. TargetTypeOK'
  BY Zenon, <1>1 DEF TargetTypeOK, StopHealthChecks
<1>3. TypeOK'
  BY SMTT(30), <1>1, <1>2 DEF TypeOK, Phases
<1>4. WritersWrite' /\ RestoringWhileMarking'
  BY SMTT(30), <1>1 DEF WritersWrite, RestoringWhileMarking
<1>5. state' = state /\ (phase \in {"draining", "deployed"} => phase' \in {"draining", "deployed"})
  BY SMTT(30)
<1>6. UNCHANGED <<requestVars, drainVars>>
  BY SMTT(30)
<1> QED
  BY SMTT(30), <1>3, <1>4, <1>5, <1>6, LoadBalancerFrame

\* Health checks and MarkAllHealthy keep the invariant: neither makes a target
\* draining.
LEMMA LoadBalancerChecks ==
  ASSUME LoadBalancerInv,
         MarkHealthy \/ \E t \in Targets : CheckStep(t) \/ CheckCompleted(t)
  PROVE  LoadBalancerInv'
<1> USE DEF targetVars, checkVars, requestVars, drainVars, poolVars, updateVars, lbVars
<1>1. TypeOK /\ TargetTypeOK /\ WritersWrite /\ RestoringWhileMarking
  BY DEF LoadBalancerInv, TypeOK
<1>2. ASSUME MarkHealthy PROVE LoadBalancerInv'
  <2>a. Len(All) \in Nat /\ marked \in 0..Len(All) /\ marked < Len(All)
    BY SMTT(30), <1>1, <1>2, LoadBalancerConstants DEF MarkHealthy, TypeOK
  <2>0. marked + 1 \in 1..Len(All)
    BY <2>a
  <2>1. All[marked + 1] \in Targets /\ marked + 1 \in 0..Len(All)
    BY SMTT(30), <2>0, LoadBalancerConstants
  <2>2. state' \in [Targets -> TargetStates]
    BY <1>1, <1>2, <2>1 DEF MarkHealthy, TargetTypeOK, TargetStates
  <2>3. TargetTypeOK'
    BY <1>1, <1>2, <2>2 DEF MarkHealthy, TargetTypeOK
  <2>4. allHealthy' \in BOOLEAN
    BY <1>1, <1>2 DEF MarkHealthy, Observe, TypeOK
  <2>5. TypeOK'
    BY <1>1, <1>2, <2>1, <2>3, <2>4 DEF MarkHealthy, TypeOK
  <2>6. \A t \in Targets : state'[t] = Draining => state[t] = Draining
    BY <1>1, <1>2, <2>1 DEF MarkHealthy, TargetTypeOK, Healthy, Draining
  <2> QED
    BY <1>1, <1>2, <2>5, <2>6, LoadBalancerFrame
       DEF MarkHealthy, WritersWrite, RestoringWhileMarking
<1>3. ASSUME NEW t \in Targets, CheckStep(t) PROVE LoadBalancerInv'
  <2>1. checker' \in [Targets -> {"idle", "probing", "passed", "failed", "changed", "off"}]
    <3>1. \E c \in {"probing", "passed", "failed", "off"} : checker' = [checker EXCEPT ![t] = c]
      BY SMTT(30), <1>3 DEF CheckStep, BeginCheck, CheckAnswered, CheckCancelled
    <3> QED
      BY <1>1, <3>1 DEF TargetTypeOK
  <2>2. UNCHANGED <<state, closed, requestVars, drainVars, lbVars, allHealthy>>
    BY SMTT(30), <1>3 DEF CheckStep, BeginCheck, CheckAnswered, CheckCancelled
  <2>3. TargetTypeOK'
    BY <1>1, <2>1, <2>2 DEF TargetTypeOK
  <2>4. TypeOK'
    BY <1>1, <2>2, <2>3 DEF TypeOK
  <2> QED
    BY <1>1, <2>2, <2>4, LoadBalancerFrame DEF WritersWrite, RestoringWhileMarking
<1>4. ASSUME NEW t \in Targets, CheckCompleted(t) PROVE LoadBalancerInv'
  <2>1. CheckedState(t) \in TargetStates /\ (CheckedState(t) = Draining => state[t] = Draining)
    BY <1>1 DEF CheckedState, TargetTypeOK, TargetStates, Healthy, Unhealthy, Draining
  <2>2. state' \in [Targets -> TargetStates]
    BY SMTT(30), <1>1, <1>4, <2>1 DEF CheckCompleted, HealthCheckCompleted, TargetTypeOK
  <2>3. checker' \in [Targets -> {"idle", "probing", "passed", "failed", "changed", "off"}]
    BY SMTT(30), <1>1, <1>4 DEF CheckCompleted, HealthCheckCompleted, TargetTypeOK
  <2>4. UNCHANGED <<closed, requestVars, drainVars, lbVars>>
    BY <1>4 DEF CheckCompleted, HealthCheckCompleted
  <2>5. TargetTypeOK'
    BY <1>1, <2>2, <2>3, <2>4 DEF TargetTypeOK
  <2>6. allHealthy' \in BOOLEAN
    BY <1>1, <1>4 DEF CheckCompleted, Observe, TypeOK
  <2>7. TypeOK'
    BY <1>1, <2>4, <2>5, <2>6 DEF TypeOK
  <2>8. \A s \in Targets : state'[s] = Draining => state[s] = Draining
    BY SMTT(30), <1>1, <1>4, <2>1 DEF CheckCompleted, HealthCheckCompleted, TargetTypeOK
  <2> QED
    BY <1>1, <2>4, <2>7, <2>8, LoadBalancerFrame DEF WritersWrite, RestoringWhileMarking
<1> QED
  BY <1>2, <1>3, <1>4

\* Requests keep the invariant.  A claim needs the load balancer installed, so
\* the deployment's drain has not begun; a request that ends or is cancelled
\* only makes contexts done and the in-flight sets smaller.
LEMMA LoadBalancerRequests ==
  ASSUME LoadBalancerInv,
         NEW r \in Requests, claimTarget(r) \/ RequestStep(r)
  PROVE  LoadBalancerInv'
<1> USE DEF targetVars, checkVars, requestVars, drainVars, poolVars, updateVars, lbVars
<1>1. TypeOK /\ TargetTypeOK
  BY DEF LoadBalancerInv, TypeOK
<1>2. UNCHANGED <<state, checkVars, drainVars, phase, marked, writers, readers, updateVars, allHealthy>>
  BY SMTT(30) DEF claimTarget, StartRequest, RequestStep, Hijack, ClientGone, endInflightRequest
<1>3. NoTargetLeftDraining' /\ DrainKnowsState' /\ DeployDrainsReplaced'
      /\ WritersWrite' /\ RestoringWhileMarking'
  <2>1. state' = state /\ drain' = drain /\ original' = original
    BY <1>2
  <2>2. phase' = phase /\ writers' = writers /\ lock' = lock
    BY <1>2
  <2> QED
    BY SMTT(30), <2>1, <2>2 DEF LoadBalancerInv, NoTargetLeftDraining, DrainKnowsState,
                      DeployDrainsReplaced, WritersWrite, RestoringWhileMarking
<1>4. ASSUME claimTarget(r) PROVE LoadBalancerInv'
  <2>1. ASSUME NEW pool \in Seq(Targets), pool # <<>>, NEW index \in Nat
        PROVE  NextIndex(index, pool) \in Nat /\ NextIndex(index, pool) + 1 \in 1..Len(pool)
    <3>1. Len(pool) \in Nat \ {0}
      BY <2>1
    <3> QED
      BY <3>1 DEF NextIndex
  <2>2. UNCHANGED ctxDone /\ UNCHANGED hijacked
    BY SMTT(30), <1>4 DEF claimTarget, StartRequest
  <2>3. writerIndex' \in Nat /\ readerIndex' \in Nat
    BY Zenon, <1>1, <1>4, <2>1 DEF claimTarget, ReaderChosen, TypeOK
  <2>4. /\ status' \in [Requests -> {"new", "inflight", "ended", "rejected"}]
        /\ \/ on' = on
           \/ \E t \in Targets : on' = [on EXCEPT ![r] = t] /\ (t \in ReadOnly => r \in Reads \ WriteCookie)
    <3>1. CASE ReaderChosen(r)
      <4>1. readers \in Seq(Targets) /\ readerIndex \in Nat /\ readers # <<>>
        BY <1>1, <3>1 DEF ReaderChosen, TypeOK
      <4>2. NextIndex(readerIndex, readers) + 1 \in 1..Len(readers)
        BY Zenon, <2>1, <4>1
      <4>3. readers[NextIndex(readerIndex, readers) + 1] \in Targets
        BY <4>1, <4>2
      <4> QED
        BY ZenonT(30), <1>1, <1>4, <3>1, <4>3
           DEF claimTarget, StartRequest, ReaderChosen, TreatAsRead, TargetTypeOK
    <3>2. CASE ~ReaderChosen(r) /\ writers # <<>>
      <4>1. writers \in Seq(Targets \ ReadOnly) /\ writerIndex \in Nat
        BY <1>1 DEF TypeOK, LoadBalancerInv, WritersWrite
      <4>2. NextIndex(writerIndex, writers) + 1 \in 1..Len(writers)
        BY Zenon, <1>1, <2>1, <3>2 DEF TypeOK
      <4>3. writers[NextIndex(writerIndex, writers) + 1] \in Targets \ ReadOnly
        BY <4>1, <4>2
      <4> QED
        BY Zenon, <1>1, <1>4, <3>2, <4>3 DEF claimTarget, StartRequest, TargetTypeOK
    <3>3. CASE ~ReaderChosen(r) /\ writers = <<>>
      BY Zenon, <1>1, <1>4, <3>3 DEF claimTarget, TargetTypeOK
    <3> QED
      BY <3>1, <3>2, <3>3
  <2>5. on' \in [Requests -> Targets \cup {NoTarget}]
    BY SMTT(30), <1>1, <2>4 DEF TargetTypeOK
  <2>6. TargetTypeOK'
    BY SMTT(30), <1>1, <1>2, <2>2, <2>4, <2>5 DEF TargetTypeOK
  <2>7. TypeOK'
    BY <1>1, <1>2, <2>3, <2>6 DEF TypeOK
  <2>8. CopiedRequestsDone'
    BY Zenon, <1>2, <2>2 DEF LoadBalancerInv, CopiedRequestsDone
  <2>9. DeployCopyComplete'
    <3>1. \A t \in Targets : drain[DeployDrain][t] = "idle"
      <4>1. phase \notin {"draining", "deployed"}
        BY SMTT(30), <1>4 DEF claimTarget, Installed
      <4> QED
        BY <4>1 DEF LoadBalancerInv, DeployDrainsReplaced
    <3> QED
      BY SMTT(30), <1>2, <3>1 DEF DeployCopyComplete
  <2>10. WritesStayOffReaders'
    BY Zenon, <1>1, <2>4 DEF LoadBalancerInv, WritesStayOffReaders, TargetTypeOK
  <2> QED
    BY <1>3, <2>7, <2>8, <2>9, <2>10 DEF LoadBalancerInv
<1>5. ASSUME RequestStep(r) PROVE LoadBalancerInv'
  <2>1. /\ UNCHANGED <<on, writerIndex, readerIndex>>
        /\ status' \in [Requests -> {"new", "inflight", "ended", "rejected"}]
        /\ hijacked' \in [Requests -> BOOLEAN]
        /\ ctxDone' \in [Requests -> BOOLEAN]
    BY Zenon, <1>1, <1>5 DEF RequestStep, Hijack, ClientGone, endInflightRequest, TargetTypeOK
  <2>2. \A q \in Requests : /\ ctxDone[q] => ctxDone'[q]
                            /\ status'[q] = "inflight" => status[q] = "inflight"
    <3>1. \/ UNCHANGED <<status, ctxDone>>
          \/ ctxDone' = [ctxDone EXCEPT ![r] = TRUE] /\ status' = [status EXCEPT ![r] = "ended"]
          \/ ctxDone' = [ctxDone EXCEPT ![r] = TRUE] /\ status' = status
      BY SMTT(30), <1>5 DEF RequestStep, Hijack, ClientGone, endInflightRequest
    <3> QED
      BY SMTT(30), <1>1, <3>1 DEF TargetTypeOK
  <2>3. TypeOK'
    BY SMTT(30), <1>1, <1>2, <2>1 DEF TypeOK, TargetTypeOK
  <2>4. CopiedRequestsDone'
    <3>1. \A d \in Drains, t \in Targets : toCancel[d][t] \subseteq Requests
      BY <1>1 DEF TargetTypeOK
    <3>2. CopiedRequestsDone
      BY DEF LoadBalancerInv
    <3> QED
      BY Zenon, <1>2, <2>2, <3>1, <3>2 DEF CopiedRequestsDone
  <2>5. DeployCopyComplete'
    BY Zenon, <1>2, <2>1, <2>2 DEF LoadBalancerInv, DeployCopyComplete, Inflight
  <2>6. WritesStayOffReaders'
    BY <2>1 DEF LoadBalancerInv, WritesStayOffReaders
  <2> QED
    BY <1>3, <2>3, <2>4, <2>5, <2>6 DEF LoadBalancerInv
<1> QED
  BY <1>4, <1>5

-----------------------------------------------------------------------------
\* The call of DrainAll, by a deployment or by a pause, keeps the invariant.
LEMMA LoadBalancerDrainAll ==
  ASSUME LoadBalancerInv,
         DeployDrainAll \/ \E d \in Drains \ {DeployDrain} : PauseDrainAll(d)
  PROVE  LoadBalancerInv'
<1> USE DEF checkVars, requestVars, poolVars, updateVars
<1>1. TypeOK /\ TargetTypeOK
  BY DEF LoadBalancerInv, TypeOK
<1>2. PICK d \in Drains :
        /\ DrainAll(d)
        /\ \/ d = DeployDrain /\ phase' = "draining" /\ phase = "disposed"
           \/ d # DeployDrain /\ phase' = phase
        /\ UNCHANGED <<marked, poolVars, updateVars, allHealthy>>
  BY LoadBalancerConstants DEF DeployDrainAll, PauseDrainAll
<1>3. /\ drain' = [drain EXCEPT ![d] = [t \in Targets |-> "called"]]
      /\ \A t \in Targets : drain[d][t] = "idle"
      /\ UNCHANGED <<state, checkVars, requestVars, original, toCancel>>
  BY <1>2 DEF DrainAll
<1>4. \A e \in Drains, t \in Targets :
        drain'[e][t] = IF e = d THEN "called" ELSE drain[e][t]
  BY <1>1, <1>3 DEF TargetTypeOK
<1>5. TypeOK'
  <2>1. TargetTypeOK'
    BY SMTT(30), <1>1, <1>3 DEF TargetTypeOK
  <2> QED
    BY <1>1, <1>2, <2>1 DEF TypeOK, Phases
<1>6. NoTargetLeftDraining'
  BY <1>3, <1>4 DEF LoadBalancerInv, NoTargetLeftDraining, InProgress
<1>7. DrainKnowsState' /\ CopiedRequestsDone'
  <2>1. DrainKnowsState'
    BY <1>3, <1>4 DEF LoadBalancerInv, DrainKnowsState, InProgress
  <2>2. CopiedRequestsDone'
    BY SMTT(30), <1>3, <1>4 DEF LoadBalancerInv, CopiedRequestsDone
  <2> QED
    BY <2>1, <2>2
<1>8. DeployDrainsReplaced'
  <2>1. CASE d = DeployDrain
    BY <1>2, <2>1 DEF DeployDrainsReplaced
  <2>2. CASE d # DeployDrain
    BY SMTT(30), <1>2, <1>4, <2>2, DeployDrainIsDrain DEF LoadBalancerInv, DeployDrainsReplaced
  <2> QED
    BY <2>1, <2>2
<1>9. DeployCopyComplete'
  BY SMTT(30), <1>3, <1>4, DeployDrainIsDrain DEF LoadBalancerInv, DeployCopyComplete, Inflight
<1>10. WritersWrite' /\ RestoringWhileMarking' /\ WritesStayOffReaders'
  BY <1>2, <1>3 DEF LoadBalancerInv, WritersWrite, RestoringWhileMarking, WritesStayOffReaders
<1> QED
  BY <1>5, <1>6, <1>7, <1>8, <1>9, <1>10 DEF LoadBalancerInv

\* A drain that moves on without touching the target's state, the requests in
\* flight or the copies of others keeps the invariant, if it has a copy of the
\* requests in flight once it is past copying, and they are done once it is
\* past waiting.
LEMMA LoadBalancerDrainMoves ==
  ASSUME LoadBalancerInv, NEW d \in Drains, NEW t \in Targets,
         NEW from \in InProgress, NEW to \in InProgress, DrainStep(d, t, from, to),
         NEW copy \in SUBSET Requests, toCancel' = [toCancel EXCEPT ![d][t] = copy],
         Inflight(t) \subseteq copy \/ (copy = toCancel[d][t] /\ from # "marked"),
         ctxDone' \in [Requests -> BOOLEAN],
         \A r \in Requests : ctxDone[r] => ctxDone'[r],
         to = "restoring" => \A r \in copy : ctxDone'[r],
         UNCHANGED <<state, checkVars, status, on, hijacked, original, lbVars, allHealthy>>
  PROVE  LoadBalancerInv'
<1> USE DEF checkVars, poolVars, updateVars, lbVars
<1>1. TypeOK /\ TargetTypeOK
  BY DEF LoadBalancerInv, TypeOK
<1>2. /\ drain[d][t] = from
      /\ \A e \in Drains, u \in Targets :
           /\ drain'[e][u] = IF e = d /\ u = t THEN to ELSE drain[e][u]
           /\ toCancel'[e][u] = IF e = d /\ u = t THEN copy ELSE toCancel[e][u]
  BY SMTT(30), <1>1 DEF DrainStep, TargetTypeOK
<1>3. TypeOK'
  <2>1. drain' \in [Drains -> [Targets -> {"idle", "called", "marked", "copied", "waiting",
                                          "restoring", "returned", "early"}]]
    BY SMTT(30), <1>1 DEF DrainStep, TargetTypeOK, InProgress
  <2>2. toCancel' \in [Drains -> [Targets -> SUBSET Requests]]
    BY SMTT(30), <1>1 DEF TargetTypeOK
  <2>3. TargetTypeOK'
    BY SMTT(30), <1>1, <2>1, <2>2 DEF TargetTypeOK
  <2> QED
    BY SMTT(30), <1>1, <2>3 DEF TypeOK
<1>4. NoTargetLeftDraining'
  BY SMTT(30), <1>2 DEF LoadBalancerInv, NoTargetLeftDraining
<1>5. DrainKnowsState'
  BY SMTT(30), <1>2 DEF LoadBalancerInv, DrainKnowsState
<1>6. CopiedRequestsDone'
  <2>1. \A e \in Drains, u \in Targets : toCancel[e][u] \subseteq Requests
    BY <1>1 DEF TargetTypeOK
  <2>2. CopiedRequestsDone
    BY DEF LoadBalancerInv
  <2> QED
    BY SMTT(30), <1>2, <2>1, <2>2 DEF CopiedRequestsDone, InProgress
<1>7. DeployDrainsReplaced'
  <2>1. \A u \in Targets : drain'[DeployDrain][u] # "idle" => drain[DeployDrain][u] # "idle"
    BY SMTT(30), <1>2, DeployDrainIsDrain DEF InProgress
  <2> QED
    BY SMTT(30), <2>1 DEF LoadBalancerInv, DeployDrainsReplaced
<1>8. DeployCopyComplete'
  BY SMTT(30), <1>2, DeployDrainIsDrain DEF LoadBalancerInv, DeployCopyComplete, Inflight, InProgress
<1>9. WritersWrite' /\ RestoringWhileMarking' /\ WritesStayOffReaders'
  BY DEF LoadBalancerInv, WritersWrite, RestoringWhileMarking, WritesStayOffReaders
<1> QED
  BY SMTT(30), <1>3, <1>4, <1>5, <1>6, <1>7, <1>8, <1>9 DEF LoadBalancerInv

\* The first step of a drain keeps the invariant: it returns early or has read
\* a state other than draining.
LEMMA LoadBalancerDrainMark ==
  ASSUME LoadBalancerInv, NEW d \in Drains, NEW t \in Targets,
         DrainMark(d, t), UNCHANGED <<lbVars, allHealthy>>
  PROVE  LoadBalancerInv'
<1> USE DEF checkVars, requestVars, poolVars, updateVars, lbVars
<1> DEFINE to == IF state[t] = Draining THEN "early" ELSE "marked"
<1>1. TypeOK /\ TargetTypeOK
  BY DEF LoadBalancerInv, TypeOK
<1>2. /\ drain[d][t] = "called"
      /\ \A e \in Drains, u \in Targets :
           /\ drain'[e][u] = IF e = d /\ u = t THEN to ELSE drain[e][u]
           /\ original'[e][u] = IF e = d /\ u = t THEN state[t] ELSE original[e][u]
      /\ \A u \in Targets : state'[u] = IF u = t THEN Draining ELSE state[u]
      /\ UNCHANGED <<requestVars, toCancel>>
  BY SMTT(30), <1>1 DEF DrainMark, DrainStep, TargetTypeOK
<1>3. TypeOK'
  <2>1. drain' \in [Drains -> [Targets -> {"idle", "called", "marked", "copied", "waiting",
                                          "restoring", "returned", "early"}]]
    BY SMTT(30), <1>1 DEF DrainMark, DrainStep, TargetTypeOK
  <2>2. original' \in [Drains -> [Targets -> TargetStates \cup {NoState}]]
    BY SMTT(30), <1>1 DEF DrainMark, TargetTypeOK
  <2>3. state' \in [Targets -> TargetStates]
    BY SMTT(30), <1>1 DEF DrainMark, TargetTypeOK, TargetStates
  <2>4. TargetTypeOK'
    BY SMTT(30), <1>1, <2>1, <2>2, <2>3 DEF DrainMark, TargetTypeOK
  <2> QED
    BY <1>1, <2>4 DEF TypeOK
<1>4. NoTargetLeftDraining'
  BY SMTT(30), <1>2 DEF LoadBalancerInv, NoTargetLeftDraining, InProgress
<1>5. DrainKnowsState'
  <2>1. state[t] \in TargetStates
    BY <1>1 DEF TargetTypeOK
  <2>2. DrainKnowsState
    BY DEF LoadBalancerInv
  <2> QED
    BY SMTT(30), <1>2, <2>1, <2>2 DEF DrainKnowsState, InProgress
<1>6. CopiedRequestsDone'
  <2>1. CopiedRequestsDone
    BY DEF LoadBalancerInv
  <2> QED
    BY ZenonT(30), <1>2, <2>1 DEF CopiedRequestsDone
<1>7. DeployDrainsReplaced'
  <2>1. \A u \in Targets : drain'[DeployDrain][u] # "idle" => drain[DeployDrain][u] # "idle"
    BY Zenon, <1>2, DeployDrainIsDrain
  <2>2. phase' = phase
    BY Zenon
  <2>3. DeployDrainsReplaced
    BY DEF LoadBalancerInv
  <2> QED
    BY Zenon, <2>1, <2>2, <2>3 DEF DeployDrainsReplaced
<1>8. DeployCopyComplete'
  <2>2. toCancel' = toCancel /\ \A u \in Targets : Inflight(u)' = Inflight(u)
    BY SMTT(30), <1>2 DEF Inflight
  <2>3. \A u \in Targets : drain'[DeployDrain][u] \in {"copied", "waiting", "restoring", "returned"}
          => drain[DeployDrain][u] \in {"copied", "waiting", "restoring", "returned"}
    BY Zenon, <1>2, DeployDrainIsDrain
  <2> QED
    BY SMTT(30), <2>2, <2>3 DEF LoadBalancerInv, DeployCopyComplete
<1>9. WritersWrite' /\ RestoringWhileMarking' /\ WritesStayOffReaders'
  BY SMTT(30), <1>2 DEF LoadBalancerInv, WritersWrite, RestoringWhileMarking, WritesStayOffReaders
<1> QED
  BY <1>3, <1>4, <1>5, <1>6, <1>7, <1>8, <1>9 DEF LoadBalancerInv

\* The last step of a drain keeps the invariant: the state it puts back is not
\* the draining one.
LEMMA LoadBalancerDrainEnds ==
  ASSUME LoadBalancerInv, NEW d \in Drains, NEW t \in Targets, DrainEnds(d, t)
  PROVE  LoadBalancerInv'
<1> USE DEF checkVars, requestVars, poolVars, updateVars, lbVars
<1>1. TypeOK /\ TargetTypeOK
  BY DEF LoadBalancerInv, TypeOK
<1>2. /\ drain[d][t] = "restoring"
      /\ \A e \in Drains, u \in Targets :
           drain'[e][u] = IF e = d /\ u = t THEN "returned" ELSE drain[e][u]
  BY SMTT(30), <1>1 DEF DrainEnds, DrainRestore, DrainStep, TargetTypeOK
<1>a. \A u \in Targets : state'[u] = IF u = t THEN original[d][t] ELSE state[u]
  BY SMTT(30), <1>1 DEF DrainEnds, DrainRestore, TargetTypeOK
<1>b. UNCHANGED <<checkVars, status, on, hijacked, ctxDone, original, toCancel>>
  BY DEF DrainEnds, DrainRestore
<1>c. UNCHANGED lbVars
  BY DEF DrainEnds
<1>3. original[d][t] \in TargetStates \ {Draining}
  BY Zenon, <1>2 DEF LoadBalancerInv, DrainKnowsState, InProgress
<1>4. TypeOK'
  <2>1. drain' \in [Drains -> [Targets -> {"idle", "called", "marked", "copied", "waiting",
                                          "restoring", "returned", "early"}]]
    BY SMTT(30), <1>1 DEF DrainEnds, DrainRestore, DrainStep, TargetTypeOK
  <2>2. state' \in [Targets -> TargetStates]
    BY SMTT(30), <1>1, <1>3 DEF DrainEnds, DrainRestore, TargetTypeOK
  <2>3. TargetTypeOK'
    BY SMTT(30), <1>1, <1>b, <2>1, <2>2 DEF TargetTypeOK
  <2>4. allHealthy' \in BOOLEAN
    BY <1>1 DEF DrainEnds, Observe, TypeOK
  <2> QED
    BY <1>1, <1>c, <2>3, <2>4 DEF TypeOK
<1>5. NoTargetLeftDraining'
  BY ZenonT(30), <1>2, <1>a, <1>3 DEF LoadBalancerInv, NoTargetLeftDraining
<1>6. DrainKnowsState' /\ CopiedRequestsDone'
  <2>1. DrainKnowsState'
    <3>1. \A e \in Drains, u \in Targets :
            drain'[e][u] \in InProgress => drain[e][u] \in InProgress
      BY SMTT(30), <1>2 DEF InProgress
    <3>2. original' = original
      BY <1>b
    <3> QED
      BY SMTT(30), <3>1, <3>2 DEF LoadBalancerInv, DrainKnowsState
  <2>2. CopiedRequestsDone'
    <3>1. \A e \in Drains, u \in Targets :
            drain'[e][u] \in {"restoring", "returned"} => drain[e][u] \in {"restoring", "returned"}
      BY SMTT(30), <1>2
    <3>2. toCancel' = toCancel /\ ctxDone' = ctxDone
      BY <1>b
    <3> QED
      BY SMTT(30), <3>1, <3>2 DEF LoadBalancerInv, CopiedRequestsDone
  <2> QED
    BY <2>1, <2>2
<1>7. DeployDrainsReplaced'
  <2>1. \A u \in Targets : drain'[DeployDrain][u] # "idle" => drain[DeployDrain][u] # "idle"
    BY SMTT(30), <1>2, DeployDrainIsDrain
  <2>2. phase' = phase
    BY <1>c
  <2> QED
    BY SMTT(30), <2>1, <2>2 DEF LoadBalancerInv, DeployDrainsReplaced
<1>8. DeployCopyComplete'
  <2>2. toCancel' = toCancel /\ \A u \in Targets : Inflight(u)' = Inflight(u)
    BY SMTT(30), <1>b DEF Inflight
  <2>3. \A u \in Targets : drain'[DeployDrain][u] \in {"copied", "waiting", "restoring", "returned"}
          => drain[DeployDrain][u] \in {"copied", "waiting", "restoring", "returned"}
    BY Zenon, <1>2, DeployDrainIsDrain
  <2> QED
    BY SMTT(30), <2>2, <2>3 DEF LoadBalancerInv, DeployCopyComplete
<1>9. WritersWrite' /\ RestoringWhileMarking' /\ WritesStayOffReaders'
  BY <1>b, <1>c DEF LoadBalancerInv, WritersWrite, RestoringWhileMarking, WritesStayOffReaders
<1> QED
  BY <1>4, <1>5, <1>6, <1>7, <1>8, <1>9 DEF LoadBalancerInv

\* Every step of a drain keeps the invariant.
LEMMA LoadBalancerDrains ==
  ASSUME LoadBalancerInv, NEW d \in Drains, NEW t \in Targets,
         DrainProgress(d, t) \/ DrainEnds(d, t)
  PROVE  LoadBalancerInv'
<1> USE DEF requestVars
<1>1. TargetTypeOK
  BY DEF LoadBalancerInv, TypeOK
<1>2. /\ toCancel[d][t] \in SUBSET Requests
      /\ toCancel = [toCancel EXCEPT ![d][t] = toCancel[d][t]]
      /\ Inflight(t) \in SUBSET Requests
  BY SMTT(30), <1>1 DEF TargetTypeOK, Inflight
<1>3. ASSUME DrainProgress(d, t) PROVE LoadBalancerInv'
  <2>0. UNCHANGED <<lbVars, allHealthy>>
    BY <1>3 DEF DrainProgress
  <2>1. CASE DrainMark(d, t)
    BY <2>0, <2>1, LoadBalancerDrainMark
  <2>2. CASE pendingRequestsToCancel(d, t)
    BY Zenon, <1>1, <1>2, <2>0, <2>2, LoadBalancerDrainMoves
       DEF pendingRequestsToCancel, InProgress, TargetTypeOK
  <2>3. CASE DrainCancelHijacked(d, t)
    <3>1. /\ ctxDone' \in [Requests -> BOOLEAN]
          /\ \A r \in Requests : ctxDone[r] => ctxDone'[r]
      BY SMTT(30), <1>1, <2>3 DEF DrainCancelHijacked, TargetTypeOK
    <3> QED
      BY ZenonT(30), <1>2, <2>0, <2>3, <3>1, LoadBalancerDrainMoves DEF DrainCancelHijacked, InProgress
  <2>4. CASE DrainCompleted(d, t)
    BY Zenon, <1>1, <1>2, <2>0, <2>4, LoadBalancerDrainMoves
       DEF DrainCompleted, InProgress, TargetTypeOK
  <2>5. CASE DrainDeadline(d, t)
    <3>1. /\ ctxDone' \in [Requests -> BOOLEAN]
          /\ \A r \in Requests : ctxDone[r] \/ r \in toCancel[d][t] => ctxDone'[r]
      BY Zenon, <1>1, <2>5 DEF DrainDeadline, TargetTypeOK
    <3> QED
      BY ZenonT(30), <1>2, <2>0, <2>5, <3>1, LoadBalancerDrainMoves DEF DrainDeadline, InProgress
  <2> QED
    BY <1>3, <2>1, <2>2, <2>3, <2>4, <2>5 DEF DrainProgress
<1> QED
  BY <1>3, LoadBalancerDrainEnds

-----------------------------------------------------------------------------
\* Every step, stuttering included, keeps the invariant.
LEMMA LoadBalancerNext == LoadBalancerInv /\ [Next]_vars => LoadBalancerInv'
<1> SUFFICES ASSUME LoadBalancerInv, [Next]_vars PROVE LoadBalancerInv'
  OBVIOUS
<1>1. CASE UNCHANGED vars
  <2> USE <1>1 DEF vars, targetVars, checkVars, requestVars, drainVars, poolVars, updateVars
  <2>1. TypeOK' /\ WritersWrite' /\ RestoringWhileMarking'
    <3>1. TypeOK /\ WritersWrite /\ RestoringWhileMarking
      BY DEF LoadBalancerInv
    <3> QED
      BY Zenon, <3>1 DEF TypeOK, TargetTypeOK, WritersWrite, RestoringWhileMarking
  <2> QED
    BY SMTT(30), <2>1, LoadBalancerFrame
<1>2. CASE (\E u \in Targets \cup {MainUpdate} : BeginUpdate(u)) \/ ScanTarget \/ EndUpdate
  BY <1>2, LoadBalancerUpdate
<1>3. CASE \/ Install \/ InstallFails \/ DeployTimeout \/ UpdateLoadBalancer
           \/ Dispose \/ DeployReturns \/ RemoveService
  BY <1>3, LoadBalancerLife
<1>4. CASE MarkHealthy \/ \E t \in Targets : CheckStep(t) \/ CheckCompleted(t)
  BY <1>4, LoadBalancerChecks
<1>5. CASE \E r \in Requests : claimTarget(r) \/ RequestStep(r)
  BY <1>5, LoadBalancerRequests
<1>6. CASE DeployDrainAll \/ \E d \in Drains \ {DeployDrain} : PauseDrainAll(d)
  BY <1>6, LoadBalancerDrainAll
<1>7. CASE \E d \in Drains, t \in Targets : DrainProgress(d, t) \/ DrainEnds(d, t)
  BY <1>7, LoadBalancerDrains
<1> QED
  BY SMTT(30), <1>1, <1>2, <1>3, <1>4, <1>5, <1>6, <1>7 DEF Next

\* The inductive invariant holds in every reachable state.
THEOREM LoadBalancerInvariant == Spec => []LoadBalancerInv
BY LoadBalancerInit, LoadBalancerNext, PTL DEF Spec

\* Every variable keeps its type; in particular the state Drain puts back is
\* one it has read.
THEOREM LoadBalancerTypeOK == Spec => []TypeOK
<1>1. LoadBalancerInv => TypeOK
  BY DEF LoadBalancerInv
<1> QED
  BY <1>1, LoadBalancerInvariant, PTL

\* However many drains and health checks overlap on a target, it refuses
\* requests as draining only while a drain of it is in progress.
THEOREM LoadBalancerNoTargetLeftDraining == Spec => []NoTargetLeftDraining
<1>1. LoadBalancerInv => NoTargetLeftDraining
  BY DEF LoadBalancerInv
<1> QED
  BY <1>1, LoadBalancerInvariant, PTL

\* When a deployment returns, the requests left on a replaced target that its
\* own Drain went through are all cancelled.
THEOREM LoadBalancerDrained == Spec => []DrainedUnlessOverlapped
<1>1. LoadBalancerInv => DrainedUnlessOverlapped
  <2>1. LoadBalancerInv => CopiedRequestsDone /\ DeployCopyComplete
    BY DEF LoadBalancerInv
  <2> QED
    BY Zenon, <2>1, DeployDrainIsDrain DEF DrainedUnlessOverlapped, CopiedRequestsDone, DeployCopyComplete
<1> QED
  BY <1>1, LoadBalancerInvariant, PTL

\* No write, and no read bound to the writers by its cookie, is ever started on
\* a reader.
THEOREM LoadBalancerWritesStayOffReaders == Spec => []WritesStayOffReaders
<1>1. LoadBalancerInv => WritesStayOffReaders
  BY DEF LoadBalancerInv
<1> QED
  BY <1>1, LoadBalancerInvariant, PTL

-----------------------------------------------------------------------------
\* The pools.  updateHealthyTargets asks the targets one by one while their states
\* change, and what it saw of a target is right only if that target's own
\* notification is not outstanding: the invariant follows a scan target by target.

Pooled == Members(writers) \cup Members(readers)

\* The targets the update in progress has asked.
Asked == {All[i] : i \in 1..scanned}

\* No drain has touched the target's state.
Untouched(t) == \A d \in Drains : drain[d][t] \in {"idle", "called"}

\* The pools know a target, unless it has yet to be asked or to notify.
PoolKnows(t) ==
  (phase # "restoring" \/ lock = MainUpdate) /\ Untouched(t) =>
    /\ lock # NoHolder /\ t \notin Asked => t \notin Pooled
    /\ (lock = NoHolder \/ t \in Asked) /\ (lock = t \/ checker[t] # "changed")
         => (state[t] = Healthy <=> t \in Pooled)

\* The holder of lb.lock: a target that has not had its notification answered, or
\* MarkAllHealthy once it has marked all targets.
HolderWaits ==
  /\ lock \in Targets => checker[lock] = "changed"
  /\ lock = MainUpdate => marked = Len(All) /\ phase = "restoring"

\* readers are pooled as readers, and each target asked was pooled at most once.
ReadersRead == readers \in Seq(ReadOnly)
PooledOnce == lock # NoHolder => healthyCount <= scanned

\* Until a deployed load balancer was announced healthy it is in no service: nothing
\* drains it.
Unannounced ==
  /\ marked = 0 /\ Len(All) > 0 /\ ~announced => phase \in {"waiting", "restoring", "failed"}
  /\ phase \in {"waiting", "restoring", "failed"} =>
       \A d \in Drains, t \in Targets : drain[d][t] = "idle"

\* A sole target that was announced healthy is never checked again.
SoleSettled ==
  Len(All) = 1 /\ ReadOnly = {} /\ marked = 0 /\ announced =>
    /\ lock = NoHolder /\ writers = All
    /\ \A t \in Targets : closed[t] /\ checker[t] \in {"idle", "off"}

\* Of two targets, the one whose update it is stays as it is during the scan.  If it
\* was asked first, it is still healthy when the other one is asked; if it comes
\* second, both are healthy when the first one is asked, or it will not be pooled.
TogetherWhenScanned ==
  /\ (\A t \in Targets : state[t] = Healthy) => allHealthy
  /\ marked = 0 /\ Len(All) \in 1..2 =>
       /\ announced => allHealthy
       /\ ~announced /\ lock # NoHolder /\ healthyCount = scanned /\ scanned > 0 =>
            IF scanned = Len(All) THEN allHealthy
            ELSE IF lock = All[1] THEN state[lock] = Healthy
            ELSE state[lock] = Healthy => allHealthy

PoolInv ==
  /\ LoadBalancerInv
  /\ \A t \in Targets : PoolKnows(t)
  /\ HolderWaits
  /\ ReadersRead
  /\ PooledOnce
  /\ Unannounced
  /\ SoleSettled
  /\ TogetherWhenScanned

\* The sequences of updateHealthyTargets.
LEMMA AllTargets ==
  /\ Len(All) \in Nat
  /\ \A i \in 1..Len(All) : All[i] \in Targets
  /\ \A t \in Targets : \E i \in 1..Len(All) : t = All[i]
  <1>1. Len(All) \in Nat
    BY LoadBalancerConstants
  <1>2. {All[i] : i \in 1..Len(All)} = Targets
    BY Zenon, LoadBalancerConstants
  <1> QED BY Zenon, <1>1, <1>2

LEMMA SmallLength == \A n \in Nat : n <= 2 => n \in 1..2 \/ n = 0
  OBVIOUS

\* Two sequences of one element each, if there is only one element.
LEMMA SoleElement ==
  ASSUME NEW S, NEW x, \A t \in S : t = x,
         NEW one \in Seq(S), NEW two \in Seq(S), Len(one) = 1, Len(two) = 1
  PROVE  one = two
  <1>1. 1 \in 1..Len(one) /\ 1 \in 1..Len(two)
    OBVIOUS
  <1>2. one[1] \in S /\ two[1] \in S
    BY <1>1
  <1>3. one[1] = x /\ two[1] = x
    BY Zenon, <1>2
  <1> QED BY <1>3

LEMMA MembersNone == Members(<<>>) = {}
  BY DEF Members

LEMMA MembersAppend ==
  ASSUME NEW seq \in Seq(Targets), NEW t \in Targets
  PROVE  Members(Append(seq, t)) = Members(seq) \cup {t}
  <1>1. Len(seq) \in Nat /\ Len(Append(seq, t)) = Len(seq) + 1
    OBVIOUS
  <1>2. /\ \A i \in 1..Len(seq) : Append(seq, t)[i] = seq[i]
        /\ Append(seq, t)[Len(seq) + 1] = t
    OBVIOUS
  <1>3. \A i \in 1..(Len(seq) + 1) : i \in 1..Len(seq) \/ i = Len(seq) + 1
    BY <1>1
  <1>4. \A i \in 1..Len(seq) : i \in 1..(Len(seq) + 1)
    BY <1>1
  <1>5. Len(seq) + 1 \in 1..(Len(seq) + 1)
    BY <1>1
  <1>6. ASSUME NEW x \in Members(Append(seq, t)) PROVE x \in Members(seq) \cup {t}
    <2>1. PICK i \in 1..(Len(seq) + 1) : x = Append(seq, t)[i]
      BY Zenon, <1>1 DEF Members
    <2> QED BY Zenon, <1>2, <1>3, <2>1 DEF Members
  <1>7. ASSUME NEW x \in Members(seq) PROVE x \in Members(Append(seq, t))
    <2>1. PICK i \in 1..Len(seq) : x = seq[i]
      BY Zenon DEF Members
    <2> QED BY Zenon, <1>1, <1>2, <1>4, <2>1 DEF Members
  <1>8. t \in Members(Append(seq, t))
    BY Zenon, <1>1, <1>2, <1>5 DEF Members
  <1> QED BY Zenon, <1>6, <1>7, <1>8

\* Who may hold the lock.
LEMMA Holders ==
  /\ NoHolder \notin Targets /\ MainUpdate \notin Targets /\ MainUpdate # NoHolder
  /\ LoadBalancerInv => lock \in Targets \/ lock = MainUpdate \/ lock = NoHolder
  BY Zenon, NoTargetIsNone, LoadBalancerConstants DEF NoHolder, LoadBalancerInv, TypeOK

-----------------------------------------------------------------------------
\* The steps outside updateHealthyTargets and MarkAllHealthy.

Before == {"waiting", "restoring", "failed"}

PhaseGoes ==
  /\ phase = "restoring" <=> phase' = "restoring"
  /\ phase' \in Before => phase \in Before /\ drain' = drain
  /\ phase' \notin Before /\ phase \in Before => announced

TargetGoes(t) ==
  /\ checker[t] = "changed" => checker'[t] = "changed"
  /\ Untouched(t)' => /\ Untouched(t)
                      /\ state'[t] = state[t] \/ (checker[t] # "changed" /\ checker'[t] = "changed")
  /\ closed[t] => closed'[t] /\ (checker[t] \in {"idle", "off"} => checker'[t] \in {"idle", "off"})

Observed ==
  /\ allHealthy => allHealthy'
  /\ (\A t \in Targets : state'[t] = Healthy) =>
       allHealthy' \/ \A t \in Targets : state[t] = Healthy

Outside ==
  /\ writers' = writers /\ readers' = readers /\ lock' = lock /\ scanned' = scanned
  /\ announced' = announced /\ marked' = marked
  /\ PhaseGoes
  /\ \A t \in Targets : TargetGoes(t)
  /\ Observed

LEMMA OutsideKnows ==
  ASSUME PoolInv, Outside, NEW t \in Targets
  PROVE  PoolKnows(t)'
  <1>1. /\ writers' = writers /\ readers' = readers /\ lock' = lock /\ scanned' = scanned
        /\ PhaseGoes /\ TargetGoes(t)
    BY Zenon DEF Outside
  <1>2. PoolKnows(t) /\ HolderWaits
    BY Zenon DEF PoolInv
  <1>3. Pooled' = Pooled /\ Asked' = Asked
    BY Zenon, <1>1 DEF Pooled, Members, Asked
  <1> SUFFICES ASSUME phase' # "restoring" \/ lock = MainUpdate, Untouched(t)'
               PROVE  /\ lock # NoHolder /\ t \notin Asked => t \notin Pooled
                      /\ (lock = NoHolder \/ t \in Asked) /\ (lock = t \/ checker'[t] # "changed")
                           => (state'[t] = Healthy <=> t \in Pooled)
    BY Zenon, <1>1, <1>3 DEF PoolKnows
  <1>4. phase # "restoring" \/ lock = MainUpdate
    BY Zenon, <1>1 DEF PhaseGoes
  <1>5. /\ Untouched(t) /\ (checker[t] = "changed" => checker'[t] = "changed")
        /\ state'[t] = state[t] \/ (checker[t] # "changed" /\ checker'[t] = "changed")
    BY Zenon, <1>1 DEF TargetGoes
  <1>6. /\ lock # NoHolder /\ t \notin Asked => t \notin Pooled
        /\ (lock = NoHolder \/ t \in Asked) /\ (lock = t \/ checker[t] # "changed")
             => (state[t] = Healthy <=> t \in Pooled)
    BY Zenon, <1>2, <1>4, <1>5 DEF PoolKnows
  <1>7. lock = t => checker[t] = "changed"
    BY Zenon, <1>2 DEF HolderWaits
  <1>8. ASSUME lock = t \/ checker'[t] # "changed"
        PROVE  state'[t] = state[t] /\ (lock = t \/ checker[t] # "changed")
    BY Zenon, <1>5, <1>7, <1>8
  <1> QED BY Zenon, <1>6, <1>8

LEMMA OutsideScan ==
  ASSUME PoolInv, Outside
  PROVE  TogetherWhenScanned'
  <1>1. /\ writers' = writers /\ readers' = readers /\ lock' = lock /\ scanned' = scanned
        /\ announced' = announced /\ marked' = marked
        /\ PhaseGoes /\ Observed /\ \A t \in Targets : TargetGoes(t)
    BY Zenon DEF Outside
  <1>2. TogetherWhenScanned /\ HolderWaits /\ Unannounced /\ LoadBalancerInv
    BY Zenon DEF PoolInv
  <1>3. healthyCount' = healthyCount
    BY Zenon, <1>1 DEF healthyCount
  <1>4. (\A t \in Targets : state'[t] = Healthy) => allHealthy'
    BY Zenon, <1>1, <1>2 DEF Observed, TogetherWhenScanned
  <1>5. allHealthy => allHealthy'
    BY Zenon, <1>1 DEF Observed
  <1>6. ASSUME marked = 0, Len(All) \in 1..2, ~announced, lock # NoHolder
        PROVE  state'[lock] = state[lock]
    <2>1. Len(All) > 0 /\ Len(All) # 0
      BY <1>6
    <2>2. lock \in Targets /\ checker[lock] = "changed"
      BY Zenon, <1>2, <1>6, <2>1, Holders DEF HolderWaits
    <2>3. phase \in Before /\ \A d \in Drains, t \in Targets : drain[d][t] = "idle"
      BY Zenon, <1>2, <1>6, <2>1 DEF Unannounced, Before
    <2>4. drain' = drain
      BY Zenon, <1>1, <1>6, <2>3 DEF PhaseGoes
    <2>5. Untouched(lock)'
      <3>1. \A d \in Drains : drain'[d][lock'] = "idle"
        BY Zenon, <1>1, <2>2, <2>3, <2>4
      <3> QED BY Zenon, <3>1 DEF Untouched
    <2>6. TargetGoes(lock)
      BY Zenon, <1>1, <2>2
    <2>7. Untouched(lock)' => state'[lock] = state[lock] \/ checker[lock] # "changed"
      BY Zenon, <1>1, <2>6 DEF TargetGoes, Untouched
    <2> QED BY Zenon, <2>2, <2>5, <2>7
  <1>7. ASSUME marked = 0, Len(All) \in 1..2
        PROVE  /\ announced => allHealthy'
               /\ ~announced /\ lock # NoHolder /\ healthyCount = scanned /\ scanned > 0 =>
                    IF scanned = Len(All) THEN allHealthy'
                    ELSE IF lock = All[1] THEN state'[lock] = Healthy
                    ELSE state'[lock] = Healthy => allHealthy'
    <2>1. /\ announced => allHealthy
          /\ ~announced /\ lock # NoHolder /\ healthyCount = scanned /\ scanned > 0 =>
               IF scanned = Len(All) THEN allHealthy
               ELSE IF lock = All[1] THEN state[lock] = Healthy
               ELSE state[lock] = Healthy => allHealthy
      BY Zenon, <1>2, <1>7 DEF TogetherWhenScanned
    <2> QED BY Zenon, <1>5, <1>6, <1>7, <2>1
  <1> QED BY Zenon, <1>1, <1>3, <1>4, <1>7 DEF TogetherWhenScanned

LEMMA OutsideKeeps ==
  ASSUME PoolInv, LoadBalancerInv', Outside
  PROVE  PoolInv'
  <1>1. /\ writers' = writers /\ readers' = readers /\ lock' = lock /\ scanned' = scanned
        /\ announced' = announced /\ marked' = marked
        /\ PhaseGoes /\ \A t \in Targets : TargetGoes(t)
    BY Zenon DEF Outside
  <1>2. HolderWaits'
    <2>1. lock \in Targets => checker'[lock] = "changed"
      BY Zenon, <1>1 DEF PoolInv, HolderWaits, TargetGoes
    <2>2. lock = MainUpdate => marked = Len(All) /\ phase' = "restoring"
      BY Zenon, <1>1 DEF PoolInv, HolderWaits, PhaseGoes
    <2> QED BY Zenon, <1>1, <2>1, <2>2 DEF HolderWaits
  <1>3. ReadersRead' /\ PooledOnce'
    BY Zenon, <1>1 DEF PoolInv, ReadersRead, PooledOnce, healthyCount
  <1>4. Unannounced'
    <2>1. marked = 0 /\ Len(All) > 0 /\ ~announced => phase' \in Before
      BY Zenon, <1>1 DEF PoolInv, Unannounced, PhaseGoes, Before
    <2>2. phase' \in Before => \A d \in Drains, t \in Targets : drain'[d][t] = "idle"
      BY Zenon, <1>1 DEF PoolInv, Unannounced, PhaseGoes, Before
    <2> QED BY Zenon, <1>1, <2>1, <2>2 DEF Unannounced, Before
  <1>5. SoleSettled'
    <2> SUFFICES ASSUME Len(All) = 1, ReadOnly = {}, marked = 0, announced
                 PROVE  /\ lock = NoHolder /\ writers = All
                        /\ \A t \in Targets : closed'[t] /\ checker'[t] \in {"idle", "off"}
      BY Zenon, <1>1 DEF SoleSettled
    <2>1. /\ lock = NoHolder /\ writers = All
          /\ \A t \in Targets : closed[t] /\ checker[t] \in {"idle", "off"}
      BY Zenon DEF PoolInv, SoleSettled
    <2> QED BY Zenon, <1>1, <2>1 DEF TargetGoes
  <1> QED BY Zenon, <1>2, <1>3, <1>4, <1>5, OutsideKnows, OutsideScan DEF PoolInv

\* Installing, replacing, disposing and removing, and the requests.
LEMMA LifeOutside ==
  ASSUME PoolInv,
         \/ Install \/ InstallFails \/ DeployTimeout \/ UpdateLoadBalancer
         \/ Dispose \/ DeployReturns \/ RemoveService
         \/ \E r \in Requests : claimTarget(r) \/ RequestStep(r)
         \/ UNCHANGED vars
  PROVE  Outside
  <1>1. /\ writers' = writers /\ readers' = readers /\ lock' = lock /\ scanned' = scanned
        /\ announced' = announced /\ marked' = marked /\ allHealthy' = allHealthy
        /\ state' = state /\ checker' = checker /\ drain' = drain
    <2>1. CASE \/ Install \/ InstallFails \/ DeployTimeout \/ UpdateLoadBalancer
               \/ Dispose \/ DeployReturns \/ RemoveService \/ UNCHANGED vars
      BY Zenon, <2>1 DEF Install, InstallFails, DeployTimeout, UpdateLoadBalancer, Dispose,
         DeployReturns, RemoveService, vars, targetVars, checkVars, drainVars, poolVars, updateVars
    <2>2. ASSUME NEW r \in Requests, claimTarget(r) PROVE <1>1
      BY Zenon, <2>2 DEF claimTarget, StartRequest, checkVars, drainVars, updateVars
    <2>3. ASSUME NEW r \in Requests, RequestStep(r) PROVE <1>1
      BY Zenon, <2>3 DEF RequestStep, Hijack, ClientGone, endInflightRequest, checkVars, drainVars,
         lbVars, poolVars, updateVars
    <2> QED BY Zenon, <2>1, <2>2, <2>3
  <1>2. closed' = closed \/ closed' = [t \in Targets |-> TRUE]
    <2>1. CASE \/ Install \/ InstallFails \/ DeployTimeout \/ UpdateLoadBalancer
               \/ Dispose \/ DeployReturns \/ RemoveService \/ UNCHANGED vars
      BY Zenon, <2>1 DEF Install, InstallFails, DeployTimeout, UpdateLoadBalancer, Dispose,
         DeployReturns, RemoveService, vars, targetVars, checkVars, StopHealthChecks
    <2>2. ASSUME NEW r \in Requests, claimTarget(r) \/ RequestStep(r) PROVE closed' = closed
      BY Zenon, <2>2 DEF claimTarget, StartRequest, RequestStep, Hijack, ClientGone,
         endInflightRequest, checkVars
    <2> QED BY Zenon, <2>1, <2>2
  <1>3. \/ phase' = phase
        \/ phase = "waiting" /\ phase' = "failed"
        \/ phase = "waiting" /\ phase' = "active" /\ announced
        \/ phase \notin Before /\ phase' \notin Before
    <2>1. CASE Install \/ InstallFails \/ DeployTimeout \/ UNCHANGED vars
      BY Zenon, <2>1 DEF Install, InstallFails, DeployTimeout, vars
    <2>2. CASE UpdateLoadBalancer \/ Dispose \/ DeployReturns \/ RemoveService
      BY Zenon, <2>2 DEF UpdateLoadBalancer, Dispose, DeployReturns, RemoveService, Before
    <2>3. ASSUME NEW r \in Requests, claimTarget(r) \/ RequestStep(r) PROVE phase' = phase
      BY Zenon, <2>3 DEF claimTarget, RequestStep, lbVars
    <2> QED BY Zenon, <2>1, <2>2, <2>3
  <1>4. PhaseGoes
    <2>1. "active" \notin Before /\ "waiting" \in Before /\ "failed" \in Before /\ "restoring" \in Before
      BY Zenon DEF Before
    <2>2. "waiting" # "restoring" /\ "failed" # "restoring" /\ "active" # "restoring"
      BY Zenon
    <2> QED BY Zenon, <1>1, <1>3, <2>1, <2>2 DEF PhaseGoes
  <1>5. ASSUME NEW t \in Targets PROVE TargetGoes(t)
    <2>1. closed[t] => closed'[t]
      BY Zenon, <1>2
    <2>2. Untouched(t)' = Untouched(t)
      BY Zenon, <1>1 DEF Untouched
    <2> QED BY Zenon, <1>1, <2>1, <2>2 DEF TargetGoes
  <1>6. Observed
    BY Zenon, <1>1 DEF Observed
  <1> QED BY Zenon, <1>1, <1>4, <1>5, <1>6 DEF Outside

\* A check that changes a target leaves it to notify.
LEMMA CheckOutside ==
  ASSUME PoolInv, NEW t \in Targets, CheckStep(t) \/ CheckCompleted(t)
  PROVE  Outside
  <1>1. /\ writers' = writers /\ readers' = readers /\ lock' = lock /\ scanned' = scanned
        /\ announced' = announced /\ marked' = marked /\ phase' = phase
        /\ closed' = closed /\ drain' = drain
    BY Zenon DEF CheckStep, CheckCompleted, HealthCheckCompleted, BeginCheck, CheckAnswered,
       CheckCancelled, lbVars, poolVars, updateVars, drainVars
  <1>2. state \in [Targets -> TargetStates] /\ DOMAIN checker = Targets
    BY Zenon DEF PoolInv, LoadBalancerInv, TypeOK, TargetTypeOK
  <1>3. /\ \A s \in Targets : s # t => state'[s] = state[s] /\ checker'[s] = checker[s]
        /\ checker[t] # "changed"
        /\ state'[t] = state[t] \/ checker'[t] = "changed"
        /\ closed[t] /\ checker[t] \in {"idle", "off"} => checker'[t] \in {"idle", "off"}
    <2>1. CASE CheckStep(t)
      <3>1. state' = state
        BY Zenon, <2>1 DEF CheckStep, BeginCheck, CheckAnswered, CheckCancelled
      <3>2. \E c : /\ checker' = [checker EXCEPT ![t] = c] /\ checker[t] \in {"idle", "probing"}
                   /\ closed[t] => c = "off"
        BY Zenon, <2>1 DEF CheckStep, BeginCheck, CheckAnswered, CheckCancelled
      <3>3. PICK c : /\ checker' = [checker EXCEPT ![t] = c] /\ checker[t] \in {"idle", "probing"}
                     /\ closed[t] => c = "off"
        BY Zenon, <3>2
      <3>4. checker'[t] = c /\ \A s \in Targets : s # t => checker'[s] = checker[s]
        BY Zenon, <1>2, <3>3
      <3>5. checker[t] # "changed"
        BY Zenon, <3>3
      <3> QED BY Zenon, <3>1, <3>3, <3>4, <3>5
    <2>2. CASE CheckCompleted(t)
      <3>1. /\ checker[t] \in {"passed", "failed"}
            /\ state' = [state EXCEPT ![t] = CheckedState(t)]
            /\ checker' = [checker EXCEPT ![t] = IF CheckedState(t) # state[t] THEN "changed" ELSE "idle"]
        BY Zenon, <2>2 DEF CheckCompleted, HealthCheckCompleted
      <3>2. checker[t] # "changed" /\ checker[t] \notin {"idle", "off"}
        BY Zenon, <3>1
      <3>3. /\ state'[t] = CheckedState(t)
            /\ checker'[t] = IF CheckedState(t) # state[t] THEN "changed" ELSE "idle"
            /\ \A s \in Targets : s # t => state'[s] = state[s] /\ checker'[s] = checker[s]
        BY Zenon, <1>2, <3>1
      <3> QED BY Zenon, <3>2, <3>3
    <2> QED BY Zenon, <2>1, <2>2
  <1>4. PhaseGoes
    BY Zenon, <1>1 DEF PhaseGoes
  <1>5. ASSUME NEW s \in Targets PROVE TargetGoes(s)
    <2>1. Untouched(s)' = Untouched(s)
      BY Zenon, <1>1 DEF Untouched
    <2>2. CASE s = t
      BY Zenon, <1>1, <1>3, <2>1, <2>2 DEF TargetGoes
    <2>3. CASE s # t
      BY Zenon, <1>1, <1>3, <2>1, <2>3 DEF TargetGoes
    <2> QED BY Zenon, <2>2, <2>3
  <1>6. Observed
    <2>1. CASE CheckStep(t)
      <3>1. state' = state /\ allHealthy' = allHealthy
        BY Zenon, <2>1 DEF CheckStep, BeginCheck, CheckAnswered, CheckCancelled
      <3> QED BY Zenon, <3>1 DEF Observed
    <2>2. CASE CheckCompleted(t)
      BY Zenon, <2>2 DEF CheckCompleted, Observe, Observed
    <2> QED BY Zenon, <2>1, <2>2
  <1> QED BY Zenon, <1>1, <1>4, <1>5, <1>6 DEF Outside

\* A drain changes only targets it has touched.
LEMMA DrainOutside ==
  ASSUME PoolInv,
         \/ DeployDrainAll
         \/ \E d \in Drains \ {DeployDrain} : PauseDrainAll(d)
         \/ \E d \in Drains, t \in Targets : DrainProgress(d, t) \/ DrainEnds(d, t)
  PROVE  Outside
  <1>1. /\ state \in [Targets -> TargetStates] /\ DOMAIN drain = Drains
        /\ \A d \in Drains : DOMAIN drain[d] = Targets
    BY Zenon DEF PoolInv, LoadBalancerInv, TypeOK, TargetTypeOK
  <1>2. ASSUME NEW d \in Drains, DrainAll(d), phase \notin Before, phase' \notin Before,
               allHealthy' = allHealthy,
               marked' = marked, UNCHANGED <<poolVars, updateVars>>
        PROVE  Outside
    <2>1. /\ state' = state /\ checker' = checker /\ closed' = closed
          /\ \A t \in Targets : drain[d][t] = "idle"
          /\ drain' = [drain EXCEPT ![d] = [t \in Targets |-> "called"]]
      BY Zenon, <1>2 DEF DrainAll, checkVars
    <2>2. ASSUME NEW t \in Targets, Untouched(t)' PROVE Untouched(t)
      <3>1. \A e \in Drains : e # d => drain'[e] = drain[e]
        BY Zenon, <1>1, <2>1
      <3> QED BY Zenon, <2>1, <2>2, <3>1 DEF Untouched
    <2>3. \A t \in Targets : TargetGoes(t)
      BY Zenon, <2>1, <2>2 DEF TargetGoes
    <2>4. PhaseGoes
      BY Zenon, <1>2 DEF PhaseGoes, Before
    <2>5. Observed
      BY Zenon, <1>2, <2>1 DEF Observed
    <2> QED BY Zenon, <1>2, <2>3, <2>4, <2>5 DEF Outside, poolVars, updateVars
  <1>3. CASE DeployDrainAll
    <2>1. /\ DrainAll(DeployDrain) /\ phase \notin Before /\ phase' \notin Before
          /\ allHealthy' = allHealthy /\ marked' = marked /\ UNCHANGED <<poolVars, updateVars>>
      BY <1>3 DEF DeployDrainAll, Before
    <2> QED BY Zenon, <1>2, <2>1, DeployDrainIsDrain
  <1>4. ASSUME NEW d \in Drains, PauseDrainAll(d) PROVE Outside
    BY Zenon, <1>2, <1>4 DEF PauseDrainAll, Before
  <1>5. ASSUME NEW d \in Drains, NEW t \in Targets, DrainProgress(d, t) \/ DrainEnds(d, t)
        PROVE  Outside
    <2>1. /\ writers' = writers /\ readers' = readers /\ lock' = lock /\ scanned' = scanned
          /\ announced' = announced /\ marked' = marked /\ phase' = phase
      BY Zenon, <1>5 DEF DrainProgress, DrainEnds, lbVars, poolVars, updateVars
    <2>2. checker' = checker /\ closed' = closed
      BY Zenon, <1>5 DEF DrainProgress, DrainEnds, DrainMark, pendingRequestsToCancel,
         DrainCancelHijacked, DrainCompleted, DrainDeadline, DrainRestore, checkVars
    <2>3. \E to \in {"early", "marked", "copied", "waiting", "restoring", "returned"} :
            drain' = [drain EXCEPT ![d][t] = to]
      BY Zenon, <1>5 DEF DrainProgress, DrainEnds, DrainMark, pendingRequestsToCancel,
         DrainCancelHijacked, DrainCompleted, DrainDeadline, DrainRestore, DrainStep
    <2>4. PICK to \in {"early", "marked", "copied", "waiting", "restoring", "returned"} :
            drain' = [drain EXCEPT ![d][t] = to]
      BY Zenon, <2>3
    <2>5. /\ drain'[d][t] = to
          /\ \A e \in Drains, s \in Targets : e # d \/ s # t => drain'[e][s] = drain[e][s]
      BY SMTT(30), <1>1, <2>4
    <2>6. ~Untouched(t)'
      BY Zenon, <2>5 DEF Untouched
    <2>7. drain[d][t] # "idle"
      BY Zenon, <1>5 DEF DrainProgress, DrainEnds, DrainMark, pendingRequestsToCancel,
         DrainCancelHijacked, DrainCompleted, DrainDeadline, DrainRestore, DrainStep
    <2>8. phase \notin Before
      BY Zenon, <2>7 DEF PoolInv, Unannounced, Before
    <2>9. \A s \in Targets : s # t => state'[s] = state[s] /\ (Untouched(s)' => Untouched(s))
      <3>1. state' = state \/ \E x : state' = [state EXCEPT ![t] = x]
        BY Zenon, <1>5 DEF DrainProgress, DrainEnds, DrainMark, pendingRequestsToCancel,
           DrainCancelHijacked, DrainCompleted, DrainDeadline, DrainRestore
      <3>2. \A s \in Targets : s # t => state'[s] = state[s]
        BY Zenon, <1>1, <3>1
      <3>3. ASSUME NEW s \in Targets, s # t, Untouched(s)' PROVE Untouched(s)
        BY Zenon, <2>5, <3>3 DEF Untouched
      <3> QED BY Zenon, <3>2, <3>3
    <2>10. \A s \in Targets : TargetGoes(s)
      BY Zenon, <2>2, <2>6, <2>9 DEF TargetGoes
    <2>11. Observed
      <3>1. CASE DrainMark(d, t) /\ allHealthy' = allHealthy
        <4>1. state'[t] = Draining
          BY Zenon, <1>1, <3>1 DEF DrainMark
        <4>2. Draining # Healthy
          BY Zenon DEF Draining, Healthy
        <4> QED BY Zenon, <3>1, <4>1, <4>2 DEF Observed
      <3>2. CASE state' = state /\ allHealthy' = allHealthy
        BY Zenon, <3>2 DEF Observed
      <3>3. CASE DrainEnds(d, t)
        BY Zenon, <3>3 DEF DrainEnds, Observe, Observed
      <3> QED BY Zenon, <1>5, <3>1, <3>2, <3>3 DEF DrainProgress, pendingRequestsToCancel,
         DrainCancelHijacked, DrainCompleted, DrainDeadline
    <2>12. PhaseGoes
      BY Zenon, <2>1, <2>8 DEF PhaseGoes
    <2> QED BY Zenon, <2>1, <2>10, <2>11, <2>12 DEF Outside
  <1> QED BY Zenon, <1>3, <1>4, <1>5

-----------------------------------------------------------------------------
\* updateHealthyTargets and MarkAllHealthy.

LEMMA BeginUpdateKeeps ==
  ASSUME PoolInv, LoadBalancerInv', NEW u \in Targets \cup {MainUpdate}, BeginUpdate(u)
  PROVE  PoolInv'
  <1>u. /\ WantsUpdate(u) /\ lock = NoHolder
        /\ lock' = u /\ scanned' = 0 /\ writers' = <<>> /\ readers' = <<>>
        /\ state' = state /\ checker' = checker /\ closed' = closed /\ drain' = drain
        /\ phase' = phase /\ marked' = marked /\ announced' = announced /\ allHealthy' = allHealthy
    BY Zenon DEF BeginUpdate, targetVars, checkVars, drainVars
  <1>1. u # NoHolder
    BY Zenon, Holders
  <1>2. Pooled' = {}
    BY Zenon, <1>u, MembersNone DEF Pooled
  <1>3. Asked' = {}
    <2>1. 1..0 = {}
      OBVIOUS
    <2> QED BY Zenon, <1>u, <2>1 DEF Asked
  <1>4. \A t \in Targets : PoolKnows(t)'
    BY Zenon, <1>u, <1>1, <1>2, <1>3 DEF PoolKnows
  <1>5. HolderWaits'
    BY Zenon, <1>u, Holders DEF HolderWaits, WantsUpdate
  <1>6. ReadersRead' /\ PooledOnce'
    BY <1>u DEF ReadersRead, PooledOnce, healthyCount
  <1>7. Unannounced'
    BY Zenon, <1>u DEF PoolInv, Unannounced
  <1>8. SoleSettled'
    <2> SUFFICES ASSUME Len(All) = 1, ReadOnly = {}, marked = 0, announced PROVE FALSE
      BY Zenon, <1>u DEF SoleSettled
    <2>1. \A t \in Targets : checker[t] \in {"idle", "off"}
      BY Zenon DEF PoolInv, SoleSettled
    <2>2. u = MainUpdate
      BY Zenon, <1>u, <2>1 DEF WantsUpdate
    <2>3. marked = Len(All)
      BY Zenon, <1>u, <2>2 DEF WantsUpdate
    <2> QED BY <2>3
  <1>9. TogetherWhenScanned'
    <2>1. ~(scanned' > 0)
      BY <1>u
    <2> QED BY Zenon, <1>u, <2>1 DEF PoolInv, TogetherWhenScanned
  <1> QED BY Zenon, <1>4, <1>5, <1>6, <1>7, <1>8, <1>9 DEF PoolInv

\* One turn of the loop pools the target it asks if that is healthy.
LEMMA ScanPools ==
  ASSUME PoolInv, ScanTarget, NEW t, t = All[scanned + 1]
  PROVE  /\ t \in Targets /\ Asked' = Asked \cup {t}
         /\ Pooled' = IF state[t] = Healthy THEN Pooled \cup {t} ELSE Pooled
         /\ healthyCount' = IF state[t] = Healthy THEN healthyCount + 1 ELSE healthyCount
         /\ healthyCount \in Nat /\ scanned \in Nat /\ scanned' = scanned + 1
         /\ ReadersRead'
  <1>1. /\ writers \in Seq(Targets) /\ readers \in Seq(Targets) /\ readers \in Seq(ReadOnly)
        /\ scanned \in 0..Len(All)
    BY Zenon DEF PoolInv, LoadBalancerInv, TypeOK, ReadersRead
  <1>2. Len(All) \in Nat /\ scanned < Len(All) /\ scanned' = scanned + 1
    BY Zenon, AllTargets DEF ScanTarget
  <1>3. scanned \in Nat /\ scanned + 1 \in 1..Len(All)
    BY <1>1, <1>2
  <1>4. t \in Targets
    BY Zenon, <1>3, AllTargets
  <1>5. Asked' = Asked \cup {t}
    <2>1. \A i : i \in 1..(scanned + 1) <=> i \in 1..scanned \/ i = scanned + 1
      BY <1>3
    <2> QED BY Zenon, <1>2, <2>1 DEF Asked
  <1>6. /\ writers' = IF state[t] = Healthy /\ t \notin ReadOnly THEN Append(writers, t) ELSE writers
        /\ readers' = IF state[t] = Healthy /\ t \in ReadOnly THEN Append(readers, t) ELSE readers
    BY Zenon DEF ScanTarget
  <1>7. Len(writers) \in Nat /\ Len(readers) \in Nat
    BY <1>1
  <1>8. CASE state[t] = Healthy /\ t \in ReadOnly
    <2>1. writers' = writers /\ readers' = Append(readers, t)
      BY Zenon, <1>6, <1>8
    <2>2. Len(readers') = Len(readers) + 1 /\ readers' \in Seq(ReadOnly)
      BY <1>1, <1>8, <2>1
    <2>3. healthyCount' = healthyCount + 1 /\ healthyCount \in Nat
      BY <1>7, <2>1, <2>2 DEF healthyCount
    <2>4. Members(readers)' = Members(readers) \cup {t}
      <3>1. Members(Append(readers, t)) = Members(readers) \cup {t}
        BY Zenon, <1>1, <1>4, MembersAppend
      <3> QED BY Zenon, <2>1, <3>1 DEF Members
    <2>5. Pooled' = Pooled \cup {t}
      BY Zenon, <2>1, <2>4 DEF Pooled
    <2> QED BY Zenon, <1>2, <1>3, <1>4, <1>5, <1>8, <2>2, <2>3, <2>5 DEF ReadersRead
  <1>9. CASE state[t] = Healthy /\ t \notin ReadOnly
    <2>1. readers' = readers /\ writers' = Append(writers, t)
      BY Zenon, <1>6, <1>9
    <2>2. Len(writers') = Len(writers) + 1
      BY <1>1, <1>4, <2>1
    <2>3. healthyCount' = healthyCount + 1 /\ healthyCount \in Nat
      BY <1>7, <2>1, <2>2 DEF healthyCount
    <2>4. Members(writers)' = Members(writers) \cup {t}
      <3>1. Members(Append(writers, t)) = Members(writers) \cup {t}
        BY Zenon, <1>1, <1>4, MembersAppend
      <3> QED BY Zenon, <2>1, <3>1 DEF Members
    <2>5. Pooled' = Pooled \cup {t}
      BY Zenon, <2>1, <2>4 DEF Pooled
    <2> QED BY Zenon, <1>1, <1>2, <1>3, <1>4, <1>5, <1>9, <2>1, <2>3, <2>5 DEF ReadersRead
  <1>10. CASE state[t] # Healthy
    <2>1. readers' = readers /\ writers' = writers
      BY Zenon, <1>6, <1>10
    <2>2. healthyCount' = healthyCount /\ Pooled' = Pooled
      BY Zenon, <2>1 DEF healthyCount, Pooled
    <2>3. healthyCount \in Nat
      BY <1>7 DEF healthyCount
    <2> QED BY Zenon, <1>1, <1>2, <1>3, <1>4, <1>5, <1>10, <2>1, <2>2, <2>3 DEF ReadersRead
  <1> QED BY Zenon, <1>8, <1>9, <1>10

\* If all targets asked so far were pooled, all were healthy together or the one
\* whose update it is still is.
LEMMA ScanSeesTogether ==
  ASSUME PoolInv, ScanTarget,
         marked = 0, Len(All) \in 1..2, ~announced, healthyCount' = scanned + 1
  PROVE  IF scanned + 1 = Len(All) THEN allHealthy
         ELSE IF lock = All[1] THEN state[lock] = Healthy
         ELSE state[lock] = Healthy => allHealthy
  <1>1. PICK t : t = All[scanned + 1]
    BY Zenon
  <1>2. /\ t \in Targets /\ healthyCount \in Nat /\ scanned \in Nat
        /\ healthyCount' = IF state[t] = Healthy THEN healthyCount + 1 ELSE healthyCount
    BY Zenon, <1>1, ScanPools
  <1>3. lock # NoHolder /\ scanned < Len(All)
    BY Zenon DEF ScanTarget
  <1>4. healthyCount <= scanned
    BY Zenon, <1>3 DEF PoolInv, PooledOnce
  <1>5. state[t] = Healthy /\ healthyCount = scanned
    BY <1>2, <1>4
  <1>6. lock \in Targets
    <2>1. marked # Len(All)
      OBVIOUS
    <2> QED BY Zenon, <1>3, <2>1, Holders DEF PoolInv, HolderWaits
  <1>7. (\A s \in Targets : state[s] = Healthy) => allHealthy
    BY Zenon DEF PoolInv, TogetherWhenScanned
  <1>8. CASE Len(All) = 1
    <2>1. \A s \in Targets : s = All[1]
      <3>1. \A i \in 1..1 : i = 1
        OBVIOUS
      <3> QED BY Zenon, <1>8, <3>1, AllTargets
    <2>2. scanned = 0 /\ scanned + 1 = 1
      BY <1>2, <1>3, <1>8
    <2>3. allHealthy
      BY Zenon, <1>1, <1>5, <1>7, <2>1, <2>2
    <2> QED BY Zenon, <1>8, <2>2, <2>3
  <1>9. CASE Len(All) = 2
    <2>1. \A s \in Targets : s = All[1] \/ s = All[2]
      <3>1. \A i \in 1..2 : i = 1 \/ i = 2
        OBVIOUS
      <3> QED BY Zenon, <1>9, <3>1, AllTargets
    <2>2. CASE scanned = 0
      <3>1. scanned + 1 = 1 /\ scanned + 1 # Len(All)
        BY <1>9, <2>2
      <3>2. state[All[1]] = Healthy
        BY Zenon, <1>1, <1>5, <3>1
      <3>3. lock # All[1] /\ state[lock] = Healthy => allHealthy
        BY Zenon, <1>6, <1>7, <2>1, <3>2
      <3> QED BY Zenon, <3>1, <3>2, <3>3
    <2>3. CASE scanned = 1
      <3>1. scanned + 1 = 2 /\ scanned # Len(All) /\ scanned > 0
        BY <1>9, <2>3
      <3>2. state[All[2]] = Healthy
        BY Zenon, <1>1, <1>5, <3>1
      <3>3. IF lock = All[1] THEN state[lock] = Healthy ELSE state[lock] = Healthy => allHealthy
        BY Zenon, <1>3, <1>5, <3>1 DEF PoolInv, TogetherWhenScanned
      <3>4. allHealthy
        BY Zenon, <1>6, <1>7, <2>1, <3>2, <3>3
      <3> QED BY Zenon, <1>9, <3>1, <3>4
    <2>4. scanned = 0 \/ scanned = 1
      BY <1>2, <1>3, <1>9
    <2> QED BY Zenon, <2>2, <2>3, <2>4
  <1>10. Len(All) = 1 \/ Len(All) = 2
    OBVIOUS
  <1> QED BY Zenon, <1>8, <1>9, <1>10

LEMMA ScanTargetKeeps ==
  ASSUME PoolInv, LoadBalancerInv', ScanTarget
  PROVE  PoolInv'
  <1>u. /\ lock # NoHolder /\ lock' = lock
        /\ state' = state /\ checker' = checker /\ closed' = closed /\ drain' = drain
        /\ phase' = phase /\ marked' = marked /\ announced' = announced /\ allHealthy' = allHealthy
    BY Zenon DEF ScanTarget, targetVars, checkVars, drainVars
  <1>1. PICK t : t = All[scanned + 1]
    BY Zenon
  <1>2. /\ t \in Targets /\ Asked' = Asked \cup {t}
        /\ Pooled' = IF state[t] = Healthy THEN Pooled \cup {t} ELSE Pooled
        /\ healthyCount' = IF state[t] = Healthy THEN healthyCount + 1 ELSE healthyCount
        /\ healthyCount \in Nat /\ scanned \in Nat /\ scanned' = scanned + 1
        /\ ReadersRead'
    BY Zenon, <1>1, ScanPools
  <1>3. ASSUME NEW s \in Targets PROVE PoolKnows(s)'
    <2> SUFFICES ASSUME phase # "restoring" \/ lock = MainUpdate, Untouched(s)
                 PROVE  /\ s \notin Asked' => s \notin Pooled'
                        /\ s \in Asked' /\ (lock = s \/ checker[s] # "changed")
                             => (state[s] = Healthy <=> s \in Pooled')
      BY Zenon, <1>u DEF PoolKnows, Untouched
    <2>1. /\ s \notin Asked => s \notin Pooled
          /\ s \in Asked /\ (lock = s \/ checker[s] # "changed")
               => (state[s] = Healthy <=> s \in Pooled)
      BY Zenon, <1>u DEF PoolInv, PoolKnows
    <2>2. CASE s # t
      <3>1. (s \in Asked' <=> s \in Asked) /\ (s \in Pooled' <=> s \in Pooled)
        BY Zenon, <1>2, <2>2
      <3> QED BY Zenon, <2>1, <3>1
    <2>3. CASE s = t /\ state[s] = Healthy
      <3>1. s \in Asked' /\ s \in Pooled'
        BY Zenon, <1>2, <2>3
      <3> QED BY Zenon, <2>3, <3>1
    <2>4. CASE s = t /\ state[s] # Healthy
      <3>1. s \in Asked' /\ Pooled' = Pooled
        BY Zenon, <1>2, <2>4
      <3> QED BY Zenon, <2>1, <2>4, <3>1
    <2> QED BY Zenon, <2>2, <2>3, <2>4
  <1>4. HolderWaits' /\ Unannounced'
    BY Zenon, <1>u DEF PoolInv, HolderWaits, Unannounced
  <1>5. PooledOnce'
    <2>1. healthyCount <= scanned
      BY Zenon, <1>u DEF PoolInv, PooledOnce
    <2>2. healthyCount' <= scanned'
      BY <1>2, <2>1
    <2> QED BY Zenon, <2>2 DEF PooledOnce
  <1>6. SoleSettled'
    <2>1. ~(Len(All) = 1 /\ ReadOnly = {} /\ marked = 0 /\ announced)
      BY Zenon, <1>u DEF PoolInv, SoleSettled
    <2> QED BY Zenon, <1>u, <2>1 DEF SoleSettled
  <1>7. TogetherWhenScanned'
    <2>1. /\ (\A s \in Targets : state[s] = Healthy) => allHealthy
          /\ marked = 0 /\ Len(All) \in 1..2 /\ announced => allHealthy
      BY Zenon DEF PoolInv, TogetherWhenScanned
    <2> SUFFICES ASSUME marked = 0, Len(All) \in 1..2, ~announced, healthyCount' = scanned'
                 PROVE  IF scanned' = Len(All) THEN allHealthy
                        ELSE IF lock = All[1] THEN state[lock] = Healthy
                        ELSE state[lock] = Healthy => allHealthy
      BY Zenon, <1>u, <2>1 DEF TogetherWhenScanned
    <2> QED BY Zenon, <1>2, ScanSeesTogether
  <1> QED BY Zenon, <1>2, <1>3, <1>4, <1>5, <1>6, <1>7 DEF PoolInv

\* When the scan is over, all targets have been asked.
LEMMA EndUpdateKeeps ==
  ASSUME PoolInv, LoadBalancerInv', EndUpdate
  PROVE  PoolInv'
  <1>u. /\ lock # NoHolder /\ lock' = NoHolder /\ scanned = Len(All) /\ scanned' = scanned
        /\ writers' = writers /\ readers' = readers
        /\ closed' = IF SoleTargetPooled THEN [t \in Targets |-> TRUE] ELSE closed
        /\ announced' = (announced \/ healthyCount = Len(All))
        /\ state' = state /\ drain' = drain /\ marked' = marked /\ allHealthy' = allHealthy
    BY Zenon DEF EndUpdate, StopHealthChecks, drainVars, poolVars
  <1>c. /\ lock = MainUpdate => phase' = "active" /\ checker' = checker
        /\ lock # MainUpdate => phase' = phase /\ checker' = [checker EXCEPT ![lock] = "idle"]
    BY Zenon DEF EndUpdate, UpdateReturns, NotificationDone
  <1>1. lock \in Targets \/ lock = MainUpdate
    BY Zenon, <1>u, Holders DEF PoolInv
  <1>2. \A t \in Targets : t \in Asked
    BY Zenon, <1>u, AllTargets DEF Asked
  <1>3. Pooled' = Pooled
    BY Zenon, <1>u DEF Pooled, Members
  <1>4. DOMAIN checker = Targets
    BY Zenon DEF PoolInv, LoadBalancerInv, TypeOK, TargetTypeOK
  <1>5. \A t \in Targets : t # lock => checker'[t] = checker[t]
    BY Zenon, <1>c, <1>4
  <1>6. \A t \in Targets : PoolKnows(t)'
    <2> TAKE t \in Targets
    <2> SUFFICES ASSUME phase' # "restoring" \/ NoHolder = MainUpdate, Untouched(t),
                        NoHolder = t \/ checker'[t] # "changed"
                 PROVE  state[t] = Healthy <=> t \in Pooled
      BY Zenon, <1>u, <1>3 DEF PoolKnows, Untouched
    <2>1. phase # "restoring" \/ lock = MainUpdate
      BY Zenon, <1>c, Holders
    <2>2. lock = t \/ checker[t] # "changed"
      BY Zenon, <1>5, Holders
    <2> QED BY Zenon, <1>2, <2>1, <2>2 DEF PoolInv, PoolKnows
  <1>7. HolderWaits' /\ ReadersRead' /\ PooledOnce'
    BY Zenon, <1>u, Holders DEF PoolInv, HolderWaits, ReadersRead, PooledOnce
  <1>8. ASSUME marked = 0, Len(All) > 0 PROVE lock \in Targets /\ lock # MainUpdate /\ phase' = phase
    <2>1. marked # Len(All)
      BY <1>8
    <2> QED BY Zenon, <1>1, <1>c, <2>1, Holders DEF PoolInv, HolderWaits
  <1>9. Unannounced'
    <2>1. marked = 0 /\ Len(All) > 0 /\ ~announced' => phase' \in Before
      BY Zenon, <1>u, <1>8 DEF PoolInv, Unannounced, Before
    <2>2. phase' \in Before => phase \in Before
      BY Zenon, <1>c DEF Before
    <2>3. phase \in Before => \A d \in Drains, t \in Targets : drain[d][t] = "idle"
      BY Zenon DEF PoolInv, Unannounced, Before
    <2> QED BY Zenon, <1>u, <2>1, <2>2, <2>3 DEF Unannounced, Before
  <1>10. SoleSettled'
    <2> SUFFICES ASSUME Len(All) = 1, ReadOnly = {}, marked = 0, announced'
                 PROVE  /\ writers = All
                        /\ \A t \in Targets : closed'[t] /\ checker'[t] \in {"idle", "off"}
      BY Zenon, <1>u DEF SoleSettled
    <2>1. ~announced
      BY Zenon, <1>u DEF PoolInv, SoleSettled
    <2>2. healthyCount = 1
      BY Zenon, <1>u, <2>1
    <2>3. writers \in Seq(Targets) /\ readers \in Seq({})
      BY Zenon DEF PoolInv, LoadBalancerInv, TypeOK, ReadersRead
    <2>4. Len(readers) = 0
      <3>1. Len(readers) \in Nat /\ \A i \in 1..Len(readers) : readers[i] \in {}
        BY <2>3
      <3> QED BY <3>1
    <2>5. Len(writers) = 1
      BY <2>2, <2>3, <2>4 DEF healthyCount
    <2>6. \A t \in Targets : t = All[1]
      <3>1. \A i \in 1..1 : i = 1
        OBVIOUS
      <3> QED BY Zenon, <3>1, AllTargets
    <2>7. writers = All
      BY Zenon, <2>3, <2>5, <2>6, SoleElement, LoadBalancerConstants
    <2>8. \A t \in Targets : closed'[t]
      BY Zenon, <1>u, <2>5 DEF SoleTargetPooled
    <2>9. lock \in Targets /\ lock # MainUpdate
      <3>1. Len(All) > 0
        OBVIOUS
      <3> QED BY Zenon, <1>8, <3>1
    <2>10. checker'[lock] = "idle"
      BY Zenon, <1>4, <1>c, <2>9
    <2>11. \A t \in Targets : t = lock
      BY Zenon, <2>6, <2>9
    <2> QED BY Zenon, <2>7, <2>8, <2>10, <2>11
  <1>11. TogetherWhenScanned'
    <2>1. /\ (\A s \in Targets : state[s] = Healthy) => allHealthy
          /\ marked = 0 /\ Len(All) \in 1..2 /\ announced => allHealthy
      BY Zenon DEF PoolInv, TogetherWhenScanned
    <2>2. ASSUME marked = 0, Len(All) \in 1..2, announced', ~announced PROVE allHealthy
      <3>1. healthyCount = scanned
        BY Zenon, <1>u, <2>2
      <3>2. scanned > 0
        <4>1. Len(All) > 0
          BY <2>2
        <4> QED BY Zenon, <1>u, <4>1
      <3> QED BY Zenon, <1>u, <2>2, <3>1, <3>2 DEF PoolInv, TogetherWhenScanned
    <2> QED BY Zenon, <1>u, <2>1, <2>2 DEF TogetherWhenScanned
  <1> QED BY Zenon, <1>6, <1>7, <1>9, <1>10, <1>11 DEF PoolInv

LEMMA MarkHealthyKeeps ==
  ASSUME PoolInv, LoadBalancerInv', MarkHealthy
  PROVE  PoolInv'
  <1>u. /\ phase = "restoring" /\ marked < Len(All) /\ marked' = marked + 1 /\ Observe
        /\ writers' = writers /\ readers' = readers /\ lock' = lock /\ scanned' = scanned
        /\ phase' = phase /\ checker' = checker /\ drain' = drain
    BY Zenon DEF MarkHealthy, checkVars, drainVars, poolVars, updateVars
  <1>1. Len(All) \in Nat /\ marked \in 0..Len(All)
    BY Zenon, AllTargets DEF PoolInv, LoadBalancerInv, TypeOK
  <1>2. marked # Len(All) /\ marked' # 0
    BY <1>1, <1>u
  <1>3. lock # MainUpdate
    BY Zenon, <1>2 DEF PoolInv, HolderWaits
  <1>4. \A t \in Targets : PoolKnows(t)'
    BY Zenon, <1>3, <1>u DEF PoolKnows
  <1>5. HolderWaits' /\ ReadersRead' /\ PooledOnce'
    BY Zenon, <1>3, <1>u DEF PoolInv, HolderWaits, ReadersRead, PooledOnce, healthyCount
  <1>6. Unannounced' /\ SoleSettled'
    BY Zenon, <1>2, <1>u DEF PoolInv, Unannounced, SoleSettled
  <1>7. TogetherWhenScanned'
    BY Zenon, <1>2, <1>u DEF Observe, TogetherWhenScanned
  <1> QED BY Zenon, <1>4, <1>5, <1>6, <1>7 DEF PoolInv

LEMMA PoolInit == Init => PoolInv
  <1> SUFFICES ASSUME Init PROVE PoolInv
    OBVIOUS
  <1>1. /\ writers = <<>> /\ readers = <<>> /\ lock = NoHolder /\ announced = FALSE
        /\ phase \in {"waiting", "restoring"}
        /\ state = [t \in Targets |-> Adding]
        /\ drain = [d \in Drains |-> [t \in Targets |-> "idle"]]
        /\ allHealthy = (\A t \in Targets : state[t] = Healthy)
    BY Zenon, LoadBalancerConstants DEF Init, NewTargets
  <1>2. \A t \in Targets : PoolKnows(t)
    <2>1. Pooled = {}
      BY Zenon, <1>1, MembersNone DEF Pooled
    <2>2. \A t \in Targets : state[t] # Healthy
      BY Zenon, <1>1 DEF Adding, Healthy
    <2> QED BY Zenon, <1>1, <2>1, <2>2 DEF PoolKnows
  <1>3. HolderWaits /\ PooledOnce
    BY Zenon, <1>1, Holders DEF HolderWaits, PooledOnce
  <1>4. ReadersRead
    BY <1>1 DEF ReadersRead
  <1>5. Unannounced
    BY Zenon, <1>1 DEF Unannounced
  <1>6. SoleSettled /\ TogetherWhenScanned
    BY Zenon, <1>1 DEF SoleSettled, TogetherWhenScanned
  <1> QED BY Zenon, <1>2, <1>3, <1>4, <1>5, <1>6, LoadBalancerInit DEF PoolInv

LEMMA PoolNext == PoolInv /\ [Next]_vars => PoolInv'
  <1> SUFFICES ASSUME PoolInv, [Next]_vars PROVE PoolInv'
    OBVIOUS
  <1>1. LoadBalancerInv'
    BY Zenon, LoadBalancerNext DEF PoolInv
  <1>2. CASE (\E u \in Targets \cup {MainUpdate} : BeginUpdate(u)) \/ ScanTarget \/ EndUpdate
    BY Zenon, <1>1, <1>2, BeginUpdateKeeps, ScanTargetKeeps, EndUpdateKeeps
  <1>3. CASE MarkHealthy
    BY Zenon, <1>1, <1>3, MarkHealthyKeeps
  <1>4. CASE \/ Install \/ InstallFails \/ DeployTimeout \/ UpdateLoadBalancer
             \/ Dispose \/ DeployReturns \/ RemoveService
             \/ \E r \in Requests : claimTarget(r) \/ RequestStep(r)
             \/ UNCHANGED vars
    BY Zenon, <1>1, <1>4, LifeOutside, OutsideKeeps
  <1>5. CASE \E t \in Targets : CheckStep(t) \/ CheckCompleted(t)
    BY Zenon, <1>1, <1>5, CheckOutside, OutsideKeeps
  <1>6. CASE \/ DeployDrainAll
             \/ \E d \in Drains \ {DeployDrain} : PauseDrainAll(d)
             \/ \E d \in Drains, t \in Targets : DrainProgress(d, t) \/ DrainEnds(d, t)
    BY Zenon, <1>1, <1>6, DrainOutside, OutsideKeeps
  <1> QED BY Zenon, <1>2, <1>3, <1>4, <1>5, <1>6 DEF Next

\* With no notification outstanding, updateHealthyTargets has pooled exactly the
\* healthy ones among the targets no drain has touched, however the checks of any
\* number of targets raced its scans.
THEOREM PoolsFollowHealth == Spec => []PoolFollowsHealth
  <1>1. PoolInv => PoolFollowsHealth
    <2> SUFFICES ASSUME PoolInv, lock = NoHolder, phase # "restoring", NEW t \in Targets,
                        checker[t] # "changed", \A d \in Drains : drain[d][t] \in {"idle", "called"}
                 PROVE  state[t] = Healthy <=> t \in Members(writers) \cup Members(readers)
      BY Zenon DEF PoolFollowsHealth
    <2> QED BY Zenon DEF PoolInv, PoolKnows, Untouched, Pooled
  <1> QED BY <1>1, PoolInit, PoolNext, PTL DEF Spec

\* WaitUntilHealthy returns for a deployment of at most two targets only if both
\* were healthy at one moment, although the scan asks one after the other.
THEOREM AnnouncedWereHealthyTogether == Spec => []AllHealthyTogether
  <1>1. PoolInv => AllHealthyTogether
    <2> SUFFICES ASSUME PoolInv, announced, marked = 0, Len(All) <= 2 PROVE allHealthy
      BY Zenon DEF AllHealthyTogether
    <2>1. Len(All) \in 1..2 \/ Len(All) = 0
      BY Zenon, AllTargets, SmallLength
    <2>2. ASSUME Len(All) = 0 PROVE Targets = {}
      <3>1. 1..Len(All) = {}
        BY <2>2
      <3> QED BY Zenon, <3>1, AllTargets
    <2> QED BY Zenon, <2>1, <2>2 DEF PoolInv, TogetherWhenScanned
  <1> QED BY <1>1, PoolInit, PoolNext, PTL DEF Spec

\* The sole target of a deployed load balancer stays in the pool for good: once it is
\* pooled its checks are stopped, and none is left that could notify.
THEOREM SoleTargetIsKept == Spec => []SoleTargetStaysPooled
  <1>1. PoolInv => SoleTargetStaysPooled
    <2> SUFFICES ASSUME PoolInv, Len(All) = 1, ReadOnly = {}, marked = 0,
                        phase \notin {"waiting", "restoring", "failed"}
                 PROVE  writers = All
      BY Zenon DEF SoleTargetStaysPooled
    <2>1. Len(All) > 0
      OBVIOUS
    <2>2. announced
      BY Zenon, <2>1 DEF PoolInv, Unannounced
    <2> QED BY Zenon, <2>2 DEF PoolInv, SoleSettled
  <1> QED BY <1>1, PoolInit, PoolNext, PTL DEF Spec
=============================================================================
