---------------------------- MODULE LoadBalancer ----------------------------
(***************************************************************************)
(* One load balancer from its creation to the end of the deployment that   *)
(* replaces it (load_balancer.go, with the calls router.go and service.go  *)
(* make on it).                                                            *)
(*                                                                         *)
(* It is made by a deployment, which waits until all targets are healthy,  *)
(* or by the restoration of the saved state, which declares them healthy   *)
(* while their checks already run.  Requests are then claimed from its     *)
(* pools until the next deployment swaps it out, disposes of it and drains *)
(* it; the service may be paused or stopped meanwhile, which drains it     *)
(* too, or removed.                                                        *)
(*                                                                         *)
(* lb.lock is held by updateHealthyTargets over all of its steps: it asks  *)
(* the targets one by one, each under the target's own lock, so a scan can *)
(* see a target's state of before and another's of after a change.         *)
(***************************************************************************)
EXTENDS Target, FiniteSets

CONSTANTS
  All,          \* lb.all: the targets in order
  ReadOnly,     \* the targets that are readers
  Reads,        \* the requests isReadRequest holds of
  WriteCookie,  \* the requests with a write cookie that has not expired
  Starts,       \* which of "waiting" (deployed) and "restoring" are explored
  DeployDrain,  \* the DrainAll of the deployment that replaces this one
  MainUpdate    \* the caller of updateHealthyTargets in MarkAllHealthy

ASSUME LoadBalancerConstants ==
  /\ All \in Seq(Targets)
  /\ {All[i] : i \in 1..Len(All)} = Targets
  /\ ReadOnly \subseteq Targets
  /\ Reads \subseteq Requests
  /\ WriteCookie \subseteq Requests
  /\ Starts \subseteq {"waiting", "restoring"}
  /\ DeployDrain \in Drains
  /\ MainUpdate \notin Targets \cup {NoTarget}

VARIABLES
  phase,        \* how far the life of the load balancer has come
  marked,       \* how many targets MarkAllHealthy has marked
  writers,      \* lb.writers
  readers,      \* lb.readers
  writerIndex,  \* lb.writerIndex
  readerIndex,  \* lb.readerIndex
  lock,         \* the holder of lb.lock inside updateHealthyTargets
  scanned,      \* how many targets that update has asked
  announced,    \* whether markHealthy was called
  allHealthy    \* history: whether all targets were once healthy together

poolVars == <<writers, readers, writerIndex, readerIndex>>
updateVars == <<lock, scanned, announced>>
vars == <<targetVars, phase, marked, poolVars, updateVars, allHealthy>>

NoHolder == NoTarget
Phases == {"waiting", "restoring", "failed", "active", "removed",
           "replaced", "disposed", "draining", "deployed"}

\* The phases in which a service may hold this load balancer.
Installed == {"active", "removed"}

Members(seq) == {seq[i] : i \in 1..Len(seq)}

\* Type correctness of the load balancer and its targets.
TypeOK ==
  /\ TargetTypeOK
  /\ phase \in Phases
  /\ marked \in 0..Len(All)
  /\ writers \in Seq(Targets)
  /\ readers \in Seq(Targets)
  /\ writerIndex \in Nat
  /\ readerIndex \in Nat
  /\ lock \in Targets \cup {MainUpdate, NoHolder}
  /\ scanned \in 0..Len(All)
  /\ announced \in BOOLEAN
  /\ allHealthy \in BOOLEAN

\* NewLoadBalancer
Init ==
  /\ NewTargets
  /\ phase \in Starts
  /\ marked = 0
  /\ writers = <<>>
  /\ readers = <<>>
  /\ writerIndex = 0
  /\ readerIndex = 0
  /\ lock = NoHolder
  /\ scanned = 0
  /\ announced = FALSE
  /\ allHealthy = (\A t \in Targets : state[t] = Healthy)

\* Every step notes whether it leaves all targets healthy together.
Observe == allHealthy' = (allHealthy \/ \A t \in Targets : state'[t] = Healthy)

-----------------------------------------------------------------------------
\* updateHealthyTargets.

\* A target whose state changed calls TargetStateChanged; MarkAllHealthy calls
\* it after marking every target.
WantsUpdate(u) ==
  IF u = MainUpdate THEN phase = "restoring" /\ marked = Len(All)
                    ELSE checker[u] = "changed"

BeginUpdate(u) ==
  /\ WantsUpdate(u)
  /\ lock = NoHolder
  /\ lock' = u
  /\ scanned' = 0
  /\ writers' = <<>>
  /\ readers' = <<>>
  /\ UNCHANGED <<targetVars, phase, marked, writerIndex, readerIndex, announced, allHealthy>>

\* Mutant: a target is pooled unless it is known to be unhealthy.
ScanTarget_UnlessUnhealthy ==
  /\ lock # NoHolder
  /\ scanned < Len(All)
  /\ scanned' = scanned + 1
  /\ LET t == All[scanned + 1] IN
       /\ writers' = IF state[t] # Unhealthy /\ t \notin ReadOnly THEN Append(writers, t) ELSE writers
       /\ readers' = IF state[t] # Unhealthy /\ t \in ReadOnly THEN Append(readers, t) ELSE readers
  /\ UNCHANGED <<targetVars, phase, marked, writerIndex, readerIndex, lock, announced, allHealthy>>

\* One turn of the loop over lb.all.
ScanTarget ==
  /\ lock # NoHolder
  /\ scanned < Len(All)
  /\ scanned' = scanned + 1
  /\ LET t == All[scanned + 1] IN
       /\ writers' = IF state[t] = Healthy /\ t \notin ReadOnly THEN Append(writers, t) ELSE writers
       /\ readers' = IF state[t] = Healthy /\ t \in ReadOnly THEN Append(readers, t) ELSE readers
  /\ UNCHANGED <<targetVars, phase, marked, writerIndex, readerIndex, lock, announced, allHealthy>>

healthyCount == Len(writers) + Len(readers)
SoleTargetPooled == Len(All) = 1 /\ Len(writers) = 1

\* The caller goes on: MarkAllHealthy's returns to the restoration, which
\* installs the service; a checker's waits for the next tick.
UpdateReturns ==
  IF lock = MainUpdate
  THEN phase' = "active" /\ UNCHANGED checker
  ELSE NotificationDone(lock) /\ UNCHANGED phase

\* Mutant: the checks of a sole target go on.
EndUpdate_KeepsChecking ==
  /\ lock # NoHolder
  /\ scanned = Len(All)
  /\ UNCHANGED closed
  /\ announced' = (announced \/ healthyCount = Len(All))
  /\ lock' = NoHolder
  /\ UpdateReturns
  /\ UNCHANGED <<state, requestVars, drainVars, marked, poolVars, scanned, allHealthy>>

\* Mutant: one healthy target is enough to be announced healthy.
EndUpdate_AnyHealthy ==
  /\ lock # NoHolder
  /\ scanned = Len(All)
  /\ IF SoleTargetPooled THEN StopHealthChecks ELSE UNCHANGED closed
  /\ announced' = (announced \/ healthyCount > 0)
  /\ lock' = NoHolder
  /\ UpdateReturns
  /\ UNCHANGED <<state, requestVars, drainVars, marked, poolVars, scanned, allHealthy>>

EndUpdate ==
  /\ lock # NoHolder
  /\ scanned = Len(All)
  /\ IF SoleTargetPooled THEN StopHealthChecks ELSE UNCHANGED closed
  /\ announced' = (announced \/ healthyCount = Len(All))
  /\ lock' = NoHolder
  /\ UpdateReturns
  /\ UNCHANGED <<state, requestVars, drainVars, marked, poolVars, scanned, allHealthy>>

-----------------------------------------------------------------------------
\* The life of the load balancer.

\* MarkAllHealthy: one updateState per target, with their checks running.
MarkHealthy ==
  /\ phase = "restoring"
  /\ marked < Len(All)
  /\ marked' = marked + 1
  /\ state' = [state EXCEPT ![All[marked + 1]] = Healthy]
  /\ Observe
  /\ UNCHANGED <<checkVars, requestVars, drainVars, phase, poolVars, updateVars>>

\* WaitUntilHealthy returns and installLoadBalancer puts it in its slot.
Install ==
  /\ phase = "waiting"
  /\ announced
  /\ phase' = "active"
  /\ UNCHANGED <<targetVars, marked, poolVars, updateVars, allHealthy>>

\* WaitUntilHealthy times out: createLoadBalancer disposes of it.
DeployTimeout ==
  /\ phase = "waiting"
  /\ ~announced
  /\ phase' = "failed"
  /\ StopHealthChecks
  /\ UNCHANGED <<state, checker, requestVars, drainVars, marked, poolVars, updateVars, allHealthy>>

\* installLoadBalancer fails (the host is in use, or the options are wrong):
\* the load balancer is dropped with its health checks running.
InstallFails ==
  /\ phase = "waiting"
  /\ announced
  /\ phase' = "failed"
  /\ UNCHANGED <<targetVars, marked, poolVars, updateVars, allHealthy>>

\* UpdateLoadBalancer: from here on no request is claimed from this one.
UpdateLoadBalancer ==
  /\ phase = "active"
  /\ phase' = "replaced"
  /\ UNCHANGED <<targetVars, marked, poolVars, updateVars, allHealthy>>

Dispose ==
  /\ phase = "replaced"
  /\ phase' = "disposed"
  /\ StopHealthChecks
  /\ UNCHANGED <<state, checker, requestVars, drainVars, marked, poolVars, updateVars, allHealthy>>

\* The deployment that replaced it drains it and returns when all is drained.
DeployDrainAll ==
  /\ phase = "disposed"
  /\ phase' = "draining"
  /\ DrainAll(DeployDrain)
  /\ UNCHANGED <<marked, poolVars, updateVars, allHealthy>>

DeployReturns ==
  /\ phase = "draining"
  /\ DrainReturned(DeployDrain)
  /\ phase' = "deployed"
  /\ UNCHANGED <<targetVars, marked, poolVars, updateVars, allHealthy>>

\* Service.Pause and Service.Stop: Drain reads the slot without a lock, so the
\* load balancer may be swapped out by the time DrainAll runs.
PauseDrainAll(d) ==
  /\ phase \notin {"waiting", "restoring", "failed"}
  /\ DrainAll(d)
  /\ UNCHANGED <<phase, marked, poolVars, updateVars, allHealthy>>

\* RemoveService disposes but does not drain; requests that found the service
\* before it was removed are still served.
RemoveService ==
  /\ phase = "active"
  /\ phase' = "removed"
  /\ StopHealthChecks
  /\ UNCHANGED <<state, checker, requestVars, drainVars, marked, poolVars, updateVars, allHealthy>>

-----------------------------------------------------------------------------
\* Requests.

\* Mutant: the write cookie is ignored.
TreatAsRead_NoCookie(r) == r \in Reads

\* treatAsReadRequest
TreatAsRead(r) == r \in Reads /\ r \notin WriteCookie

\* The round robin of nextTarget; the sequences of TLA+ start at 1.
NextIndex(index, pool) == (index + 1) % Len(pool)
ReaderChosen(r) == TreatAsRead(r) /\ readers # <<>>

\* claimTarget, under lb.lock and under the service's lock, which UpdateLoad-
\* Balancer excludes.  The choice of a target moves the index even when the
\* target then refuses because it is draining.
claimTarget(r) ==
  /\ phase \in Installed
  /\ lock = NoHolder
  /\ status[r] = "new"
  /\ IF ReaderChosen(r)
     THEN /\ readerIndex' = NextIndex(readerIndex, readers)
          /\ StartRequest(r, readers[NextIndex(readerIndex, readers) + 1])
          /\ UNCHANGED writerIndex
     ELSE IF writers # <<>>
     THEN /\ writerIndex' = NextIndex(writerIndex, writers)
          /\ StartRequest(r, writers[NextIndex(writerIndex, writers) + 1])
          /\ UNCHANGED readerIndex
     ELSE /\ status' = [status EXCEPT ![r] = "rejected"]
          /\ UNCHANGED <<state, checkVars, on, ctxDone, hijacked, drainVars, writerIndex, readerIndex>>
  /\ UNCHANGED <<phase, marked, writers, readers, updateVars, allHealthy>>

-----------------------------------------------------------------------------
\* The steps of the targets leave the load balancer alone.

lbVars == <<phase, marked, poolVars, updateVars>>

RequestStep(r) ==
  /\ Hijack(r) \/ ClientGone(r) \/ endInflightRequest(r)
  /\ UNCHANGED <<lbVars, allHealthy>>

CheckStep(t) ==
  /\ \/ BeginCheck(t)
     \/ \E success \in BOOLEAN : CheckAnswered(t, success)
     \/ CheckCancelled(t)
  /\ UNCHANGED <<lbVars, allHealthy>>

CheckCompleted(t) == HealthCheckCompleted(t) /\ Observe /\ UNCHANGED lbVars

DrainProgress(d, t) ==
  /\ \/ DrainMark(d, t)
     \/ pendingRequestsToCancel(d, t)
     \/ DrainCancelHijacked(d, t)
     \/ DrainCompleted(d, t)
     \/ DrainDeadline(d, t)
  /\ UNCHANGED <<lbVars, allHealthy>>

DrainEnds(d, t) == DrainRestore(d, t) /\ Observe /\ UNCHANGED lbVars

Next ==
  \/ \E u \in Targets \cup {MainUpdate} : BeginUpdate(u)
  \/ ScanTarget
  \/ EndUpdate
  \/ MarkHealthy
  \/ Install
  \/ InstallFails
  \/ DeployTimeout
  \/ UpdateLoadBalancer
  \/ Dispose
  \/ DeployDrainAll
  \/ DeployReturns
  \/ RemoveService
  \/ \E d \in Drains \ {DeployDrain} : PauseDrainAll(d)
  \/ \E r \in Requests : claimTarget(r) \/ RequestStep(r)
  \/ \E t \in Targets : CheckStep(t) \/ CheckCompleted(t)
  \/ \E d \in Drains, t \in Targets : DrainProgress(d, t) \/ DrainEnds(d, t)

Spec == Init /\ [][Next]_vars

\* A deployment is a command that runs on, and a drain is bounded by its
\* deadline; requests and probes may take for ever.
FairSpec ==
  /\ Spec
  /\ WF_vars(Dispose) /\ WF_vars(DeployDrainAll) /\ WF_vars(DeployReturns)
  /\ \A t \in Targets : WF_vars(DrainProgress(DeployDrain, t)) /\ WF_vars(DrainEnds(DeployDrain, t))

-----------------------------------------------------------------------------
\* Properties.

InProgress == {"marked", "copied", "waiting", "restoring"}

\* Target.Drain puts the state back: whatever the overlap of drains and health
\* checks, a target is in the draining state, in which it refuses requests,
\* only while some drain of it is in progress.
NoTargetLeftDraining ==
  \A t \in Targets : state[t] = Draining => \E d \in Drains : drain[d][t] \in InProgress

\* When a deployment returns, every request the replaced targets still serve
\* has had its context cancelled, unless a pause was already draining that
\* target and the deployment's own Drain returned early.
DrainedUnlessOverlapped ==
  phase = "deployed" =>
    \A t \in Targets : drain[DeployDrain][t] = "returned" =>
      \A r \in Inflight(t) : ctxDone[r]

\* claimTarget sends a write, or a read that must see the client's own write,
\* to a writer, whatever the state of the pools.
WritesStayOffReaders ==
  \A r \in Requests : on[r] \in ReadOnly => r \in Reads \ WriteCookie

\* The inductive invariant behind these: a drain in progress knows a state
\* to go back to; what a finished drain copied is done; and the copy of the
\* deployment's drain is complete, because nothing is claimed any more.
DrainKnowsState ==
  \A d \in Drains, t \in Targets :
    drain[d][t] \in InProgress => original[d][t] \in TargetStates \ {Draining}

CopiedRequestsDone ==
  \A d \in Drains, t \in Targets :
    drain[d][t] \in {"restoring", "returned"} => \A r \in toCancel[d][t] : ctxDone[r]

DeployDrainsReplaced ==
  \A t \in Targets : drain[DeployDrain][t] # "idle" => phase \in {"draining", "deployed"}

DeployCopyComplete ==
  \A t \in Targets :
    drain[DeployDrain][t] \in {"copied", "waiting", "restoring", "returned"}
      => Inflight(t) \subseteq toCancel[DeployDrain][t]

\* updateHealthyTargets keeps readers out of the writers.
WritersWrite == writers \in Seq(Targets \ ReadOnly)

\* MarkAllHealthy updates the pools before the service is installed.
RestoringWhileMarking == lock = MainUpdate => phase = "restoring"

LoadBalancerInv ==
  /\ TypeOK
  /\ NoTargetLeftDraining
  /\ DrainKnowsState
  /\ CopiedRequestsDone
  /\ DeployDrainsReplaced
  /\ DeployCopyComplete
  /\ WritersWrite
  /\ RestoringWhileMarking
  /\ WritesStayOffReaders

\* updateHealthyTargets stops checking a sole target once it is healthy, so one
\* that was deployed is never taken out of the pool.  (One that was restored may
\* be: a check that fails while MarkAllHealthy runs leaves it unhealthy.)
SoleTargetStaysPooled ==
  /\ Len(All) = 1 /\ ReadOnly = {}
  /\ marked = 0
  /\ phase \notin {"waiting", "restoring", "failed"}
  /\ lock = NoHolder
  => writers = All

\* updateHealthyTargets calls markHealthy, which lets a deployment go on, only
\* if all targets were healthy at one moment.  This rests on there being at most
\* two: the target whose check holds lb.lock cannot change during the scan, but
\* the others can, one after it was asked and another before.
AllHealthyTogether == announced /\ marked = 0 /\ Len(All) <= 2 => allHealthy

\* TargetStateChanged keeps the pools up to date: when no notification is
\* outstanding, the targets that no drain has touched are pooled exactly when
\* they are healthy.  (Drain changes the state without notifying.)
PoolFollowsHealth ==
  /\ lock = NoHolder
  /\ phase # "restoring"
  /\ \A t \in Targets : checker[t] # "changed"
  => \A t \in Targets :
       (\A d \in Drains : drain[d][t] \in {"idle", "called"})
         => (state[t] = Healthy <=> t \in Members(writers) \cup Members(readers))

\* DeployService returns once it has swapped the load balancer, even if the
\* requests in flight never end.
ReplacedIsDeployed == phase = "replaced" ~> phase = "deployed"
=============================================================================
