------------------------------- MODULE Target -------------------------------
(***************************************************************************)
(* The targets of a load balancer (target.go) with their health checks     *)
(* (health_check.go).  A target keeps a state and the requests in flight   *)
(* on it.  Three kinds of goroutine work on it at once: the requests, its  *)
(* health checker, and any number of Drain calls.                          *)
(*                                                                         *)
(* inflightLock makes every method that takes it one step.  Drain takes it *)
(* three times (mark the target, copy the in-flight map, put the state     *)
(* back) and is therefore several steps.  The operators below are the      *)
(* steps of one target; LoadBalancer composes them.                        *)
(*                                                                         *)
(* A request's context is done once it was cancelled, by a Drain, by its   *)
(* own end or by its client; the time of deadlines, ticks and probes is    *)
(* abstracted to "at any moment".                                          *)
(***************************************************************************)
EXTENDS Naturals, Sequences

CONSTANTS
  Targets,   \* the targets
  Requests,  \* the requests
  Drains     \* the calls of DrainAll, each draining every target

VARIABLES
  state,     \* Target.state
  checker,   \* where the goroutine of a target's HealthCheck is
  closed,    \* whether the HealthCheck's context is cancelled
  status,    \* where each request is
  on,        \* the target a request was started on
  ctxDone,   \* whether a request's context is done
  hijacked,  \* inflightRequest.hijacked
  drain,     \* where each Drain(d, t) is
  original,  \* originalState in Drain(d, t)
  toCancel   \* toCancel in Drain(d, t)

checkVars == <<checker, closed>>
requestVars == <<status, on, ctxDone, hijacked>>
drainVars == <<drain, original, toCancel>>
targetVars == <<state, checkVars, requestVars, drainVars>>

Adding == "adding"
Draining == "draining"
Healthy == "healthy"
Unhealthy == "unhealthy"
TargetStates == {Adding, Draining, Healthy, Unhealthy}
NoState == "nostate"  \* a Drain that has not read the state yet

NoTarget == "notarget"

ASSUME NoTargetIsNone == NoTarget \notin Targets

TargetTypeOK ==
  /\ state \in [Targets -> TargetStates]
  /\ checker \in [Targets -> {"idle", "probing", "passed", "failed", "changed", "off"}]
  /\ closed \in [Targets -> BOOLEAN]
  /\ status \in [Requests -> {"new", "inflight", "ended", "rejected"}]
  /\ on \in [Requests -> Targets \cup {NoTarget}]
  /\ ctxDone \in [Requests -> BOOLEAN]
  /\ hijacked \in [Requests -> BOOLEAN]
  /\ drain \in [Drains -> [Targets -> {"idle", "called", "marked", "copied", "waiting",
                                      "restoring", "returned", "early"}]]
  /\ original \in [Drains -> [Targets -> TargetStates \cup {NoState}]]
  /\ toCancel \in [Drains -> [Targets -> SUBSET Requests]]

\* NewTarget, and BeginHealthChecks, which starts the checker's goroutine.
NewTargets ==
  /\ state = [t \in Targets |-> Adding]
  /\ checker = [t \in Targets |-> "idle"]
  /\ closed = [t \in Targets |-> FALSE]
  /\ status = [r \in Requests |-> "new"]
  /\ on = [r \in Requests |-> NoTarget]
  /\ ctxDone = [r \in Requests |-> FALSE]
  /\ hijacked = [r \in Requests |-> FALSE]
  /\ drain = [d \in Drains |-> [t \in Targets |-> "idle"]]
  /\ original = [d \in Drains |-> [t \in Targets |-> NoState]]
  /\ toCancel = [d \in Drains |-> [t \in Targets |-> {}]]

\* Target.inflight
Inflight(t) == {r \in Requests : status[r] = "inflight" /\ on[r] = t}

-----------------------------------------------------------------------------
\* Requests.

StartRequest(r, t) ==
  /\ IF state[t] = Draining
     THEN /\ status' = [status EXCEPT ![r] = "rejected"]
          /\ UNCHANGED on
     ELSE /\ status' = [status EXCEPT ![r] = "inflight"]
          /\ on' = [on EXCEPT ![r] = t]
  /\ UNCHANGED <<state, checkVars, ctxDone, hijacked, drainVars>>

\* The upstream answered 101 and the proxy took over the connection.
Hijack(r) ==
  /\ status[r] = "inflight"
  /\ ~hijacked[r]
  /\ hijacked' = [hijacked EXCEPT ![r] = TRUE]
  /\ UNCHANGED <<state, checkVars, status, on, ctxDone, drainVars>>

\* The client went away, which cancels the context the request inherits.
ClientGone(r) ==
  /\ status[r] = "inflight"
  /\ ~ctxDone[r]
  /\ ctxDone' = [ctxDone EXCEPT ![r] = TRUE]
  /\ UNCHANGED <<state, checkVars, status, on, hijacked, drainVars>>

\* SendRequest returns: its deferred endInflightRequest cancels and deletes.
endInflightRequest(r) ==
  /\ status[r] = "inflight"
  /\ status' = [status EXCEPT ![r] = "ended"]
  /\ ctxDone' = [ctxDone EXCEPT ![r] = TRUE]
  /\ UNCHANGED <<state, checkVars, on, hijacked, drainVars>>

-----------------------------------------------------------------------------
\* Health checks.

\* run: the first check at once, then one per tick, until the context is done.
BeginCheck(t) ==
  /\ checker[t] = "idle"
  /\ ~closed[t]
  /\ checker' = [checker EXCEPT ![t] = "probing"]
  /\ UNCHANGED <<state, closed, requestVars, drainVars>>

\* check: the probe is answered (or fails, or times out) and its result is
\* about to be reported.
CheckAnswered(t, success) ==
  /\ checker[t] = "probing"
  /\ ~closed[t]
  /\ checker' = [checker EXCEPT ![t] = IF success THEN "passed" ELSE "failed"]
  /\ UNCHANGED <<state, closed, requestVars, drainVars>>

\* A cancelled probe is dropped in silence, and run returns.
CheckCancelled(t) ==
  /\ checker[t] \in {"idle", "probing"}
  /\ closed[t]
  /\ checker' = [checker EXCEPT ![t] = "off"]
  /\ UNCHANGED <<state, closed, requestVars, drainVars>>

\* A success makes any target healthy; a failure only tells on a healthy one.
CheckedState(t) ==
  CASE checker[t] = "passed" -> Healthy
    [] checker[t] = "failed" /\ state[t] = Healthy -> Unhealthy
    [] OTHER -> state[t]

\* HealthCheckCompleted, up to the call of TargetStateChanged: the lock is
\* released before the load balancer is told.
HealthCheckCompleted(t) ==
  /\ checker[t] \in {"passed", "failed"}
  /\ state' = [state EXCEPT ![t] = CheckedState(t)]
  /\ checker' = [checker EXCEPT ![t] = IF CheckedState(t) # state[t] THEN "changed" ELSE "idle"]
  /\ UNCHANGED <<closed, requestVars, drainVars>>

\* TargetStateChanged has returned.
NotificationDone(t) == checker' = [checker EXCEPT ![t] = "idle"]

\* TargetList.StopHealthChecks: cancel the contexts.
StopHealthChecks == closed' = [t \in Targets |-> TRUE]

-----------------------------------------------------------------------------
\* Drain.

DrainStep(d, t, from, to) ==
  /\ drain[d][t] = from
  /\ drain' = [drain EXCEPT ![d][t] = to]

\* DrainAll starts one goroutine per target.
DrainAll(d) ==
  /\ \A t \in Targets : drain[d][t] = "idle"
  /\ drain' = [drain EXCEPT ![d] = [t \in Targets |-> "called"]]
  /\ UNCHANGED <<state, checkVars, requestVars, original, toCancel>>

\* Mutant: a second drain does not return early, and takes Draining for the
\* state to go back to.
DrainMark_NoEarlyReturn(d, t) ==
  /\ DrainStep(d, t, "called", "marked")
  /\ original' = [original EXCEPT ![d][t] = state[t]]
  /\ state' = [state EXCEPT ![t] = Draining]
  /\ UNCHANGED <<checkVars, requestVars, toCancel>>

\* updateState(TargetStateDraining): whoever finds the target draining already
\* returns at once.
DrainMark(d, t) ==
  /\ DrainStep(d, t, "called", IF state[t] = Draining THEN "early" ELSE "marked")
  /\ original' = [original EXCEPT ![d][t] = state[t]]
  /\ state' = [state EXCEPT ![t] = Draining]
  /\ UNCHANGED <<checkVars, requestVars, toCancel>>

pendingRequestsToCancel(d, t) ==
  /\ DrainStep(d, t, "marked", "copied")
  /\ toCancel' = [toCancel EXCEPT ![d][t] = Inflight(t)]
  /\ UNCHANGED <<state, checkVars, requestVars, original>>

\* A hijacked connection could live for ever: it is cancelled at once.
DrainCancelHijacked(d, t) ==
  /\ DrainStep(d, t, "copied", "waiting")
  /\ ctxDone' = [r \in Requests |-> ctxDone[r] \/ (r \in toCancel[d][t] /\ hijacked[r])]
  /\ UNCHANGED <<state, checkVars, status, on, hijacked, original, toCancel>>

\* Every copied request is done; the last cancel loop has nothing left to do.
DrainCompleted(d, t) ==
  /\ DrainStep(d, t, "waiting", "restoring")
  /\ \A r \in toCancel[d][t] : ctxDone[r]
  /\ UNCHANGED <<state, checkVars, requestVars, original, toCancel>>

\* Mutant: the requests left at the deadline are not cancelled.
DrainDeadline_NoCancel(d, t) ==
  /\ DrainStep(d, t, "waiting", "restoring")
  /\ UNCHANGED <<state, checkVars, requestVars, original, toCancel>>

\* Mutant: Drain waits for the requests alone.
DrainDeadline_Never(d, t) ==
  /\ DrainStep(d, t, "waiting", "restoring")
  /\ FALSE
  /\ UNCHANGED <<state, checkVars, requestVars, original, toCancel>>

\* The deadline passed: what is left of the copy is cancelled.
DrainDeadline(d, t) ==
  /\ DrainStep(d, t, "waiting", "restoring")
  /\ ctxDone' = [r \in Requests |-> ctxDone[r] \/ r \in toCancel[d][t]]
  /\ UNCHANGED <<state, checkVars, status, on, hijacked, original, toCancel>>

\* The deferred updateState(originalState): nobody is notified.
DrainRestore(d, t) ==
  /\ DrainStep(d, t, "restoring", "returned")
  /\ state' = [state EXCEPT ![t] = original[d][t]]
  /\ UNCHANGED <<checkVars, requestVars, original, toCancel>>

DrainReturned(d) == \A t \in Targets : drain[d][t] \in {"returned", "early"}
=============================================================================
