----------------------------- MODULE UDPSocket -----------------------------
(***************************************************************************)
(* The one socket of a UDP target (udp_target.go).  Packets are written to *)
(* it, a goroutine for each of them reads one datagram from it, and the    *)
(* health check writes and reads on it too.  Its deadlines are the         *)
(* socket's: whoever sets one moves it for every read, or every write, of  *)
(* the others.                                                             *)
(*                                                                         *)
(* The target and the network are the environment: datagrams are answered, *)
(* late or lost, and the target may send more than it is asked for.  Who   *)
(* an answer was meant for is nothing the code looks at, so that datagrams *)
(* are only counted here.  A deadline is the time left until it: 0 when it *)
(* has passed, None while none was set.  A packet for a target that is not *)
(* healthy is dropped, which changes nothing.  Stop is in UDPService.      *)
(***************************************************************************)
EXTENDS Naturals, FiniteSets

CONSTANTS
  Packets,          \* bound: the packets being forwarded at a time
  Interval,         \* UDPHealthCheck.interval
  ProbeTimeout,     \* UDPHealthCheck.timeout
  ResponseTimeout,  \* the read deadline of handleResponse
  MaxNet,           \* bound: the datagrams on their way to the target
  MaxInbox,         \* bound: the datagrams the socket holds
  None

ASSUME SocketConstants ==
  /\ Interval \in Nat \ {0} /\ ProbeTimeout \in Nat \ {0} /\ ResponseTimeout \in Nat \ {0}
  /\ MaxNet \in Nat /\ MaxInbox \in Nat
  /\ IsFiniteSet(Packets)
  /\ None \notin Nat

VARIABLES
  healthy,    \* UDPTarget.healthy
  readLeft,   \* the time left until the socket's read deadline
  writeLeft,  \* the time left until its write deadline
  packet,     \* where each packet and the goroutine for its response are
  checker,    \* where the health check is
  ticker,     \* the time left until the ticker's next tick
  ticked,     \* a tick waits in the ticker's channel, which holds one
  net,        \* how many datagrams are on their way to the target
  inbox,      \* how many the socket holds
  dead,       \* the target has gone silent for good
  faulty,     \* history: a datagram was lost or answered late, or a goroutine was late
  dropped     \* history: a packet for a healthy target was not written

socketVars == <<readLeft, writeLeft, net, inbox>>
checkVars == <<healthy, checker, ticker, ticked>>
vars == <<socketVars, checkVars, packet, dead, faulty, dropped>>

Deadline(timeout) == 0..timeout \cup {None}

\* Type correctness of the socket, its deadlines and those who use it.
TypeOK ==
  /\ healthy \in BOOLEAN
  /\ readLeft \in Deadline(ProbeTimeout) \cup Deadline(ResponseTimeout)
  /\ writeLeft \in Deadline(ProbeTimeout)
  /\ packet \in [Packets -> {"free", "writing", "written", "reading"}]
  /\ checker \in {"entering", "probed", "reading", "passed", "failed", "idle"}
  /\ ticker \in 1..Interval
  /\ ticked \in BOOLEAN
  /\ net \in 0..MaxNet
  /\ inbox \in 0..MaxInbox
  /\ dead \in BOOLEAN /\ faulty \in BOOLEAN /\ dropped \in BOOLEAN

\* Start: the socket is open, and the first check runs at once.
Init ==
  /\ healthy = FALSE
  /\ readLeft = None
  /\ writeLeft = None
  /\ packet = [p \in Packets |-> "free"]
  /\ checker = "entering"
  /\ ticker = Interval
  /\ ticked = FALSE
  /\ net = 0
  /\ inbox = 0
  /\ dead = FALSE
  /\ faulty = FALSE
  /\ dropped = FALSE

-----------------------------------------------------------------------------
\* The socket, the network and the target.

\* WriteTo that succeeds: a datagram the network has no room for is lost, and so is
\* one for a dead target.
Send ==
  /\ net' = IF ~dead /\ net < MaxNet THEN net + 1 ELSE net
  /\ faulty' = (faulty \/ dead \/ net = MaxNet)

\* The target answers a datagram; the socket drops what it cannot hold.
Answer ==
  /\ net > 0
  /\ net' = net - 1
  /\ inbox' = IF inbox < MaxInbox THEN inbox + 1 ELSE inbox
  /\ faulty' = (faulty \/ inbox = MaxInbox)
  /\ UNCHANGED <<readLeft, writeLeft, checkVars, packet, dead, dropped>>

\* It sends a datagram nobody asked for.
Push ==
  /\ ~dead
  /\ inbox < MaxInbox
  /\ inbox' = inbox + 1
  /\ UNCHANGED <<readLeft, writeLeft, net, checkVars, packet, dead, faulty, dropped>>

\* A datagram is lost on its way, or the target does not answer it.
Lose ==
  /\ net > 0
  /\ net' = net - 1
  /\ faulty' = TRUE
  /\ UNCHANGED <<readLeft, writeLeft, inbox, checkVars, packet, dead, dropped>>

Die ==
  /\ ~dead
  /\ dead' = TRUE
  /\ net' = 0
  /\ faulty' = TRUE
  /\ UNCHANGED <<readLeft, writeLeft, inbox, checkVars, packet, dropped>>

Reading == checker = "reading" \/ \E p \in Packets : packet[p] = "reading"

\* Someone has something to do that needs no time to pass.
Busy ==
  \/ net > 0
  \/ inbox > 0 /\ Reading
  \/ checker \in {"entering", "probed", "passed", "failed"}
  \/ \E p \in Packets : packet[p] \in {"writing", "written"}

Sooner(left) == IF left \in {0, None} THEN left ELSE left - 1

\* Time passes for the deadlines and the ticker, which drops a tick if the last one
\* was not taken.
Tick ==
  /\ readLeft' = Sooner(readLeft)
  /\ writeLeft' = Sooner(writeLeft)
  /\ ticker' = IF ticker = 1 THEN Interval ELSE ticker - 1
  /\ ticked' = (ticked \/ ticker = 1)
  /\ faulty' = (faulty \/ Busy)
  /\ UNCHANGED <<healthy, checker, net, inbox, packet, dead, dropped>>

\* ReadFrom returns a datagram.  (A read that was woken for one may return it
\* although its deadline has passed since.)
Take ==
  /\ inbox > 0
  /\ inbox' = inbox - 1

-----------------------------------------------------------------------------
\* Packets.

\* ForwardPacket finds the target healthy, and releases its lock.
ForwardPacket(p) ==
  /\ packet[p] = "free"
  /\ healthy
  /\ packet' = [packet EXCEPT ![p] = "writing"]
  /\ UNCHANGED <<socketVars, checkVars, dead, faulty, dropped>>

\* Mutant: the goroutine for the response is started although the write failed.
WritePacket_ReadsAnyway(p) ==
  /\ packet[p] = "writing"
  /\ packet' = [packet EXCEPT ![p] = "written"]
  /\ IF writeLeft = 0
       THEN dropped' = TRUE /\ UNCHANGED <<net, faulty>>
       ELSE Send /\ UNCHANGED dropped
  /\ UNCHANGED <<readLeft, writeLeft, inbox, checkVars, dead>>

\* It writes the packet and starts handleResponse.  A write fails at once when the
\* write deadline has passed, and nothing but a health check ever sets that.
WritePacket(p) ==
  /\ packet[p] = "writing"
  /\ IF writeLeft = 0
       THEN /\ packet' = [packet EXCEPT ![p] = "free"]
            /\ dropped' = TRUE
            /\ UNCHANGED <<net, faulty>>
       ELSE /\ packet' = [packet EXCEPT ![p] = "written"]
            /\ Send
            /\ UNCHANGED dropped
  /\ UNCHANGED <<readLeft, writeLeft, inbox, checkVars, dead>>

\* handleResponse sets the read deadline ...
handleResponse(p) ==
  /\ packet[p] = "written"
  /\ packet' = [packet EXCEPT ![p] = "reading"]
  /\ readLeft' = ResponseTimeout
  /\ UNCHANGED <<writeLeft, net, inbox, checkVars, dead, faulty, dropped>>

\* ... and passes the first datagram it gets to its client,
Respond(p) ==
  /\ packet[p] = "reading"
  /\ Take
  /\ packet' = [packet EXCEPT ![p] = "free"]
  /\ UNCHANGED <<readLeft, writeLeft, net, checkVars, dead, faulty, dropped>>

\* or gives up.
ResponseTimesOut(p) ==
  /\ packet[p] = "reading"
  /\ readLeft = 0
  /\ packet' = [packet EXCEPT ![p] = "free"]
  /\ UNCHANGED <<socketVars, checkVars, dead, faulty, dropped>>

-----------------------------------------------------------------------------
\* The health check.

\* start takes a tick.
StartCheck ==
  /\ checker = "idle"
  /\ ticked
  /\ ticked' = FALSE
  /\ checker' = "entering"
  /\ UNCHANGED <<healthy, ticker, socketVars, packet, dead, faulty, dropped>>

\* Mutant: the probe is written without a deadline.
performCheck_NoDeadline ==
  /\ checker = "entering"
  /\ checker' = "probed"
  /\ Send
  /\ UNCHANGED <<readLeft, writeLeft, inbox, healthy, ticker, ticked, packet, dead, dropped>>

\* performCheck sets the write deadline and writes the probe.
performCheck ==
  /\ checker = "entering"
  /\ checker' = "probed"
  /\ writeLeft' = ProbeTimeout
  /\ Send
  /\ UNCHANGED <<readLeft, inbox, healthy, ticker, ticked, packet, dead, dropped>>

\* The write fails.
ProbeFails ==
  /\ checker = "entering"
  /\ checker' = "failed"
  /\ writeLeft' = ProbeTimeout
  /\ faulty' = TRUE
  /\ UNCHANGED <<readLeft, net, inbox, healthy, ticker, ticked, packet, dead, dropped>>

\* It sets the read deadline and waits for a datagram, from whomever and for
\* whomever.
AwaitAnswer ==
  /\ checker = "probed"
  /\ checker' = "reading"
  /\ readLeft' = ProbeTimeout
  /\ UNCHANGED <<writeLeft, net, inbox, healthy, ticker, ticked, packet, dead, faulty, dropped>>

ProbeAnswered ==
  /\ checker = "reading"
  /\ Take
  /\ checker' = "passed"
  /\ UNCHANGED <<readLeft, writeLeft, net, healthy, ticker, ticked, packet, dead, faulty, dropped>>

ProbeTimesOut ==
  /\ checker = "reading"
  /\ readLeft = 0
  /\ checker' = "failed"
  /\ UNCHANGED <<socketVars, healthy, ticker, ticked, packet, dead, faulty, dropped>>

\* Mutant: a failed check leaves the target as it was.
CheckCompleted_OnlyUp ==
  /\ checker \in {"passed", "failed"}
  /\ healthy' = (healthy \/ checker = "passed")
  /\ checker' = "idle"
  /\ UNCHANGED <<ticker, ticked, socketVars, packet, dead, faulty, dropped>>

CheckCompleted ==
  /\ checker \in {"passed", "failed"}
  /\ healthy' = (checker = "passed")
  /\ checker' = "idle"
  /\ UNCHANGED <<ticker, ticked, socketVars, packet, dead, faulty, dropped>>

-----------------------------------------------------------------------------
ResponseStep(p) ==
  WritePacket(p) \/ handleResponse(p) \/ Respond(p) \/ ResponseTimesOut(p)

CheckStep ==
  \/ StartCheck \/ performCheck \/ ProbeFails \/ AwaitAnswer \/ ProbeAnswered \/ ProbeTimesOut
  \/ CheckCompleted

Next ==
  \/ Answer \/ Push \/ Lose \/ Die \/ Tick \/ CheckStep
  \/ \E p \in Packets : ForwardPacket(p) \/ ResponseStep(p)

Spec == Init /\ [][Next]_vars

\* Time passes, and goroutines that can go on do.  Neither packets nor anything the
\* target or the network does is promised.
FairSpec ==
  /\ Spec
  /\ WF_vars(Tick)
  /\ WF_vars(CheckStep)
  /\ \A p \in Packets : WF_vars(ResponseStep(p))

-----------------------------------------------------------------------------
\* Properties.

\* A target that answers all it is sent, packets and probes, within a unit of time
\* stays healthy: each datagram has its reader and each reader its datagram, in
\* whatever order they come, so that no packet's goroutine (ForwardPacket) leaves
\* the check without an answer.
AnsweringStaysHealthy == [][healthy /\ ~healthy' => faulty]_vars

\* No traffic keeps a check from its end.  handleResponse moves the deadline the
\* check waits for on with every packet; but the write deadline the check has set
\* stops packets before that can go on for ever (performCheck).
ChecksEnd == checker # "idle" ~> checker = "idle"

\* A target that goes silent is found out, whatever is still in the socket to be
\* taken for an answer (check).
SilentFoundOut == dead ~> ~healthy

\* README: a UDP service routes packets to the target server.  A packet for a healthy
\* target that answers all it is sent in time is written to it (ForwardPacket).
HealthyGetsPackets == dropped => faulty
=============================================================================
