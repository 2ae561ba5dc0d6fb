-------------------------- MODULE UDPSocketProofs --------------------------
(***************************************************************************)
(* Theorems about UDPSocket, for any number of packets at a time, every    *)
(* interval and timeout and every bound.                                   *)
(***************************************************************************)
EXTENDS UDPSocket, FiniteSetTheorems, TLAPS

\* The packets whose goroutine has yet to read a datagram.
Waiting == {p \in Packets : packet[p] \in {"written", "reading"}}

\* Whether the health check has.
Probing == IF checker \in {"probed", "reading"} THEN 1 ELSE 0

\* As long as nothing was lost or late, there is a datagram for each of them.
EnoughAnswers == ~faulty => Cardinality(Waiting) + Probing <= net + inbox

\* So that none is reading when time passes, and the check's deadline is ahead,
DeadlineAhead == ~faulty /\ checker = "reading" => readLeft # 0

\* and no check fails.
NoFailedCheck == ~faulty => checker # "failed"

SocketInv == TypeOK /\ EnoughAnswers /\ DeadlineAhead /\ NoFailedCheck

-----------------------------------------------------------------------------
\* Start gives the variables their types.
LEMMA InitTyped == Init => TypeOK
  <1> SUFFICES ASSUME Init PROVE TypeOK
    OBVIOUS
  <1>1. readLeft \in Deadline(ProbeTimeout) /\ writeLeft \in Deadline(ProbeTimeout)
    BY DEF Init, Deadline
  <1>2. ticker \in 1..Interval /\ net \in 0..MaxNet /\ inbox \in 0..MaxInbox
    BY SocketConstants DEF Init
  <1>3. packet \in [Packets -> {"free", "writing", "written", "reading"}]
    BY DEF Init
  <1> QED BY Zenon, <1>1, <1>2, <1>3 DEF Init, TypeOK

\* Every step keeps the types of the variables.
LEMMA TypeStep == TypeOK /\ [Next]_vars => TypeOK'
  <1> SUFFICES ASSUME TypeOK, [Next]_vars PROVE TypeOK'
    OBVIOUS
  <1> USE DEF TypeOK
  <1>1. CASE Answer
    <2>1. net' \in 0..MaxNet /\ inbox' \in 0..MaxInbox
      BY <1>1, SocketConstants DEF Answer
    <2> QED BY Zenon, <1>1, <2>1 DEF Answer, checkVars
  <1>2. CASE Push \/ Lose
    <2>1. net' \in 0..MaxNet /\ inbox' \in 0..MaxInbox
      BY <1>2, SocketConstants DEF Push, Lose
    <2> QED BY ZenonT(30), <1>2, <2>1 DEF Push, Lose, checkVars
  <1>3. CASE Die
    BY <1>3, SocketConstants DEF Die, checkVars
  <1>4. CASE Tick
    <2>1. readLeft' \in Deadline(ProbeTimeout) \cup Deadline(ResponseTimeout)
      BY <1>4, SocketConstants DEF Tick, Sooner, Deadline
    <2>2. writeLeft' \in Deadline(ProbeTimeout)
      BY <1>4, SocketConstants DEF Tick, Sooner, Deadline
    <2>3. ticker' \in 1..Interval
      BY <1>4, SocketConstants DEF Tick
    <2> QED BY <1>4, <2>1, <2>2, <2>3 DEF Tick
  <1>5. CASE CheckStep
    <2>1. CASE StartCheck \/ ProbeTimesOut
      BY Zenon, <2>1 DEF StartCheck, ProbeTimesOut, socketVars
    <2>2. CASE CheckCompleted
      BY Zenon, <2>2 DEF CheckCompleted, socketVars
    <2>3. ProbeTimeout \in Deadline(ProbeTimeout)
      BY SocketConstants DEF Deadline
    <2>4. CASE performCheck
      BY <2>3, <2>4, SocketConstants DEF performCheck, Send
    <2>5. CASE ProbeFails \/ AwaitAnswer
      BY Zenon, <2>3, <2>5 DEF ProbeFails, AwaitAnswer
    <2>6. CASE ProbeAnswered
      BY <2>6, SocketConstants DEF ProbeAnswered, Take
    <2> QED BY Zenon, <1>5, <2>1, <2>2, <2>4, <2>5, <2>6 DEF CheckStep
  <1>6. ASSUME NEW p \in Packets, ForwardPacket(p) \/ ResponseStep(p) PROVE TypeOK'
    <2>1. CASE ForwardPacket(p) \/ ResponseTimesOut(p)
      BY <2>1 DEF ForwardPacket, ResponseTimesOut, socketVars, checkVars
    <2>2. CASE WritePacket(p)
      <3>1. net' \in 0..MaxNet
        BY <2>2, SocketConstants DEF WritePacket, Send
      <3>2. packet' \in [Packets -> {"free", "writing", "written", "reading"}]
        BY <2>2 DEF WritePacket
      <3>3. faulty' \in BOOLEAN /\ dropped' \in BOOLEAN
        BY Zenon, <2>2 DEF WritePacket, Send
      <3> QED BY Zenon, <2>2, <3>1, <3>2, <3>3 DEF WritePacket, checkVars
    <2>3. CASE handleResponse(p)
      <3>1. ResponseTimeout \in Deadline(ResponseTimeout)
        BY SocketConstants DEF Deadline
      <3> QED BY <2>3, <3>1 DEF handleResponse, checkVars
    <2>4. CASE Respond(p)
      BY <2>4, SocketConstants DEF Respond, Take, checkVars
    <2> QED BY <1>6, <2>1, <2>2, <2>3, <2>4 DEF ResponseStep
  <1>7. CASE UNCHANGED vars
    BY ZenonT(30), <1>7 DEF vars, socketVars, checkVars
  <1> QED BY Zenon, <1>1, <1>2, <1>3, <1>4, <1>5, <1>6, <1>7 DEF Next

\* The socket, its deadlines and its users keep their types in every behaviour.
THEOREM SocketTyped == Spec => []TypeOK
  <1> QED BY InitTyped, TypeStep, PTL DEF Spec

-----------------------------------------------------------------------------
\* Waiting is finite, and its size a number.
LEMMA WaitingFinite == IsFiniteSet(Waiting) /\ Cardinality(Waiting) \in Nat
  <1>1. IsFiniteSet(Waiting)
    BY FS_Subset, SocketConstants DEF Waiting
  <1> QED BY <1>1, FS_CardinalityType

\* A goroutine that has read, or given up, is no longer waiting.
LEMMA StopsWaiting ==
  ASSUME NEW p \in Packets, packet \in [Packets -> {"free", "writing", "written", "reading"}],
         packet[p] = "reading", packet' = [packet EXCEPT ![p] = "free"]
  PROVE  Cardinality(Waiting') = Cardinality(Waiting) - 1
  <1>1. Waiting' = Waiting \ {p} /\ p \in Waiting
    BY DEF Waiting
  <1> QED BY SMTT(30), <1>1, WaitingFinite, FS_RemoveElement

\* One that was started is waiting.
LEMMA StartsWaiting ==
  ASSUME NEW p \in Packets, packet \in [Packets -> {"free", "writing", "written", "reading"}],
         packet[p] = "writing", packet' = [packet EXCEPT ![p] = "written"]
  PROVE  Cardinality(Waiting') = Cardinality(Waiting) + 1
  <1>1. Waiting' = Waiting \cup {p} /\ p \notin Waiting
    BY DEF Waiting
  <1> QED BY <1>1, WaitingFinite, FS_AddElement

\* When time passes and nothing is late, the check is not waiting.
LEMMA IdleWhenTimePasses ==
  ASSUME SocketInv, Tick, ~faulty'
  PROVE  checker = "idle"
  <1>1. ~faulty /\ ~Busy
    BY Zenon DEF Tick, SocketInv, TypeOK
  <1>2. net = 0 /\ checker \in {"reading", "idle"} /\ (checker = "reading" => inbox = 0)
    BY <1>1 DEF Busy, Reading, SocketInv, TypeOK
  <1>3. Cardinality(Waiting) + Probing <= net + inbox
    BY <1>1 DEF SocketInv, EnoughAnswers
  <1> QED BY <1>2, <1>3, WaitingFinite DEF Probing

\* What was lost or late stays in the record.
LEMMA FaultsStay == [Next]_vars /\ ~faulty' => ~faulty
  <1> SUFFICES ASSUME [Next]_vars, faulty PROVE faulty'
    OBVIOUS
  <1>1. CASE Answer \/ Push \/ Lose \/ Die \/ Tick
    BY Zenon, <1>1 DEF Answer, Push, Lose, Die, Tick
  <1>2. CASE CheckStep
    BY Zenon, <1>2 DEF CheckStep, StartCheck, performCheck, Send, ProbeFails, AwaitAnswer,
                       ProbeAnswered, ProbeTimesOut, CheckCompleted
  <1>3. ASSUME NEW p \in Packets, ForwardPacket(p) \/ ResponseStep(p) PROVE faulty'
    BY Zenon, <1>3 DEF ForwardPacket, ResponseStep, WritePacket, Send, handleResponse, Respond,
                       ResponseTimesOut
  <1>4. CASE UNCHANGED vars
    BY Zenon, <1>4 DEF vars
  <1> QED BY Zenon, <1>1, <1>2, <1>3, <1>4 DEF Next

\* Every step keeps the balance of datagrams and readers, and so the check from
\* failing.
LEMMA SocketStep == SocketInv /\ [Next]_vars => SocketInv'
  <1> SUFFICES ASSUME SocketInv, [Next]_vars, ~faulty'
               PROVE  /\ Cardinality(Waiting') + Probing' <= net' + inbox'
                      /\ checker' = "reading" => readLeft' # 0
                      /\ checker' # "failed"
    BY TypeStep DEF SocketInv, EnoughAnswers, DeadlineAhead, NoFailedCheck
  <1>t. TypeOK
    BY DEF SocketInv
  <1>c. Cardinality(Waiting) \in Nat
    BY WaitingFinite
  <1>f. ~faulty
    BY FaultsStay
  <1>i. /\ Cardinality(Waiting) + Probing <= net + inbox
        /\ checker = "reading" => readLeft # 0
        /\ checker # "failed"
    BY <1>f DEF SocketInv, EnoughAnswers, DeadlineAhead, NoFailedCheck
  <1>w. packet' = packet => Waiting' = Waiting
    BY DEF Waiting
  <1>1. CASE Answer
    <2>1. inbox # MaxInbox
      BY Zenon, <1>1 DEF Answer
    <2> QED BY <1>1, <2>1, <1>t, <1>c, <1>i, <1>w, SocketConstants
            DEF Answer, checkVars, Probing, TypeOK
  <1>6. CASE Push \/ Lose \/ Die
    BY <1>6, <1>t, <1>c, <1>i, <1>w DEF Push, Lose, Die, checkVars, Probing, TypeOK
  <1>2. CASE Tick
    BY <1>2, <1>t, <1>c, <1>i, <1>w, IdleWhenTimePasses DEF Tick, Probing, TypeOK
  <1>3. CASE CheckStep
    <2>1. CASE StartCheck \/ ProbeTimesOut \/ CheckCompleted
      BY <2>1, <1>t, <1>c, <1>i, <1>w
      DEF StartCheck, ProbeTimesOut, CheckCompleted, socketVars, Probing, TypeOK
    <2>2. CASE performCheck \/ ProbeFails
      <3>1. performCheck /\ ~dead /\ net # MaxNet
        BY Zenon, <2>2 DEF performCheck, ProbeFails, Send
      <3> QED BY <3>1, <1>t, <1>c, <1>i, <1>w, SocketConstants
              DEF performCheck, Send, Probing, TypeOK
    <2>3. CASE AwaitAnswer \/ ProbeAnswered
      BY <2>3, <1>t, <1>c, <1>i, <1>w, SocketConstants
      DEF AwaitAnswer, ProbeAnswered, Take, Probing, TypeOK
    <2> QED BY <1>3, <2>1, <2>2, <2>3 DEF CheckStep
  <1>4. ASSUME NEW p \in Packets, ForwardPacket(p) \/ ResponseStep(p)
        PROVE  /\ Cardinality(Waiting') + Probing' <= net' + inbox'
               /\ checker' = "reading" => readLeft' # 0
               /\ checker' # "failed"
    <2>1. CASE ForwardPacket(p) \/ handleResponse(p)
      <3>1. Waiting' = Waiting
        BY <2>1, <1>t DEF ForwardPacket, handleResponse, Waiting, TypeOK
      <3> QED BY <2>1, <3>1, <1>i, SocketConstants
              DEF ForwardPacket, handleResponse, socketVars, checkVars, Probing
    <2>2. CASE WritePacket(p)
      <3>1. CASE writeLeft = 0
        <4>1. Waiting' = Waiting
          BY <2>2, <3>1, <1>t DEF WritePacket, Waiting, TypeOK
        <4> QED BY <2>2, <3>1, <4>1, <1>i DEF WritePacket, checkVars, Probing
      <3>2. CASE writeLeft # 0
        <4>1. Cardinality(Waiting') = Cardinality(Waiting) + 1
          BY <2>2, <3>2, <1>t, StartsWaiting DEF WritePacket, TypeOK
        <4>2. ~dead /\ net # MaxNet
          BY Zenon, <2>2, <3>2 DEF WritePacket, Send
        <4>3. net' = net + 1
          BY <2>2, <3>2, <4>2, <1>t, SocketConstants DEF WritePacket, Send, TypeOK
        <4> QED BY <2>2, <4>1, <4>3, <1>t, <1>c, <1>i DEF WritePacket, checkVars, Probing, TypeOK
      <3> QED BY <3>1, <3>2
    <2>3. CASE Respond(p) \/ ResponseTimesOut(p)
      <3>1. Cardinality(Waiting') = Cardinality(Waiting) - 1
        BY <2>3, <1>t, StopsWaiting DEF Respond, ResponseTimesOut, TypeOK
      <3> QED BY <2>3, <3>1, <1>t, <1>c, <1>i
              DEF Respond, ResponseTimesOut, Take, socketVars, checkVars, Probing, TypeOK
    <2> QED BY <1>4, <2>1, <2>2, <2>3 DEF ResponseStep
  <1>5. CASE UNCHANGED vars
    BY <1>5, <1>i, <1>w DEF vars, socketVars, checkVars, Probing
  <1> QED BY Zenon, <1>1, <1>2, <1>3, <1>4, <1>5, <1>6 DEF Next

\* A target that answers all it is sent in time stays healthy, however many packets
\* are forwarded and whichever goroutine reads whose answer (ForwardPacket,
\* handleResponse and performCheck on one socket).
THEOREM AnsweringTargetsStayHealthy == Spec => AnsweringStaysHealthy
  <1>1. Init => SocketInv
    <2> SUFFICES ASSUME Init PROVE SocketInv
      OBVIOUS
    <2>1. Waiting = {}
      BY DEF Init, Waiting
    <2>2. Cardinality(Waiting) = 0
      BY <2>1, FS_EmptySet
    <2> QED BY <2>2, InitTyped DEF Init, SocketInv, EnoughAnswers, DeadlineAhead, NoFailedCheck, Probing
  <1>2. SocketInv /\ [Next]_vars => [healthy /\ ~healthy' => faulty]_vars
    <2> SUFFICES ASSUME SocketInv, Next, healthy, ~healthy' PROVE faulty
      OBVIOUS
    <2>1. CASE CheckCompleted
      BY <2>1 DEF CheckCompleted, SocketInv, NoFailedCheck
    <2>2. ASSUME ~CheckCompleted PROVE healthy' = healthy
      BY Zenon, <2>2 DEF Next, Answer, Push, Lose, Die, Tick, CheckStep, StartCheck, performCheck,
                  ProbeFails, AwaitAnswer, ProbeAnswered, ProbeTimesOut, ForwardPacket,
                  ResponseStep, WritePacket, handleResponse, Respond, ResponseTimesOut, checkVars
    <2> QED BY <2>1, <2>2
  <1> QED BY <1>1, <1>2, SocketStep, PTL DEF Spec, AnsweringStaysHealthy
=============================================================================
