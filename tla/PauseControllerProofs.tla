----------------------- MODULE PauseControllerProofs -----------------------
(***************************************************************************)
(* Proofs about PauseController, for any set of requests and messages and  *)
(* any number of pauses and restarts.                                      *)
(***************************************************************************)
EXTENDS PauseController, TLAPS

\* A new controller, with no request inside Wait, satisfies the invariant.
LEMMA PauseInit == Init => PauseInv
  BY PauseConstants
     DEF Init, NewPauseController, PauseInv, TypeOK, OpenWhilePaused, HistoryComplete,
         NoStrandedWaiter, NoDoubleClose, AnswersJustified, PausedAgain, MessageOnlyWhenStopped,
         InWait, States, Running, Paused, Stopped, AllMessages, None, Proceed,
         TimedOut, StoppedAction, NilChannel, NoPanic, CloseOfNilChannel,
         CloseOfClosedChannel

\* setState, by Resume or Stop: a channel is closed at most once, because the
\* one in use while paused is open, and the requests on it see the new state.
LEMMA PauseSetState ==
  ASSUME PauseInv, NEW newState \in {Running, Stopped}, NEW msg \in AllMessages,
         newState = Running => msg = NoMessage, setState(newState, msg)
  PROVE  PauseInv'
<1> USE DEF PauseInv, TypeOK, InWait, States, Running, Paused, Stopped, NilChannel,
        NoPanic, CloseOfNilChannel, CloseOfClosedChannel, requests, disk
<1>1. /\ closed' \in SUBSET (1..made)
      /\ closed \subseteq closed'
      /\ closed' \subseteq closed \cup {pauseChannel}
      /\ panic' \in {NoPanic, CloseOfNilChannel}
      /\ panic' = CloseOfNilChannel => closed' = closed
      /\ State = Paused /\ panic' = NoPanic => pauseChannel \in closed'
      /\ State # Paused => closed' = closed /\ panic' = NoPanic
  <2>1. closed \in SUBSET (1..made) /\ pauseChannel \in 0..made /\ made \in Nat
    BY PauseConstants
  <2>2. State = Paused => pauseChannel \notin closed /\ ClosePauseChannel
    BY DEF setState, OpenWhilePaused
  <2>3. State # Paused => closed' = closed /\ panic' = NoPanic
    BY DEF setState
  <2> HIDE DEF PauseInv
  <2>4. CASE State = Paused
    <3>1. closed' = closed \cup ({pauseChannel} \ {NilChannel})
      BY <2>2, <2>4 DEF ClosePauseChannel
    <3>2. panic' = IF pauseChannel = NilChannel THEN CloseOfNilChannel ELSE NoPanic
      BY <2>2, <2>4 DEF ClosePauseChannel
    <3>3. pauseChannel = NilChannel => closed' = closed
      BY <3>1
    <3>4. pauseChannel # NilChannel => pauseChannel \in 1..made
      BY <2>1
    <3> QED
      BY <2>1, <2>4, <3>1, <3>2, <3>3, <3>4
  <2> QED
    BY Zenon, <2>1, <2>3, <2>4
<1>2. TypeOK'
  BY <1>1 DEF setState, Observe
<1>3. OpenWhilePaused'
  BY <1>1 DEF setState, OpenWhilePaused
<1>4. HistoryComplete'
  BY <1>1 DEF setState, Observe, HistoryComplete, OpenWhilePaused, NoStrandedWaiter
<1>5. NoStrandedWaiter'
  BY <1>1 DEF setState, NoStrandedWaiter
<1>6. NoDoubleClose'
  BY <1>1 DEF NoDoubleClose
<1>7. AnswersJustified'
  BY DEF setState, Observe, AnswersJustified, PausedAgain, HistoryComplete, None, Proceed,
         StoppedAction, TimedOut
<1>8. MessageOnlyWhenStopped'
  BY DEF setState, MessageOnlyWhenStopped
<1> QED
  BY <1>2, <1>3, <1>4, <1>5, <1>6, <1>7, <1>8

\* Pause: a channel made now is not among the closed ones, and a second Pause
\* keeps the channel that requests are already on.
LEMMA PausePause ==
  ASSUME PauseInv, Pause
  PROVE  PauseInv'
<1> USE DEF PauseInv, TypeOK, InWait, States, Running, Paused, Stopped, NilChannel,
        NoPanic, requests, disk
<1>1. TypeOK'
  BY PauseConstants DEF Pause, Observe, AllMessages
<1>2. OpenWhilePaused'
  BY PauseConstants DEF Pause, OpenWhilePaused
<1>3. HistoryComplete'
  BY PauseConstants DEF Pause, Observe, HistoryComplete
<1>4. NoStrandedWaiter'
  BY PauseConstants DEF Pause, NoStrandedWaiter
<1>5. NoDoubleClose'
  BY DEF Pause, NoDoubleClose
<1>6. AnswersJustified'
  BY DEF Pause, Observe, AnswersJustified, PausedAgain, HistoryComplete, None, Proceed,
         StoppedAction, TimedOut
<1>7. MessageOnlyWhenStopped'
  BY DEF Pause, MessageOnlyWhenStopped
<1> QED
  BY <1>1, <1>2, <1>3, <1>4, <1>5, <1>6, <1>7

\* The steps of a request inside Wait.
LEMMA PauseRequest ==
  ASSUME PauseInv, NEW w \in Waiters,
         Wait(w) \/ Released(w) \/ GetState(w) \/ GetStopMessage(w) \/ FailAfter(w)
  PROVE  PauseInv'
<1> USE DEF PauseInv, TypeOK, InWait, States, Running, Paused, Stopped, NilChannel,
        NoPanic, None, Proceed, StoppedAction, TimedOut, AllMessages, controller, disk,
        Return, OpenWhilePaused, HistoryComplete, NoStrandedWaiter, NoDoubleClose,
        AnswersJustified, PausedAgain, MessageOnlyWhenStopped
<1>1. CASE Wait(w)
  <2>1. CASE State = Running
    BY SMTT(30), <1>1, <2>1, PauseConstants DEF Wait
  <2>2. CASE State = Stopped
    BY SMTT(30), <1>1, <2>2, PauseConstants DEF Wait
  <2>3. CASE State = Paused
    BY SMTT(30), <1>1, <2>3, PauseConstants DEF Wait
  <2> QED
    BY SMTT(30), <2>1, <2>2, <2>3
<1>2. CASE Released(w)
  BY SMTT(30), <1>2 DEF Released
<1>3. CASE GetState(w)
  BY SMTT(30), <1>3 DEF GetState
<1>4. CASE GetStopMessage(w)
  BY SMTT(30), <1>4 DEF GetStopMessage
<1>5. CASE FailAfter(w)
  BY SMTT(30), <1>5 DEF FailAfter
<1> QED
  BY Zenon, <1>1, <1>2, <1>3, <1>4, <1>5

\* A new process starts with no channel and no request, from whatever the
\* state file holds.
LEMMA PauseRestart ==
  ASSUME PauseInv, Restart
  PROVE  PauseInv'
<1> USE DEF States, Running, Paused, Stopped, AllMessages, None, Proceed, TimedOut,
        StoppedAction, NilChannel, NoPanic, CloseOfNilChannel, CloseOfClosedChannel
<1>1. State' \in States /\ StopMessage' \in AllMessages
  BY DEF Restart, UnmarshalJSON, PauseInv, TypeOK
<1>2. restarts' \in 0..MaxRestarts
  BY PauseConstants DEF Restart, PauseInv, TypeOK
<1>3. TypeOK'
  BY <1>1, <1>2, PauseConstants DEF Restart, UnmarshalJSON, PauseInv, TypeOK
<1>4. MessageOnlyWhenStopped'
  BY DEF Restart, UnmarshalJSON, MessageOnlyWhenStopped
<1>5. NoStrandedWaiter' /\ NoDoubleClose' /\ OpenWhilePaused'
  BY DEF Restart, NoStrandedWaiter, NoDoubleClose, OpenWhilePaused
<1>6. HistoryComplete' /\ AnswersJustified'
  BY DEF Restart, HistoryComplete, AnswersJustified, PausedAgain, InWait
<1> QED
  BY <1>3, <1>4, <1>5, <1>6 DEF PauseInv

\* The encoder only reads the controller.
LEMMA PauseMarshal ==
  ASSUME PauseInv, MarshalState \/ MarshalMessage
  PROVE  PauseInv'
<1>1. /\ saved' \in [State : States, StopMessage : AllMessages]
      /\ encoding' \in States \cup {None}
      /\ UNCHANGED <<controller, panic, requests, seen, restarts>>
  BY DEF MarshalState, MarshalMessage, PauseInv, TypeOK
<1> QED
  BY SMTT(30), <1>1
     DEF PauseInv, TypeOK, OpenWhilePaused, HistoryComplete, NoStrandedWaiter,
         NoDoubleClose, AnswersJustified, PausedAgain, MessageOnlyWhenStopped, InWait, controller,
         requests

\* Every step of the controller preserves the invariant.
LEMMA PauseNext == PauseInv /\ [Next]_vars => PauseInv'
<1> SUFFICES ASSUME PauseInv, [Next]_vars PROVE PauseInv'
  OBVIOUS
<1>1. CASE Pause
  BY <1>1, PausePause
<1>2. CASE Resume
  BY <1>2, PauseSetState DEF Resume, Running, AllMessages
<1>3. CASE \E msg \in Messages : Stop(msg)
  BY <1>3, PauseSetState DEF Stop, Running, Stopped, AllMessages
<1>4. CASE \E w \in Waiters : \/ Wait(w) \/ Released(w) \/ GetState(w)
                              \/ GetStopMessage(w) \/ FailAfter(w)
  BY <1>4, PauseRequest
<1>5. CASE MarshalState \/ MarshalMessage
  BY <1>5, PauseMarshal
<1>6. CASE Restart
  BY <1>6, PauseRestart
<1>7. CASE UNCHANGED vars
  BY SMTT(30), <1>7 DEF vars, controller, requests, disk, PauseInv, TypeOK, OpenWhilePaused,
         HistoryComplete, NoStrandedWaiter, NoDoubleClose, AnswersJustified, PausedAgain,
         MessageOnlyWhenStopped, InWait
<1> QED
  BY <1>1, <1>2, <1>3, <1>4, <1>5, <1>6, <1>7 DEF Next

\* The invariant holds in every reachable state.
THEOREM PauseInvariant == Spec => []PauseInv
<1>1. PauseInv /\ [Next]_vars => PauseInv'
  BY PauseNext
<1> QED
  BY PauseInit, <1>1, PTL DEF Spec

\* The type invariant of the controller.
THEOREM PauseTypeOK == Spec => []TypeOK
<1>1. PauseInv => TypeOK
  BY DEF PauseInv
<1> QED
  BY PauseInvariant, <1>1, PTL

\* Pausing twice strands nobody: each blocked request is on the channel that
\* Resume or Stop will close, or on a closed one.
THEOREM PauseNoStrandedWaiter == Spec => []NoStrandedWaiter
<1>1. PauseInv => NoStrandedWaiter
  BY DEF PauseInv
<1> QED
  BY PauseInvariant, <1>1, PTL

\* No sequence of operator calls, requests and restarts closes a channel twice.
THEOREM PauseNoDoubleClose == Spec => []NoDoubleClose
<1>1. PauseInv => NoDoubleClose
  BY DEF PauseInv
<1> QED
  BY PauseInvariant, <1>1, PTL

\* No request is told of a stop or a pause that was not in force while it waited,
\* and none is let through unless the gate ran meanwhile, or went from a pause over
\* a stop to another pause before Wait read the state again.
THEOREM PauseAnswersJustified == Spec => []AnswersJustified
<1>1. PauseInv => AnswersJustified
  BY DEF PauseInv
<1> QED
  BY PauseInvariant, <1>1, PTL

\* A gate that is not stopped carries no message, whatever was saved while the
\* state was changing (UnmarshalJSON).
THEOREM PauseMessageOnlyWhenStopped == Spec => []MessageOnlyWhenStopped
<1>1. PauseInv => MessageOnlyWhenStopped
  BY DEF PauseInv
<1> QED
  BY PauseInvariant, <1>1, PTL
=============================================================================
