--------------------------- MODULE PauseController ---------------------------
(***************************************************************************)
(* The gate in front of a service (pause_controller.go).  An operator may  *)
(* Pause, Stop or Resume it at any time, and every request first calls     *)
(* Wait.  A request that finds the gate paused blocks on the channel made  *)
(* by that Pause, until the channel is closed or its own timer fires.      *)
(*                                                                         *)
(* The lock makes each method that takes it one step; Wait takes it three  *)
(* times (getWaitState, GetState, GetStopMessage), so it is up to four     *)
(* steps.  Channels are numbered in the order make() returns them and 0 is *)
(* the nil channel.  FailAfter is abstracted: a timer may fire at any time *)
(* after the wait began.                                                   *)
(*                                                                         *)
(* The controller's exported fields are part of the state file, which the  *)
(* encoder reads without taking the lock; Restart is a new process that    *)
(* decodes what was last written.                                          *)
(***************************************************************************)
EXTENDS Naturals

CONSTANTS
  Waiters,      \* the requests that pass through the gate
  Messages,     \* the stop messages operators use
  NoMessage,    \* the empty string
  MaxChannels,  \* bound: how many channels Pause may make in one process
  MaxRestarts   \* bound: how often the process is restarted

ASSUME PauseConstants ==
  /\ NoMessage \notin Messages
  /\ MaxChannels \in Nat
  /\ MaxRestarts \in Nat

VARIABLES
  State,         \* PauseController.State
  StopMessage,   \* PauseController.StopMessage
  pauseChannel,  \* PauseController.pauseChannel; 0 is nil
  made,          \* how many channels this process has made
  closed,        \* the channels this process has closed
  panic,         \* why the process has died, if it has
  pc,            \* where each request is inside Wait
  waitChannel,   \* the channel a request selects on
  action,        \* what Wait returned to a request
  message,       \* the message Wait returned with it
  seen,          \* history: the states in force since a request called Wait
  saved,         \* the controller's fields in the state file
  encoding,      \* the State an encoder has read, its message still unread
  restarts       \* how often the process has been restarted

controller == <<State, StopMessage, pauseChannel, made, closed>>
requests == <<pc, waitChannel, action, message>>
disk == <<saved, encoding, restarts>>
vars == <<controller, panic, requests, seen, disk>>

Running == "running"
Paused == "paused"
Stopped == "stopped"
States == {Running, Paused, Stopped}

Proceed == "proceed"
TimedOut == "timedout"
StoppedAction == "stop"
None == "none"

NilChannel == 0
NoPanic == "nopanic"
CloseOfNilChannel == "nilchannel"
CloseOfClosedChannel == "closedchannel"

AllMessages == Messages \cup {NoMessage}

TypeOK ==
  /\ State \in States
  /\ StopMessage \in AllMessages
  /\ pauseChannel \in 0..made
  /\ made \in 0..MaxChannels
  /\ closed \in SUBSET (1..made)
  /\ panic \in {NoPanic, CloseOfNilChannel, CloseOfClosedChannel}
  /\ pc \in [Waiters -> {"idle", "blocked", "released", "reading", "done"}]
  /\ waitChannel \in [Waiters -> 0..made]
  /\ action \in [Waiters -> {None, Proceed, TimedOut, StoppedAction}]
  /\ message \in [Waiters -> AllMessages]
  /\ seen \in [Waiters -> SUBSET States]
  /\ saved \in [State : States, StopMessage : AllMessages]
  /\ encoding \in States \cup {None}
  /\ restarts \in 0..MaxRestarts

-----------------------------------------------------------------------------
\* The history of a request that is inside Wait grows with the state in force.
InWait(w) == pc[w] \in {"blocked", "released", "reading"}

Observe(state) ==
  seen' = [w \in Waiters |-> IF InWait(w) THEN seen[w] \cup {state} ELSE seen[w]]

\* NewPauseController: the zero value is a running controller.
NewPauseController ==
  /\ State = Running
  /\ StopMessage = NoMessage
  /\ pauseChannel = NilChannel

Init ==
  /\ NewPauseController
  /\ made = 0
  /\ closed = {}
  /\ panic = NoPanic
  /\ pc = [w \in Waiters |-> "idle"]
  /\ waitChannel = [w \in Waiters |-> NilChannel]
  /\ action = [w \in Waiters |-> None]
  /\ message = [w \in Waiters |-> NoMessage]
  /\ seen = [w \in Waiters |-> {}]
  /\ saved = [State |-> Running, StopMessage |-> NoMessage]
  /\ encoding = None
  /\ restarts = 0

-----------------------------------------------------------------------------
\* Operators.

\* The close() inside setState: closing nil, or closing twice, panics, and a
\* panic in an RPC handler ends the process.
ClosePauseChannel ==
  /\ closed' = closed \cup ({pauseChannel} \ {NilChannel})
  /\ panic' = IF pauseChannel = NilChannel THEN CloseOfNilChannel
              ELSE IF pauseChannel \in closed THEN CloseOfClosedChannel
              ELSE NoPanic

\* Mutant: the channel is closed on every change of state, not only on leaving
\* a pause.
setState_ClosesAlways(newState, msg) ==
  /\ panic = NoPanic
  /\ IF State # newState /\ made > 0
     THEN ClosePauseChannel
     ELSE UNCHANGED <<closed, panic>>
  /\ IF panic' = NoPanic
     THEN /\ StopMessage' = msg
          /\ State' = newState
          /\ Observe(newState)
     ELSE UNCHANGED <<State, StopMessage, seen>>
  /\ UNCHANGED <<pauseChannel, made, requests, disk>>

setState(newState, msg) ==
  /\ panic = NoPanic
  /\ IF State # newState /\ State = Paused
     THEN ClosePauseChannel
     ELSE UNCHANGED <<closed, panic>>
  /\ IF panic' = NoPanic
     THEN /\ StopMessage' = msg
          /\ State' = newState
          /\ Observe(newState)
     ELSE UNCHANGED <<State, StopMessage, seen>>
  /\ UNCHANGED <<pauseChannel, made, requests, disk>>

Stop(msg) == setState(Stopped, msg)

Resume == setState(Running, NoMessage)

\* Mutant: a second Pause makes a channel of its own, without the check that
\* one is already there.
Pause_AlwaysMakesChannel ==
  /\ panic = NoPanic
  /\ made < MaxChannels
  /\ made' = made + 1
  /\ pauseChannel' = made + 1
  /\ State' = Paused
  /\ StopMessage' = NoMessage
  /\ Observe(Paused)
  /\ UNCHANGED <<closed, panic, requests, disk>>

\* Mutant: a second Pause replaces the channel and closes the former one, so
\* that the requests it holds pick up the new timeout.
Pause_ReplacesChannel ==
  /\ panic = NoPanic
  /\ made < MaxChannels
  /\ made' = made + 1
  /\ pauseChannel' = made + 1
  /\ closed' = IF State = Paused THEN closed \cup ({pauseChannel} \ {NilChannel})
               ELSE closed
  /\ State' = Paused
  /\ StopMessage' = NoMessage
  /\ Observe(Paused)
  /\ UNCHANGED <<panic, requests, disk>>

\* Mutant: Pause leaves the message of an earlier Stop behind.
Pause_KeepsMessage ==
  /\ panic = NoPanic
  /\ IF State # Paused
     THEN /\ made < MaxChannels
          /\ made' = made + 1
          /\ pauseChannel' = made + 1
     ELSE UNCHANGED <<made, pauseChannel>>
  /\ State' = Paused
  /\ Observe(Paused)
  /\ UNCHANGED <<StopMessage, closed, panic, requests, disk>>

Pause ==
  /\ panic = NoPanic
  /\ IF State # Paused
     THEN /\ made < MaxChannels
          /\ made' = made + 1
          /\ pauseChannel' = made + 1
     ELSE UNCHANGED <<made, pauseChannel>>
  /\ State' = Paused
  /\ StopMessage' = NoMessage
  /\ Observe(Paused)
  /\ UNCHANGED <<closed, panic, requests, disk>>

-----------------------------------------------------------------------------
\* Requests.

Return(w, act, msg) ==
  /\ pc' = [pc EXCEPT ![w] = "done"]
  /\ action' = [action EXCEPT ![w] = act]
  /\ message' = [message EXCEPT ![w] = msg]

\* Wait up to the select: one snapshot under the lock decides everything but
\* the fate of a request that finds the gate paused.
Wait(w) ==
  /\ panic = NoPanic
  /\ pc[w] = "idle"
  /\ \/ /\ State = Running
        /\ Return(w, Proceed, NoMessage)
        /\ UNCHANGED waitChannel
     \/ /\ State = Stopped
        /\ Return(w, StoppedAction, StopMessage)
        /\ UNCHANGED waitChannel
     \/ /\ State = Paused
        /\ pc' = [pc EXCEPT ![w] = "blocked"]
        /\ waitChannel' = [waitChannel EXCEPT ![w] = pauseChannel]
        /\ UNCHANGED <<action, message>>
  /\ seen' = [seen EXCEPT ![w] = {State}]
  /\ UNCHANGED <<controller, panic, disk>>

\* case <-pauseChannel: a nil channel is never ready.
Released(w) ==
  /\ panic = NoPanic
  /\ pc[w] = "blocked"
  /\ waitChannel[w] \in closed
  /\ pc' = [pc EXCEPT ![w] = "released"]
  /\ UNCHANGED <<controller, panic, waitChannel, action, message, seen, disk>>

\* The released request looks at the state again ...
GetState(w) ==
  /\ panic = NoPanic
  /\ pc[w] = "released"
  /\ IF State = Stopped
     THEN /\ pc' = [pc EXCEPT ![w] = "reading"]
          /\ UNCHANGED <<action, message>>
     ELSE Return(w, Proceed, NoMessage)
  /\ UNCHANGED <<controller, panic, waitChannel, seen, disk>>

\* ... and takes the lock once more for the message.
GetStopMessage(w) ==
  /\ panic = NoPanic
  /\ pc[w] = "reading"
  /\ Return(w, StoppedAction, StopMessage)
  /\ UNCHANGED <<controller, panic, waitChannel, seen, disk>>

\* Mutant: the timer is only armed beside a channel.
FailAfter_NeedsChannel(w) ==
  /\ panic = NoPanic
  /\ pc[w] = "blocked"
  /\ waitChannel[w] # NilChannel
  /\ Return(w, TimedOut, NoMessage)
  /\ UNCHANGED <<controller, panic, waitChannel, seen, disk>>

\* case <-failChannel: the timer may win even when the channel is closed too.
FailAfter(w) ==
  /\ panic = NoPanic
  /\ pc[w] = "blocked"
  /\ Return(w, TimedOut, NoMessage)
  /\ UNCHANGED <<controller, panic, waitChannel, seen, disk>>

-----------------------------------------------------------------------------
\* The state file.

\* The encoder reads the two fields one after the other, without the lock.
MarshalState ==
  /\ panic = NoPanic
  /\ encoding = None
  /\ encoding' = State
  /\ UNCHANGED <<controller, panic, requests, seen, saved, restarts>>

MarshalMessage ==
  /\ panic = NoPanic
  /\ encoding # None
  /\ saved' = [State |-> encoding, StopMessage |-> StopMessage]
  /\ encoding' = None
  /\ UNCHANGED <<controller, panic, requests, seen, restarts>>

\* UnmarshalJSON fills the fields and then repeats the operation that would
\* have led to them.  Pause finds State already paused and makes no channel;
\* Resume and Stop find it equal to their own and close none.
UnmarshalJSON ==
  /\ State' = saved.State
  /\ StopMessage' = IF saved.State = Stopped THEN saved.StopMessage ELSE NoMessage
  /\ pauseChannel' = NilChannel

\* A new process: every request of the old one is gone with its connection.
Restart ==
  /\ restarts < MaxRestarts
  /\ restarts' = restarts + 1
  /\ UnmarshalJSON
  /\ made' = 0
  /\ closed' = {}
  /\ panic' = NoPanic
  /\ pc' = [w \in Waiters |-> "idle"]
  /\ waitChannel' = [w \in Waiters |-> NilChannel]
  /\ action' = [w \in Waiters |-> None]
  /\ message' = [w \in Waiters |-> NoMessage]
  /\ seen' = [w \in Waiters |-> {}]
  /\ encoding' = None
  /\ UNCHANGED saved

-----------------------------------------------------------------------------
Next ==
  \/ Pause
  \/ Resume
  \/ \E msg \in Messages : Stop(msg)
  \/ \E w \in Waiters : Wait(w)
  \/ \E w \in Waiters : Released(w)
  \/ \E w \in Waiters : GetState(w)
  \/ \E w \in Waiters : GetStopMessage(w)
  \/ \E w \in Waiters : FailAfter(w)
  \/ MarshalState
  \/ MarshalMessage
  \/ Restart

Spec == Init /\ [][Next]_vars

\* The Go scheduler runs a goroutine whose channel is ready.  Operators, new
\* requests and restarts are not promised, and what needs the timers says so.
FairSpec ==
  /\ Spec
  /\ \A w \in Waiters : WF_vars(Released(w))
  /\ \A w \in Waiters : WF_vars(GetState(w))
  /\ \A w \in Waiters : WF_vars(GetStopMessage(w))

-----------------------------------------------------------------------------
\* Properties.

\* A request blocked on a channel is on the channel the next Resume or Stop
\* will close, or on one that is closed already: Pause, called again while
\* paused, must not leave earlier requests on a channel nobody holds.
NoStrandedWaiter ==
  \A w \in Waiters :
    pc[w] = "blocked" /\ waitChannel[w] # NilChannel =>
      \/ waitChannel[w] \in closed
      \/ State = Paused /\ waitChannel[w] = pauseChannel

\* No sequence of Pause, Resume and Stop calls closes a channel twice: setState
\* closes only on the way out of a pause, and each pause has a channel of its
\* own.
NoDoubleClose == panic # CloseOfClosedChannel

\* A stop ended the pause that held the request, and the gate was paused again
\* before Wait read the state anew (GetState).
PausedAgain(w) == {Paused, Stopped} \subseteq seen[w]

\* A request that is told of a stop or a timeout has met the gate stopped or
\* paused during its Wait, and one that is let through has met it running, with
\* one exception: Wait takes every state but stopped for an open gate when its
\* channel is closed, so that a request whose pause was ended by Stop slips through
\* a gate that never ran if Pause comes before it looks.  Nothing slips through a
\* pause or a stop that lasted.
AnswersJustified ==
  \A w \in Waiters :
    /\ action[w] = Proceed => Running \in seen[w] \/ PausedAgain(w)
    /\ action[w] = StoppedAction => Stopped \in seen[w]
    /\ action[w] = TimedOut => Paused \in seen[w]

\* Only a stopped gate carries a message, whatever was written to the state
\* file while the state was changing: UnmarshalJSON repeats the operation, it
\* does not trust the two fields to belong together.
MessageOnlyWhenStopped == State # Stopped => StopMessage = NoMessage

\* Leaving a pause releases every request it held, without the help of the
\* timers, unless the process dies.
ResumeReleasesWaiters ==
  \A w \in Waiters :
    (pc[w] = "blocked" /\ waitChannel[w] # NilChannel /\ State # Paused)
      ~> (pc[w] \in {"done", "idle"} \/ panic # NoPanic)

\* time.After fires: Pause is always given a finite FailAfter.
TimersFire == \A w \in Waiters : WF_vars(FailAfter(w))

\* Every call of Wait returns if timers fire: the timer ends what the channel
\* does not, even when a restored pause has no channel.
WaitReturns ==
  TimersFire =>
    \A w \in Waiters : InWait(w) ~> (pc[w] \in {"done", "idle"} \/ panic # NoPanic)

\* Resume and Stop of a paused service succeed, as the tests of both expect of
\* every paused controller.
ResumeSucceeds == panic = NoPanic

-----------------------------------------------------------------------------
\* The inductive invariant behind NoDoubleClose, NoStrandedWaiter and
\* AnswersJustified.

\* While paused, the channel is open (or nil, after a restore).
OpenWhilePaused == State = Paused => pauseChannel \notin closed

\* A request inside Wait has seen the state in force and the pause that
\* blocked it; once its channel is closed it has seen the pause end, and when
\* it reads the message it has seen a stop.
HistoryComplete ==
  \A w \in Waiters :
    /\ InWait(w) => State \in seen[w] /\ Paused \in seen[w]
    /\ pc[w] \in {"released", "reading"} => Running \in seen[w] \/ Stopped \in seen[w]
    /\ pc[w] = "blocked" /\ waitChannel[w] \in closed => Running \in seen[w] \/ Stopped \in seen[w]
    /\ pc[w] = "reading" => Stopped \in seen[w]
    /\ pc[w] = "idle" => action[w] = None
    /\ InWait(w) => action[w] = None

\* Together with the properties themselves: inductive.
PauseInv ==
  /\ TypeOK
  /\ OpenWhilePaused
  /\ HistoryComplete
  /\ NoStrandedWaiter
  /\ NoDoubleClose
  /\ AnswersJustified
  /\ MessageOnlyWhenStopped
=============================================================================
