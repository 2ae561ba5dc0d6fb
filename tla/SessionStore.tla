---------------------------- MODULE SessionStore ----------------------------
(***************************************************************************)
(* The session manager's sessions and the files they are kept in           *)
(* (session_manager.go): creation, expiry, and what a restart brings back. *)
(*                                                                         *)
(* Sessions are saved and deleted by goroutines that nothing orders.  A    *)
(* save marshals the session through its pointer, without the lock, field  *)
(* by field, and then opens and writes the file, while packets, expiry     *)
(* and other saves and deletes go on.  Which target a packet is given is   *)
(* UDPService's subject: targets are healthy or not as they please here.   *)
(*                                                                         *)
(* SessionManager.Stop, which would save all sessions, has no caller in    *)
(* the program, and DrainTarget none with a target: sessions are active    *)
(* until they expire, and the process ends without saving.                 *)
(***************************************************************************)
EXTENDS Naturals, FiniteSets

CONSTANTS
  Ids,          \* the session IDs
  Targets,      \* the targets
  Saves,        \* bound: the goroutines that save sessions, each used again and again
  IdleTimeout,  \* SessionConfig.IdleTimeout
  MaxTime,      \* bound: the last moment
  MaxDeletes,   \* bound: the goroutines that wait to delete one file
  MaxCrashes,   \* bound: how often the process dies
  None

Times == 0..MaxTime
Session == [target : Targets \cup {None}, url : Targets, seen : Times]

ASSUME StoreConstants ==
  /\ IdleTimeout \in Nat /\ MaxTime \in Nat /\ MaxDeletes \in Nat /\ MaxCrashes \in Nat
  /\ None \notin Ids /\ None \notin Targets /\ None \notin Session

VARIABLES
  now,
  session,  \* sessions: Target, TargetURL and LastSeen of each session, or None
  save,     \* each saving goroutine: its session, what it has read of it, where it is
  deletes,  \* how many goroutines wait to delete the file of each session
  file,     \* the file of each session: absent, empty, a record, or not JSON
  crashes,
  raced     \* history: the IDs with a save begun while another save or delete waited

vars == <<now, session, save, deletes, file, crashes, raced>>

Steps == {"free", "begun", "urlread", "marshalled", "opened"}

\* live: the session it points to is still in the map; linked: the file it has
\* opened has not been deleted.
Save == [step : Steps, id : Ids \cup {None}, live : BOOLEAN, linked : BOOLEAN,
         url : Targets \cup {None}, seen : Times]
FreeSave ==
  [step |-> "free", id |-> None, live |-> FALSE, linked |-> FALSE, url |-> None, seen |-> 0]

File == [state : {"absent", "empty", "record", "garbled"}, url : Targets \cup {None}, seen : Times]
NoFile == [state |-> "absent", url |-> None, seen |-> 0]
EmptyFile == [state |-> "empty", url |-> None, seen |-> 0]
GarbledFile == [state |-> "garbled", url |-> None, seen |-> 0]

\* Type correctness of the sessions, the goroutines and the files.
TypeOK ==
  /\ now \in Times
  /\ session \in [Ids -> Session \cup {None}]
  /\ save \in [Saves -> Save]
  /\ deletes \in [Ids -> 0..MaxDeletes]
  /\ file \in [Ids -> File]
  /\ crashes \in 0..MaxCrashes
  /\ raced \subseteq Ids

\* NewSessionManager with an empty store.
Init ==
  /\ now = 0
  /\ session = [i \in Ids |-> None]
  /\ save = [v \in Saves |-> FreeSave]
  /\ deletes = [i \in Ids |-> 0]
  /\ file = [i \in Ids |-> NoFile]
  /\ crashes = 0
  /\ raced = {}

Tick ==
  /\ now < MaxTime
  /\ now' = now + 1
  /\ UNCHANGED <<session, save, deletes, file, crashes, raced>>

Pending(i) == {v \in Saves : save[v].step # "free" /\ save[v].id = i}

-----------------------------------------------------------------------------
\* RoutePacket, under the manager's lock.

\* The session's target is healthy: nothing is saved.
Follow(i) ==
  /\ session[i] # None /\ session[i].target # None
  /\ session' = [session EXCEPT ![i].seen = now]
  /\ UNCHANGED <<now, save, deletes, file, crashes, raced>>

\* No target is healthy: an existing session has been seen all the same.
RouteFails(i) ==
  /\ session[i] # None
  /\ session' = [session EXCEPT ![i].seen = now]
  /\ UNCHANGED <<now, save, deletes, file, crashes, raced>>

\* go store.SaveSession(session)
BeginSave(i, v) ==
  /\ save[v].step = "free"
  /\ save' = [save EXCEPT ![v] = [FreeSave EXCEPT !.step = "begun", !.id = i, !.live = TRUE]]
  /\ raced' = IF Pending(i) # {} \/ deletes[i] > 0 THEN raced \cup {i} ELSE raced

\* Mutant: only a new session is saved.
Retargeted_NotSaved(i, v) ==
  IF session[i] = None THEN BeginSave(i, v) ELSE UNCHANGED <<save, raced>>

Retargeted(i, v) == BeginSave(i, v)

\* A new session, or one whose target is gone or no longer healthy.  Health is asked
\* for twice, so that it may be given the same target again.
SelectTarget(i, t, v) ==
  /\ session' = [session EXCEPT ![i] = [target |-> t, url |-> t, seen |-> now]]
  /\ Retargeted(i, v)
  /\ UNCHANGED <<now, deletes, file, crashes>>

-----------------------------------------------------------------------------
\* Mutant: a session without a target is not looked at.
IsIdle_NoTarget(i) ==
  session[i] # None /\ session[i].target # None /\ session[i].seen + IdleTimeout < now

IsIdle(i) == session[i] # None /\ session[i].seen + IdleTimeout < now

\* cleanupExpiredSessions.  A save that has not read its session yet will read it
\* as it was last.
Cleanup ==
  LET expired == {i \in Ids : IsIdle(i)}
      \* the session a save still has to read fields of
      Reads(v) == save[v].live /\ save[v].id \in expired
  IN
  /\ expired # {}
  /\ \A i \in expired : deletes[i] < MaxDeletes
  /\ session' = [i \in Ids |-> IF i \in expired THEN None ELSE session[i]]
  /\ deletes' = [i \in Ids |-> IF i \in expired THEN deletes[i] + 1 ELSE deletes[i]]
  /\ save' = [v \in Saves |->
                IF ~Reads(v) THEN save[v]
                ELSE [save[v] EXCEPT
                        !.live = FALSE,
                        !.url = IF save[v].step = "begun" THEN session[save[v].id].url ELSE @,
                        !.seen = IF save[v].step \in {"begun", "urlread"}
                                 THEN session[save[v].id].seen ELSE @]]
  /\ UNCHANGED <<now, file, crashes, raced>>

-----------------------------------------------------------------------------
\* FileSessionStore.

\* json.Marshal reads TargetURL before LastSeen.
ReadURL(v) ==
  /\ save[v].step = "begun"
  /\ save' = [save EXCEPT ![v].step = "urlread",
                          ![v].url = IF save[v].live THEN session[save[v].id].url ELSE @]
  /\ UNCHANGED <<now, session, deletes, file, crashes, raced>>

ReadSeen(v) ==
  /\ save[v].step = "urlread"
  /\ save' = [save EXCEPT ![v].step = "marshalled",
                          ![v].seen = IF save[v].live THEN session[save[v].id].seen ELSE @]
  /\ UNCHANGED <<now, session, deletes, file, crashes, raced>>

\* os.WriteFile creates the file or empties it, and then writes.
OpenFile(v) ==
  /\ save[v].step = "marshalled"
  /\ save' = [save EXCEPT ![v].step = "opened", ![v].linked = TRUE]
  /\ file' = [file EXCEPT ![save[v].id] = EmptyFile]
  /\ UNCHANGED <<now, session, deletes, crashes, raced>>

\* What is in the file after a write from its start.  If another save has written
\* in between, the rest of a longer record may stay behind.
Written(i, v) ==
  {[state |-> "record", url |-> save[v].url, seen |-> save[v].seen]} \cup
  (IF file[i].state = "empty" THEN {} ELSE {GarbledFile})

WriteFile(v) ==
  /\ save[v].step = "opened"
  /\ IF save[v].linked
     THEN \E f \in Written(save[v].id, v) : file' = [file EXCEPT ![save[v].id] = f]
     ELSE UNCHANGED file
  /\ save' = [save EXCEPT ![v] = FreeSave]
  /\ UNCHANGED <<now, session, deletes, crashes, raced>>

\* os.Remove: a save that has the file open writes where nobody will read.
DeleteSession(i) ==
  /\ deletes[i] > 0
  /\ deletes' = [deletes EXCEPT ![i] = @ - 1]
  /\ file' = [file EXCEPT ![i] = NoFile]
  /\ save' = [v \in Saves |-> IF save[v].id = i THEN [save[v] EXCEPT !.linked = FALSE] ELSE save[v]]
  /\ UNCHANGED <<now, session, crashes, raced>>

-----------------------------------------------------------------------------
\* Mutant: whatever is stored is restored.
Loadable_AnyAge(i) == file[i].state = "record"

\* LoadSessions leaves out what is not JSON, loadPersistedSessions what is too old.
Loadable(i) == file[i].state = "record" /\ ~(file[i].seen + IdleTimeout < now)

\* The process dies, its goroutines with it, and is started again.
Restart ==
  /\ crashes < MaxCrashes
  /\ crashes' = crashes + 1
  /\ session' = [i \in Ids |->
       IF Loadable(i) THEN [target |-> None, url |-> file[i].url, seen |-> file[i].seen] ELSE None]
  /\ save' = [v \in Saves |-> FreeSave]
  /\ deletes' = [i \in Ids |-> 0]
  /\ raced' = {}
  /\ UNCHANGED <<now, file>>

SaveStep(v) == ReadURL(v) \/ ReadSeen(v) \/ OpenFile(v) \/ WriteFile(v)

Next ==
  \/ Tick
  \/ \E i \in Ids : Follow(i) \/ RouteFails(i) \/ DeleteSession(i)
  \/ \E i \in Ids, t \in Targets, v \in Saves : SelectTarget(i, t, v)
  \/ \E v \in Saves : SaveStep(v)
  \/ Cleanup
  \/ Restart

\* The ticker of startCleanup is never stopped, and goroutines get to run.
Fairness ==
  /\ WF_vars(Cleanup)
  /\ \A i \in Ids : WF_vars(DeleteSession(i))
  /\ \A v \in Saves : WF_vars(SaveStep(v))

Spec == Init /\ [][Next]_vars /\ Fairness

-----------------------------------------------------------------------------
\* Properties.

\* An expired session does not come back: a restart (loadPersistedSessions)
\* restores only sessions that were there when the process died, none with a later
\* LastSeen than it had, however late its saves and deletes ran.
NoneResurrected ==
  \A i \in Ids : Loadable(i) => session[i] # None /\ file[i].seen <= session[i].seen

\* A session whose saves and deletes did not overlap, and are over, is in its file
\* with the target it goes to now (RoutePacket, SaveSession).
StoredAtRest ==
  \A i \in Ids : session[i] # None /\ i \notin raced /\ Pending(i) = {} /\ deletes[i] = 0 =>
    file[i].state = "record" /\ file[i].url = session[i].url

\* A session without packets leaves the memory: cleanupExpiredSessions gets to it,
\* unless a packet comes in time or the process dies.
IdleSessionsEnd ==
  \A i \in Ids : (session[i] # None /\ session[i].seen + IdleTimeout < now)
                    ~> ~(session[i] # None /\ session[i].seen + IdleTimeout < now)
=============================================================================
