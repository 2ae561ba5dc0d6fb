------------------------- MODULE SessionStoreProofs -------------------------
(***************************************************************************)
(* Theorems about SessionStore, for every set of sessions, targets and     *)
(* goroutines, every idle timeout and every bound.                         *)
(***************************************************************************)
EXTENDS SessionStore, TLAPS

\* What is stored, or will be, of session i is no later than the session; and of a
\* session that has ended, too old to be restored.
Old(i, seen) ==
  IF session[i] = None THEN seen + IdleTimeout < now ELSE seen <= session[i].seen

FileOld(i) == file[i].state = "record" => file[i].url \in Targets /\ Old(i, file[i].seen)

\* A save reads from the session in the map, or has from one that was there.
SaveOld(v) ==
  save[v].step # "free" =>
    /\ save[v].id \in Ids
    /\ save[v].live => session[save[v].id] # None
    /\ save[v].step # "begun" \/ ~save[v].live => save[v].url \in Targets
    /\ save[v].step \in {"marshalled", "opened"} \/ ~save[v].live => Old(save[v].id, save[v].seen)

FilesOld == \A i \in Ids : FileOld(i)

SavesOld == \A v \in Saves : SaveOld(v)

SessionsPast == \A i \in Ids : session[i] # None => session[i].seen <= now

StoreInv == TypeOK /\ FilesOld /\ SavesOld /\ SessionsPast

-----------------------------------------------------------------------------
\* The values of the types.

LEMMA TimesAreNumbers == Times \subseteq Nat
  BY StoreConstants DEF Times

\* The files and the goroutine at rest have their types.
LEMMA RestingTyped ==
  FreeSave \in Save /\ NoFile \in File /\ EmptyFile \in File /\ GarbledFile \in File
  <1>1. 0 \in Times
    BY StoreConstants DEF Times
  <1> QED BY <1>1 DEF FreeSave, Save, Steps, NoFile, EmptyFile, GarbledFile, File

\* A session that was just made.
LEMMA SessionTyped ==
  ASSUME NEW t \in Targets \cup {None}, NEW u \in Targets, NEW n \in Times
  PROVE  [target |-> t, url |-> u, seen |-> n] \in Session
  BY DEF Session

\* What the type says of a session, a save and a file.
LEMMA Fields ==
  ASSUME TypeOK
  PROVE  /\ \A i \in Ids : session[i] # None =>
              /\ session[i] \in Session /\ session[i].target \in Targets \cup {None}
              /\ session[i].url \in Targets /\ session[i].seen \in Times
         /\ \A v \in Saves :
              /\ save[v] \in Save /\ save[v].step \in Steps /\ save[v].id \in Ids \cup {None}
              /\ save[v].live \in BOOLEAN /\ save[v].linked \in BOOLEAN
              /\ save[v].url \in Targets \cup {None} /\ save[v].seen \in Times
         /\ \A i \in Ids :
              /\ file[i] \in File /\ file[i].url \in Targets \cup {None} /\ file[i].seen \in Times
  <1>1. \A i \in Ids : session[i] # None => session[i] \in Session
    BY DEF TypeOK
  <1>2. \A s \in Session : s.target \in Targets \cup {None} /\ s.url \in Targets /\ s.seen \in Times
    BY DEF Session
  <1>3. \A v \in Saves : save[v] \in Save
    BY DEF TypeOK
  <1>4. \A s \in Save :
          /\ s.step \in Steps /\ s.id \in Ids \cup {None} /\ s.live \in BOOLEAN
          /\ s.linked \in BOOLEAN /\ s.url \in Targets \cup {None} /\ s.seen \in Times
    BY DEF Save
  <1>5. \A i \in Ids : file[i] \in File
    BY DEF TypeOK
  <1>6. \A f \in File : f.url \in Targets \cup {None} /\ f.seen \in Times
    BY DEF File
  <1> QED BY <1>1, <1>2, <1>3, <1>4, <1>5, <1>6

-----------------------------------------------------------------------------
\* What may happen to sessions while the process lives: they are seen now, or they
\* end because they are idle.
SessionsMove ==
  /\ now' \in Times /\ now <= now'
  /\ \A i \in Ids :
       \/ session'[i] = session[i]
       \/ session'[i] # None /\ session'[i].seen = now
       \/ session'[i] = None /\ session[i] # None /\ session[i].seen + IdleTimeout < now

\* None of that makes an old image recent.
LEMMA OldStays ==
  ASSUME TypeOK, SessionsPast, SessionsMove, NEW i \in Ids, NEW seen \in Times, Old(i, seen)
  PROVE  Old(i, seen)'
  <1>1. now \in Nat /\ now' \in Nat /\ now <= now' /\ seen \in Nat /\ IdleTimeout \in Nat
    BY TimesAreNumbers, StoreConstants DEF TypeOK, SessionsMove
  <1>2. session[i] # None => session[i].seen \in Nat /\ session[i].seen <= now
    BY Zenon, Fields, TimesAreNumbers DEF SessionsPast
  <1>3. CASE session'[i] = session[i]
    BY <1>1, <1>2, <1>3 DEF Old
  <1>4. CASE session'[i] # None /\ session'[i].seen = now
    BY <1>1, <1>2, <1>4 DEF Old
  <1>5. CASE session'[i] = None /\ session[i] # None /\ session[i].seen + IdleTimeout < now
    BY <1>1, <1>2, <1>5 DEF Old
  <1> QED BY <1>3, <1>4, <1>5 DEF SessionsMove

LEMMA FileStays ==
  ASSUME StoreInv, SessionsMove, NEW i \in Ids, file'[i] = file[i]
  PROVE  FileOld(i)'
  <1>1. FileOld(i) /\ file[i].seen \in Times
    BY Fields DEF StoreInv, FilesOld
  <1>2. Old(i, file[i].seen) => Old(i, file[i].seen)'
    BY <1>1, OldStays DEF StoreInv, FilesOld
  <1> QED BY <1>1, <1>2 DEF FileOld, Old

LEMMA SaveStays ==
  ASSUME StoreInv, SessionsMove, NEW v \in Saves, save'[v] = save[v],
         save[v].live /\ session[save[v].id] # None => session'[save[v].id] # None
  PROVE  SaveOld(v)'
  <1>1. SaveOld(v) /\ save[v].seen \in Times
    BY Fields DEF StoreInv, SavesOld
  <1>2. save[v].id \in Ids /\ Old(save[v].id, save[v].seen) => Old(save[v].id, save[v].seen)'
    BY <1>1, OldStays DEF StoreInv
  <1> QED BY <1>1, <1>2 DEF SaveOld, Old

-----------------------------------------------------------------------------
\* Time, and packets that change nothing but LastSeen.

LEMMA TickStep == StoreInv /\ Tick => StoreInv'
  <1> SUFFICES ASSUME StoreInv, Tick PROVE StoreInv'
    OBVIOUS
  <1>1. now \in Nat /\ now' \in Times /\ now <= now'
    BY TimesAreNumbers, StoreConstants DEF StoreInv, TypeOK, Tick, Times
  <1>2. TypeOK'
    BY <1>1 DEF StoreInv, TypeOK, Tick
  <1>3. SessionsMove
    BY <1>1 DEF SessionsMove, Tick
  <1>u. session' = session /\ save' = save /\ file' = file
    BY DEF Tick
  <1>4. FilesOld'
    BY <1>3, <1>u, FileStays DEF FilesOld
  <1>6. SavesOld'
    <2> SUFFICES ASSUME NEW v \in Saves PROVE SaveOld(v)'
      BY DEF SavesOld
    <2> QED BY <1>3, <1>u, SaveStays
  <1>5. SessionsPast'
    <2>1. \A i \in Ids : session[i] # None => session[i].seen \in Nat /\ session[i].seen <= now
      BY Zenon, Fields, TimesAreNumbers DEF StoreInv, SessionsPast
    <2>2. now' \in Nat
      BY <1>1, TimesAreNumbers
    <2> QED BY <1>1, <1>u, <2>1, <2>2 DEF SessionsPast
  <1> QED BY <1>2, <1>4, <1>5, <1>6 DEF StoreInv

LEMMA SeenStep ==
  ASSUME StoreInv, NEW i \in Ids, session[i] # None,
         session' = [session EXCEPT ![i].seen = now],
         UNCHANGED <<now, save, deletes, file, crashes, raced>>
  PROVE  StoreInv'
  <1>1. now \in Nat /\ now' \in Times /\ now <= now' /\ now' = now
    BY TimesAreNumbers DEF StoreInv, TypeOK
  <1>2. session[i] \in Session
    BY Fields DEF StoreInv
  <1>3. [session[i] EXCEPT !.seen = now] \in Session /\ [session[i] EXCEPT !.seen = now].seen = now
    BY <1>1, <1>2 DEF Session
  <1>4. session' = [session EXCEPT ![i] = [session[i] EXCEPT !.seen = now]]
    OBVIOUS
  <1>5. session'[i] # None /\ session'[i].seen = now /\ \A j \in Ids : j # i => session'[j] = session[j]
    BY <1>3, <1>4, StoreConstants DEF StoreInv, TypeOK
  <1>6. TypeOK'
    <2>1. session' \in [Ids -> Session \cup {None}]
      BY <1>3, <1>4 DEF StoreInv, TypeOK
    <2> QED BY <2>1, <1>1 DEF StoreInv, TypeOK
  <1>7. SessionsMove
    BY <1>1, <1>5 DEF SessionsMove
  <1>8. FilesOld'
    BY <1>7, FileStays DEF FilesOld
  <1>9. SavesOld'
    <2> SUFFICES ASSUME NEW v \in Saves PROVE SaveOld(v)'
      BY DEF SavesOld
    <2>1. save[v].id \in Ids => (session[save[v].id] # None => session'[save[v].id] # None)
      BY <1>5
    <2>2. save[v].step # "free" => save[v].id \in Ids
      BY DEF StoreInv, SavesOld, SaveOld
    <2>3. CASE save[v].step = "free"
      BY <2>3 DEF SaveOld
    <2> QED BY <1>7, <2>1, <2>2, <2>3, SaveStays
  <1>10. SessionsPast'
    BY <1>1, <1>5 DEF StoreInv, SessionsPast
  <1> QED BY <1>6, <1>8, <1>9, <1>10 DEF StoreInv

\* A session that is made or given another target is seen, and its save reads it
\* from the map.
LEMMA SelectTargetStep ==
  ASSUME StoreInv, NEW i \in Ids, NEW t \in Targets, NEW v \in Saves, SelectTarget(i, t, v)
  PROVE  StoreInv'
  <1> DEFINE made == [target |-> t, url |-> t, seen |-> now]
             begun == [FreeSave EXCEPT !.step = "begun", !.id = i, !.live = TRUE]
  <1>1. now \in Nat /\ now' \in Times /\ now <= now' /\ now' = now
    BY TimesAreNumbers DEF StoreInv, TypeOK, SelectTarget
  <1>2. made \in Session /\ made.seen = now
    BY <1>1, SessionTyped
  <1>3. /\ session' = [session EXCEPT ![i] = made] /\ save' = [save EXCEPT ![v] = begun]
        /\ file' = file /\ deletes' = deletes /\ crashes' = crashes
        /\ raced' \in {raced, raced \cup {i}}
    BY DEF SelectTarget, Retargeted, BeginSave
  <1>4. session'[i] # None /\ session'[i].seen = now /\ \A j \in Ids : j # i => session'[j] = session[j]
    BY <1>2, <1>3, StoreConstants DEF StoreInv, TypeOK
  <1>5. begun \in Save /\ begun.step = "begun" /\ begun.id = i /\ begun.live
    BY Zenon, RestingTyped DEF FreeSave, Save, Steps
  <1>6. TypeOK'
    <2>1. session' \in [Ids -> Session \cup {None}]
      BY <1>2, <1>3 DEF StoreInv, TypeOK
    <2>2. save' \in [Saves -> Save]
      BY <1>3, <1>5 DEF StoreInv, TypeOK
    <2> QED BY <2>1, <2>2, <1>1, <1>3 DEF StoreInv, TypeOK
  <1>7. SessionsMove
    BY <1>1, <1>4 DEF SessionsMove
  <1>8. FilesOld'
    BY <1>3, <1>7, FileStays DEF FilesOld
  <1>9. SavesOld'
    <2> SUFFICES ASSUME NEW w \in Saves PROVE SaveOld(w)'
      BY DEF SavesOld
    <2>1. CASE w = v
      <3>1. save'[w] = begun
        BY <1>3, <2>1 DEF StoreInv, TypeOK
      <3> HIDE DEF begun
      <3> QED BY <1>4, <1>5, <3>1 DEF SaveOld
    <2>2. CASE w # v
      <3>1. save'[w] = save[w]
        BY <1>3, <2>2 DEF StoreInv, TypeOK
      <3>2. save[w].step # "free" => save[w].id \in Ids
        BY DEF StoreInv, SavesOld, SaveOld
      <3>3. CASE save[w].step = "free"
        BY <3>1, <3>3 DEF SaveOld
      <3> QED BY <1>4, <1>7, <3>1, <3>2, <3>3, SaveStays
    <2> QED BY <2>1, <2>2
  <1>10. SessionsPast'
    BY <1>1, <1>4 DEF StoreInv, SessionsPast
  <1> QED BY <1>6, <1>8, <1>9, <1>10 DEF StoreInv

-----------------------------------------------------------------------------
\* cleanupExpiredSessions: what a save has still to read of a session that ends is
\* too old already.
LEMMA CleanupStep == StoreInv /\ Cleanup => StoreInv'
  <1> SUFFICES ASSUME StoreInv, Cleanup PROVE StoreInv'
    OBVIOUS
  <1> DEFINE expired == {i \in Ids : IsIdle(i)}
             last(v) == [save[v] EXCEPT
                           !.live = FALSE,
                           !.url = IF save[v].step = "begun" THEN session[save[v].id].url ELSE @,
                           !.seen = IF save[v].step \in {"begun", "urlread"}
                                    THEN session[save[v].id].seen ELSE @]
  <1>n. now' = now
    BY Zenon DEF Cleanup
  <1>1. now \in Nat /\ now' \in Times /\ now <= now' /\ now' = now
    BY <1>n, TimesAreNumbers DEF StoreInv, TypeOK
  <1>2. /\ session' = [i \in Ids |-> IF i \in expired THEN None ELSE session[i]]
        /\ deletes' = [i \in Ids |-> IF i \in expired THEN deletes[i] + 1 ELSE deletes[i]]
        /\ \A i \in expired : deletes[i] < MaxDeletes
        /\ save' = [v \in Saves |->
                      IF ~(save[v].live /\ save[v].id \in expired) THEN save[v] ELSE last(v)]
        /\ file' = file /\ crashes' = crashes /\ raced' = raced
    BY Zenon DEF Cleanup
  <1>3. \A i \in expired : /\ i \in Ids /\ session[i] # None /\ session[i].seen + IdleTimeout < now
                            /\ session[i].url \in Targets /\ session[i].seen \in Times
    <2> SUFFICES ASSUME NEW i \in Ids, IsIdle(i)
                 PROVE  /\ session[i] # None /\ session[i].seen + IdleTimeout < now
                        /\ session[i].url \in Targets /\ session[i].seen \in Times
      OBVIOUS
    <2> QED BY Fields DEF IsIdle, StoreInv
  <1>4. SessionsMove
    BY Zenon, <1>1, <1>2, <1>3 DEF SessionsMove
  <1>5. ASSUME NEW v \in Saves, save[v].live, save[v].id \in expired
        PROVE  /\ last(v) \in Save /\ last(v).id = save[v].id /\ ~last(v).live
               /\ last(v).step = save[v].step
               /\ last(v).url = IF save[v].step = "begun" THEN session[save[v].id].url ELSE save[v].url
               /\ last(v).seen = IF save[v].step \in {"begun", "urlread"}
                                 THEN session[save[v].id].seen ELSE save[v].seen
    <2>1. save[v] \in Save
      BY Fields DEF StoreInv
    <2> QED BY Zenon, <1>3, <1>5, <2>1 DEF Save
  <1>6. TypeOK'
    <2>1. session' \in [Ids -> Session \cup {None}]
      BY Zenon, <1>2 DEF StoreInv, TypeOK
    <2>2. save' \in [Saves -> Save]
      <3> HIDE DEF last
      <3> QED BY <1>2, <1>5 DEF StoreInv, TypeOK
    <2>3. deletes' \in [Ids -> 0..MaxDeletes]
      <3> HIDE DEF expired
      <3>1. deletes \in [Ids -> 0..MaxDeletes]
        BY DEF StoreInv, TypeOK
      <3>2. \A n \in 0..MaxDeletes : n < MaxDeletes => n + 1 \in 0..MaxDeletes
        BY StoreConstants
      <3> QED BY Zenon, <1>2, <3>1, <3>2
    <2> QED BY Zenon, <2>1, <2>2, <2>3, <1>1, <1>2 DEF StoreInv, TypeOK
  <1>7. FilesOld'
    BY Zenon, <1>2, <1>4, FileStays DEF FilesOld
  <1>8. SavesOld'
    <2> SUFFICES ASSUME NEW v \in Saves PROVE SaveOld(v)'
      BY DEF SavesOld
    <2>1. CASE ~(save[v].live /\ save[v].id \in expired)
      <3>1. save'[v] = save[v]
        BY Zenon, <1>2, <2>1
      <3>2. save[v].step # "free" => save[v].id \in Ids
        BY DEF StoreInv, SavesOld, SaveOld
      <3>3. CASE save[v].step = "free"
        BY <3>1, <3>3 DEF SaveOld
      <3> HIDE DEF expired
      <3> QED BY Zenon, <1>2, <1>4, <2>1, <3>1, <3>2, <3>3, SaveStays
    <2>2. CASE save[v].live /\ save[v].id \in expired
      <3>1. save'[v] = last(v)
        BY Zenon, <1>2, <2>2
      <3>2. SaveOld(v)
        BY DEF StoreInv, SavesOld
      <3>3. save[v].seen \in Nat /\ session[save[v].id].seen \in Nat /\ IdleTimeout \in Nat
        BY Zenon, <1>3, <2>2, Fields, TimesAreNumbers, StoreConstants DEF StoreInv
      <3>s. save[v].step \in Steps
        BY Fields DEF StoreInv
      <3>4. session'[save[v].id] = None
        BY Zenon, <1>2, <1>3, <2>2
      <3> HIDE DEF last, expired
      <3>5. last(v).step # "free" => last(v).seen + IdleTimeout < now
        BY <1>1, <1>3, <1>5, <2>2, <3>2, <3>3, <3>s DEF SaveOld, Old, Steps
      <3>6. last(v).step # "free" => last(v).url \in Targets
        BY <1>3, <1>5, <2>2, <3>2 DEF SaveOld
      <3> QED BY <1>1, <1>3, <1>5, <2>2, <3>1, <3>4, <3>5, <3>6 DEF SaveOld, Old
    <2> QED BY <2>1, <2>2
  <1>9. SessionsPast'
    BY Zenon, <1>1, <1>2 DEF StoreInv, SessionsPast
  <1> QED BY <1>6, <1>7, <1>8, <1>9 DEF StoreInv

-----------------------------------------------------------------------------
\* The goroutines that save and delete, which leave the sessions alone.

\* Steps that leave the sessions and the time alone move no session.
LEMMA SessionsStay ==
  ASSUME StoreInv, UNCHANGED <<now, session>>
  PROVE  SessionsMove /\ SessionsPast'
  <1>1. now \in Nat /\ now \in Times
    BY TimesAreNumbers DEF StoreInv, TypeOK
  <1> QED BY <1>1 DEF SessionsMove, StoreInv, SessionsPast

\* A goroutine that changes its own record only, to one that is old again.
LEMMA OneSaveStep ==
  ASSUME StoreInv, UNCHANGED <<now, session>>, NEW v \in Saves, NEW s \in Save,
         save' = [save EXCEPT ![v] = s], SaveOld(v)'
  PROVE  save' \in [Saves -> Save] /\ SavesOld'
  <1>1. save' \in [Saves -> Save]
    BY DEF StoreInv, TypeOK
  <1>2. ASSUME NEW w \in Saves PROVE SaveOld(w)'
    <2>1. CASE w = v
      BY <2>1
    <2>2. CASE w # v
      <3>1. save'[w] = save[w]
        BY <2>2 DEF StoreInv, TypeOK
      <3> QED BY <3>1, SessionsStay, SaveStays
    <2> QED BY <2>1, <2>2
  <1> QED BY <1>1, <1>2 DEF SavesOld

LEMMA ReadStep ==
  ASSUME StoreInv, NEW v \in Saves, ReadURL(v) \/ ReadSeen(v)
  PROVE  StoreInv'
  <1>1. save[v] \in Save /\ save[v].seen \in Times /\ save[v].url \in Targets \cup {None}
    BY Fields DEF StoreInv
  <1>2. SaveOld(v) /\ save[v].step # "free" /\ save[v].id \in Ids
    BY DEF StoreInv, SavesOld, SaveOld, ReadURL, ReadSeen
  <1>3. save[v].live => /\ session[save[v].id] # None /\ session[save[v].id].url \in Targets
                        /\ session[save[v].id].seen \in Nat /\ session[save[v].id].seen \in Times
    BY Zenon, <1>2, Fields, TimesAreNumbers DEF SaveOld, StoreInv
  <1>u. UNCHANGED <<now, session, deletes, file, crashes, raced>>
    BY Zenon DEF ReadURL, ReadSeen
  <1>4. \E s \in Save :
          /\ save' = [save EXCEPT ![v] = s]
          /\ s.step \in {"urlread", "marshalled"} /\ s.id = save[v].id /\ s.live = save[v].live
          /\ s.url \in Targets
          /\ s.step = "marshalled" \/ ~s.live => Old(s.id, s.seen)
    <2>1. CASE ReadURL(v)
      <3> DEFINE s == [save[v] EXCEPT !.step = "urlread",
                                      !.url = IF save[v].live THEN session[save[v].id].url ELSE @]
      <3>1. s \in Save /\ s.step = "urlread" /\ s.id = save[v].id /\ s.live = save[v].live
            /\ s.url = (IF save[v].live THEN session[save[v].id].url ELSE save[v].url)
            /\ s.seen = save[v].seen
        BY Zenon, <1>1, <1>3 DEF Save, Steps
      <3>2. save' = [save EXCEPT ![v] = s]
        BY Zenon, <2>1 DEF ReadURL
      <3> HIDE DEF s
      <3> QED BY Zenon, <1>2, <1>3, <3>1, <3>2 DEF SaveOld
    <2>2. CASE ReadSeen(v)
      <3> DEFINE s == [save[v] EXCEPT !.step = "marshalled",
                                      !.seen = IF save[v].live THEN session[save[v].id].seen ELSE @]
      <3>1. s \in Save /\ s.step = "marshalled" /\ s.id = save[v].id /\ s.live = save[v].live
            /\ s.url = save[v].url
            /\ s.seen = (IF save[v].live THEN session[save[v].id].seen ELSE save[v].seen)
        BY Zenon, <1>1, <1>3 DEF Save, Steps
      <3>2. save' = [save EXCEPT ![v] = s]
        BY Zenon, <2>2 DEF ReadSeen
      <3>3. save[v].step = "urlread"
        BY <2>2 DEF ReadSeen
      <3> HIDE DEF s
      <3>4. Old(s.id, s.seen)
        BY <1>2, <1>3, <3>1 DEF SaveOld, Old
      <3> QED BY Zenon, <1>2, <3>1, <3>2, <3>3, <3>4 DEF SaveOld
    <2> QED BY <2>1, <2>2
  <1>5. PICK s \in Save :
          /\ save' = [save EXCEPT ![v] = s]
          /\ s.step \in {"urlread", "marshalled"} /\ s.id = save[v].id /\ s.live = save[v].live
          /\ s.url \in Targets
          /\ s.step = "marshalled" \/ ~s.live => Old(s.id, s.seen)
    BY Zenon, <1>4
  <1>6. save'[v] = s
    BY <1>5 DEF StoreInv, TypeOK
  <1>7. SaveOld(v)'
    BY SMTT(30), <1>2, <1>3, <1>5, <1>6, <1>u DEF SaveOld, Old
  <1>8. save' \in [Saves -> Save] /\ SavesOld'
    BY Zenon, <1>5, <1>7, <1>u, OneSaveStep
  <1>9. FilesOld'
    BY <1>u, SessionsStay, FileStays DEF FilesOld
  <1>10. TypeOK'
    BY <1>8, <1>u DEF StoreInv, TypeOK
  <1> QED BY <1>8, <1>9, <1>10, <1>u, SessionsStay DEF StoreInv

LEMMA OpenFileStep ==
  ASSUME StoreInv, NEW v \in Saves, OpenFile(v)
  PROVE  StoreInv'
  <1> DEFINE s == [save[v] EXCEPT !.step = "opened", !.linked = TRUE]
             i == save[v].id
  <1>1. save[v] \in Save
    BY Fields DEF StoreInv
  <1>2. SaveOld(v) /\ save[v].step = "marshalled" /\ i \in Ids
    BY DEF StoreInv, SavesOld, SaveOld, OpenFile
  <1>3. /\ s \in Save /\ s.step = "opened" /\ s.id = i /\ s.live = save[v].live
        /\ s.url = save[v].url /\ s.seen = save[v].seen
    BY Zenon, <1>1 DEF Save, Steps
  <1>u. /\ UNCHANGED <<now, session, deletes, crashes, raced>>
        /\ save' = [save EXCEPT ![v] = s] /\ file' = [file EXCEPT ![i] = EmptyFile]
    BY Zenon DEF OpenFile
  <1>6. save'[v] = s
    BY <1>u DEF StoreInv, TypeOK
  <1> HIDE DEF s
  <1>7. SaveOld(v)'
    BY <1>2, <1>3, <1>6, <1>u DEF SaveOld, Old
  <1>8. save' \in [Saves -> Save] /\ SavesOld'
    BY Zenon, <1>3, <1>7, <1>u, OneSaveStep
  <1> HIDE DEF i
  <1>9. FilesOld'
    <2> SUFFICES ASSUME NEW j \in Ids PROVE FileOld(j)'
      BY DEF FilesOld
    <2>1. CASE j = i
      BY <1>2, <1>u, <2>1 DEF FileOld, EmptyFile, StoreInv, TypeOK
    <2>2. CASE j # i
      <3>1. file'[j] = file[j]
        BY <1>u, <2>2 DEF StoreInv, TypeOK
      <3> QED BY <1>u, <3>1, SessionsStay, FileStays
    <2> QED BY <2>1, <2>2
  <1>10. TypeOK'
    BY <1>2, <1>8, <1>u, RestingTyped DEF StoreInv, TypeOK
  <1> QED BY <1>8, <1>9, <1>10, <1>u, SessionsStay DEF StoreInv

LEMMA WriteFileStep ==
  ASSUME StoreInv, NEW v \in Saves, WriteFile(v)
  PROVE  StoreInv'
  <1> DEFINE record == [state |-> "record", url |-> save[v].url, seen |-> save[v].seen]
  <1>1. save[v].url \in Targets \cup {None} /\ save[v].seen \in Times
    BY Fields DEF StoreInv
  <1>i. SaveOld(v) /\ save[v].step = "opened" /\ save[v].id \in Ids
    BY SMTT(30) DEF StoreInv, SavesOld, SaveOld, WriteFile
  <1>2. PICK i \in Ids : i = save[v].id
    BY <1>i
  <1>3. save[v].url \in Targets /\ Old(i, save[v].seen)
    BY <1>i, <1>2 DEF SaveOld
  <1>u. /\ UNCHANGED <<now, session, deletes, crashes, raced>>
        /\ save' = [save EXCEPT ![v] = FreeSave]
    BY DEF WriteFile
  <1>4. record \in File /\ record.state = "record" /\ record.url = save[v].url
        /\ record.seen = save[v].seen
    BY <1>1 DEF File
  <1>5. file' = file \/ \E f \in {record, GarbledFile} : file' = [file EXCEPT ![i] = f]
    BY <1>2 DEF WriteFile, Written
  <1> HIDE DEF record
  <1>6. ASSUME NEW f \in {record, GarbledFile}, file' = [file EXCEPT ![i] = f]
        PROVE  FilesOld' /\ file' \in [Ids -> File]
    <2>1. f \in File
      BY <1>4, RestingTyped
    <2>2. file' \in [Ids -> File]
      BY <1>6, <2>1 DEF StoreInv, TypeOK
    <2>3. file'[i] = f
      BY <1>2, <1>6 DEF StoreInv, TypeOK
    <2>4. FileOld(i)'
      <3>1. GarbledFile.state # "record"
        BY DEF GarbledFile
      <3> QED BY <1>3, <1>4, <1>6, <1>u, <2>3, <3>1 DEF FileOld, Old
    <2>5. ASSUME NEW j \in Ids, j # i PROVE FileOld(j)'
      <3>1. file'[j] = file[j]
        BY <1>6, <2>5 DEF StoreInv, TypeOK
      <3> QED BY <1>u, <3>1, SessionsStay, FileStays
    <2> QED BY <2>2, <2>4, <2>5 DEF FilesOld
  <1>7. ASSUME file' = file PROVE FilesOld' /\ file' \in [Ids -> File]
    BY <1>7, <1>u, SessionsStay, FileStays DEF FilesOld, StoreInv, TypeOK
  <1>8. save'[v] = FreeSave
    BY <1>u DEF StoreInv, TypeOK
  <1>9. SaveOld(v)'
    BY SMTT(30), <1>8 DEF SaveOld, FreeSave
  <1>10. save' \in [Saves -> Save] /\ SavesOld'
    BY Zenon, <1>9, <1>u, RestingTyped, OneSaveStep
  <1>11. FilesOld' /\ file' \in [Ids -> File]
    BY <1>5, <1>6, <1>7
  <1>12. TypeOK'
    BY <1>10, <1>11, <1>u DEF StoreInv, TypeOK
  <1> QED BY <1>10, <1>11, <1>12, <1>u, SessionsStay DEF StoreInv

LEMMA DeleteSessionStep ==
  ASSUME StoreInv, NEW i \in Ids, DeleteSession(i)
  PROVE  StoreInv'
  <1>u. /\ UNCHANGED <<now, session, crashes, raced>>
        /\ deletes[i] > 0 /\ deletes' = [deletes EXCEPT ![i] = @ - 1]
        /\ file' = [file EXCEPT ![i] = NoFile]
        /\ save' = [v \in Saves |->
                      IF save[v].id = i THEN [save[v] EXCEPT !.linked = FALSE] ELSE save[v]]
    BY DEF DeleteSession
  <1>1. ASSUME NEW v \in Saves
        PROVE  /\ save'[v] \in Save /\ save'[v].step = save[v].step /\ save'[v].id = save[v].id
               /\ save'[v].live = save[v].live /\ save'[v].url = save[v].url
               /\ save'[v].seen = save[v].seen
    <2>1. save[v] \in Save
      BY Fields DEF StoreInv
    <2>2. /\ [save[v] EXCEPT !.linked = FALSE] \in Save
          /\ [save[v] EXCEPT !.linked = FALSE].step = save[v].step
          /\ [save[v] EXCEPT !.linked = FALSE].id = save[v].id
          /\ [save[v] EXCEPT !.linked = FALSE].live = save[v].live
          /\ [save[v] EXCEPT !.linked = FALSE].url = save[v].url
          /\ [save[v] EXCEPT !.linked = FALSE].seen = save[v].seen
      BY Zenon, <2>1 DEF Save
    <2>3. save'[v] = IF save[v].id = i THEN [save[v] EXCEPT !.linked = FALSE] ELSE save[v]
      BY <1>u
    <2> QED BY <2>1, <2>2, <2>3
  <1>2. SavesOld'
    <2> SUFFICES ASSUME NEW v \in Saves PROVE SaveOld(v)'
      BY DEF SavesOld
    <2>1. SaveOld(v)
      BY DEF StoreInv, SavesOld
    <2> QED BY <1>1, <1>u, <2>1 DEF SaveOld, Old
  <1>3. FilesOld'
    <2> SUFFICES ASSUME NEW j \in Ids PROVE FileOld(j)'
      BY DEF FilesOld
    <2>1. CASE j = i
      BY <1>u, <2>1 DEF FileOld, NoFile, StoreInv, TypeOK
    <2>2. CASE j # i
      <3>1. file'[j] = file[j]
        BY <1>u, <2>2 DEF StoreInv, TypeOK
      <3> QED BY <1>u, <3>1, SessionsStay, FileStays
    <2> QED BY <2>1, <2>2
  <1>4. TypeOK'
    <2>1. save' \in [Saves -> Save]
      BY <1>1, <1>u
    <2>2. file' \in [Ids -> File]
      BY <1>u, RestingTyped DEF StoreInv, TypeOK
    <2>3. deletes' \in [Ids -> 0..MaxDeletes]
      <3>1. deletes \in [Ids -> 0..MaxDeletes]
        BY DEF StoreInv, TypeOK
      <3>2. \A n \in 0..MaxDeletes : n > 0 => n - 1 \in 0..MaxDeletes
        BY StoreConstants
      <3> QED BY <1>u, <3>1, <3>2
    <2> QED BY <1>u, <2>1, <2>2, <2>3 DEF StoreInv, TypeOK
  <1> QED BY <1>2, <1>3, <1>4, <1>u, SessionsStay DEF StoreInv

-----------------------------------------------------------------------------
\* A restart brings back what is in the files and not too old, and nothing else.
LEMMA RestartStep == StoreInv /\ Restart => StoreInv'
  <1> SUFFICES ASSUME StoreInv, Restart PROVE StoreInv'
    OBVIOUS
  <1>u. /\ crashes < MaxCrashes /\ crashes' = crashes + 1
        /\ save' = [v \in Saves |-> FreeSave] /\ deletes' = [i \in Ids |-> 0] /\ raced' = {}
        /\ now' = now /\ file' = file
    BY DEF Restart
  <1>1. ASSUME NEW i \in Ids
        PROVE  session'[i] = IF Loadable(i)
                             THEN [target |-> None, url |-> file[i].url, seen |-> file[i].seen]
                             ELSE None
    BY DEF Restart
  <1>2. ASSUME NEW i \in Ids, Loadable(i)
        PROVE  /\ session'[i] \in Session /\ session'[i] # None
               /\ session'[i].seen = file[i].seen /\ session'[i].seen <= now
    <2>1. file[i].url \in Targets /\ Old(i, file[i].seen)
      BY <1>2 DEF Loadable, StoreInv, FilesOld, FileOld
    <2>2. file[i].seen \in Times /\ file[i].seen \in Nat /\ now \in Nat /\ IdleTimeout \in Nat
      BY Zenon, Fields, TimesAreNumbers, StoreConstants DEF StoreInv, TypeOK
    <2>3. session[i] # None => session[i].seen \in Nat /\ session[i].seen <= now
      BY Zenon, Fields, TimesAreNumbers DEF StoreInv, SessionsPast
    <2>4. file[i].seen <= now
      BY <2>1, <2>2, <2>3 DEF Old
    <2>5. session'[i] \in Session /\ session'[i].seen = file[i].seen
      <3> DEFINE r == [target |-> None, url |-> file[i].url, seen |-> file[i].seen]
      <3>1. r \in Session /\ r.seen = file[i].seen
        BY <2>1, <2>2, SessionTyped
      <3>2. session'[i] = r
        BY <1>1, <1>2
      <3> HIDE DEF r
      <3> QED BY <3>1, <3>2
    <2> QED BY <2>4, <2>5, StoreConstants
  <1>3. SessionsPast'
    BY Zenon, <1>1, <1>2, <1>u DEF SessionsPast
  <1>4. SavesOld'
    BY <1>u DEF SavesOld, SaveOld, FreeSave
  <1>5. FilesOld'
    <2> SUFFICES ASSUME NEW i \in Ids, file[i].state = "record"
                 PROVE  /\ file[i].url \in Targets
                        /\ IF session'[i] = None THEN file[i].seen + IdleTimeout < now
                                                ELSE file[i].seen <= session'[i].seen
      BY <1>u DEF FilesOld, FileOld, Old
    <2>1. file[i].url \in Targets
      BY DEF StoreInv, FilesOld, FileOld
    <2>2. file[i].seen \in Nat
      BY Zenon, Fields, TimesAreNumbers DEF StoreInv
    <2>3. CASE Loadable(i)
      <3>1. session'[i] # None /\ session'[i].seen = file[i].seen
        BY Zenon, <1>2, <2>3
      <3> QED BY <2>1, <2>2, <3>1
    <2>4. CASE ~Loadable(i)
      <3>1. session'[i] = None
        BY Zenon, <1>1, <2>4
      <3>2. file[i].seen + IdleTimeout < now
        BY Zenon, <2>4 DEF Loadable
      <3> QED BY <2>1, <3>1, <3>2
    <2> QED BY <2>1, <2>3, <2>4
  <1>6. TypeOK'
    <2>1. session' \in [Ids -> Session \cup {None}]
      <3>1. \A i \in Ids : session'[i] \in Session \cup {None}
        BY Zenon, <1>1, <1>2
      <3>2. session' = [i \in Ids |-> session'[i]]
        BY DEF Restart
      <3> QED BY <3>1, <3>2
    <2>2. save' \in [Saves -> Save] /\ deletes' \in [Ids -> 0..MaxDeletes]
      BY <1>u, RestingTyped, StoreConstants
    <2>3. crashes' \in 0..MaxCrashes
      BY <1>u, StoreConstants DEF StoreInv, TypeOK
    <2> QED BY <1>u, <2>1, <2>2, <2>3 DEF StoreInv, TypeOK
  <1> QED BY <1>3, <1>4, <1>5, <1>6 DEF StoreInv

-----------------------------------------------------------------------------
\* The invariant holds at the start and is kept by every step.

LEMMA InitStored == Init => StoreInv
  <1> SUFFICES ASSUME Init PROVE StoreInv
    OBVIOUS
  <1>1. TypeOK
    <2>1. now \in Times /\ deletes \in [Ids -> 0..MaxDeletes] /\ crashes \in 0..MaxCrashes
      BY StoreConstants DEF Init, Times
    <2> QED BY <2>1, RestingTyped DEF Init, TypeOK
  <1> QED BY <1>1 DEF Init, StoreInv, FilesOld, FileOld, NoFile, SavesOld, SaveOld, FreeSave,
                      SessionsPast

LEMMA StoreStep == StoreInv /\ [Next]_vars => StoreInv'
  <1> SUFFICES ASSUME StoreInv, [Next]_vars PROVE StoreInv'
    OBVIOUS
  <1>1. CASE Tick \/ Cleanup \/ Restart
    BY <1>1, TickStep, CleanupStep, RestartStep
  <1>2. ASSUME NEW i \in Ids, Follow(i) \/ RouteFails(i) \/ DeleteSession(i) PROVE StoreInv'
    <2>1. CASE Follow(i) \/ RouteFails(i)
      BY <2>1, SeenStep DEF Follow, RouteFails
    <2> QED BY <1>2, <2>1, DeleteSessionStep
  <1>3. ASSUME NEW i \in Ids, NEW t \in Targets, NEW v \in Saves, SelectTarget(i, t, v)
        PROVE  StoreInv'
    BY <1>3, SelectTargetStep
  <1>4. ASSUME NEW v \in Saves, SaveStep(v) PROVE StoreInv'
    BY <1>4, ReadStep, OpenFileStep, WriteFileStep DEF SaveStep
  <1>5. CASE UNCHANGED vars
    BY Zenon, <1>5 DEF vars, StoreInv, TypeOK, FilesOld, FileOld, SavesOld, SaveOld, SessionsPast, Old
  <1> QED BY Zenon, <1>1, <1>2, <1>3, <1>4, <1>5 DEF Next

\* The sessions, the goroutines and the files keep their types: LoadSessions never
\* restores a session without a target URL.
THEOREM StoreTyped == Spec => []TypeOK
  <1>1. StoreInv => TypeOK
    BY DEF StoreInv
  <1> QED BY <1>1, InitStored, StoreStep, PTL DEF Spec

\* An expired session is never restored, in whatever order the goroutines of
\* SaveSession and DeleteSession run and wherever the process dies.
THEOREM ExpiredStayExpired == Spec => []NoneResurrected
  <1>1. StoreInv => NoneResurrected
    BY DEF StoreInv, FilesOld, FileOld, Old, NoneResurrected, Loadable
  <1> QED BY <1>1, InitStored, StoreStep, PTL DEF Spec

-----------------------------------------------------------------------------
\* A session is stored with its target.  StoredAtRest is not inductive: while the
\* one save of a session is on its way, it must be what the session is now.

\* A session whose saves and deletes did not overlap has at most one save on its
\* way, and no delete.
AtRest(i) ==
  session[i] # None /\ i \notin raced =>
    /\ deletes[i] = 0
    /\ \A v, w \in Pending(i) : v = w
    /\ Pending(i) = {} => file[i].state = "record" /\ file[i].url = session[i].url
    /\ \A v \in Pending(i) :
         /\ save[v].live
         /\ save[v].step # "begun" => save[v].url = session[i].url
         /\ save[v].step = "opened" => save[v].linked /\ file[i].state = "empty"

RestInv == StoreInv /\ \A i \in Ids : AtRest(i)

\* Nothing happens to session i but that it is seen or ends.
LEMMA RestStays ==
  ASSUME NEW i \in Ids, AtRest(i),
         session'[i] # None => session[i] # None /\ session'[i].url = session[i].url,
         i \in raced => i \in raced',
         session'[i] # None => deletes'[i] = deletes[i] /\ file'[i] = file[i],
         session'[i] # None => \A v \in Saves :
           IF v \in Pending(i) THEN save'[v] = save[v] ELSE v \notin Pending(i)'
  PROVE  AtRest(i)'
  <1> SUFFICES ASSUME session'[i] # None, i \notin raced'
               PROVE  /\ deletes'[i] = 0
                      /\ \A v, w \in Pending(i)' : v = w
                      /\ Pending(i)' = {} => file'[i].state = "record" /\ file'[i].url = session'[i].url
                      /\ \A v \in Pending(i)' :
                           /\ save'[v].live
                           /\ save'[v].step # "begun" => save'[v].url = session'[i].url
                           /\ save'[v].step = "opened" => save'[v].linked /\ file'[i].state = "empty"
    BY Zenon DEF AtRest
  <1>1. /\ session[i] # None /\ i \notin raced /\ session'[i].url = session[i].url
        /\ deletes'[i] = deletes[i] /\ file'[i] = file[i]
    BY Zenon
  <1>2. Pending(i) \subseteq Saves /\ Pending(i)' \subseteq Saves
    BY Zenon DEF Pending
  <1>3. \A v \in Pending(i) : save'[v] = save[v] /\ v \in Pending(i)'
    <2>1. \A v \in Pending(i) : save'[v] = save[v]
      BY Zenon, <1>2
    <2> QED BY Zenon, <2>1 DEF Pending
  <1>4. Pending(i)' = Pending(i)
    BY Zenon, <1>2, <1>3
  <1>5. /\ deletes[i] = 0
        /\ \A v, w \in Pending(i) : v = w
        /\ Pending(i) = {} => file[i].state = "record" /\ file[i].url = session[i].url
        /\ \A v \in Pending(i) :
             /\ save[v].live
             /\ save[v].step # "begun" => save[v].url = session[i].url
             /\ save[v].step = "opened" => save[v].linked /\ file[i].state = "empty"
    BY Zenon, <1>1 DEF AtRest
  <1>6. /\ deletes'[i] = 0
        /\ \A v, w \in Pending(i)' : v = w
        /\ Pending(i)' = {} => file'[i].state = "record" /\ file'[i].url = session'[i].url
    BY Zenon, <1>1, <1>4, <1>5
  <1>7. ASSUME NEW v \in Pending(i)'
        PROVE  /\ save'[v].live
               /\ save'[v].step # "begun" => save'[v].url = session'[i].url
               /\ save'[v].step = "opened" => save'[v].linked /\ file'[i].state = "empty"
    <2>1. v \in Pending(i) /\ save'[v] = save[v]
      BY Zenon, <1>3, <1>4
    <2> QED BY Zenon, <1>1, <1>5, <2>1
  <1> QED BY Zenon, <1>6, <1>7

\* A step of one save leaves the other sessions alone.
LEMMA OthersRest ==
  ASSUME RestInv, NEW v \in Saves, NEW s, save' = [save EXCEPT ![v] = s],
         s.step = "free" \/ s.id = save[v].id, save[v].step # "free",
         session' = session, deletes' = deletes, raced' = raced,
         NEW i \in Ids, i # save[v].id, file'[i] = file[i]
  PROVE  AtRest(i)'
  <1>1. save \in [Saves -> Save]
    BY Zenon DEF RestInv, StoreInv, TypeOK
  <1>2. save'[v] = s /\ \A w \in Saves : w # v => save'[w] = save[w]
    BY Zenon, <1>1
  <1>3. v \notin Pending(i) /\ v \notin Pending(i)'
    BY Zenon, <1>2 DEF Pending
  <1>4. \A w \in Saves : IF w \in Pending(i) THEN save'[w] = save[w] ELSE w \notin Pending(i)'
    BY Zenon, <1>2, <1>3 DEF Pending
  <1>5. AtRest(i)
    BY Zenon DEF RestInv
  <1> QED BY Zenon, <1>4, <1>5, RestStays

\* The session the save is for, if it is the only one, sees its save go on.
LEMMA SoleRests ==
  ASSUME RestInv, NEW v \in Saves, NEW s, save' = [save EXCEPT ![v] = s],
         s.step # "free", s.id = save[v].id, save[v].step # "free", s.live = save[v].live,
         session' = session, deletes' = deletes, raced' = raced,
         NEW i \in Ids, i = save[v].id,
         session[i] # None /\ save[v].live /\ (save[v].step = "begun" \/ save[v].url = session[i].url) =>
           (s.step # "begun" => s.url = session[i].url),
         s.step = "opened" => s.linked /\ file'[i].state = "empty"
  PROVE  AtRest(i)'
  <1>1. save \in [Saves -> Save]
    BY Zenon DEF RestInv, StoreInv, TypeOK
  <1>2. save'[v] = s /\ \A w \in Saves : w # v => save'[w] = save[w]
    BY Zenon, <1>1
  <1>3. v \in Pending(i) /\ v \in Pending(i)'
    BY Zenon, <1>2 DEF Pending
  <1> SUFFICES ASSUME session[i] # None, i \notin raced
               PROVE  /\ deletes'[i] = 0
                      /\ \A u, w \in Pending(i)' : u = w
                      /\ \A w \in Pending(i)' :
                           /\ save'[w].live
                           /\ save'[w].step # "begun" => save'[w].url = session'[i].url
                           /\ save'[w].step = "opened" => save'[w].linked /\ file'[i].state = "empty"
    BY Zenon, <1>3 DEF AtRest
  <1>4. AtRest(i)
    BY Zenon DEF RestInv
  <1>5. /\ deletes[i] = 0 /\ \A w \in Pending(i) : w = v
        /\ save[v].live /\ (save[v].step # "begun" => save[v].url = session[i].url)
    BY Zenon, <1>3, <1>4 DEF AtRest
  <1>6. ASSUME NEW w \in Pending(i)', w # v PROVE FALSE
    <2>1. w \in Saves /\ save'[w] = save[w]
      BY Zenon, <1>2, <1>6 DEF Pending
    <2>2. w \in Pending(i)
      BY Zenon, <2>1 DEF Pending
    <2> QED BY Zenon, <1>5, <1>6, <2>2
  <1>7. s.live /\ (s.step # "begun" => s.url = session[i].url)
    BY Zenon, <1>5
  <1> QED BY Zenon, <1>2, <1>5, <1>6, <1>7

\* The packets of a session that keeps its target, and the time.
LEMMA SeenRests ==
  ASSUME RestInv, save' = save, deletes' = deletes, file' = file, raced' = raced,
         \A i \in Ids : session'[i] # None =>
           session[i] # None /\ session'[i].url = session[i].url
  PROVE  \A i \in Ids : AtRest(i)'
  <1> TAKE i \in Ids
  <1>1. AtRest(i)
    BY Zenon DEF RestInv
  <1>2. Pending(i)' = Pending(i)
    BY Zenon DEF Pending
  <1> QED BY Zenon, <1>1, <1>2, RestStays

LEMMA FollowRests ==
  ASSUME RestInv, NEW i \in Ids, Follow(i) \/ RouteFails(i)
  PROVE  \A j \in Ids : AtRest(j)'
  <1>1. /\ session[i] # None /\ session' = [session EXCEPT ![i].seen = now]
        /\ save' = save /\ deletes' = deletes /\ file' = file /\ raced' = raced
    BY Zenon DEF Follow, RouteFails
  <1>2. session \in [Ids -> Session \cup {None}]
    BY Zenon DEF RestInv, StoreInv, TypeOK
  <1>3. session[i] \in Session
    BY Zenon, <1>1, <1>2
  <1>4. [session[i] EXCEPT !.seen = now].url = session[i].url
    BY Zenon, <1>3 DEF Session
  <1>5. ASSUME NEW j \in Ids, session'[j] # None
        PROVE  session[j] # None /\ session'[j].url = session[j].url
    <2>1. CASE j = i
      BY Zenon, <1>1, <1>2, <1>4, <2>1
    <2>2. CASE j # i
      BY Zenon, <1>1, <1>2, <1>5, <2>2
    <2> QED BY Zenon, <2>1, <2>2
  <1> QED BY Zenon, <1>1, <1>5, SeenRests

\* A save begun while nothing else is on its way is the only one.
LEMMA SelectTargetRests ==
  ASSUME RestInv, NEW i \in Ids, NEW t \in Targets, NEW v \in Saves, SelectTarget(i, t, v)
  PROVE  \A j \in Ids : AtRest(j)'
  <1> DEFINE b == [FreeSave EXCEPT !.step = "begun", !.id = i, !.live = TRUE]
  <1>1. /\ session' = [session EXCEPT ![i] = [target |-> t, url |-> t, seen |-> now]]
        /\ save[v].step = "free" /\ save' = [save EXCEPT ![v] = b]
        /\ raced' = IF Pending(i) # {} \/ deletes[i] > 0 THEN raced \cup {i} ELSE raced
        /\ deletes' = deletes /\ file' = file
    BY Zenon DEF SelectTarget, Retargeted, BeginSave
  <1>2. b.step = "begun" /\ b.id = i /\ b.live
    BY Zenon DEF FreeSave
  <1> HIDE DEF b
  <1>3. save \in [Saves -> Save] /\ session \in [Ids -> Session \cup {None}]
    BY Zenon DEF RestInv, StoreInv, TypeOK
  <1>4. save'[v] = b /\ \A w \in Saves : w # v => save'[w] = save[w]
    BY Zenon, <1>1, <1>3
  <1>5. ASSUME NEW j \in Ids, j # i PROVE AtRest(j)'
    <2>1. session'[j] = session[j] /\ (j \in raced => j \in raced')
      BY Zenon, <1>1, <1>3, <1>5
    <2>2. v \notin Pending(j) /\ v \notin Pending(j)'
      BY Zenon, <1>1, <1>2, <1>4, <1>5 DEF Pending
    <2>3. \A w \in Saves : IF w \in Pending(j) THEN save'[w] = save[w] ELSE w \notin Pending(j)'
      BY Zenon, <1>4, <2>2 DEF Pending
    <2>4. AtRest(j)
      BY Zenon DEF RestInv
    <2> QED BY Zenon, <1>1, <2>1, <2>3, <2>4, RestStays
  <1>6. AtRest(i)'
    <2> SUFFICES ASSUME i \notin raced'
                 PROVE  /\ deletes'[i] = 0
                        /\ v \in Pending(i)'
                        /\ \A w \in Pending(i)' : w = v
                        /\ save'[v].live /\ save'[v].step = "begun"
      BY Zenon DEF AtRest
    <2>1. Pending(i) = {} /\ ~(deletes[i] > 0)
      BY Zenon, <1>1
    <2>2. deletes[i] \in Nat
      BY DEF RestInv, StoreInv, TypeOK
    <2>3. deletes'[i] = 0
      BY <1>1, <2>1, <2>2
    <2>4. v \in Pending(i)' /\ \A w \in Pending(i)' : w = v
      BY Zenon, <1>2, <1>4, <2>1 DEF Pending
    <2> QED BY Zenon, <1>2, <1>4, <2>3, <2>4
  <1> QED BY Zenon, <1>5, <1>6

\* What expires is no session any more, and the saves of the others stay.
LEMMA CleanupRests ==
  ASSUME RestInv, Cleanup
  PROVE  \A i \in Ids : AtRest(i)'
  <1> DEFINE expired == {i \in Ids : IsIdle(i)}
             Reads(v) == save[v].live /\ save[v].id \in expired
  <1>1. /\ session' = [i \in Ids |-> IF i \in expired THEN None ELSE session[i]]
        /\ deletes' = [i \in Ids |-> IF i \in expired THEN deletes[i] + 1 ELSE deletes[i]]
        /\ file' = file /\ raced' = raced
    BY Zenon DEF Cleanup
  <1>2. \A v \in Saves : ~Reads(v) => save'[v] = save[v]
    BY Zenon DEF Cleanup
  <1>3. ASSUME NEW v \in Saves PROVE save'[v].id = save[v].id
    <2>1. save[v] \in Save
      BY Zenon DEF RestInv, StoreInv, TypeOK
    <2>2. \A l, u, n : [save[v] EXCEPT !.live = l, !.url = u, !.seen = n].id = save[v].id
      BY Zenon, <2>1 DEF Save
    <2>3. Reads(v) => \E l, u, n : save'[v] = [save[v] EXCEPT !.live = l, !.url = u, !.seen = n]
      BY Zenon DEF Cleanup
    <2>4. CASE Reads(v)
      <3>1. PICK l, u, n : save'[v] = [save[v] EXCEPT !.live = l, !.url = u, !.seen = n]
        BY Zenon, <2>3, <2>4
      <3> QED BY <2>2, <3>1
    <2>5. CASE ~Reads(v)
      BY Zenon, <1>2, <2>5
    <2> QED BY Zenon, <2>4, <2>5
  <1> TAKE i \in Ids
  <1>4. AtRest(i)
    BY Zenon DEF RestInv
  <1>5. CASE i \in expired
    <2>1. session'[i] = None
      BY Zenon, <1>1, <1>5
    <2> QED BY Zenon, <2>1 DEF AtRest
  <1>6. CASE i \notin expired
    <2>1. session'[i] = session[i] /\ deletes'[i] = deletes[i]
      BY Zenon, <1>1, <1>6
    <2>2. \A v \in Saves : v \in Pending(i) => save'[v] = save[v]
      BY Zenon, <1>2, <1>6 DEF Pending
    <2>3. \A v \in Saves : v \notin Pending(i) => v \notin Pending(i)'
      BY Zenon, <1>2, <1>3, <1>6 DEF Pending
    <2>4. file'[i] = file[i] /\ (i \in raced => i \in raced')
      BY Zenon, <1>1
    <2>5. \A v \in Saves : IF v \in Pending(i) THEN save'[v] = save[v] ELSE v \notin Pending(i)'
      BY Zenon, <2>2, <2>3
    <2> HIDE DEF expired
    <2> QED BY Zenon, <1>4, <2>1, <2>4, <2>5, RestStays
  <1> QED BY Zenon, <1>5, <1>6

\* The session a save on its way is for.
LEMMA SaveHasSession ==
  ASSUME RestInv, NEW v \in Saves, save[v].step # "free"
  PROVE  save[v].id \in Ids
  BY Zenon DEF RestInv, StoreInv, SavesOld, SaveOld

LEMMA ReadRests ==
  ASSUME RestInv, NEW v \in Saves, ReadURL(v) \/ ReadSeen(v)
  PROVE  \A i \in Ids : AtRest(i)'
  <1>1. save[v] \in Save
    BY Zenon DEF RestInv, StoreInv, TypeOK
  <1>u. UNCHANGED <<session, deletes, file, raced>> /\ save[v].step # "free"
    BY Zenon DEF ReadURL, ReadSeen
  <1>2. \E s :
          /\ save' = [save EXCEPT ![v] = s]
          /\ s.step # "free" /\ s.step # "opened" /\ s.id = save[v].id /\ s.live = save[v].live
          /\ \/ save[v].live /\ s.url = session[save[v].id].url
             \/ ~save[v].live
             \/ save[v].step # "begun" /\ s.url = save[v].url
    <2>1. CASE ReadURL(v)
      <3> DEFINE s == [save[v] EXCEPT !.step = "urlread",
                                      !.url = IF save[v].live THEN session[save[v].id].url ELSE @]
      <3>1. s.step = "urlread" /\ s.id = save[v].id /\ s.live = save[v].live
            /\ s.url = (IF save[v].live THEN session[save[v].id].url ELSE save[v].url)
        BY Zenon, <1>1 DEF Save
      <3>2. save' = [save EXCEPT ![v] = s]
        BY Zenon, <2>1 DEF ReadURL
      <3> HIDE DEF s
      <3> QED BY Zenon, <3>1, <3>2
    <2>2. CASE ReadSeen(v)
      <3> DEFINE s == [save[v] EXCEPT !.step = "marshalled",
                                      !.seen = IF save[v].live THEN session[save[v].id].seen ELSE @]
      <3>1. s.step = "marshalled" /\ s.id = save[v].id /\ s.live = save[v].live
            /\ s.url = save[v].url
        BY Zenon, <1>1 DEF Save
      <3>2. save' = [save EXCEPT ![v] = s] /\ save[v].step = "urlread"
        BY Zenon, <2>2 DEF ReadSeen
      <3> HIDE DEF s
      <3> QED BY Zenon, <3>1, <3>2
    <2> QED BY Zenon, <2>1, <2>2
  <1>3. PICK s :
          /\ save' = [save EXCEPT ![v] = s]
          /\ s.step # "free" /\ s.step # "opened" /\ s.id = save[v].id /\ s.live = save[v].live
          /\ \/ save[v].live /\ s.url = session[save[v].id].url
             \/ ~save[v].live
             \/ save[v].step # "begun" /\ s.url = save[v].url
    BY Zenon, <1>2
  <1> TAKE i \in Ids
  <1>4. CASE i # save[v].id
    <2>1. file'[i] = file[i]
      BY Zenon, <1>u
    <2> QED BY Zenon, <1>3, <1>4, <1>u, <2>1, OthersRest
  <1>5. CASE i = save[v].id
    <2>1. save[v].live /\ (save[v].step = "begun" \/ save[v].url = session[i].url) =>
            s.url = session[i].url
      BY Zenon, <1>3, <1>5
    <2> QED BY Zenon, <1>3, <1>5, <1>u, <2>1, SoleRests
  <1> QED BY Zenon, <1>4, <1>5

LEMMA OpenFileRests ==
  ASSUME RestInv, NEW v \in Saves, OpenFile(v)
  PROVE  \A i \in Ids : AtRest(i)'
  <1> DEFINE s == [save[v] EXCEPT !.step = "opened", !.linked = TRUE]
  <1>1. save[v] \in Save /\ file \in [Ids -> File]
    BY Zenon DEF RestInv, StoreInv, TypeOK
  <1>u. /\ UNCHANGED <<session, deletes, raced>> /\ save[v].step = "marshalled"
        /\ save' = [save EXCEPT ![v] = s] /\ file' = [file EXCEPT ![save[v].id] = EmptyFile]
    BY Zenon DEF OpenFile
  <1>2. s.step = "opened" /\ s.id = save[v].id /\ s.live = save[v].live
        /\ s.url = save[v].url /\ s.linked
    BY Zenon, <1>1 DEF Save
  <1> HIDE DEF s
  <1> TAKE i \in Ids
  <1>3. CASE i # save[v].id
    <2>1. file'[i] = file[i]
      BY Zenon, <1>1, <1>3, <1>u
    <2> QED BY Zenon, <1>2, <1>3, <1>u, <2>1, OthersRest
  <1>4. CASE i = save[v].id
    <2>1. file'[i].state = "empty"
      BY Zenon, <1>1, <1>4, <1>u DEF EmptyFile
    <2> QED BY Zenon, <1>2, <1>4, <1>u, <2>1, SoleRests
  <1> QED BY Zenon, <1>3, <1>4

\* The only save of a session finds its file empty, so that nothing of an earlier
\* record stays behind what it writes.
LEMMA WriteFileRests ==
  ASSUME RestInv, NEW v \in Saves, WriteFile(v)
  PROVE  \A i \in Ids : AtRest(i)'
  <1>1. save \in [Saves -> Save] /\ file \in [Ids -> File]
    BY Zenon DEF RestInv, StoreInv, TypeOK
  <1>u. /\ UNCHANGED <<session, deletes, raced>> /\ save[v].step = "opened"
        /\ save' = [save EXCEPT ![v] = FreeSave]
    BY Zenon DEF WriteFile
  <1>2. FreeSave.step = "free"
    BY Zenon DEF FreeSave
  <1> TAKE i \in Ids
  <1>3. CASE i # save[v].id
    <2>1. file'[i] = file[i]
      BY Zenon, <1>1, <1>3 DEF WriteFile
    <2> QED BY Zenon, <1>2, <1>3, <1>u, <2>1, OthersRest
  <1>4. CASE i = save[v].id
    <2>1. save'[v] = FreeSave /\ \A w \in Saves : w # v => save'[w] = save[w]
      BY Zenon, <1>1, <1>u
    <2>2. v \in Pending(i) /\ v \notin Pending(i)'
      BY Zenon, <1>2, <1>4, <1>u, <2>1 DEF Pending
    <2> SUFFICES ASSUME session[i] # None, i \notin raced
                 PROVE  /\ deletes'[i] = 0 /\ Pending(i)' = {}
                        /\ file'[i].state = "record" /\ file'[i].url = session[i].url
      BY Zenon, <1>u DEF AtRest
    <2>3. AtRest(i)
      BY Zenon DEF RestInv
    <2>4. /\ deletes[i] = 0 /\ \A w \in Pending(i) : w = v
          /\ save[v].url = session[i].url /\ save[v].linked /\ file[i].state = "empty"
      BY Zenon, <1>u, <2>2, <2>3 DEF AtRest
    <2>5. ASSUME NEW w \in Pending(i)' PROVE FALSE
      <3>1. w \in Saves /\ save'[w] = save[w] /\ w # v
        BY Zenon, <2>1, <2>2, <2>5 DEF Pending
      <3>2. w \in Pending(i)
        BY Zenon, <3>1 DEF Pending
      <3> QED BY Zenon, <2>4, <3>1, <3>2
    <2>6. file' = [file EXCEPT ![i] =
                     [state |-> "record", url |-> save[v].url, seen |-> save[v].seen]]
      BY Zenon, <1>4, <2>4 DEF WriteFile, Written
    <2>7. file'[i] = [state |-> "record", url |-> save[v].url, seen |-> save[v].seen]
      BY Zenon, <1>1, <2>6
    <2>8. Pending(i)' = {}
      BY Zenon, <2>5
    <2>9. file'[i].state = "record" /\ file'[i].url = save[v].url
      BY <2>7
    <2> QED BY Zenon, <1>u, <2>4, <2>8, <2>9
  <1> QED BY Zenon, <1>3, <1>4

\* A file is deleted only for a session that ended, or that began again while the
\* delete waited.
LEMMA DeleteSessionRests ==
  ASSUME RestInv, NEW i \in Ids, DeleteSession(i)
  PROVE  \A j \in Ids : AtRest(j)'
  <1>1. /\ file \in [Ids -> File] /\ deletes \in [Ids -> 0..MaxDeletes]
        /\ save \in [Saves -> Save]
    BY Zenon DEF RestInv, StoreInv, TypeOK
  <1>u. /\ session' = session /\ raced' = raced
        /\ deletes[i] > 0 /\ deletes' = [deletes EXCEPT ![i] = @ - 1]
        /\ file' = [file EXCEPT ![i] = NoFile]
        /\ save' = [v \in Saves |->
                      IF save[v].id = i THEN [save[v] EXCEPT !.linked = FALSE] ELSE save[v]]
    BY Zenon DEF DeleteSession
  <1> TAKE j \in Ids
  <1>2. AtRest(j)
    BY Zenon DEF RestInv
  <1>3. CASE j # i
    <2>1. file'[j] = file[j] /\ deletes'[j] = deletes[j]
      BY Zenon, <1>1, <1>3, <1>u
    <2>2. ASSUME NEW v \in Saves
          PROVE  IF v \in Pending(j) THEN save'[v] = save[v] ELSE v \notin Pending(j)'
      <3>1. CASE save[v].id = i
        <4>1. save[v] \in Save /\ save'[v] = [save[v] EXCEPT !.linked = FALSE]
          BY Zenon, <1>1, <1>u, <3>1
        <4>2. save'[v].id = i
          BY Zenon, <3>1, <4>1 DEF Save
        <4> QED BY Zenon, <1>3, <3>1, <4>2 DEF Pending
      <3>2. CASE save[v].id # i
        <4>1. save'[v] = save[v]
          BY Zenon, <1>u, <3>2
        <4> QED BY Zenon, <4>1 DEF Pending
      <3> QED BY Zenon, <3>1, <3>2
    <2> QED BY Zenon, <1>2, <1>u, <2>1, <2>2, RestStays
  <1>4. CASE j = i
    <2>1. deletes[i] # 0
      BY <1>u
    <2> QED BY Zenon, <1>2, <1>4, <1>u, <2>1 DEF AtRest
  <1> QED BY Zenon, <1>3, <1>4

LEMMA RestartRests ==
  ASSUME RestInv, Restart
  PROVE  \A i \in Ids : AtRest(i)'
  <1>1. /\ save' = [v \in Saves |-> FreeSave] /\ deletes' = [i \in Ids |-> 0] /\ file' = file
        /\ session' = [i \in Ids |->
             IF Loadable(i) THEN [target |-> None, url |-> file[i].url, seen |-> file[i].seen] ELSE None]
    BY Zenon DEF Restart
  <1> TAKE i \in Ids
  <1> SUFFICES ASSUME session'[i] # None
               PROVE  /\ deletes'[i] = 0 /\ Pending(i)' = {}
                      /\ file'[i].state = "record" /\ file'[i].url = session'[i].url
    BY Zenon DEF AtRest
  <1>2. Loadable(i) /\ session'[i] = [target |-> None, url |-> file[i].url, seen |-> file[i].seen]
    BY Zenon, <1>1
  <1>3. \A v \in Saves : save'[v] = FreeSave
    BY Zenon, <1>1
  <1>4. Pending(i)' = {}
    <2>1. FreeSave.step = "free"
      BY Zenon DEF FreeSave
    <2> QED BY Zenon, <1>3, <2>1 DEF Pending
  <1>5. session'[i].url = file[i].url
    BY <1>2
  <1>6. file[i].state = "record"
    BY Zenon, <1>2 DEF Loadable
  <1>7. deletes'[i] = 0
    BY Zenon, <1>1
  <1> QED BY Zenon, <1>1, <1>4, <1>5, <1>6, <1>7

LEMMA RestStep == RestInv /\ [Next]_vars => RestInv'
  <1> SUFFICES ASSUME RestInv, [Next]_vars PROVE \A i \in Ids : AtRest(i)'
    BY Zenon, StoreStep DEF RestInv
  <1>1. CASE Tick \/ UNCHANGED vars
    <2>1. session' = session /\ save' = save /\ deletes' = deletes /\ file' = file /\ raced' = raced
      BY Zenon, <1>1 DEF Tick, vars
    <2> QED BY Zenon, <2>1, SeenRests
  <1>2. CASE Cleanup \/ Restart
    BY Zenon, <1>2, CleanupRests, RestartRests
  <1>3. ASSUME NEW i \in Ids, Follow(i) \/ RouteFails(i) \/ DeleteSession(i)
        PROVE  \A j \in Ids : AtRest(j)'
    BY Zenon, <1>3, FollowRests, DeleteSessionRests
  <1>4. ASSUME NEW i \in Ids, NEW t \in Targets, NEW v \in Saves, SelectTarget(i, t, v)
        PROVE  \A j \in Ids : AtRest(j)'
    BY Zenon, <1>4, SelectTargetRests
  <1>5. ASSUME NEW v \in Saves, SaveStep(v) PROVE \A j \in Ids : AtRest(j)'
    BY Zenon, <1>5, ReadRests, OpenFileRests, WriteFileRests DEF SaveStep
  <1> QED BY Zenon, <1>1, <1>2, <1>3, <1>4, <1>5 DEF Next

\* Once the save of a session is over, its file has the target that RoutePacket gave
\* it last: a save reads the session after it began, so that it cannot store an
\* older target, unless another save or a delete of the same file overlapped it.
THEOREM SavesReachTheFile == Spec => []StoredAtRest
  <1>1. Init => RestInv
    <2> SUFFICES ASSUME Init PROVE RestInv
      OBVIOUS
    <2>1. \A i \in Ids : session[i] = None
      BY Zenon DEF Init
    <2> QED BY Zenon, <2>1, InitStored DEF RestInv, AtRest
  <1>2. RestInv => StoredAtRest
    BY Zenon DEF RestInv, AtRest, StoredAtRest
  <1> QED BY <1>1, <1>2, RestStep, PTL DEF Spec
=============================================================================
