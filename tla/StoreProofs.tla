----------------------------- MODULE StoreProofs -----------------------------
(***************************************************************************)
(* Proofs of what the store promises, for any sessions, pids, messages and  *)
(* threads: the file changes by whole operations, so its references         *)
(* resolve, and whoever gets the lock meets no transaction.                 *)
(***************************************************************************)
EXTENDS StoreProps, TLAPS

-----------------------------------------------------------------------------
(* The inductive invariant.                                                 *)

(* Tables as a reader may meet them. *)
Consistent(db) ==
  /\ db \in Tables
  /\ ForeignKeysHold(db)
  /\ \A p \in Pid : db.sessions_by_pid[p] # None => PidOf[db.sessions_by_pid[p]] = p
  /\ db.user_version = SCHEMA_VERSION => db.created

(* What delete_session comes to. *)
Deleted(db, s) ==
  IF HasSession(db, s) THEN DropIndex(DropSession(db, s), PidOf[s]) ELSE DropSession(db, s)

PidFound(db, s) == IF HasSession(db, s) THEN PidOf[s] ELSE None

(* The view of a transaction is the file with the statements so far. *)
UpsertView ==
  /\ call.step = 1 => view = file
  /\ call.step = 2 => view = PutSession(file, call.session, call.type)
  /\ call.step = 3 => view = PutIndex(PutSession(file, call.session, call.type), call.session)

DeleteView ==
  /\ call.step \in {1, 2} => view = file
  /\ call.step \in {2, 3} => call.pid = PidFound(file, call.session)
  /\ call.step = 3 => view = DropSession(file, call.session)
  /\ call.step = 4 => view = Deleted(file, call.session)

DeleteThreadView ==
  /\ call.step = 1 => view = file
  /\ call.step = 2 => view = DropParticipants(file, call.thread)
  /\ call.step = 3 => view = DropThreads(DropParticipants(file, call.thread), {call.thread})

ViewOfCall ==
  /\ call.op = "upsert_session" => UpsertView
  /\ call.op = "delete_session" => DeleteView
  /\ call.op = "delete_thread" => DeleteThreadView
  /\ call.op = "mark_inbox_read" => view = file

ViewInv ==
  /\ call # None => state = "open" /\ ViewOfCall
  /\ call = None /\ state # "migrating" => view = file
  /\ state = "migrating" => view \in {file, CreateTables(file)}

SInv == TypeOK /\ Consistent(file) /\ ViewInv

-----------------------------------------------------------------------------
(* What the statements preserve.                                            *)

(* A row of the right type is no missing row. *)
LEMMA RowsAreNotNone ==
  /\ \A t \in Registered : agent_type_to_string(t) \in AgentTypeText
  /\ \A x \in SessionId \cup Pid \cup AgentTypeText \cup ThreadRow \cup Flag : x # None
  /\ PidOf \in [SessionId -> Pid]
BY NoneAssumption, StoreAssumption DEF AgentTypeText

(* The statements of upsert_session. *)
LEMMA PutSessionKeeps ==
  ASSUME NEW db \in Tables, NEW s \in SessionId, NEW t \in Registered
  PROVE  /\ PutSession(db, s, t) \in Tables
         /\ Consistent(db) => Consistent(PutSession(db, s, t))
         /\ HasSession(PutSession(db, s, t), s)
<1>. DEFINE new == PutSession(db, s, t)
<1>1. new \in Tables
  BY RowsAreNotNone DEF PutSession, Tables
<1>2. \A q \in SessionId : HasSession(db, q) => HasSession(new, q)
  BY RowsAreNotNone DEF PutSession, Tables, HasSession
<1>3. HasSession(new, s)
  BY RowsAreNotNone DEF PutSession, Tables, HasSession
<1>4. /\ new.sessions_by_pid = db.sessions_by_pid /\ new.reservations = db.reservations
      /\ new.live_state = db.live_state /\ new.threads = db.threads
      /\ new.thread_participants = db.thread_participants
      /\ new.user_version = db.user_version /\ new.created = db.created
  BY DEF PutSession, Tables
<1>5. ASSUME Consistent(db) PROVE Consistent(new)
  <2>1. ForeignKeysHold(new)
    BY <1>2, <1>4, <1>5 DEF Consistent, ForeignKeysHold, HasThread, Tables, ThreadRow
  <2>. QED
    BY <1>1, <1>4, <1>5, <2>1 DEF Consistent
<1>. QED
  BY <1>1, <1>3, <1>5

LEMMA PutIndexKeeps ==
  ASSUME NEW db \in Tables, NEW s \in SessionId
  PROVE  /\ PutIndex(db, s) \in Tables
         /\ Consistent(db) /\ HasSession(db, s) => Consistent(PutIndex(db, s))
<1>. DEFINE new == PutIndex(db, s)
<1>1. new \in Tables
  BY RowsAreNotNone DEF PutIndex, Tables
<1>2. /\ new.sessions = db.sessions /\ new.reservations = db.reservations
      /\ new.live_state = db.live_state /\ new.threads = db.threads
      /\ new.thread_participants = db.thread_participants
      /\ new.user_version = db.user_version /\ new.created = db.created
  BY DEF PutIndex, Tables
<1>3. \A p \in Pid : new.sessions_by_pid[p] = IF p = PidOf[s] THEN s ELSE db.sessions_by_pid[p]
  BY RowsAreNotNone DEF PutIndex, Tables
<1>4. ASSUME Consistent(db), HasSession(db, s) PROVE Consistent(new)
  <2>1. ForeignKeysHold(new)
    BY <1>2, <1>3, <1>4 DEF Consistent, ForeignKeysHold, HasThread, HasSession
  <2>. QED
    BY <1>1, <1>2, <1>3, <1>4, <2>1 DEF Consistent
<1>. QED
  BY <1>1, <1>4

(* The statements of delete_thread. *)
LEMMA DropThreadsKeeps ==
  ASSUME NEW db \in Tables, NEW gone \in SUBSET ThreadId
  PROVE  /\ DropThreads(db, gone) \in Tables
         /\ Consistent(db) => Consistent(DropThreads(db, gone))
<1>. DEFINE new == DropThreads(db, gone)
<1>1. new \in Tables
  BY DEF DropThreads, Tables
<1>2. /\ new.sessions = db.sessions /\ new.reservations = db.reservations
      /\ new.live_state = db.live_state /\ new.sessions_by_pid = db.sessions_by_pid
      /\ new.user_version = db.user_version /\ new.created = db.created
      /\ new.thread_participants = {hs \in db.thread_participants : hs[1] \notin gone}
      /\ \A h \in ThreadId : new.threads[h] = IF h \in gone THEN None ELSE db.threads[h]
  BY DEF DropThreads, Tables
<1>3. ASSUME Consistent(db) PROVE Consistent(new)
  <2>1. ForeignKeysHold(new)
    <3>1. \A hs \in new.thread_participants : hs[1] \in ThreadId
      BY <1>1 DEF Tables
    <3>. QED
      BY <1>2, <1>3, <3>1 DEF Consistent, ForeignKeysHold, HasThread, HasSession
  <2>. QED
    BY <1>1, <1>2, <1>3, <2>1 DEF Consistent
<1>. QED
  BY <1>1, <1>3

(* The participants go first and then the thread, which takes participants  *)
(* of its own: together that is the cascade.                                *)
LEMMA DropParticipantsFirst ==
  ASSUME NEW db \in Tables, NEW h \in ThreadId
  PROVE  /\ DropParticipants(db, h) \in Tables
         /\ DropThreads(DropParticipants(db, h), {h}) = DropThreads(db, {h})
<1>1. DropParticipants(db, h) \in Tables
  BY DEF DropParticipants, Tables
<1>2. {hs \in {x \in db.thread_participants : x[1] # h} : hs[1] \notin {h}}
        = {hs \in db.thread_participants : hs[1] \notin {h}}
  OBVIOUS
<1>3. DropThreads(DropParticipants(db, h), {h}) = DropThreads(db, {h})
  BY <1>2 DEF DropParticipants, DropThreads, Tables
<1>. QED
  BY <1>1, <1>3

(* The row of delete_session with its cascade. *)
LEMMA DropSessionKeeps ==
  ASSUME NEW db \in Tables, NEW s \in SessionId
  PROVE  /\ DropSession(db, s) \in Tables
         /\ Consistent(db) => Consistent(DropSession(db, s))
<1>. DEFINE created == {h \in ThreadId : HasThread(db, h) /\ db.threads[h].created_by = s}
            mid == DropThreads(db, created)
            new == DropSession(db, s)
<1>1. mid \in Tables
  BY DropThreadsKeeps
<1>2. new = [mid EXCEPT
       !.sessions[s] = None,
       !.sessions_by_pid = [p \in Pid |-> IF @[p] = s THEN None ELSE @[p]],
       !.reservations = [r \in ReservationId |-> IF @[r] = s THEN None ELSE @[r]],
       !.live_state = @ \ {s},
       !.thread_participants = {hs \in @ : hs[2] # s}]
  BY DEF DropSession
<1>. HIDE DEF mid, new
<1>3. new \in Tables
  BY <1>1, <1>2 DEF Tables
<1>4. /\ \A q \in SessionId : new.sessions[q] = IF q = s THEN None ELSE mid.sessions[q]
      /\ \A p \in Pid : new.sessions_by_pid[p] =
           IF mid.sessions_by_pid[p] = s THEN None ELSE mid.sessions_by_pid[p]
      /\ \A r \in ReservationId : new.reservations[r] =
           IF mid.reservations[r] = s THEN None ELSE mid.reservations[r]
      /\ new.live_state = mid.live_state \ {s}
      /\ new.thread_participants = {hs \in mid.thread_participants : hs[2] # s}
      /\ new.threads = mid.threads
      /\ new.user_version = mid.user_version /\ new.created = mid.created
  BY <1>1, <1>2 DEF Tables
<1>5. \A h \in ThreadId : HasThread(mid, h) => mid.threads[h].created_by # s
  <2>1. \A h \in ThreadId : mid.threads[h] = IF h \in created THEN None ELSE db.threads[h]
    BY DEF mid, DropThreads, Tables
  <2>. QED
    BY <2>1 DEF HasThread
<1>6. ASSUME Consistent(db) PROVE Consistent(new)
  <2>1. Consistent(mid)
    BY <1>6, DropThreadsKeeps DEF mid
  <2>2. \A q \in SessionId : q # s /\ HasSession(mid, q) => HasSession(new, q)
    BY <1>4 DEF HasSession
  <2>3. \A h \in ThreadId : HasThread(mid, h) => mid.threads[h].created_by \in SessionId
    BY <1>1 DEF Tables, ThreadRow, HasThread
  <2>4. ForeignKeysHold(new)
    <3>1. \A p \in Pid : new.sessions_by_pid[p] # None => HasSession(new, new.sessions_by_pid[p])
      BY <1>1, <1>4, <2>1, <2>2 DEF Consistent, ForeignKeysHold, Tables
    <3>2. \A r \in ReservationId : new.reservations[r] # None => HasSession(new, new.reservations[r])
      BY <1>1, <1>4, <2>1, <2>2 DEF Consistent, ForeignKeysHold, Tables
    <3>3. \A q \in new.live_state : HasSession(new, q)
      BY <1>1, <1>4, <2>1, <2>2 DEF Consistent, ForeignKeysHold, Tables
    <3>4. \A h \in ThreadId : HasThread(new, h) => HasSession(new, new.threads[h].created_by)
      BY <1>4, <1>5, <2>1, <2>2, <2>3 DEF Consistent, ForeignKeysHold, HasThread
    <3>5. \A hs \in new.thread_participants : HasThread(new, hs[1]) /\ HasSession(new, hs[2])
      <4>1. \A hs \in mid.thread_participants : hs[1] \in ThreadId /\ hs[2] \in SessionId
        BY <1>1 DEF Tables
      <4>. QED
        BY <1>4, <2>1, <2>2, <4>1 DEF Consistent, ForeignKeysHold, HasThread
    <3>. QED
      BY <3>1, <3>2, <3>3, <3>4, <3>5 DEF ForeignKeysHold
  <2>. QED
    BY <1>3, <1>4, <2>1, <2>4 DEF Consistent
<1>. QED
  BY <1>3, <1>6 DEF new

(* Nothing refers to a session that is not there, so its deletion deletes   *)
(* nothing.                                                                 *)
LEMMA DropMissingSession ==
  ASSUME NEW db, Consistent(db), NEW s \in SessionId, ~HasSession(db, s)
  PROVE  DropSession(db, s) = db
<1>. DEFINE created == {h \in ThreadId : HasThread(db, h) /\ db.threads[h].created_by = s}
            new == DropSession(db, s)
<1>1. created = {}
  BY DEF Consistent, ForeignKeysHold
<1>2. DropThreads(db, created) = db
  <2>1. [h \in ThreadId |-> IF h \in {} THEN None ELSE db.threads[h]] = db.threads
    BY DEF Consistent, Tables
  <2>2. {hs \in db.thread_participants : hs[1] \notin {}} = db.thread_participants
    OBVIOUS
  <2>. QED
    BY <1>1, <2>1, <2>2 DEF DropThreads, Consistent, Tables
<1>3. new = [db EXCEPT
       !.sessions[s] = None,
       !.sessions_by_pid = [p \in Pid |-> IF @[p] = s THEN None ELSE @[p]],
       !.reservations = [r \in ReservationId |-> IF @[r] = s THEN None ELSE @[r]],
       !.live_state = @ \ {s},
       !.thread_participants = {hs \in @ : hs[2] # s}]
  BY <1>2 DEF DropSession
<1>. HIDE DEF new
<1>4. [db.sessions EXCEPT ![s] = None] = db.sessions
  BY DEF Consistent, Tables, HasSession
<1>5. [p \in Pid |-> IF db.sessions_by_pid[p] = s THEN None ELSE db.sessions_by_pid[p]]
        = db.sessions_by_pid
  <2>1. \A p \in Pid : db.sessions_by_pid[p] # s
    BY RowsAreNotNone DEF Consistent, ForeignKeysHold
  <2>. QED
    BY <2>1 DEF Consistent, Tables
<1>6. [r \in ReservationId |-> IF db.reservations[r] = s THEN None ELSE db.reservations[r]]
        = db.reservations
  <2>1. \A r \in ReservationId : db.reservations[r] # s
    BY RowsAreNotNone DEF Consistent, ForeignKeysHold
  <2>. QED
    BY <2>1 DEF Consistent, Tables
<1>7. db.live_state \ {s} = db.live_state
  BY DEF Consistent, ForeignKeysHold
<1>8. {hs \in db.thread_participants : hs[2] # s} = db.thread_participants
  BY DEF Consistent, ForeignKeysHold
<1>9. new = [db EXCEPT
       !.sessions = db.sessions, !.sessions_by_pid = db.sessions_by_pid,
       !.reservations = db.reservations, !.live_state = db.live_state,
       !.thread_participants = db.thread_participants]
  BY <1>3, <1>4, <1>5, <1>6, <1>7, <1>8 DEF Consistent, Tables
<1>. QED
  BY <1>9 DEF Consistent, Tables, new

LEMMA DropIndexKeeps ==
  ASSUME NEW db \in Tables, NEW p \in Pid
  PROVE  /\ DropIndex(db, p) \in Tables
         /\ Consistent(db) => Consistent(DropIndex(db, p))
<1>. DEFINE new == DropIndex(db, p)
<1>1. new \in Tables
  BY DEF DropIndex, Tables
<1>2. /\ new.sessions = db.sessions /\ new.reservations = db.reservations
      /\ new.live_state = db.live_state /\ new.threads = db.threads
      /\ new.thread_participants = db.thread_participants
      /\ new.user_version = db.user_version /\ new.created = db.created
      /\ \A q \in Pid : new.sessions_by_pid[q] = IF q = p THEN None ELSE db.sessions_by_pid[q]
  BY DEF DropIndex, Tables
<1>. QED
  BY <1>1, <1>2 DEF Consistent, ForeignKeysHold, HasThread, HasSession

(* The methods of one statement. *)
LEMMA ReservationsKeep ==
  ASSUME NEW db, Consistent(db), NEW r \in ReservationId
  PROVE  /\ \A s \in SessionId : HasSession(db, s) => Consistent(PutReservation(db, r, s))
         /\ Consistent(DropReservation(db, r))
<1>1. ASSUME NEW x \in SessionId \cup {None}, x = None \/ HasSession(db, x)
      PROVE  Consistent([db EXCEPT !.reservations[r] = x])
  <2>. DEFINE new == [db EXCEPT !.reservations[r] = x]
  <2>1. new \in Tables
    BY DEF Consistent, Tables
  <2>2. /\ new.sessions = db.sessions /\ new.sessions_by_pid = db.sessions_by_pid
        /\ new.live_state = db.live_state /\ new.threads = db.threads
        /\ new.thread_participants = db.thread_participants
        /\ new.user_version = db.user_version /\ new.created = db.created
        /\ \A q \in ReservationId :
             new.reservations[q] = IF q = r THEN x ELSE db.reservations[q]
    BY DEF Consistent, Tables
  <2>. QED
    BY <1>1, <2>1, <2>2 DEF Consistent, ForeignKeysHold, HasThread, HasSession
<1>. QED
  BY <1>1 DEF PutReservation, DropReservation

LEMMA PutLiveStateKeeps ==
  ASSUME NEW db, Consistent(db), NEW s \in SessionId, HasSession(db, s)
  PROVE  Consistent(PutLiveState(db, s))
<1>. DEFINE new == PutLiveState(db, s)
<1>1. new \in Tables
  BY DEF Consistent, Tables, PutLiveState
<1>2. /\ new.sessions = db.sessions /\ new.sessions_by_pid = db.sessions_by_pid
      /\ new.reservations = db.reservations /\ new.threads = db.threads
      /\ new.thread_participants = db.thread_participants
      /\ new.user_version = db.user_version /\ new.created = db.created
      /\ new.live_state = db.live_state \cup {s}
  BY DEF Consistent, Tables, PutLiveState
<1>. QED
  BY <1>1, <1>2 DEF Consistent, ForeignKeysHold, HasThread, HasSession

(* No foreign key looks at messages. *)
LEMMA MessagesKeep ==
  ASSUME NEW db, Consistent(db), NEW m \in MessageId, NEW flag \in Flag
  PROVE  Consistent(PutMessage(db, m, flag)) /\ Consistent(MarkRead(db, m))
<1>1. ASSUME NEW x \in Flag \cup {None} PROVE Consistent([db EXCEPT !.inbox_messages[m] = x])
  <2>. DEFINE new == [db EXCEPT !.inbox_messages[m] = x]
  <2>1. new \in Tables
    BY DEF Consistent, Tables
  <2>2. /\ new.sessions = db.sessions /\ new.sessions_by_pid = db.sessions_by_pid
        /\ new.reservations = db.reservations /\ new.threads = db.threads
        /\ new.live_state = db.live_state /\ new.thread_participants = db.thread_participants
        /\ new.user_version = db.user_version /\ new.created = db.created
    BY DEF Consistent, Tables
  <2>. QED
    BY <2>1, <2>2 DEF Consistent, ForeignKeysHold, HasThread, HasSession
<1>. QED
  BY <1>1 DEF PutMessage, MarkRead, Flag

(* A thread keeps its creator, so the creator is asked for once only. *)
LEMMA PutThreadKeeps ==
  ASSUME NEW db, Consistent(db), NEW h \in ThreadId, NEW s \in SessionId,
         NEW status \in ThreadStatus, HasThread(db, h) \/ HasSession(db, s)
  PROVE  Consistent(PutThread(db, h, s, status))
<1>. DEFINE by == IF HasThread(db, h) THEN db.threads[h].created_by ELSE s
            new == PutThread(db, h, s, status)
<1>1. by \in SessionId /\ HasSession(db, by)
  BY DEF Consistent, ForeignKeysHold, Tables, ThreadRow, HasThread
<1>2. new = [db EXCEPT !.threads[h] = [created_by |-> by, status |-> status]]
  BY DEF PutThread, Consistent, Tables
<1>3. [created_by |-> by, status |-> status] \in ThreadRow
  BY <1>1 DEF ThreadRow
<1>. HIDE DEF by, new
<1>4. new \in Tables
  BY <1>2, <1>3 DEF Consistent, Tables
<1>5. /\ new.sessions = db.sessions /\ new.sessions_by_pid = db.sessions_by_pid
      /\ new.reservations = db.reservations /\ new.live_state = db.live_state
      /\ new.thread_participants = db.thread_participants
      /\ new.user_version = db.user_version /\ new.created = db.created
      /\ \A x \in ThreadId : new.threads[x] =
           IF x = h THEN [created_by |-> by, status |-> status] ELSE db.threads[x]
  BY <1>2 DEF Consistent, Tables
<1>6. \A x \in ThreadId : HasThread(db, x) => HasThread(new, x)
  BY <1>3, <1>5, RowsAreNotNone DEF HasThread
<1>7. \A x \in ThreadId : HasThread(new, x) => HasSession(new, new.threads[x].created_by)
  BY <1>1, <1>5 DEF Consistent, ForeignKeysHold, HasThread, HasSession
<1>8. \A hs \in new.thread_participants : HasThread(new, hs[1]) /\ HasSession(new, hs[2])
  <2>1. \A hs \in db.thread_participants : hs[1] \in ThreadId
    BY DEF Consistent, Tables
  <2>. QED
    BY <1>5, <1>6, <2>1 DEF Consistent, ForeignKeysHold, HasSession
<1>. QED
  BY <1>4, <1>5, <1>7, <1>8 DEF Consistent, ForeignKeysHold, HasSession, new

LEMMA ParticipantsKeep ==
  ASSUME NEW db, Consistent(db), NEW h \in ThreadId, NEW s \in SessionId
  PROVE  /\ HasThread(db, h) /\ HasSession(db, s) => Consistent(AddParticipant(db, h, s))
         /\ Consistent(RemoveParticipant(db, h, s))
<1>1. ASSUME NEW S \in SUBSET (ThreadId \X SessionId),
             \A hs \in S : HasThread(db, hs[1]) /\ HasSession(db, hs[2])
      PROVE  Consistent([db EXCEPT !.thread_participants = S])
  <2>. DEFINE new == [db EXCEPT !.thread_participants = S]
  <2>1. new \in Tables
    BY DEF Consistent, Tables
  <2>2. /\ new.sessions = db.sessions /\ new.sessions_by_pid = db.sessions_by_pid
        /\ new.reservations = db.reservations /\ new.live_state = db.live_state
        /\ new.threads = db.threads /\ new.thread_participants = S
        /\ new.user_version = db.user_version /\ new.created = db.created
    BY DEF Consistent, Tables
  <2>. QED
    BY <1>1, <2>1, <2>2 DEF Consistent, ForeignKeysHold, HasThread, HasSession
<1>2. /\ db.thread_participants \cup {<<h, s>>} \in SUBSET (ThreadId \X SessionId)
      /\ db.thread_participants \ {<<h, s>>} \in SUBSET (ThreadId \X SessionId)
      /\ \A hs \in db.thread_participants : HasThread(db, hs[1]) /\ HasSession(db, hs[2])
  BY DEF Consistent, Tables, ForeignKeysHold
<1>. QED
  BY <1>1, <1>2 DEF AddParticipant, RemoveParticipant

(* A migration that ends. *)
LEMMA MigrationKeeps ==
  ASSUME NEW db, Consistent(db)
  PROVE  /\ CreateTables(db) \in Tables
         /\ Consistent(SetVersion(CreateTables(db)))
         /\ db.created \/ db.user_version >= 1 => CreateTables(db) = db
<1>1. CreateTables(db) \in Tables
  BY DEF Consistent, Tables, CreateTables
<1>2. Consistent(SetVersion(CreateTables(db)))
  <2>. DEFINE new == SetVersion(CreateTables(db))
  <2>. DEFINE made == CreateTables(db)
  <2>0. made \in Tables /\ new = [made EXCEPT !.user_version = 1]
    BY <1>1 DEF SetVersion, SCHEMA_VERSION
  <2>1. new \in Tables
    <3>. HIDE DEF made, new
    <3>. QED
      BY <2>0 DEF Tables, SCHEMA_VERSION
  <2>2. /\ new.sessions = db.sessions /\ new.sessions_by_pid = db.sessions_by_pid
        /\ new.reservations = db.reservations /\ new.live_state = db.live_state
        /\ new.threads = db.threads /\ new.thread_participants = db.thread_participants
        /\ new.created
    BY DEF Consistent, Tables, CreateTables, SetVersion, SCHEMA_VERSION
  <2>. QED
    BY <2>1, <2>2 DEF Consistent, ForeignKeysHold, HasThread, HasSession
<1>3. ASSUME db.created \/ db.user_version >= 1 PROVE CreateTables(db) = db
  <2>1. db.created = TRUE
    BY <1>3 DEF Consistent, Tables, SCHEMA_VERSION
  <2>. QED
    BY <2>1 DEF CreateTables, Consistent, Tables
<1>. QED
  BY <1>1, <1>2, <1>3

-----------------------------------------------------------------------------
(* The steps keep the invariant, and the file takes steps of AtomicStore.   *)

(* The shapes a call may have, by its method. *)
LEMMA CallKinds ==
  ASSUME NEW c \in Call
  PROVE  /\ c # None
         /\ c.op \in {"upsert_session", "delete_session", "delete_thread", "mark_inbox_read"}
         /\ c.op = "upsert_session" =>
              c \in [op: {"upsert_session"}, session: SessionId, type: Registered, step: 1..3]
         /\ c.op = "delete_session" =>
              c \in [op: {"delete_session"}, session: SessionId, pid: Pid \cup {None}, step: 1..4]
         /\ c.op = "delete_thread" =>
              c \in [op: {"delete_thread"}, thread: ThreadId, step: 1..3]
         /\ c.op = "mark_inbox_read" => c \in [op: {"mark_inbox_read"}, ids: SUBSET MessageId]
BY CallAssumption DEF Call

(* What every step leaves behind. *)
Kept == SInv' /\ (file' = file \/ Whole!Next)

(* A method that gets the lock finds the file in view. *)
LEMMA EnterKeeps ==
  ASSUME SInv, NEW c \in Call, Enter(c), c.op # "mark_inbox_read" => c.step = 1
  PROVE  Kept
<1>1. c # None /\ view = file
  BY CallKinds DEF Enter, Free, SInv, ViewInv
<1>2. TypeOK'
  BY DEF Enter, SInv, TypeOK
<1>3. ViewOfCall'
  BY <1>1 DEF Enter, ViewOfCall, UpsertView, DeleteView, DeleteThreadView
<1>4. ViewInv'
  BY <1>1, <1>3 DEF ViewInv, Enter, Free
<1>5. Consistent(file)' /\ file' = file
  BY DEF SInv, Enter
<1>. QED
  BY <1>2, <1>4, <1>5 DEF Kept, SInv

(* A statement of a transaction leaves the file alone. *)
LEMMA StatementKeeps ==
  ASSUME SInv, call # None, NEW db \in Tables, NEW c \in Call, Statement(db, c), ViewOfCall'
  PROVE  Kept
<1>1. c # None
  BY CallKinds
<1>2. TypeOK'
  BY DEF Statement, SInv, TypeOK
<1>3. Consistent(file)' /\ ViewInv'
  BY <1>1 DEF SInv, ViewInv, Statement
<1>. QED
  BY <1>2, <1>3 DEF Kept, SInv, Statement

LEMMA CommitKeeps ==
  ASSUME SInv, call # None, Commit, Consistent(view)
  PROVE  SInv'
<1>1. TypeOK'
  BY DEF Commit, SInv, TypeOK
<1>. QED
  BY <1>1 DEF SInv, ViewInv, Commit

LEMMA AutocommitKeeps ==
  ASSUME SInv, NEW db, Autocommit(db), Consistent(db)
  PROVE  SInv'
<1>1. TypeOK'
  BY DEF Autocommit, SInv, TypeOK, Consistent
<1>. QED
  BY <1>1 DEF SInv, ViewInv, Autocommit, Free

LEMMA UpsertSessionKeeps ==
  ASSUME SInv, UpsertSession
  PROVE  Kept
<1>1. ASSUME NEW s \in SessionId, NEW t \in Registered,
             Enter([op |-> "upsert_session", session |-> s, type |-> t, step |-> 1])
      PROVE  Kept
  <2>. DEFINE c == [op |-> "upsert_session", session |-> s, type |-> t, step |-> 1]
  <2>1. c \in Call
    BY DEF Call
  <2>. QED
    BY <1>1, <2>1, EnterKeeps
<1>2. CASE call # None /\ call.op = "upsert_session" /\ UpsertSession
  <2>1. /\ call \in [op: {"upsert_session"}, session: SessionId, type: Registered, step: 1..3]
        /\ call.session \in SessionId /\ call.type \in Registered
    BY <1>2, CallKinds DEF SInv, TypeOK
  <2>2. UpsertView /\ Consistent(file) /\ view \in Tables
    BY <1>2 DEF SInv, ViewInv, ViewOfCall, TypeOK
  <2>3. file \in Tables
    BY <2>2 DEF Consistent
  <2>4. CASE At("upsert_session", 1)
    <3>. DEFINE c == [call EXCEPT !.step = 2]
                db == PutSession(view, call.session, call.type)
    <3>1. c \in Call /\ c.op = "upsert_session" /\ c.step = 2
           /\ c.session = call.session /\ c.type = call.type
      BY <2>1 DEF Call
    <3>2. Statement(db, c)
      BY <2>4, <1>2 DEF UpsertSession, At, Enter, Free
    <3>3. view = file /\ db \in Tables
      BY <2>1, <2>2, <2>3, <2>4, PutSessionKeeps DEF At, UpsertView
    <3>4. ViewOfCall'
      BY <3>1, <3>2, <3>3 DEF Statement, ViewOfCall, UpsertView
    <3>. QED
      BY <1>2, <3>1, <3>2, <3>3, <3>4, StatementKeeps
  <2>5. CASE At("upsert_session", 2)
    <3>. DEFINE c == [call EXCEPT !.step = 3]
                db == PutIndex(view, call.session)
    <3>1. c \in Call /\ c.op = "upsert_session" /\ c.step = 3
           /\ c.session = call.session /\ c.type = call.type
      BY <2>1 DEF Call
    <3>2. Statement(db, c)
      BY <2>5, <1>2 DEF UpsertSession, At, Enter, Free
    <3>3. view = PutSession(file, call.session, call.type) /\ db \in Tables
      BY <2>1, <2>2, <2>5, PutIndexKeeps DEF At, UpsertView
    <3>4. ViewOfCall'
      BY <3>1, <3>2, <3>3 DEF Statement, ViewOfCall, UpsertView
    <3>. QED
      BY <1>2, <3>1, <3>2, <3>3, <3>4, StatementKeeps
  <2>6. CASE At("upsert_session", 3)
    <3>1. Commit
      BY <2>6, <1>2 DEF UpsertSession, At, Enter, Free
    <3>. DEFINE mid == PutSession(file, call.session, call.type)
    <3>2. view = PutIndex(mid, call.session)
      BY <2>2, <2>6 DEF At, UpsertView
    <3>3. Consistent(mid) /\ HasSession(mid, call.session)
      BY <2>1, <2>2, <2>3, PutSessionKeeps
    <3>4. Consistent(view)
      BY <2>1, <3>2, <3>3, PutIndexKeeps DEF Consistent
    <3>5. Whole!UpsertSession
      BY <2>1, <3>1, <3>2 DEF Commit, Whole!UpsertSession, Whole!PutIndex, Whole!PutSession,
         Whole!agent_type_to_string, PutIndex, PutSession, agent_type_to_string
    <3>. QED
      BY <1>2, <3>1, <3>4, <3>5, CommitKeeps DEF Kept, Whole!Next
  <2>. QED
    BY <1>2, <2>4, <2>5, <2>6 DEF UpsertSession, Enter, Free
<1>. QED
  BY <1>1, <1>2 DEF UpsertSession, At

LEMMA DeleteSessionKeeps ==
  ASSUME SInv, DeleteSession
  PROVE  Kept
<1>1. ASSUME NEW s \in SessionId,
             Enter([op |-> "delete_session", session |-> s, pid |-> None, step |-> 1])
      PROVE  Kept
  <2>. DEFINE c == [op |-> "delete_session", session |-> s, pid |-> None, step |-> 1]
  <2>1. c \in Call
    BY DEF Call
  <2>. QED
    BY <1>1, <2>1, EnterKeeps
<1>2. CASE call # None /\ call.op = "delete_session" /\ DeleteSession
  <2>. DEFINE s == call.session
  <2>1. /\ call \in [op: {"delete_session"}, session: SessionId, pid: Pid \cup {None}, step: 1..4]
        /\ s \in SessionId
    BY <1>2, CallKinds DEF SInv, TypeOK
  <2>2. DeleteView /\ Consistent(file) /\ view \in Tables
    BY <1>2 DEF SInv, ViewInv, ViewOfCall, TypeOK
  <2>3. file \in Tables /\ PidFound(file, s) \in Pid \cup {None}
    BY <2>1, <2>2, RowsAreNotNone DEF Consistent, PidFound
  <2>4. CASE At("delete_session", 1)
    <3>. DEFINE c == [call EXCEPT !.step = 2, !.pid = PidFound(view, s)]
    <3>1. view = file /\ PidFound(view, s) = PidFound(file, s)
      BY <2>2, <2>4 DEF At, DeleteView
    <3>2. /\ c \in Call /\ c.op = "delete_session" /\ c.step = 2
          /\ c.session = s /\ c.pid = PidFound(file, s)
      <4>. DEFINE K == [op: {"delete_session"}, session: SessionId, pid: Pid \cup {None}, step: 1..4]
                  d == [call EXCEPT !.step = 2]
      <4>1. d \in K /\ d.step = 2 /\ d.session = s
        BY <2>1
      <4>. HIDE DEF d
      <4>2. \A p \in Pid \cup {None} :
              LET e == [d EXCEPT !.pid = p] IN
                e \in K /\ e.op = "delete_session" /\ e.step = 2 /\ e.session = s /\ e.pid = p
        BY <4>1
      <4>3. K \subseteq Call
        BY DEF Call
      <4>. QED
        BY <2>3, <3>1, <4>2, <4>3 DEF d
    <3>3. Statement(view, c)
      BY <2>4, <1>2 DEF DeleteSession, At, Enter, Free, PidFound
    <3>4. ViewOfCall'
      BY <3>1, <3>2, <3>3 DEF Statement, ViewOfCall, DeleteView, PidFound, HasSession
    <3>. QED
      BY <1>2, <2>2, <3>2, <3>3, <3>4, StatementKeeps
  <2>5. CASE At("delete_session", 2)
    <3>. DEFINE c == [call EXCEPT !.step = 3]
                db == DropSession(view, s)
    <3>1. view = file /\ call.pid = PidFound(file, s)
      BY <2>2, <2>5 DEF At, DeleteView
    <3>2. /\ c \in Call /\ c.op = "delete_session" /\ c.step = 3
          /\ c.session = s /\ c.pid = PidFound(file, s)
      BY <2>1, <3>1 DEF Call
    <3>3. Statement(db, c)
      BY <2>5, <1>2 DEF DeleteSession, At, Enter, Free
    <3>4. db \in Tables
      BY <2>1, <2>2, DropSessionKeeps
    <3>5. ViewOfCall'
      BY <3>1, <3>2, <3>3 DEF Statement, ViewOfCall, DeleteView, PidFound, HasSession
    <3>. QED
      BY <1>2, <3>2, <3>3, <3>4, <3>5, StatementKeeps
  <2>6. CASE At("delete_session", 3)
    <3>. DEFINE c == [call EXCEPT !.step = 4]
                db == IF call.pid # None THEN DropIndex(view, call.pid) ELSE view
    <3>1. view = DropSession(file, s) /\ call.pid = PidFound(file, s)
      BY <2>2, <2>6 DEF At, DeleteView
    <3>2. c \in Call /\ c.op = "delete_session" /\ c.step = 4 /\ c.session = s
      BY <2>1 DEF Call
    <3>3. Statement(db, c)
      BY <2>6, <1>2 DEF DeleteSession, At, Enter, Free
    <3>4. db \in Tables
      BY <2>1, <2>2, DropIndexKeeps
    <3>5. db = Deleted(file, s)
      BY <2>1, <3>1, RowsAreNotNone DEF PidFound, Deleted
    <3>6. ViewOfCall'
      BY <3>2, <3>3, <3>5 DEF Statement, ViewOfCall, DeleteView, Deleted, HasSession
    <3>. QED
      BY <1>2, <3>2, <3>3, <3>4, <3>6, StatementKeeps
  <2>7. CASE At("delete_session", 4)
    <3>1. Commit
      BY <2>7, <1>2 DEF DeleteSession, At, Enter, Free
    <3>2. view = Deleted(file, s)
      BY <2>2, <2>7 DEF At, DeleteView
    <3>3. Consistent(DropSession(file, s)) /\ DropSession(file, s) \in Tables
      BY <2>1, <2>2, <2>3, DropSessionKeeps
    <3>4. Consistent(view)
      BY <2>1, <3>2, <3>3, DropIndexKeeps, RowsAreNotNone DEF Deleted
    <3>5. CASE HasSession(file, s)
      <4>1. Whole!DeleteSession
        BY <2>1, <3>1, <3>2, <3>5 DEF Commit, Deleted, Whole!DeleteSession, Whole!HasSession,
           Whole!HasThread, Whole!DropIndex, Whole!DropSession, Whole!DropThreads,
           HasSession, HasThread, DropIndex, DropSession, DropThreads
      <4>. QED
        BY <1>2, <3>1, <3>4, <4>1, CommitKeeps DEF Kept, Whole!Next
    <3>6. CASE ~HasSession(file, s)
      <4>1. file' = file
        BY <2>1, <2>2, <3>1, <3>2, <3>6, DropMissingSession DEF Commit, Deleted
      <4>. QED
        BY <1>2, <3>1, <3>4, <4>1, CommitKeeps DEF Kept
    <3>. QED
      BY <3>5, <3>6
  <2>. QED
    BY <1>2, <2>4, <2>5, <2>6, <2>7 DEF DeleteSession, Enter, Free
<1>. QED
  BY <1>1, <1>2 DEF DeleteSession, At

LEMMA DeleteThreadKeeps ==
  ASSUME SInv, DeleteThread
  PROVE  Kept
<1>1. ASSUME NEW h \in ThreadId, Enter([op |-> "delete_thread", thread |-> h, step |-> 1])
      PROVE  Kept
  <2>. DEFINE c == [op |-> "delete_thread", thread |-> h, step |-> 1]
  <2>1. c \in Call
    BY DEF Call
  <2>. QED
    BY <1>1, <2>1, EnterKeeps
<1>2. CASE call # None /\ call.op = "delete_thread" /\ DeleteThread
  <2>. DEFINE h == call.thread
  <2>1. call \in [op: {"delete_thread"}, thread: ThreadId, step: 1..3] /\ h \in ThreadId
    BY <1>2, CallKinds DEF SInv, TypeOK
  <2>2. DeleteThreadView /\ Consistent(file) /\ view \in Tables
    BY <1>2 DEF SInv, ViewInv, ViewOfCall, TypeOK
  <2>3. file \in Tables
    BY <2>2 DEF Consistent
  <2>4. CASE At("delete_thread", 1)
    <3>. DEFINE c == [call EXCEPT !.step = 2]
                db == DropParticipants(view, h)
    <3>1. c \in Call /\ c.op = "delete_thread" /\ c.step = 2 /\ c.thread = h
      BY <2>1 DEF Call
    <3>2. Statement(db, c)
      BY <2>4, <1>2 DEF DeleteThread, At, Enter, Free
    <3>3. view = file /\ db \in Tables
      BY <2>1, <2>2, <2>4, DropParticipantsFirst DEF At, DeleteThreadView
    <3>4. ViewOfCall'
      BY <3>1, <3>2, <3>3 DEF Statement, ViewOfCall, DeleteThreadView
    <3>. QED
      BY <1>2, <3>1, <3>2, <3>3, <3>4, StatementKeeps
  <2>5. CASE At("delete_thread", 2)
    <3>. DEFINE c == [call EXCEPT !.step = 3]
                db == DropThreads(view, {h})
    <3>1. c \in Call /\ c.op = "delete_thread" /\ c.step = 3 /\ c.thread = h
      BY <2>1 DEF Call
    <3>2. Statement(db, c)
      BY <2>5, <1>2 DEF DeleteThread, At, Enter, Free
    <3>3. view = DropParticipants(file, h) /\ db \in Tables
      BY <2>1, <2>2, <2>5, DropThreadsKeeps DEF At, DeleteThreadView
    <3>4. ViewOfCall'
      BY <3>1, <3>2, <3>3 DEF Statement, ViewOfCall, DeleteThreadView
    <3>. QED
      BY <1>2, <3>1, <3>2, <3>3, <3>4, StatementKeeps
  <2>6. CASE At("delete_thread", 3)
    <3>1. Commit
      BY <2>6, <1>2 DEF DeleteThread, At, Enter, Free
    <3>2. view = DropThreads(file, {h})
      BY <2>1, <2>2, <2>3, <2>6, DropParticipantsFirst DEF At, DeleteThreadView
    <3>3. Consistent(view)
      BY <2>1, <2>2, <2>3, <3>2, DropThreadsKeeps
    <3>4. Whole!DeleteThread
      BY <2>1, <3>1, <3>2 DEF Commit, Whole!DeleteThread, Whole!DropThreads, DropThreads
    <3>. QED
      BY <1>2, <3>1, <3>3, <3>4, CommitKeeps DEF Kept, Whole!Next
  <2>. QED
    BY <1>2, <2>4, <2>5, <2>6 DEF DeleteThread, Enter, Free
<1>. QED
  BY <1>1, <1>2 DEF DeleteThread, At

LEMMA MarkInboxReadKeeps ==
  ASSUME SInv, MarkInboxRead
  PROVE  Kept
<1>1. ASSUME NEW ids \in SUBSET MessageId, Enter([op |-> "mark_inbox_read", ids |-> ids])
      PROVE  Kept
  <2>. DEFINE c == [op |-> "mark_inbox_read", ids |-> ids]
  <2>1. c \in Call
    BY DEF Call
  <2>. QED
    BY <1>1, <2>1, EnterKeeps
<1>2. ASSUME call # None, call.op = "mark_inbox_read", NEW m \in call.ids,
             view' = MarkRead(view, m), file' = MarkRead(view, m),
             call' = IF call.ids = {m} THEN None ELSE [call EXCEPT !.ids = @ \ {m}],
             answer' = None, state' = state
      PROVE  Kept
  <2>1. call \in [op: {"mark_inbox_read"}, ids: SUBSET MessageId]
    BY <1>2, CallKinds DEF SInv, TypeOK
  <2>2. view = file /\ Consistent(file) /\ state = "open" /\ m \in MessageId
    BY <1>2, <2>1 DEF SInv, ViewInv, ViewOfCall
  <2>3. Consistent(file')
    BY <1>2, <2>2, MessagesKeep DEF Flag
  <2>4. call' = None \/ (call' \in Call /\ call'.op = "mark_inbox_read")
    BY <1>2, <2>1 DEF Call
  <2>5. TypeOK'
    BY <1>2, <2>3, <2>4 DEF SInv, TypeOK, Consistent
  <2>6. ViewInv'
    BY <1>2, <2>2, <2>4 DEF ViewInv, ViewOfCall
  <2>7. Whole!MarkOneRead
    BY <1>2, <2>2 DEF Whole!MarkOneRead, Whole!MarkRead, Whole!HasMessage, MarkRead, HasMessage
  <2>. QED
    BY <2>3, <2>5, <2>6, <2>7 DEF Kept, SInv, Whole!Next, Consistent
<1>. QED
  BY <1>1, <1>2 DEF MarkInboxRead

(* The methods of one statement: what they find is the file. *)
LEMMA AutocommitsKeep ==
  ASSUME SInv,
         \/ UpsertReservation \/ DeleteReservation \/ UpsertLiveState \/ InsertMessage
         \/ UpsertThread \/ AddThreadParticipant \/ RemoveThreadParticipant
  PROVE  Kept
<1>. Consistent(file)
  BY DEF SInv
<1>. /\ \A db : Autocommit(db) => view = file /\ file' = db
     /\ \A db : Autocommit(db) /\ Consistent(db) => SInv'
  BY AutocommitKeeps DEF Autocommit, Free, SInv, ViewInv
<1>1. ASSUME UpsertReservation PROVE Kept
  <2>1. PICK r \in ReservationId, s \in SessionId :
          HasSession(view, s) /\ Autocommit(PutReservation(view, r, s))
    BY <1>1 DEF UpsertReservation
  <2>2. SInv'
    BY <2>1, ReservationsKeep
  <2>3. Whole!UpsertReservation
    BY <2>1 DEF Whole!UpsertReservation, Whole!HasSession, Whole!PutReservation,
                HasSession, PutReservation
  <2>. QED
    BY <2>2, <2>3 DEF Kept, Whole!Next
<1>2. ASSUME DeleteReservation PROVE Kept
  <2>1. PICK r \in ReservationId : Autocommit(DropReservation(view, r))
    BY <1>2 DEF DeleteReservation
  <2>2. SInv'
    BY <2>1, ReservationsKeep
  <2>3. Whole!DeleteReservation
    BY <2>1 DEF Whole!DeleteReservation, Whole!DropReservation, DropReservation
  <2>. QED
    BY <2>2, <2>3 DEF Kept, Whole!Next
<1>3. ASSUME UpsertLiveState PROVE Kept
  <2>1. PICK s \in SessionId : HasSession(view, s) /\ Autocommit(PutLiveState(view, s))
    BY <1>3 DEF UpsertLiveState
  <2>2. SInv'
    BY <2>1, PutLiveStateKeeps
  <2>3. Whole!UpsertLiveState
    BY <2>1 DEF Whole!UpsertLiveState, Whole!HasSession, Whole!PutLiveState,
                HasSession, PutLiveState
  <2>. QED
    BY <2>2, <2>3 DEF Kept, Whole!Next
<1>4. ASSUME InsertMessage PROVE Kept
  <2>1. PICK m \in MessageId, flag \in Flag : Autocommit(PutMessage(view, m, flag))
    BY <1>4 DEF InsertMessage
  <2>2. SInv'
    BY <2>1, MessagesKeep
  <2>3. Whole!InsertMessage
    BY <2>1 DEF Whole!InsertMessage, Whole!PutMessage, Whole!Flag, PutMessage, Flag
  <2>. QED
    BY <2>2, <2>3 DEF Kept, Whole!Next
<1>5. ASSUME UpsertThread PROVE Kept
  <2>1. PICK h \in ThreadId, s \in SessionId, status \in ThreadStatus :
          /\ HasThread(view, h) \/ HasSession(view, s)
          /\ Autocommit(PutThread(view, h, s, status))
    BY <1>5 DEF UpsertThread
  <2>2. SInv'
    BY <2>1, PutThreadKeeps
  <2>3. Whole!UpsertThread
    BY <2>1 DEF Whole!UpsertThread, Whole!HasThread, Whole!HasSession, Whole!PutThread,
                Whole!ThreadStatus, HasThread, HasSession, PutThread, ThreadStatus
  <2>. QED
    BY <2>2, <2>3 DEF Kept, Whole!Next
<1>6. ASSUME AddThreadParticipant PROVE Kept
  <2>1. PICK h \in ThreadId, s \in SessionId :
          HasThread(view, h) /\ HasSession(view, s) /\ Autocommit(AddParticipant(view, h, s))
    BY <1>6 DEF AddThreadParticipant
  <2>2. SInv'
    BY <2>1, ParticipantsKeep
  <2>3. Whole!AddMember
    BY <2>1 DEF Whole!AddMember, Whole!HasThread, Whole!HasSession, Whole!AddParticipant,
                HasThread, HasSession, AddParticipant
  <2>. QED
    BY <2>2, <2>3 DEF Kept, Whole!Next
<1>7. ASSUME RemoveThreadParticipant PROVE Kept
  <2>1. PICK h \in ThreadId, s \in SessionId : Autocommit(RemoveParticipant(view, h, s))
    BY <1>7 DEF RemoveThreadParticipant
  <2>2. SInv'
    BY <2>1, ParticipantsKeep
  <2>3. Whole!RemoveMember
    BY <2>1 DEF Whole!RemoveMember, Whole!RemoveParticipant, RemoveParticipant
  <2>. QED
    BY <2>2, <2>3 DEF Kept, Whole!Next
<1>. QED
  BY <1>1, <1>2, <1>3, <1>4, <1>5, <1>6, <1>7

(* Opening the file: a migration changes it at its end or not at all. *)
LEMMA OpeningKeeps ==
  ASSUME SInv, Open \/ CreateSchema \/ FinishMigration
  PROVE  Kept
<1>. Consistent(file) /\ file \in Tables
  BY DEF SInv, Consistent
<1>1. ASSUME Open PROVE Kept
  <2>1. call = None
    BY <1>1 DEF Open, SInv, ViewInv
  <2>. QED
    BY <1>1, <2>1 DEF Kept, Open, SInv, TypeOK, ViewInv
<1>2. ASSUME CreateSchema PROVE Kept
  <2>0. CreateTables(file).created = TRUE
    BY DEF CreateTables, Tables
  <2>1. call = None /\ view = file
    BY <1>2, <2>0 DEF CreateSchema, SInv, ViewInv
  <2>2. view' = CreateTables(file) /\ view' \in Tables
    BY <1>2, <2>1, MigrationKeeps DEF CreateSchema
  <2>. QED
    BY <1>2, <2>1, <2>2 DEF Kept, CreateSchema, SInv, TypeOK, ViewInv
<1>3. ASSUME FinishMigration PROVE Kept
  <2>1. call = None /\ view = CreateTables(file)
    BY <1>3, MigrationKeeps DEF FinishMigration, SInv, ViewInv
  <2>2. file' = SetVersion(CreateTables(file)) /\ view' = file' /\ state' = "open"
    BY <1>3, <2>1 DEF FinishMigration
  <2>3. Consistent(file')
    BY <2>2, MigrationKeeps
  <2>4. SInv'
    BY <1>3, <2>1, <2>2, <2>3 DEF FinishMigration, SInv, TypeOK, ViewInv, Consistent
  <2>5. Whole!Migrate
    BY <2>2 DEF Whole!Migrate, Whole!SetVersion, Whole!CreateTables, Whole!SCHEMA_VERSION,
                SetVersion, CreateTables, SCHEMA_VERSION
  <2>. QED
    BY <2>4, <2>5 DEF Kept, Whole!Next
<1>. QED
  BY <1>1, <1>2, <1>3

(* Queries, errors and crashes leave the file alone. *)
LEMMA OthersKeep ==
  ASSUME SInv, Select \/ Fail \/ Crash \/ UNCHANGED vars
  PROVE  Kept
<1>. Consistent(file) /\ file \in Tables
  BY DEF SInv, Consistent
<1>1. ASSUME Select PROVE Kept
  BY <1>1 DEF Select, Kept, SInv, TypeOK, ViewInv, Free
<1>2. ASSUME Fail PROVE Kept
  BY <1>2 DEF Fail, Kept, SInv, TypeOK, ViewInv
<1>3. ASSUME Crash PROVE Kept
  BY <1>3 DEF Crash, Kept, SInv, TypeOK, ViewInv
<1>4. ASSUME UNCHANGED vars PROVE Kept
  BY <1>4 DEF vars, Kept, SInv, TypeOK, ViewInv, ViewOfCall, UpsertView, DeleteView,
              DeleteThreadView
<1>. QED
  BY <1>1, <1>2, <1>3, <1>4

LEMMA StepKeeps == ASSUME SInv, [Next]_vars PROVE Kept
BY OpeningKeeps, UpsertSessionKeeps, DeleteSessionKeeps, AutocommitsKeep, MarkInboxReadKeeps,
   DeleteThreadKeeps, OthersKeep DEF Next

LEMMA InitKeeps == Init => SInv /\ Whole!Init
<1>. SUFFICES ASSUME Init PROVE SInv /\ Whole!Init
  OBVIOUS
<1>1. NoTables \in Tables
  BY DEF NoTables, Tables, SCHEMA_VERSION
<1>2. Consistent(NoTables)
  BY <1>1 DEF Consistent, ForeignKeysHold, NoTables, HasThread, HasSession, SCHEMA_VERSION
<1>. QED
  BY <1>1, <1>2 DEF Init, SInv, TypeOK, ViewInv, Whole!Init, Whole!NoTables, NoTables

-----------------------------------------------------------------------------
(* The results.                                                             *)

(* The invariant: the file is consistent, and while a method holds the lock *)
(* the connection sees the file with the statements of that method so far.  *)
THEOREM StoreInductive == Spec => []SInv
<1>1. Init => SInv
  BY InitKeeps
<1>2. SInv /\ [Next]_vars => SInv'
  BY StepKeeps DEF Kept
<1>. QED
  BY <1>1, <1>2, PTL DEF Spec

(* Every variable of the store has its type. *)
THEOREM StoreTypeCorrect == Spec => []TypeOK
<1>1. SInv => TypeOK
  BY DEF SInv
<1>. QED
  BY <1>1, StoreInductive, PTL

(* No row of the file refers to a missing one, whatever fails and whenever  *)
(* the process dies.                                                        *)
THEOREM ReferencesAlwaysResolve == Spec => []ReferencesResolve
<1>1. SInv => ReferencesResolve
  BY DEF SInv, Consistent, ReferencesResolve
<1>. QED
  BY <1>1, StoreInductive, PTL

(* No method meets the open transaction of another one. *)
THEOREM NoTransactionIsInherited == Spec => []NoOpenTransaction
<1>1. SInv => NoOpenTransaction
  BY DEF SInv, ViewInv, NoOpenTransaction
<1>. QED
  BY <1>1, StoreInductive, PTL

(* The text of an agent type stands for that type only, whatever the names  *)
(* of custom types.                                                         *)
LEMMA TypesRoundTrip ==
  ASSUME NEW t \in AgentType
  PROVE  agent_type_from_string(agent_type_to_string(t)) = t
<1>1. CASE t \in [kind: BuiltIn]
  <2>1. t = [kind |-> t.kind] /\ t.kind \in BuiltIn
    BY <1>1
  <2>2. agent_type_to_string(t) = <<t.kind>>
    BY <2>1 DEF agent_type_to_string, BuiltIn
  <2>3. agent_type_from_string(<<t.kind>>) = [kind |-> t.kind]
    BY <2>1 DEF agent_type_from_string, BuiltIn
  <2>. QED
    BY <2>1, <2>2, <2>3
<1>2. CASE t \in [kind: {"custom"}, name: Custom]
  <2>1. t = [kind |-> "custom", name |-> t.name]
    BY <1>2
  <2>2. agent_type_to_string(t) = <<"custom:", t.name>>
    BY <2>1 DEF agent_type_to_string
  <2>3. agent_type_from_string(<<"custom:", t.name>>) = [kind |-> "custom", name |-> t.name]
    BY DEF agent_type_from_string, BuiltIn
  <2>. QED
    BY <2>1, <2>2, <2>3
<1>. QED
  BY <1>1, <1>2 DEF AgentType

(* A session that is written is read back with the type it was written with.*)
THEOREM TypesAreKept == Spec => []TextIsExact
<1>1. ASSUME SInv PROVE TextIsExact
  <2>. SUFFICES ASSUME NEW s \in SessionId, NEW t \in Registered,
                       At("upsert_session", 2), call.session = s, call.type = t
                PROVE  get_session(view, s) = t
    BY DEF TextIsExact
  <2>1. file \in Tables /\ view = PutSession(file, s, t)
    BY <1>1 DEF SInv, Consistent, ViewInv, ViewOfCall, UpsertView, At
  <2>2. HasSession(view, s)
    BY <2>1, PutSessionKeeps
  <2>3. view.sessions[s] = agent_type_to_string(t)
    BY <2>1 DEF PutSession, Tables
  <2>. QED
    BY <2>2, <2>3, TypesRoundTrip, TypeAssumption DEF get_session, row_to_session
<1>. QED
  BY <1>1, StoreInductive, PTL

(* A query answers from what is committed. *)
THEOREM AnswersComeFromTheFile == Spec => AnswersAreCommitted
<1>1. ASSUME SInv, [Next]_vars
      PROVE  [answer' # answer /\ answer' # None => answer'.result = Result(answer'.query, file)]_vars
  <2>1. CASE Select
    BY <1>1, <2>1 DEF Select, Free, SInv, ViewInv
  <2>2. CASE ~Select /\ Next
    <3>1. answer' = None
      BY <2>2 DEF Next, Open, CreateSchema, FinishMigration, UpsertSession, DeleteSession,
         UpsertReservation, DeleteReservation, UpsertLiveState, InsertMessage, MarkInboxRead,
         UpsertThread, DeleteThread, AddThreadParticipant, RemoveThreadParticipant, Fail, Crash,
         Enter, Statement, Commit, Autocommit
    <3>. QED
      BY <3>1
  <2>. QED
    BY <1>1, <2>1, <2>2
<1>. QED
  BY <1>1, StoreInductive, PTL DEF Spec, AnswersAreCommitted

(* The store implements AtomicStore: of a transaction the file takes the    *)
(* commit as one step, and nothing else.                                    *)
THEOREM ImplementsAtomicStore == Spec => ChangesAreWhole
<1>1. Init => Whole!Init
  BY InitKeeps
<1>2. SInv /\ [Next]_vars => [Whole!Next]_file
  BY StepKeeps DEF Kept
<1>. QED
  BY <1>1, <1>2, StoreInductive, PTL DEF Spec, ChangesAreWhole, Whole!Spec

=============================================================================
