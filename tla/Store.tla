-------------------------------- MODULE Store --------------------------------
(***************************************************************************)
(* The SQLite store of the daemon (teamcomm-daemon/src/db.rs): a file, one  *)
(* connection behind a Mutex, and methods that run one statement each, or   *)
(* several in a transaction, or several one by one (mark_inbox_read).       *)
(*                                                                         *)
(* The Mutex admits one method at a time and callers wait for it without    *)
(* state, so `call` is the method that holds it.  A statement changes what  *)
(* the connection sees; the file follows at the commit, which is part of    *)
(* the statement outside a transaction.  Any statement may fail, and the    *)
(* process may die between any two.  No handler calls the store yet: the    *)
(* methods are called in any order, with the ids and the pids of sessions   *)
(* that the daemon could hold.                                              *)
(***************************************************************************)
EXTENDS StoreTables

VARIABLES
  file,    \* the tables in the file, as another reader of it sees them
  view,    \* the tables as the connection sees them
  state,   \* the process: "down", "migrating" (in from_connection) or "open"
  call,    \* the method that holds the lock and its next statement, or None
  answer   \* history: the query just made and what it returned, or None

vars == <<file, view, state, call, answer>>

(* Multi-statement methods; the others are done in one step. *)
Call ==
  [op: {"upsert_session"}, session: SessionId, type: Registered, step: 1..3]
    \cup [op: {"delete_session"}, session: SessionId, pid: Pid \cup {None}, step: 1..4]
    \cup [op: {"delete_thread"}, thread: ThreadId, step: 1..3]
    \cup [op: {"mark_inbox_read"}, ids: SUBSET MessageId]

ASSUME CallAssumption == None \notin Call

Query ==
  [of: {"get_session", "get_live_state", "list_inbox"}, key: SessionId]
    \cup [of: {"get_session_by_pid"}, key: Pid]
    \cup [of: {"get_inbox_message"}, key: MessageId]
    \cup [of: {"get_thread", "list_thread_participants", "count_inbox_for_thread"}, key: ThreadId]
    \cup [of: {"list_threads"}, key: BOOLEAN]
    \cup [of: {"list_sessions", "list_reservations", "list_live_state"}]

(* What a query returns over the tables db. *)
Result(q, db) ==
  CASE q.of = "get_session" -> get_session(db, q.key)
    [] q.of = "get_session_by_pid" -> get_session_by_pid(db, q.key)
    [] q.of = "get_live_state" -> get_live_state(db, q.key)
    [] q.of = "get_inbox_message" -> get_inbox_message(db, q.key)
    [] q.of = "get_thread" -> get_thread(db, q.key)
    [] q.of = "list_sessions" -> list_sessions(db)
    [] q.of = "list_reservations" -> list_reservations(db)
    [] q.of = "list_live_state" -> list_live_state(db)
    [] q.of = "list_inbox" -> list_inbox(db, q.key)
    [] q.of = "list_threads" -> list_threads(db, q.key)
    [] q.of = "list_thread_participants" -> list_thread_participants(db, q.key)
    [] q.of = "count_inbox_for_thread" -> count_inbox_for_thread(db, q.key)

Free == state = "open" /\ call = None
At(op, step) == call # None /\ call.op = op /\ call.step = step

-----------------------------------------------------------------------------

Init ==
  /\ file = NoTables
  /\ view = NoTables
  /\ state = "down"
  /\ call = None
  /\ answer = None

(* The lock is taken. *)
Enter(c) ==
  /\ Free
  /\ call' = c
  /\ answer' = None
  /\ UNCHANGED <<file, view, state>>

(* A statement within a transaction; the next one is due. *)
Statement(db, c) ==
  /\ view' = db
  /\ call' = c
  /\ answer' = None
  /\ UNCHANGED <<file, state>>

(* tx.commit() and the end of the method. *)
Commit ==
  /\ file' = view
  /\ call' = None
  /\ answer' = None
  /\ UNCHANGED <<view, state>>

(* A method of one statement outside a transaction. *)
Autocommit(db) ==
  /\ Free
  /\ view' = db
  /\ file' = db
  /\ answer' = None
  /\ UNCHANGED <<state, call>>

-----------------------------------------------------------------------------

(* from_connection: a transaction is begun over what is in the file. *)
Open ==
  /\ state = "down"
  /\ state' = "migrating"
  /\ view' = file
  /\ answer' = None
  /\ UNCHANGED <<file, call>>

CreateSchema ==
  /\ state = "migrating" /\ ~view.created /\ view.user_version < 1
  /\ view' = CreateTables(view)
  /\ answer' = None
  /\ UNCHANGED <<file, state, call>>

FinishMigration ==
  /\ state = "migrating" /\ (view.created \/ view.user_version >= 1)
  /\ view' = SetVersion(view)
  /\ file' = SetVersion(view)
  /\ state' = "open"
  /\ answer' = None
  /\ UNCHANGED call

UpsertSession ==
  \/ \E s \in SessionId, type \in Registered :
       Enter([op |-> "upsert_session", session |-> s, type |-> type, step |-> 1])
  \/ /\ At("upsert_session", 1)
     /\ Statement(PutSession(view, call.session, call.type), [call EXCEPT !.step = 2])
  \/ /\ At("upsert_session", 2)
     /\ Statement(PutIndex(view, call.session), [call EXCEPT !.step = 3])
  \/ At("upsert_session", 3) /\ Commit

(* Mutant: no transaction: each statement is written to the file. *)
DeleteSession_NoTransaction ==
  \/ \E s \in SessionId :
       Enter([op |-> "delete_session", session |-> s, pid |-> None, step |-> 1])
  \/ /\ At("delete_session", 1)
     /\ Statement(view, [call EXCEPT !.step = 2,
                                     !.pid = IF HasSession(view, call.session)
                                             THEN PidOf[call.session] ELSE None])
  \/ /\ At("delete_session", 2)
     /\ file' = DropSession(view, call.session)
     /\ view' = file'
     /\ call' = [call EXCEPT !.step = 3]
     /\ answer' = None
     /\ UNCHANGED state
  \/ /\ At("delete_session", 3)
     /\ Statement(IF call.pid # None THEN DropIndex(view, call.pid) ELSE view,
                  [call EXCEPT !.step = 4])
  \/ At("delete_session", 4) /\ Commit

(* The pid is looked up, the row deleted, then the index entry of the pid.  *)
DeleteSession ==
  \/ \E s \in SessionId :
       Enter([op |-> "delete_session", session |-> s, pid |-> None, step |-> 1])
  \/ /\ At("delete_session", 1)
     /\ Statement(view, [call EXCEPT !.step = 2,
                                     !.pid = IF HasSession(view, call.session)
                                             THEN PidOf[call.session] ELSE None])
  \/ /\ At("delete_session", 2)
     /\ Statement(DropSession(view, call.session), [call EXCEPT !.step = 3])
  \/ /\ At("delete_session", 3)
     /\ Statement(IF call.pid # None THEN DropIndex(view, call.pid) ELSE view,
                  [call EXCEPT !.step = 4])
  \/ At("delete_session", 4) /\ Commit

(* A foreign key that does not resolve fails the statement. *)
UpsertReservation ==
  \E r \in ReservationId, s \in SessionId :
    HasSession(view, s) /\ Autocommit(PutReservation(view, r, s))

DeleteReservation == \E r \in ReservationId : Autocommit(DropReservation(view, r))

(* Mutant: foreign keys are off, as they are by default. *)
UpsertLiveState_NoForeignKey == \E s \in SessionId : Autocommit(PutLiveState(view, s))

UpsertLiveState ==
  \E s \in SessionId : HasSession(view, s) /\ Autocommit(PutLiveState(view, s))

(* A message that is inserted again may be unread again. *)
InsertMessage ==
  \E m \in MessageId, flag \in Flag : Autocommit(PutMessage(view, m, flag))

(* No transaction: a crash or an error leaves the rest of the ids unread. *)
MarkInboxRead ==
  \/ \E ids \in SUBSET MessageId \ {{}} : Enter([op |-> "mark_inbox_read", ids |-> ids])
  \/ /\ call # None /\ call.op = "mark_inbox_read"
     /\ \E m \in call.ids :
          /\ view' = MarkRead(view, m)
          /\ file' = MarkRead(view, m)
          /\ call' = IF call.ids = {m} THEN None ELSE [call EXCEPT !.ids = @ \ {m}]
     /\ answer' = None
     /\ UNCHANGED state

(* Mutant: the status is not parsed. *)
UpsertThread_AnyStatus ==
  \E h \in ThreadId, s \in SessionId, status \in ThreadStatus \cup {"deleted"} :
    (HasThread(view, h) \/ HasSession(view, s)) /\ Autocommit(PutThread(view, h, s, status))

(* The creator is checked only when the row is new. *)
UpsertThread ==
  \E h \in ThreadId, s \in SessionId, status \in ThreadStatus :
    (HasThread(view, h) \/ HasSession(view, s)) /\ Autocommit(PutThread(view, h, s, status))

DeleteThread ==
  \/ \E h \in ThreadId : Enter([op |-> "delete_thread", thread |-> h, step |-> 1])
  \/ /\ At("delete_thread", 1)
     /\ Statement(DropParticipants(view, call.thread), [call EXCEPT !.step = 2])
  \/ /\ At("delete_thread", 2)
     /\ Statement(DropThreads(view, {call.thread}), [call EXCEPT !.step = 3])
  \/ At("delete_thread", 3) /\ Commit

(* INSERT OR IGNORE passes over a row that is there, not a missing key. *)
AddThreadParticipant ==
  \E h \in ThreadId, s \in SessionId :
    HasThread(view, h) /\ HasSession(view, s) /\ Autocommit(AddParticipant(view, h, s))

RemoveThreadParticipant ==
  \E h \in ThreadId, s \in SessionId : Autocommit(RemoveParticipant(view, h, s))

(* Mutant: a query does not wait for the lock. *)
Select_NoLock ==
  /\ state = "open"
  /\ \E q \in Query : answer' = [query |-> q, result |-> Result(q, view)]
  /\ UNCHANGED <<file, view, state, call>>

(* The get_, list_ and count_ methods, over what the connection sees. *)
Select ==
  /\ Free
  /\ \E q \in Query : answer' = [query |-> q, result |-> Result(q, view)]
  /\ UNCHANGED <<file, view, state, call>>

(* Mutant: an error leaves the transaction open. *)
Fail_NoRollback ==
  /\ call # None
  /\ call' = None
  /\ answer' = None
  /\ UNCHANGED <<file, view, state>>

(* A statement returns an error (disk full, I/O) or its thread panics: the  *)
(* transaction is dropped, which rolls it back, and the lock is given up.   *)
Fail ==
  /\ call # None
  /\ call' = None
  /\ view' = file
  /\ answer' = None
  /\ UNCHANGED <<file, state>>

(* The process dies; the write-ahead log holds what was committed. *)
Crash ==
  /\ state # "down"
  /\ state' = "down"
  /\ view' = file
  /\ call' = None
  /\ answer' = None
  /\ UNCHANGED file

Next ==
  \/ Open
  \/ CreateSchema
  \/ FinishMigration
  \/ UpsertSession
  \/ DeleteSession
  \/ UpsertReservation
  \/ DeleteReservation
  \/ UpsertLiveState
  \/ InsertMessage
  \/ MarkInboxRead
  \/ UpsertThread
  \/ DeleteThread
  \/ AddThreadParticipant
  \/ RemoveThreadParticipant
  \/ Select
  \/ Fail
  \/ Crash

Spec == Init /\ [][Next]_vars

=============================================================================
