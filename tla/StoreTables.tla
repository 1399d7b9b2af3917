---------------------------- MODULE StoreTables ----------------------------
(***************************************************************************)
(* The tables of the SQLite store (teamcomm-daemon/src/db.rs, SCHEMA_V1)    *)
(* and what each SQL statement of the store does to them, as a function     *)
(* from the tables before to the tables after.  Columns that no statement   *)
(* and no foreign key looks at are left out.  A table is a function from    *)
(* its primary key to a row or None; one whose rows hold nothing else is a  *)
(* set of keys.  SQLite itself is not code of the repository: statements    *)
(* are atomic, foreign keys are on and cascade (from_connection).           *)
(* SCHEMA_V1 is taken for what it means to say: as written, SQLite rejects  *)
(* its column `references` (db.rs:597), which is a reserved word.           *)
(***************************************************************************)
EXTENDS Integers, Sequences

CONSTANTS
  SessionId, ReservationId, MessageId, ThreadId,
  Pid,
  PidOf,      \* the pid of a session: the daemon never changes it
  Recipient,  \* the session a message is for
  ThreadOf,   \* the thread a message is tagged with, or None
  Custom,     \* names of custom agent types
  Registered, \* the agent types that sessions register with
  None        \* an absent row

ASSUME StoreAssumption == PidOf \in [SessionId -> Pid]

SCHEMA_VERSION == 1

-----------------------------------------------------------------------------
(* The text columns that stand for an enumeration.                          *)

BuiltIn == {"forge", "codex", "claude", "copilot"}
AgentType == [kind: BuiltIn] \cup [kind: {"custom"}, name: Custom]

ASSUME TypeAssumption == Registered \subseteq AgentType

(* Mutant: a custom type is stored under its bare name. *)
agent_type_to_string_Bare(t) ==
  IF t.kind = "custom" THEN <<t.name>> ELSE <<t.kind>>

(* A text is the sequence of its parts: a custom type is "custom:" followed *)
(* by its name, which may be that of a built-in type.                       *)
agent_type_to_string(t) ==
  IF t.kind = "custom" THEN <<"custom:", t.name>> ELSE <<t.kind>>

agent_type_from_string(s) ==
  CASE Head(s) = "custom:" -> [kind |-> "custom", name |-> s[2]]
    [] Head(s) \in BuiltIn -> [kind |-> Head(s)]
    [] OTHER -> [kind |-> "custom", name |-> Head(s)]

-----------------------------------------------------------------------------

ThreadStatus == {"active", "archived"}

AgentTypeText == {agent_type_to_string(t) : t \in Registered}
ThreadRow == [created_by: SessionId, status: ThreadStatus]
Flag == {"unread", "read"}

(* None is no value of a column. *)
ASSUME NoneAssumption == None \notin SessionId \cup Pid \cup AgentTypeText \cup ThreadRow \cup Flag

Tables ==
  [created: BOOLEAN,  \* the CREATE statements of SCHEMA_V1 ran
   user_version: 0..SCHEMA_VERSION,
   sessions: [SessionId -> AgentTypeText \cup {None}],
   sessions_by_pid: [Pid -> SessionId \cup {None}],
   reservations: [ReservationId -> SessionId \cup {None}],  \* the holder
   live_state: SUBSET SessionId,
   inbox_messages: [MessageId -> Flag \cup {None}],
   threads: [ThreadId -> ThreadRow \cup {None}],
   thread_participants: SUBSET (ThreadId \X SessionId)]

NoTables ==
  [created |-> FALSE,
   user_version |-> 0,
   sessions |-> [s \in SessionId |-> None],
   sessions_by_pid |-> [p \in Pid |-> None],
   reservations |-> [r \in ReservationId |-> None],
   live_state |-> {},
   inbox_messages |-> [m \in MessageId |-> None],
   threads |-> [h \in ThreadId |-> None],
   thread_participants |-> {}]

HasSession(db, s) == db.sessions[s] # None
HasThread(db, h) == db.threads[h] # None
HasMessage(db, m) == db.inbox_messages[m] # None

(* The FOREIGN KEY clauses of SCHEMA_V1.  The inbox has none: its messages  *)
(* outlive sender, recipient and thread.                                    *)
ForeignKeysHold(db) ==
  /\ \A p \in Pid : db.sessions_by_pid[p] # None => HasSession(db, db.sessions_by_pid[p])
  /\ \A r \in ReservationId : db.reservations[r] # None => HasSession(db, db.reservations[r])
  /\ \A s \in db.live_state : HasSession(db, s)
  /\ \A h \in ThreadId : HasThread(db, h) => HasSession(db, db.threads[h].created_by)
  /\ \A hs \in db.thread_participants : HasThread(db, hs[1]) /\ HasSession(db, hs[2])

-----------------------------------------------------------------------------
(* Statements.                                                              *)

CreateTables(db) == [db EXCEPT !.created = TRUE]
SetVersion(db) == [db EXCEPT !.user_version = SCHEMA_VERSION]

(* INSERT .. ON CONFLICT DO UPDATE: the row is replaced. *)
PutSession(db, s, type) ==
  [db EXCEPT !.sessions[s] = agent_type_to_string(type)]

PutIndex(db, s) == [db EXCEPT !.sessions_by_pid[PidOf[s]] = s]

(* A thread goes with its participants. *)
DropThreads(db, gone) ==
  [db EXCEPT
     !.threads = [h \in ThreadId |-> IF h \in gone THEN None ELSE @[h]],
     !.thread_participants = {hs \in @ : hs[1] \notin gone}]

(* ON DELETE CASCADE: what refers to the session goes, with the threads it  *)
(* created and their participants.                                          *)
DropSession(db, s) ==
  LET created == {h \in ThreadId : HasThread(db, h) /\ db.threads[h].created_by = s} IN
  [DropThreads(db, created) EXCEPT
     !.sessions[s] = None,
     !.sessions_by_pid = [p \in Pid |-> IF @[p] = s THEN None ELSE @[p]],
     !.reservations = [r \in ReservationId |-> IF @[r] = s THEN None ELSE @[r]],
     !.live_state = @ \ {s},
     !.thread_participants = {hs \in @ : hs[2] # s}]

DropIndex(db, p) == [db EXCEPT !.sessions_by_pid[p] = None]

PutReservation(db, r, s) == [db EXCEPT !.reservations[r] = s]
DropReservation(db, r) == [db EXCEPT !.reservations[r] = None]

PutLiveState(db, s) == [db EXCEPT !.live_state = @ \cup {s}]

(* On a conflict only the flag is taken over. *)
PutMessage(db, m, flag) == [db EXCEPT !.inbox_messages[m] = flag]

MarkRead(db, m) ==
  [db EXCEPT !.inbox_messages[m] = IF HasMessage(db, m) THEN "read" ELSE None]

(* On a conflict title, topic and status are taken over, never the creator. *)
PutThread(db, h, by, status) ==
  [db EXCEPT !.threads[h] =
     [created_by |-> IF HasThread(db, h) THEN @.created_by ELSE by, status |-> status]]

DropParticipants(db, h) ==
  [db EXCEPT !.thread_participants = {hs \in @ : hs[1] # h}]
AddParticipant(db, h, s) == [db EXCEPT !.thread_participants = @ \cup {<<h, s>>}]
RemoveParticipant(db, h, s) == [db EXCEPT !.thread_participants = @ \ {<<h, s>>}]

-----------------------------------------------------------------------------
(* Queries.                                                                 *)

row_to_session(row) == agent_type_from_string(row)

get_session(db, s) ==
  IF HasSession(db, s) THEN row_to_session(db.sessions[s]) ELSE None

(* The join of the index with the sessions. *)
get_session_by_pid(db, p) ==
  {s \in SessionId : db.sessions_by_pid[p] = s /\ HasSession(db, s)}

get_live_state(db, s) == s \in db.live_state
get_inbox_message(db, m) == db.inbox_messages[m]
get_thread(db, h) == db.threads[h]

list_sessions(db) == {s \in SessionId : HasSession(db, s)}
list_reservations(db) == {r \in ReservationId : db.reservations[r] # None}
list_live_state(db) == db.live_state
list_inbox(db, s) == {m \in MessageId : HasMessage(db, m) /\ Recipient[m] = s}

list_threads(db, include_archived) ==
  {h \in ThreadId : HasThread(db, h) /\ (include_archived \/ db.threads[h].status = "active")}

list_thread_participants(db, h) ==
  {s \in SessionId : <<h, s>> \in db.thread_participants}

count_inbox_for_thread(db, h) == {m \in MessageId : HasMessage(db, m) /\ ThreadOf[m] = h}

=============================================================================
