----------------------------- MODULE Coordinator -----------------------------
(***************************************************************************)
(* The core of the teamcomm daemon: connection tasks (listener.rs) that run *)
(* the session.* and reservation.* handlers (handlers.rs) against the       *)
(* state behind one RwLock (state.rs).                                      *)
(*                                                                         *)
(* Three handlers read the wall clock and only then wait for the lock:      *)
(* register, heartbeat and claim.  They are two steps here, Begin (parse    *)
(* and read the clock) and Finish (the body under the write lock), with any *)
(* number of steps of other tasks in between; `task` is what a connection   *)
(* task carries across that await.  The other handlers keep nothing across  *)
(* their await, so each is one step, taken at its lock.                     *)
(***************************************************************************)
EXTENDS SessionTable, FiniteSets

CONSTANTS
  Conn,           \* connection tasks of the listener
  ReservationId,  \* reservation ids the daemon may mint; bounds the claims
  Path,           \* paths an agent may claim
  Ttl,            \* values of `ttl_sec` a request may carry (u64)
  TwoTo63,        \* 2^63: `ttl_sec as i64` wraps from here on
  MaxSeconds,     \* i64::MAX / 1000: what chrono::Duration::seconds accepts
  MaxTime         \* bound on the clock

ASSUME CoordinatorAssumption ==
  /\ Ttl \subseteq Nat
  /\ TwoTo63 \in Nat
  /\ MaxSeconds \in Nat
  /\ MaxTime \in Nat
  /\ None \notin ReservationId

Mode == {"read", "write", "exclusive"}

Reservation == [session_id: SessionId, path: Path, mode: Mode,
                acquired_at: Nat, expires_at: Int]

ASSUME ReservationAssumption == None \notin Reservation

VARIABLES
  clock,         \* the wall clock in seconds; assumed not to step back
  task,          \* what each connection task carries to the lock, or Idle
  reservations,  \* reservation id -> reservation record or None
  told           \* history: the conflicts the reply to a present reservation's claim listed

coordinator_vars == <<clock, task, reservations, told>>
vars == <<table_vars, coordinator_vars>>

Idle == [op |-> "idle"]
RegisterTask == [op: {"register"}, pid: Pid, profile: Profile, now: Nat]
HeartbeatTask == [op: {"heartbeat"}, session_id: SessionId, now: Nat]
ClaimTask == [op: {"claim"}, session_id: SessionId, path: Path, mode: Mode,
              now: Nat, expires: Int]

Task == {Idle} \cup RegisterTask \cup HeartbeatTask \cup ClaimTask

Present(r) == reservations[r] # None
Live(r) == Present(r) /\ reservations[r].expires_at > clock

(* Ids a client can name: it got them from a reply. *)
KnownSessions == SessionId \cap minted
KnownReservations == ReservationId \cap minted

-----------------------------------------------------------------------------

(* `ttl_sec as i64`: two's complement of the same 64 bits. *)
AsI64(u) == IF u < TwoTo63 THEN u ELSE u - 2 * TwoTo63

(* chrono::Duration::seconds panics outside this range.  The panic unwinds  *)
(* the connection task before it reaches the lock, so such a request leaves *)
(* no trace: its connection ends and the slot is free for a new one.        *)
FitsDuration(secs) == -MaxSeconds <= secs /\ secs <= MaxSeconds

(* Mutant: only the stronger claim looks at the weaker one. *)
mode_conflicts_OneWay(new, existing) ==
  \/ new = "write" /\ existing \in {"write", "exclusive"}
  \/ new = "exclusive"

mode_conflicts(new, existing) ==
  \/ new = "read" /\ existing = "exclusive"
  \/ new = "write" /\ existing \in {"write", "exclusive"}
  \/ new = "exclusive"

(* Mutant: a session's own reservations count as conflicts. *)
Conflicts_OwnToo(req) ==
  {r \in ReservationId :
     /\ Present(r)
     /\ reservations[r].path = req.path
     /\ reservations[r].expires_at > req.now
     /\ mode_conflicts(req.mode, reservations[r].mode)}

(* Mutant: only reservations that outlast the claim count. *)
Conflicts_OutlastOnly(req) ==
  {r \in ReservationId :
     /\ Present(r)
     /\ reservations[r].path = req.path
     /\ reservations[r].session_id # req.session_id
     /\ reservations[r].expires_at > req.expires
     /\ mode_conflicts(req.mode, reservations[r].mode)}

(* What the claim handler collects under the lock, judging expiry by the    *)
(* clock it read before the lock.                                           *)
Conflicts(req) ==
  {r \in ReservationId :
     /\ Present(r)
     /\ reservations[r].path = req.path
     /\ reservations[r].session_id # req.session_id
     /\ reservations[r].expires_at > req.now
     /\ mode_conflicts(req.mode, reservations[r].mode)}

-----------------------------------------------------------------------------

Init ==
  /\ TableInit
  /\ clock = 0
  /\ task = [c \in Conn |-> Idle]
  /\ reservations = [r \in ReservationId |-> None]
  /\ told = [r \in ReservationId |-> {}]

(* The clock is read here; the handler then awaits the lock. *)
Begin(c, t) ==
  /\ task[c] = Idle
  /\ task' = [task EXCEPT ![c] = t]
  /\ UNCHANGED <<table_vars, clock, reservations, told>>

BeginRegister(c) ==
  \E pid \in Pid, profile \in Profile :
    Begin(c, [op |-> "register", pid |-> pid, profile |-> profile, now |-> clock])

BeginHeartbeat(c) ==
  \E sid \in KnownSessions :
    Begin(c, [op |-> "heartbeat", session_id |-> sid, now |-> clock])

(* Mutant: the mode string is passed on unparsed. *)
BeginClaim_UnparsedMode(c) ==
  \E sid \in KnownSessions, path \in Path, mode \in Mode \cup {"shared"}, ttl \in Ttl :
    Begin(c, [op |-> "claim", session_id |-> sid, path |-> path, mode |-> mode,
              now |-> clock, expires |-> clock + AsI64(ttl)])

BeginClaim(c) ==
  \E sid \in KnownSessions, path \in Path, mode \in Mode, ttl \in Ttl :
    /\ FitsDuration(AsI64(ttl))
    /\ Begin(c, [op |-> "claim", session_id |-> sid, path |-> path, mode |-> mode,
                 now |-> clock, expires |-> clock + AsI64(ttl)])

(* The write lock is held: one atomic step, and the task is done. *)
Finish(c, op) ==
  /\ task[c].op = op
  /\ task' = [task EXCEPT ![c] = Idle]
  /\ UNCHANGED clock

FinishRegister(c) ==
  /\ Finish(c, "register")
  /\ RegisterSession(task[c].pid, task[c].profile, task[c].now)
  /\ UNCHANGED <<reservations, told>>

FinishHeartbeat(c) ==
  /\ Finish(c, "heartbeat")
  /\ HeartbeatSession(task[c].session_id, task[c].now)
  /\ UNCHANGED <<reservations, told>>

(* The reservation is recorded whether or not there are conflicts; the      *)
(* reply is its id and the conflicts.                                       *)
GrantClaim(req) ==
  \E r \in ReservationId \ minted :
    /\ minted' = minted \cup {r}
    /\ told' = [told EXCEPT ![r] = Conflicts(req)]
    /\ reservations' = [reservations EXCEPT ![r] =
         [session_id |-> req.session_id, path |-> req.path, mode |-> req.mode,
          acquired_at |-> req.now, expires_at |-> req.expires]]
    /\ UNCHANGED <<sessions, sessions_by_pid>>

(* Mutant: the session is checked when the claim is parsed, not under the lock. *)
FinishClaim_NoCheck(c) == Finish(c, "claim") /\ GrantClaim(task[c])

FinishClaim(c) ==
  /\ Finish(c, "claim")
  /\ \/ Registered(task[c].session_id) /\ GrantClaim(task[c])
     \/ /\ ~Registered(task[c].session_id)
        /\ UNCHANGED <<table_vars, reservations, told>>

(* Handlers that keep nothing across the await. *)
Deregister(c) ==
  /\ task[c] = Idle
  /\ \E sid \in KnownSessions : DeregisterSession(sid)
  /\ UNCHANGED coordinator_vars

(* Any session may release any reservation; an unknown id changes nothing. *)
Release(c) ==
  /\ task[c] = Idle
  /\ \E r \in KnownReservations :
       /\ reservations' = [reservations EXCEPT ![r] = None]
       /\ told' = [told EXCEPT ![r] = {}]
  /\ UNCHANGED <<table_vars, clock, task>>

(* The daemon dies and another starts: tasks and state are gone. *)
Restart ==
  /\ LoseTable
  /\ task' = [c \in Conn |-> Idle]
  /\ reservations' = [r \in ReservationId |-> None]
  /\ told' = [r \in ReservationId |-> {}]
  /\ UNCHANGED clock

Tick ==
  /\ clock < MaxTime
  /\ clock' = clock + 1
  /\ UNCHANGED <<table_vars, task, reservations, told>>

Next ==
  \/ \E c \in Conn :
       \/ BeginRegister(c)
       \/ FinishRegister(c)
       \/ BeginHeartbeat(c)
       \/ FinishHeartbeat(c)
       \/ BeginClaim(c)
       \/ FinishClaim(c)
       \/ Deregister(c)
       \/ Release(c)
  \/ Restart
  \/ Tick

Spec == Init /\ [][Next]_vars

=============================================================================
