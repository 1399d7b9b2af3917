---------------------------- MODULE SessionTable ----------------------------
(***************************************************************************)
(* The session table of the teamcomm daemon: the maps `sessions` and       *)
(* `sessions_by_pid` of AppStateInner (teamcomm-daemon/src/state.rs) and    *)
(* what the bodies of the session.* handlers (handlers.rs) do to them while *)
(* they hold the write lock.  Modules about handlers that need the session  *)
(* table extend this one and add the steps that lead to the lock.           *)
(*                                                                         *)
(* A HashMap is a total function whose value None stands for "no entry".    *)
(***************************************************************************)
EXTENDS Integers

CONSTANTS
  Pid,        \* operating-system process ids (below 2^32, so `as u32` is the identity)
  SessionId,  \* the session ids the daemon may mint; bounds how many it mints
  Profile,    \* what a registration says: agent type, working dir, capabilities
  None        \* an absent map entry

VARIABLES
  sessions,         \* session id -> session record or None
  sessions_by_pid,  \* pid -> session id or None
  minted            \* ids handed out so far: uuids are never minted twice

table_vars == <<sessions, sessions_by_pid, minted>>

Session == [pid: Pid, profile: Profile, started_at: Nat, last_heartbeat: Nat]

ASSUME SessionTableAssumption ==
  /\ None \notin SessionId
  /\ None \notin Session

Registered(sid) == sessions[sid] # None

(* The session that handle_session_register finds for a pid: the index must *)
(* have an entry and the entry must point at a session that exists.         *)
HasSession(pid) ==
  /\ sessions_by_pid[pid] # None
  /\ Registered(sessions_by_pid[pid])

-----------------------------------------------------------------------------

TableInit ==
  /\ sessions = [s \in SessionId |-> None]
  /\ sessions_by_pid = [p \in Pid |-> None]
  /\ minted = {}

(* Mutant: ids are recycled once their session is gone. *)
InsertNewSession_Recycled(pid, profile, now) ==
  \E id \in {s \in SessionId : ~Registered(s)} :
    /\ minted' = minted \cup {id}
    /\ sessions' = [sessions EXCEPT ![id] =
                      [pid |-> pid, profile |-> profile,
                       started_at |-> now, last_heartbeat |-> now]]
    /\ sessions_by_pid' = [sessions_by_pid EXCEPT ![pid] = id]

(* insert_new_session: a fresh id, both maps written under one lock. *)
InsertNewSession(pid, profile, now) ==
  \E id \in SessionId \ minted :
    /\ minted' = minted \cup {id}
    /\ sessions' = [sessions EXCEPT ![id] =
                      [pid |-> pid, profile |-> profile,
                       started_at |-> now, last_heartbeat |-> now]]
    /\ sessions_by_pid' = [sessions_by_pid EXCEPT ![pid] = id]

(* Mutant: re-registration restarts the session's life. *)
ReuseSession_Restarted(pid, now) ==
  /\ sessions' = [sessions EXCEPT ![sessions_by_pid[pid]].started_at = now,
                                  ![sessions_by_pid[pid]].last_heartbeat = now]
  /\ UNCHANGED <<sessions_by_pid, minted>>

(* Re-registration of a known pid only stamps the heartbeat: the profile of *)
(* the second registration is dropped.                                      *)
ReuseSession(pid, now) ==
  /\ sessions' = [sessions EXCEPT ![sessions_by_pid[pid]].last_heartbeat = now]
  /\ UNCHANGED <<sessions_by_pid, minted>>

(* Mutant: a caller is recognised by its profile, not by its pid. *)
RegisterSession_ByProfile(pid, profile, now) ==
  \/ \E p \in Pid :
       /\ HasSession(p) /\ sessions[sessions_by_pid[p]].profile = profile
       /\ sessions_by_pid' = [sessions_by_pid EXCEPT ![pid] = sessions_by_pid[p]]
       /\ UNCHANGED <<sessions, minted>>
  \/ ~HasSession(pid) /\ InsertNewSession(pid, profile, now)

RegisterSession(pid, profile, now) ==
  \/ HasSession(pid) /\ ReuseSession(pid, now)
  \/ ~HasSession(pid) /\ InsertNewSession(pid, profile, now)

(* Mutant: the index entry is left behind. *)
DeregisterSession_KeepIndex(sid) ==
  /\ sessions' = [sessions EXCEPT ![sid] = None]
  /\ UNCHANGED <<sessions_by_pid, minted>>

(* Deregistering an unknown id is a no-op that still answers ok. *)
DeregisterSession(sid) ==
  \/ /\ Registered(sid)
     /\ sessions' = [sessions EXCEPT ![sid] = None]
     /\ sessions_by_pid' = [sessions_by_pid EXCEPT ![sessions[sid].pid] = None]
     /\ UNCHANGED minted
  \/ ~Registered(sid) /\ UNCHANGED table_vars

(* A heartbeat for an unknown id is answered NotFound and changes nothing. *)
HeartbeatSession(sid, now) ==
  \/ /\ Registered(sid)
     /\ sessions' = [sessions EXCEPT ![sid].last_heartbeat = now]
     /\ UNCHANGED <<sessions_by_pid, minted>>
  \/ ~Registered(sid) /\ UNCHANGED table_vars

(* The state is in memory only: a new daemon process starts from nothing. *)
LoseTable ==
  /\ sessions' = [s \in SessionId |-> None]
  /\ sessions_by_pid' = [p \in Pid |-> None]
  /\ UNCHANGED minted

=============================================================================
