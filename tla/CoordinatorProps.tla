-------------------------- MODULE CoordinatorProps --------------------------
(***************************************************************************)
(* What the core of the daemon promises.                                    *)
(***************************************************************************)
EXTENDS Coordinator

(* Every variable has its type, and history covers minted ids only. *)
TypeOK ==
  /\ sessions \in [SessionId -> Session \cup {None}]
  /\ sessions_by_pid \in [Pid -> SessionId \cup {None}]
  /\ minted \subseteq SessionId \cup ReservationId
  /\ clock \in Nat
  /\ task \in [Conn -> Task]
  /\ reservations \in [ReservationId -> Reservation \cup {None}]
  /\ told \in [ReservationId -> SUBSET ReservationId]

-----------------------------------------------------------------------------

(* The reverse index and the session map are inverse to one another in      *)
(* every state: at most one session per pid (ARCHITECTURE.md 4.1), and the  *)
(* "out of sync" branch of handle_session_register never runs.              *)
ReverseIndexExact ==
  /\ \A p \in Pid : sessions_by_pid[p] # None =>
       /\ HasSession(p)
       /\ sessions[sessions_by_pid[p]].pid = p
  /\ \A s \in SessionId : Registered(s) => sessions_by_pid[sessions[s].pid] = s

(* Which modes cannot be held together, from the doc comments of the three  *)
(* variants of ReservationMode (reservation.rs:15-22).                      *)
Incompatible(a, b) ==
  \/ a = "exclusive" \/ b = "exclusive"
  \/ a = "write" /\ b = "write"

(* "The mode ordering is read < write < exclusive" (reservation.rs:10).     *)
Strength == [mode \in Mode |-> CASE mode = "read" -> 1 [] mode = "write" -> 2 [] OTHER -> 3]

(* The comment of the type (reservation.rs:10-11) and SDD.md:116 say that a *)
(* claim only conflicts with claims of equal or stronger mode.  The code    *)
(* and the variants' comments go beyond that: an exclusive claim is told of *)
(* the weaker reservations too.  The properties below follow the code.      *)
BeyondOrdering(new, existing) == new = "exclusive" /\ Strength[existing] < Strength[new]

Clash(r, q) ==
  /\ reservations[r].path = reservations[q].path
  /\ reservations[r].session_id # reservations[q].session_id
  /\ Incompatible(reservations[r].mode, reservations[q].mode)

(* Of two live clashing reservations, the reply to one of the two claims    *)
(* listed the other: no interleaving of claims, however stale the clock     *)
(* each read before the lock, leaves both agents unaware (README "so two    *)
(* agents never edit the same hunk concurrently").                          *)
MutualAwareness ==
  \A r, q \in ReservationId :
    Live(r) /\ Live(q) /\ Clash(r, q) => r \in told[q] \/ q \in told[r]

(* A claim's conflict report is true: it names only reservations of other   *)
(* sessions on the path, whose modes exclude one another by the comments of *)
(* the variants, which had not expired when the claim was made, and which   *)
(* were granted first.  So two claims never report each other, although     *)
(* either may have read the clock before the other: with MutualAwareness,   *)
(* exactly the later one under the lock is told.  That no weaker mode is    *)
(* reported, as the comment of the type has it, holds but for exclusive     *)
(* claims.                                                                  *)
ConflictsAreReal ==
  \A r, q \in ReservationId :
    Present(r) /\ Present(q) /\ q \in told[r] =>
      /\ Clash(r, q)
      /\ reservations[q].expires_at > reservations[r].acquired_at
      /\ r \notin told[q]
      /\ \/ Strength[reservations[q].mode] >= Strength[reservations[r].mode]
         \/ BeyondOrdering(reservations[r].mode, reservations[q].mode)

(* Times in the tables are in the past and in order, although each was read *)
(* before the lock: nothing was acquired before its session started.        *)
TimesInOrder ==
  /\ \A s \in SessionId : Registered(s) =>
       sessions[s].started_at <= clock /\ sessions[s].last_heartbeat <= clock
  /\ \A r \in ReservationId : Present(r) =>
       /\ reservations[r].acquired_at <= clock
       /\ Registered(reservations[r].session_id) =>
            sessions[reservations[r].session_id].started_at <= reservations[r].acquired_at

(* An id keeps its meaning: a session that is gone never comes back, not    *)
(* even through a heartbeat or claim that was already waiting for the lock, *)
(* and neither a session's identity nor a reservation changes in place.     *)
IdsKeepMeaning ==
  [][/\ \A s \in SessionId \cap minted : sessions'[s] # None =>
          /\ Registered(s)
          /\ sessions'[s].pid = sessions[s].pid
          /\ sessions'[s].profile = sessions[s].profile
          /\ sessions'[s].started_at = sessions[s].started_at
     /\ \A r \in ReservationId \cap minted :
          reservations'[r] \in {reservations[r], None}]_vars

(* A reservation only ever appears for a session registered at that very    *)
(* step, whatever was true when its claim was parsed (ARCHITECTURE.md 4.2:  *)
(* "the daemon verifies session existence before granting a claim").        *)
GrantsNeedSession ==
  [][\A r \in ReservationId : ~Present(r) /\ reservations'[r] # None =>
       Registered(reservations'[r].session_id)]_vars

-----------------------------------------------------------------------------
(* The strengthening that makes the invariants above inductive.             *)

(* Everything the state mentions was minted, and a session id is minted     *)
(* before a request can carry it: a fresh id is mentioned nowhere.          *)
OnlyMinted ==
  /\ \A s \in SessionId : Registered(s) => s \in minted
  /\ \A r \in ReservationId : Present(r) =>
       r \in minted /\ reservations[r].session_id \in minted
  /\ \A r \in ReservationId : told[r] \subseteq minted
  /\ \A c \in Conn : task[c].op \in {"heartbeat", "claim"} =>
       task[c].session_id \in minted

(* The clock a waiting task read is not ahead of the clock, and a waiting   *)
(* claim read it after its session, if it still exists, was registered.     *)
TasksReadThePast ==
  \A c \in Conn :
    /\ task[c] # Idle => task[c].now <= clock
    /\ task[c].op = "claim" /\ Registered(task[c].session_id) =>
         sessions[task[c].session_id].started_at <= task[c].now

IInv ==
  /\ TypeOK
  /\ ReverseIndexExact
  /\ OnlyMinted
  /\ TasksReadThePast
  /\ TimesInOrder
  /\ MutualAwareness
  /\ ConflictsAreReal

-----------------------------------------------------------------------------
(* What the repository says and the code does not do.                       *)

(* Deregistering releases the session's reservations (ARCHITECTURE.md:145,  *)
(* manifest.json:56), so none outlives its session.                         *)
ReservationsDieWithSession ==
  \A r \in ReservationId : Live(r) => Registered(reservations[r].session_id)

=============================================================================
