----------------------- MODULE CooperativeAgentsProps -----------------------
(***************************************************************************)
(* What agents that respect the conflict reports can rely on.               *)
(***************************************************************************)
EXTENDS CooperativeAgents

(* Every variable of the agents has its type. *)
AgentsTypeOK ==
  /\ mine \in [Pid -> SUBSET SessionId]
  /\ call \in [Conn -> Call \cup {None}]
  /\ reply \in [Conn -> ReservationId \cup {None}]
  /\ lease \in [ReservationId -> Lease \cup {None}]

(* No two agents use one path at the same time in modes that exclude each   *)
(* other, whatever claims, replies and releases are under way, however late *)
(* each clock was read and however many replies were lost (README, "so two  *)
(* agents never edit the same hunk concurrently").                          *)
NoTwoEditors ==
  \A r, q \in ReservationId :
    Relies(r) /\ Relies(q) /\ lease[r].agent # lease[q].agent /\ lease[r].path = lease[q].path
      => ~Incompatible(lease[r].mode, lease[q].mode)

(* What an agent relies on is in the daemon's table, under the path and     *)
(* mode it asked for, and for at least as long as the agent counts on it,   *)
(* although the daemon and the agent read the clock at different times; so  *)
(* every later claim of another agent is told about it.                     *)
LeaseWithinReservation ==
  \A r \in ReservationId : lease[r] # None =>
    /\ Present(r)
    /\ reservations[r].session_id \in mine[lease[r].agent]
    /\ reservations[r].path = lease[r].path
    /\ reservations[r].mode = lease[r].mode
    /\ lease[r].until <= reservations[r].expires_at
    /\ told[r] = {}

(* A session id names one agent: a reply never hands an agent the session   *)
(* of another one, so that "own" reservations are what they say.            *)
SessionsAreOwn ==
  \A a, b \in Pid : a # b => mine[a] \cap mine[b] = {}

-----------------------------------------------------------------------------
(* The agents and the daemon together implement AdvisoryLocks.              *)

InUse ==
  {[agent |-> lease[r].agent, path |-> lease[r].path, mode |-> lease[r].mode] :
     r \in {q \in ReservationId : Relies(q)}}

Locks == INSTANCE AdvisoryLocks WITH Agent <- Pid, uses <- InUse

(* Every step of the system begins one use that excludes no other, ends     *)
(* some, or changes nothing about them.                                     *)
LocksAreKept == Locks!Spec

-----------------------------------------------------------------------------
(* The strengthening that makes the invariants above inductive.             *)

(* Sessions are those of their agents, and calls and replies belong to what *)
(* the daemon is doing or did for them.                                     *)
OwnedSessions ==
  /\ \A a \in Pid : mine[a] \subseteq minted
  /\ \A a \in Pid, s \in SessionId : s \in mine[a] /\ Registered(s) => sessions[s].pid = a

CallsInOrder ==
  \A c \in Conn : call[c] # None =>
    /\ call[c].ttl \in Ttl
    /\ call[c].session_id \in mine[call[c].agent]
    /\ call[c].sent_at <= clock
    /\ task[c] # Idle =>
         /\ task[c].op = "claim"
         /\ task[c].session_id = call[c].session_id
         /\ task[c].path = call[c].path
         /\ task[c].mode = call[c].mode
         /\ call[c].sent_at + call[c].ttl <= task[c].expires
         /\ reply[c] = None

(* A reply under way names a reservation made for the call that waits for   *)
(* it, and for no other one.                                                *)
RepliesInOrder ==
  \A c \in Conn : reply[c] # None =>
    /\ call[c] # None
    /\ Present(reply[c])
    /\ lease[reply[c]] = None
    /\ \A d \in Conn : reply[d] = reply[c] => d = c
    /\ LET v == reservations[reply[c]] IN
       /\ v.session_id = call[c].session_id
       /\ v.path = call[c].path
       /\ v.mode = call[c].mode
       /\ call[c].sent_at + call[c].ttl <= v.expires_at

CoopInv ==
  /\ AgentsTypeOK
  /\ SessionsAreOwn
  /\ OwnedSessions
  /\ CallsInOrder
  /\ RepliesInOrder
  /\ LeaseWithinReservation

=============================================================================
