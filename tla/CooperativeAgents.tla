-------------------------- MODULE CooperativeAgents --------------------------
(***************************************************************************)
(* The core together with the agents it serves.  The daemon enforces        *)
(* nothing: agents "respect the conflict report voluntarily" (SDD.md 2.4).  *)
(* This module adds agents that do, each a process with several calls under *)
(* way, and requests and replies that travel, so that the purpose of the    *)
(* reservations can be stated: what the agents use, AdvisoryLocks.          *)
(*                                                                         *)
(* Every step that involves the daemon is a step of Coordinator with a      *)
(* choice made by the agents added to it.  What an agent does with a reply  *)
(* is not code of the repository; it is modelled from the documents:        *)
(*   - it uses a path only on a reply without conflicts, and only until     *)
(*     the ttl it asked for has passed since it sent the claim, for it      *)
(*     cannot know when the daemon read the clock;                          *)
(*   - it releases only reservations of sessions of its own, and only after *)
(*     it stopped using the path;                                           *)
(*   - it may give up on a call at any time and claim again.                *)
(* The daemon does not restart here: it would forget the leases.            *)
(***************************************************************************)
EXTENDS CoordinatorProps

(* An agent asks for a lease a person could mean: no ttl that wraps. *)
ASSUME TtlAssumption == \A ttl \in Ttl : ttl < TwoTo63

VARIABLES
  mine,   \* agent -> the session ids that register replies gave it
  call,   \* connection -> the claim an agent waits on, or None
  reply,  \* connection -> the reservation id in the reply under way, or None
  lease   \* reservation id -> what an agent relies on it for, or None

agent_vars == <<mine, call, reply, lease>>
coop_vars == <<vars, agent_vars>>

(* An agent is an operating-system process. *)
Call == [agent: Pid, session_id: SessionId, path: Path, mode: Mode, ttl: Nat, sent_at: Nat]
Lease == [agent: Pid, path: Path, mode: Mode, until: Nat]

ASSUME AgentAssumption == None \notin Call /\ None \notin Lease

(* The agent uses the path now. *)
Relies(r) == lease[r] # None /\ clock < lease[r].until

UnderWay(r) == \E c \in Conn : reply[c] = r

-----------------------------------------------------------------------------

CoopInit ==
  /\ Init
  /\ mine = [a \in Pid |-> {}]
  /\ call = [c \in Conn |-> None]
  /\ reply = [c \in Conn |-> None]
  /\ lease = [r \in ReservationId |-> None]

(* session.register, from the hook that starts an agent; what registering a *)
(* second time does to the tables is in Coordinator.                        *)
AgentRegister(c) ==
  /\ call[c] = None
  /\ BeginRegister(c)
  /\ \A s \in mine[task'[c].pid] : ~Registered(s)
  /\ UNCHANGED agent_vars

(* Mutant: the reply is made from the index as it was before the insertion. *)
AnswerRegister_Before(c) ==
  /\ FinishRegister(c)
  /\ mine' = [mine EXCEPT ![task[c].pid] = @ \cup {sessions_by_pid[task[c].pid]}]
  /\ UNCHANGED <<call, reply, lease>>

(* The reply names the session of the caller's pid. *)
AnswerRegister(c) ==
  /\ FinishRegister(c)
  /\ mine' = [mine EXCEPT ![task[c].pid] = @ \cup {sessions_by_pid'[task[c].pid]}]
  /\ UNCHANGED <<call, reply, lease>>

(* The agent notes the time and writes the claim to the socket. *)
SendClaim(c) ==
  /\ call[c] = None /\ task[c] = Idle
  /\ \E a \in Pid : \E s \in mine[a], path \in Path, mode \in Mode, ttl \in Ttl :
       call' = [call EXCEPT ![c] = [agent |-> a, session_id |-> s, path |-> path,
                                    mode |-> mode, ttl |-> ttl, sent_at |-> clock]]
  /\ UNCHANGED <<vars, mine, reply, lease>>

(* The daemon parses what the agent sent, once. *)
TakeClaim(c) ==
  /\ call[c] # None /\ reply[c] = None
  /\ BeginClaim(c)
  /\ LET t == task'[c]  k == call[c] IN
     <<t.session_id, t.path, t.mode, t.expires>>
       = <<k.session_id, k.path, k.mode, t.now + AsI64(k.ttl)>>
  /\ UNCHANGED agent_vars

(* The handler is done.  An agent that waits gets the id, or the error that *)
(* ends its call; one that gave up gets nothing.                            *)
AnswerClaim(c) ==
  /\ FinishClaim(c)
  /\ \/ call[c] # None /\ \E r \in minted' \ minted : reply' = [reply EXCEPT ![c] = r]
                       /\ UNCHANGED call
     \/ (call[c] = None \/ minted' = minted) /\ call' = [call EXCEPT ![c] = None]
                       /\ UNCHANGED reply
  /\ UNCHANGED <<mine, lease>>

(* Mutant: the lease runs from when the reply arrives. *)
ReceiveReply_FromReceipt(c) ==
  /\ reply[c] # None
  /\ LET k == call[c]
         end == clock + k.ttl
         good == told[reply[c]] = {} /\ clock < end
     IN  lease' = [lease EXCEPT ![reply[c]] =
           IF good THEN [agent |-> k.agent, path |-> k.path, mode |-> k.mode, until |-> end]
                   ELSE None]
  /\ reply' = [reply EXCEPT ![c] = None]
  /\ call' = [call EXCEPT ![c] = None]
  /\ UNCHANGED <<vars, mine>>

(* A reply without conflicts that is still in time: the agent uses the path. *)
ReceiveReply(c) ==
  /\ reply[c] # None
  /\ LET k == call[c]
         end == k.sent_at + k.ttl
         good == told[reply[c]] = {} /\ clock < end
     IN  lease' = [lease EXCEPT ![reply[c]] =
           IF good THEN [agent |-> k.agent, path |-> k.path, mode |-> k.mode, until |-> end]
                   ELSE None]
  /\ reply' = [reply EXCEPT ![c] = None]
  /\ call' = [call EXCEPT ![c] = None]
  /\ UNCHANGED <<vars, mine>>

(* The agent gives up, or the connection breaks: a reply under way is lost, *)
(* a claim the daemon already took runs on.                                 *)
GiveUp(c) ==
  /\ call[c] # None
  /\ call' = [call EXCEPT ![c] = None]
  /\ reply' = [reply EXCEPT ![c] = None]
  /\ UNCHANGED <<vars, mine, lease>>

(* The agent is done with the path. *)
StopUsing(r) ==
  /\ lease[r] # None
  /\ lease' = [lease EXCEPT ![r] = None]
  /\ UNCHANGED <<vars, mine, call, reply>>

(* It gives back a reservation it had, was refused on, or lost the reply of *)
(* (reservation.list names it).  Whether it is due an answer it knows.      *)
AgentRelease(c) ==
  /\ call[c] = None
  /\ Release(c)
  /\ \A r \in ReservationId : Present(r) /\ reservations'[r] = None =>
       /\ lease[r] = None /\ ~UnderWay(r)
       /\ \E a \in Pid : reservations[r].session_id \in mine[a]
  /\ UNCHANGED agent_vars

(* session.deregister, from the hook of a session that ends. *)
AgentDeregister(c) ==
  /\ call[c] = None
  /\ Deregister(c)
  /\ UNCHANGED agent_vars

TimePasses == Tick /\ UNCHANGED agent_vars

CoopNext ==
  \/ \E c \in Conn :
       \/ AgentRegister(c)
       \/ AnswerRegister(c)
       \/ SendClaim(c)
       \/ TakeClaim(c)
       \/ AnswerClaim(c)
       \/ ReceiveReply(c)
       \/ GiveUp(c)
       \/ AgentRelease(c)
       \/ AgentDeregister(c)
  \/ \E r \in ReservationId : StopUsing(r)
  \/ TimePasses

CoopSpec == CoopInit /\ [][CoopNext]_coop_vars

=============================================================================
