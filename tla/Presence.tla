------------------------------- MODULE Presence -------------------------------
(***************************************************************************)
(* Who works on what: state.set and state.get over the map `live_state`,    *)
(* discover.agents over sessions and live_state (handlers.rs), for agents   *)
(* that speak the daemon's wire names.                                      *)
(*                                                                         *)
(* A path is a sequence of tokens, "/" among them, so that the prefix test  *)
(* on text that discover.agents makes differs from lying under a directory. *)
(* A session's profile is the set of capabilities it registered with.  All  *)
(* handlers here keep nothing across their await and are one step each.     *)
(***************************************************************************)
EXTENDS SessionTable, Sequences, SequencesExt

CONSTANTS
  Token,   \* the pieces of paths
  Path,    \* the focus files agents announce and ask for
  Branch,  \* branch names
  MaxTime  \* bound on the clock

ASSUME PresenceAssumption ==
  /\ "/" \in Token
  /\ Path \subseteq Seq(Token)
  /\ None \notin Path \cup Branch
  /\ MaxTime \in Nat

VARIABLES
  clock,       \* the wall clock
  live_state,  \* session id -> latest snapshot or None
  announced    \* history: session id -> focus and branch it last announced, or None

presence_vars == <<clock, live_state, announced>>
vars == <<table_vars, presence_vars>>

AgentStatus == {"idle", "working"}
LiveState == [focus_file: Path \cup {None}, focus_branch: Branch \cup {None},
              status: AgentStatus, last_heartbeat: Nat]
Announcement == [focus: Path \cup {None}, branch: Branch \cup {None}]

ASSUME NoneAssumption == None \notin LiveState \cup Announcement

Published(sid) == live_state[sid] # None

-----------------------------------------------------------------------------

(* A session that never published is idle, on no file and no branch. *)
Status(sid) == IF Published(sid) THEN live_state[sid].status ELSE "idle"
Focus(sid) == IF Published(sid) THEN live_state[sid].focus_file ELSE None
FocusBranch(sid) == IF Published(sid) THEN live_state[sid].focus_branch ELSE None

(* Mutant: only the very file is matched. *)
OnPath_Exact(sid, path) == Focus(sid) = path

(* starts_with on the text of the two paths. *)
OnPath(sid, path) == Focus(sid) # None /\ IsPrefix(path, Focus(sid))

(* discover.agents: the filters that are given must all hold. *)
Discover(path, branch, capabilities) ==
  {sid \in SessionId :
     /\ Registered(sid)
     /\ path # None => OnPath(sid, path)
     /\ branch # None => FocusBranch(sid) = branch
     /\ capabilities \subseteq sessions[sid].profile}

-----------------------------------------------------------------------------

Init ==
  /\ TableInit
  /\ clock = 0
  /\ live_state = [s \in SessionId |-> None]
  /\ announced = [s \in SessionId |-> None]

Register ==
  /\ \E pid \in Pid, profile \in Profile : RegisterSession(pid, profile, clock)
  /\ UNCHANGED presence_vars

(* The snapshot stays behind. *)
Deregister ==
  /\ \E sid \in minted : DeregisterSession(sid)
  /\ UNCHANGED presence_vars

Heartbeat ==
  /\ \E sid \in minted : HeartbeatSession(sid, clock)
  /\ UNCHANGED presence_vars

(* Mutant: the session is not looked up. *)
StoreState_NoCheck(sid, focus, branch, status) ==
  /\ live_state' = [live_state EXCEPT ![sid] =
       [focus_file |-> focus, focus_branch |-> branch,
        status |-> status, last_heartbeat |-> clock]]
  /\ UNCHANGED <<table_vars, clock>>

(* state.set replaces the whole snapshot and stamps it under the lock; an   *)
(* unknown session is answered NotFound and nothing changes.                *)
StoreState(sid, focus, branch, status) ==
  /\ Registered(sid)
  /\ live_state' = [live_state EXCEPT ![sid] =
       [focus_file |-> focus, focus_branch |-> branch,
        status |-> status, last_heartbeat |-> clock]]
  /\ UNCHANGED <<table_vars, clock>>

(* Mutant: the status string is stored unparsed. *)
SetState_UnparsedStatus ==
  \E sid \in SessionId, focus \in Path \cup {None}, branch \in Branch \cup {None},
     status \in AgentStatus \cup {"busy"} :
    /\ StoreState(sid, focus, branch, status)
    /\ announced' = [announced EXCEPT ![sid] = [focus |-> focus, branch |-> branch]]

(* state.set with the fields where the daemon looks for them. *)
SetState ==
  \E sid \in SessionId, focus \in Path \cup {None}, branch \in Branch \cup {None},
     status \in AgentStatus :
    /\ StoreState(sid, focus, branch, status)
    /\ announced' = [announced EXCEPT ![sid] = [focus |-> focus, branch |-> branch]]

Tick ==
  /\ clock < MaxTime
  /\ clock' = clock + 1
  /\ UNCHANGED <<table_vars, live_state, announced>>

Next == Register \/ Deregister \/ Heartbeat \/ SetState \/ Tick

Spec == Init /\ [][Next]_vars

-----------------------------------------------------------------------------

(* Every variable has its type. *)
TypeOK ==
  /\ sessions \in [SessionId -> Session \cup {None}]
  /\ sessions_by_pid \in [Pid -> SessionId \cup {None}]
  /\ minted \subseteq SessionId
  /\ clock \in Nat
  /\ live_state \in [SessionId -> LiveState \cup {None}]
  /\ announced \in [SessionId -> Announcement \cup {None}]

(* A snapshot was taken within the life of the session it is shown with:    *)
(* discover.agents joins the two maps by id alone, so this holds only as    *)
(* long as no id is published before it is registered or registered twice.  *)
SnapshotWithinSession ==
  \A sid \in SessionId : Registered(sid) /\ Published(sid) =>
    /\ sessions[sid].started_at <= live_state[sid].last_heartbeat
    /\ live_state[sid].last_heartbeat <= clock

(* The path is the directory or lies below it. *)
Under(path, dir) == path = dir \/ IsPrefix(Append(dir, "/"), path)

(* Whoever announced a file at or below a directory and is still registered *)
(* is found under the directory, by the file it announced last              *)
(* (discovery.rs:15).                                                       *)
DiscoveryMissesNobody ==
  \A sid \in SessionId, dir \in Path :
    (/\ Registered(sid)
     /\ announced[sid] # None /\ announced[sid].focus # None
     /\ Under(announced[sid].focus, dir))
      => sid \in Discover(dir, None, {})

=============================================================================
