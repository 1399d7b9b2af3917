------------------------- MODULE DaemonLifecycleProps -------------------------
(***************************************************************************)
(* What the pid file and the socket file are for.                           *)
(***************************************************************************)
EXTENDS DaemonLifecycle

(* Every variable has its type, and only a living or dead process has a pid. *)
TypeOK ==
  /\ pc \in [Proc -> {"unused"} \cup Starting \cup Handling \cup Ended]
  /\ pid \in [Proc -> Pid \cup {None}]
  /\ \A p \in Proc : pid[p] = None <=> pc[p] = "unused"
  /\ carried \in [Proc -> Pid \cup Proc \cup {None}]
  /\ sigterm \subseteq Proc
  /\ strangers \subseteq Pid
  /\ pid_file \in [inode: Proc, pid: Pid \cup {None}] \cup {None}
  /\ socket \in Proc \cup {None}
  /\ stop_pc \in [Stop -> {"idle", "probing", "signalling", "waiting", "removing"}]
  /\ stop_pid \in [Stop -> Pid \cup {None}]

(* At most one daemon accepts connections: the pid file refuses a second    *)
(* one (pid.rs:1-3, main.rs:116) and bind_socket never takes the socket of  *)
(* a live daemon (listener.rs:130-132).                                     *)
OneDaemon == \A p, q \in Proc : Listening(p) /\ Listening(q) => p = q

(* A daemon that serves can be reached and stopped, while others come and   *)
(* are refused too: the socket file is the one it bound, the pid file has   *)
(* its pid.                                                                 *)
FilesNameTheDaemon ==
  \A p \in Proc : pc[p] = "serving" => socket = p /\ RecordedPid = pid[p]

(* No start fails at the socket: whatever a crash left at whichever step,   *)
(* the next start clears it away.                                           *)
LeftoversAreNeverFatal == \A p \in Proc : pc[p] # "failed"

(* A signal ends the daemon, whichever step of starting or stopping it is   *)
(* at (listener.rs, install_signal_handlers and run).                       *)
SignalsEndDaemons == \A p \in Proc : p \in sigterm ~> ~Alive(p)

(* Every start comes to an end of its start-up. *)
StartsSettle == \A p \in Proc : pc[p] = "reading" ~> pc[p] \in {"serving"} \cup Ended

=============================================================================
