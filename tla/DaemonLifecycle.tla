--------------------------- MODULE DaemonLifecycle ---------------------------
(***************************************************************************)
(* How daemons start, stop and hand over: the pid file (pid.rs), the socket *)
(* file and the signals (listener.rs), and the start and stop commands      *)
(* (main.rs).  They meet only in the file system and the process table, so  *)
(* every file operation, every `kill` and every exit is a step of its own.  *)
(*                                                                         *)
(* `start --foreground` is a start here; `start` without it looks at the    *)
(* pid file first and then starts the same process.                         *)
(***************************************************************************)
EXTENDS Integers, FiniteSets

CONSTANTS
  Proc,   \* starts of the daemon; each is one process, bounding how many there are
  Pid,    \* operating-system process ids, reused once free
  Stop,   \* concurrent runs of the stop command
  None    \* no file, no content, nothing carried

ASSUME LifecycleAssumption ==
  /\ None \notin Pid \cup Proc
  /\ None \notin [inode: Proc, pid: Pid \cup {None}]

VARIABLES
  pc,          \* where each start is
  pid,         \* its process id
  carried,     \* the pid it read from the file, or the pid file it has open
  sigterm,     \* processes with a SIGTERM or SIGINT to act on
  strangers,   \* pids of processes that are no daemons of ours
  pid_file,    \* None, or the file: which start created it and its content
  socket,      \* None, or the start that bound the socket file
  stop_pc,     \* where each stop command is
  stop_pid     \* the pid it read

daemon_vars == <<pc, pid, carried, sigterm>>
file_vars == <<pid_file, socket>>
stop_vars == <<stop_pc, stop_pid>>
vars == <<daemon_vars, strangers, file_vars, stop_vars>>

(* refused: the pid file named a running process; failed: no socket;        *)
(* stopped: graceful exit; killed: crash, or a signal before the handlers.  *)
Ended == {"refused", "failed", "stopped", "killed"}
Handling == {"serving", "draining", "cleaning"}
Starting == {"reading", "probing", "removing", "truncating", "filling",
             "checking", "unlinking", "binding", "bound", "failing"}

Alive(p) == pc[p] \in Starting \cup Handling
Listening(p) == pc[p] \in {"bound", "serving"}

(* `kill -0`: some process, daemon or not, has the pid. *)
is_pid_running(q) == q \in strangers \/ \E p \in Proc : Alive(p) /\ pid[p] = q

(* read_pid_file: no file and an empty file both mean that nobody runs. *)
RecordedPid == IF pid_file = None THEN None ELSE pid_file.pid

FreePid == {q \in Pid : ~is_pid_running(q)}

-----------------------------------------------------------------------------

Init ==
  /\ pc = [p \in Proc |-> "unused"]
  /\ pid = [p \in Proc |-> None]
  /\ carried = [p \in Proc |-> None]
  /\ sigterm = {}
  /\ strangers = {}
  /\ pid_file = None
  /\ socket = None
  /\ stop_pc = [c \in Stop |-> "idle"]
  /\ stop_pid = [c \in Stop |-> None]

(* start p moves on, carrying x to its next step.  A signal that finds no   *)
(* handler is acted on at once, see KilledBySignal.                         *)
Go(p, from, to, x) ==
  /\ pc[p] = from
  /\ from \in Starting => p \notin sigterm
  /\ pc' = [pc EXCEPT ![p] = to]
  /\ carried' = [carried EXCEPT ![p] = x]
  /\ UNCHANGED <<pid, sigterm, strangers, stop_vars>>

(* The operating system gives the new process a pid nobody holds. *)
Spawn(p) ==
  /\ pc[p] = "unused"
  /\ pc' = [pc EXCEPT ![p] = "reading"]
  /\ \E q \in FreePid : pid' = [pid EXCEPT ![p] = q]
  /\ UNCHANGED <<carried, sigterm, strangers, file_vars, stop_vars>>

ReadPidFile(p) ==
  /\ \/ RecordedPid = None /\ Go(p, "reading", "truncating", None)
     \/ RecordedPid # None /\ Go(p, "reading", "probing", RecordedPid)
  /\ UNCHANGED file_vars

(* Mutant: the probe is dropped, a pid file is always taken for stale. *)
ProbePid_AlwaysStale(p) ==
  /\ Go(p, "probing", "removing", None)
  /\ UNCHANGED file_vars

(* Mutant: the pid file is removed on this error path too. *)
ProbePid_RefusedCleansUp(p) ==
  /\ \/ is_pid_running(carried[p]) /\ Go(p, "probing", "failing", None)
     \/ ~is_pid_running(carried[p]) /\ Go(p, "probing", "removing", None)
  /\ UNCHANGED file_vars

(* Mutant: a start waits until the running daemon is gone. *)
ProbePid_Wait(p) ==
  /\ \/ is_pid_running(carried[p]) /\ Go(p, "probing", "reading", None)
     \/ ~is_pid_running(carried[p]) /\ Go(p, "probing", "removing", None)
  /\ UNCHANGED file_vars

(* The recorded pid may by now belong to a stranger, or to p itself. *)
ProbePid(p) ==
  /\ \/ is_pid_running(carried[p]) /\ Go(p, "probing", "refused", None)
     \/ ~is_pid_running(carried[p]) /\ Go(p, "probing", "removing", None)
  /\ UNCHANGED file_vars

RemoveStalePidFile(p) ==
  /\ Go(p, "removing", "truncating", None)
  /\ pid_file' = None
  /\ UNCHANGED socket

(* fs::write opens with O_CREAT | O_TRUNC and then writes: between the two  *)
(* the file is empty, and a removed file is written where nobody reads it.  *)
TruncatePidFile(p) ==
  \/ /\ pid_file = None
     /\ Go(p, "truncating", "filling", p)
     /\ pid_file' = [inode |-> p, pid |-> None]
     /\ UNCHANGED socket
  \/ /\ pid_file # None
     /\ Go(p, "truncating", "filling", pid_file.inode)
     /\ pid_file' = [pid_file EXCEPT !.pid = None]
     /\ UNCHANGED socket

(* Mutant: what is written is no process id. *)
FillPidFile_WrongNumber(p) ==
  /\ Go(p, "filling", "checking", None)
  /\ pid_file' = IF pid_file # None /\ pid_file.inode = carried[p]
                 THEN [pid_file EXCEPT !.pid = p]
                 ELSE pid_file
  /\ UNCHANGED socket

FillPidFile(p) ==
  /\ Go(p, "filling", "checking", None)
  /\ pid_file' = IF pid_file # None /\ pid_file.inode = carried[p]
                 THEN [pid_file EXCEPT !.pid = pid[p]]
                 ELSE pid_file
  /\ UNCHANGED socket

(* Mutant: a socket file that is in the way is left there. *)
CheckSocket_Trusting(p) ==
  /\ Go(p, "checking", "binding", None)
  /\ UNCHANGED file_vars

(* bind_socket: path.exists(), remove_file, bind.  Losing the file between  *)
(* the first two, or finding one at the third, is an error: run returns it  *)
(* and start_foreground removes the pid file.                               *)
CheckSocket(p) ==
  /\ \/ socket # None /\ Go(p, "checking", "unlinking", None)
     \/ socket = None /\ Go(p, "checking", "binding", None)
  /\ UNCHANGED file_vars

UnlinkSocket(p) ==
  /\ \/ socket # None /\ Go(p, "unlinking", "binding", None)
     \/ socket = None /\ Go(p, "unlinking", "failing", None)
  /\ socket' = None
  /\ UNCHANGED pid_file

BindSocket(p) ==
  /\ \/ socket = None /\ Go(p, "binding", "bound", None) /\ socket' = p
     \/ socket # None /\ Go(p, "binding", "failing", None) /\ UNCHANGED socket
  /\ UNCHANGED pid_file

(* The spawned task installs the handlers; until then a signal just kills. *)
InstallHandlers(p) ==
  /\ Go(p, "bound", "serving", None)
  /\ UNCHANGED file_vars

(* Mutant: the loop goes on accepting after the signal. *)
ObserveShutdown_GoOn(p) ==
  /\ p \in sigterm
  /\ Go(p, "serving", "serving", None)
  /\ UNCHANGED file_vars

(* The accept loop breaks, drops the listener and aborts the connections. *)
ObserveShutdown(p) ==
  /\ p \in sigterm
  /\ Go(p, "serving", "draining", None)
  /\ UNCHANGED file_vars

(* remove_socket_file and remove_pid_file do not ask whose file it is. *)
RemoveSocket(p) ==
  /\ Go(p, "draining", "cleaning", None)
  /\ socket' = None
  /\ UNCHANGED pid_file

RemovePidFile(p) ==
  /\ \/ Go(p, "cleaning", "stopped", None)
     \/ Go(p, "failing", "failed", None)
  /\ pid_file' = None
  /\ UNCHANGED socket

Die(p) ==
  /\ pc' = [pc EXCEPT ![p] = "killed"]
  /\ carried' = [carried EXCEPT ![p] = None]
  /\ UNCHANGED <<pid, sigterm, strangers, file_vars, stop_vars>>

(* The default disposition of the signal, before the handlers are there. *)
KilledBySignal(p) == p \in sigterm /\ pc[p] \in Starting /\ Die(p)

(* SIGKILL, a panic in main, the machine: files stay. *)
Crash(p) == Alive(p) /\ Die(p)

(* Ctrl-C, or a service manager. *)
Signal(p) ==
  /\ Alive(p)
  /\ sigterm' = sigterm \cup {p}
  /\ UNCHANGED <<pc, pid, carried, strangers, file_vars, stop_vars>>

DaemonStep(p) ==
  \/ ReadPidFile(p)
  \/ ProbePid(p)
  \/ RemoveStalePidFile(p)
  \/ TruncatePidFile(p)
  \/ FillPidFile(p)
  \/ CheckSocket(p)
  \/ UnlinkSocket(p)
  \/ BindSocket(p)
  \/ InstallHandlers(p)
  \/ ObserveShutdown(p)
  \/ RemoveSocket(p)
  \/ RemovePidFile(p)
  \/ KilledBySignal(p)

-----------------------------------------------------------------------------
(* teamcomm-daemon stop. *)

StopGo(c, from, to) ==
  /\ stop_pc[c] = from
  /\ stop_pc' = [stop_pc EXCEPT ![c] = to]
  /\ UNCHANGED <<pc, pid, carried, strangers, socket>>

(* Without a pid in the file there is nothing to stop. *)
StopRead(c) ==
  /\ RecordedPid # None
  /\ StopGo(c, "idle", "probing")
  /\ stop_pid' = [stop_pid EXCEPT ![c] = RecordedPid]
  /\ UNCHANGED <<sigterm, pid_file>>

StopProbe(c) ==
  /\ \/ is_pid_running(stop_pid[c]) /\ StopGo(c, "probing", "signalling")
     \/ ~is_pid_running(stop_pid[c]) /\ StopGo(c, "probing", "removing")
  /\ UNCHANGED <<sigterm, pid_file, stop_pid>>

(* kill -TERM goes to whoever has the pid; if nobody has, the command fails *)
(* and leaves the file.                                                     *)
StopSignal(c) ==
  /\ \/ is_pid_running(stop_pid[c]) /\ StopGo(c, "signalling", "waiting")
     \/ ~is_pid_running(stop_pid[c]) /\ StopGo(c, "signalling", "idle")
  /\ sigterm' = sigterm \cup {p \in Proc : Alive(p) /\ pid[p] = stop_pid[c]}
  /\ UNCHANGED <<pid_file, stop_pid>>

(* One of the thirty polls sees the process gone. *)
StopSeesExit(c) ==
  /\ ~is_pid_running(stop_pid[c])
  /\ StopGo(c, "waiting", "removing")
  /\ UNCHANGED <<sigterm, pid_file, stop_pid>>

(* Three seconds are over. *)
StopGivesUp(c) ==
  /\ is_pid_running(stop_pid[c])
  /\ StopGo(c, "waiting", "removing")
  /\ UNCHANGED <<sigterm, pid_file, stop_pid>>

StopRemovesPidFile(c) ==
  /\ StopGo(c, "removing", "idle")
  /\ pid_file' = None
  /\ stop_pid' = [stop_pid EXCEPT ![c] = None]
  /\ UNCHANGED sigterm

StopStep(c) ==
  \/ StopProbe(c)
  \/ StopSignal(c)
  \/ StopSeesExit(c)
  \/ StopRemovesPidFile(c)

-----------------------------------------------------------------------------
(* Processes that have nothing to do with teamcomm take and free pids. *)

StrangerComes ==
  /\ \E q \in FreePid : strangers' = strangers \cup {q}
  /\ UNCHANGED <<daemon_vars, file_vars, stop_vars>>

StrangerGoes ==
  /\ \E q \in strangers : strangers' = strangers \ {q}
  /\ UNCHANGED <<daemon_vars, file_vars, stop_vars>>

Surroundings ==
  \/ \E p \in Proc : DaemonStep(p) \/ Crash(p) \/ Signal(p)
  \/ \E c \in Stop : StopStep(c)
  \/ StrangerComes
  \/ StrangerGoes

(* Anybody starts and stops daemons at any time. *)
Next ==
  \/ Surroundings
  \/ \E p \in Proc : Spawn(p)
  \/ \E c \in Stop : StopRead(c) \/ StopGivesUp(c)

Fairness ==
  /\ \A p \in Proc : WF_vars(DaemonStep(p))
  /\ \A c \in Stop : WF_vars(StopStep(c))

Spec == Init /\ [][Next]_vars /\ Fairness

-----------------------------------------------------------------------------
(* Narrower uses, for what the code promises only then. *)

NobodyStarts == \A p \in Proc : pc[p] \notin Starting
StopsDone == \A c \in Stop : stop_pc[c] = "idle"

(* What has the pid is a stranger. *)
StopGivesUpOnStranger(c) ==
  /\ \A p \in Proc : Alive(p) => pid[p] # stop_pid[c]
  /\ StopGivesUp(c)

(* One start at a time, no stop while a daemon starts and no start while    *)
(* one is being stopped, and no daemon outlives the three seconds.  Stops   *)
(* overlap; crashes, signals and strangers come when they like.             *)
SerialNext ==
  \/ Surroundings
  \/ \E p \in Proc : NobodyStarts /\ StopsDone /\ Spawn(p)
  \/ \E c \in Stop : NobodyStarts /\ StopRead(c)
  \/ \E c \in Stop : StopGivesUpOnStranger(c)

SerialSpec == Init /\ [][SerialNext]_vars /\ Fairness

=============================================================================
