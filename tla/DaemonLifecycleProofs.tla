------------------------- MODULE DaemonLifecycleProofs -------------------------
(***************************************************************************)
(* Proofs that with one command at a time there is one daemon, its files    *)
(* name it, and leftovers stop nobody: for any number of starts, stops and  *)
(* pids, with crashes, signals and strangers at every step.                 *)
(*                                                                         *)
(* The argument: a start that gets past the probe of the pid file owns the  *)
(* two files until it ends.  There is one owner, because what a newcomer    *)
(* reads is the owner's pid, and an owner is running.                       *)
(***************************************************************************)
EXTENDS DaemonLifecycleProps, TLAPS

IsStarting(p) == pc[p] \in Starting

(* Past the probe and not yet at an end. *)
Owner(p) == pc[p] \in (Starting \ {"reading", "probing"}) \cup Handling

(* A process that wrote its pid. *)
Recorded(p) == pc[p] \in {"checking", "unlinking", "binding", "bound"} \cup Handling

OneStart == \A p, q \in Proc : IsStarting(p) /\ IsStarting(q) => p = q
OneOwner == \A p, q \in Proc : Owner(p) /\ Owner(q) => p = q

(* A newcomer has read the owner's pid and will find it running. *)
NewcomerKnows ==
  \A p, q \in Proc : pc[p] = "probing" /\ Owner(q) => carried[p] = pid[q]

(* The owner's pid file, by the step it is at. *)
OwnerRecorded ==
  \A p \in Proc :
    /\ pc[p] = "filling" => pid_file # None /\ pid_file.inode = carried[p]
    /\ Recorded(p) => RecordedPid = pid[p]

(* The owner's socket, by the step it is at: none of its calls fails. *)
OwnerBinds ==
  \A p \in Proc :
    /\ pc[p] = "unlinking" => socket # None
    /\ pc[p] = "binding" => socket = None
    /\ pc[p] \in {"bound", "serving", "draining"} => socket = p
    /\ pc[p] \notin {"failing", "failed"}

(* A stop command runs alone, is about the owner, and removes the pid file  *)
(* only after the owner's end.                                              *)
StopsWait ==
  \A c \in Stop : stop_pc[c] # "idle" =>
    \A p \in Proc :
      /\ ~IsStarting(p)
      /\ Owner(p) => stop_pid[c] = pid[p] /\ stop_pc[c] # "removing"

LInv ==
  /\ TypeOK
  /\ OneStart /\ OneOwner
  /\ NewcomerKnows
  /\ OwnerRecorded /\ OwnerBinds
  /\ StopsWait

-----------------------------------------------------------------------------

USE LifecycleAssumption DEF Starting, Handling, Ended, Owner, Recorded, IsStarting

(* While one process starts, no other one does and no stop command runs.    *)
LEMMA Alone ==
  ASSUME LInv, NEW p \in Proc, IsStarting(p)
  PROVE  /\ \A q \in Proc : IsStarting(q) => q = p
         /\ \A c \in Stop : stop_pc[c] = "idle"
BY DEF LInv, OneStart, StopsWait

(* The owner's pid, which a newcomer reads and probes. *)
LEMMA ReadKeeps == ASSUME LInv, NEW p \in Proc, ReadPidFile(p) PROVE LInv'
<1>. USE DEF Go, file_vars, stop_vars
<1>1. pc[p] = "reading"
  BY DEF ReadPidFile
<1>2. \A q \in Proc : Owner(q) => RecordedPid = pid[q] /\ RecordedPid # None
  BY <1>1, Alone DEF LInv, OwnerRecorded, TypeOK
<1>3. TypeOK'
  BY DEF ReadPidFile, LInv, TypeOK, RecordedPid
<1>4. OneStart' /\ OneOwner'
  BY <1>1, <1>2, Alone DEF ReadPidFile, LInv, TypeOK, OneStart, OneOwner
<1>5. NewcomerKnows'
  BY <1>1, <1>2, Alone DEF ReadPidFile, LInv, TypeOK, NewcomerKnows
<1>6. OwnerRecorded'
  BY <1>1 DEF ReadPidFile, LInv, TypeOK, OwnerRecorded, RecordedPid
<1>7. OwnerBinds'
  BY <1>1 DEF ReadPidFile, LInv, TypeOK, OwnerBinds
<1>8. StopsWait'
  BY <1>1, Alone DEF ReadPidFile, LInv, TypeOK, StopsWait
<1>. QED
  BY <1>3, <1>4, <1>5, <1>6, <1>7, <1>8 DEF LInv

(* Past the probe there is no owner: one would be running. *)
LEMMA ProbeKeeps == ASSUME LInv, NEW p \in Proc, ProbePid(p) PROVE LInv'
<1>. USE DEF Go, file_vars, stop_vars
<1>1. pc[p] = "probing"
  BY DEF ProbePid
<1>2. ~is_pid_running(carried[p]) => \A q \in Proc : ~Owner(q)
  BY <1>1 DEF LInv, NewcomerKnows, is_pid_running, Alive
<1>3. TypeOK'
  BY DEF ProbePid, LInv, TypeOK
<1>4. OneStart' /\ OneOwner'
  BY <1>1, <1>2, Alone DEF ProbePid, LInv, TypeOK, OneStart, OneOwner
<1>5. NewcomerKnows'
  BY <1>1, <1>2, Alone DEF ProbePid, LInv, TypeOK, NewcomerKnows
<1>6. OwnerRecorded'
  BY <1>1 DEF ProbePid, LInv, TypeOK, OwnerRecorded, RecordedPid
<1>7. OwnerBinds'
  BY <1>1 DEF ProbePid, LInv, TypeOK, OwnerBinds
<1>8. StopsWait'
  BY <1>1, Alone DEF ProbePid, LInv, TypeOK, StopsWait
<1>. QED
  BY <1>3, <1>4, <1>5, <1>6, <1>7, <1>8 DEF LInv

(* What the owner does to its files while it starts, alone.                 *)
LEMMA PidFileKeeps ==
  ASSUME LInv, NEW p \in Proc, RemoveStalePidFile(p) \/ TruncatePidFile(p) \/ FillPidFile(p)
  PROVE  LInv'
<1>. USE DEF Go, file_vars, stop_vars, RemoveStalePidFile, TruncatePidFile, FillPidFile
<1>1. pc[p] \in {"removing", "truncating", "filling"} /\ pc'[p] \in {"truncating", "filling", "checking"}
  BY DEF LInv, TypeOK
<1>2. \A q \in Proc : q # p => ~Owner(q) /\ ~IsStarting(q) /\ pc'[q] = pc[q] /\ carried'[q] = carried[q]
  BY <1>1, Alone DEF LInv, TypeOK, OneOwner
<1>3. TypeOK'
  BY DEF LInv, TypeOK
<1>4. OneStart' /\ OneOwner' /\ NewcomerKnows'
  BY <1>1, <1>2 DEF OneStart, OneOwner, NewcomerKnows
<1>5. OwnerRecorded'
  <2>1. \A q \in Proc : q # p => ~Recorded(q)' /\ pc'[q] # "filling"
    BY <1>2
  <2>2. pc'[p] = "filling" => pid_file' # None /\ pid_file'.inode = carried'[p]
    BY DEF LInv, TypeOK
  <2>3. Recorded(p)' => pc[p] = "filling" /\ FillPidFile(p)
    BY <1>1 DEF LInv, TypeOK
  <2>4. Recorded(p)' => RecordedPid' = pid'[p]
    BY <2>3 DEF LInv, TypeOK, OwnerRecorded, RecordedPid
  <2>. QED
    BY <2>1, <2>2, <2>4 DEF OwnerRecorded
<1>6. OwnerBinds' /\ StopsWait'
  BY <1>1, <1>2, Alone DEF LInv, TypeOK, OwnerBinds, StopsWait
<1>. QED
  BY <1>3, <1>4, <1>5, <1>6 DEF LInv

(* Its socket: it finds what it saw, for nobody else touches the file.      *)
LEMMA SocketKeeps ==
  ASSUME LInv, NEW p \in Proc, CheckSocket(p) \/ UnlinkSocket(p) \/ BindSocket(p) \/ InstallHandlers(p)
  PROVE  LInv'
<1>. USE DEF Go, file_vars, stop_vars, CheckSocket, UnlinkSocket, BindSocket, InstallHandlers
<1>1. /\ pc[p] \in {"checking", "unlinking", "binding", "bound"}
      /\ pc'[p] \in {"unlinking", "binding", "bound", "serving"}
  BY DEF LInv, TypeOK, OwnerBinds
<1>2. \A q \in Proc : q # p => ~Owner(q) /\ ~IsStarting(q) /\ pc'[q] = pc[q] /\ carried'[q] = carried[q]
  BY <1>1, Alone DEF LInv, TypeOK, OneOwner
<1>3. TypeOK'
  BY DEF LInv, TypeOK
<1>4. OneStart' /\ OneOwner' /\ NewcomerKnows'
  BY <1>1, <1>2 DEF OneStart, OneOwner, NewcomerKnows
<1>5. OwnerRecorded'
  BY <1>1, <1>2 DEF LInv, OwnerRecorded, RecordedPid
<1>6. OwnerBinds'
  BY <1>1, <1>2 DEF LInv, TypeOK, OwnerBinds
<1>7. StopsWait'
  BY <1>1, <1>2, Alone DEF LInv, TypeOK, StopsWait
<1>. QED
  BY <1>3, <1>4, <1>5, <1>6, <1>7 DEF LInv

(* The way out: a newcomer may already have read the owner's pid.           *)
LEMMA ExitKeeps ==
  ASSUME LInv, NEW p \in Proc, ObserveShutdown(p) \/ RemoveSocket(p) \/ RemovePidFile(p)
  PROVE  LInv'
<1>. USE DEF Go, file_vars, stop_vars, ObserveShutdown, RemoveSocket, RemovePidFile
<1>1. /\ pc[p] \in Handling
      /\ pc'[p] \in {"draining", "cleaning", "stopped"}
      /\ pc'[p] = "stopped" <=> pc[p] = "cleaning"
  BY DEF LInv, TypeOK, OwnerBinds
<1>2. \A q \in Proc : q # p => ~Owner(q) /\ pc'[q] = pc[q] /\ carried'[q] = carried[q]
  BY <1>1 DEF LInv, TypeOK, OneOwner
<1>3. TypeOK'
  BY DEF LInv, TypeOK
<1>4. OneStart' /\ OneOwner'
  BY <1>1, <1>2 DEF LInv, OneStart, OneOwner
<1>5. NewcomerKnows'
  BY <1>1, <1>2 DEF LInv, NewcomerKnows
<1>6. OwnerRecorded'
  BY <1>1, <1>2 DEF LInv, OwnerRecorded, RecordedPid
<1>7. OwnerBinds'
  BY <1>1, <1>2 DEF LInv, TypeOK, OwnerBinds
<1>8. StopsWait'
  BY <1>1, <1>2 DEF LInv, TypeOK, StopsWait
<1>. QED
  BY <1>3, <1>4, <1>5, <1>6, <1>7, <1>8 DEF LInv

(* A process that dies, at whatever step, leaves its files to the next one. *)
LEMMA DieKeeps == ASSUME LInv, NEW p \in Proc, Alive(p), Die(p) PROVE LInv'
<1>. USE DEF Die, Alive, file_vars, stop_vars
<1>1. \A q \in Proc : q # p => pc'[q] = pc[q] /\ carried'[q] = carried[q]
  BY DEF LInv, TypeOK
<1>2. pc'[p] = "killed"
  BY DEF LInv, TypeOK
<1>3. TypeOK'
  BY DEF LInv, TypeOK
<1>4. OneStart' /\ OneOwner' /\ NewcomerKnows'
  BY <1>1, <1>2 DEF LInv, OneStart, OneOwner, NewcomerKnows
<1>5. OwnerRecorded' /\ OwnerBinds' /\ StopsWait'
  BY <1>1, <1>2 DEF LInv, OwnerRecorded, OwnerBinds, StopsWait, RecordedPid
<1>. QED
  BY <1>3, <1>4, <1>5 DEF LInv

(* A new process, when nobody starts or stops. *)
LEMMA SpawnKeeps == ASSUME LInv, NEW p \in Proc, NobodyStarts, StopsDone, Spawn(p) PROVE LInv'
<1>. USE DEF Spawn, NobodyStarts, StopsDone, file_vars, stop_vars
<1>1. \A q \in Proc : /\ ~IsStarting(q)
                      /\ q # p => pc'[q] = pc[q] /\ pid'[q] = pid[q]
  BY DEF LInv, TypeOK
<1>2. pc[p] = "unused" /\ pc'[p] = "reading"
  BY DEF LInv, TypeOK
<1>3. TypeOK'
  BY DEF LInv, TypeOK, FreePid
<1>4. OneStart' /\ OneOwner' /\ NewcomerKnows'
  BY <1>1, <1>2 DEF LInv, OneStart, OneOwner, NewcomerKnows
<1>5. OwnerRecorded' /\ OwnerBinds' /\ StopsWait'
  BY <1>1, <1>2 DEF LInv, OwnerRecorded, OwnerBinds, StopsWait, RecordedPid
<1>. QED
  BY <1>3, <1>4, <1>5 DEF LInv

(* A stop command that begins reads the owner's pid, if there is an owner.  *)
LEMMA StopReadKeeps ==
  ASSUME LInv, NEW c \in Stop, NobodyStarts, StopRead(c)
  PROVE  LInv'
<1>. USE DEF StopRead, StopGo, NobodyStarts
<1>1. TypeOK'
  BY DEF LInv, TypeOK, RecordedPid
<1>2. OneStart' /\ OneOwner' /\ NewcomerKnows' /\ OwnerRecorded' /\ OwnerBinds'
  BY DEF LInv, OneStart, OneOwner, NewcomerKnows, OwnerRecorded, OwnerBinds, RecordedPid
<1>3. StopsWait'
  BY DEF LInv, TypeOK, OwnerRecorded, StopsWait
<1>. QED
  BY <1>1, <1>2, <1>3 DEF LInv

(* It goes on to remove the file only when the owner runs no more. *)
LEMMA StopKeeps ==
  ASSUME LInv, NEW c \in Stop, StopStep(c) \/ StopGivesUpOnStranger(c)
  PROVE  LInv'
<1>. USE DEF StopStep, StopGivesUpOnStranger, StopGivesUp, StopProbe, StopSignal, StopSeesExit, StopRemovesPidFile, StopGo
<1>1. stop_pc[c] # "idle"
  BY DEF LInv, TypeOK
<1>2. ~is_pid_running(stop_pid[c]) \/ StopGivesUpOnStranger(c) => \A p \in Proc : ~Owner(p)
  BY <1>1 DEF LInv, StopsWait, is_pid_running, Alive
<1>3. TypeOK'
  BY DEF LInv, TypeOK
<1>4. OneStart' /\ OneOwner' /\ NewcomerKnows' /\ OwnerBinds'
  BY DEF LInv, OneStart, OneOwner, NewcomerKnows, OwnerBinds
<1>5. OwnerRecorded'
  BY <1>1 DEF LInv, OwnerRecorded, StopsWait, RecordedPid
<1>6. StopsWait'
  BY <1>1, <1>2 DEF LInv, TypeOK, StopsWait
<1>. QED
  BY <1>3, <1>4, <1>5, <1>6 DEF LInv

(* Signals and strangers change nothing the invariant is about. *)
LEMMA OthersKeep ==
  ASSUME LInv, \/ \E p \in Proc : Signal(p)
               \/ StrangerComes \/ StrangerGoes
               \/ UNCHANGED vars
  PROVE  LInv'
<1>1. /\ UNCHANGED <<pc, pid, carried, file_vars, stop_vars>>
      /\ sigterm' \subseteq Proc /\ strangers' \subseteq Pid
  BY DEF Signal, StrangerComes, StrangerGoes, FreePid, vars, daemon_vars, LInv, TypeOK
<1>. QED
  BY <1>1 DEF LInv, TypeOK, OneStart, OneOwner, NewcomerKnows, OwnerRecorded, OwnerBinds,
              StopsWait, RecordedPid, file_vars, stop_vars

-----------------------------------------------------------------------------

(* The strengthening is inductive under SerialSpec. *)
THEOREM SerialInductive == SerialSpec => []LInv
<1>1. Init => LInv
  BY DEF Init, LInv, TypeOK, OneStart, OneOwner, NewcomerKnows, OwnerRecorded, OwnerBinds,
         StopsWait
<1>2. LInv /\ [SerialNext]_vars => LInv'
  <2>. SUFFICES ASSUME LInv, [SerialNext]_vars PROVE LInv'
    OBVIOUS
  <2>1. ASSUME NEW p \in Proc, DaemonStep(p) \/ Crash(p) PROVE LInv'
    BY <2>1, ReadKeeps, ProbeKeeps, PidFileKeeps, SocketKeeps, ExitKeeps, DieKeeps
    DEF DaemonStep, KilledBySignal, Crash, Alive
  <2>2. ASSUME NEW p \in Proc, NobodyStarts, StopsDone, Spawn(p) PROVE LInv'
    BY <2>2, SpawnKeeps
  <2>3. ASSUME NEW c \in Stop, NobodyStarts, StopRead(c) PROVE LInv'
    BY <2>3, StopReadKeeps
  <2>. QED
    BY <2>1, <2>2, <2>3, StopKeeps, OthersKeep DEF SerialNext, Surroundings
<1>. QED
  BY <1>1, <1>2, PTL DEF SerialSpec

(* Every variable keeps its type. *)
THEOREM LifecycleTypeCorrect == SerialSpec => []TypeOK
<1>1. LInv => TypeOK
  BY DEF LInv
<1>. QED
  BY <1>1, SerialInductive, PTL

(* At most one daemon accepts connections.                                  *)
THEOREM NeverTwoDaemons == SerialSpec => []OneDaemon
<1>1. LInv => OneDaemon
  BY DEF LInv, OneOwner, OneDaemon, Listening
<1>. QED
  BY <1>1, SerialInductive, PTL

(* A daemon that serves has the socket file and its pid in the pid file.    *)
THEOREM FilesAreTheDaemons == SerialSpec => []FilesNameTheDaemon
<1>1. LInv => FilesNameTheDaemon
  BY DEF LInv, OwnerRecorded, OwnerBinds, FilesNameTheDaemon
<1>. QED
  BY <1>1, SerialInductive, PTL

(* No start fails at the socket, whatever a crash left behind.              *)
THEOREM StartsNeverFail == SerialSpec => []LeftoversAreNeverFatal
<1>1. LInv => LeftoversAreNeverFatal
  BY DEF LInv, OwnerBinds, LeftoversAreNeverFatal
<1>. QED
  BY <1>1, SerialInductive, PTL

-----------------------------------------------------------------------------
(* When starts and stops overlap at will.                                   *)

(* The processes that ever were daemons. *)
DaemonPids == {pid[p] : p \in {q \in Proc : pc[q] # "unused"}}

(* What the files say, what starts and stops act on: only pids of daemons,  *)
(* though any of them may be dead by now and its pid a stranger's.          *)
PidsAreOfDaemons ==
  /\ RecordedPid \in DaemonPids \cup {None}
  /\ \A p \in Proc : pc[p] = "probing" => carried[p] \in DaemonPids
  /\ \A c \in Stop : stop_pc[c] # "idle" => stop_pid[c] \in DaemonPids

(* Any step keeps the types: pids come from the system, starts, the file.   *)
LEMMA NextKeepsTypes == ASSUME TypeOK, [Next]_vars PROVE TypeOK'
<1>. USE DEF TypeOK, daemon_vars, file_vars, stop_vars
<1>1. ASSUME NEW p \in Proc, ReadPidFile(p) \/ ProbePid(p) PROVE TypeOK'
  BY <1>1 DEF ReadPidFile, ProbePid, Go, RecordedPid
<1>2. ASSUME NEW p \in Proc, RemoveStalePidFile(p) \/ TruncatePidFile(p) PROVE TypeOK'
  BY <1>2 DEF RemoveStalePidFile, TruncatePidFile, Go
<1>3. ASSUME NEW p \in Proc, FillPidFile(p) PROVE TypeOK'
  BY <1>3 DEF FillPidFile, Go
<1>4. ASSUME NEW p \in Proc, CheckSocket(p) \/ UnlinkSocket(p) \/ BindSocket(p) PROVE TypeOK'
  BY <1>4 DEF CheckSocket, UnlinkSocket, BindSocket, Go
<1>5. ASSUME NEW p \in Proc,
             InstallHandlers(p) \/ ObserveShutdown(p) \/ RemoveSocket(p) \/ RemovePidFile(p)
      PROVE  TypeOK'
  BY <1>5 DEF InstallHandlers, ObserveShutdown, RemoveSocket, RemovePidFile, Go
<1>6. ASSUME NEW p \in Proc, KilledBySignal(p) \/ Crash(p) \/ Signal(p) PROVE TypeOK'
  BY <1>6 DEF KilledBySignal, Crash, Signal, Die, Alive
<1>7. ASSUME NEW p \in Proc, Spawn(p) PROVE TypeOK'
  BY <1>7 DEF Spawn, FreePid
<1>8. ASSUME NEW c \in Stop, StopRead(c) \/ StopStep(c) \/ StopGivesUp(c) PROVE TypeOK'
  BY <1>8 DEF StopRead, StopStep, StopProbe, StopSignal, StopSeesExit, StopGivesUp,
              StopRemovesPidFile, StopGo, RecordedPid
<1>9. ASSUME StrangerComes \/ StrangerGoes \/ UNCHANGED vars PROVE TypeOK'
  BY <1>9 DEF StrangerComes, StrangerGoes, FreePid, vars
<1>. QED
  BY <1>1, <1>2, <1>3, <1>4, <1>5, <1>6, <1>7, <1>8, <1>9 DEF Next, Surroundings, DaemonStep

(* Who was a daemon stays one who was, with its pid.                        *)
LEMMA DaemonPidsGrow == ASSUME TypeOK, [Next]_vars PROVE DaemonPids \subseteq DaemonPids'
<1>. USE DEF TypeOK, daemon_vars, file_vars, stop_vars
<1>. SUFFICES \A p \in Proc : pc[p] # "unused" => pc'[p] # "unused" /\ pid'[p] = pid[p]
  BY DEF DaemonPids
<1>1. ASSUME NEW q \in Proc, DaemonStep(q)
      PROVE  \A p \in Proc : pc[p] # "unused" => pc'[p] # "unused" /\ pid'[p] = pid[p]
  BY <1>1 DEF DaemonStep, ReadPidFile, ProbePid, RemoveStalePidFile, TruncatePidFile,
              FillPidFile, CheckSocket, UnlinkSocket, BindSocket, InstallHandlers,
              ObserveShutdown, RemoveSocket, RemovePidFile, KilledBySignal, Die, Go
<1>2. ASSUME NEW q \in Proc, Crash(q) \/ Signal(q) \/ Spawn(q)
      PROVE  \A p \in Proc : pc[p] # "unused" => pc'[p] # "unused" /\ pid'[p] = pid[p]
  BY <1>2 DEF Crash, Signal, Spawn, Die
<1>3. ASSUME NEW c \in Stop, StopRead(c) \/ StopStep(c) \/ StopGivesUp(c)
      PROVE  UNCHANGED <<pc, pid>>
  BY <1>3 DEF StopRead, StopStep, StopProbe, StopSignal, StopSeesExit, StopGivesUp,
              StopRemovesPidFile, StopGo
<1>4. ASSUME StrangerComes \/ StrangerGoes \/ UNCHANGED vars PROVE UNCHANGED <<pc, pid>>
  BY <1>4 DEF StrangerComes, StrangerGoes, vars
<1>. QED
  BY <1>1, <1>2, <1>3, <1>4 DEF Next, Surroundings

(* A pid gets into the file only from the daemon that writes its own.       *)
LEMMA NextKeepsPids ==
  ASSUME TypeOK, PidsAreOfDaemons, [Next]_vars
  PROVE  PidsAreOfDaemons'
<1>. USE DEF daemon_vars, file_vars, stop_vars
<1>. DEFINE Kept == /\ RecordedPid' \in {RecordedPid, None} \cup DaemonPids
                    /\ \A p \in Proc : pc'[p] = "probing" =>
                          \/ carried'[p] \in {RecordedPid} \ {None}
                          \/ pc[p] = "probing" /\ carried'[p] = carried[p]
                    /\ \A c \in Stop : stop_pc'[c] # "idle" =>
                          \/ stop_pid'[c] \in {RecordedPid} \ {None}
                          \/ stop_pc[c] # "idle" /\ stop_pid'[c] = stop_pid[c]
<1>1. ASSUME NEW p \in Proc, DaemonStep(p) PROVE Kept
  <2>1. pc[p] # "unused" => pid[p] \in DaemonPids
    BY DEF DaemonPids
  <2>2. CASE FillPidFile(p)
    BY <2>1, <2>2 DEF FillPidFile, Go, TypeOK, RecordedPid
  <2>3. CASE ReadPidFile(p) \/ ProbePid(p)
    BY <2>3 DEF ReadPidFile, ProbePid, Go, TypeOK, RecordedPid
  <2>4. CASE RemoveStalePidFile(p) \/ TruncatePidFile(p) \/ RemovePidFile(p)
    BY <2>4 DEF RemoveStalePidFile, TruncatePidFile, RemovePidFile, Go, TypeOK, RecordedPid
  <2>5. CASE CheckSocket(p) \/ UnlinkSocket(p) \/ BindSocket(p) \/ InstallHandlers(p)
             \/ ObserveShutdown(p) \/ RemoveSocket(p)
    BY <2>5 DEF CheckSocket, UnlinkSocket, BindSocket, InstallHandlers, ObserveShutdown,
                RemoveSocket, Go, TypeOK, RecordedPid
  <2>6. CASE KilledBySignal(p)
    BY <2>6 DEF KilledBySignal, Die, TypeOK, RecordedPid
  <2>. QED
    BY <1>1, <2>2, <2>3, <2>4, <2>5, <2>6 DEF DaemonStep
<1>2. ASSUME NEW p \in Proc, Crash(p) \/ Signal(p) \/ Spawn(p) PROVE Kept
  BY <1>2 DEF Crash, Signal, Spawn, Die, TypeOK, RecordedPid
<1>3. ASSUME NEW c \in Stop, StopRead(c) \/ StopStep(c) \/ StopGivesUp(c) PROVE Kept
  BY <1>3 DEF StopRead, StopStep, StopProbe, StopSignal, StopSeesExit, StopGivesUp,
              StopRemovesPidFile, StopGo, TypeOK, RecordedPid
<1>4. ASSUME StrangerComes \/ StrangerGoes \/ UNCHANGED vars PROVE Kept
  BY <1>4 DEF StrangerComes, StrangerGoes, vars, TypeOK, RecordedPid
<1>5. Kept
  BY <1>1, <1>2, <1>3, <1>4 DEF Next, Surroundings
<1>. QED
  BY <1>5, DaemonPidsGrow DEF PidsAreOfDaemons

(* The types hold whatever starts and stops overlap.                        *)
THEOREM OverlappingTypeCorrect == Spec => []TypeOK
<1>1. Init => TypeOK
  BY DEF Init, TypeOK
<1>2. TypeOK /\ [Next]_vars => TypeOK'
  BY NextKeepsTypes
<1>. QED
  BY <1>1, <1>2, PTL DEF Spec

(* However starts and stops overlap, a stop signals and a start is refused  *)
(* for the pid of a daemon only, if an old one: nothing else is ever in the *)
(* pid file (pid.rs, write_pid_file).                                       *)
THEOREM OnlyDaemonsAreRecorded == Spec => []PidsAreOfDaemons
<1>1. Init => PidsAreOfDaemons
  BY DEF Init, PidsAreOfDaemons, RecordedPid
<1>2. TypeOK /\ PidsAreOfDaemons /\ [Next]_vars => PidsAreOfDaemons'
  BY NextKeepsPids
<1>. QED
  BY <1>1, <1>2, OverlappingTypeCorrect, PTL DEF Spec

(* Commands that wait are a narrower use: what is shown of any overlap, the *)
(* liveness of starts and signals too, holds of them.                       *)
THEOREM SerialUseIsAUse == SerialSpec => Spec
<1>1. [SerialNext]_vars => [Next]_vars
  BY DEF SerialNext, Next, Surroundings, StopGivesUpOnStranger
<1>. QED
  BY <1>1, PTL DEF SerialSpec, Spec

=============================================================================
