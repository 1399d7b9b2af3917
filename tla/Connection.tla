------------------------------ MODULE Connection ------------------------------
(***************************************************************************)
(* One agent's Client (teamcomm-client/src/lib.rs), the connections it      *)
(* opens one after another, the tasks that serve them (listener.rs,         *)
(* handle_connection) and the shutdown of the listener.                     *)
(*                                                                         *)
(* A request is the number of the call that sent it; every request on the   *)
(* wire has the same id, 1, so nothing but the order on the connection      *)
(* tells replies apart.  What a handler does is one Execute.                *)
(***************************************************************************)
EXTENDS Integers, Sequences

CONSTANTS
  Conn,      \* connections, each opened once
  MaxCalls,  \* bound on the calls of the agent
  None       \* no connection, no request

ASSUME ConnectionAssumption == MaxCalls \in Nat /\ None \notin Nat \cup Conn

VARIABLES
  stream,    \* the connection in Client::stream, or None
  call,      \* number of the latest call
  phase,     \* where that call is: idle, writing, reading
  got,       \* number of the request whose reply the latest answered call returned
  answered,  \* the latest call that returned a reply
  agent_end, \* connection -> unused, open, closed
  up,        \* connection -> request lines on their way to the daemon
  down,      \* connection -> reply lines on their way to the agent
  task,      \* connection -> where its task is
  request,   \* connection -> request its task is serving, or None
  executed,  \* the requests executed so far, in order
  listener   \* accepting, closed (listener dropped), aborted, returned, exited

client_vars == <<stream, call, phase, got, answered>>
task_vars == <<task, request, executed>>
vars == <<client_vars, agent_end, up, down, task_vars, listener>>

(* A line whose end is missing still counts as one at end of file; it       *)
(* parses only if nothing but the newline is missing.                       *)
Line == [call: Nat, parses: BOOLEAN]

TaskState == {"backlog", "reading", "dispatching", "replying", "done"}

-----------------------------------------------------------------------------

Init ==
  /\ stream = None
  /\ call = 0
  /\ phase = "idle"
  /\ got = 0
  /\ answered = 0
  /\ agent_end = [c \in Conn |-> "unused"]
  /\ up = [c \in Conn |-> <<>>]
  /\ down = [c \in Conn |-> <<>>]
  /\ task = [c \in Conn |-> "backlog"]
  /\ request = [c \in Conn |-> None]
  /\ executed = <<>>
  /\ listener = "accepting"

(* A handle whose stream is gone stays unusable; the agent makes a new one. *)
Connect(c) ==
  /\ phase = "idle"
  /\ stream = None
  /\ listener = "accepting"
  /\ agent_end[c] = "unused"
  /\ agent_end' = [agent_end EXCEPT ![c] = "open"]
  /\ stream' = c
  /\ UNCHANGED <<call, phase, got, answered, up, down, task_vars, listener>>

(* `call` takes the stream out of the handle for as long as it runs. *)
StartCall ==
  /\ phase = "idle"
  /\ stream # None
  /\ call < MaxCalls
  /\ call' = call + 1
  /\ phase' = "writing"
  /\ UNCHANGED <<stream, got, answered, agent_end, up, down, task_vars, listener>>

WriteRequest ==
  /\ phase = "writing"
  /\ task[stream] # "done"
  /\ up' = [up EXCEPT ![stream] = Append(@, [call |-> call, parses |-> TRUE])]
  /\ phase' = "reading"
  /\ UNCHANGED <<stream, call, got, answered, agent_end, down, task_vars, listener>>

(* A reply line arrived: the halves are reunited and the stream goes back.  *)
ReadReply ==
  /\ phase = "reading"
  /\ down[stream] # <<>>
  /\ got' = Head(down[stream])
  /\ answered' = call
  /\ down' = [down EXCEPT ![stream] = <<>>]   \* the BufReader is dropped with what it holds
  /\ phase' = "idle"
  /\ UNCHANGED <<stream, call, agent_end, up, task_vars, listener>>

(* Mutant: a call that fails leaves the stream in the handle. *)
DropStream_Keep ==
  /\ phase' = "idle"
  /\ UNCHANGED <<stream, agent_end, call, got, answered, down, task_vars, listener>>

(* On every way out but a reply the stream is dropped, which closes it. *)
DropStream ==
  /\ agent_end' = [agent_end EXCEPT ![stream] = "closed"]
  /\ stream' = None
  /\ phase' = "idle"
  /\ UNCHANGED <<call, got, answered, down, task_vars, listener>>

(* Mutant: an empty read is not taken for the end of the connection. *)
SeeClosed_Ignore == phase = "writing" /\ task[stream] = "done" /\ DropStream /\ UNCHANGED up

(* The write fails, or read_line returns 0 or an error. *)
SeeClosed == phase # "idle" /\ task[stream] = "done" /\ DropStream /\ UNCHANGED up

(* The future is dropped while it waits, by a timeout or a select of the    *)
(* caller: while it writes, part of the line may be out.                    *)
CancelCall ==
  /\ \/ phase = "reading" /\ UNCHANGED up
     \/ phase = "writing" /\ UNCHANGED up
     \/ /\ phase = "writing"
        /\ \E parses \in BOOLEAN :
             up' = [up EXCEPT ![stream] = Append(@, [call |-> call, parses |-> parses])]
  /\ DropStream

(* The handle is dropped between calls. *)
CloseHandle ==
  /\ phase = "idle"
  /\ stream # None
  /\ DropStream
  /\ UNCHANGED up

-----------------------------------------------------------------------------

TaskGoes(c, from, to) ==
  /\ task[c] = from
  /\ task' = [task EXCEPT ![c] = to]
  /\ UNCHANGED <<client_vars, agent_end, listener>>

Accept(c) ==
  /\ listener = "accepting"
  /\ agent_end[c] # "unused"
  /\ TaskGoes(c, "backlog", "reading")
  /\ UNCHANGED <<up, down, request, executed>>

(* Mutant: the line buffer is not cleared before the next read. *)
ReadRequest_NoClear(c) ==
  /\ up[c] # <<>>
  /\ Head(up[c]).parses
  /\ TaskGoes(c, "reading", "dispatching")
  /\ request' = [request EXCEPT ![c] = Head(up[c]).call]
  /\ UNCHANGED <<up, down, executed>>

ReadRequest(c) ==
  /\ up[c] # <<>>
  /\ Head(up[c]).parses
  /\ TaskGoes(c, "reading", "dispatching")
  /\ request' = [request EXCEPT ![c] = Head(up[c]).call]
  /\ up' = [up EXCEPT ![c] = Tail(@)]
  /\ UNCHANGED <<down, executed>>

(* Mutant: a line cut short is dispatched with nothing in it. *)
ReadFragment_Dispatched(c) ==
  /\ up[c] # <<>>
  /\ ~Head(up[c]).parses
  /\ TaskGoes(c, "reading", "dispatching")
  /\ UNCHANGED <<up, down, request, executed>>

(* A line cut short comes with the end of the file: the parse error cannot  *)
(* be written back and the task returns.                                    *)
ReadFragment(c) ==
  /\ up[c] # <<>>
  /\ ~Head(up[c]).parses
  /\ TaskGoes(c, "reading", "done")
  /\ UNCHANGED <<up, down, request, executed>>

(* End of file, or IDLE_TIMEOUT without a line. *)
StopReading(c) ==
  /\ up[c] = <<>>
  /\ TaskGoes(c, "reading", "done")
  /\ UNCHANGED <<up, down, request, executed>>

Execute(c) ==
  /\ TaskGoes(c, "dispatching", "replying")
  /\ executed' = Append(executed, request[c])
  /\ UNCHANGED <<up, down, request>>

Reply(c) ==
  /\ \/ /\ agent_end[c] = "open"
        /\ TaskGoes(c, "replying", "reading")
        /\ down' = [down EXCEPT ![c] = Append(@, request[c])]
     \/ /\ agent_end[c] = "closed"
        /\ TaskGoes(c, "replying", "done")
        /\ UNCHANGED down
  /\ request' = [request EXCEPT ![c] = None]
  /\ UNCHANGED <<up, executed>>

TaskStep(c) ==
  \/ Accept(c)
  \/ ReadRequest(c)
  \/ ReadFragment(c)
  \/ StopReading(c)
  \/ Execute(c)
  \/ Reply(c)

-----------------------------------------------------------------------------
(* Shutdown.  abort() only asks: a task ends at its next await, and what it *)
(* does before that it still does.                                          *)

ListenerGoes(from, to) ==
  /\ listener = from
  /\ listener' = to
  /\ UNCHANGED <<client_vars, agent_end, up, down, request, executed>>

(* The loop breaks and the listener is dropped: nobody accepts the backlog. *)
CloseListener ==
  /\ ListenerGoes("accepting", "closed")
  /\ task' = [c \in Conn |-> IF task[c] = "backlog" /\ agent_end[c] # "unused"
                             THEN "done" ELSE task[c]]

AbortTasks == ListenerGoes("closed", "aborted") /\ UNCHANGED task

(* run removes the socket file and returns. *)
ReturnFromRun == ListenerGoes("aborted", "returned") /\ UNCHANGED task

(* The runtime goes, and every task with it. *)
TasksEnd == task' = [c \in Conn |-> IF agent_end[c] = "unused" THEN task[c] ELSE "done"]

(* main returns. *)
ExitProcess == ListenerGoes("returned", "exited") /\ TasksEnd

(* The daemon is killed. *)
CrashProcess == \E from \in {"accepting", "closed", "aborted"} : ListenerGoes(from, "exited") /\ TasksEnd

TaskAborted(c) ==
  /\ listener \in {"aborted", "returned"}
  /\ task[c] \in {"reading", "dispatching", "replying"}
  /\ TaskGoes(c, task[c], "done")
  /\ request' = [request EXCEPT ![c] = None]
  /\ UNCHANGED <<up, down, executed>>

-----------------------------------------------------------------------------

ListenerStep == AbortTasks \/ ReturnFromRun \/ ExitProcess

ClientStep == WriteRequest \/ ReadReply \/ SeeClosed

Next ==
  \/ \E c \in Conn : Connect(c) \/ TaskStep(c) \/ TaskAborted(c)
  \/ StartCall
  \/ ClientStep
  \/ CancelCall
  \/ CloseHandle
  \/ CloseListener
  \/ ListenerStep
  \/ CrashProcess

(* The runtime polls every ready task, the agent its call; nothing makes    *)
(* the agent call, connect, cancel or a signal come.                        *)
Spec ==
  /\ Init
  /\ [][Next]_vars
  /\ \A c \in Conn : WF_vars(TaskStep(c))
  /\ WF_vars(ClientStep)
  /\ WF_vars(ListenerStep)

-----------------------------------------------------------------------------

(* Every variable has its type. *)
TypeOK ==
  /\ stream \in Conn \cup {None}
  /\ call \in 0..MaxCalls
  /\ phase \in {"idle", "writing", "reading"}
  /\ phase # "idle" => stream # None
  /\ got \in 0..MaxCalls /\ answered \in 0..MaxCalls
  /\ agent_end \in [Conn -> {"unused", "open", "closed"}]
  /\ up \in [Conn -> Seq(Line)]
  /\ down \in [Conn -> Seq(1..MaxCalls)]
  /\ task \in [Conn -> TaskState]
  /\ request \in [Conn -> (1..MaxCalls) \cup {None}]
  /\ executed \in Seq(1..MaxCalls)
  /\ listener \in {"accepting", "closed", "aborted", "returned", "exited"}

(* A call that returns a reply returns the reply to its own request, though *)
(* all requests carry the id 1 and nobody compares ids (lib.rs:51): no      *)
(* cancelled or failed call leaves a reply behind for the next one.         *)
ReplyMatchesCall == got = answered

(* The connections, the tasks and the shutdown implement calls that are     *)
(* executed at most once and return their own replies: neither end repeats  *)
(* a request, and an error leaves open whether it was executed, never how   *)
(* often.                                                                   *)
Calls == INSTANCE AtMostOnceCalls WITH busy <- phase # "idle"
CallsRunAtMostOnce == Calls!Spec

(* The client has no timeout of its own: every call still ends, with a      *)
(* reply or an error, whenever the idle timeout, an abort or the end of     *)
(* the daemon cuts in.                                                      *)
CallsEnd == phase # "idle" ~> phase = "idle"

=============================================================================
