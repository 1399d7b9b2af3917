------------------------------- MODULE FrontEnds -------------------------------
(***************************************************************************)
(* The MCP bridge, commands of the CLI and agents that use the client       *)
(* library, each with a request under way to one daemon that may die and    *)
(* start again between any two steps.  The bridge (teamcomm-mcp/src/        *)
(* main.rs) takes one line at a time and opens a connection per line; a     *)
(* command (teamcomm-cli/src/rpc.rs) is a process with one connection; an   *)
(* agent keeps its connection over its calls.  None of them has a timeout.  *)
(*                                                                         *)
(* The daemon's tables are reduced to the ids in them.                      *)
(***************************************************************************)
EXTENDS Requests, FiniteSets, Integers

CONSTANTS
  Bridge,   \* the bridge process
  Cli,      \* where a command runs, one after the other
  Agent,    \* a process that uses the library
  SessionId, ReservationId, MessageId,
            \* the ids the daemon may mint; they bound how many it mints
  Variant,     \* the words and optional arguments that callers give
  Together,    \* the sets of clients that may have calls under way at one
               \* time; it bounds how calls overlap
  None         \* an absent value

ASSUME FrontEndsAssumption ==
  /\ Variant \subseteq [word: {"known", "unknown"}, full: BOOLEAN]
  /\ Bridge # Cli /\ Bridge # Agent /\ Cli # Agent

Client == {Bridge, Cli, Agent}

Arguments(c) ==
  {[pid |-> c, session |-> s, reservation |-> r, message |-> m, word |-> v.word, full |-> v.full] :
     s \in SessionId, r \in ReservationId, m \in MessageId, v \in Variant}

(* What each client may ask of the daemon. *)
Tools == UNION {route(a) : a \in Arguments(Bridge)}
CliCommands == UNION {Commands(a) : a \in Arguments(Cli)}
Wrappers == UNION {Library(a) : a \in Arguments(Agent)}

Offers == [c \in Client |->
  IF c = Bridge THEN Tools ELSE IF c = Cli THEN CliCommands ELSE Wrappers]

VARIABLES
  up,      \* a daemon serves the socket
  table,   \* its sessions (with their pids), reservations, messages, live state
  minted,  \* ids handed out so far
  client,  \* what each client is doing
  ended    \* history: the call that has just ended, or None

vars == <<up, table, minted, client, ended>>

Tables ==
  [sessions: [SessionId -> Client \cup {None}],
   reservations: SUBSET ReservationId,
   messages: SUBSET MessageId,
   live: SUBSET SessionId]

Refusals == {"method_not_found", "invalid_params", "not_found"}
Transport == {"no_connection", "closed"}
Outcomes ==
  {"result", "local", "unknown_tool", "missing_argument", "no_client"} \cup Refusals \cup Transport

ASSUME NoneAssumption ==
  /\ None \notin Client \cup Outcomes
  /\ \A c \in Client : \A x \in Offers[c] : x.req # None

(* phase: "waiting" for the daemon, "answered" (a response in the socket),  *)
(* "closed" (end of file).  link: the connection; the agent's is kept over  *)
(* its calls.  History: served and changed say what the daemon did with the *)
(* request.                                                                 *)
Idle ==
  [phase |-> "idle", kind |-> "", op |-> "", req |-> None, outcome |-> None, link |-> "none",
   served |-> FALSE, changed |-> FALSE]

(* What the caller is told depends on the kind of operation only. *)
Kind(c, op) ==
  CASE c = Bridge /\ op \in KNOWN_TOOL_NAMES -> "advertised_tool"
    [] c = Cli /\ op \in SessionCommands -> "session_command"
    [] c = Cli /\ op = "daemon_stop" -> op
    [] OTHER -> "other"

UnderWay == {c \in Client : client[c].phase # "idle"}
IsIdle(c) == client[c].phase = "idle"

HasSession(s) == table.sessions[s] # None

-----------------------------------------------------------------------------
(* The daemon's answer to a request, and what the request does.             *)

UnknownSession(req) ==
  /\ req.method \in {"session.heartbeat", "session.get", "reservation.claim", "state.set"}
  /\ ~HasSession(req.params["session_id"])

(* inbox.post looks for the sender of the message, not for its recipient. *)
UnknownSender(req) ==
  req.method = "inbox.post" /\ ~HasSession(req.params["from_session"])

UnknownObject(req) ==
  \/ req.method = "state.get" /\ req.params["session_id"] \notin table.live
  \/ /\ req.method = "reservation.release"
     /\ req.params["reservation_id"] \notin table.reservations
  \/ req.method = "inbox.read" /\ req.params["message_id"] \notin table.messages

(* What the request is about is not in the tables. *)
Misses(req) == UnknownSession(req) \/ UnknownSender(req) \/ UnknownObject(req)

Answer(req) ==
  CASE ~HasMethod(req) -> "method_not_found"
    [] HasMethod(req) /\ ~Parses(req) -> "invalid_params"
    [] HasMethod(req) /\ Parses(req) /\ Misses(req) -> "not_found"
    [] OTHER -> "result"

Mint(id) == id \notin minted /\ minted' = minted \cup {id}
Keep == UNCHANGED <<table, minted>>

Register(pid) ==
  IF \E s \in SessionId : table.sessions[s] = pid
  THEN Keep
  ELSE \E s \in SessionId : Mint(s) /\ table' = [table EXCEPT !.sessions[s] = pid]

(* The live state and the reservations of the session stay. *)
Deregister(s) == table' = [table EXCEPT !.sessions[s] = None] /\ UNCHANGED minted

Perform(req) ==
  CASE req.method = "session.register" -> Register(req.params["pid"])
    [] req.method = "session.deregister" -> Deregister(req.params["session_id"])
    [] req.method = "reservation.claim" ->
         \E r \in ReservationId : Mint(r) /\ table' = [table EXCEPT !.reservations = @ \cup {r}]
    [] req.method = "reservation.release" ->
         /\ table' = [table EXCEPT !.reservations = @ \ {req.params["reservation_id"]}]
         /\ UNCHANGED minted
    [] req.method = "inbox.post" ->
         \E m \in MessageId : Mint(m) /\ table' = [table EXCEPT !.messages = @ \cup {m}]
    [] req.method = "state.set" ->
         /\ table' = [table EXCEPT !.live = @ \cup {req.params["session_id"]}]
         /\ UNCHANGED minted
    [] OTHER -> Keep

-----------------------------------------------------------------------------

NoTables ==
  [sessions |-> [s \in SessionId |-> None], reservations |-> {}, messages |-> {}, live |-> {}]

Init ==
  /\ up = FALSE
  /\ table = NoTables
  /\ minted = {}
  /\ client = [c \in Client |-> Idle]
  /\ ended = None

(* Bound: a request that may need a new id is sent while one is left for it.*)
NewId(req) ==
  CASE req.method = "session.register" -> SessionId
    [] req.method = "reservation.claim" -> ReservationId
    [] req.method = "inbox.post" -> MessageId
    [] OTHER -> {}

Room(req) ==
  LET waiting == {c \in Client : client[c].phase = "waiting" /\ client[c].req.method = req.method}
  IN  NewId(req) # {} => Cardinality(NewId(req) \ minted) > Cardinality(waiting)

(* The bridge writes its reply, the command exits, the wrapper returns.     *)
(* History: steady says that the daemon has been up since the call began.   *)
End(c, kind, outcome, exit) ==
  ended' = [client |-> c, kind |-> kind, outcome |-> outcome, exit |-> exit,
            served |-> client[c].served, changed |-> client[c].changed,
            steady |-> IF IsIdle(c) THEN up ELSE client[c].link = "open"]

(* The exit codes of a command, given how its call ended.  `daemon stop`    *)
(* takes a connection that was reset for a daemon that needs no stopping,   *)
(* and the end of file for an error.                                        *)
Exits(kind, outcome) ==
  CASE kind = "session_command" -> IF outcome = "result" THEN {0} ELSE {1}
    [] kind = "daemon_stop" /\ outcome = "closed" -> {0, 1}
    [] kind = "daemon_stop" /\ outcome \notin {"result", "method_not_found", "closed"} -> {1}
    [] OTHER -> {0}

(* A call that ends without reaching the daemon. *)
EndAtOnce(c, kind, outcome, exit) ==
  /\ UnderWay \cup {c} \in Together
  /\ End(c, kind, outcome, exit)
  /\ UNCHANGED <<up, table, minted, client>>

(* The request is written to a connection, new or kept. *)
Write(c, op, req) ==
  /\ Room(req)
  /\ UnderWay \cup {c} \in Together
  /\ client' = [client EXCEPT ![c] =
       [Idle EXCEPT !.phase = "waiting", !.kind = Kind(c, op), !.op = op, !.req = req,
                    !.link = "open"]]
  /\ ended' = None
  /\ UNCHANGED <<up, table, minted>>

KindsOf(c, choices) == {Kind(c, x.op) : x \in choices}

(* A line that the bridge answers by itself: initialize, tools/list, ping,  *)
(* any other method, or what is no JSON.                                    *)
AnswerLocally == IsIdle(Bridge) /\ EndAtOnce(Bridge, "other", "local", 0)

(* A tool that route does not know, or one that lacks a required argument.  *)
RefuseTool ==
  /\ IsIdle(Bridge)
  /\ \/ \E kind \in {Kind(Bridge, tool) :
                     tool \in KNOWN_TOOL_NAMES \ {x.op : x \in Tools}} :
          EndAtOnce(Bridge, kind, "unknown_tool", 0)
     \/ \E kind \in KindsOf(Bridge, {x \in Tools : x.op \notin NothingRequired}) :
          EndAtOnce(Bridge, kind, "missing_argument", 0)

(* A caller without a client connects; one with a client uses its stream,   *)
(* which Client::call takes and puts back only after an answer: the call    *)
(* that meets a broken connection fails, and so does every later one.       *)
HasStream(c) == client[c].link = "open" \/ (client[c].link = "none" /\ up)
NoStream(c) == IF client[c].link = "broken" THEN "no_client" ELSE "no_connection"

(* tools/call: a context and a connection of its own for every line. *)
CallTool ==
  /\ IsIdle(Bridge)
  /\ \/ HasStream(Bridge) /\ \E x \in Tools : Write(Bridge, x.op, x.req)
     \/ /\ ~HasStream(Bridge)
        /\ \E kind \in KindsOf(Bridge, Tools) : EndAtOnce(Bridge, kind, NoStream(Bridge), 0)

(* cmd_sessions and `daemon stop` fail without a connection; placeholder_or *)
(* never does.                                                              *)
RunCommand ==
  /\ IsIdle(Cli)
  /\ \/ HasStream(Cli) /\ \E x \in CliCommands : Write(Cli, x.op, x.req)
     \/ /\ ~HasStream(Cli)
        /\ \E kind \in KindsOf(Cli, CliCommands) : \E exit \in Exits(kind, NoStream(Cli)) :
             EndAtOnce(Cli, kind, NoStream(Cli), exit)

(* `daemon start` runs the daemon without its `start` subcommand, which the *)
(* daemon refuses: the detached form does not wait to see that.  `daemon    *)
(* status` only connects.                                                   *)
RunLocalCommand ==
  /\ IsIdle(Cli)
  /\ \/ \E exit \in {0, 1} : EndAtOnce(Cli, "daemon_start", "local", exit)
     \/ EndAtOnce(Cli, "daemon_status", IF up THEN "local" ELSE "no_connection", 0)

(* An agent calls the library with the client it keeps. *)
CallLibrary ==
  /\ IsIdle(Agent)
  /\ \/ HasStream(Agent) /\ \E x \in Wrappers : Write(Agent, x.op, x.req)
     \/ ~HasStream(Agent) /\ EndAtOnce(Agent, "other", NoStream(Agent), 0)

(* An agent gives up a client whose connection broke. *)
DropClient ==
  /\ IsIdle(Agent) /\ client[Agent].link = "broken"
  /\ client' = [client EXCEPT ![Agent] = Idle]
  /\ ended' = None
  /\ UNCHANGED <<up, table, minted>>

(* Mutant: a message is filed before its sender is checked. *)
Serve_FilesFirst(c) ==
  /\ up
  /\ client[c].phase = "waiting"
  /\ LET req == client[c].req
         early == req.method = "inbox.post" /\ Parses(req) IN
       /\ IF Answer(req) = "result" \/ early THEN Perform(req) ELSE Keep
       /\ client' = [client EXCEPT ![c].phase = "answered", ![c].outcome = Answer(req),
                                   ![c].op = "", ![c].req = None, ![c].served = TRUE,
                                   ![c].changed = (table' # table)]
  /\ ended' = None
  /\ UNCHANGED up

Serve(c) ==
  /\ up
  /\ client[c].phase = "waiting"
  /\ LET req == client[c].req IN
       /\ IF Answer(req) = "result" THEN Perform(req) ELSE Keep
       /\ client' = [client EXCEPT ![c].phase = "answered", ![c].outcome = Answer(req),
                                   ![c].op = "", ![c].req = None, ![c].served = TRUE,
                                   ![c].changed = (table' # table)]
  /\ ended' = None
  /\ UNCHANGED up

(* Mutant: the bridge keeps its client from line to line. *)
Settled_KeepsClient(c) == [Idle EXCEPT !.link = client[c].link]

(* The connection of a line or a command is dropped with it; an agent's is  *)
(* as good as it was.                                                       *)
Settled(c) == [Idle EXCEPT !.link = IF c = Agent THEN client[c].link ELSE "none"]

(* Mutant: end of file is taken for a blank line. *)
Receive_EofIsBlank(c) ==
  /\ client[c].phase = "answered"
  /\ \E exit \in Exits(client[c].kind, client[c].outcome) :
       End(c, client[c].kind, client[c].outcome, exit)
  /\ client' = [client EXCEPT ![c] = Settled(c)]
  /\ UNCHANGED <<up, table, minted>>

(* read_line returns: a response, or nothing when the daemon is gone. *)
Receive(c) ==
  /\ client[c].phase \in {"answered", "closed"}
  /\ LET outcome == IF client[c].phase = "closed" THEN "closed" ELSE client[c].outcome IN
       \E exit \in Exits(client[c].kind, outcome) : End(c, client[c].kind, outcome, exit)
  /\ client' = [client EXCEPT ![c] = Settled(c)]
  /\ UNCHANGED <<up, table, minted>>

(* Mutant: the tables survive the daemon and the count of its ids does not. *)
Crash_KeepsTables ==
  /\ up
  /\ up' = FALSE
  /\ client' = [c \in Client |->
       [client[c] EXCEPT
          !.phase = IF @ = "waiting" THEN "closed" ELSE @,
          !.op = "", !.req = None,
          !.link = IF @ = "open" THEN "broken" ELSE @]]
  /\ minted' = {}
  /\ ended' = None
  /\ UNCHANGED table

(* The daemon dies with its tables.  Calls under way meet the end of file,  *)
(* except that a response may be in the socket already.                     *)
Crash ==
  /\ up
  /\ up' = FALSE
  /\ table' = NoTables
  /\ \E cut \in SUBSET {c \in Client : client[c].phase = "answered"} :
       client' = [c \in Client |->
         [client[c] EXCEPT
            !.phase = IF @ = "waiting" \/ c \in cut THEN "closed" ELSE @,
            !.op = "", !.req = None,
            !.outcome = IF c \in cut THEN None ELSE @,
            !.link = IF @ = "open" THEN "broken" ELSE @]]
  /\ ended' = None
  /\ UNCHANGED minted

(* teamcomm-daemon start. *)
Start == ~up /\ up' = TRUE /\ ended' = None /\ UNCHANGED <<table, minted, client>>

(* The daemon closes a connection that has been idle for IDLE_TIMEOUT. *)
CloseIdle ==
  /\ IsIdle(Agent) /\ client[Agent].link = "open"
  /\ client' = [client EXCEPT ![Agent].link = "broken"]
  /\ ended' = None
  /\ UNCHANGED <<up, table, minted>>

Next ==
  \/ AnswerLocally
  \/ RefuseTool
  \/ CallTool
  \/ RunCommand
  \/ RunLocalCommand
  \/ CallLibrary
  \/ DropClient
  \/ \E c \in Client : Serve(c)
  \/ \E c \in Client : Receive(c)
  \/ Crash
  \/ Start
  \/ CloseIdle

(* The task of the bridge's connection runs when it can, and the bridge     *)
(* reads what is there.  Nobody has to start a daemon again or to send      *)
(* anything, and the other clients may stay where they are.                 *)
Fairness == WF_vars(Serve(Bridge) \/ Receive(Bridge))

Spec == Init /\ [][Next]_vars /\ Fairness

=============================================================================
