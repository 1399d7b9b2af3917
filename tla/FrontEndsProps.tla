---------------------------- MODULE FrontEndsProps ----------------------------
(***************************************************************************)
(* What a front end may conclude from how its call ended.                   *)
(***************************************************************************)
EXTENDS FrontEnds

Kinds == {"", "advertised_tool", "session_command", "daemon_stop", "other"}
Answers == {"result"} \cup Refusals
Offered == UNION {Offers[c] : c \in Client}

ClientState ==
  [phase: {"idle", "waiting", "answered", "closed"},
   kind: Kinds,
   op: {x.op : x \in Offered} \cup {""},
   req: {x.req : x \in Offered} \cup {None},
   outcome: Answers \cup {None},
   link: {"none", "open", "broken"},
   served: BOOLEAN,
   changed: BOOLEAN]

(* Every variable has its type: a request is there while its client waits,  *)
(* an answer while it is in the socket, and ids in the tables were minted.  *)
TypeOK ==
  /\ up \in BOOLEAN
  /\ table \in Tables
  /\ minted \subseteq SessionId \cup ReservationId \cup MessageId
  /\ {s \in SessionId : HasSession(s)} \cup table.reservations \cup table.messages
       \subseteq minted
  /\ client \in [Client -> ClientState]
  /\ \A c \in Client :
       /\ client[c].phase = "waiting" <=> client[c].req # None
       /\ client[c].phase = "answered" <=> client[c].outcome # None
  /\ ended # None => ended.outcome \in Outcomes

(* A reply tells what happened: a result was executed, a refusal changed    *)
(* nothing, and what was refused on the near side never reached the daemon. *)
(* Only a connection that closed leaves it open.  A session command that    *)
(* exits 0 got its result, as cmd_sessions.rs says.                         *)
RepliesTellTheTruth ==
  ended # None =>
    /\ ended.outcome = "result" => ended.served
    /\ ended.outcome \in Refusals => ended.served /\ ~ended.changed
    /\ ended.outcome \notin {"result", "closed"} \cup Refusals => ~ended.served
    /\ ended.kind = "session_command" /\ ended.exit = 0 => ended.outcome = "result"

(* The commands that send what the daemon reads.  The others send a field   *)
(* or a method it does not know, and are always refused.                    *)
ServedCommands ==
  {"sessions_list", "sessions_show", "reservations_ls", "reservations_release", "inbox_read",
   "inbox_post", "discover_agents"}

(* One request is what the daemon reads. *)
Agrees(c, op, req) ==
  \/ c = Cli /\ op \notin ServedCommands
  \/ /\ HasMethod(req)
     /\ dispatch[req.method].required \subseteq DOMAIN req.params
     /\ c # Bridge => DOMAIN req.params \subseteq dispatch[req.method].reads

(* The crates agree on the wire: a wrapper of the client library sends a    *)
(* method the daemon has, all the fields it requires and none it ignores;   *)
(* so do the served commands, and the bridge's tools name every method and  *)
(* required field right.                                                    *)
CratesAgree ==
  \A c \in Client :
    client[c].phase = "waiting" => Agrees(c, client[c].op, client[c].req)

(* A restart of the daemon costs the bridge at most the line it was at: a   *)
(* line during which the daemon is up is never answered with a broken       *)
(* connection, whatever happened to the lines before.                       *)
BridgeReconnects ==
  ended # None /\ ended.client = Bridge /\ ended.steady =>
    ended.outcome \notin Transport \cup {"no_client"}

(* The bridge replies to every line though nobody has a timeout: with the   *)
(* daemon's answer, or with the end of file when the daemon dies, started   *)
(* again or not, and however busy the other clients keep it.  A call that   *)
(* hangs would silence the bridge, pings included.                          *)
LinesAnswered == ~IsIdle(Bridge) ~> IsIdle(Bridge)

(* "The bridge forwards each tool call through teamcomm-client to the       *)
(* teamcomm daemon" (dispatch.rs): while the daemon is up, a call of a tool *)
(* of the manifest is answered by the daemon.                               *)
AdvertisedToolsWork ==
  ended # None /\ ended.client = Bridge /\ ended.kind = "advertised_tool" /\ ended.steady =>
    ended.served

=============================================================================
