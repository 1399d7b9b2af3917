---------------------------- MODULE FrontEndsProofs ----------------------------
(***************************************************************************)
(* Proofs that a reply tells its caller what the daemon did, and that a     *)
(* daemon that dies and starts again costs the bridge one line at most: for *)
(* any ids, words and overlaps of calls, with the daemon dying between any   *)
(* two steps.                                                               *)
(***************************************************************************)
EXTENDS FrontEndsProps, TLAPS

(* A client between two calls owes nobody anything.                         *)
IdleIsFresh ==
  \A c \in Client : IsIdle(c) =>
    /\ ~client[c].served
    /\ c # Agent => client[c].link = "none"

(* An answer in the socket is true, and one that was cut off met a daemon   *)
(* that died since the call began.                                          *)
AnswersAreTrue ==
  \A c \in Client :
    /\ client[c].phase = "answered" =>
         /\ client[c].served
         /\ client[c].outcome \in Answers
         /\ client[c].outcome \in Refusals => ~client[c].changed
    /\ client[c].phase = "closed" => client[c].link # "open"
    /\ client[c].phase \in {"waiting", "answered"} => client[c].link \in {"open", "broken"}

FInv ==
  /\ client \in [Client -> ClientState]
  /\ IdleIsFresh
  /\ AnswersAreTrue
  /\ RepliesTellTheTruth
  /\ BridgeReconnects

-----------------------------------------------------------------------------

USE FrontEndsAssumption

(* Who offers what. *)
LEMMA OffersOf ==
  /\ Offers[Bridge] = Tools /\ Offers[Cli] = CliCommands /\ Offers[Agent] = Wrappers
  /\ Offered = Tools \cup CliCommands \cup Wrappers
<1>1. Offers[Bridge] = Tools /\ Offers[Cli] = CliCommands /\ Offers[Agent] = Wrappers
  BY DEF Offers, Client
<1>2. Client = {Bridge, Cli, Agent}
  BY DEF Client
<1>. QED
  BY <1>1, <1>2 DEF Offered

(* Only commands have the kind of a session command. *)
LEMMA KindsOfClients ==
  ASSUME NEW c \in Client, NEW op
  PROVE  Kind(c, op) \in Kinds /\ (Kind(c, op) = "session_command" => c = Cli)
BY DEF Kind, Kinds

(* A session command exits with 0 only on its result. *)
LEMMA SessionExits ==
  ASSUME NEW kind, NEW outcome, NEW exit,
         exit \in Exits(kind, outcome), kind = "session_command", outcome # "result"
  PROVE  exit # 0
<1>1. Exits(kind, outcome) = {1}
  BY DEF Exits
<1>2. exit = 1
  BY <1>1
<1>. QED
  BY ONLY <1>2

(* A call that ends at once was not served.  What its caller is told is     *)
(* true if it names a failure on the near side, if a session command does   *)
(* not exit with 0, and if the bridge fails to connect only when no daemon  *)
(* is up.                                                                   *)
LEMMA EndAtOnceKeeps ==
  ASSUME FInv, NEW c \in Client, NEW kind, NEW outcome, NEW exit,
         IsIdle(c), EndAtOnce(c, kind, outcome, exit),
         outcome \in {"local", "unknown_tool", "missing_argument", "no_client", "no_connection"},
         kind = "session_command" => exit # 0,
         outcome \in {"no_client", "no_connection"} /\ c = Bridge => ~up
  PROVE  FInv'
<1>1. UNCHANGED client /\ ~client[c].served
  BY DEF EndAtOnce, FInv, IdleIsFresh
<1>2. ended' = [client |-> c, kind |-> kind, outcome |-> outcome, exit |-> exit,
                served |-> client[c].served, changed |-> client[c].changed, steady |-> up]
  BY DEF EndAtOnce, End
<1>3. RepliesTellTheTruth'
  BY <1>1, <1>2 DEF RepliesTellTheTruth, Refusals
<1>4. BridgeReconnects'
  BY <1>2 DEF BridgeReconnects, Transport
<1>. QED
  BY <1>1, <1>3, <1>4 DEF FInv, IdleIsFresh, AnswersAreTrue, IsIdle

(* A request goes out. *)
LEMMA WriteKeeps ==
  ASSUME FInv, NEW c \in Client, NEW x \in Offered, Write(c, x.op, x.req)
  PROVE  FInv'
<1>. DEFINE new == [Idle EXCEPT !.phase = "waiting", !.kind = Kind(c, x.op), !.op = x.op,
                                !.req = x.req, !.link = "open"]
<1>1. client' = [client EXCEPT ![c] = new] /\ ended' = None
  BY DEF Write
<1>2. Kind(c, x.op) \in Kinds
  BY KindsOfClients
<1>3. new \in ClientState /\ new.phase = "waiting" /\ new.link = "open"
  BY <1>2 DEF Idle, ClientState
<1>. HIDE DEF new
<1>4. \A d \in Client : client'[d] = IF d = c THEN new ELSE client[d]
  BY <1>1 DEF FInv
<1>5. client' \in [Client -> ClientState]
  BY <1>1, <1>3 DEF FInv
<1>. QED
  BY <1>1, <1>3, <1>4, <1>5
  DEF FInv, IdleIsFresh, AnswersAreTrue, IsIdle, RepliesTellTheTruth, BridgeReconnects

(* The bridge. *)
LEMMA BridgeKeeps ==
  ASSUME FInv, AnswerLocally \/ RefuseTool \/ CallTool
  PROVE  FInv'
<1>0. Bridge \in Client
  BY DEF Client
<1>1. CASE AnswerLocally
  BY <1>0, <1>1, EndAtOnceKeeps DEF AnswerLocally
<1>2. CASE RefuseTool
  <2>1. IsIdle(Bridge)
    BY <1>2 DEF RefuseTool
  <2>2. \E kind, outcome :
          /\ kind # "session_command"
          /\ outcome \in {"unknown_tool", "missing_argument"}
          /\ EndAtOnce(Bridge, kind, outcome, 0)
    BY <1>0, <1>2, KindsOfClients DEF RefuseTool, KindsOf
  <2>. QED
    BY <1>0, <2>1, <2>2, EndAtOnceKeeps
<1>3. CASE CallTool
  <2>1. IsIdle(Bridge) /\ client[Bridge].link = "none"
    BY <1>0, <1>3 DEF CallTool, FInv, IdleIsFresh
  <2>2. CASE \E x \in Tools : Write(Bridge, x.op, x.req)
    BY <1>0, <2>2, OffersOf, WriteKeeps
  <2>3. CASE ~HasStream(Bridge) /\ \E kind \in KindsOf(Bridge, Tools) :
               EndAtOnce(Bridge, kind, NoStream(Bridge), 0)
    <3>1. ~up /\ NoStream(Bridge) = "no_connection"
      BY <2>1, <2>3 DEF HasStream, NoStream
    <3>2. PICK kind : kind # "session_command" /\ EndAtOnce(Bridge, kind, "no_connection", 0)
      BY <1>0, <2>3, <3>1, KindsOfClients DEF KindsOf
    <3>. QED
      BY <1>0, <2>1, <3>1, <3>2, EndAtOnceKeeps
  <2>. QED
    BY <1>3, <2>2, <2>3 DEF CallTool
<1>. QED
  BY <1>1, <1>2, <1>3

(* Commands. *)
LEMMA CommandKeeps ==
  ASSUME FInv, RunCommand \/ RunLocalCommand
  PROVE  FInv'
<1>0. Cli \in Client /\ IsIdle(Cli) /\ Cli # Bridge
  BY DEF Client, RunCommand, RunLocalCommand
<1>1. CASE RunCommand
  <2>1. CASE \E x \in CliCommands : Write(Cli, x.op, x.req)
    BY <1>0, <2>1, OffersOf, WriteKeeps
  <2>2. CASE \E kind \in KindsOf(Cli, CliCommands) : \E exit \in Exits(kind, NoStream(Cli)) :
               EndAtOnce(Cli, kind, NoStream(Cli), exit)
    <3>1. PICK kind, exit : /\ exit \in Exits(kind, NoStream(Cli))
                            /\ EndAtOnce(Cli, kind, NoStream(Cli), exit)
      BY <2>2
    <3>2. NoStream(Cli) \in {"no_client", "no_connection"}
      BY DEF NoStream
    <3>3. kind = "session_command" => exit # 0
      BY <3>1, <3>2, SessionExits
    <3>. QED
      BY <1>0, <3>1, <3>2, <3>3, EndAtOnceKeeps
  <2>. QED
    BY <1>1, <2>1, <2>2 DEF RunCommand
<1>2. CASE RunLocalCommand
  <2>1. PICK kind, outcome, exit :
          /\ kind # "session_command"
          /\ outcome \in {"local", "no_connection"}
          /\ EndAtOnce(Cli, kind, outcome, exit)
    BY <1>2 DEF RunLocalCommand
  <2>. QED
    BY <1>0, <2>1, EndAtOnceKeeps
<1>. QED
  BY <1>1, <1>2

(* The library. *)
LEMMA LibraryKeeps ==
  ASSUME FInv, CallLibrary
  PROVE  FInv'
<1>0. Agent \in Client /\ IsIdle(Agent) /\ Agent # Bridge
  BY DEF Client, CallLibrary
<1>1. CASE \E x \in Wrappers : Write(Agent, x.op, x.req)
  BY <1>0, <1>1, OffersOf, WriteKeeps
<1>2. CASE EndAtOnce(Agent, "other", NoStream(Agent), 0)
  <2>1. NoStream(Agent) \in {"no_client", "no_connection"}
    BY DEF NoStream
  <2>. QED
    BY <1>0, <1>2, <2>1, EndAtOnceKeeps
<1>. QED
  BY <1>1, <1>2 DEF CallLibrary

(* The agent's connection comes and goes between its calls. *)
LEMMA LinkKeeps ==
  ASSUME FInv, DropClient \/ CloseIdle
  PROVE  FInv'
<1>1. Agent \in Client /\ client[Agent] \in ClientState /\ IsIdle(Agent)
  BY DEF Client, FInv, DropClient, CloseIdle
<1>2. Idle \in ClientState /\ Idle.phase = "idle" /\ ~Idle.served
  BY DEF Idle, ClientState, Kinds
<1>. DEFINE cut == [client[Agent] EXCEPT !.link = "broken"]
<1>3. cut \in ClientState /\ cut.phase = "idle" /\ cut.served = client[Agent].served
  BY <1>1 DEF ClientState, IsIdle
<1>. HIDE DEF cut
<1>4. PICK v \in {Idle, cut} : client' = [client EXCEPT ![Agent] = v] /\ ended' = None
  BY DEF DropClient, CloseIdle, cut
<1>5. v \in ClientState /\ v.phase = "idle" /\ ~v.served
  BY <1>1, <1>2, <1>3, <1>4 DEF FInv, IdleIsFresh
<1>6. client' \in [Client -> ClientState]
  BY <1>4, <1>5 DEF FInv
<1>7. \A d \in Client : client'[d] = IF d = Agent THEN v ELSE client[d]
  BY <1>1, <1>4 DEF FInv
<1>. QED
  BY <1>4, <1>5, <1>6, <1>7
  DEF FInv, IdleIsFresh, AnswersAreTrue, IsIdle, RepliesTellTheTruth, BridgeReconnects

(* A refusal changes nothing. *)
LEMMA ServeKeeps ==
  ASSUME FInv, NEW c \in Client, Serve(c)
  PROVE  FInv'
<1>. DEFINE answer == Answer(client[c].req)
            new == [client[c] EXCEPT !.phase = "answered", !.outcome = answer, !.op = "",
                                     !.req = None, !.served = TRUE, !.changed = (table' # table)]
<1>1. client[c] \in ClientState /\ client[c].phase = "waiting"
  BY DEF Serve, FInv
<1>2. answer \in Answers
  BY DEF Answer, Answers, Refusals
<1>3. answer \in Refusals => table' = table
  BY DEF Serve, Keep, Refusals
<1>. HIDE DEF answer
<1>4. client' = [client EXCEPT ![c] = new] /\ ended' = None
  BY DEF Serve, answer
<1>5. /\ new \in ClientState
      /\ new.phase = "answered" /\ new.outcome = answer /\ new.served
      /\ new.changed = (table' # table) /\ new.link = client[c].link
  BY <1>1, <1>2 DEF ClientState
<1>. HIDE DEF new
<1>6. client' \in [Client -> ClientState]
  BY <1>4, <1>5 DEF FInv
<1>7. \A d \in Client : client'[d] = IF d = c THEN new ELSE client[d]
  BY <1>4 DEF FInv
<1>8. new.link \in {"open", "broken"} /\ (answer \in Refusals => ~new.changed)
  BY <1>1, <1>3, <1>5 DEF FInv, AnswersAreTrue
<1>. QED
  BY <1>2, <1>4, <1>5, <1>6, <1>7, <1>8
  DEF FInv, IdleIsFresh, AnswersAreTrue, IsIdle, RepliesTellTheTruth, BridgeReconnects

(* The caller is told what was answered, or that the connection closed.     *)
LEMMA ReceiveKeeps ==
  ASSUME FInv, NEW c \in Client, Receive(c)
  PROVE  FInv'
<1>. DEFINE outcome == IF client[c].phase = "closed" THEN "closed" ELSE client[c].outcome
            new == Settled(c)
<1>1. client[c] \in ClientState /\ client[c].phase \in {"answered", "closed"}
  BY DEF Receive, FInv
<1>2. PICK exit \in Exits(client[c].kind, outcome) : End(c, client[c].kind, outcome, exit)
  BY DEF Receive
<1>3. client' = [client EXCEPT ![c] = new]
  BY DEF Receive
<1>4. /\ new = [Idle EXCEPT !.link = IF c = Agent THEN client[c].link ELSE "none"]
      /\ new \in ClientState /\ new.phase = "idle" /\ ~new.served
      /\ c # Agent => new.link = "none"
  BY <1>1 DEF Settled, Idle, ClientState, Kinds
<1>5. \/ outcome = "closed" /\ client[c].link # "open"
      \/ /\ outcome \in Answers /\ client[c].served
         /\ outcome \in Refusals => ~client[c].changed
  BY <1>1 DEF FInv, AnswersAreTrue
<1>6. client[c].kind = "session_command" /\ exit = 0 => outcome = "result"
  BY <1>2, SessionExits
<1>. HIDE DEF outcome, new
<1>7. ended' = [client |-> c, kind |-> client[c].kind, outcome |-> outcome, exit |-> exit,
                served |-> client[c].served, changed |-> client[c].changed,
                steady |-> client[c].link = "open"]
  BY <1>1, <1>2 DEF End, IsIdle
<1>8. RepliesTellTheTruth'
  BY <1>5, <1>6, <1>7 DEF RepliesTellTheTruth, Refusals, Answers
<1>9. BridgeReconnects'
  BY <1>5, <1>7 DEF BridgeReconnects, Transport, Answers, Refusals
<1>10. client' \in [Client -> ClientState]
  BY <1>3, <1>4 DEF FInv
<1>11. \A d \in Client : client'[d] = IF d = c THEN new ELSE client[d]
  BY <1>3 DEF FInv
<1>. QED
  BY <1>4, <1>8, <1>9, <1>10, <1>11 DEF FInv, IdleIsFresh, AnswersAreTrue, IsIdle

(* The daemon dies: open connections break, calls under way meet their end. *)
LEMMA CrashKeeps ==
  ASSUME FInv, Crash
  PROVE  FInv'
<1>1. PICK cut \in SUBSET {c \in Client : client[c].phase = "answered"} :
        client' = [c \in Client |->
          [client[c] EXCEPT
             !.phase = IF @ = "waiting" \/ c \in cut THEN "closed" ELSE @,
             !.op = "", !.req = None,
             !.outcome = IF c \in cut THEN None ELSE @,
             !.link = IF @ = "open" THEN "broken" ELSE @]]
  BY DEF Crash
<1>2. ended' = None
  BY DEF Crash
<1>3. ASSUME NEW c \in Client
      PROVE  /\ client'[c] \in ClientState
             /\ client'[c].phase = IF client[c].phase = "waiting" \/ c \in cut
                                   THEN "closed" ELSE client[c].phase
             /\ client'[c].outcome = IF c \in cut THEN None ELSE client[c].outcome
             /\ client'[c].link = IF client[c].link = "open" THEN "broken" ELSE client[c].link
             /\ client'[c].served = client[c].served /\ client'[c].changed = client[c].changed
  <2>1. client[c] \in ClientState
    BY DEF FInv
  <2>. QED
    BY <1>1, <2>1 DEF ClientState
<1>4. client' \in [Client -> ClientState]
  BY <1>1, <1>3
<1>5. \A c \in Client : c \in cut => client[c].phase = "answered"
  BY <1>1
<1>6. IdleIsFresh'
  BY <1>3, <1>5 DEF FInv, IdleIsFresh, IsIdle
<1>7. AnswersAreTrue'
  BY <1>3, <1>5 DEF FInv, AnswersAreTrue
<1>. QED
  BY <1>2, <1>4, <1>6, <1>7 DEF FInv, RepliesTellTheTruth, BridgeReconnects

(* One step, whoever takes it. *)
LEMMA StepKeeps == ASSUME FInv, [Next]_vars PROVE FInv'
<1>1. CASE Start
  BY <1>1 DEF Start, FInv, IdleIsFresh, AnswersAreTrue, IsIdle, RepliesTellTheTruth, BridgeReconnects
<1>2. CASE UNCHANGED vars
  BY <1>2 DEF vars, FInv, IdleIsFresh, AnswersAreTrue, IsIdle, RepliesTellTheTruth, BridgeReconnects
<1>. QED
  BY <1>1, <1>2, BridgeKeeps, CommandKeeps, LibraryKeeps, LinkKeeps, ServeKeeps, ReceiveKeeps,
     CrashKeeps DEF Next

-----------------------------------------------------------------------------

(* The strengthening is an invariant of bridge, commands, agents and a      *)
(* daemon that dies and starts again: whoever is idle was not served, an    *)
(* answer in the socket is true, and an end of file means that the daemon   *)
(* died during the call.                                                    *)
THEOREM FrontEndsInductive == Spec => []FInv
<1>1. Init => FInv
  <2>1. Idle \in ClientState /\ Idle.phase = "idle" /\ ~Idle.served /\ Idle.link = "none"
    BY DEF Idle, ClientState, Kinds
  <2>. QED
    BY <2>1
    DEF Init, FInv, IdleIsFresh, AnswersAreTrue, IsIdle, RepliesTellTheTruth, BridgeReconnects
<1>2. FInv /\ [Next]_vars => FInv'
  BY StepKeeps
<1>. QED
  BY <1>1, <1>2, PTL DEF Spec

(* A result was executed, a refusal changed nothing, a refusal of the near  *)
(* side never reached the daemon, and a session command that exits 0 has    *)
(* its result (dispatcher, Client::call, cmd_sessions.rs).                  *)
THEOREM CallersAreTold == Spec => []RepliesTellTheTruth
<1>1. FInv => RepliesTellTheTruth
  BY DEF FInv
<1>. QED
  BY <1>1, FrontEndsInductive, PTL

(* A line during which the daemon is up is never answered with a broken     *)
(* connection, whatever happened to the lines before (ToolContext and       *)
(* connect of the bridge's handlers).                                       *)
THEOREM RestartsCostOneLine == Spec => []BridgeReconnects
<1>1. FInv => BridgeReconnects
  BY DEF FInv
<1>. QED
  BY <1>1, FrontEndsInductive, PTL

-----------------------------------------------------------------------------
(* The requests.  Every proof below rests on what a request is made of: a   *)
(* method, and the values of its caller's arguments under the names it      *)
(* sends.                                                                   *)

(* What Ask builds. *)
LEMMA AskIs ==
  ASSUME NEW a, NEW method, NEW fields
  PROVE  /\ Ask(a, method, fields).method = method
         /\ DOMAIN Ask(a, method, fields).params = fields
         /\ \A f \in fields : Ask(a, method, fields).params[f] = Value(a, f)
BY DEF Ask

(* The wrappers of the client library send what the daemon requires and     *)
(* nothing that it ignores.                                                 *)
LEMMA LibraryAgrees ==
  ASSUME NEW a, NEW x \in Library(a)
  PROVE  /\ HasMethod(x.req)
         /\ dispatch[x.req.method].required \subseteq DOMAIN x.req.params
         /\ DOMAIN x.req.params \subseteq dispatch[x.req.method].reads
BY AskIs
DEF Library, Offer, HasMethod, Methods, dispatch, Takes, Optional,
    session_register, session_deregister, session_heartbeat, session_list, session_get,
    reservation_claim, reservation_release, reservation_list, inbox_post, inbox_list, inbox_read,
    state_set, state_get, discover_agents,
    handle_session_register, handle_session_deregister, handle_session_heartbeat,
    handle_session_list, handle_session_get, handle_reservation_claim,
    handle_reservation_release, handle_reservation_list, handle_inbox_post, handle_inbox_list,
    handle_inbox_read, handle_state_set, handle_state_get, handle_discover_agents

(* The bridge names every method and required field right. *)
LEMMA RouteAgrees ==
  ASSUME NEW a, NEW x \in route(a)
  PROVE  HasMethod(x.req) /\ dispatch[x.req.method].required \subseteq DOMAIN x.req.params
BY AskIs
DEF route, Offer, HasMethod, Methods, dispatch, Takes, Optional,
    register_session, deregister_session, list_sessions, claim_file, release_file, list_claims,
    post_message, read_inbox, announce_focus, set_status, discover_agents_for_path,
    handle_session_register, handle_session_deregister, handle_session_heartbeat,
    handle_session_list, handle_session_get, handle_reservation_claim,
    handle_reservation_release, handle_reservation_list, handle_inbox_post, handle_inbox_list,
    handle_inbox_read, handle_state_set, handle_state_get, handle_discover_agents

(* The served commands send what the daemon requires and reads. *)
LEMMA CommandsAgree ==
  ASSUME NEW a, NEW x \in Commands(a), x.op \in ServedCommands
  PROVE  /\ HasMethod(x.req)
         /\ dispatch[x.req.method].required \subseteq DOMAIN x.req.params
         /\ DOMAIN x.req.params \subseteq dispatch[x.req.method].reads
BY AskIs
DEF Commands, Offer, ServedCommands, HasMethod, Methods, dispatch, Takes, Optional,
    sessions_list, sessions_show, reservations_ls, reservations_claim, reservations_release,
    inbox_show, inbox_open, inbox_send, state_show, state_set_focus, state_set_status, discover,
    daemon_stop,
    handle_session_register, handle_session_deregister, handle_session_heartbeat,
    handle_session_list, handle_session_get, handle_reservation_claim,
    handle_reservation_release, handle_reservation_list, handle_inbox_post, handle_inbox_list,
    handle_inbox_read, handle_state_set, handle_state_get, handle_discover_agents

(* Whatever a client may ask is what the daemon reads. *)
LEMMA OffersAgree ==
  ASSUME NEW c \in Client, NEW x \in Offers[c]
  PROVE  Agrees(c, x.op, x.req)
<1>1. CASE c = Bridge
  BY <1>1, OffersOf, RouteAgrees DEF Tools, Agrees
<1>2. CASE c = Cli
  BY <1>2, OffersOf, CommandsAgree DEF CliCommands, Agrees
<1>3. CASE c = Agent
  BY <1>3, OffersOf, LibraryAgrees DEF Wrappers, Agrees
<1>. QED
  BY <1>1, <1>2, <1>3 DEF Client

(* Every field has the value of the argument it is named for. *)
LEMMA FieldsAreArguments ==
  ASSUME NEW c \in Client, NEW x \in Offers[c]
  PROVE  \E a \in Arguments(c) : \A f \in DOMAIN x.req.params :
           x.req.params[f] \in {Value(a, f), Value(Clap(a), f)}
<1>1. CASE c = Bridge
  <2>1. PICK a \in Arguments(c) : x \in route(a)
    BY <1>1, OffersOf DEF Tools
  <2>2. \A f \in DOMAIN x.req.params : x.req.params[f] = Value(a, f)
    BY <2>1, AskIs
    DEF route, Offer, register_session, deregister_session, list_sessions, claim_file,
        release_file, list_claims, post_message, read_inbox, announce_focus, set_status,
        discover_agents_for_path
  <2>. QED
    BY <2>2
<1>2. CASE c = Cli
  <2>1. PICK a \in Arguments(c) : x \in Commands(a)
    BY <1>2, OffersOf DEF CliCommands
  <2>2. \A f \in DOMAIN x.req.params : x.req.params[f] \in {Value(a, f), Value(Clap(a), f)}
    BY <2>1, AskIs
    DEF Commands, Offer, sessions_list, sessions_show, reservations_ls, reservations_claim,
        reservations_release, inbox_show, inbox_open, inbox_send, state_show, state_set_focus,
        state_set_status, discover, daemon_stop
  <2>. QED
    BY <2>2
<1>3. CASE c = Agent
  <2>1. PICK a \in Arguments(c) : x \in Library(a)
    BY <1>3, OffersOf DEF Wrappers
  <2>2. \A f \in DOMAIN x.req.params : x.req.params[f] = Value(a, f)
    BY <2>1, AskIs
    DEF Library, Offer, session_register, session_deregister, session_heartbeat, session_list,
        session_get, reservation_claim, reservation_release, reservation_list, inbox_post,
        inbox_list, inbox_read, state_set, state_get, discover_agents
  <2>. QED
    BY <2>2
<1>. QED
  BY <1>1, <1>2, <1>3 DEF Client

(* Under the name of an id goes an id, and a process registers its own pid. *)
LEMMA FieldsNameIds ==
  ASSUME NEW c \in Client, NEW x \in Offers[c]
  PROVE  /\ "pid" \in DOMAIN x.req.params => x.req.params["pid"] = c
         /\ \A f \in {"session_id", "from_session"} :
              f \in DOMAIN x.req.params => x.req.params[f] \in SessionId
         /\ "reservation_id" \in DOMAIN x.req.params
               => x.req.params["reservation_id"] \in ReservationId
         /\ "message_id" \in DOMAIN x.req.params => x.req.params["message_id"] \in MessageId
<1>1. PICK a \in Arguments(c) : \A f \in DOMAIN x.req.params :
        x.req.params[f] \in {Value(a, f), Value(Clap(a), f)}
  BY FieldsAreArguments
<1>2. \A b \in {a, Clap(a)} :
        /\ Value(b, "pid") = c
        /\ Value(b, "session_id") \in SessionId /\ Value(b, "from_session") \in SessionId
        /\ Value(b, "reservation_id") \in ReservationId /\ Value(b, "message_id") \in MessageId
  BY DEF Arguments, Value, Clap
<1>. QED
  BY <1>1, <1>2

-----------------------------------------------------------------------------
(* Types, and what is on the wire.                                          *)

(* What waits for the daemon is what its client offers. *)
RequestsAreOffered ==
  \A c \in Client : client[c].phase = "waiting" =>
    \E x \in Offers[c] : client[c].op = x.op /\ client[c].req = x.req

WireInv == TypeOK /\ RequestsAreOffered

(* A call that ends at once leaves requests and tables alone. *)
LEMMA EndAtOnceKeepsWire ==
  ASSUME WireInv, NEW c \in Client, NEW kind, NEW outcome \in Outcomes, NEW exit,
         EndAtOnce(c, kind, outcome, exit)
  PROVE  WireInv'
<1>1. UNCHANGED <<up, table, minted, client>> /\ ended'.outcome = outcome
  BY DEF EndAtOnce, End
<1>. QED
  BY <1>1 DEF WireInv, TypeOK, RequestsAreOffered, HasSession

(* A request that goes out is one that is offered. *)
LEMMA WriteKeepsWire ==
  ASSUME WireInv, NEW c \in Client, NEW x \in Offers[c], Write(c, x.op, x.req)
  PROVE  WireInv'
<1>. DEFINE new == [Idle EXCEPT !.phase = "waiting", !.kind = Kind(c, x.op), !.op = x.op,
                                !.req = x.req, !.link = "open"]
<1>1. client' = [client EXCEPT ![c] = new] /\ ended' = None /\ UNCHANGED <<up, table, minted>>
  BY DEF Write
<1>2. Kind(c, x.op) \in Kinds /\ x \in Offered
  BY KindsOfClients DEF Offered
<1>3. /\ new \in ClientState
      /\ new.phase = "waiting" /\ new.req = x.req /\ new.op = x.op /\ new.outcome = None
  BY <1>2 DEF Idle, ClientState
<1>. HIDE DEF new
<1>4. \A d \in Client : client'[d] = IF d = c THEN new ELSE client[d]
  BY <1>1 DEF WireInv, TypeOK
<1>5. client' \in [Client -> ClientState]
  BY <1>1, <1>3 DEF WireInv, TypeOK
<1>6. x.req # None
  BY NoneAssumption
<1>7. RequestsAreOffered'
  BY <1>3, <1>4 DEF WireInv, RequestsAreOffered
<1>. QED
  BY <1>1, <1>3, <1>4, <1>5, <1>6, <1>7 DEF WireInv, TypeOK, HasSession

(* Calls begin, or end before they reach the daemon. *)
LEMMA CallersKeepWire ==
  ASSUME WireInv, AnswerLocally \/ RefuseTool \/ CallTool \/ RunCommand \/ RunLocalCommand \/ CallLibrary
  PROVE  WireInv'
<1>0. /\ Bridge \in Client /\ Cli \in Client /\ Agent \in Client
      /\ \A c \in Client : NoStream(c) \in Outcomes
      /\ {"local", "unknown_tool", "missing_argument", "no_connection"} \subseteq Outcomes
  BY DEF Client, NoStream, Outcomes, Transport
<1>1. CASE AnswerLocally
  BY <1>0, <1>1, EndAtOnceKeepsWire DEF AnswerLocally
<1>2. CASE RefuseTool
  <2>1. PICK kind, outcome : /\ outcome \in {"unknown_tool", "missing_argument"}
                             /\ EndAtOnce(Bridge, kind, outcome, 0)
    BY <1>2 DEF RefuseTool
  <2>. QED
    BY <1>0, <2>1, EndAtOnceKeepsWire
<1>3. CASE CallTool
  BY <1>0, <1>3, OffersOf, EndAtOnceKeepsWire, WriteKeepsWire DEF CallTool
<1>4. CASE RunCommand
  BY <1>0, <1>4, OffersOf, EndAtOnceKeepsWire, WriteKeepsWire DEF RunCommand
<1>5. CASE RunLocalCommand
  <2>1. PICK kind, outcome, exit : /\ outcome \in {"local", "no_connection"}
                                   /\ EndAtOnce(Cli, kind, outcome, exit)
    BY <1>5 DEF RunLocalCommand
  <2>. QED
    BY <1>0, <2>1, EndAtOnceKeepsWire
<1>6. CASE CallLibrary
  BY <1>0, <1>6, OffersOf, EndAtOnceKeepsWire, WriteKeepsWire DEF CallLibrary
<1>. QED
  BY <1>1, <1>2, <1>3, <1>4, <1>5, <1>6

(* An executed request keeps the tables' types, and mints what it inserts. *)
LEMMA PerformKeepsTables ==
  ASSUME TypeOK, NEW c \in Client, NEW x \in Offers[c], Answer(x.req) = "result", Perform(x.req)
  PROVE  /\ table' \in Tables
         /\ minted' \subseteq SessionId \cup ReservationId \cup MessageId
         /\ {s \in SessionId : HasSession(s)'} \cup table'.reservations \cup table'.messages
              \subseteq minted'
<1>. DEFINE m == x.req.method
            p == x.req.params
<1>1. HasMethod(x.req) /\ Parses(x.req)
  BY DEF Answer
<1>2. dispatch[m].required \subseteq DOMAIN p
  BY <1>1 DEF Parses
<1>3. CASE m = "session.register"
  <2>1. p["pid"] \in Client /\ Register(p["pid"])
    BY <1>2, <1>3, FieldsNameIds
    DEF Perform, dispatch, Methods, Takes, handle_session_register
  <2>2. CASE Keep
    BY <2>2 DEF Keep, TypeOK, HasSession
  <2>3. CASE \E s \in SessionId : Mint(s) /\ table' = [table EXCEPT !.sessions[s] = p["pid"]]
    BY <2>1, <2>3 DEF Mint, TypeOK, Tables, HasSession
  <2>. QED
    BY <2>1, <2>2, <2>3 DEF Register
<1>4. CASE m = "session.deregister"
  <2>1. p["session_id"] \in SessionId /\ Deregister(p["session_id"])
    BY <1>2, <1>4, FieldsNameIds
    DEF Perform, dispatch, Methods, Takes, handle_session_deregister
  <2>. QED
    BY <2>1 DEF Deregister, TypeOK, Tables, HasSession
<1>5. CASE m = "reservation.claim"
  <2>1. \E r \in ReservationId :
          Mint(r) /\ table' = [table EXCEPT !.reservations = @ \cup {r}]
    BY <1>5 DEF Perform
  <2>. QED
    BY <2>1 DEF Mint, TypeOK, Tables, HasSession
<1>6. CASE m = "reservation.release"
  <2>1. /\ table' = [table EXCEPT !.reservations = @ \ {p["reservation_id"]}]
        /\ UNCHANGED minted
    BY <1>6 DEF Perform
  <2>. QED
    BY <2>1 DEF TypeOK, Tables, HasSession
<1>7. CASE m = "inbox.post"
  <2>1. \E i \in MessageId : Mint(i) /\ table' = [table EXCEPT !.messages = @ \cup {i}]
    BY <1>7 DEF Perform
  <2>. QED
    BY <2>1 DEF Mint, TypeOK, Tables, HasSession
<1>8. CASE m = "state.set"
  <2>1. /\ p["session_id"] \in SessionId
        /\ table' = [table EXCEPT !.live = @ \cup {p["session_id"]}]
        /\ UNCHANGED minted
    BY <1>2, <1>8, FieldsNameIds DEF Perform, dispatch, Methods, Takes, handle_state_set
  <2>. QED
    BY <2>1 DEF TypeOK, Tables, HasSession
<1>9. CASE m \notin {"session.register", "session.deregister", "reservation.claim",
                    "reservation.release", "inbox.post", "state.set"}
  <2>1. Keep
    BY <1>9 DEF Perform
  <2>. QED
    BY <2>1 DEF Keep, TypeOK, HasSession
<1>. QED
  BY <1>3, <1>4, <1>5, <1>6, <1>7, <1>8, <1>9

(* The daemon answers. *)
LEMMA ServeKeepsWire ==
  ASSUME WireInv, NEW c \in Client, Serve(c)
  PROVE  WireInv'
<1>. DEFINE req == client[c].req
            answer == Answer(req)
            new == [client[c] EXCEPT !.phase = "answered", !.outcome = answer, !.op = "",
                                     !.req = None, !.served = TRUE, !.changed = (table' # table)]
<1>1. client[c] \in ClientState /\ client[c].phase = "waiting"
  BY DEF Serve, WireInv, TypeOK
<1>2. answer \in Answers /\ answer # None
  BY NoneAssumption DEF Answer, Answers, Refusals, Outcomes
<1>3. /\ table' \in Tables
      /\ minted' \subseteq SessionId \cup ReservationId \cup MessageId
      /\ {s \in SessionId : HasSession(s)'} \cup table'.reservations \cup table'.messages
           \subseteq minted'
  <2>1. CASE answer = "result"
    <3>1. PICK x \in Offers[c] : req = x.req
      BY <1>1 DEF WireInv, RequestsAreOffered
    <3>2. Perform(x.req)
      BY <2>1, <3>1 DEF Serve
    <3>. QED
      BY <2>1, <3>1, <3>2, PerformKeepsTables DEF WireInv
  <2>2. CASE answer # "result"
    BY <2>2 DEF Serve, Keep, WireInv, TypeOK, HasSession
  <2>. QED
    BY <2>1, <2>2
<1>. HIDE DEF answer
<1>4. client' = [client EXCEPT ![c] = new] /\ ended' = None /\ up' = up
  BY DEF Serve, answer
<1>5. /\ new \in ClientState
      /\ new.phase = "answered" /\ new.req = None /\ new.outcome = answer
  BY <1>1, <1>2 DEF ClientState
<1>. HIDE DEF new
<1>6. answer # None
  BY <1>2
<1>7. \A d \in Client : client'[d] = IF d = c THEN new ELSE client[d]
  BY <1>4 DEF WireInv, TypeOK
<1>8. client' \in [Client -> ClientState]
  BY <1>4, <1>5 DEF WireInv, TypeOK
<1>9. RequestsAreOffered'
  BY <1>5, <1>7 DEF WireInv, RequestsAreOffered
<1>. QED
  BY <1>3, <1>4, <1>5, <1>6, <1>7, <1>8, <1>9 DEF WireInv, TypeOK

(* The caller reads, or an agent's connection comes or goes.                *)
LEMMA ReceiveKeepsWire ==
  ASSUME WireInv, NEW c \in Client, Receive(c)
  PROVE  WireInv'
<1>. DEFINE outcome == IF client[c].phase = "closed" THEN "closed" ELSE client[c].outcome
            new == Settled(c)
<1>1. client[c] \in ClientState /\ client[c].phase \in {"answered", "closed"}
  BY DEF Receive, WireInv, TypeOK
<1>2. outcome \in Outcomes
  BY <1>1 DEF WireInv, TypeOK, ClientState, Answers, Outcomes, Transport
<1>3. ended'.outcome = outcome
  BY DEF Receive, End
<1>4. /\ client' = [client EXCEPT ![c] = new]
      /\ UNCHANGED <<up, table, minted>>
  BY DEF Receive
<1>5. /\ new \in ClientState /\ new.phase = "idle" /\ new.req = None /\ new.outcome = None
  BY <1>1 DEF Settled, Idle, ClientState, Kinds
<1>. HIDE DEF outcome, new
<1>6. \A d \in Client : client'[d] = IF d = c THEN new ELSE client[d]
  BY <1>4 DEF WireInv, TypeOK
<1>7. client' \in [Client -> ClientState]
  BY <1>4, <1>5 DEF WireInv, TypeOK
<1>8. RequestsAreOffered'
  BY <1>5, <1>6 DEF WireInv, RequestsAreOffered
<1>. QED
  BY <1>2, <1>3, <1>4, <1>5, <1>6, <1>7, <1>8 DEF WireInv, TypeOK, HasSession

(* An agent's connection comes and goes between its calls. *)
LEMMA LinkKeepsWire ==
  ASSUME WireInv, DropClient \/ CloseIdle
  PROVE  WireInv'
<1>1. /\ Agent \in Client /\ client[Agent] \in ClientState /\ IsIdle(Agent)
      /\ client[Agent].req = None /\ client[Agent].outcome = None
  BY DEF Client, WireInv, TypeOK, DropClient, CloseIdle, IsIdle
<1>. DEFINE cut == [client[Agent] EXCEPT !.link = "broken"]
<1>2. /\ Idle \in ClientState
      /\ Idle.phase = "idle" /\ Idle.req = None /\ Idle.outcome = None
      /\ cut \in ClientState
      /\ cut.phase = "idle" /\ cut.req = None /\ cut.outcome = None
  BY <1>1 DEF Idle, ClientState, Kinds, IsIdle
<1>. HIDE DEF cut
<1>3. PICK v \in {Idle, cut} : /\ client' = [client EXCEPT ![Agent] = v]
                               /\ ended' = None /\ UNCHANGED <<up, table, minted>>
  BY DEF DropClient, CloseIdle, cut
<1>4. \A d \in Client : client'[d] = IF d = Agent THEN v ELSE client[d]
  BY <1>1, <1>3 DEF WireInv, TypeOK
<1>5. client' \in [Client -> ClientState]
  BY <1>2, <1>3 DEF WireInv, TypeOK
<1>6. RequestsAreOffered'
  BY <1>2, <1>3, <1>4 DEF WireInv, RequestsAreOffered
<1>. QED
  BY <1>2, <1>3, <1>4, <1>5, <1>6 DEF WireInv, TypeOK, HasSession

(* The daemon dies with its tables and the requests it was sent. *)
LEMMA CrashKeepsWire ==
  ASSUME WireInv, Crash
  PROVE  WireInv'
<1>1. PICK cut \in SUBSET {c \in Client : client[c].phase = "answered"} :
        client' = [c \in Client |->
          [client[c] EXCEPT
             !.phase = IF @ = "waiting" \/ c \in cut THEN "closed" ELSE @,
             !.op = "", !.req = None,
             !.outcome = IF c \in cut THEN None ELSE @,
             !.link = IF @ = "open" THEN "broken" ELSE @]]
  BY DEF Crash
<1>2. ended' = None /\ up' = FALSE /\ table' = NoTables /\ minted' = minted
  BY DEF Crash
<1>3. ASSUME NEW c \in Client
      PROVE  /\ client'[c] \in ClientState
             /\ client'[c].phase = IF client[c].phase = "waiting" \/ c \in cut
                                   THEN "closed" ELSE client[c].phase
             /\ client'[c].req = None
             /\ client'[c].outcome = IF c \in cut THEN None ELSE client[c].outcome
  <2>1. client[c] \in ClientState
    BY DEF WireInv, TypeOK
  <2>. QED
    BY <1>1, <2>1 DEF ClientState
<1>4. client' \in [Client -> ClientState]
  BY <1>1, <1>3
<1>5. \A c \in Client : /\ c \in cut => client[c].phase = "answered"
                        /\ client[c].phase = "answered" <=> client[c].outcome # None
  BY <1>1 DEF WireInv, TypeOK
<1>6. \A c \in Client : client'[c].phase # "waiting"
  BY <1>3
<1>7. \A c \in Client : client'[c].phase = "answered" <=> client'[c].outcome # None
  BY <1>3, <1>5
<1>8. /\ table' \in Tables
      /\ {s \in SessionId : HasSession(s)'} \cup table'.reservations \cup table'.messages = {}
  BY <1>2 DEF NoTables, Tables, HasSession
<1>. QED
  BY <1>2, <1>3, <1>4, <1>6, <1>7, <1>8 DEF WireInv, TypeOK, RequestsAreOffered

(* One step, whoever takes it. *)
LEMMA StepKeepsWire == ASSUME WireInv, [Next]_vars PROVE WireInv'
<1>1. CASE Start
  BY <1>1 DEF Start, WireInv, TypeOK, RequestsAreOffered, HasSession
<1>2. CASE UNCHANGED vars
  BY <1>2 DEF vars, WireInv, TypeOK, RequestsAreOffered, HasSession
<1>. QED
  BY <1>1, <1>2, CallersKeepWire, ServeKeepsWire, ReceiveKeepsWire, LinkKeepsWire, CrashKeepsWire
  DEF Next

(* Types, and that what waits for the daemon is what its client offers, are *)
(* invariants: the request a task reads is the one its caller built         *)
(* (Client::call writes it whole, the listener reads it whole).             *)
THEOREM WireInductive == Spec => []WireInv
<1>1. Init => WireInv
  <2>1. /\ Idle \in ClientState /\ Idle.phase = "idle"
        /\ Idle.req = None /\ Idle.outcome = None
    BY DEF Idle, ClientState, Kinds
  <2>2. NoTables \in Tables /\ NoTables.reservations = {} /\ NoTables.messages = {}
          /\ \A s \in SessionId : NoTables.sessions[s] = None
    BY DEF NoTables, Tables
  <2>. QED
    BY <2>1, <2>2 DEF Init, WireInv, TypeOK, RequestsAreOffered, HasSession
<1>2. WireInv /\ [Next]_vars => WireInv'
  BY StepKeepsWire
<1>. QED
  BY <1>1, <1>2, PTL DEF Spec

(* Every variable has its type and the tables hold minted ids only, across  *)
(* crashes of the daemon too.                                               *)
THEOREM FrontEndsTypeCorrect == Spec => []TypeOK
<1>1. WireInv => TypeOK
  BY DEF WireInv
<1>. QED
  BY <1>1, WireInductive, PTL

(* The crates agree on methods and fields: for the library, the bridge and  *)
(* the served commands, whatever optional arguments their callers give      *)
(* (lib.rs and handlers.rs of client, bridge and daemon, cmd_*.rs).         *)
THEOREM FieldsAreUnderstood == Spec => []CratesAgree
<1>1. WireInv => CratesAgree
  BY OffersAgree DEF WireInv, RequestsAreOffered, CratesAgree
<1>. QED
  BY <1>1, WireInductive, PTL

(* What the daemon will say to a request is known when it is sent, but for  *)
(* whether its object exists: a command that is not among ServedCommands is *)
(* always refused; any other call has a method the daemon knows and fails   *)
(* to parse only by a word that its caller got wrong.                       *)
RequestsAreUnderstood ==
  \A c \in Client : client[c].phase = "waiting" =>
    LET req == client[c].req IN
      IF c = Cli /\ client[c].op \notin ServedCommands
      THEN Answer(req) \in {"method_not_found", "invalid_params"}
      ELSE /\ Answer(req) # "method_not_found"
           /\ Answer(req) = "invalid_params"
                => \E f \in DOMAIN req.params : req.params[f] = "unknown"

(* The other commands lack a field the daemon requires, or name no method.  *)
LEMMA OtherCommandsAreRefused ==
  ASSUME NEW a, NEW x \in Commands(a), x.op \notin ServedCommands
  PROVE  ~HasMethod(x.req) \/ ~(dispatch[x.req.method].required \subseteq DOMAIN x.req.params)
<1>1. x.req \in {reservations_claim(a), inbox_show(a), state_show(a), state_set_focus(a),
                state_set_status(a), daemon_stop(a)}
  BY DEF Commands, Offer, ServedCommands
<1>2. CASE x.req \in {reservations_claim(a), inbox_show(a), state_show(a)}
  <2>1. "session_id" \notin DOMAIN x.req.params
    BY <1>2, AskIs DEF reservations_claim, inbox_show, state_show, Optional
  <2>2. x.req.method \in {"reservation.claim", "inbox.list", "state.get"}
    BY <1>2, AskIs DEF reservations_claim, inbox_show, state_show
  <2>3. "session_id" \in dispatch[x.req.method].required
    BY <2>2 DEF dispatch, Methods, Takes, handle_reservation_claim, handle_inbox_list,
                handle_state_get
  <2>. QED
    BY <2>1, <2>3
<1>3. CASE x.req \in {state_set_focus(a), state_set_status(a), daemon_stop(a)}
  BY <1>3, AskIs DEF state_set_focus, state_set_status, daemon_stop, HasMethod, Methods
<1>. QED
  BY <1>1, <1>2, <1>3

(* A command of the CLI either sends what the daemon reads or is always     *)
(* refused, and library and bridge are refused for a wrong word or a        *)
(* missing object only (dispatch, parse_params and the parse_ functions of  *)
(* the daemon's handlers against the requests of the three front ends).     *)
THEOREM CallsAreUnderstood == Spec => []RequestsAreUnderstood
<1>1. ASSUME WireInv, NEW c \in Client, client[c].phase = "waiting"
      PROVE  IF c = Cli /\ client[c].op \notin ServedCommands
             THEN Answer(client[c].req) \in {"method_not_found", "invalid_params"}
             ELSE /\ Answer(client[c].req) # "method_not_found"
                  /\ Answer(client[c].req) = "invalid_params"
                       => \E f \in DOMAIN client[c].req.params : client[c].req.params[f] = "unknown"
  <2>1. PICK x \in Offers[c] : client[c].op = x.op /\ client[c].req = x.req
    BY <1>1 DEF WireInv, RequestsAreOffered
  <2>2. CASE c = Cli /\ x.op \notin ServedCommands
    <3>1. PICK a \in Arguments(c) : x \in Commands(a)
      BY <2>2, OffersOf DEF CliCommands
    <3>2. ~HasMethod(x.req) \/ ~Parses(x.req)
      BY <2>2, <3>1, OtherCommandsAreRefused DEF Parses
    <3>. QED
      BY <2>1, <2>2, <3>2 DEF Answer
  <2>3. CASE ~(c = Cli /\ x.op \notin ServedCommands)
    <3>1. HasMethod(x.req) /\ dispatch[x.req.method].required \subseteq DOMAIN x.req.params
      BY <2>3, OffersAgree DEF Agrees
    <3>2. Parses(x.req) \/ \E f \in DOMAIN x.req.params : x.req.params[f] = "unknown"
      BY <3>1 DEF Parses
    <3>. QED
      BY <2>1, <2>3, <3>1, <3>2 DEF Answer
  <2>. QED
    BY <2>1, <2>2, <2>3
<1>2. WireInv => RequestsAreUnderstood
  BY <1>1 DEF RequestsAreUnderstood
<1>. QED
  BY <1>2, WireInductive, PTL

-----------------------------------------------------------------------------
(* That lines are answered is liveness, and left to model checking.  What   *)
(* it needs of every state is proved: who waits has a daemon that serves.   *)

(* A dead daemon holds no table and no open connection, and who waits does  *)
(* so on an open one.                                                       *)
NobodyWaitsForTheDead ==
  /\ ~up => table = NoTables
  /\ \A c \in Client :
       /\ client[c].link = "open" => up
       /\ client[c].phase = "waiting" => client[c].link = "open"

(* A request is written to a daemon that is up. *)
LEMMA WriteNeedsDaemon ==
  ASSUME TypeOK, NobodyWaitsForTheDead, NEW c \in Client, NEW x, HasStream(c), Write(c, x.op, x.req)
  PROVE  NobodyWaitsForTheDead'
<1>1. up
  BY DEF HasStream, NobodyWaitsForTheDead
<1>2. UNCHANGED <<up, table>>
  BY DEF Write
<1>3. \A d \in Client \ {c} : client'[d] = client[d]
  BY DEF Write, TypeOK
<1>4. client'[c].link = "open"
  BY DEF Write, TypeOK, Idle
<1>. QED
  BY <1>1, <1>2, <1>3, <1>4 DEF NobodyWaitsForTheDead

(* Calls begin with a daemon, or end at once. *)
LEMMA CallersNeedDaemon ==
  ASSUME TypeOK, NobodyWaitsForTheDead,
         AnswerLocally \/ RefuseTool \/ CallTool \/ RunCommand \/ RunLocalCommand \/ CallLibrary
  PROVE  NobodyWaitsForTheDead'
<1>1. Bridge \in Client /\ Cli \in Client /\ Agent \in Client
  BY DEF Client
<1>2. ASSUME NEW c, NEW kind, NEW outcome, NEW exit, EndAtOnce(c, kind, outcome, exit)
      PROVE  NobodyWaitsForTheDead'
  BY <1>2 DEF EndAtOnce, NobodyWaitsForTheDead
<1>3. CASE AnswerLocally \/ RefuseTool \/ RunLocalCommand
  BY <1>2, <1>3 DEF AnswerLocally, RefuseTool, RunLocalCommand
<1>4. CASE CallTool \/ RunCommand \/ CallLibrary
  BY <1>1, <1>2, <1>4, WriteNeedsDaemon DEF CallTool, RunCommand, CallLibrary
<1>. QED
  BY <1>3, <1>4

(* A crash ends every wait, and no other step begins one without a daemon.  *)
LEMMA StepNeedsDaemon ==
  ASSUME TypeOK, NobodyWaitsForTheDead, [Next]_vars
  PROVE  NobodyWaitsForTheDead'
<1>1. ASSUME NEW c \in Client, NEW new, client' = [client EXCEPT ![c] = new],
             new.phase # "waiting", new.link \in {client[c].link, "none", "broken"},
             UNCHANGED up, ~up => UNCHANGED table
      PROVE  NobodyWaitsForTheDead'
  <2>1. \A d \in Client : client'[d] = IF d = c THEN new ELSE client[d]
    BY <1>1 DEF TypeOK
  <2>. QED
    BY <1>1, <2>1 DEF NobodyWaitsForTheDead
<1>2. ASSUME NEW c \in Client, Serve(c) PROVE NobodyWaitsForTheDead'
  <2>. DEFINE answer == Answer(client[c].req)
              new == [client[c] EXCEPT !.phase = "answered", !.outcome = answer, !.op = "",
                                       !.req = None, !.served = TRUE,
                                       !.changed = (table' # table)]
  <2>1. client[c] \in ClientState
    BY DEF TypeOK
  <2>. HIDE DEF answer
  <2>2. client' = [client EXCEPT ![c] = new] /\ up /\ up' = up
    BY <1>2 DEF Serve, answer
  <2>3. new.phase = "answered" /\ new.link = client[c].link
    BY <2>1 DEF ClientState
  <2>. HIDE DEF new
  <2>. QED
    BY <1>1, <2>2, <2>3
<1>3. ASSUME NEW c \in Client, Receive(c) PROVE NobodyWaitsForTheDead'
  <2>. DEFINE new == Settled(c)
  <2>1. client' = [client EXCEPT ![c] = new] /\ UNCHANGED <<up, table>>
    BY <1>3 DEF Receive
  <2>2. new.phase = "idle" /\ new.link \in {client[c].link, "none"}
    BY DEF Settled, Idle
  <2>. HIDE DEF new
  <2>. QED
    BY <1>1, <2>1, <2>2
<1>4. CASE DropClient \/ CloseIdle
  <2>. DEFINE cut == [client[Agent] EXCEPT !.link = "broken"]
  <2>1. Agent \in Client /\ client[Agent] \in ClientState /\ IsIdle(Agent)
    BY <1>4 DEF Client, TypeOK, DropClient, CloseIdle
  <2>2. cut.phase = "idle" /\ cut.link = "broken" /\ Idle.phase = "idle" /\ Idle.link = "none"
    BY <2>1 DEF IsIdle, ClientState, Idle
  <2>. HIDE DEF cut
  <2>3. PICK v \in {Idle, cut} : client' = [client EXCEPT ![Agent] = v] /\ UNCHANGED <<up, table>>
    BY <1>4 DEF DropClient, CloseIdle, cut
  <2>. QED
    BY <1>1, <2>1, <2>2, <2>3
<1>5. CASE Crash
  <2>1. PICK cut \in SUBSET {c \in Client : client[c].phase = "answered"} :
          client' = [c \in Client |->
            [client[c] EXCEPT
               !.phase = IF @ = "waiting" \/ c \in cut THEN "closed" ELSE @,
               !.op = "", !.req = None,
               !.outcome = IF c \in cut THEN None ELSE @,
               !.link = IF @ = "open" THEN "broken" ELSE @]]
    BY <1>5 DEF Crash
  <2>2. ASSUME NEW c \in Client
        PROVE  client'[c].phase # "waiting" /\ client'[c].link # "open"
    <3>1. client[c] \in ClientState
      BY DEF TypeOK
    <3>. QED
      BY <2>1, <3>1 DEF ClientState
  <2>3. table' = NoTables
    BY <1>5 DEF Crash
  <2>. QED
    BY <2>2, <2>3 DEF NobodyWaitsForTheDead
<1>6. CASE Start \/ UNCHANGED vars
  BY <1>6 DEF Start, vars, NobodyWaitsForTheDead
<1>. QED
  BY <1>2, <1>3, <1>4, <1>5, <1>6, CallersNeedDaemon DEF Next

(* Nobody waits for a daemon that is dead, and none of its tables outlives  *)
(* it: neither end of a connection has a timeout, so this is what lets the  *)
(* bridge answer every line (Client::call, read_line; AppStateInner).       *)
THEOREM WaitsAreServed == Spec => []NobodyWaitsForTheDead
<1>1. Init => NobodyWaitsForTheDead
  <2>1. Idle.phase = "idle" /\ Idle.link = "none"
    BY DEF Idle
  <2>. QED
    BY <2>1 DEF Init, NobodyWaitsForTheDead
<1>2. TypeOK /\ NobodyWaitsForTheDead /\ [Next]_vars => NobodyWaitsForTheDead'
  BY StepNeedsDaemon
<1>. QED
  BY <1>1, <1>2, FrontEndsTypeCorrect, PTL DEF Spec

=============================================================================
