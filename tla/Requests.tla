------------------------------- MODULE Requests -------------------------------
(***************************************************************************)
(* The requests that the three front ends build and what the daemon reads   *)
(* of them: the client library (teamcomm-client/src/lib.rs), the tools of   *)
(* the MCP bridge (teamcomm-mcp/src/handlers.rs) and the commands of the    *)
(* CLI (teamcomm-cli/src/cmd_*.rs), against the parsing half of the         *)
(* daemon's handlers (teamcomm-daemon/src/handlers.rs).  The four crates    *)
(* agree on method and field names only by spelling them alike.             *)
(*                                                                         *)
(* A request is a method and a function from field names to values.  The    *)
(* values kept are the ids that the daemon looks up, of which the sender of *)
(* a message is one and its recipient is not, and whether an enumeration's  *)
(* word is "known"; others are "given".  A null field reads as an absent one, so it is left out.    *)
(* An argument record `a` has the ids, the word, and whether the optional   *)
(* arguments are given (`full`).                                            *)
(***************************************************************************)

Value(a, field) ==
  CASE field = "pid" -> a.pid
    [] field \in {"session_id", "from_session"} -> a.session
    [] field = "reservation_id" -> a.reservation
    [] field = "message_id" -> a.message
    [] field \in {"mode", "priority", "status"} -> a.word
    [] OTHER -> "given"

Ask(a, method, fields) == [method |-> method, params |-> [f \in fields |-> Value(a, f)]]
Optional(a, fields) == IF a.full THEN fields ELSE {}

(* What a caller may pick: an operation and the request it comes to. *)
Offer(op, req) == [op |-> op, req |-> req]

-----------------------------------------------------------------------------
(* What the daemon requires and reads, per method.                          *)

Takes(required, optional) == [required |-> required, reads |-> required \cup optional]

handle_session_register == Takes({"pid"}, {"agent_type", "working_dir", "capabilities"})
handle_session_deregister == Takes({"session_id"}, {})
handle_session_heartbeat == Takes({"session_id"}, {})
handle_session_list == Takes({}, {})
handle_session_get == Takes({"session_id"}, {})
handle_reservation_claim == Takes({"session_id", "path"}, {"mode", "ttl_sec"})
handle_reservation_release == Takes({"reservation_id"}, {})
handle_reservation_list == Takes({}, {"path"})
handle_inbox_post == Takes({"from_session", "to_session"}, {"subject", "body", "priority"})
handle_inbox_list == Takes({"session_id"}, {"unread_only", "limit"})
handle_inbox_read == Takes({"message_id"}, {})
handle_state_set ==
  Takes({"session_id"}, {"focus_file", "focus_branch", "worktree", "status"})
handle_state_get == Takes({"session_id"}, {})
handle_discover_agents == Takes({}, {"path", "branch", "capabilities"})

Methods ==
  {"session.register", "session.deregister", "session.heartbeat", "session.list",
   "session.get", "reservation.claim", "reservation.release", "reservation.list",
   "inbox.post", "inbox.list", "inbox.read", "state.set", "state.get",
   "discover.agents"}

dispatch == [method \in Methods |->
  CASE method = "session.register" -> handle_session_register
    [] method = "session.deregister" -> handle_session_deregister
    [] method = "session.heartbeat" -> handle_session_heartbeat
    [] method = "session.list" -> handle_session_list
    [] method = "session.get" -> handle_session_get
    [] method = "reservation.claim" -> handle_reservation_claim
    [] method = "reservation.release" -> handle_reservation_release
    [] method = "reservation.list" -> handle_reservation_list
    [] method = "inbox.post" -> handle_inbox_post
    [] method = "inbox.list" -> handle_inbox_list
    [] method = "inbox.read" -> handle_inbox_read
    [] method = "state.set" -> handle_state_set
    [] method = "state.get" -> handle_state_get
    [] method = "discover.agents" -> handle_discover_agents]

HasMethod(req) == req.method \in Methods

(* parse_reservation_mode, parse_priority and parse_agent_status reject     *)
(* words they do not know; an absent field has a default.                   *)
Parses(req) ==
  /\ dispatch[req.method].required \subseteq DOMAIN req.params
  /\ \A f \in {"mode", "priority", "status"} \cap dispatch[req.method].reads :
       f \in DOMAIN req.params => req.params[f] # "unknown"

-----------------------------------------------------------------------------
(* The client library.                                                      *)

session_register(a) ==
  Ask(a, "session.register",
      {"pid", "agent_type", "capabilities"} \cup Optional(a, {"working_dir"}))
session_deregister(a) == Ask(a, "session.deregister", {"session_id"})
session_heartbeat(a) == Ask(a, "session.heartbeat", {"session_id"})
session_list(a) == Ask(a, "session.list", {})
session_get(a) == Ask(a, "session.get", {"session_id"})

(* Mutant: the duration has the name the bridge gives it. *)
reservation_claim_TtlSeconds(a) ==
  Ask(a, "reservation.claim", {"session_id", "path", "mode", "ttl_seconds"})

reservation_claim(a) == Ask(a, "reservation.claim", {"session_id", "path", "mode", "ttl_sec"})
reservation_release(a) == Ask(a, "reservation.release", {"reservation_id"})
reservation_list(a) == Ask(a, "reservation.list", Optional(a, {"path"}))
inbox_post(a) ==
  Ask(a, "inbox.post", {"from_session", "to_session", "subject", "body", "priority"})
inbox_list(a) == Ask(a, "inbox.list", {"session_id", "unread_only", "limit"})
inbox_read(a) == Ask(a, "inbox.read", {"message_id"})
state_set(a) ==
  Ask(a, "state.set",
      {"session_id", "status"} \cup Optional(a, {"focus_file", "focus_branch", "worktree"}))
state_get(a) == Ask(a, "state.get", {"session_id"})
discover_agents(a) ==
  Ask(a, "discover.agents", {"capabilities"} \cup Optional(a, {"path", "branch"}))

Library(a) ==
  {Offer("session_register", session_register(a)),
   Offer("session_deregister", session_deregister(a)),
   Offer("session_heartbeat", session_heartbeat(a)),
   Offer("session_list", session_list(a)),
   Offer("session_get", session_get(a)),
   Offer("reservation_claim", reservation_claim(a)),
   Offer("reservation_release", reservation_release(a)),
   Offer("reservation_list", reservation_list(a)),
   Offer("inbox_post", inbox_post(a)),
   Offer("inbox_list", inbox_list(a)),
   Offer("inbox_read", inbox_read(a)),
   Offer("state_set", state_set(a)),
   Offer("state_get", state_get(a)),
   Offer("discover_agents", discover_agents(a))}

-----------------------------------------------------------------------------
(* The tools of the bridge.  What the daemon does not read (metadata,       *)
(* ttl_seconds, kind, since, state, ...) is sent all the same.              *)

register_session(a) == Ask(a, "session.register", {"pid", "agent_type", "metadata"})
deregister_session(a) == Ask(a, "session.deregister", {"session_id"})
list_sessions(a) == Ask(a, "session.list", Optional(a, {"role", "focus_contains"}))
claim_file(a) ==
  Ask(a, "reservation.claim",
      {"session_id", "path", "mode", "ttl_seconds"} \cup Optional(a, {"reason"}))
release_file(a) ==
  Ask(a, "reservation.release", {"reservation_id"} \cup Optional(a, {"session_id"}))
list_claims(a) ==
  Ask(a, "reservation.list", Optional(a, {"session_id", "path_prefix", "mode"}))

(* Without a recipient `to_session` is "", which the daemon takes for a     *)
(* session like any other.                                                  *)
post_message(a) ==
  Ask(a, "inbox.post",
      {"from_session", "to_session", "priority", "kind", "body"} \cup Optional(a, {"subject"}))
read_inbox(a) == Ask(a, "inbox.list", {"session_id"} \cup Optional(a, {"limit", "since"}))

(* The daemon reads focus and status beside session_id, not within a state. *)
announce_focus(a) == Ask(a, "state.set", {"session_id", "state"})
set_status(a) == Ask(a, "state.set", {"session_id", "state"})
discover_agents_for_path(a) ==
  Ask(a, "discover.agents", {"path", "include_idle"} \cup Optional(a, {"agent_type"}))

route(a) ==
  {Offer("teamcomm_session_register", register_session(a)),
   Offer("teamcomm_session_deregister", deregister_session(a)),
   Offer("teamcomm_session_list", list_sessions(a)),
   Offer("teamcomm_file_claim", claim_file(a)),
   Offer("teamcomm_file_release", release_file(a)),
   Offer("teamcomm_file_list_claims", list_claims(a)),
   Offer("teamcomm_inbox_post", post_message(a)),
   Offer("teamcomm_inbox_read", read_inbox(a)),
   Offer("teamcomm_announce_focus", announce_focus(a)),
   Offer("teamcomm_set_status", set_status(a)),
   Offer("teamcomm_discover_agents_for_path", discover_agents_for_path(a))}

(* Tools without a required argument cannot be refused for lacking one.     *)
NothingRequired == {"teamcomm_session_list", "teamcomm_file_list_claims"}

(* What the manifest tells the host to call. *)
KNOWN_TOOL_NAMES ==
  {"register_session", "deregister_session", "list_sessions", "claim_file", "release_file",
   "list_claims", "post_message", "read_inbox", "announce_focus", "set_status",
   "discover_agents_for_path"}

-----------------------------------------------------------------------------
(* The commands of the CLI that send a request: `inbox post` is inbox_post,  *)
(* and so on.                                                               *)

(* clap restricts mode and priority to known words. *)
Clap(a) == [a EXCEPT !.word = "known"]

sessions_list(a) == Ask(a, "session.list", {})
sessions_show(a) == Ask(a, "session.get", {"session_id"})
reservations_ls(a) == Ask(a, "reservation.list", Optional(a, {"path"}))
reservations_claim(a) ==
  Ask(Clap(a), "reservation.claim", {"session", "path", "mode", "ttl_sec"})
reservations_release(a) == Ask(a, "reservation.release", {"reservation_id"})
inbox_show(a) == Ask(a, "inbox.list", {"session", "unread_only", "limit"})
inbox_open(a) == Ask(a, "inbox.read", {"message_id"})
inbox_send(a) ==
  Ask(Clap(a), "inbox.post", {"from_session", "to_session", "subject", "body", "priority"})
state_show(a) == Ask(a, "state.get", Optional(a, {"session"}))
state_set_focus(a) == Ask(a, "state.set_focus", {"file"} \cup Optional(a, {"session"}))
state_set_status(a) == Ask(a, "state.set_status", {"status"} \cup Optional(a, {"session"}))
discover(a) == Ask(a, "discover.agents", {"capabilities"} \cup Optional(a, {"path", "branch"}))
daemon_stop(a) == Ask(a, "daemon.shutdown", {})

Commands(a) ==
  {Offer("sessions_list", sessions_list(a)),
   Offer("sessions_show", sessions_show(a)),
   Offer("reservations_ls", reservations_ls(a)),
   Offer("reservations_claim", reservations_claim(a)),
   Offer("reservations_release", reservations_release(a)),
   Offer("inbox_list", inbox_show(a)),
   Offer("inbox_read", inbox_open(a)),
   Offer("inbox_post", inbox_send(a)),
   Offer("state_show", state_show(a)),
   Offer("state_set_focus", state_set_focus(a)),
   Offer("state_set_status", state_set_status(a)),
   Offer("discover_agents", discover(a)),
   Offer("daemon_stop", daemon_stop(a))}

(* cmd_sessions reports every error; the others print a placeholder instead. *)
SessionCommands == {"sessions_list", "sessions_show"}

=============================================================================
