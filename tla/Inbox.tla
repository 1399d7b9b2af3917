-------------------------------- MODULE Inbox --------------------------------
(***************************************************************************)
(* The inbox of the teamcomm daemon: inbox.post, inbox.list and inbox.read  *)
(* (handlers.rs) over the map `inbox` of AppStateInner, with the replies    *)
(* that carry messages to the agents.                                       *)
(*                                                                         *)
(* The daemon marks messages read when it computes the reply; the reply     *)
(* then travels on the connection and arrives or is lost with it.  A list   *)
(* is therefore two steps, the handler and the delivery.  The module is     *)
(* about one life of the daemon: a restart forgets every message.           *)
(*                                                                         *)
(* A message is named by its mailbox and its position there, which stands   *)
(* for the uuid the daemon mints.  Text, subject and priority do not        *)
(* influence the handlers and are left out.                                 *)
(***************************************************************************)
EXTENDS SessionTable, Sequences, FiniteSets, SequencesExt

CONSTANTS
  Conn,        \* connections that may have a reply under way
  Broadcast,   \* the recipient "" that the MCP bridge sends when there is no `to`
  Limit,       \* values of `limit` a list may carry; 0 is no limit
  MaxPosts     \* bound on the messages posted

(* The map is keyed by whatever a post names as recipient. *)
Mailbox == SessionId \cup {Broadcast}

ASSUME InboxAssumption ==
  /\ Broadcast \notin SessionId
  /\ Limit \subseteq Nat
  /\ MaxPosts \in Nat

VARIABLES
  inbox,     \* mailbox -> sequence of messages, oldest first
  reply,     \* connection -> the list or read reply under way, or None
  received,  \* history: reader -> messages that reached it
  lost,      \* history: messages in replies that never arrived
  polls      \* history: mailbox -> what each unread_only list of it returned

inbox_vars == <<inbox, reply, received, lost, polls>>
vars == <<table_vars, inbox_vars>>

InboxMessage == [from_session: SessionId, read: BOOLEAN]
Reply == [reader: Mailbox, messages: SUBSET (Mailbox \X Nat)]

ASSUME ReplyAssumption == None \notin Reply

Posted(box) == DOMAIN inbox[box]
TotalPosts == FoldFunction(LAMBDA queue, n : Len(queue) + n, 0, inbox)

-----------------------------------------------------------------------------

(* Mutant: the newest messages are taken first. *)
Taken_Newest(box, unread_only, limit) ==
  LET matching == {i \in Posted(box) : ~unread_only \/ ~inbox[box][i].read}
  IN  {i \in matching : limit = 0 \/ Cardinality({j \in matching : j >= i}) <= limit}

(* `iter().filter(..).take(limit)`: the oldest `limit` messages that match. *)
Taken(box, unread_only, limit) ==
  LET matching == {i \in Posted(box) : ~unread_only \/ ~inbox[box][i].read}
  IN  {i \in matching : limit = 0 \/ Cardinality({j \in matching : j <= i}) <= limit}

MarkRead(box, positions) ==
  inbox' = [inbox EXCEPT ![box] =
              [i \in DOMAIN @ |-> IF i \in positions THEN [@[i] EXCEPT !.read = TRUE] ELSE @[i]]]

(* The handler's answer goes out on connection c. *)
Answer(c, reader, box, positions) ==
  /\ reply[c] = None
  /\ reply' = [reply EXCEPT ![c] = [reader |-> reader, messages |-> {box} \X positions]]

-----------------------------------------------------------------------------

Init ==
  /\ TableInit
  /\ inbox = [box \in Mailbox |-> <<>>]
  /\ reply = [c \in Conn |-> None]
  /\ received = [box \in Mailbox |-> {}]
  /\ lost = {}
  /\ polls = [box \in Mailbox |-> <<>>]

Register ==
  /\ \E pid \in Pid, profile \in Profile : RegisterSession(pid, profile, 0)
  /\ UNCHANGED inbox_vars

(* The mailbox stays when its session goes. *)
Deregister ==
  /\ \E sid \in minted : DeregisterSession(sid)
  /\ UNCHANGED inbox_vars

(* Mutant: a new message goes in front. *)
Post_InFront ==
  /\ TotalPosts < MaxPosts
  /\ \E from \in SessionId, to \in Mailbox :
       /\ Registered(from)
       /\ inbox' = [inbox EXCEPT ![to] = <<[from_session |-> from, read |-> FALSE]>> \o @]
  /\ UNCHANGED <<table_vars, reply, received, lost, polls>>

(* Mutant: the sender is recorded by its pid. *)
Post_FromPid ==
  /\ TotalPosts < MaxPosts
  /\ \E from \in SessionId, to \in Mailbox :
       /\ Registered(from)
       /\ inbox' = [inbox EXCEPT ![to] =
                       Append(@, [from_session |-> sessions[from].pid, read |-> FALSE])]
  /\ UNCHANGED <<table_vars, reply, received, lost, polls>>

(* inbox.post: the sender must be registered, the recipient is not checked. *)
(* An unknown sender is answered NotFound and nothing changes.              *)
Post ==
  /\ TotalPosts < MaxPosts
  /\ \E from \in SessionId, to \in Mailbox :
       /\ Registered(from)
       /\ inbox' = [inbox EXCEPT ![to] = Append(@, [from_session |-> from, read |-> FALSE])]
  /\ UNCHANGED <<table_vars, reply, received, lost, polls>>

(* Mutant: everything that matches is marked, beyond the limit too. *)
List_MarkAll(c, box, unread_only, limit) ==
  LET taken == Taken(box, unread_only, limit) IN
  /\ MarkRead(box, Posted(box))
  /\ Answer(c, box, box, taken)
  /\ polls' = [polls EXCEPT ![box] = IF unread_only /\ taken # {} THEN Append(@, taken) ELSE @]
  /\ UNCHANGED <<table_vars, received, lost>>

(* inbox.list: nobody checks that the caller is the session it names or     *)
(* that the session exists.                                                 *)
List(c, box, unread_only, limit) ==
  LET taken == Taken(box, unread_only, limit) IN
  /\ MarkRead(box, taken)
  /\ Answer(c, box, box, taken)
  /\ polls' = [polls EXCEPT ![box] = IF unread_only /\ taken # {} THEN Append(@, taken) ELSE @]
  /\ UNCHANGED <<table_vars, received, lost>>

(* inbox.read: one message by id; the sender knows the id too. *)
Read(c, reader) ==
  /\ \E box \in Mailbox : \E i \in Posted(box) :
       MarkRead(box, {i}) /\ Answer(c, reader, box, {i})
  /\ UNCHANGED <<table_vars, received, lost, polls>>

(* The agent reads the response line. *)
Deliver(c) ==
  /\ reply[c] # None
  /\ received' = [received EXCEPT ![reply[c].reader] = @ \cup reply[c].messages]
  /\ reply' = [reply EXCEPT ![c] = None]
  /\ UNCHANGED <<table_vars, inbox, lost, polls>>

(* write_envelope fails, or the client is gone or gave up before the line   *)
(* arrived: the connection closes and the reply with it.                    *)
Lose(c) ==
  /\ reply[c] # None
  /\ lost' = lost \cup reply[c].messages
  /\ reply' = [reply EXCEPT ![c] = None]
  /\ UNCHANGED <<table_vars, inbox, received, polls>>

ListAny(c) ==
  \E box \in Mailbox, unread_only \in BOOLEAN, limit \in Limit : List(c, box, unread_only, limit)

Next ==
  \/ Register
  \/ Deregister
  \/ Post
  \/ \E c \in Conn :
       \/ ListAny(c)
       \/ \E reader \in SessionId : Read(c, reader)
       \/ Deliver(c)
       \/ Lose(c)

-----------------------------------------------------------------------------
(* What may be relied on: an agent polls its unread messages again and      *)
(* again (SDD.md 2.3).  The code gives every client a connection of its     *)
(* own; the slots in Conn are the bound of the model, so a poll that waits  *)
(* for a slot gets one in the end (SF).  A reply arrives, unless it is lost.*)

PollStep(s) == \E c \in Conn, limit \in Limit : List(c, s, TRUE, limit)

Fairness ==
  /\ \A s \in SessionId : SF_vars(PollStep(s))
  /\ \A c \in Conn : WF_vars(Deliver(c) \/ Lose(c))

Spec == Init /\ [][Next]_vars /\ Fairness

=============================================================================
