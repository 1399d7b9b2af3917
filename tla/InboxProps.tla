------------------------------ MODULE InboxProps ------------------------------
(***************************************************************************)
(* What the inbox promises.                                                 *)
(***************************************************************************)
EXTENDS Inbox

(* Every variable has its type. *)
TypeOK ==
  /\ sessions \in [SessionId -> Session \cup {None}]
  /\ sessions_by_pid \in [Pid -> SessionId \cup {None}]
  /\ minted \subseteq SessionId
  /\ inbox \in [Mailbox -> Seq(InboxMessage)]
  /\ reply \in [Conn -> Reply \cup {None}]
  /\ received \in [Mailbox -> SUBSET (Mailbox \X Nat)]
  /\ lost \subseteq Mailbox \X Nat
  /\ polls \in [Mailbox -> Seq(SUBSET Nat)]

(* The unread_only lists of a mailbox, in the order in which the daemon     *)
(* served them and whoever asked, return each message at most once and the  *)
(* messages in the order of their posting: a message never overtakes one    *)
(* that was posted before it, whatever full lists, inbox.read calls and     *)
(* posts come in between (ARCHITECTURE.md 4.3).                             *)
PolledInOrder ==
  \A box \in Mailbox : \A m, n \in DOMAIN polls[box] : m < n =>
    \A i \in polls[box][m], j \in polls[box][n] : i < j

(* What an agent saw stays true: a message keeps its place and its sender,  *)
(* and once read is never unread again, also when sessions come and go.     *)
QueueOnlyGrows ==
  [][\A box \in Mailbox : \A i \in Posted(box) :
       /\ i \in DOMAIN inbox'[box]
       /\ inbox'[box][i].from_session = inbox[box][i].from_session
       /\ inbox[box][i].read => inbox'[box][i].read]_vars

(* The recipient polls on, and every message posted to a session reaches an *)
(* agent in the end or was in a reply that was lost: it never stays behind  *)
(* in the daemon, although each list may be cut off by its limit, new posts *)
(* keep coming, and others list the mailbox or read from it (SDD.md 2.3).   *)
NoMessageStaysBehind ==
  \A s \in SessionId : \A i \in 1..MaxPosts :
    i \in Posted(s) ~> <<s, i>> \in lost \cup UNION {received[r] : r \in Mailbox}

=============================================================================
