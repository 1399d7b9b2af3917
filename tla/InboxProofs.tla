----------------------------- MODULE InboxProofs -----------------------------
(***************************************************************************)
(* Proofs that polls of unread messages return each message once and in     *)
(* order, and that what an agent saw of a mailbox stays true, for any       *)
(* number of mailboxes, messages, connections and limits.                   *)
(*                                                                         *)
(* A poll takes the oldest unread messages and marks them under the same    *)
(* lock, so up to the last message polled everything is read.               *)
(***************************************************************************)
EXTENDS InboxProps, FiniteSetTheorems, TLAPS

(* Up to the last message that was polled, every message is read. *)
PolledIsRead ==
  \A box \in Mailbox : \A n \in DOMAIN polls[box] : \A i \in polls[box][n] :
    i \in Posted(box) /\ \A j \in 1..i : inbox[box][j].read

BoxInv == TypeOK /\ PolledIsRead /\ PolledInOrder

-----------------------------------------------------------------------------

USE SessionTableAssumption, InboxAssumption, ReplyAssumption

(* A list takes messages that match, and with one all older ones that match:*)
(* `take(limit)` on the queue.                                              *)
LEMMA TakesTheOldest ==
  ASSUME TypeOK, NEW box \in Mailbox, NEW unread_only \in BOOLEAN, NEW limit \in Limit,
         NEW i \in Taken(box, unread_only, limit)
  PROVE  /\ i \in Posted(box) /\ (unread_only => ~inbox[box][i].read)
         /\ \A j \in 1..i : (~unread_only \/ ~inbox[box][j].read)
                              => j \in Taken(box, unread_only, limit)
<1>. DEFINE matching == {k \in Posted(box) : ~unread_only \/ ~inbox[box][k].read}
            upto(k) == {l \in matching : l <= k}
<1>1. Posted(box) = 1..Len(inbox[box]) /\ Len(inbox[box]) \in Nat
  BY DEF Posted, TypeOK
<1>2. i \in matching /\ (limit = 0 \/ Cardinality(upto(i)) <= limit)
  BY DEF Taken
<1>3. ASSUME NEW j \in 1..i, ~unread_only \/ ~inbox[box][j].read
      PROVE  j \in Taken(box, unread_only, limit)
  <2>1. j \in matching
    BY <1>1, <1>2, <1>3
  <2>2. upto(j) \subseteq upto(i) /\ upto(i) \subseteq 1..i
    BY <1>1, <1>2
  <2>3. IsFiniteSet(1..i)
    BY <1>1, <1>2, FS_Interval
  <2>4. IsFiniteSet(upto(i)) /\ IsFiniteSet(upto(j))
    BY <2>2, <2>3, FS_Subset
  <2>5. /\ Cardinality(upto(j)) <= Cardinality(upto(i))
        /\ Cardinality(upto(j)) \in Nat /\ Cardinality(upto(i)) \in Nat
    BY <2>2, <2>4, FS_Subset, FS_CardinalityType
  <2>. HIDE DEF upto, matching
  <2>6. limit = 0 \/ Cardinality(upto(j)) <= limit
    BY <1>2, <2>5
  <2>. QED
    BY <2>1, <2>6 DEF Taken, upto, matching
<1>. QED
  BY <1>2, <1>3

(* Marking keeps the queue, its senders, and what is read. *)
LEMMA MarkKeeps ==
  ASSUME TypeOK, NEW box \in Mailbox, NEW positions \in SUBSET Nat, MarkRead(box, positions)
  PROVE  /\ inbox' \in [Mailbox -> Seq(InboxMessage)]
         /\ \A b \in Mailbox : DOMAIN inbox'[b] = DOMAIN inbox[b]
         /\ \A b \in Mailbox : \A i \in DOMAIN inbox[b] :
              /\ inbox'[b][i].from_session = inbox[b][i].from_session
              /\ inbox'[b][i].read <=> inbox[b][i].read \/ (b = box /\ i \in positions)
<1>. DEFINE old == inbox[box]
            new == [i \in DOMAIN old |->
                      IF i \in positions THEN [old[i] EXCEPT !.read = TRUE] ELSE old[i]]
<1>1. inbox' = [inbox EXCEPT ![box] = new]
  BY DEF MarkRead
<1>2. old \in Seq(InboxMessage)
  BY DEF TypeOK
<1>. HIDE DEF old
<1>3. \A i \in DOMAIN old : /\ new[i] \in InboxMessage
                            /\ new[i].from_session = old[i].from_session
                            /\ new[i].read <=> old[i].read \/ i \in positions
  <2>1. ASSUME NEW m \in InboxMessage
        PROVE  /\ [m EXCEPT !.read = TRUE] \in InboxMessage
               /\ [m EXCEPT !.read = TRUE].from_session = m.from_session
               /\ [m EXCEPT !.read = TRUE].read = TRUE
               /\ m.read \in BOOLEAN
    BY DEF InboxMessage
  <2>2. \A i \in DOMAIN old : old[i] \in InboxMessage
    BY <1>2
  <2>. QED
    BY <2>1, <2>2
<1>4. DOMAIN new = DOMAIN old /\ DOMAIN old = 1..Len(old) /\ Len(old) \in Nat
  BY <1>2
<1>. HIDE DEF new
<1>5. new \in Seq(InboxMessage)
  <2>1. new \in [1..Len(old) -> InboxMessage]
    BY <1>3, <1>4 DEF new
  <2>. QED
    BY <1>4, <2>1
<1>6. inbox' \in [Mailbox -> Seq(InboxMessage)] /\ inbox'[box] = new
      /\ \A b \in Mailbox : b # box => inbox'[b] = inbox[b]
  BY <1>1, <1>5 DEF TypeOK
<1>7. \A i \in DOMAIN old : inbox[box][i] = old[i]
  BY DEF old
<1>. QED
  BY <1>3, <1>4, <1>6, <1>7 DEF old

(* What a step of the mailboxes keeps. *)
Grows ==
  \A box \in Mailbox : \A i \in Posted(box) :
    /\ i \in DOMAIN inbox'[box]
    /\ inbox'[box][i].from_session = inbox[box][i].from_session
    /\ inbox[box][i].read => inbox'[box][i].read

(* Polls are as they were and messages stay: the invariant is kept. *)
LEMMA GrowingKeeps ==
  ASSUME PolledIsRead, PolledInOrder, TypeOK, Grows, UNCHANGED polls
  PROVE  PolledIsRead' /\ PolledInOrder'
<1>1. PolledInOrder'
  BY DEF PolledInOrder
<1>2. ASSUME NEW box \in Mailbox, NEW n \in DOMAIN polls[box], NEW i \in polls[box][n]
      PROVE  i \in DOMAIN inbox'[box] /\ \A j \in 1..i : inbox'[box][j].read
  <2>1. i \in Posted(box) /\ \A j \in 1..i : inbox[box][j].read
    BY DEF PolledIsRead
  <2>2. Posted(box) = 1..Len(inbox[box]) /\ Len(inbox[box]) \in Nat
    BY DEF Posted, TypeOK
  <2>3. \A j \in 1..i : j \in Posted(box)
    BY <2>1, <2>2
  <2>. QED
    BY <2>1, <2>3 DEF Grows
<1>. QED
  BY <1>1, <1>2 DEF PolledIsRead, Posted

(* Sessions come and go; mailboxes, replies and polls stay. *)
LEMMA SessionsKeep ==
  ASSUME TypeOK, Register \/ Deregister
  PROVE  TypeOK' /\ UNCHANGED <<inbox, polls>>
<1>1. UNCHANGED <<inbox, reply, received, lost, polls>>
  BY DEF Register, Deregister, inbox_vars
<1>2. CASE Register
  <2>1. PICK pid \in Pid, profile \in Profile : RegisterSession(pid, profile, 0)
    BY <1>2 DEF Register
  <2>2. CASE HasSession(pid) /\ ReuseSession(pid, 0)
    <3>1. sessions_by_pid[pid] \in SessionId /\ sessions[sessions_by_pid[pid]] \in Session
      BY <2>2 DEF HasSession, Registered, TypeOK
    <3>2. [sessions[sessions_by_pid[pid]] EXCEPT !.last_heartbeat = 0] \in Session
      BY <3>1 DEF Session
    <3>3. sessions' \in [SessionId -> Session \cup {None}]
      BY <2>2, <3>1, <3>2 DEF ReuseSession, TypeOK
    <3>. QED
      BY <1>1, <2>2, <3>3 DEF ReuseSession, TypeOK
  <2>3. CASE InsertNewSession(pid, profile, 0)
    <3>1. PICK id \in SessionId :
            /\ minted' = minted \cup {id}
            /\ sessions' = [sessions EXCEPT ![id] = [pid |-> pid, profile |-> profile,
                                                    started_at |-> 0, last_heartbeat |-> 0]]
            /\ sessions_by_pid' = [sessions_by_pid EXCEPT ![pid] = id]
      BY <2>3 DEF InsertNewSession
    <3>2. sessions' \in [SessionId -> Session \cup {None}]
      BY <3>1 DEF TypeOK, Session
    <3>. QED
      BY <1>1, <3>1, <3>2 DEF TypeOK
  <2>. QED
    BY <1>1, <2>1, <2>2, <2>3 DEF RegisterSession
<1>3. CASE Deregister
  BY <1>1, <1>3 DEF Deregister, DeregisterSession, TypeOK, table_vars
<1>. QED
  BY <1>1, <1>2, <1>3

(* A post appends. *)
LEMMA PostKeeps == ASSUME TypeOK, Post PROVE TypeOK' /\ Grows /\ UNCHANGED polls
<1>1. PICK from \in SessionId, to \in Mailbox :
        inbox' = [inbox EXCEPT ![to] = Append(@, [from_session |-> from, read |-> FALSE])]
  BY DEF Post
<1>2. UNCHANGED <<sessions, sessions_by_pid, minted, reply, received, lost, polls>>
  BY DEF Post, table_vars
<1>. DEFINE m == [from_session |-> from, read |-> FALSE]
<1>3. m \in InboxMessage
  BY DEF InboxMessage
<1>. HIDE DEF m
<1>4. inbox' = [inbox EXCEPT ![to] = Append(inbox[to], m)]
  BY <1>1 DEF m
<1>5. /\ Append(inbox[to], m) \in Seq(InboxMessage)
      /\ DOMAIN inbox[to] \subseteq DOMAIN Append(inbox[to], m)
      /\ \A i \in DOMAIN inbox[to] : Append(inbox[to], m)[i] = inbox[to][i]
  BY <1>3 DEF TypeOK
<1>6. TypeOK'
  BY <1>2, <1>4, <1>5 DEF TypeOK
<1>7. \A box \in Mailbox : \A i \in Posted(box) : i \in DOMAIN inbox'[box] /\ inbox'[box][i] = inbox[box][i]
  BY <1>4, <1>5 DEF TypeOK, Posted
<1>. QED
  BY <1>2, <1>6, <1>7 DEF Grows

(* Replies arrive, are lost, or carry one message that is asked for by id.  *)
LEMMA RepliesKeep ==
  ASSUME TypeOK, NEW c \in Conn, Deliver(c) \/ Lose(c)
  PROVE  TypeOK' /\ UNCHANGED <<inbox, polls>>
<1>1. reply[c] \in Reply /\ reply[c].reader \in Mailbox /\ reply[c].messages \subseteq Mailbox \X Nat
  <2>1. reply[c] \in Reply
    BY DEF Deliver, Lose, TypeOK
  <2>. QED
    BY <2>1 DEF Reply
<1>. DEFINE m == reply[c].messages
            r == reply[c].reader
<1>2. /\ reply' = [reply EXCEPT ![c] = None]
      /\ received' = [received EXCEPT ![r] = @ \cup m] \/ received' = received
      /\ lost' = lost \cup m \/ lost' = lost
      /\ UNCHANGED <<sessions, sessions_by_pid, minted, inbox, polls>>
  BY DEF Deliver, Lose, table_vars
<1>3. r \in Mailbox /\ m \subseteq Mailbox \X Nat
  BY <1>1
<1>. HIDE DEF m, r
<1>4. received' \in [Mailbox -> SUBSET (Mailbox \X Nat)]
  <2>1. received[r] \cup m \in SUBSET (Mailbox \X Nat)
    BY <1>3 DEF TypeOK
  <2>. QED
    BY <1>2, <1>3, <2>1 DEF TypeOK
<1>5. lost' \subseteq Mailbox \X Nat
  BY <1>2, <1>3 DEF TypeOK
<1>. QED
  BY <1>2, <1>4, <1>5 DEF TypeOK

(* The reply that goes out has its type.                                   *)
LEMMA AnswerKeeps ==
  ASSUME TypeOK, NEW c \in Conn, NEW reader \in Mailbox, NEW box \in Mailbox,
         NEW positions \in SUBSET Nat, Answer(c, reader, box, positions)
  PROVE  reply' \in [Conn -> Reply \cup {None}]
<1>1. [reader |-> reader, messages |-> {box} \X positions] \in Reply
  BY DEF Reply
<1>. QED
  BY <1>1 DEF Answer, TypeOK

(* A message read by id is marked where it is.                             *)
LEMMA ReadKeeps ==
  ASSUME TypeOK, NEW c \in Conn, NEW reader \in SessionId, Read(c, reader)
  PROVE  TypeOK' /\ Grows /\ UNCHANGED polls
<1>0. PICK box \in Mailbox : \E i \in Posted(box) : MarkRead(box, {i}) /\ Answer(c, reader, box, {i})
  BY DEF Read
<1>1. PICK i \in Posted(box) : MarkRead(box, {i}) /\ Answer(c, reader, box, {i})
  BY <1>0
<1>2. i \in Nat /\ reader \in Mailbox
  BY DEF Posted, TypeOK, Mailbox
<1>3. UNCHANGED <<sessions, sessions_by_pid, minted, received, lost, polls>>
  BY DEF Read, table_vars
<1>4. Grows /\ inbox' \in [Mailbox -> Seq(InboxMessage)]
  BY <1>1, <1>2, MarkKeeps DEF Grows, Posted
<1>5. reply' \in [Conn -> Reply \cup {None}]
  BY <1>1, <1>2, AnswerKeeps
<1>. QED
  BY <1>3, <1>4, <1>5 DEF TypeOK

(* A list polls on from where everything is read. *)
LEMMA ListKeeps ==
  ASSUME BoxInv, NEW c \in Conn, NEW box \in Mailbox, NEW unread_only \in BOOLEAN,
         NEW limit \in Limit, List(c, box, unread_only, limit)
  PROVE  BoxInv' /\ Grows
<1>. DEFINE taken == Taken(box, unread_only, limit)
<1>1. /\ MarkRead(box, taken) /\ Answer(c, box, box, taken)
      /\ polls' = [polls EXCEPT ![box] = IF unread_only /\ taken # {} THEN Append(@, taken) ELSE @]
      /\ UNCHANGED <<sessions, sessions_by_pid, minted, received, lost>>
  BY DEF List, table_vars
<1>2. TypeOK /\ PolledIsRead /\ PolledInOrder
  BY DEF BoxInv
<1>3. \A i \in taken :
        /\ i \in Posted(box) /\ (unread_only => ~inbox[box][i].read)
        /\ \A j \in 1..i : ~unread_only \/ ~inbox[box][j].read => j \in taken
  BY <1>2, TakesTheOldest
<1>. HIDE DEF taken
<1>4. taken \in SUBSET Nat
  BY <1>2, <1>3 DEF Posted, TypeOK
<1>5. /\ inbox' \in [Mailbox -> Seq(InboxMessage)]
      /\ \A b \in Mailbox : DOMAIN inbox'[b] = DOMAIN inbox[b]
      /\ \A b \in Mailbox : \A i \in DOMAIN inbox[b] :
           /\ inbox'[b][i].from_session = inbox[b][i].from_session
           /\ inbox'[b][i].read <=> inbox[b][i].read \/ (b = box /\ i \in taken)
  BY <1>1, <1>2, <1>4, MarkKeeps
<1>6. Grows
  BY <1>5 DEF Grows, Posted
<1>7. polls' \in [Mailbox -> Seq(SUBSET Nat)]
  <2>1. polls[box] \in Seq(SUBSET Nat)
    BY <1>2 DEF TypeOK
  <2>2. Append(polls[box], taken) \in Seq(SUBSET Nat)
    BY <1>4, <2>1
  <2>. QED
    BY <1>1, <1>2, <2>2 DEF TypeOK
<1>8. TypeOK'
  BY <1>1, <1>2, <1>4, <1>5, <1>7, AnswerKeeps DEF TypeOK
<1>9. CASE ~(unread_only /\ taken # {})
  <2>1. polls' = polls
    BY <1>1, <1>2, <1>9 DEF TypeOK
  <2>. QED
    BY <1>2, <1>6, <1>8, <2>1, GrowingKeeps DEF BoxInv
<1>10. CASE unread_only /\ taken # {}
  <2>. DEFINE last == Len(polls[box]) + 1
  <2>1. /\ \A b \in Mailbox : b # box => polls'[b] = polls[b]
        /\ DOMAIN polls[box] = 1..Len(polls[box]) /\ Len(polls[box]) \in Nat
        /\ DOMAIN polls'[box] = 1..last
        /\ \A n \in 1..Len(polls[box]) : polls'[box][n] = polls[box][n]
        /\ polls'[box][last] = taken
    BY <1>1, <1>2, <1>4, <1>10 DEF TypeOK
  <2>2. \A b \in Mailbox : DOMAIN inbox[b] = 1..Len(inbox[b]) /\ Len(inbox[b]) \in Nat
    BY <1>2 DEF TypeOK
  <2>3. ASSUME NEW b \in Mailbox, NEW n \in DOMAIN polls[b], NEW i \in polls[b][n]
        PROVE  i \in DOMAIN inbox'[b] /\ \A j \in 1..i : inbox'[b][j].read
    <3>1. i \in DOMAIN inbox[b] /\ \A j \in 1..i : j \in DOMAIN inbox[b] /\ inbox[b][j].read
      BY <1>2, <2>2 DEF PolledIsRead, Posted
    <3>. QED
      BY <1>5, <3>1
  <2>4. ASSUME NEW i \in taken
        PROVE  i \in DOMAIN inbox'[box] /\ \A j \in 1..i : inbox'[box][j].read
    <3>1. i \in DOMAIN inbox[box] /\ \A j \in 1..i : j \in DOMAIN inbox[box]
      BY <1>3, <2>2 DEF Posted
    <3>. QED
      BY <1>3, <1>5, <3>1
  <2>5. PolledIsRead'
    BY <2>1, <2>3, <2>4 DEF PolledIsRead, Posted
  <2>6. ASSUME NEW n \in DOMAIN polls[box], NEW i \in polls[box][n], NEW j \in taken
        PROVE  i < j
    <3>1. i \in Nat /\ j \in Nat /\ \A k \in 1..i : inbox[box][k].read
      BY <1>2, <1>4, <2>2 DEF PolledIsRead, Posted
    <3>2. ~inbox[box][j].read /\ j \in 1..Len(inbox[box])
      BY <1>3, <1>10, <2>2 DEF Posted
    <3>. QED
      BY <2>2, <3>1, <3>2
  <2>7. ASSUME NEW b \in Mailbox, NEW m \in DOMAIN polls'[b], NEW n \in DOMAIN polls'[b], m < n
        PROVE  \A i \in polls'[b][m], j \in polls'[b][n] : i < j
    <3>1. CASE b # box \/ n # last
      <4>1. /\ m \in DOMAIN polls[b] /\ n \in DOMAIN polls[b]
            /\ polls'[b][m] = polls[b][m] /\ polls'[b][n] = polls[b][n]
        BY <2>1, <2>7, <3>1
      <4>. QED
        BY <1>2, <2>7, <4>1 DEF PolledInOrder
    <3>2. CASE b = box /\ n = last
      <4>1. m \in DOMAIN polls[box] /\ polls'[b][m] = polls[box][m] /\ polls'[b][n] = taken
        BY <2>1, <2>7, <3>2
      <4>. QED
        BY <2>6, <4>1
    <3>. QED
      BY <3>1, <3>2
  <2>. QED
    BY <1>6, <1>8, <2>5, <2>7 DEF BoxInv, PolledInOrder
<1>. QED
  BY <1>9, <1>10

-----------------------------------------------------------------------------

(* Every step keeps the invariant and what was seen of the mailboxes. *)
LEMMA StepKeeps == ASSUME BoxInv, [Next]_vars PROVE BoxInv' /\ Grows
<1>1. TypeOK /\ PolledIsRead /\ PolledInOrder
  BY DEF BoxInv
<1>2. UNCHANGED inbox => Grows
  BY <1>1 DEF Grows, Posted
<1>3. ASSUME TypeOK', Grows, UNCHANGED polls PROVE BoxInv' /\ Grows
  BY <1>1, <1>3, GrowingKeeps DEF BoxInv
<1>4. CASE UNCHANGED vars
  <2>1. TypeOK' /\ UNCHANGED <<inbox, polls>>
    BY <1>1, <1>4 DEF vars, table_vars, inbox_vars, TypeOK
  <2>. QED
    BY <1>2, <1>3, <2>1
<1>5. ASSUME Register \/ Deregister PROVE BoxInv' /\ Grows
  BY <1>1, <1>2, <1>3, <1>5, SessionsKeep
<1>6. ASSUME Post PROVE BoxInv' /\ Grows
  BY <1>1, <1>3, <1>6, PostKeeps
<1>7. ASSUME NEW c \in Conn, ListAny(c) PROVE BoxInv' /\ Grows
  BY <1>7, ListKeeps DEF ListAny
<1>8. ASSUME NEW c \in Conn, NEW reader \in SessionId, Read(c, reader) PROVE BoxInv' /\ Grows
  BY <1>1, <1>3, <1>8, ReadKeeps
<1>9. ASSUME NEW c \in Conn, Deliver(c) \/ Lose(c) PROVE BoxInv' /\ Grows
  BY <1>1, <1>2, <1>3, <1>9, RepliesKeep
<1>. QED
  BY <1>4, <1>5, <1>6, <1>7, <1>8, <1>9 DEF Next

(* The strengthening is inductive. *)
THEOREM InboxInductive == Spec => []BoxInv
<1>1. Init => BoxInv
  <2>1. Init => TypeOK
    BY DEF Init, TableInit, TypeOK
  <2>2. Init => PolledIsRead /\ PolledInOrder
    BY DEF Init, PolledIsRead, PolledInOrder
  <2>. QED
    BY <2>1, <2>2 DEF BoxInv
<1>2. BoxInv /\ [Next]_vars => BoxInv'
  BY StepKeeps
<1>. QED
  BY <1>1, <1>2, PTL DEF Spec

(* Every variable keeps its type. *)
THEOREM InboxTypeCorrect == Spec => []TypeOK
<1>1. BoxInv => TypeOK
  BY DEF BoxInv
<1>. QED
  BY <1>1, InboxInductive, PTL

(* Polls of unread messages return each message at most once and in the     *)
(* order of posting, whatever other lists, reads and posts come in between. *)
THEOREM PollsAreInOrder == Spec => []PolledInOrder
<1>1. BoxInv => PolledInOrder
  BY DEF BoxInv
<1>. QED
  BY <1>1, InboxInductive, PTL

(* A message keeps its place and its sender, and stays read.                *)
THEOREM MailboxesOnlyGrow == Spec => QueueOnlyGrows
<1>1. BoxInv /\ [Next]_vars => [Grows]_vars
  BY StepKeeps
<1>2. Spec => [][Grows]_vars
  BY <1>1, InboxInductive, PTL DEF Spec
<1>. QED
  BY <1>2 DEF QueueOnlyGrows, Grows

-----------------------------------------------------------------------------
(* Where a message is once it was read.                                     *)

(* It is in a reply under way, with an agent, or in a reply that was lost.  *)
Left(message) ==
  \/ message \in lost
  \/ \E r \in Mailbox : message \in received[r]
  \/ \E c \in Conn : reply[c] # None /\ message \in reply[c].messages

ReadIsSent ==
  \A box \in Mailbox : \A i \in Nat :
    (i \in Posted(box) /\ inbox[box][i].read) <=> Left(<<box, i>>)

(* An answer sends what it carries, and what had left before stays so.      *)
LEMMA AnswerSends ==
  ASSUME TypeOK, NEW c \in Conn, NEW reader \in Mailbox, NEW box \in Mailbox,
         NEW positions \in SUBSET Nat, Answer(c, reader, box, positions),
         UNCHANGED <<received, lost>>,
         NEW b \in Mailbox, NEW i \in Nat
  PROVE  Left(<<b, i>>)' <=> Left(<<b, i>>) \/ (b = box /\ i \in positions)
<1>. DEFINE new == [reader |-> reader, messages |-> {box} \X positions]
<1>1. reply[c] = None /\ reply' = [reply EXCEPT ![c] = new]
  BY DEF Answer
<1>2. new \in Reply
  BY DEF Reply
<1>3. new.messages = {box} \X positions
  OBVIOUS
<1>. HIDE DEF new
<1>4. <<b, i>> \in new.messages <=> b = box /\ i \in positions
  BY <1>3
<1>5. \A d \in Conn : reply'[d] = IF d = c THEN new ELSE reply[d]
  BY <1>1 DEF TypeOK
<1>. QED
  BY <1>1, <1>2, <1>4, <1>5, ReplyAssumption DEF Left

(* A reply that arrives or is lost has left all the same. *)
LEMMA ReplyEndsLeft ==
  ASSUME TypeOK, NEW c \in Conn, Deliver(c) \/ Lose(c), NEW message
  PROVE  Left(message)' <=> Left(message)
<1>1. reply[c] \in Reply /\ reply[c] # None /\ reply[c].reader \in Mailbox
  <2>1. reply[c] \in Reply
    BY DEF Deliver, Lose, TypeOK
  <2>. QED
    BY <2>1 DEF Reply, Deliver, Lose
<1>2. \A d \in Conn : reply'[d] = IF d = c THEN None ELSE reply[d]
  BY DEF Deliver, Lose, TypeOK
<1>3. CASE Deliver(c)
  <2>1. /\ lost' = lost
        /\ \A r \in Mailbox : received'[r] = IF r = reply[c].reader
                                            THEN received[r] \cup reply[c].messages
                                            ELSE received[r]
    BY <1>3 DEF Deliver, TypeOK
  <2>. QED
    BY <1>1, <1>2, <2>1 DEF Left
<1>4. CASE Lose(c)
  BY <1>1, <1>2, <1>4 DEF Lose, Left
<1>. QED
  BY <1>3, <1>4

(* A step that marks what it answers with. *)
LEMMA MarkingSends ==
  ASSUME TypeOK, ReadIsSent, NEW c \in Conn, NEW reader \in Mailbox, NEW box \in Mailbox,
         NEW positions \in SUBSET Posted(box), MarkRead(box, positions),
         Answer(c, reader, box, positions), UNCHANGED <<received, lost>>
  PROVE  ReadIsSent'
<1>1. positions \in SUBSET Nat
  BY DEF Posted, TypeOK
<1>2. /\ \A b \in Mailbox : DOMAIN inbox'[b] = DOMAIN inbox[b]
      /\ \A b \in Mailbox : \A i \in DOMAIN inbox[b] :
           inbox'[b][i].read <=> inbox[b][i].read \/ (b = box /\ i \in positions)
  BY <1>1, MarkKeeps
<1>3. \A b \in Mailbox : \A i \in Nat :
        Left(<<b, i>>)' <=> Left(<<b, i>>) \/ (b = box /\ i \in positions)
  BY <1>1, AnswerSends
<1>. QED
  BY <1>2, <1>3 DEF ReadIsSent, Posted

(* Whatever is marked read left with a reply, and nothing else did: what    *)
(* the daemon no longer offers to a poll, it has handed out, to whoever     *)
(* asked (handle_inbox_list and handle_inbox_read mark what they return).   *)
(* The one way to lose a message is to lose the reply that carried it.      *)
THEOREM ReadMessagesWereSent == Spec => []ReadIsSent
<1>1. Init => ReadIsSent
  BY DEF Init, ReadIsSent, Left, Posted
<1>2. ASSUME BoxInv, ReadIsSent, [Next]_vars PROVE ReadIsSent'
  <2>1. TypeOK
    BY <1>2 DEF BoxInv
  <2>2. CASE \/ Register \/ Deregister \/ UNCHANGED vars
    BY <1>2, <2>2 DEF Register, Deregister, vars, inbox_vars, ReadIsSent, Left, Posted
  <2>3. CASE Post
    <3>1. PICK from \in SessionId, to \in Mailbox :
            inbox' = [inbox EXCEPT ![to] = Append(@, [from_session |-> from, read |-> FALSE])]
      BY <2>3 DEF Post
    <3>. DEFINE m == [from_session |-> from, read |-> FALSE]
    <3>2. m \in InboxMessage /\ ~m.read
      BY DEF InboxMessage
    <3>. HIDE DEF m
    <3>3. inbox' = [inbox EXCEPT ![to] = Append(inbox[to], m)]
      BY <3>1 DEF m
    <3>4. /\ DOMAIN Append(inbox[to], m) = DOMAIN inbox[to] \cup {Len(inbox[to]) + 1}
          /\ \A i \in DOMAIN inbox[to] : Append(inbox[to], m)[i] = inbox[to][i]
          /\ Append(inbox[to], m)[Len(inbox[to]) + 1] = m
          /\ Len(inbox[to]) + 1 \notin DOMAIN inbox[to]
      BY <2>1, <3>2 DEF TypeOK
    <3>5. \A box \in Mailbox : inbox'[box] = IF box = to THEN Append(inbox[to], m) ELSE inbox[box]
      BY <2>1, <3>3 DEF TypeOK
    <3>6. \A box \in Mailbox : \A i \in Nat :
            (i \in DOMAIN inbox'[box] /\ inbox'[box][i].read)
              <=> (i \in DOMAIN inbox[box] /\ inbox[box][i].read)
      BY <3>2, <3>4, <3>5
    <3>7. UNCHANGED <<reply, received, lost>>
      BY <2>3 DEF Post
    <3>. QED
      BY <1>2, <3>6, <3>7 DEF ReadIsSent, Left, Posted
  <2>4. ASSUME NEW c \in Conn, ListAny(c) PROVE ReadIsSent'
    <3>1. PICK box \in Mailbox, unread_only \in BOOLEAN, limit \in Limit :
            List(c, box, unread_only, limit)
      BY <2>4 DEF ListAny
    <3>2. Taken(box, unread_only, limit) \in SUBSET Posted(box)
      BY DEF Taken
    <3>. QED
      BY <1>2, <2>1, <3>1, <3>2, MarkingSends DEF List
  <2>5. ASSUME NEW c \in Conn, NEW reader \in SessionId, Read(c, reader) PROVE ReadIsSent'
    <3>1. PICK box \in Mailbox :
            \E i \in Posted(box) : MarkRead(box, {i}) /\ Answer(c, reader, box, {i})
      BY <2>5 DEF Read
    <3>2. PICK i \in Posted(box) : MarkRead(box, {i}) /\ Answer(c, reader, box, {i})
      BY <3>1
    <3>3. reader \in Mailbox /\ UNCHANGED <<received, lost>>
      BY <2>5 DEF Read, Mailbox
    <3>. QED
      BY <1>2, <2>1, <3>2, <3>3, MarkingSends
  <2>6. ASSUME NEW c \in Conn, Deliver(c) \/ Lose(c) PROVE ReadIsSent'
    <3>1. UNCHANGED inbox
      BY <2>6 DEF Deliver, Lose
    <3>2. \A m : Left(m)' <=> Left(m)
      BY <2>1, <2>6, ReplyEndsLeft
    <3>. QED
      BY <1>2, <3>1, <3>2 DEF ReadIsSent, Posted
  <2>. QED
    BY <1>2, <2>2, <2>3, <2>4, <2>5, <2>6 DEF Next
<1>3. BoxInv /\ ReadIsSent /\ [Next]_vars => ReadIsSent'
  BY <1>2
<1>. QED
  BY <1>1, <1>3, InboxInductive, PTL DEF Spec

-----------------------------------------------------------------------------
(* What each poll achieves.                                                 *)

(* The oldest unread message, when there is one. *)
IsOldestUnread(box, i) ==
  i \in Posted(box) /\ ~inbox[box][i].read /\ \A j \in 1..(i - 1) : inbox[box][j].read

(* A poll of unread messages sends at least the oldest of them.             *)
PollsAdvance ==
  [][\A c \in Conn, box \in Mailbox, limit \in Limit : List(c, box, TRUE, limit) =>
       \A i \in Nat : IsOldestUnread(box, i) =>
         <<box, i>> \in reply'[c].messages /\ inbox'[box][i].read]_vars

(* Whatever the limit, the oldest message that matches is within it. *)
LEMMA OldestIsTaken ==
  ASSUME TypeOK, NEW box \in Mailbox, NEW limit \in Limit, NEW i, IsOldestUnread(box, i)
  PROVE  i \in Taken(box, TRUE, limit)
<1>. DEFINE matching == {k \in Posted(box) : ~TRUE \/ ~inbox[box][k].read}
<1>1. Posted(box) = 1..Len(inbox[box]) /\ Len(inbox[box]) \in Nat
  BY DEF Posted, TypeOK
<1>2. i \in matching /\ {k \in matching : k <= i} = {i}
  BY <1>1 DEF IsOldestUnread
<1>3. Cardinality({k \in matching : k <= i}) = 1
  BY <1>2, FS_Singleton
<1>4. limit = 0 \/ 1 <= limit
  BY DEF InboxAssumption
<1>. HIDE DEF matching
<1>5. limit = 0 \/ Cardinality({k \in matching : k <= i}) <= limit
  BY <1>3, <1>4
<1>. QED
  BY <1>2, <1>5 DEF Taken, matching

(* Every poll advances: it takes and marks the oldest unread message, so no *)
(* limit makes a poll come back empty while something is unread, and none   *)
(* skips it (`take(limit)` in handle_inbox_list, over the queue's order).   *)
THEOREM EveryPollAdvances == Spec => PollsAdvance
<1>1. ASSUME TypeOK, NEW c \in Conn, NEW box \in Mailbox, NEW limit \in Limit,
             List(c, box, TRUE, limit), NEW i \in Nat, IsOldestUnread(box, i)
      PROVE  <<box, i>> \in reply'[c].messages /\ inbox'[box][i].read
  <2>. DEFINE taken == Taken(box, TRUE, limit)
  <2>1. i \in taken /\ i \in Posted(box)
    BY <1>1, OldestIsTaken DEF IsOldestUnread
  <2>2. taken \in SUBSET Nat
    BY <1>1 DEF Taken, Posted, TypeOK
  <2>3. MarkRead(box, taken) /\ Answer(c, box, box, taken)
    BY <1>1 DEF List
  <2>. HIDE DEF taken
  <2>4. inbox'[box][i].read
    BY <1>1, <2>1, <2>2, <2>3, MarkKeeps DEF Posted
  <2>5. reply'[c] = [reader |-> box, messages |-> {box} \X taken]
    BY <1>1, <2>3 DEF Answer, TypeOK
  <2>6. <<box, i>> \in {box} \X taken
    BY <2>1
  <2>. QED
    BY <2>4, <2>5, <2>6
<1>2. BoxInv /\ [Next]_vars =>
        [\A c \in Conn, box \in Mailbox, limit \in Limit : List(c, box, TRUE, limit) =>
           \A i \in Nat : IsOldestUnread(box, i) =>
             <<box, i>> \in reply'[c].messages /\ inbox'[box][i].read]_vars
  BY <1>1 DEF BoxInv
<1>. QED
  BY <1>2, InboxInductive, PTL DEF Spec, PollsAdvance

=============================================================================
