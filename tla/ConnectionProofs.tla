--------------------------- MODULE ConnectionProofs ---------------------------
(***************************************************************************)
(* Proofs that replies are not mixed up and requests not repeated, for any  *)
(* number of connections and calls.  All requests carry the id 1; what      *)
(* keeps them apart is that a handle with a stream has a clean wire: at     *)
(* most one request or reply is on a connection, and only the call that is  *)
(* reading has one on the open connection.                                  *)
(***************************************************************************)
EXTENDS Connection, TLAPS

Request == 1..MaxCalls
Sent(n, parses) == <<[call |-> n, parses |-> parses]>>
Busy(c) == task[c] \in {"dispatching", "replying"}

(* At most one request or reply is anywhere on a connection. *)
OneAtATime ==
  \A c \in Conn :
    /\ up[c] = <<>> \/ \E n \in Request, parses \in BOOLEAN : up[c] = Sent(n, parses)
    /\ down[c] = <<>> \/ \E n \in Request : down[c] = <<n>>
    /\ Busy(c) => up[c] = <<>> /\ down[c] = <<>> /\ request[c] \in Request
    /\ up[c] = <<>> \/ down[c] = <<>>

(* The handle holds the one connection whose agent side is open. *)
OneOpen ==
  \A c \in Conn :
    /\ agent_end[c] = "open" <=> stream = c
    /\ agent_end[c] = "unused" => up[c] = <<>> /\ down[c] = <<>> /\ task[c] = "backlog"

(* What is on the open connection belongs to the call that is reading. *)
CleanWire ==
  stream # None =>
    /\ phase # "reading" => up[stream] = <<>> /\ down[stream] = <<>> /\ ~Busy(stream)
    /\ up[stream] # <<>> => up[stream] = Sent(call, TRUE)
    /\ Busy(stream) => request[stream] = call
    /\ down[stream] # <<>> => down[stream] = <<call>>

(* Request n is on its way on c, or dispatched: it may still be executed. *)
Due(c, n) ==
  \/ up[c] # <<>> /\ Head(up[c]).call = n
  \/ task[c] = "dispatching" /\ request[c] = n
Executed == {executed[i] : i \in DOMAIN executed}
Past == {n \in Request : n <= call /\ (phase = "writing" => n # call)}

(* A request is due on one connection or executed, not both. *)
DueOnce ==
  /\ \A c \in Conn, n \in Request : Due(c, n) => n \in Past \ Executed
  /\ \A c, d \in Conn, n \in Request : Due(c, n) /\ Due(d, n) => c = d
  /\ Executed \subseteq Past
  /\ \A i, j \in DOMAIN executed : executed[i] = executed[j] => i = j

(* Nobody replies to what was not executed. *)
RepliesAreEarned ==
  /\ \A c \in Conn : task[c] = "replying" => request[c] \in Executed
  /\ \A c \in Conn, n \in Request : down[c] = <<n>> => n \in Executed
  /\ got # 0 => got \in Executed

CInv ==
  /\ TypeOK
  /\ phase # "idle" => call > 0
  /\ ReplyMatchesCall
  /\ OneAtATime /\ OneOpen /\ CleanWire /\ DueOnce /\ RepliesAreEarned

-----------------------------------------------------------------------------

USE ConnectionAssumption

(* A line is one request, whole or not. *)
LEMMA Lines ==
  /\ \A n \in Request, p \in BOOLEAN : Sent(n, p) \in Seq(Line) /\ Sent(n, p) # <<>>
  /\ \A n, m \in Request, p, q \in BOOLEAN : Sent(n, p) = Sent(m, q) => n = m /\ p = q
  /\ \A n \in Request, p \in BOOLEAN :
       /\ Head(Sent(n, p)).call = n /\ Head(Sent(n, p)).parses = p
       /\ Tail(Sent(n, p)) = <<>>
       /\ Append(<<>>, [call |-> n, parses |-> p]) = Sent(n, p)
<1>1. \A n \in Request, p \in BOOLEAN : [call |-> n, parses |-> p] \in Line
  BY DEF Line, Request
<1>2. \A x : Head(<<x>>) = x /\ Tail(<<x>>) = <<>> /\ Append(<<>>, x) = <<x>> /\ <<x>> # <<>>
  OBVIOUS
<1>3. \A x \in Line : <<x>> \in Seq(Line)
  OBVIOUS
<1>4. ASSUME NEW n \in Request, NEW m \in Request, NEW p \in BOOLEAN, NEW q \in BOOLEAN,
             Sent(n, p) = Sent(m, q)
      PROVE  n = m /\ p = q
  <2>1. [call |-> n, parses |-> p] = [call |-> m, parses |-> q]
    BY <1>2, <1>4 DEF Sent
  <2>. QED
    BY <2>1
<1>. QED
  BY <1>1, <1>2, <1>3, <1>4 DEF Sent

(* The actions of the client between its calls, and of the listener: the    *)
(* connections stay as they are.                                            *)
LEMMA ConnectKeeps == ASSUME CInv, NEW c \in Conn, Connect(c) PROVE CInv'
<1>1. TypeOK'
  BY DEF Connect, CInv, TypeOK, task_vars
<1>2. (phase # "idle" => call > 0)' /\ ReplyMatchesCall' /\ OneAtATime'
  BY DEF Connect, CInv, ReplyMatchesCall, OneAtATime, Busy, task_vars
<1>3. OneOpen'
  BY DEF Connect, CInv, TypeOK, OneOpen, task_vars
<1>4. CleanWire'
  BY DEF Connect, CInv, TypeOK, OneOpen, CleanWire, Busy, task_vars
<1>5. DueOnce' /\ RepliesAreEarned'
  BY DEF Connect, CInv, DueOnce, RepliesAreEarned, Due, Executed, Past, task_vars
<1>. QED
  BY <1>1, <1>2, <1>3, <1>4, <1>5 DEF CInv

LEMMA StartCallKeeps == ASSUME CInv, StartCall PROVE CInv'
<1>1. TypeOK'
  BY DEF StartCall, CInv, TypeOK, task_vars
<1>2. (phase # "idle" => call > 0)' /\ ReplyMatchesCall' /\ OneAtATime' /\ OneOpen'
  BY DEF StartCall, CInv, TypeOK, ReplyMatchesCall, OneAtATime, OneOpen, Busy, task_vars
<1>3. CleanWire'
  BY DEF StartCall, CInv, CleanWire, Busy, task_vars
<1>4. Past \subseteq Past'
  BY DEF StartCall, CInv, TypeOK, Past, Request
<1>5. DueOnce'
  <2>1. Executed' = Executed
    BY DEF StartCall, Executed, task_vars
  <2>. QED
    BY <1>4, <2>1 DEF StartCall, CInv, DueOnce, Due, task_vars
<1>6. RepliesAreEarned'
  BY DEF StartCall, CInv, RepliesAreEarned, Executed, task_vars
<1>. QED
  BY <1>1, <1>2, <1>3, <1>5, <1>6 DEF CInv

(* A connection that is dropped keeps what is on it, with at most one more  *)
(* line, of a call that is over.                                            *)
LEMMA DropStreamKeeps ==
  ASSUME CInv, DropStream, stream # None,
         \/ UNCHANGED up
         \/ /\ phase = "writing"
            /\ \E p \in BOOLEAN :
                 up' = [up EXCEPT ![stream] = Append(@, [call |-> call, parses |-> p])]
  PROVE  CInv'
<1>0. stream \in Conn
  BY DEF CInv, TypeOK
<1>. USE DEF task_vars
<1>1. CASE UNCHANGED up
  <2>1. TypeOK'
    BY <1>0, <1>1 DEF DropStream, CInv, TypeOK
  <2>2. (phase # "idle" => call > 0)' /\ ReplyMatchesCall' /\ OneAtATime'
    BY <1>1 DEF DropStream, CInv, ReplyMatchesCall, OneAtATime, Busy
  <2>3. OneOpen' /\ CleanWire'
    BY <1>0, <1>1 DEF DropStream, CInv, TypeOK, OneOpen, CleanWire
  <2>4. DueOnce' /\ RepliesAreEarned'
    BY <1>1 DEF DropStream, CInv, DueOnce, RepliesAreEarned, Due, Executed, Past
  <2>. QED
    BY <2>1, <2>2, <2>3, <2>4 DEF CInv
<1>2. ASSUME phase = "writing", NEW p \in BOOLEAN,
             up' = [up EXCEPT ![stream] = Append(@, [call |-> call, parses |-> p])]
      PROVE  CInv'
  <2>1. call \in Request /\ up[stream] = <<>> /\ down[stream] = <<>> /\ ~Busy(stream)
    BY <1>2 DEF CInv, TypeOK, CleanWire, Request
  <2>2. up' = [up EXCEPT ![stream] = Sent(call, p)]
    BY <1>2, <2>1, Lines
  <2>3. TypeOK'
    BY <1>0, <2>1, <2>2, Lines DEF DropStream, CInv, TypeOK
  <2>4. (phase # "idle" => call > 0)' /\ ReplyMatchesCall' /\ OneAtATime'
    BY <1>0, <2>1, <2>2 DEF DropStream, CInv, TypeOK, ReplyMatchesCall, OneAtATime, Busy
  <2>5. OneOpen' /\ CleanWire'
    BY <1>0, <2>1, <2>2 DEF DropStream, CInv, TypeOK, OneOpen, CleanWire
  <2>6. \A d \in Conn, n \in Request :
          Due(d, n)' <=> IF d = stream THEN n = call ELSE Due(d, n)
    BY <1>0, <2>1, <2>2, Lines DEF DropStream, Due, Busy, CInv, TypeOK
  <2>7. DueOnce'
    <3>1. Past' = Past \cup {call} /\ call \notin Past
      BY <1>2, <2>1 DEF Past, DropStream, CInv, TypeOK, Request
    <3>2. Executed' = Executed /\ executed' = executed
      BY DEF Executed, DropStream
    <3>. QED
      BY <1>0, <2>6, <3>1, <3>2 DEF CInv, DueOnce
  <2>8. RepliesAreEarned'
    BY DEF DropStream, CInv, RepliesAreEarned, Executed
  <2>. QED
    BY <2>3, <2>4, <2>5, <2>7, <2>8 DEF CInv
<1>. QED
  BY <1>1, <1>2

(* The line of the call goes out: it was on no wire before. *)
LEMMA WriteRequestKeeps == ASSUME CInv, WriteRequest PROVE CInv'
<1>. USE DEF task_vars
<1>1. /\ stream \in Conn /\ call \in Request
      /\ up[stream] = <<>> /\ down[stream] = <<>> /\ ~Busy(stream)
  BY DEF WriteRequest, CInv, TypeOK, CleanWire, Request
<1>2. up' = [up EXCEPT ![stream] = Sent(call, TRUE)]
  BY <1>1, Lines DEF WriteRequest
<1>3. TypeOK'
  BY <1>1, <1>2, Lines DEF WriteRequest, CInv, TypeOK
<1>4. (phase # "idle" => call > 0)' /\ ReplyMatchesCall' /\ OneAtATime'
  BY <1>1, <1>2 DEF WriteRequest, CInv, TypeOK, ReplyMatchesCall, OneAtATime, Busy, Request
<1>5. OneOpen' /\ CleanWire'
  BY <1>1, <1>2 DEF WriteRequest, CInv, TypeOK, OneOpen, CleanWire, Busy
<1>6. \A d \in Conn, n \in Request :
        Due(d, n)' <=> IF d = stream THEN n = call ELSE Due(d, n)
  BY <1>1, <1>2, Lines DEF WriteRequest, Due, Busy, CInv, TypeOK
<1>7. DueOnce'
  <2>1. Past' = Past \cup {call} /\ call \notin Past
    BY <1>1 DEF Past, WriteRequest, CInv, TypeOK, Request
  <2>2. Executed' = Executed /\ executed' = executed
    BY DEF Executed, WriteRequest
  <2>. QED
    BY <1>1, <1>6, <2>1, <2>2 DEF CInv, DueOnce
<1>8. RepliesAreEarned'
  BY DEF WriteRequest, CInv, RepliesAreEarned, Executed
<1>. QED
  BY <1>3, <1>4, <1>5, <1>7, <1>8 DEF CInv

(* The reply on the open connection is the one to the call that reads. *)
LEMMA ReadReplyKeeps == ASSUME CInv, ReadReply PROVE CInv'
<1>. USE DEF task_vars
<1>1. /\ stream \in Conn /\ call \in Request
      /\ up[stream] = <<>> /\ down[stream] = <<call>> /\ ~Busy(stream)
  BY DEF ReadReply, CInv, TypeOK, OneAtATime, CleanWire, Request
<1>2. Head(<<call>>) = call
  OBVIOUS
<1>3. got' = call /\ answered' = call
  BY <1>1, <1>2 DEF ReadReply
<1>4. TypeOK'
  BY <1>1, <1>3 DEF ReadReply, CInv, TypeOK, Request
<1>5. (phase # "idle" => call > 0)' /\ ReplyMatchesCall' /\ OneAtATime'
  BY <1>1, <1>3 DEF ReadReply, CInv, TypeOK, ReplyMatchesCall, OneAtATime, Busy
<1>6. OneOpen' /\ CleanWire'
  BY <1>1 DEF ReadReply, CInv, TypeOK, OneOpen, CleanWire, Busy
<1>7. Past' = Past /\ Executed' = Executed
  BY DEF Past, Executed, ReadReply
<1>8. DueOnce'
  BY <1>7 DEF ReadReply, CInv, DueOnce, Due
<1>9. RepliesAreEarned'
  <2>1. \A c \in Conn, n \in Request : down'[c] = <<n>> => down[c] = <<n>>
    BY <1>1 DEF ReadReply, CInv, TypeOK
  <2>2. call \in Executed
    BY <1>1 DEF CInv, RepliesAreEarned
  <2>. QED
    BY <1>3, <1>7, <2>1, <2>2 DEF ReadReply, CInv, RepliesAreEarned
<1>. QED
  BY <1>4, <1>5, <1>6, <1>8, <1>9 DEF CInv

(* Tasks that are accepted, stop or are aborted, and all that the listener  *)
(* and the process do to them: no task takes up or passes on a request.     *)
LEMMA TasksStopKeeps ==
  ASSUME CInv,
         UNCHANGED <<client_vars, agent_end, up, down, executed>>,
         task' \in [Conn -> TaskState],
         request' \in [Conn -> (1..MaxCalls) \cup {None}],
         listener' \in {"accepting", "closed", "aborted", "returned", "exited"},
         \A c \in Conn : agent_end[c] = "unused" => task'[c] = task[c],
         \A c \in Conn : task'[c] \in {"dispatching", "replying"} =>
                           task'[c] = task[c] /\ request'[c] = request[c]
  PROVE  CInv'
<1>. USE DEF client_vars
<1>1. TypeOK'
  BY DEF CInv, TypeOK
<1>2. (phase # "idle" => call > 0)' /\ ReplyMatchesCall' /\ OneAtATime'
  BY DEF CInv, ReplyMatchesCall, OneAtATime, Busy
<1>3. OneOpen' /\ CleanWire'
  BY DEF CInv, TypeOK, OneOpen, CleanWire, Busy
<1>4. Past' = Past /\ Executed' = Executed
  BY DEF Past, Executed
<1>5. DueOnce' /\ RepliesAreEarned'
  BY <1>4 DEF CInv, DueOnce, Due, RepliesAreEarned
<1>. QED
  BY <1>1, <1>2, <1>3, <1>5 DEF CInv

(* A task takes the one line there is off the wire: the request stays due. *)
LEMMA ReadRequestKeeps == ASSUME CInv, NEW c \in Conn, ReadRequest(c) PROVE CInv'
<1>. USE DEF task_vars, client_vars, TaskGoes
<1>1. /\ up[c] = Sent(Head(up[c]).call, TRUE) /\ Head(up[c]).call \in Request
      /\ down[c] = <<>> /\ Tail(up[c]) = <<>>
      /\ task[c] = "reading" /\ agent_end[c] # "unused"
  <2>1. PICK n \in Request, p \in BOOLEAN : up[c] = Sent(n, p)
    BY DEF ReadRequest, CInv, OneAtATime
  <2>2. Head(up[c]).call = n /\ Head(up[c]).parses = p /\ Tail(up[c]) = <<>> /\ up[c] # <<>>
    BY <2>1, Lines
  <2>3. p = TRUE
    BY <2>2 DEF ReadRequest
  <2>4. down[c] = <<>> /\ task[c] = "reading" /\ agent_end[c] # "unused"
    BY <2>2 DEF ReadRequest, CInv, OneAtATime, OneOpen
  <2>. QED
    BY <2>1, <2>2, <2>3, <2>4
<1>. DEFINE n == Head(up[c]).call
<1>2. /\ up' = [up EXCEPT ![c] = <<>>]
      /\ task' = [task EXCEPT ![c] = "dispatching"]
      /\ request' = [request EXCEPT ![c] = n]
      /\ UNCHANGED <<stream, call, phase, got, answered, agent_end, down, executed, listener>>
  BY <1>1 DEF ReadRequest
<1>3. n \in Request /\ up[c] = Sent(n, TRUE) /\ up[c] # <<>> /\ Head(up[c]).call = n
  BY <1>1, Lines
<1>. HIDE DEF n
<1>4. TypeOK'
  BY <1>2, <1>3 DEF CInv, TypeOK, TaskState, Request
<1>5. (phase # "idle" => call > 0)' /\ ReplyMatchesCall' /\ OneAtATime'
  BY <1>1, <1>2, <1>3 DEF CInv, TypeOK, ReplyMatchesCall, OneAtATime, Busy
<1>6. OneOpen'
  BY <1>1, <1>2 DEF CInv, TypeOK, OneOpen
<1>7. CleanWire'
  <2>1. ASSUME c = stream
        PROVE  phase = "reading" /\ n = call
    <3>1. stream # None /\ up[c] # <<>>
      BY <1>3, <2>1
    <3>2. phase = "reading" /\ up[c] = Sent(call, TRUE)
      BY <2>1, <3>1 DEF CInv, CleanWire
    <3>3. call \in Request
      BY <3>2 DEF CInv, TypeOK, Request
    <3>4. Head(Sent(call, TRUE)).call = call
      BY <3>3, Lines
    <3>. QED
      BY <1>3, <3>2, <3>4
  <2>. QED
    BY <1>1, <1>2, <2>1 DEF CInv, TypeOK, CleanWire, Busy
<1>8. \A d \in Conn, m \in Request : Due(d, m)' <=> Due(d, m)
  <2>1. \A d \in Conn \ {c} : up'[d] = up[d] /\ task'[d] = task[d] /\ request'[d] = request[d]
    BY <1>2 DEF CInv, TypeOK
  <2>2. up'[c] = <<>> /\ task'[c] = "dispatching" /\ request'[c] = n
    BY <1>2 DEF CInv, TypeOK
  <2>. QED
    BY <1>1, <1>3, <2>1, <2>2 DEF Due
<1>9. Past' = Past /\ Executed' = Executed
  BY <1>2 DEF Past, Executed
<1>10. DueOnce'
  BY <1>2, <1>8, <1>9 DEF CInv, DueOnce
<1>11. RepliesAreEarned'
  BY <1>2, <1>9 DEF CInv, TypeOK, RepliesAreEarned
<1>. QED
  BY <1>4, <1>5, <1>6, <1>7, <1>10, <1>11 DEF CInv

(* The request that is executed was due here only, and is due no more. *)
LEMMA ExecuteKeeps == ASSUME CInv, NEW c \in Conn, Execute(c) PROVE CInv'
<1>. USE DEF task_vars, client_vars, TaskGoes
<1>1. /\ task[c] = "dispatching" /\ up[c] = <<>> /\ down[c] = <<>>
      /\ request[c] \in Request /\ Due(c, request[c]) /\ agent_end[c] # "unused"
  BY DEF Execute, CInv, OneAtATime, OneOpen, Busy, Due
<1>2. /\ task' = [task EXCEPT ![c] = "replying"]
      /\ executed' = Append(executed, request[c])
      /\ UNCHANGED <<stream, call, phase, got, answered, agent_end, up, down, request, listener>>
  BY DEF Execute
<1>3. executed \in Seq(Request) /\ task \in [Conn -> TaskState]
  BY DEF CInv, TypeOK, Request
<1>4. /\ executed' \in Seq(Request)
      /\ DOMAIN executed' = 1..Len(executed) + 1
      /\ \A i \in DOMAIN executed : executed'[i] = executed[i]
      /\ executed'[Len(executed) + 1] = request[c]
      /\ DOMAIN executed = 1..Len(executed) /\ Len(executed) \in Nat
  BY <1>1, <1>2, <1>3
<1>5. Executed' = Executed \cup {request[c]}
  <2>1. \A i \in DOMAIN executed' : i \in DOMAIN executed \/ i = Len(executed) + 1
    BY <1>4
  <2>2. DOMAIN executed \subseteq DOMAIN executed' /\ Len(executed) + 1 \in DOMAIN executed'
    BY <1>4
  <2>. QED
    BY <1>4, <2>1, <2>2 DEF Executed
<1>6. request[c] \in Past \ Executed
  BY <1>1 DEF CInv, DueOnce
<1>7. TypeOK'
  BY <1>2, <1>3, <1>4 DEF CInv, TypeOK, TaskState, Request
<1>8. (phase # "idle" => call > 0)' /\ ReplyMatchesCall' /\ OneAtATime'
  BY <1>1, <1>2 DEF CInv, TypeOK, ReplyMatchesCall, OneAtATime, Busy
<1>9. OneOpen' /\ CleanWire'
  BY <1>1, <1>2 DEF CInv, TypeOK, OneOpen, CleanWire, Busy
<1>10. DueOnce'
  <2>1. Past' = Past
    BY <1>2 DEF Past
  <2>2. \A d \in Conn, m \in Request : Due(d, m)' => Due(d, m) /\ d # c
    BY <1>1, <1>2, <1>3 DEF Due
  <2>3. \A d \in Conn, m \in Request : Due(d, m)' => m # request[c]
    BY <1>1, <2>2 DEF CInv, DueOnce
  <2>4. ASSUME NEW i \in DOMAIN executed', NEW j \in DOMAIN executed', executed'[i] = executed'[j]
        PROVE  i = j
    <3>1. \A k \in DOMAIN executed : executed'[k] # request[c]
      BY <1>4, <1>6 DEF Executed
    <3>2. \A k \in DOMAIN executed' : k \in DOMAIN executed \/ k = Len(executed) + 1
      BY <1>4
    <3>. QED
      BY <1>4, <2>4, <3>1, <3>2 DEF CInv, DueOnce
  <2>. QED
    BY <1>5, <1>6, <2>1, <2>2, <2>3, <2>4 DEF CInv, DueOnce
<1>11. RepliesAreEarned'
  BY <1>2, <1>3, <1>5 DEF CInv, RepliesAreEarned
<1>. QED
  BY <1>7, <1>8, <1>9, <1>10, <1>11 DEF CInv

(* The reply goes to the wire, or the agent is gone and the task ends. *)
LEMMA ReplyKeeps == ASSUME CInv, NEW c \in Conn, Reply(c) PROVE CInv'
<1>. USE DEF task_vars, client_vars, TaskGoes
<1>1. /\ task[c] = "replying" /\ up[c] = <<>> /\ down[c] = <<>>
      /\ request[c] \in Request /\ request[c] \in Executed
  BY DEF Reply, CInv, OneAtATime, Busy, RepliesAreEarned
<1>2. CASE agent_end[c] = "closed"
  <2>1. /\ task' = [task EXCEPT ![c] = "done"] /\ request' = [request EXCEPT ![c] = None]
        /\ UNCHANGED <<client_vars, agent_end, up, down, executed, listener>>
    BY <1>2 DEF Reply
  <2>. QED
    BY <1>2, <2>1, TasksStopKeeps DEF CInv, TypeOK, TaskState
<1>3. CASE agent_end[c] = "open"
  <2>1. Append(<<>>, request[c]) = <<request[c]>> /\ <<request[c]>> # <<>>
        /\ <<request[c]>> \in Seq(1..MaxCalls)
    BY <1>1 DEF Request
  <2>2. /\ task' = [task EXCEPT ![c] = "reading"] /\ request' = [request EXCEPT ![c] = None]
        /\ down' = [down EXCEPT ![c] = <<request[c]>>]
        /\ UNCHANGED <<stream, call, phase, got, answered, agent_end, up, executed, listener>>
    BY <1>1, <1>3, <2>1 DEF Reply
  <2>3. stream = c /\ request[c] = call /\ phase = "reading"
    BY <1>1, <1>3 DEF CInv, TypeOK, OneOpen, CleanWire, Busy
  <2>4. TypeOK'
    BY <2>1, <2>2 DEF CInv, TypeOK, TaskState
  <2>5. (phase # "idle" => call > 0)' /\ ReplyMatchesCall' /\ OneAtATime'
    BY <1>1, <2>2 DEF CInv, TypeOK, ReplyMatchesCall, OneAtATime, Busy
  <2>6. OneOpen' /\ CleanWire'
    BY <1>1, <1>3, <2>2, <2>3 DEF CInv, TypeOK, OneOpen, CleanWire, Busy
  <2>7. Past' = Past /\ Executed' = Executed
    BY <2>2 DEF Past, Executed
  <2>8. DueOnce'
    BY <1>1, <2>2, <2>7 DEF CInv, TypeOK, DueOnce, Due
  <2>9. RepliesAreEarned'
    <3>1. \A d \in Conn, n \in Request : down'[d] = <<n>> => down[d] = <<n>> \/ n = request[c]
      BY <2>2 DEF CInv, TypeOK
    <3>. QED
      BY <1>1, <2>2, <2>7, <3>1 DEF CInv, TypeOK, RepliesAreEarned
  <2>. QED
    BY <2>4, <2>5, <2>6, <2>8, <2>9 DEF CInv
<1>. QED
  BY <1>2, <1>3 DEF Reply

-----------------------------------------------------------------------------

(* Every step keeps the invariant. *)
LEMMA Steps == ASSUME CInv, [Next]_vars PROVE CInv'
<1>. USE DEF TaskState
<1>1. ASSUME NEW c \in Conn, Accept(c) \/ ReadFragment(c) \/ StopReading(c) PROVE CInv'
  BY <1>1, TasksStopKeeps
  DEF Accept, ReadFragment, StopReading, TaskGoes, CInv, TypeOK, OneOpen
<1>2. ASSUME NEW c \in Conn, TaskAborted(c) PROVE CInv'
  BY <1>2, TasksStopKeeps DEF TaskAborted, TaskGoes, CInv, TypeOK, OneOpen
<1>3. ASSUME CloseListener \/ ListenerStep \/ CrashProcess PROVE CInv'
  BY <1>3, TasksStopKeeps
  DEF CloseListener, ListenerStep, AbortTasks, ReturnFromRun, ExitProcess, CrashProcess,
      ListenerGoes, TasksEnd, client_vars, CInv, TypeOK
<1>4. ASSUME SeeClosed \/ CancelCall \/ CloseHandle PROVE CInv'
  BY <1>4, DropStreamKeeps DEF SeeClosed, CancelCall, CloseHandle, CInv, TypeOK
<1>5. CASE UNCHANGED vars
  BY <1>5, TasksStopKeeps DEF vars, task_vars, CInv, TypeOK
<1>. QED
  BY <1>1, <1>2, <1>3, <1>4, <1>5, ConnectKeeps, StartCallKeeps, WriteRequestKeeps,
     ReadReplyKeeps, ReadRequestKeeps, ExecuteKeeps, ReplyKeeps
  DEF Next, ClientStep, TaskStep

(* Nothing is on any wire at first. *)
LEMMA InitHolds == Init => CInv
<1>1. Init => TypeOK
  BY DEF Init, TypeOK, TaskState
<1>2. Init => Executed = {}
  BY DEF Init, Executed
<1>. QED
  BY <1>1, <1>2 DEF Init, CInv, ReplyMatchesCall, OneAtATime, OneOpen, CleanWire,
                    DueOnce, RepliesAreEarned, Due, Busy

(* The strengthening is inductive: nothing is on any wire at first. *)
THEOREM ConnectionInductive == Spec => []CInv
<1>1. Init => CInv
  BY InitHolds
<1>2. CInv /\ [Next]_vars => CInv'
  BY Steps
<1>. QED
  BY <1>1, <1>2, PTL DEF Spec

(* Every variable keeps its type. *)
THEOREM ConnectionTypeCorrect == Spec => []TypeOK
<1>1. CInv => TypeOK
  BY DEF CInv
<1>. QED
  BY <1>1, ConnectionInductive, PTL

(* A call returns the reply to its own request, though all requests carry   *)
(* the id 1, for any number of calls, connections and cancellations.        *)
THEOREM RepliesAreNotMixedUp == Spec => []ReplyMatchesCall
<1>1. CInv => ReplyMatchesCall
  BY DEF CInv
<1>. QED
  BY <1>1, ConnectionInductive, PTL

(* No request is executed twice, and one whose reply was returned was       *)
(* executed.                                                                *)
AtMostOnce ==
  /\ \A i, j \in DOMAIN executed : executed[i] = executed[j] => i = j
  /\ got # 0 => \E i \in DOMAIN executed : executed[i] = got

(* No request is executed twice, and a reply means that it was executed,    *)
(* whatever fails, is cancelled or is retried on a new connection.          *)
THEOREM RequestsAreNotRepeated == Spec => []AtMostOnce
<1>1. CInv => AtMostOnce
  BY DEF CInv, DueOnce, RepliesAreEarned, Executed, AtMostOnce
<1>. QED
  BY <1>1, ConnectionInductive, PTL

-----------------------------------------------------------------------------

(* The steps of the agent: each begins or ends the call that is under way.  *)
LEMMA AgentImplements ==
  ASSUME CInv, StartCall \/ ReadReply \/ SeeClosed \/ CancelCall
  PROVE  Calls!Begin \/ Calls!Return \/ Calls!Fail
<1>. USE DEF task_vars
<1>1. CASE StartCall
  BY <1>1 DEF StartCall, Calls!Begin
<1>2. CASE ReadReply
  <2>1. down[stream] = <<call>> /\ call \in Request /\ stream \in Conn
    BY <1>2 DEF ReadReply, CInv, TypeOK, CleanWire, Request
  <2>2. Head(<<call>>) = call
    OBVIOUS
  <2>3. call \in Executed
    BY <2>1 DEF CInv, RepliesAreEarned
  <2>. QED
    BY <1>2, <2>1, <2>2, <2>3 DEF ReadReply, Executed, Calls!Return, Calls!WasExecuted
<1>3. CASE SeeClosed \/ CancelCall
  BY <1>3 DEF SeeClosed, CancelCall, DropStream, Calls!Fail
<1>. QED
  BY <1>1, <1>2, <1>3

(* The step of a task that runs a handler. *)
LEMMA ExecuteImplements ==
  ASSUME CInv, NEW c \in Conn, Execute(c)
  PROVE  \E n \in 1..call : Calls!Execute(n)
<1>1. request[c] \in Request /\ Due(c, request[c])
  BY DEF Execute, TaskGoes, CInv, OneAtATime, Busy, Due
<1>2. request[c] \in Past \ Executed
  BY <1>1 DEF CInv, DueOnce
<1>3. request[c] \in 1..call
  BY <1>2 DEF Past, Request, CInv, TypeOK
<1>4. Calls!Execute(request[c])
  BY <1>2 DEF Execute, TaskGoes, client_vars, Executed, Calls!Execute, Calls!WasExecuted
<1>. QED
  BY <1>3, <1>4

(* One step of agent, task, listener or process, seen from the agent.       *)
LEMMA StepImplements == ASSUME CInv, [Next]_vars PROVE [Calls!Next]_Calls!vars
<1>. USE DEF task_vars, client_vars, TaskGoes, ListenerGoes, Calls!vars
<1>1. CASE StartCall \/ ReadReply \/ SeeClosed \/ CancelCall
  BY <1>1, AgentImplements DEF Calls!Next
<1>2. ASSUME NEW c \in Conn, Execute(c) PROVE Calls!Next
  BY <1>2, ExecuteImplements DEF Calls!Next
<1>3. ASSUME NEW c \in Conn,
             Connect(c) \/ Accept(c) \/ ReadRequest(c) \/ ReadFragment(c) \/ StopReading(c)
               \/ Reply(c) \/ TaskAborted(c)
      PROVE  UNCHANGED Calls!vars
  BY <1>3 DEF Connect, Accept, ReadRequest, ReadFragment, StopReading, Reply, TaskAborted
<1>4. CASE WriteRequest \/ CloseHandle \/ UNCHANGED vars
  BY <1>4 DEF WriteRequest, CloseHandle, DropStream, vars
<1>5. CASE CloseListener \/ ListenerStep \/ CrashProcess
  BY <1>5 DEF CloseListener, ListenerStep, AbortTasks, ReturnFromRun, ExitProcess, CrashProcess
<1>. QED
  BY <1>1, <1>2, <1>3, <1>4, <1>5 DEF Next, TaskStep, ClientStep

(* Client, connection tasks and shutdown implement calls that are executed  *)
(* at most once and return their own replies (Client::call, lib.rs; the     *)
(* loop of handle_connection, listener.rs).                                 *)
THEOREM ImplementsAtMostOnceCalls == Spec => CallsRunAtMostOnce
<1>1. Init => Calls!Init
  BY DEF Init, Calls!Init
<1>2. CInv /\ [Next]_vars => [Calls!Next]_Calls!vars
  BY StepImplements
<1>. QED
  BY <1>1, <1>2, ConnectionInductive, PTL DEF Spec, CallsRunAtMostOnce, Calls!Spec

-----------------------------------------------------------------------------
(* That calls end is liveness, and left to model checking.  What it needs   *)
(* of every state is proved: no call waits for what nobody will do.         *)

(* A connection the agent opened and no task serves is still accepted.      *)
BacklogIsAccepted ==
  \A c \in Conn :
    task[c] = "backlog" /\ agent_end[c] # "unused" => listener = "accepting"

(* While a call reads, its reply is on the wire, or its request is where a  *)
(* task takes it up, or the task has it, or the task is gone and the call   *)
(* is told so.                                                              *)
NothingIsSwallowed ==
  phase = "reading" =>
    \/ down[stream] # <<>>
    \/ up[stream] # <<>> /\ task[stream] = "reading"
    \/ up[stream] # <<>> /\ task[stream] = "backlog" /\ listener = "accepting"
    \/ Busy(stream)
    \/ task[stream] = "done"

(* Only tasks, the listener and the process move, and no task drops what it *)
(* has or leaves a line where it is without ending.                         *)
LEMMA TasksKeepWaiting ==
  ASSUME CInv, NothingIsSwallowed, BacklogIsAccepted, BacklogIsAccepted',
         UNCHANGED <<stream, phase, agent_end, up, down>>,
         \A c \in Conn : \/ task'[c] = task[c]
                         \/ task'[c] = "done"
                         \/ task[c] = "backlog" /\ task'[c] = "reading"
                         \/ task[c] = "dispatching" /\ task'[c] = "replying"
  PROVE  NothingIsSwallowed'
  BY DEF NothingIsSwallowed, BacklogIsAccepted, Busy, CInv, TypeOK, OneOpen

(* A backlog is there only while the listener accepts.                      *)
LEMMA StepKeepsBacklog ==
  ASSUME CInv, BacklogIsAccepted, [Next]_vars
  PROVE  BacklogIsAccepted'
<1>. USE DEF task_vars, client_vars, TaskGoes, ListenerGoes, BacklogIsAccepted, CInv, TypeOK
<1>1. ASSUME NEW c \in Conn, Connect(c) \/ TaskStep(c) \/ TaskAborted(c)
      PROVE  BacklogIsAccepted'
  BY <1>1 DEF Connect, TaskStep, Accept, ReadRequest, ReadFragment, StopReading, Execute,
              Reply, TaskAborted
<1>2. ASSUME StartCall \/ ClientStep \/ CancelCall \/ CloseHandle \/ UNCHANGED vars
      PROVE  BacklogIsAccepted'
  BY <1>2 DEF StartCall, ClientStep, WriteRequest, ReadReply, SeeClosed, CancelCall,
              CloseHandle, DropStream, OneOpen, vars
<1>3. ASSUME CloseListener \/ ListenerStep \/ CrashProcess
      PROVE  BacklogIsAccepted'
  BY <1>3 DEF CloseListener, ListenerStep, AbortTasks, ReturnFromRun, ExitProcess,
              CrashProcess, TasksEnd
<1>. QED
  BY <1>1, <1>2, <1>3 DEF Next

(* No step leaves a call waiting for nothing.                               *)
LEMMA StepKeepsWaiting ==
  ASSUME CInv, NothingIsSwallowed, BacklogIsAccepted, [Next]_vars
  PROVE  NothingIsSwallowed'
<1>. USE DEF task_vars, client_vars, TaskGoes, ListenerGoes
<1>1. BacklogIsAccepted'
  BY StepKeepsBacklog
<1>2. ASSUME NEW c \in Conn, Connect(c) PROVE NothingIsSwallowed'
  BY <1>2 DEF Connect, NothingIsSwallowed
<1>3. ASSUME StartCall \/ CloseHandle \/ CancelCall \/ SeeClosed \/ ReadReply
      PROVE  NothingIsSwallowed'
  BY <1>3 DEF StartCall, CloseHandle, CancelCall, SeeClosed, ReadReply, DropStream,
              NothingIsSwallowed
<1>4. ASSUME WriteRequest PROVE NothingIsSwallowed'
  <2>1. stream \in Conn /\ up[stream] = <<>> /\ ~Busy(stream) /\ task[stream] # "done"
    BY <1>4 DEF WriteRequest, CInv, TypeOK, CleanWire
  <2>2. up'[stream] # <<>>
    BY <1>4, <2>1, Lines DEF WriteRequest, CInv, TypeOK, Request
  <2>3. task[stream] \in {"backlog", "reading"}
    BY <2>1 DEF Busy, CInv, TypeOK, TaskState
  <2>4. agent_end[stream] # "unused"
    BY <2>1 DEF CInv, TypeOK, OneOpen
  <2>. QED
    BY <1>4, <2>1, <2>2, <2>3, <2>4
    DEF WriteRequest, NothingIsSwallowed, BacklogIsAccepted
<1>5. ASSUME NEW c \in Conn, Accept(c) \/ ReadFragment(c) \/ StopReading(c) \/ Execute(c)
                              \/ TaskAborted(c)
      PROVE  NothingIsSwallowed'
  BY <1>1, <1>5, TasksKeepWaiting
  DEF Accept, ReadFragment, StopReading, Execute, TaskAborted, CInv, TypeOK
<1>6. ASSUME CloseListener \/ ListenerStep \/ CrashProcess \/ UNCHANGED vars
      PROVE  NothingIsSwallowed'
  BY <1>1, <1>6, TasksKeepWaiting
  DEF CloseListener, ListenerStep, AbortTasks, ReturnFromRun, ExitProcess, CrashProcess,
      TasksEnd, vars
<1>7. ASSUME NEW c \in Conn, ReadRequest(c) PROVE NothingIsSwallowed'
  BY <1>7 DEF ReadRequest, NothingIsSwallowed, Busy, CInv, TypeOK
<1>8. ASSUME NEW c \in Conn, Reply(c) PROVE NothingIsSwallowed'
  <2>1. stream = c => down'[c] # <<>> \/ task'[c] = "done"
    <3>1. CASE agent_end[c] = "closed"
      BY <1>8, <3>1 DEF Reply, CInv, TypeOK
    <3>2. CASE agent_end[c] = "open"
      <4>1. down[c] = <<>> /\ request[c] \in Request
        BY <1>8 DEF Reply, CInv, OneAtATime, Busy
      <4>2. Append(<<>>, request[c]) # <<>>
        BY <4>1 DEF Request
      <4>. QED
        BY <1>8, <3>2, <4>1, <4>2 DEF Reply, CInv, TypeOK
    <3>. QED
      BY <1>8, <3>1, <3>2 DEF Reply
  <2>. QED
    BY <1>8, <2>1 DEF Reply, NothingIsSwallowed, Busy, CInv, TypeOK
<1>. QED
  BY <1>2, <1>3, <1>4, <1>5, <1>6, <1>7, <1>8 DEF Next, TaskStep, ClientStep

(* No call waits for nothing: whatever is cancelled, aborted or killed in   *)
(* whichever order, a call that reads has its reply coming or finds the     *)
(* connection closed.  A client without a timeout (lib.rs, call) needs it.  *)
THEOREM NoCallIsLeftWaiting == Spec => []NothingIsSwallowed
<1>1. Init => CInv /\ NothingIsSwallowed /\ BacklogIsAccepted
  BY InitHolds DEF Init, NothingIsSwallowed, BacklogIsAccepted
<1>2. CInv /\ NothingIsSwallowed /\ BacklogIsAccepted /\ [Next]_vars
      => (CInv /\ NothingIsSwallowed /\ BacklogIsAccepted)'
  BY Steps, StepKeepsBacklog, StepKeepsWaiting
<1>. QED
  BY <1>1, <1>2, PTL DEF Spec

=============================================================================
