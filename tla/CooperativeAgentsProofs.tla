---------------------- MODULE CooperativeAgentsProofs ----------------------
(***************************************************************************)
(* Agents that respect the conflict reports and the daemon together         *)
(* implement AdvisoryLocks, for every number of agents, connections, paths  *)
(* and reservations.  The argument: a lease lies within a reservation of    *)
(* its agent whose claim was told of no conflict (LeaseWithinReservation);  *)
(* of two live clashing reservations one claim was told of the other        *)
(* (MutualAwareness, proved of the core); so two leases never clash.        *)
(***************************************************************************)
EXTENDS CooperativeAgentsProps, CoordinatorProofs

USE DEF Begin, Finish, Idle, table_vars, coordinator_vars

(* The agents only choose among the steps of the core. *)
LEMMA CoopStepIsStep == [CoopNext]_coop_vars => [Next]_vars
BY DEF CoopNext, Next, coop_vars, vars, AgentRegister, AnswerRegister, SendClaim,
       TakeClaim, AnswerClaim, ReceiveReply, GiveUp, AgentRelease, AgentDeregister,
       StopUsing, TimePasses

(* So everything that was proved of the core holds with its agents. *)
LEMMA CoreWithAgents == CoopSpec => []IInv
<1>1. CoopInit => IInv
  BY InitIInv DEF CoopInit
<1>2. IInv /\ [CoopNext]_coop_vars => IInv'
  BY CoopStepIsStep, TypeOKStep, ReverseIndexStep, OnlyMintedStep, TasksReadThePastStep,
     TimesInOrderStep, MutualAwarenessStep, ConflictsAreRealStep DEF IInv
<1>. QED
  BY <1>1, <1>2, PTL DEF CoopSpec

-----------------------------------------------------------------------------
(* What one step may change.                                                *)

(* Ids are never handed back. *)
LEMMA MintedGrows ==
  ASSUME [Next]_vars
  PROVE  minted \subseteq minted'
<1>1. ASSUME NEW c \in Conn, FinishRegister(c) PROVE minted \subseteq minted'
  BY <1>1 DEF FinishRegister, RegisterSession, ReuseSession, InsertNewSession
<1>2. ASSUME NEW c \in Conn, FinishHeartbeat(c) PROVE minted \subseteq minted'
  BY <1>2 DEF FinishHeartbeat, HeartbeatSession
<1>3. ASSUME NEW c \in Conn, FinishClaim(c) PROVE minted \subseteq minted'
  BY <1>3 DEF FinishClaim, GrantClaim
<1>4. ASSUME NEW c \in Conn, Deregister(c) PROVE minted \subseteq minted'
  BY <1>4 DEF Deregister, DeregisterSession
<1>5. CASE UNCHANGED minted
  BY <1>5
<1>. QED
  BY <1>1, <1>2, <1>3, <1>4, <1>5
     DEF Next, vars, BeginRegister, BeginHeartbeat, BeginClaim, Release, Restart,
         LoseTable, Tick

(* The reply to a registration names a session of the caller's pid. *)
LEMMA RegisterAnswersOwn ==
  ASSUME IInv, NEW c \in Conn, AnswerRegister(c)
  PROVE  /\ task[c].pid \in Pid
         /\ sessions_by_pid'[task[c].pid] \in SessionId \cap minted'
         /\ sessions'[sessions_by_pid'[task[c].pid]] # None
         /\ sessions'[sessions_by_pid'[task[c].pid]].pid = task[c].pid
<1>1. task[c] \in RegisterTask
  BY TaskKinds DEF IInv, AnswerRegister, FinishRegister
<1>2. [CoopNext]_coop_vars
  BY DEF CoopNext
<1>3. TypeOK' /\ ReverseIndexExact' /\ OnlyMinted'
  BY <1>2, CoopStepIsStep, TypeOKStep, ReverseIndexStep, OnlyMintedStep DEF IInv
<1> DEFINE p == task[c].pid
<1>4. p \in Pid
  BY <1>1 DEF RegisterTask
<1>5. sessions_by_pid'[p] # None
  <2>1. CASE HasSession(p) /\ ReuseSession(p, task[c].now)
    BY <2>1 DEF HasSession, ReuseSession
  <2>2. CASE InsertNewSession(p, task[c].profile, task[c].now)
    BY <2>2, <1>4, SessionTableAssumption DEF IInv, TypeOK, InsertNewSession
  <2>. QED
    BY <2>1, <2>2 DEF AnswerRegister, FinishRegister, RegisterSession
<1>. QED
  BY <1>3, <1>4, <1>5 DEF TypeOK, ReverseIndexExact, OnlyMinted, HasSession, Registered

(* A reservation that an agent relies on, or whose reply is under way, stays. *)
LEMMA HeldStays ==
  ASSUME TypeOK, [CoopNext]_coop_vars, NEW r \in ReservationId,
         Present(r), r \in minted, lease[r] # None \/ UnderWay(r)
  PROVE  reservations'[r] = reservations[r] /\ told'[r] = told[r]
<1> USE DEF Present
<1>1. ASSUME NEW c \in Conn, AnswerClaim(c)
      PROVE  reservations'[r] = reservations[r] /\ told'[r] = told[r]
  BY <1>1 DEF TypeOK, AnswerClaim, FinishClaim, GrantClaim
<1>2. ASSUME NEW c \in Conn, AgentRelease(c)
      PROVE  reservations'[r] = reservations[r] /\ told'[r] = told[r]
  <2>1. PICK n \in KnownReservations :
          /\ reservations' = [reservations EXCEPT ![n] = None]
          /\ told' = [told EXCEPT ![n] = {}]
    BY <1>2 DEF AgentRelease, Release
  <2>2. reservations'[r] # None
    BY <1>2 DEF AgentRelease
  <2>. QED
    BY <2>1, <2>2 DEF TypeOK, KnownReservations
<1>3. CASE UNCHANGED <<reservations, told>>
  BY <1>3
<1>. QED
  BY <1>1, <1>2, <1>3
     DEF CoopNext, coop_vars, vars, AgentRegister, BeginRegister, AnswerRegister,
         FinishRegister, SendClaim, TakeClaim, BeginClaim, ReceiveReply, GiveUp,
         StopUsing, AgentDeregister, Deregister, TimePasses, Tick

-----------------------------------------------------------------------------
(* The agents' sessions.                                                    *)

(* Every step keeps the agents' variables well typed. *)
LEMMA AgentsTypeOKStep ==
  IInv /\ CoopInv /\ [CoopNext]_coop_vars => AgentsTypeOK'
<1> SUFFICES ASSUME IInv, CoopInv, [CoopNext]_coop_vars PROVE AgentsTypeOK'
  OBVIOUS
<1> USE DEF CoopInv, AgentsTypeOK, agent_vars
<1>1. ASSUME NEW c \in Conn, AnswerRegister(c) PROVE AgentsTypeOK'
  BY <1>1, RegisterAnswersOwn DEF AnswerRegister
<1>2. ASSUME NEW c \in Conn, SendClaim(c) PROVE AgentsTypeOK'
  BY <1>2, CoordinatorAssumption DEF SendClaim, Call, IInv, TypeOK
<1>3. ASSUME NEW c \in Conn, AnswerClaim(c) PROVE AgentsTypeOK'
  <2>1. minted' \ minted \subseteq ReservationId
    BY <1>3 DEF AnswerClaim, FinishClaim, GrantClaim, table_vars
  <2>. QED
    BY <1>3, <2>1 DEF AnswerClaim
<1>4. ASSUME NEW c \in Conn, ReceiveReply(c) PROVE AgentsTypeOK'
  <2>1. call[c] \in Call
    BY <1>4 DEF ReceiveReply, RepliesInOrder
  <2>. QED
    BY <1>4, <2>1 DEF ReceiveReply, Call, Lease
<1>5. ASSUME NEW c \in Conn, GiveUp(c) PROVE AgentsTypeOK'
  BY <1>5 DEF GiveUp
<1>6. ASSUME NEW r \in ReservationId, StopUsing(r) PROVE AgentsTypeOK'
  BY <1>6 DEF StopUsing
<1>7. CASE UNCHANGED agent_vars
  BY <1>7
<1>. QED
  BY <1>1, <1>2, <1>3, <1>4, <1>5, <1>6, <1>7
     DEF CoopNext, coop_vars, AgentRegister, TakeClaim, AgentRelease,
         AgentDeregister, TimePasses

(* Only the answer to a registration gives an agent a session. *)
LEMMA MineChanges ==
  ASSUME AgentsTypeOK, [CoopNext]_coop_vars
  PROVE  \/ mine' = mine
         \/ \E c \in Conn : AnswerRegister(c)
BY DEF CoopNext, coop_vars, agent_vars, AgentRegister, SendClaim, TakeClaim, AnswerClaim,
       ReceiveReply, GiveUp, AgentRelease, AgentDeregister, StopUsing, TimePasses

(* What agents were given they keep. *)
LEMMA MineGrows ==
  ASSUME IInv, AgentsTypeOK, [CoopNext]_coop_vars, NEW a \in Pid
  PROVE  mine[a] \subseteq mine'[a]
BY MineChanges, RegisterAnswersOwn DEF AgentsTypeOK, AnswerRegister

(* Every step keeps the sessions with their agents: a session that answers
   a registration is registered for that pid, hence new or that agent's. *)
LEMMA OwnershipStep ==
  IInv /\ CoopInv /\ [CoopNext]_coop_vars => SessionsAreOwn' /\ OwnedSessions'
<1> SUFFICES ASSUME IInv, CoopInv, [CoopNext]_coop_vars
             PROVE  SessionsAreOwn' /\ OwnedSessions'
  OBVIOUS
<1> USE DEF CoopInv, AgentsTypeOK
<1>1. TypeOK /\ [Next]_vars /\ minted \subseteq minted'
  BY CoopStepIsStep, MintedGrows DEF IInv
<1>2. \A a \in Pid, s \in SessionId : s \in mine[a] /\ sessions'[s] # None =>
        sessions'[s].pid = a
  BY <1>1, SessionsKeepMeaning DEF OwnedSessions
<1>3. CASE mine' = mine
  BY <1>1, <1>2, <1>3 DEF SessionsAreOwn, OwnedSessions, Registered
<1>4. ASSUME NEW c \in Conn, AnswerRegister(c) PROVE SessionsAreOwn' /\ OwnedSessions'
  <2> DEFINE p == task[c].pid
             s == sessions_by_pid'[p]
  <2>1. p \in Pid /\ s \in SessionId \cap minted' /\ sessions'[s] # None /\ sessions'[s].pid = p
    BY <1>4, RegisterAnswersOwn
  <2>2. mine' = [mine EXCEPT ![p] = @ \cup {s}]
    BY <1>4 DEF AnswerRegister
  <2> HIDE DEF p, s
  <2>3. \A b \in Pid : b # p => s \notin mine[b]
    BY <1>2, <2>1
  <2>4. SessionsAreOwn'
    BY <2>1, <2>2, <2>3 DEF SessionsAreOwn
  <2>5. OwnedSessions'
    BY <1>1, <1>2, <2>1, <2>2 DEF OwnedSessions, Registered
  <2>. QED
    BY <2>4, <2>5
<1>. QED
  BY <1>3, <1>4, MineChanges

-----------------------------------------------------------------------------
(* The calls of the agents and what the daemon does for them.               *)

(* A ttl that an agent asks for does not wrap. *)
LEMMA TtlIsExact == \A ttl \in Ttl : ttl \in Nat /\ AsI64(ttl) = ttl
BY CoordinatorAssumption, TtlAssumption DEF AsI64

(* Every step keeps the claims at the daemon what their agents sent: the    *)
(* daemon reads the clock no earlier than the agent did.                    *)
LEMMA CallsInOrderStep ==
  IInv /\ CoopInv /\ [CoopNext]_coop_vars => CallsInOrder'
<1> SUFFICES ASSUME IInv, CoopInv, [CoopNext]_coop_vars PROVE CallsInOrder'
  OBVIOUS
<1> USE DEF CoopInv, AgentsTypeOK, agent_vars
<1>1. ASSUME NEW c \in Conn, AgentRegister(c) PROVE CallsInOrder'
  BY <1>1 DEF AgentRegister, BeginRegister, CallsInOrder, IInv, TypeOK
<1>2. ASSUME NEW c \in Conn, AnswerRegister(c) PROVE CallsInOrder'
  <2>1. \A a \in Pid : mine[a] \subseteq mine'[a]
    BY MineGrows
  <2>2. \A d \in Conn : task'[d] = task[d] \/ task'[d] = Idle
    BY <1>2 DEF AnswerRegister, FinishRegister, IInv, TypeOK
  <2>. QED
    BY <1>2, <2>1, <2>2 DEF AnswerRegister, FinishRegister, CallsInOrder, Call
<1>3. ASSUME NEW c \in Conn, SendClaim(c) PROVE CallsInOrder'
  BY <1>3 DEF SendClaim, CallsInOrder, IInv, TypeOK, vars
<1>4. ASSUME NEW c \in Conn, TakeClaim(c) PROVE CallsInOrder'
  <2>1. PICK sid \in KnownSessions, path \in Path, mode \in Mode, ttl \in Ttl :
          task' = [task EXCEPT ![c] =
                    [op |-> "claim", session_id |-> sid, path |-> path, mode |-> mode,
                     now |-> clock, expires |-> clock + AsI64(ttl)]]
    <3>1. BeginClaim(c)
      BY <1>4 DEF TakeClaim
    <3>. QED
      BY <3>1 DEF BeginClaim
  <2>2. /\ task'[c].op = "claim" /\ task'[c].now = clock
        /\ task'[c].session_id = call[c].session_id
        /\ task'[c].path = call[c].path
        /\ task'[c].mode = call[c].mode
        /\ task'[c].expires = task'[c].now + AsI64(call[c].ttl)
    BY <1>4, <2>1 DEF TakeClaim, IInv, TypeOK
  <2>3. call[c] \in Call /\ call[c].ttl \in Ttl /\ call[c].sent_at <= clock /\ reply[c] = None
    BY <1>4 DEF TakeClaim, CallsInOrder
  <2>4. call[c].sent_at + call[c].ttl <= task'[c].expires
    BY <2>2, <2>3, TtlIsExact DEF Call, IInv, TypeOK
  <2>5. \A d \in Conn \ {c} : task'[d] = task[d]
    BY <2>1 DEF IInv, TypeOK
  <2>6. UNCHANGED <<clock, mine, call, reply>>
    BY <1>4 DEF TakeClaim, BeginClaim
  <2>. QED
    BY <2>2, <2>3, <2>4, <2>5, <2>6 DEF CallsInOrder
<1>5. ASSUME NEW c \in Conn, AnswerClaim(c) PROVE CallsInOrder'
  BY <1>5 DEF AnswerClaim, FinishClaim, CallsInOrder, IInv, TypeOK
<1>6. ASSUME NEW c \in Conn, ReceiveReply(c) PROVE CallsInOrder'
  BY <1>6 DEF ReceiveReply, CallsInOrder, vars
<1>7. ASSUME NEW c \in Conn, GiveUp(c) PROVE CallsInOrder'
  BY <1>7 DEF GiveUp, CallsInOrder, vars
<1>8. CASE UNCHANGED <<clock, task, agent_vars>>
  BY <1>8 DEF CallsInOrder
<1>9. ASSUME NEW r \in ReservationId, StopUsing(r) PROVE CallsInOrder'
  BY <1>9 DEF StopUsing, CallsInOrder, vars
<1>10. CASE TimePasses
  BY <1>10 DEF TimePasses, Tick, CallsInOrder, Call, IInv, TypeOK
<1>. QED
  BY <1>1, <1>2, <1>3, <1>4, <1>5, <1>6, <1>7, <1>8, <1>9, <1>10
     DEF CoopNext, coop_vars, vars, AgentRelease, Release, AgentDeregister, Deregister

(* Every step keeps a reply under way true to its call: the id in it is     *)
(* fresh when the handler ends, and nobody releases what a reply may name.  *)
LEMMA RepliesInOrderStep ==
  IInv /\ CoopInv /\ [CoopNext]_coop_vars => RepliesInOrder'
<1> SUFFICES ASSUME IInv, CoopInv, [CoopNext]_coop_vars PROVE RepliesInOrder'
  OBVIOUS
<1> USE DEF CoopInv, AgentsTypeOK, agent_vars
<1>1. \A c \in Conn : reply[c] # None =>
        /\ reply[c] \in ReservationId /\ reply[c] \in minted
        /\ reservations'[reply[c]] = reservations[reply[c]]
  BY HeldStays DEF RepliesInOrder, UnderWay, IInv, OnlyMinted
<1>2. ASSUME UNCHANGED <<call, reply, lease>> PROVE RepliesInOrder'
  BY <1>1, <1>2 DEF RepliesInOrder, Present
<1>3. ASSUME NEW c \in Conn, SendClaim(c) PROVE RepliesInOrder'
  BY <1>1, <1>3 DEF SendClaim, RepliesInOrder, Present
<1>4. ASSUME NEW c \in Conn, AnswerClaim(c) PROVE RepliesInOrder'
  <2>1. CASE UNCHANGED reply /\ call' = [call EXCEPT ![c] = None]
    <3>1. reply[c] = None
      BY <1>4 DEF AnswerClaim, FinishClaim, RepliesInOrder, CallsInOrder
    <3>. QED
      BY <1>1, <1>4, <2>1, <3>1 DEF AnswerClaim, RepliesInOrder, Present
  <2>2. ASSUME call[c] # None, UNCHANGED call, NEW n \in minted' \ minted,
               reply' = [reply EXCEPT ![c] = n]
        PROVE  RepliesInOrder'
    <3>1. /\ n \in ReservationId
          /\ reservations' = [reservations EXCEPT ![n] =
               [session_id |-> task[c].session_id, path |-> task[c].path,
                mode |-> task[c].mode, acquired_at |-> task[c].now,
                expires_at |-> task[c].expires]]
      BY <1>4, <2>2 DEF AnswerClaim, FinishClaim, GrantClaim
    <3>2. Present(n)'
      BY <3>1, <1>4, TaskKinds, ReservationAssumption
         DEF AnswerClaim, FinishClaim, IInv, TypeOK, ClaimTask, Reservation, Present,
             OnlyMinted, TasksReadThePast
    <3>3. lease'[n] = None /\ \A d \in Conn : reply[d] # n
      BY <1>1, <1>4, <2>2, <3>1, CoordinatorAssumption
         DEF AnswerClaim, LeaseWithinReservation, IInv, OnlyMinted
    <3>4. /\ reservations'[n].session_id = call[c].session_id
          /\ reservations'[n].path = call[c].path
          /\ reservations'[n].mode = call[c].mode
          /\ call[c].sent_at + call[c].ttl <= reservations'[n].expires_at
      BY <1>4, <2>2, <3>1 DEF AnswerClaim, FinishClaim, CallsInOrder, IInv, TypeOK
    <3>. QED
      BY <1>1, <1>4, <2>2, <3>1, <3>2, <3>3, <3>4
         DEF AnswerClaim, RepliesInOrder, Present
  <2>. QED
    BY <1>4, <2>1, <2>2 DEF AnswerClaim
<1>5. ASSUME NEW c \in Conn, ReceiveReply(c) PROVE RepliesInOrder'
  BY <1>1, <1>5 DEF ReceiveReply, RepliesInOrder, Present
<1>6. ASSUME NEW c \in Conn, GiveUp(c) PROVE RepliesInOrder'
  BY <1>1, <1>6 DEF GiveUp, RepliesInOrder, Present
<1>7. ASSUME NEW r \in ReservationId, StopUsing(r) PROVE RepliesInOrder'
  BY <1>1, <1>7 DEF StopUsing, RepliesInOrder, Present
<1>. QED
  BY <1>2, <1>3, <1>4, <1>5, <1>6, <1>7
     DEF CoopNext, coop_vars, AgentRegister, AnswerRegister, TakeClaim, AgentRelease,
         AgentDeregister, TimePasses

(* Every step keeps the leases within their reservations. *)
LEMMA LeaseStep ==
  IInv /\ CoopInv /\ [CoopNext]_coop_vars => LeaseWithinReservation'
<1> SUFFICES ASSUME IInv, CoopInv, [CoopNext]_coop_vars PROVE LeaseWithinReservation'
  OBVIOUS
<1> USE DEF CoopInv, AgentsTypeOK, agent_vars
<1>1. \A r \in ReservationId : lease[r] # None =>
        reservations'[r] = reservations[r] /\ told'[r] = told[r]
  BY HeldStays DEF LeaseWithinReservation, IInv, OnlyMinted
<1>2. \A a \in Pid : mine[a] \subseteq mine'[a]
  BY MineGrows
<1>3. ASSUME \A r \in ReservationId : lease'[r] \in {lease[r], None}
      PROVE  LeaseWithinReservation'
  BY <1>1, <1>2, <1>3 DEF LeaseWithinReservation, Present, Lease
<1>4. ASSUME NEW c \in Conn, ReceiveReply(c) PROVE LeaseWithinReservation'
  <2> DEFINE r == reply[c]
  <2>1. /\ r \in ReservationId /\ Present(r) /\ call[c] \in Call
        /\ reservations[r].session_id \in mine[call[c].agent]
        /\ reservations[r].path = call[c].path
        /\ reservations[r].mode = call[c].mode
        /\ call[c].sent_at + call[c].ttl <= reservations[r].expires_at
    BY <1>4 DEF ReceiveReply, RepliesInOrder, CallsInOrder
  <2>2. CASE /\ told[r] = {}
             /\ lease' = [lease EXCEPT ![r] =
                  [agent |-> call[c].agent, path |-> call[c].path, mode |-> call[c].mode,
                   until |-> call[c].sent_at + call[c].ttl]]
    BY <1>4, <2>1, <2>2 DEF ReceiveReply, LeaseWithinReservation, Present, vars
  <2>3. CASE lease' = [lease EXCEPT ![r] = None]
    BY <1>3, <2>3
  <2>. QED
    BY <1>4, <2>2, <2>3 DEF ReceiveReply
<1>5. ASSUME NEW r \in ReservationId, StopUsing(r) PROVE LeaseWithinReservation'
  BY <1>3, <1>5 DEF StopUsing
<1>6. CASE UNCHANGED lease
  BY <1>3, <1>6
<1>. QED
  BY <1>4, <1>5, <1>6
     DEF CoopNext, coop_vars, AgentRegister, AnswerRegister, SendClaim, TakeClaim,
         AnswerClaim, GiveUp, AgentRelease, AgentDeregister, TimePasses

-----------------------------------------------------------------------------
(* The results.                                                             *)

(* The invariant of the agents holds before any of them registered. *)
LEMMA InitCoopInv == CoopInit => CoopInv
BY DEF CoopInit, Init, TableInit, CoopInv, AgentsTypeOK, SessionsAreOwn, OwnedSessions,
       CallsInOrder, RepliesInOrder, LeaseWithinReservation, Registered

(* The inductive invariant of the core with its agents. *)
THEOREM CoopInductive == CoopSpec => [](IInv /\ CoopInv)
<1>1. IInv /\ CoopInv /\ [CoopNext]_coop_vars => CoopInv'
  BY AgentsTypeOKStep, OwnershipStep, CallsInOrderStep, RepliesInOrderStep, LeaseStep
     DEF CoopInv
<1>. QED
  BY <1>1, InitCoopInv, CoreWithAgents, PTL DEF CoopSpec

(* Type correctness of the agents. *)
THEOREM AgentsTypeCorrect == CoopSpec => []AgentsTypeOK
<1>1. CoopInv => AgentsTypeOK
  BY DEF CoopInv
<1>. QED
  BY <1>1, CoopInductive, PTL

(* Every lease lies within a reservation that was granted without conflict. *)
THEOREM LeasesAreCovered == CoopSpec => []LeaseWithinReservation
<1>1. CoopInv => LeaseWithinReservation
  BY DEF CoopInv
<1>. QED
  BY <1>1, CoopInductive, PTL

(* A register reply never names a session that another agent was given.     *)
THEOREM SessionsStayOwn == CoopSpec => []SessionsAreOwn
<1>1. CoopInv => SessionsAreOwn
  BY DEF CoopInv
<1>. QED
  BY <1>1, CoopInductive, PTL

(* Leases that hold at one time do not clash: both lie within live          *)
(* reservations, and neither claim was told of the other.                   *)
LEMMA LeasesDoNotClash == IInv /\ CoopInv => NoTwoEditors
<1> SUFFICES ASSUME IInv, CoopInv, NEW r \in ReservationId, NEW q \in ReservationId,
                    Relies(r), Relies(q), lease[r].agent # lease[q].agent,
                    lease[r].path = lease[q].path,
                    Incompatible(lease[r].mode, lease[q].mode)
             PROVE  FALSE
  BY DEF NoTwoEditors
<1>1. /\ Present(r) /\ Present(q) /\ told[r] = {} /\ told[q] = {}
      /\ reservations[r].session_id \in mine[lease[r].agent]
      /\ reservations[q].session_id \in mine[lease[q].agent]
      /\ reservations[r].path = reservations[q].path
      /\ Incompatible(reservations[r].mode, reservations[q].mode)
      /\ lease[r] \in Lease /\ lease[q] \in Lease
  BY DEF CoopInv, AgentsTypeOK, LeaseWithinReservation, Relies
<1>2. Live(r) /\ Live(q)
  BY <1>1 DEF Live, Relies, CoopInv, LeaseWithinReservation, Lease, IInv, TypeOK,
              Present, Reservation
<1>3. reservations[r].session_id # reservations[q].session_id
  BY <1>1 DEF CoopInv, SessionsAreOwn, Lease
<1>. QED
  BY <1>1, <1>2, <1>3 DEF IInv, MutualAwareness, Clash

(* What the reservations are for: agents that respect the conflict reports  *)
(* never use one path at one time in modes that exclude each other.         *)
THEOREM NeverTwoEditors == CoopSpec => []NoTwoEditors
BY LeasesDoNotClash, CoopInductive, PTL

(* The daemon and its agents implement the table of exclusive uses.         *)
THEOREM ImplementsAdvisoryLocks == CoopSpec => LocksAreKept
<1>1. CoopInit => Locks!Init
  BY DEF CoopInit, Locks!Init, InUse, Relies
<1>2. ASSUME IInv, CoopInv, IInv', NoTwoEditors', [CoopNext]_coop_vars
      PROVE  [Locks!Next]_InUse
  <2> USE DEF CoopInv, AgentsTypeOK
  <2>1. ASSUME clock' >= clock, \A r \in ReservationId : lease'[r] \in {lease[r], None}
        PROVE  Locks!End
    BY <1>2, <2>1 DEF Locks!End, InUse, Relies, IInv, TypeOK, Lease
  <2>2. ASSUME NEW c \in Conn, ReceiveReply(c) PROVE Locks!Next
    <3> PICK n \in ReservationId : n = reply[c]
      BY <1>2, <2>2 DEF ReceiveReply
    <3> DEFINE u == [agent |-> call[c].agent, path |-> call[c].path, mode |-> call[c].mode]
               until == call[c].sent_at + call[c].ttl
    <3>1. lease[n] = None /\ call[c] \in Call /\ clock' = clock
      BY <1>2, <2>2 DEF ReceiveReply, RepliesInOrder, vars, coordinator_vars
    <3>2. CASE lease' = [lease EXCEPT ![n] = None]
      BY <1>2, <2>1, <3>1, <3>2 DEF Locks!Next, IInv, TypeOK
    <3>3. CASE /\ clock < until
               /\ lease' = [lease EXCEPT ![n] =
                    [agent |-> call[c].agent, path |-> call[c].path,
                     mode |-> call[c].mode, until |-> until]]
      <4>1. u \in Locks!Use
        BY <3>1 DEF Locks!Use, Locks!UseMode, Mode, Call
      <4>2. lease'[n] # None /\ lease'[n].agent = u.agent /\ lease'[n].path = u.path
              /\ lease'[n].mode = u.mode /\ lease'[n].until = until /\ Relies(n)'
        BY <1>2, <3>1, <3>3, AgentAssumption DEF Relies, Call, Lease
      <4>3. \A r \in ReservationId \ {n} : lease'[r] = lease[r] /\ (Relies(r)' <=> Relies(r))
        BY <1>2, <3>1, <3>3 DEF Relies
      <4>4. InUse' = InUse \cup {u}
        <5>1. ~Relies(n)
          BY <3>1 DEF Relies
        <5>. QED
          BY <3>1, <4>2, <4>3, <5>1 DEF InUse
      <4>5. ASSUME NEW v \in InUse, v.agent # u.agent, v.path = u.path
            PROVE  ~Locks!Exclude(u.mode, v.mode)
        <5>1. PICK r \in ReservationId : Relies(r) /\ lease[r].agent = v.agent
                /\ lease[r].path = v.path /\ lease[r].mode = v.mode
          BY DEF InUse
        <5>2. r # n
          BY <3>1, <5>1 DEF Relies
        <5>3. /\ Relies(n)' /\ Relies(r)'
              /\ lease'[n].agent # lease'[r].agent /\ lease'[n].path = lease'[r].path
          BY <4>2, <4>3, <4>5, <5>1, <5>2
        <5>4. ~Incompatible(lease[n].mode, lease[r].mode)'
          BY <1>2, <5>3 DEF NoTwoEditors
        <5>5. ~Incompatible(u.mode, v.mode)
          BY <4>2, <4>3, <5>1, <5>2, <5>4 DEF Incompatible
        <5>. QED
          BY <5>5 DEF Incompatible, Locks!Exclude
      <4>. QED
        BY <4>1, <4>4, <4>5 DEF Locks!Next, Locks!Begin
    <3>. QED
      BY <2>2, <3>2, <3>3 DEF ReceiveReply
  <2>3. ASSUME NEW r \in ReservationId, StopUsing(r) PROVE Locks!Next
    BY <1>2, <2>1, <2>3 DEF StopUsing, Locks!Next, vars, IInv, TypeOK
  <2>4. CASE clock' >= clock /\ UNCHANGED lease
    BY <1>2, <2>1, <2>4 DEF Locks!Next
  <2>. QED
    BY <1>2, <2>2, <2>3, <2>4
       DEF CoopNext, coop_vars, vars, agent_vars, AgentRegister, BeginRegister,
           AnswerRegister, FinishRegister, SendClaim, TakeClaim, BeginClaim, AnswerClaim,
           FinishClaim, GiveUp, AgentRelease, Release, AgentDeregister, Deregister,
           TimePasses, Tick, IInv, TypeOK
<1>. QED
  BY <1>1, <1>2, CoopInductive, NeverTwoEditors, PTL DEF CoopSpec, LocksAreKept, Locks!Spec

=============================================================================
