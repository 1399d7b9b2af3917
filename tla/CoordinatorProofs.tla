-------------------------- MODULE CoordinatorProofs --------------------------
(***************************************************************************)
(* The promises of CoordinatorProps, for every value of the constants.      *)
(***************************************************************************)
EXTENDS CoordinatorProps, TLAPS

USE DEF Begin, Finish, Idle, table_vars, coordinator_vars

(* What a clock value, and the expiry computed from it, are. *)
LEMMA AsI64Type ==
  ASSUME NEW ttl \in Ttl
  PROVE  AsI64(ttl) \in Int
BY CoordinatorAssumption DEF AsI64

(* The name of an operation says which kind of task it is. *)
LEMMA TaskKinds ==
  ASSUME TypeOK, NEW c \in Conn
  PROVE  /\ task[c].op = "register" => task[c] \in RegisterTask
         /\ task[c].op = "heartbeat" => task[c] \in HeartbeatTask
         /\ task[c].op = "claim" => task[c] \in ClaimTask
BY DEF TypeOK, Task, RegisterTask, HeartbeatTask, ClaimTask

(* A conflict report names reservation ids. *)
LEMMA ConflictsType == \A req : Conflicts(req) \subseteq ReservationId
BY DEF Conflicts

-----------------------------------------------------------------------------

(* A daemon that has just started is well typed. *)
LEMMA InitTypeOK == Init => TypeOK
BY DEF Init, TableInit, TypeOK, Task

(* Registering, anew or again, keeps the tables of the sessions well typed. *)
LEMMA RegisterTypes ==
  ASSUME TypeOK, NEW pid \in Pid, NEW profile \in Profile, NEW now \in Nat,
         RegisterSession(pid, profile, now)
  PROVE  /\ sessions' \in [SessionId -> Session \cup {None}]
         /\ sessions_by_pid' \in [Pid -> SessionId \cup {None}]
         /\ minted' \subseteq SessionId \cup ReservationId
<1>1. CASE HasSession(pid) /\ ReuseSession(pid, now)
  BY <1>1 DEF TypeOK, HasSession, Registered, ReuseSession, Session
<1>2. CASE InsertNewSession(pid, profile, now)
  BY <1>2 DEF TypeOK, InsertNewSession, Session
<1>. QED
  BY <1>1, <1>2 DEF RegisterSession

(* Every step keeps the types. *)
LEMMA TypeOKStep == TypeOK /\ [Next]_vars => TypeOK'
<1> SUFFICES ASSUME TypeOK, [Next]_vars PROVE TypeOK'
  OBVIOUS
<1>1. ASSUME NEW c \in Conn, BeginRegister(c) PROVE TypeOK'
  BY <1>1 DEF TypeOK, BeginRegister, Task, RegisterTask
<1>2. ASSUME NEW c \in Conn, FinishRegister(c) PROVE TypeOK'
  <2>1. task[c] \in RegisterTask
    BY <1>2, TaskKinds DEF FinishRegister
  <2>. QED
    BY <1>2, <2>1, RegisterTypes DEF TypeOK, FinishRegister, RegisterTask, Task
<1>3. ASSUME NEW c \in Conn, BeginHeartbeat(c) PROVE TypeOK'
  BY <1>3 DEF TypeOK, BeginHeartbeat, KnownSessions, Task, HeartbeatTask
<1>4. ASSUME NEW c \in Conn, FinishHeartbeat(c) PROVE TypeOK'
  <2>1. task[c] \in HeartbeatTask
    BY <1>4, TaskKinds DEF FinishHeartbeat
  <2>. QED
    BY <1>4, <2>1 DEF TypeOK, FinishHeartbeat, HeartbeatSession, Registered,
                      HeartbeatTask, Session, Task
<1>5. ASSUME NEW c \in Conn, BeginClaim(c) PROVE TypeOK'
  BY <1>5, AsI64Type DEF TypeOK, BeginClaim, KnownSessions, Task, ClaimTask
<1>6. ASSUME NEW c \in Conn, FinishClaim(c) PROVE TypeOK'
  <2>1. task[c] \in ClaimTask
    BY <1>6, TaskKinds DEF FinishClaim
  <2>2. CASE GrantClaim(task[c])
    BY <1>6, <2>1, <2>2, ConflictsType
       DEF TypeOK, FinishClaim, GrantClaim, ClaimTask, Reservation, Task
  <2>3. CASE UNCHANGED <<table_vars, reservations, told>>
    BY <1>6, <2>3 DEF TypeOK, FinishClaim, Task
  <2>. QED
    BY <1>6, <2>2, <2>3 DEF FinishClaim
<1>7. ASSUME NEW c \in Conn, Deregister(c) PROVE TypeOK'
  BY <1>7 DEF TypeOK, Deregister, DeregisterSession, KnownSessions, Registered, Session
<1>8. ASSUME NEW c \in Conn, Release(c) PROVE TypeOK'
  BY <1>8 DEF TypeOK, Release, KnownReservations
<1>9. CASE Restart
  BY <1>9 DEF TypeOK, Restart, LoseTable, Task
<1>10. CASE Tick
  BY <1>10 DEF TypeOK, Tick
<1>11. CASE UNCHANGED vars
  BY <1>11 DEF TypeOK, vars
<1>. QED
  BY <1>1, <1>2, <1>3, <1>4, <1>5, <1>6, <1>7, <1>8, <1>9, <1>10, <1>11 DEF Next

(* Type correctness of the core, under which every other proof works. *)
THEOREM TypeCorrect == Spec => []TypeOK
BY InitTypeOK, TypeOKStep, PTL DEF Spec

-----------------------------------------------------------------------------
(* The session table.                                                       *)

(* Every step keeps the two session maps inverse to one another. *)
LEMMA ReverseIndexStep ==
  TypeOK /\ OnlyMinted /\ ReverseIndexExact /\ [Next]_vars => ReverseIndexExact'
<1> SUFFICES ASSUME TypeOK, OnlyMinted, ReverseIndexExact, [Next]_vars
             PROVE  ReverseIndexExact'
  OBVIOUS
<1> USE SessionTableAssumption DEF HasSession, Registered
<1>1. ASSUME NEW c \in Conn, FinishRegister(c) PROVE ReverseIndexExact'
  <2>1. task[c] \in RegisterTask
    BY <1>1, TaskKinds DEF FinishRegister
  <2> DEFINE pid == task[c].pid
  <2>2. CASE HasSession(pid) /\ ReuseSession(pid, task[c].now)
    BY <2>1, <2>2 DEF TypeOK, ReverseIndexExact, ReuseSession, Session, RegisterTask
  <2>3. CASE ~HasSession(pid) /\ InsertNewSession(pid, task[c].profile, task[c].now)
    BY <2>1, <2>3
       DEF TypeOK, ReverseIndexExact, OnlyMinted, InsertNewSession, Session, RegisterTask
  <2>. QED
    BY <1>1, <2>2, <2>3 DEF FinishRegister, RegisterSession
<1>2. ASSUME NEW c \in Conn, FinishHeartbeat(c) PROVE ReverseIndexExact'
  <2>1. task[c] \in HeartbeatTask
    BY <1>2, TaskKinds DEF FinishHeartbeat
  <2>. QED
    BY <1>2, <2>1 DEF TypeOK, ReverseIndexExact, FinishHeartbeat, HeartbeatSession,
                      Session, HeartbeatTask
<1>3. ASSUME NEW c \in Conn, Deregister(c) PROVE ReverseIndexExact'
  BY <1>3 DEF TypeOK, ReverseIndexExact, Deregister, DeregisterSession, Session,
              KnownSessions
<1>4. CASE Restart
  BY <1>4 DEF ReverseIndexExact, Restart, LoseTable
<1>5. CASE UNCHANGED <<sessions, sessions_by_pid>>
  BY <1>5 DEF ReverseIndexExact
<1>. QED
  BY <1>1, <1>2, <1>3, <1>4, <1>5
     DEF Next, vars, BeginRegister, BeginHeartbeat, BeginClaim, FinishClaim,
         GrantClaim, Release, Tick

-----------------------------------------------------------------------------
(* Ids and times.                                                           *)

(* Every step mentions only ids that it minted or that were minted before. *)
LEMMA OnlyMintedStep == TypeOK /\ OnlyMinted /\ [Next]_vars => OnlyMinted'
<1> SUFFICES ASSUME TypeOK, OnlyMinted, [Next]_vars PROVE OnlyMinted'
  OBVIOUS
<1> USE SessionTableAssumption, CoordinatorAssumption, ReservationAssumption
        DEF Registered, Present
<1>1. ASSUME NEW c \in Conn, BeginRegister(c) PROVE OnlyMinted'
  BY <1>1 DEF TypeOK, OnlyMinted, BeginRegister
<1>2. ASSUME NEW c \in Conn, FinishRegister(c) PROVE OnlyMinted'
  <2>1. task[c] \in RegisterTask
    BY <1>2, TaskKinds DEF FinishRegister
  <2>2. CASE HasSession(task[c].pid) /\ ReuseSession(task[c].pid, task[c].now)
    BY <1>2, <2>1, <2>2 DEF TypeOK, OnlyMinted, FinishRegister, HasSession, ReuseSession
  <2>3. CASE InsertNewSession(task[c].pid, task[c].profile, task[c].now)
    BY <1>2, <2>1, <2>3 DEF TypeOK, OnlyMinted, FinishRegister, InsertNewSession
  <2>. QED
    BY <1>2, <2>2, <2>3 DEF FinishRegister, RegisterSession
<1>3. ASSUME NEW c \in Conn, BeginHeartbeat(c) PROVE OnlyMinted'
  BY <1>3 DEF TypeOK, OnlyMinted, BeginHeartbeat, KnownSessions
<1>4. ASSUME NEW c \in Conn, FinishHeartbeat(c) PROVE OnlyMinted'
  BY <1>4 DEF TypeOK, OnlyMinted, FinishHeartbeat, HeartbeatSession
<1>5. ASSUME NEW c \in Conn, BeginClaim(c) PROVE OnlyMinted'
  BY <1>5 DEF TypeOK, OnlyMinted, BeginClaim, KnownSessions
<1>6. ASSUME NEW c \in Conn, FinishClaim(c) PROVE OnlyMinted'
  <2>1. task[c] \in ClaimTask
    BY <1>6, TaskKinds DEF FinishClaim
  <2>2. CASE GrantClaim(task[c])
    BY <1>6, <2>1, <2>2 DEF TypeOK, OnlyMinted, FinishClaim, GrantClaim, Conflicts
  <2>3. CASE UNCHANGED <<table_vars, reservations, told>>
    BY <1>6, <2>3 DEF TypeOK, OnlyMinted, FinishClaim
  <2>. QED
    BY <1>6, <2>2, <2>3 DEF FinishClaim
<1>7. ASSUME NEW c \in Conn, Deregister(c) PROVE OnlyMinted'
  BY <1>7 DEF TypeOK, OnlyMinted, Deregister, DeregisterSession
<1>8. ASSUME NEW c \in Conn, Release(c) PROVE OnlyMinted'
  BY <1>8 DEF TypeOK, OnlyMinted, Release
<1>9. CASE Restart
  BY <1>9 DEF OnlyMinted, Restart, LoseTable
<1>10. CASE Tick \/ UNCHANGED vars
  BY <1>10 DEF OnlyMinted, Tick, vars
<1>. QED
  BY <1>1, <1>2, <1>3, <1>4, <1>5, <1>6, <1>7, <1>8, <1>9, <1>10 DEF Next

(* A registered id was registered before the step too, unless it is fresh. *)
LEMMA SessionsKeepMeaning ==
  ASSUME TypeOK, [Next]_vars, NEW s \in SessionId \cap minted, sessions'[s] # None
  PROVE  /\ Registered(s)
         /\ sessions'[s].pid = sessions[s].pid
         /\ sessions'[s].profile = sessions[s].profile
         /\ sessions'[s].started_at = sessions[s].started_at
<1> USE SessionTableAssumption DEF Registered
<1> DEFINE Kept == /\ Registered(s)
                   /\ sessions'[s].pid = sessions[s].pid
                   /\ sessions'[s].profile = sessions[s].profile
                   /\ sessions'[s].started_at = sessions[s].started_at
<1>1. ASSUME NEW c \in Conn, FinishRegister(c) PROVE Kept
  <2>1. task[c] \in RegisterTask
    BY <1>1, TaskKinds DEF FinishRegister
  <2>2. CASE HasSession(task[c].pid) /\ ReuseSession(task[c].pid, task[c].now)
    BY <2>1, <2>2 DEF TypeOK, HasSession, ReuseSession, Session, RegisterTask
  <2>3. CASE InsertNewSession(task[c].pid, task[c].profile, task[c].now)
    BY <2>1, <2>3 DEF TypeOK, InsertNewSession
  <2>. QED
    BY <1>1, <2>2, <2>3 DEF FinishRegister, RegisterSession
<1>2. ASSUME NEW c \in Conn, FinishHeartbeat(c) PROVE Kept
  <2>1. task[c] \in HeartbeatTask
    BY <1>2, TaskKinds DEF FinishHeartbeat
  <2>. QED
    BY <1>2, <2>1 DEF TypeOK, FinishHeartbeat, HeartbeatSession, Session, HeartbeatTask
<1>3. ASSUME NEW c \in Conn, Deregister(c) PROVE Kept
  <2>1. PICK sid \in KnownSessions : DeregisterSession(sid)
    BY <1>3 DEF Deregister
  <2>. QED
    BY <2>1 DEF TypeOK, DeregisterSession, KnownSessions, table_vars
<1>4. CASE Restart
  BY <1>4 DEF Restart, LoseTable
<1>5. CASE UNCHANGED sessions
  BY <1>5
<1>. QED
  BY <1>1, <1>2, <1>3, <1>4, <1>5
     DEF Next, vars, BeginRegister, BeginHeartbeat, BeginClaim, FinishClaim,
         GrantClaim, Release, Tick

(* No step takes a waiting task ahead of the clock, nor a session behind the
   claims that wait for it: a session that starts now has a fresh id, which
   no waiting claim names. *)
LEMMA TasksReadThePastStep ==
  TypeOK /\ OnlyMinted /\ TimesInOrder /\ TasksReadThePast /\ [Next]_vars
    => TasksReadThePast'
<1> SUFFICES ASSUME TypeOK, OnlyMinted, TimesInOrder, TasksReadThePast, [Next]_vars
             PROVE  TasksReadThePast'
  OBVIOUS
<1> USE SessionTableAssumption DEF Registered
<1>1. ASSUME NEW c \in Conn, BeginRegister(c) PROVE TasksReadThePast'
  BY <1>1 DEF TypeOK, TasksReadThePast, BeginRegister
<1>2. ASSUME NEW c \in Conn, FinishRegister(c) PROVE TasksReadThePast'
  <2>1. task[c] \in RegisterTask
    BY <1>2, TaskKinds DEF FinishRegister
  <2>2. CASE HasSession(task[c].pid) /\ ReuseSession(task[c].pid, task[c].now)
    BY <1>2, <2>1, <2>2 DEF TypeOK, TasksReadThePast, FinishRegister, HasSession,
                            ReuseSession, Session
  <2>3. CASE InsertNewSession(task[c].pid, task[c].profile, task[c].now)
    BY <1>2, <2>1, <2>3 DEF TypeOK, OnlyMinted, TasksReadThePast, FinishRegister,
                            InsertNewSession, Session
  <2>. QED
    BY <1>2, <2>2, <2>3 DEF FinishRegister, RegisterSession
<1>3. ASSUME NEW c \in Conn, BeginHeartbeat(c) PROVE TasksReadThePast'
  BY <1>3 DEF TypeOK, TasksReadThePast, BeginHeartbeat
<1>4. ASSUME NEW c \in Conn, FinishHeartbeat(c) PROVE TasksReadThePast'
  BY <1>4, SessionsKeepMeaning, TaskKinds
     DEF TypeOK, OnlyMinted, TasksReadThePast, FinishHeartbeat, ClaimTask
<1>5. ASSUME NEW c \in Conn, BeginClaim(c) PROVE TasksReadThePast'
  BY <1>5 DEF TypeOK, TasksReadThePast, TimesInOrder, BeginClaim, KnownSessions
<1>6. ASSUME NEW c \in Conn, FinishClaim(c) PROVE TasksReadThePast'
  BY <1>6 DEF TypeOK, TasksReadThePast, FinishClaim, GrantClaim
<1>7. ASSUME NEW c \in Conn, Deregister(c) PROVE TasksReadThePast'
  BY <1>7, SessionsKeepMeaning, TaskKinds
     DEF OnlyMinted, TasksReadThePast, Deregister, ClaimTask
<1>8. ASSUME NEW c \in Conn, Release(c) PROVE TasksReadThePast'
  BY <1>8 DEF TasksReadThePast, Release
<1>9. CASE Restart
  BY <1>9 DEF TasksReadThePast, Restart, LoseTable
<1>10. CASE Tick
  BY <1>10 DEF TypeOK, TasksReadThePast, Tick, Task, RegisterTask, HeartbeatTask, ClaimTask
<1>11. CASE UNCHANGED vars
  BY <1>11 DEF TasksReadThePast, vars
<1>. QED
  BY <1>1, <1>2, <1>3, <1>4, <1>5, <1>6, <1>7, <1>8, <1>9, <1>10, <1>11 DEF Next

(* Every step keeps the times in the tables in order. *)
LEMMA TimesInOrderStep ==
  TypeOK /\ OnlyMinted /\ TasksReadThePast /\ TimesInOrder /\ [Next]_vars => TimesInOrder'
<1> SUFFICES ASSUME TypeOK, OnlyMinted, TasksReadThePast, TimesInOrder, [Next]_vars
             PROVE  TimesInOrder'
  OBVIOUS
<1> USE SessionTableAssumption, CoordinatorAssumption, ReservationAssumption
        DEF Registered, Present
<1>1. ASSUME NEW c \in Conn, FinishRegister(c) PROVE TimesInOrder'
  <2>1. task[c] \in RegisterTask /\ task[c].now <= clock
    BY <1>1, TaskKinds DEF FinishRegister, RegisterTask, HeartbeatTask, ClaimTask, TasksReadThePast
  <2>2. CASE HasSession(task[c].pid) /\ ReuseSession(task[c].pid, task[c].now)
    BY <1>1, <2>1, <2>2 DEF TypeOK, TimesInOrder, FinishRegister, HasSession,
                            ReuseSession, Session, RegisterTask
  <2>3. CASE InsertNewSession(task[c].pid, task[c].profile, task[c].now)
    BY <1>1, <2>1, <2>3 DEF TypeOK, OnlyMinted, TimesInOrder, FinishRegister,
                            InsertNewSession, Session, RegisterTask
  <2>. QED
    BY <1>1, <2>2, <2>3 DEF FinishRegister, RegisterSession
<1>2. ASSUME NEW c \in Conn, FinishHeartbeat(c) PROVE TimesInOrder'
  <2>1. task[c] \in HeartbeatTask /\ task[c].now <= clock
    BY <1>2, TaskKinds DEF FinishHeartbeat, RegisterTask, HeartbeatTask, ClaimTask, TasksReadThePast
  <2>. QED
    BY <1>2, <2>1, SessionsKeepMeaning
       DEF TypeOK, OnlyMinted, TimesInOrder, FinishHeartbeat, HeartbeatSession, Session,
           HeartbeatTask, Reservation
<1>3. ASSUME NEW c \in Conn, FinishClaim(c) PROVE TimesInOrder'
  <2>1. task[c] \in ClaimTask /\ task[c].now <= clock
    BY <1>3, TaskKinds DEF FinishClaim, RegisterTask, HeartbeatTask, ClaimTask, TasksReadThePast
  <2>2. CASE GrantClaim(task[c])
    BY <1>3, <2>1, <2>2 DEF TypeOK, TimesInOrder, TasksReadThePast, FinishClaim,
                            GrantClaim, ClaimTask, Reservation
  <2>3. CASE UNCHANGED <<table_vars, reservations, told>>
    BY <1>3, <2>3 DEF TimesInOrder, FinishClaim
  <2>. QED
    BY <1>3, <2>2, <2>3 DEF FinishClaim
<1>4. ASSUME NEW c \in Conn, Deregister(c) PROVE TimesInOrder'
  <2>1. PICK sid \in KnownSessions : DeregisterSession(sid)
    BY <1>4 DEF Deregister
  <2>2. \A s \in SessionId : Registered(s)' => sessions'[s] = sessions[s]
    BY <2>1 DEF TypeOK, DeregisterSession, KnownSessions
  <2>. QED
    BY <1>4, <2>2 DEF TypeOK, TimesInOrder, Deregister, Reservation
<1>5. ASSUME NEW c \in Conn, Release(c) PROVE TimesInOrder'
  BY <1>5 DEF TypeOK, TimesInOrder, Release
<1>6. CASE Restart
  BY <1>6 DEF TimesInOrder, Restart, LoseTable
<1>7. CASE Tick
  BY <1>7 DEF TypeOK, TimesInOrder, Tick, Session, Reservation
<1>8. CASE UNCHANGED <<sessions, reservations, clock>>
  BY <1>8 DEF TimesInOrder
<1>. QED
  BY <1>1, <1>2, <1>3, <1>4, <1>5, <1>6, <1>7, <1>8
     DEF Next, vars, BeginRegister, BeginHeartbeat, BeginClaim

-----------------------------------------------------------------------------
(* Conflicts.                                                               *)

(* The code's conflict test is the one of the comments on the variants:     *)
(* symmetric, so it does not matter which of the two claims comes second.   *)
(* (The comment on the type asks for one that is not: a weaker reservation  *)
(* would not be reported.)                                                  *)
LEMMA ConflictsAreTheVariants ==
  ASSUME NEW a \in Mode, NEW b \in Mode
  PROVE  mode_conflicts(a, b) <=> Incompatible(a, b)
BY DEF Mode, mode_conflicts, Incompatible

(* Modes exclude one another in the order that the comment on the type      *)
(* gives, but for a weaker reservation that an exclusive claim meets.       *)
LEMMA OrderingButForExclusive ==
  ASSUME NEW a \in Mode, NEW b \in Mode, Incompatible(a, b)
  PROVE  Strength[b] >= Strength[a] \/ BeyondOrdering(a, b)
BY DEF Mode, Incompatible, Strength, BeyondOrdering

(* Every step keeps clashing holders aware: a claim lists what is live at
   the clock it read, which includes all that is live when it is granted. *)
LEMMA MutualAwarenessStep ==
  TypeOK /\ OnlyMinted /\ TasksReadThePast /\ MutualAwareness /\ [Next]_vars
    => MutualAwareness'
<1> SUFFICES ASSUME TypeOK, OnlyMinted, TasksReadThePast, MutualAwareness, [Next]_vars
             PROVE  MutualAwareness'
  OBVIOUS
<1> USE ReservationAssumption DEF Live, Present, Clash
<1>1. ASSUME NEW c \in Conn, FinishClaim(c), GrantClaim(task[c]) PROVE MutualAwareness'
  <2>1. task[c] \in ClaimTask /\ task[c].now <= clock
    BY <1>1, TaskKinds DEF FinishClaim, TasksReadThePast
  <2>2. PICK n \in ReservationId \ minted :
          /\ told' = [told EXCEPT ![n] = Conflicts(task[c])]
          /\ reservations' = [reservations EXCEPT ![n] =
               [session_id |-> task[c].session_id, path |-> task[c].path,
                mode |-> task[c].mode, acquired_at |-> task[c].now,
                expires_at |-> task[c].expires]]
    BY <1>1 DEF GrantClaim
  <2>3. \A r \in ReservationId \ {n} :
          reservations'[r] = reservations[r] /\ told'[r] = told[r]
    BY <2>2 DEF TypeOK
  <2>4. clock' = clock
    BY <1>1 DEF FinishClaim
  <2> DEFINE new == reservations'[n]
  <2>5. /\ new.session_id = task[c].session_id /\ new.path = task[c].path
        /\ new.mode = task[c].mode
        /\ told'[n] = Conflicts(task[c])
    BY <2>2 DEF TypeOK
  <2>6. ASSUME NEW r \in ReservationId \ {n}, Live(r)', Clash(r, n)' \/ Clash(n, r)'
        PROVE  r \in told'[n]
    <3>1. Present(r) /\ reservations[r] \in Reservation
      BY <2>3, <2>6 DEF TypeOK
    <3>2. mode_conflicts(task[c].mode, reservations[r].mode)
      BY <2>1, <2>3, <2>5, <2>6, <3>1 DEF ClaimTask, Reservation, Mode,
         mode_conflicts, Incompatible
    <3>3. reservations[r].expires_at > task[c].now
      BY <2>1, <2>3, <2>4, <2>6, <3>1 DEF TypeOK, Reservation, ClaimTask
    <3>. QED
      BY <2>3, <2>5, <2>6, <3>1, <3>2, <3>3 DEF Conflicts
  <2>. QED
    BY <2>3, <2>4, <2>6 DEF MutualAwareness
<1>2. ASSUME NEW c \in Conn, Release(c) PROVE MutualAwareness'
  <2>1. PICK n \in KnownReservations :
          /\ reservations' = [reservations EXCEPT ![n] = None]
          /\ told' = [told EXCEPT ![n] = {}]
    BY <1>2 DEF Release
  <2>2. \A r \in ReservationId : Present(r)' =>
          reservations'[r] = reservations[r] /\ told'[r] = told[r]
    BY <2>1 DEF TypeOK, KnownReservations
  <2>. QED
    BY <1>2, <2>2 DEF MutualAwareness, Release
<1>3. CASE Restart
  BY <1>3 DEF MutualAwareness, Restart
<1>4. CASE Tick
  BY <1>4 DEF TypeOK, MutualAwareness, Tick, Reservation
<1>5. CASE UNCHANGED <<reservations, told, clock>>
  BY <1>5 DEF MutualAwareness
<1>. QED
  BY <1>1, <1>2, <1>3, <1>4, <1>5
     DEF Next, vars, BeginRegister, FinishRegister, BeginHeartbeat, FinishHeartbeat,
         BeginClaim, FinishClaim, Deregister

(* Every step keeps the conflict reports true. *)
LEMMA ConflictsAreRealStep ==
  TypeOK /\ OnlyMinted /\ ConflictsAreReal /\ [Next]_vars => ConflictsAreReal'
<1> SUFFICES ASSUME TypeOK, OnlyMinted, ConflictsAreReal, [Next]_vars
             PROVE  ConflictsAreReal'
  OBVIOUS
<1> USE ReservationAssumption DEF Present, Clash
<1>1. ASSUME NEW c \in Conn, FinishClaim(c), GrantClaim(task[c]) PROVE ConflictsAreReal'
  <2>1. task[c] \in ClaimTask
    BY <1>1, TaskKinds DEF FinishClaim
  <2>2. PICK n \in ReservationId \ minted :
          /\ told' = [told EXCEPT ![n] = Conflicts(task[c])]
          /\ reservations' = [reservations EXCEPT ![n] =
               [session_id |-> task[c].session_id, path |-> task[c].path,
                mode |-> task[c].mode, acquired_at |-> task[c].now,
                expires_at |-> task[c].expires]]
    BY <1>1 DEF GrantClaim
  <2>3. \A r \in ReservationId \ {n} :
          reservations'[r] = reservations[r] /\ told'[r] = told[r]
    BY <2>2 DEF TypeOK
  <2>4. \A r \in ReservationId : n \notin told[r]
    BY <2>2 DEF OnlyMinted
  <2>5. n \notin Conflicts(task[c]) /\ told'[n] = Conflicts(task[c])
    BY <2>2 DEF TypeOK, OnlyMinted, Conflicts
  <2>6. ASSUME NEW q \in Conflicts(task[c])
        PROVE  /\ Clash(n, q)'
               /\ reservations'[q].expires_at > reservations'[n].acquired_at
               /\ n \notin told'[q]
               /\ \/ Strength[reservations'[q].mode] >= Strength[reservations'[n].mode]
                  \/ BeyondOrdering(reservations'[n].mode, reservations'[q].mode)
    <3>1. /\ reservations[q] \in Reservation
          /\ reservations[q].path = task[c].path
          /\ reservations[q].session_id # task[c].session_id
          /\ reservations[q].expires_at > task[c].now
          /\ mode_conflicts(task[c].mode, reservations[q].mode)
          /\ q \in ReservationId \ {n}
      BY <2>5, <2>6 DEF Conflicts, TypeOK
    <3>2. Incompatible(task[c].mode, reservations[q].mode)
      BY <2>1, <3>1, ConflictsAreTheVariants DEF ClaimTask, Reservation
    <3>3. Clash(n, q)'
      BY <2>2, <2>3, <3>1, <3>2 DEF TypeOK
    <3>4. reservations'[q].expires_at > reservations'[n].acquired_at
      BY <2>2, <2>3, <3>1 DEF TypeOK
    <3>5. n \notin told'[q]
      BY <2>3, <2>4, <3>1
    <3>6. /\ reservations'[q].mode \in Mode /\ reservations'[n].mode \in Mode
          /\ Incompatible(reservations'[n].mode, reservations'[q].mode)
      BY <2>1, <2>2, <2>3, <3>1, <3>2 DEF TypeOK, ClaimTask, Reservation
    <3>. QED
      BY <3>3, <3>4, <3>5, <3>6, OrderingButForExclusive
  <2>. QED
    BY <2>3, <2>4, <2>5, <2>6 DEF ConflictsAreReal
<1>2. ASSUME NEW c \in Conn, Release(c) PROVE ConflictsAreReal'
  <2>1. PICK n \in KnownReservations :
          /\ reservations' = [reservations EXCEPT ![n] = None]
          /\ told' = [told EXCEPT ![n] = {}]
    BY <1>2 DEF Release
  <2>2. \A r \in ReservationId : Present(r)' =>
          reservations'[r] = reservations[r] /\ told'[r] = told[r]
    BY <2>1 DEF TypeOK, KnownReservations
  <2>. QED
    BY <2>2 DEF ConflictsAreReal
<1>3. CASE Restart
  BY <1>3 DEF ConflictsAreReal, Restart
<1>4. CASE UNCHANGED <<reservations, told>>
  BY <1>4 DEF ConflictsAreReal
<1>. QED
  BY <1>1, <1>2, <1>3, <1>4
     DEF Next, vars, BeginRegister, FinishRegister, BeginHeartbeat, FinishHeartbeat,
         BeginClaim, FinishClaim, Deregister, Tick

-----------------------------------------------------------------------------
(* The results.                                                             *)

(* The inductive invariant holds in an empty daemon. *)
LEMMA InitIInv == Init => IInv
<1> SUFFICES ASSUME Init PROVE IInv
  OBVIOUS
<1>1. TypeOK
  BY InitTypeOK
<1>. QED
  BY <1>1 DEF Init, TableInit, IInv, ReverseIndexExact, OnlyMinted, TasksReadThePast,
     TimesInOrder, MutualAwareness, ConflictsAreReal, Registered, Present, Live

(* The inductive invariant: every promise below is one of its conjuncts.    *)
THEOREM Inductive == Spec => []IInv
<1>1. IInv /\ [Next]_vars => IInv'
  BY TypeOKStep, ReverseIndexStep, OnlyMintedStep, TasksReadThePastStep,
     TimesInOrderStep, MutualAwarenessStep, ConflictsAreRealStep DEF IInv
<1>. QED
  BY <1>1, InitIInv, PTL DEF Spec

(* At most one session per pid, and no dangling index entry, whatever the   *)
(* interleaving of registrations and deregistrations.                       *)
THEOREM ReverseIndexIsExact == Spec => []ReverseIndexExact
<1>1. IInv => ReverseIndexExact
  BY DEF IInv
<1>. QED
  BY <1>1, Inductive, PTL

(* Two live clashing reservations never leave both agents unaware.          *)
THEOREM AgentsAreAware == Spec => []MutualAwareness
<1>1. IInv => MutualAwareness
  BY DEF IInv
<1>. QED
  BY <1>1, Inductive, PTL

(* A conflict report names only reservations that clash with the claim and  *)
(* were live when it was made, and of two clashing claims at most one is    *)
(* told of the other (handle_reservation_claim, mode_conflicts).            *)
THEOREM ReportsAreReal == Spec => []ConflictsAreReal
<1>1. IInv => ConflictsAreReal
  BY DEF IInv
<1>. QED
  BY <1>1, Inductive, PTL

(* Clocks read before the lock still leave the tables in order.             *)
THEOREM TimesAreInOrder == Spec => []TimesInOrder
<1>1. IInv => TimesInOrder
  BY DEF IInv
<1>. QED
  BY <1>1, Inductive, PTL

(* Ids keep their meaning: nothing is revived, renamed or rewritten.        *)
THEOREM IdsAreStable == Spec => IdsKeepMeaning
<1>1. ASSUME TypeOK, [Next]_vars, NEW r \in ReservationId \cap minted
      PROVE  reservations'[r] \in {reservations[r], None}
  <2>1. ASSUME NEW c \in Conn, FinishClaim(c) PROVE reservations'[r] = reservations[r]
    BY <1>1, <2>1 DEF TypeOK, FinishClaim, GrantClaim
  <2>2. ASSUME NEW c \in Conn, Release(c)
        PROVE  reservations'[r] \in {reservations[r], None}
    BY <2>2 DEF TypeOK, Release, KnownReservations
  <2>3. CASE Restart
    BY <2>3 DEF Restart
  <2>4. CASE UNCHANGED reservations
    BY <2>4
  <2>. QED
    BY <1>1, <2>1, <2>2, <2>3, <2>4
       DEF Next, vars, BeginRegister, FinishRegister, BeginHeartbeat, FinishHeartbeat,
           BeginClaim, Deregister, Tick
<1>2. TypeOK /\ [Next]_vars =>
        [/\ \A s \in SessionId \cap minted : sessions'[s] # None =>
              /\ Registered(s)
              /\ sessions'[s].pid = sessions[s].pid
              /\ sessions'[s].profile = sessions[s].profile
              /\ sessions'[s].started_at = sessions[s].started_at
         /\ \A r \in ReservationId \cap minted :
              reservations'[r] \in {reservations[r], None}]_vars
  BY <1>1, SessionsKeepMeaning
<1>. QED
  BY <1>2, TypeCorrect, PTL DEF Spec, IdsKeepMeaning

(* A waiting claim is granted only to a session that exists at the lock:    *)
(* nothing but the end of a claim makes a reservation appear.               *)
THEOREM GrantsAreToSessions == Spec => GrantsNeedSession
<1>1. ASSUME TypeOK, [Next]_vars, NEW r \in ReservationId, ~Present(r), reservations'[r] # None
      PROVE  Registered(reservations'[r].session_id)
  <2> USE DEF Present
  <2>1. ASSUME NEW c \in Conn, FinishClaim(c) PROVE Registered(reservations'[r].session_id)
    <3>1. Registered(task[c].session_id) /\ GrantClaim(task[c])
      BY <1>1, <2>1 DEF FinishClaim
    <3>2. reservations'[r].session_id = task[c].session_id
      BY <1>1, <3>1 DEF TypeOK, GrantClaim
    <3>. QED
      BY <3>1, <3>2
  <2>2. ASSUME NEW c \in Conn, Release(c) PROVE FALSE
    BY <1>1, <2>2 DEF TypeOK, Release, KnownReservations
  <2>3. CASE Restart
    BY <1>1, <2>3 DEF Restart
  <2>4. CASE UNCHANGED reservations
    BY <1>1, <2>4
  <2>. QED
    BY <1>1, <2>1, <2>2, <2>3, <2>4
       DEF Next, vars, BeginRegister, FinishRegister, BeginHeartbeat, FinishHeartbeat,
           BeginClaim, Deregister, Tick
<1>2. TypeOK /\ [Next]_vars =>
        [\A r \in ReservationId : ~Present(r) /\ reservations'[r] # None =>
           Registered(reservations'[r].session_id)]_vars
  BY <1>1
<1>. QED
  BY <1>2, TypeCorrect, PTL DEF Spec, GrantsNeedSession

=============================================================================
