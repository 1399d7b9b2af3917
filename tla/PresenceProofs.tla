---------------------------- MODULE PresenceProofs ----------------------------
(***************************************************************************)
(* Proofs that discover.agents shows nobody with a snapshot of another life *)
(* and misses nobody, for any number of sessions, paths and branches.       *)
(*                                                                         *)
(* `sessions` and `live_state` are joined by id only; what holds them       *)
(* together is that an id is minted before it is published and that a       *)
(* minted id whose session is gone never gets one again.                    *)
(***************************************************************************)
EXTENDS Presence, TLAPS

(* Ids in either map were minted. *)
OnlyMinted == \A sid \in SessionId : Registered(sid) \/ Published(sid) => sid \in minted

(* No session begins in the future. *)
StartsInThePast == \A sid \in SessionId : Registered(sid) => sessions[sid].started_at <= clock

(* The daemon has what was announced last. *)
AnnouncedIsLive ==
  \A sid \in SessionId : announced[sid] # None =>
    Published(sid) /\ live_state[sid].focus_file = announced[sid].focus

PInv ==
  /\ TypeOK
  /\ OnlyMinted /\ StartsInThePast
  /\ SnapshotWithinSession
  /\ AnnouncedIsLive

-----------------------------------------------------------------------------

USE SessionTableAssumption, PresenceAssumption, NoneAssumption

(* What lies under a directory has the directory's text as a prefix. *)
LEMMA UnderIsPrefix ==
  ASSUME NEW d \in Path, NEW p \in Path, Under(p, d)
  PROVE  IsPrefix(d, p)
<1>1. d \in Seq(Token) /\ p \in Seq(Token)
  OBVIOUS
<1>2. CASE p = d
  BY <1>1, <1>2 DEF IsPrefix
<1>3. CASE IsPrefix(Append(d, "/"), p)
  <2>. DEFINE e == Append(d, "/")
  <2>1. e \in Seq(Token) /\ Len(e) = Len(d) + 1 /\ \A i \in 1..Len(d) : e[i] = d[i]
    <3>1. \A x \in Token : /\ Append(d, x) \in Seq(Token) /\ Len(Append(d, x)) = Len(d) + 1
                            /\ \A i \in 1..Len(d) : Append(d, x)[i] = d[i]
      BY <1>1
    <3>. QED
      BY <3>1
  <2>. HIDE DEF e
  <2>2. Len(e) <= Len(p) /\ SubSeq(e, 1, Len(e)) = SubSeq(p, 1, Len(e))
    BY <1>3 DEF IsPrefix, e
  <2>3. \A i \in 1..Len(e) : SubSeq(e, 1, Len(e))[i] = e[i] /\ SubSeq(p, 1, Len(e))[i] = p[i]
    BY <1>1, <2>1, <2>2
  <2>4. \A i \in 1..Len(d) : d[i] = p[i]
    BY <1>1, <2>1, <2>2, <2>3
  <2>5. SubSeq(d, 1, Len(d)) = SubSeq(p, 1, Len(d))
    BY <1>1, <2>1, <2>2, <2>4
  <2>. QED
    BY <1>1, <2>1, <2>2, <2>5 DEF IsPrefix
<1>. QED
  BY <1>2, <1>3 DEF Under

(* A registration makes a session of an id that was never published, or     *)
(* stamps the session there is.                                             *)
LEMMA RegisterKeeps == ASSUME PInv, Register PROVE PInv'
<1>1. PICK pid \in Pid, profile \in Profile : RegisterSession(pid, profile, clock)
  BY DEF Register
<1>2. UNCHANGED <<clock, live_state, announced>>
  BY DEF Register, presence_vars
<1>3. CASE HasSession(pid) /\ ReuseSession(pid, clock)
  <2>. DEFINE sid == sessions_by_pid[pid]
  <2>1. sid \in SessionId /\ Registered(sid) /\ UNCHANGED <<sessions_by_pid, minted>>
    BY <1>3 DEF HasSession, ReuseSession, PInv, TypeOK
  <2>2. sessions' = [sessions EXCEPT ![sid].last_heartbeat = clock]
    BY <1>3 DEF ReuseSession
  <2>. HIDE DEF sid
  <2>3. /\ sessions' \in [SessionId -> Session \cup {None}]
        /\ \A s \in SessionId : Registered(s)' <=> Registered(s)
        /\ \A s \in SessionId : Registered(s) => sessions'[s].started_at = sessions[s].started_at
    BY <2>1, <2>2 DEF PInv, TypeOK, Registered, Session
  <2>. QED
    BY <1>2, <2>1, <2>3
    DEF PInv, TypeOK, OnlyMinted, StartsInThePast, SnapshotWithinSession, AnnouncedIsLive, Published
<1>4. CASE InsertNewSession(pid, profile, clock)
  <2>1. PICK id \in SessionId \ minted :
          /\ minted' = minted \cup {id}
          /\ sessions' = [sessions EXCEPT ![id] =
                            [pid |-> pid, profile |-> profile,
                             started_at |-> clock, last_heartbeat |-> clock]]
          /\ sessions_by_pid' = [sessions_by_pid EXCEPT ![pid] = id]
    BY <1>4 DEF InsertNewSession
  <2>2. TypeOK'
    BY <1>2, <2>1 DEF PInv, TypeOK, Session
  <2>3. \A s \in SessionId : s # id => sessions'[s] = sessions[s]
    BY <2>1 DEF PInv, TypeOK
  <2>4. Registered(id)' /\ sessions'[id].started_at = clock /\ ~Published(id)
    BY <2>1 DEF PInv, TypeOK, OnlyMinted, Registered, Session
  <2>5. OnlyMinted' /\ StartsInThePast'
    BY <1>2, <2>1, <2>3, <2>4 DEF PInv, TypeOK, OnlyMinted, StartsInThePast, Registered, Published
  <2>6. SnapshotWithinSession' /\ AnnouncedIsLive'
    BY <1>2, <2>1, <2>3, <2>4
    DEF PInv, SnapshotWithinSession, AnnouncedIsLive, Registered, Published
  <2>. QED
    BY <2>2, <2>5, <2>6 DEF PInv
<1>. QED
  BY <1>1, <1>3, <1>4 DEF RegisterSession

(* Deregister and heartbeat make no session and move no start. *)
LEMMA TableKeeps == ASSUME PInv, Deregister \/ Heartbeat PROVE PInv'
<1>1. /\ sessions' \in [SessionId -> Session \cup {None}]
      /\ sessions_by_pid' \in [Pid -> SessionId \cup {None}]
      /\ UNCHANGED <<minted, clock, live_state, announced>>
      /\ \A s \in SessionId : Registered(s)' =>
           Registered(s) /\ sessions'[s].started_at = sessions[s].started_at
  <2>1. CASE Deregister
    BY <2>1 DEF Deregister, DeregisterSession, PInv, TypeOK, Registered, table_vars, presence_vars, Session
  <2>2. CASE Heartbeat
    BY <2>2 DEF Heartbeat, HeartbeatSession, PInv, TypeOK, Registered, table_vars, presence_vars, Session
  <2>. QED
    BY <2>1, <2>2
<1>. QED
  BY <1>1
  DEF PInv, TypeOK, OnlyMinted, StartsInThePast, SnapshotWithinSession, AnnouncedIsLive, Published

(* A snapshot is stamped while its session is registered. *)
LEMMA SetStateKeeps == ASSUME PInv, SetState PROVE PInv'
<1>1. PICK sid \in SessionId, focus \in Path \cup {None}, branch \in Branch \cup {None},
           status \in AgentStatus :
        /\ StoreState(sid, focus, branch, status)
        /\ announced' = [announced EXCEPT ![sid] = [focus |-> focus, branch |-> branch]]
  BY DEF SetState
<1>. DEFINE snapshot == [focus_file |-> focus, focus_branch |-> branch,
                         status |-> status, last_heartbeat |-> clock]
<1>2. /\ Registered(sid) /\ snapshot \in LiveState /\ snapshot # None
      /\ snapshot.last_heartbeat = clock /\ snapshot.focus_file = focus
      /\ live_state' = [live_state EXCEPT ![sid] = snapshot]
      /\ UNCHANGED <<sessions, sessions_by_pid, minted, clock>>
  BY <1>1 DEF StoreState, table_vars, LiveState, PInv, TypeOK
<1>3. [focus |-> focus, branch |-> branch] \in Announcement
  BY DEF Announcement
<1>. HIDE DEF snapshot
<1>4. TypeOK'
  BY <1>1, <1>2, <1>3 DEF PInv, TypeOK
<1>5. OnlyMinted' /\ StartsInThePast'
  BY <1>2 DEF PInv, TypeOK, OnlyMinted, StartsInThePast, Registered, Published
<1>6. SnapshotWithinSession'
  BY <1>2 DEF PInv, TypeOK, StartsInThePast, SnapshotWithinSession, Registered, Published
<1>7. AnnouncedIsLive'
  BY <1>1, <1>2 DEF PInv, TypeOK, AnnouncedIsLive, Published
<1>. QED
  BY <1>4, <1>5, <1>6, <1>7 DEF PInv

(* Time moves on. *)
LEMMA TickKeeps == ASSUME PInv, Tick \/ UNCHANGED vars PROVE PInv'
<1>1. clock' \in Nat /\ clock <= clock' /\ UNCHANGED <<table_vars, live_state, announced>>
  BY DEF Tick, vars, presence_vars, PInv, TypeOK
<1>2. \A sid \in SessionId : /\ Registered(sid) => sessions[sid].started_at \in Nat
                             /\ Published(sid) => live_state[sid].last_heartbeat \in Nat
  BY DEF PInv, TypeOK, Registered, Published, Session, LiveState
<1>. QED
  BY <1>1, <1>2 DEF PInv, TypeOK, OnlyMinted, StartsInThePast, SnapshotWithinSession,
                    AnnouncedIsLive, Registered, Published, table_vars

-----------------------------------------------------------------------------

(* The strengthening is inductive. *)
THEOREM PresenceInductive == Spec => []PInv
<1>1. Init => PInv
  BY DEF Init, TableInit, PInv, TypeOK, OnlyMinted, StartsInThePast, SnapshotWithinSession,
         AnnouncedIsLive, Registered, Published
<1>2. PInv /\ [Next]_vars => PInv'
  BY RegisterKeeps, TableKeeps, SetStateKeeps, TickKeeps DEF Next
<1>. QED
  BY <1>1, <1>2, PTL DEF Spec

(* Every variable keeps its type. *)
THEOREM PresenceTypeCorrect == Spec => []TypeOK
<1>1. PInv => TypeOK
  BY DEF PInv
<1>. QED
  BY <1>1, PresenceInductive, PTL

(* Nobody is shown with a snapshot from outside the session's life. *)
THEOREM SnapshotsAreOfTheSession == Spec => []SnapshotWithinSession
<1>1. PInv => SnapshotWithinSession
  BY DEF PInv
<1>. QED
  BY <1>1, PresenceInductive, PTL

(* Whoever announced a file under a directory is found there, whatever the  *)
(* names: the test on the text covers every path below.                     *)
THEOREM NobodyIsMissed == Spec => []DiscoveryMissesNobody
<1>1. PInv => DiscoveryMissesNobody
  <2>. SUFFICES ASSUME PInv, NEW sid \in SessionId, NEW dir \in Path,
                       Registered(sid), announced[sid] # None, announced[sid].focus # None,
                       Under(announced[sid].focus, dir)
                PROVE  sid \in Discover(dir, None, {})
    BY DEF DiscoveryMissesNobody
  <2>1. announced[sid].focus \in Path
    BY DEF PInv, TypeOK, Announcement
  <2>2. Focus(sid) = announced[sid].focus
    BY DEF PInv, AnnouncedIsLive, Focus
  <2>. QED
    BY <2>1, <2>2, UnderIsPrefix DEF Discover, OnPath
<1>. QED
  BY <1>1, PresenceInductive, PTL

=============================================================================
