----------------------------- MODULE AtomicStore -----------------------------
(***************************************************************************)
(* What the store promises to whoever reads its file: it changes by whole   *)
(* operations.  An operation happens at once or, on an error or a crash,    *)
(* not at all; only mark_inbox_read is done message by message.             *)
(***************************************************************************)
EXTENDS StoreTables

VARIABLE db  \* the tables in the file

Init == db = NoTables

Migrate == db' = SetVersion(CreateTables(db))

UpsertSession ==
  \E s \in SessionId, type \in Registered : db' = PutIndex(PutSession(db, s, type), s)

(* The index entry of the session's pid goes as well, whoever's it is now.  *)
DeleteSession ==
  \E s \in SessionId : HasSession(db, s) /\ db' = DropIndex(DropSession(db, s), PidOf[s])

UpsertReservation ==
  \E r \in ReservationId, s \in SessionId : HasSession(db, s) /\ db' = PutReservation(db, r, s)

DeleteReservation == \E r \in ReservationId : db' = DropReservation(db, r)

UpsertLiveState == \E s \in SessionId : HasSession(db, s) /\ db' = PutLiveState(db, s)

InsertMessage ==
  \E m \in MessageId, flag \in Flag : db' = PutMessage(db, m, flag)

MarkOneRead == \E m \in MessageId : db' = MarkRead(db, m)

UpsertThread ==
  \E h \in ThreadId, s \in SessionId, status \in ThreadStatus :
    (HasThread(db, h) \/ HasSession(db, s)) /\ db' = PutThread(db, h, s, status)

DeleteThread == \E h \in ThreadId : db' = DropThreads(db, {h})

AddMember ==
  \E h \in ThreadId, s \in SessionId :
    HasThread(db, h) /\ HasSession(db, s) /\ db' = AddParticipant(db, h, s)

RemoveMember == \E h \in ThreadId, s \in SessionId : db' = RemoveParticipant(db, h, s)

Next ==
  \/ Migrate
  \/ UpsertSession \/ DeleteSession
  \/ UpsertReservation \/ DeleteReservation
  \/ UpsertLiveState
  \/ InsertMessage \/ MarkOneRead
  \/ UpsertThread \/ DeleteThread \/ AddMember \/ RemoveMember

Spec == Init /\ [][Next]_db

=============================================================================
