------------------------------ MODULE StoreProps ------------------------------
(***************************************************************************)
(* What the store promises.                                                 *)
(***************************************************************************)
EXTENDS Store

(* Every variable has its type. *)
TypeOK ==
  /\ file \in Tables
  /\ view \in Tables
  /\ state \in {"down", "migrating", "open"}
  /\ call \in Call \cup {None}
  /\ answer # None => answer.query \in Query

(* Another reader of the file, and the daemon that opens it again after a   *)
(* crash at any statement, meets no row that refers to a missing one, no    *)
(* index entry of another pid's session, and no version without its tables. *)
ReferencesResolve ==
  /\ ForeignKeysHold(file)
  /\ \A p \in Pid : file.sessions_by_pid[p] # None => PidOf[file.sessions_by_pid[p]] = p
  /\ file.user_version = SCHEMA_VERSION => file.created

(* Whoever gets the lock finds the connection outside a transaction, after  *)
(* errors and panics too: the next method cannot commit the leftovers of    *)
(* another one (lock() goes on with a poisoned mutex).                      *)
NoOpenTransaction ==
  call = None /\ state # "migrating" => view = file

(* A query answers from committed tables: none sees a session without its   *)
(* index entry, or half of a delete.                                        *)
AnswersAreCommitted ==
  [][answer' # answer /\ answer' # None =>
       answer'.result = Result(answer'.query, file)]_vars

(* What is read back is what was written: the text in the agent_type column *)
(* names one type, also when a custom type is called like a built-in one.   *)
TextIsExact ==
  \A s \in SessionId, type \in Registered :
    At("upsert_session", 2) /\ call.session = s /\ call.type = type =>
      get_session(view, s) = type

(* The file changes by whole operations. *)
Whole == INSTANCE AtomicStore WITH db <- file
ChangesAreWhole == Whole!Spec

=============================================================================
