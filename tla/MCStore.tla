------------------------------- MODULE MCStore -------------------------------
(* Instances of the store for TLC. *)
EXTENDS StoreProps, TLC

CONSTANTS s1, s2, p1, m1, m2, h1

(* Two sessions of one pid, one after the other; a message within a thread  *)
(* and one outside.                                                         *)
MCPidOf == s1 :> p1 @@ s2 :> p1
MCRecipient == m1 :> s1 @@ m2 :> s2
MCThreadOf == m1 :> h1 @@ m2 :> None

(* A built-in type, and a custom one that is called like it. *)
MCRegistered == {[kind |-> "codex"], [kind |-> "custom", name |-> "codex"]}

=============================================================================
