----------------------------- MODULE MCConnection -----------------------------
(* Instances of the connection for TLC. *)
EXTENDS Connection, TLC

=============================================================================
