--------------------------- MODULE MCCoordinator ---------------------------
(* Instances of the core for TLC. *)
EXTENDS CoordinatorProps, TLC

Symmetry == Permutations(Conn) \cup Permutations(SessionId)
              \cup Permutations(ReservationId) \cup Permutations(Pid)

=============================================================================
