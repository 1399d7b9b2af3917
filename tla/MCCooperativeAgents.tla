------------------------ MODULE MCCooperativeAgents ------------------------
(* Instances of the core with its agents for TLC. *)
EXTENDS CooperativeAgentsProps, TLC

Symmetry == Permutations(Conn) \cup Permutations(SessionId)
              \cup Permutations(ReservationId) \cup Permutations(Pid)

=============================================================================
