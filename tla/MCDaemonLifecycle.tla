-------------------------- MODULE MCDaemonLifecycle --------------------------
(* Instances of the daemon's life cycle for TLC. *)
EXTENDS DaemonLifecycleProps, TLC

Symmetry == Permutations(Proc) \cup Permutations(Pid) \cup Permutations(Stop)

=============================================================================
