----------------------------- MODULE MCFrontEnds -----------------------------
(* An instance of the front ends for TLC. *)
EXTENDS FrontEndsProps

MCVariant == {[word |-> "known", full |-> TRUE], [word |-> "unknown", full |-> FALSE]}

(* The agent, whose connection outlives its calls, is the second of each    *)
(* pair.                                                                    *)
MCTogether == {{Bridge}, {Cli}, {Agent}, {Bridge, Agent}, {Cli, Agent}}

=============================================================================
