---------------------------- MODULE AdvisoryLocks ----------------------------
(***************************************************************************)
(* What the reservations are for (README: "so two agents never edit the     *)
(* same hunk concurrently"): a table of who uses which path how, in which   *)
(* no two agents use one path in modes that exclude each other.  There is   *)
(* no daemon here, no message and no clock.                                 *)
(***************************************************************************)

CONSTANTS Agent, Path

(* The modes of a reservation, and which of them exclude each other.        *)
UseMode == {"read", "write", "exclusive"}

Exclude(a, b) ==
  \/ "exclusive" \in {a, b}
  \/ a = "write" /\ b = "write"

Use == [agent: Agent, path: Path, mode: UseMode]

VARIABLE uses  \* the uses under way

Init == uses = {}

Begin(u) ==
  /\ \A v \in uses : v.agent # u.agent /\ v.path = u.path => ~Exclude(u.mode, v.mode)
  /\ uses' = uses \cup {u}

(* An agent is done, or its lease ran out; several may end at one moment.   *)
End == uses' \subseteq uses

Next == End \/ \E u \in Use : Begin(u)

Spec == Init /\ [][Next]_uses

=============================================================================
