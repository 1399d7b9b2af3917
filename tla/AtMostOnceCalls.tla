--------------------------- MODULE AtMostOnceCalls ---------------------------
(***************************************************************************)
(* What an agent may rely on when it calls the daemon: a call is executed   *)
(* once or not at all, and what it returns is the reply to its own request, *)
(* executed by then.  A call that fails leaves open which; its request may  *)
(* still be executed, even during a later call.  There is no connection     *)
(* here, no message and no shutdown.                                        *)
(***************************************************************************)
EXTENDS Naturals, Sequences

VARIABLES
  call,     \* number of the latest call
  busy,     \* it is under way
  executed, \* the calls executed so far, in order
  got       \* the call whose reply was returned last, or 0

vars == <<call, busy, executed, got>>

WasExecuted(n) == \E i \in DOMAIN executed : executed[i] = n

Init ==
  /\ call = 0
  /\ busy = FALSE
  /\ executed = <<>>
  /\ got = 0

Begin ==
  /\ ~busy
  /\ call' = call + 1
  /\ busy' = TRUE
  /\ UNCHANGED <<executed, got>>

(* Possibly long after the caller gave up. *)
Execute(n) ==
  /\ ~WasExecuted(n)
  /\ executed' = Append(executed, n)
  /\ UNCHANGED <<call, busy, got>>

Return ==
  /\ busy
  /\ WasExecuted(call)
  /\ got' = call
  /\ busy' = FALSE
  /\ UNCHANGED <<call, executed>>

Fail ==
  /\ busy
  /\ busy' = FALSE
  /\ UNCHANGED <<call, executed, got>>

Next == Begin \/ Return \/ Fail \/ \E n \in 1..call : Execute(n)

Spec == Init /\ [][Next]_vars

=============================================================================
