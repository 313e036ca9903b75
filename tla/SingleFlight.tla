---------------------------- MODULE SingleFlight ----------------------------
(***************************************************************************)
(* What CheckExecutor promises its callers, without promises, timers or    *)
(* maps: every check has at most one call of its adapter outstanding; the  *)
(* caller of a call is answered either by that call or, first, by the      *)
(* deadline; and a call whose caller was answered by the deadline still    *)
(* keeps its check busy until the adapter itself settles.                  *)
(***************************************************************************)

CONSTANT Check

VARIABLE call     \* call[c]: the one adapter call the check may have

Idle    == "idle"       \* no call of the adapter is outstanding
Pending == "pending"    \* outstanding, its callers wait for the answer
Overdue == "overdue"    \* outstanding, its callers were told "timed out"

TypeOK == call \in [Check -> {Idle, Pending, Overdue}]

Init == call = [c \in Check |-> Idle]

\* One synchronous turn of the caller may start the calls of several checks.
Begin(S) ==
  /\ \A c \in S : call[c] = Idle
  /\ call' = [c \in Check |-> IF c \in S THEN Pending ELSE call[c]]

Move(c, from, to) == call[c] = from /\ call' = [call EXCEPT ![c] = to]

Answer(c)  == Move(c, Pending, Idle)
Expire(c)  == Move(c, Pending, Overdue)
Release(c) == Move(c, Overdue, Idle)

Next ==
  \/ \E S \in SUBSET Check : Begin(S)
  \/ \E c \in Check : Answer(c) \/ Expire(c) \/ Release(c)

Spec == Init /\ [][Next]_call
=============================================================================
