----------------------------- MODULE Lifecycle -----------------------------
(***************************************************************************)
(* What close() promises: the kit stops taking requests at once, and the   *)
(* adapters are disposed only when every request it had taken has been     *)
(* answered and no adapter call is outstanding; nothing begins after that. *)
(***************************************************************************)
CONSTANTS Check, Request

VARIABLES
  stage,   \* progress of the kit towards its end
  open,    \* the requests that were taken and not yet answered
  busy     \* the checks whose adapter call is outstanding

lifecycleVars == <<stage, open, busy>>

TypeOK ==
  /\ stage \in {"open", "closing", "disposing", "closed"}
  /\ open \subseteq Request
  /\ busy \subseteq Check

Init == stage = "open" /\ open = {} /\ busy = {}

Accept(r) ==
  /\ stage = "open"
  /\ r \notin open
  /\ open' = open \cup {r}
  /\ UNCHANGED <<stage, busy>>

Answer(r) ==
  /\ r \in open
  /\ open' = open \ {r}
  /\ UNCHANGED <<stage, busy>>

\* Calls begin for the schedule of an open kit and for requests taken before.
Begin(S) ==
  /\ stage = "open" \/ open # {}
  /\ S \cap busy = {}
  /\ busy' = busy \cup S
  /\ UNCHANGED <<stage, open>>

End(c) ==
  /\ c \in busy
  /\ busy' = busy \ {c}
  /\ UNCHANGED <<stage, open>>

Close == stage = "open" /\ stage' = "closing" /\ UNCHANGED <<open, busy>>

Dispose ==
  /\ stage = "closing" /\ open = {} /\ busy = {}
  /\ stage' = "disposing"
  /\ UNCHANGED <<open, busy>>

Finish == stage = "disposing" /\ stage' = "closed" /\ UNCHANGED <<open, busy>>

Next ==
  \/ \E r \in Request : Accept(r) \/ Answer(r)
  \/ \E S \in SUBSET Check : Begin(S)
  \/ \E c \in Check : End(c)
  \/ Close \/ Dispose \/ Finish

Spec == Init /\ [][Next]_lifecycleVars
=============================================================================
