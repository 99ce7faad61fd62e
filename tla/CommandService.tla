--------------------------- MODULE CommandService ---------------------------
(***************************************************************************)
(* What a caller of the gateway's POST /api may conclude from its answer:  *)
(* a refused command has not run and never will, a command reported done   *)
(* has run, and of every other one nothing is known: it may still run.     *)
(* After a restart of the gateway a report proves nothing.                 *)
(***************************************************************************)
CONSTANT Request

VARIABLES
  status,   \* new, accepted, refused, done, unknown
  executed, \* the commands that were run
  restarted

vars == <<status, executed, restarted>>

Init == status = [r \in Request |-> "new"] /\ executed = {} /\ restarted = FALSE

Become(R, what) == status' = [r \in Request |-> IF r \in R THEN what ELSE status[r]]

Submit(r) ==
  /\ status[r] = "new"
  /\ \E what \in {"accepted", "refused"} : Become({r}, what)
  /\ UNCHANGED <<executed, restarted>>

Refuse(r) ==
  /\ status[r] = "accepted" /\ r \notin executed /\ Become({r}, "refused")
  /\ UNCHANGED <<executed, restarted>>

\* Also after its caller has given up.
Execute(r) ==
  /\ status[r] \in {"accepted", "unknown"} \/ (status[r] = "done" /\ restarted)
  /\ executed' = executed \cup {r}
  /\ UNCHANGED <<status, restarted>>

Report(r) ==
  /\ status[r] = "accepted" /\ (r \in executed \/ restarted)
  /\ Become({r}, "done")
  /\ UNCHANGED <<executed, restarted>>

GiveUp(R) ==
  /\ \A r \in R : status[r] = "accepted"
  /\ Become(R, "unknown")
  /\ UNCHANGED <<executed, restarted>>

Restart == restarted' = TRUE /\ UNCHANGED <<status, executed>>

Next ==
  \/ \E r \in Request : Submit(r) \/ Refuse(r) \/ Execute(r) \/ Report(r)
  \/ \E R \in SUBSET Request : GiveUp(R)
  \/ Restart

Spec == Init /\ [][Next]_vars
=============================================================================
