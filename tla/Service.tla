------------------------------- MODULE Service -------------------------------
(***************************************************************************)
(* What app.Run may count on with a service that it runs beside the others *)
(* (runtime/internal/app/app.go: the Run method of the scheduler and of    *)
(* the queue service): it works until it is cancelled or fails; from then  *)
(* on it begins nothing; it returns when what it had begun has ended, and  *)
(* without an error only if it was cancelled.                              *)
(***************************************************************************)

CONSTANT Work   \* what it may have in hand

VARIABLES
  at,        \* where Run is
  cancelled, \* its context is cancelled
  busy       \* what it has in hand

vars == <<at, cancelled, busy>>

Init == at = "running" /\ cancelled = FALSE /\ busy = {}

Cancel == cancelled' = TRUE /\ UNCHANGED <<at, busy>>

Begin(w) ==
  /\ at = "running"
  /\ busy' = busy \cup {w}
  /\ UNCHANGED <<at, cancelled>>

End(w) ==
  /\ busy' = busy \ {w}
  /\ UNCHANGED <<at, cancelled>>

Moves(from, to) == at = from /\ at' = to /\ UNCHANGED <<cancelled, busy>>

SeeCancel == cancelled /\ Moves("running", "ending")
Error == Moves("running", "failing")
Return == busy = {} /\ (Moves("ending", "returned") \/ Moves("failing", "failed"))

(* The process ends, and the service with it. *)
Dies == at' = "gone" /\ cancelled' = TRUE /\ busy' = {}

Next ==
  \/ Cancel \/ SeeCancel \/ Error \/ Return \/ Dies
  \/ \E w \in Work : Begin(w) \/ End(w)

Spec == Init /\ [][Next]_vars

=============================================================================
