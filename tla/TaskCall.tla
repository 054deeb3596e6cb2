------------------------------- MODULE TaskCall -------------------------------
(***************************************************************************)
(* What the pool may count on when it gives a task to one of its workers   *)
(* (runtime/internal/phpworker/factory.go with src/Worker.php): calls come *)
(* one after the other; PHP starts a call's task at most once, and only    *)
(* while the call is in progress; a call that returns a reply returns that *)
(* of its own task, which has run to its end; one that returns an error    *)
(* leaves nothing of its task behind; and what a call returned is final.   *)
(***************************************************************************)

CONSTANT Calls

VARIABLES
  now,     \* the call in progress, as a set of at most one
  task,    \* where its task is
  result,  \* result[c]: what c has returned
  ready    \* the worker has a process for the next call

vars == <<now, task, result, ready>>

Init ==
  /\ now = {}
  /\ task = "none"
  /\ result = [c \in Calls |-> "none"]
  /\ ready = TRUE

Begin(c) ==
  /\ ready
  /\ now = {}
  /\ result[c] = "none"
  /\ now' = {c}
  /\ task' \in {"sent", "lost"}
  /\ UNCHANGED <<result, ready>>

Run == task = "sent" /\ task' = "running" /\ UNCHANGED <<now, result, ready>>
Reply == task = "running" /\ task' = "replied" /\ UNCHANGED <<now, result, ready>>

(* A deadline, a dead process or a garbled reply, at any moment. *)
Lose ==
  /\ task \in {"sent", "running", "replied"}
  /\ task' = "lost"
  /\ UNCHANGED <<now, result, ready>>

(* The process serves the next call, or a new one does, or none could be   *)
(* started.                                                                *)
Ends(c, what) ==
  /\ now = {c}
  /\ now' = {}
  /\ task' = "none"
  /\ result' = [result EXCEPT ![c] = what]
  /\ ready' \in BOOLEAN

Return(c) == task = "replied" /\ Ends(c, "own reply")
Fail(c) == task = "lost" /\ Ends(c, "error")

Restart ==
  /\ now = {}
  /\ ~ready
  /\ ready' = TRUE
  /\ UNCHANGED <<now, task, result>>

Next ==
  \/ Run \/ Reply \/ Lose \/ Restart
  \/ \E c \in Calls : Begin(c) \/ Return(c) \/ Fail(c)

Spec == Init /\ [][Next]_vars

=============================================================================
