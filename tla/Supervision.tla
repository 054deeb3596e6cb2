----------------------------- MODULE Supervision -----------------------------
(***************************************************************************)
(* What a master and the Go process it starts promise each other, and      *)
(* what an operator may count on (src/Master.php with app/app.go):         *)
(* generations start one after the other, each once; a master starts its   *)
(* process once, and goes before it only if it is killed; a process that   *)
(* was told to stop asks its master for nothing new, and one that ends     *)
(* without an error was told to and has finished what it had in hand.      *)
(***************************************************************************)
EXTENDS Naturals

CONSTANT Gens

VARIABLES
  master,   \* master[g]: off, up or gone
  process,  \* process[g]: off, up, or how it ended
  told,     \* the processes that were told to stop, or have ended
  asking,   \* the processes with a request to their master in progress
  busy,     \* the processes with a task in hand
  lost      \* history: the masters that were killed

vars == <<master, process, told, asking, busy, lost>>

Init ==
  /\ master = [g \in Gens |-> IF g = 1 THEN "up" ELSE "off"]
  /\ process = [g \in Gens |-> "off"]
  /\ told = {}
  /\ asking = {}
  /\ busy = {}
  /\ lost = {}

-----------------------------------------------------------------------------
MasterMoves(g, from, to) == master[g] = from /\ master' = [master EXCEPT ![g] = to]

StartMaster(g) ==
  /\ \A k \in Gens : k < g => master[k] # "off"
  /\ MasterMoves(g, "off", "up")
  /\ UNCHANGED <<process, told, asking, busy, lost>>

StartProcess(g) ==
  /\ master[g] = "up"
  /\ process[g] = "off"
  /\ process' = [process EXCEPT ![g] = "up"]
  /\ UNCHANGED <<master, told, asking, busy, lost>>

(* A master that leaves has not started its process or has seen it end. *)
Leave(g) ==
  /\ process[g] # "up"
  /\ MasterMoves(g, "up", "gone")
  /\ UNCHANGED <<process, told, asking, busy, lost>>

MasterKilled(g) ==
  /\ MasterMoves(g, "up", "gone")
  /\ lost' = lost \cup {g}
  /\ UNCHANGED <<process, told, asking, busy>>

-----------------------------------------------------------------------------
Tell(g) ==
  /\ process[g] = "up"
  /\ told' = told \cup {g}
  /\ UNCHANGED <<master, process, asking, busy, lost>>

Ask(g) ==
  /\ process[g] = "up"
  /\ g \notin told
  /\ asking' = asking \cup {g}
  /\ UNCHANGED <<master, process, told, busy, lost>>

(* The request ends, with a task or without. *)
Answer(g) ==
  /\ process[g] = "up"
  /\ g \in asking
  /\ asking' = asking \ {g}
  /\ busy' \in {busy, busy \cup {g}}
  /\ UNCHANGED <<master, process, told, lost>>

Finish(g) ==
  /\ process[g] = "up"
  /\ g \in busy
  /\ busy' = busy \ {g}
  /\ UNCHANGED <<master, process, told, asking, lost>>

EndProcess(g, how) ==
  /\ process[g] = "up"
  /\ process' = [process EXCEPT ![g] = how]
  /\ told' = told \cup {g}
  /\ asking' = asking \ {g}
  /\ busy' = busy \ {g}
  /\ UNCHANGED lost

Exit(g) ==
  /\ g \in told \ (asking \cup busy)
  /\ EndProcess(g, "exited")
  /\ UNCHANGED master

Fail(g) == \E how \in {"failed", "killed"} : EndProcess(g, how) /\ UNCHANGED master

(* The master waits three seconds, kills its process and leaves. *)
KillAndLeave(g) == EndProcess(g, "killed") /\ MasterMoves(g, "up", "gone")

-----------------------------------------------------------------------------
Next ==
  \E g \in Gens :
    \/ StartMaster(g) \/ StartProcess(g) \/ Leave(g) \/ MasterKilled(g)
    \/ Tell(g) \/ Ask(g) \/ Answer(g) \/ Finish(g)
    \/ Exit(g) \/ Fail(g) \/ KillAndLeave(g)

Spec == Init /\ [][Next]_vars

=============================================================================
