------------------------------ MODULE JobFlight ------------------------------
(***************************************************************************)
(* What the queue service promises the PHP queue about each job            *)
(* (runtime/internal/queue/queue.go): a job is in hand once at a time,     *)
(* runs once while it is, and is reported at most once, after it has run   *)
(* and by what became of it; a service that has returned has nothing in    *)
(* hand and takes nothing more.                                            *)
(***************************************************************************)

CONSTANT Jobs

VARIABLES
  hand,    \* hand[j]: where the process has j in hand, as a set of at most
           \* one place
  store,   \* the PHP queue's view of each job
  over     \* the service has returned

vars == <<hand, store, over>>

Init ==
  /\ hand = [j \in Jobs |-> {}]
  /\ store = [j \in Jobs |-> "ready"]
  /\ over = FALSE

Moves(j, from, to) == hand[j] = from /\ hand' = [hand EXCEPT ![j] = to]

(* The PHP queue hands jobs out, and hands out again one that was reserved *)
(* for too long.                                                           *)
Pull(S) ==
  /\ ~over
  /\ \A j \in S : store[j] = "ready"
  /\ store' = [j \in Jobs |-> IF j \in S THEN "reserved" ELSE store[j]]
  /\ UNCHANGED <<hand, over>>

Redeliver(j) ==
  /\ store[j] = "reserved"
  /\ store' = [store EXCEPT ![j] = "ready"]
  /\ UNCHANGED <<hand, over>>

Take(j) == ~over /\ Moves(j, {}, {"picked"}) /\ UNCHANGED <<store, over>>
Begin(j) == Moves(j, {"picked"}, {"exec"}) /\ UNCHANGED <<store, over>>
Succeed(j) == Moves(j, {"exec"}, {"ack"}) /\ UNCHANGED <<store, over>>
Fail(j) == Moves(j, {"exec"}, {"fail"}) /\ UNCHANGED <<store, over>>

(* A report reaches the PHP queue, or is lost: it is not sent again. *)
Acked(j) ==
  /\ Moves(j, {"ack"}, {"release"})
  /\ store' = [store EXCEPT ![j] = "settled"]
  /\ UNCHANGED over
Failed(j) ==
  /\ Moves(j, {"fail"}, {"release"})
  /\ \E outcome \in {"ready", "settled"} : store' = [store EXCEPT ![j] = outcome]
  /\ UNCHANGED over
Lost(j) ==
  /\ \E report \in {"ack", "fail"} : Moves(j, {report}, {"release"})
  /\ UNCHANGED <<store, over>>

Release(j) == Moves(j, {"release"}, {}) /\ UNCHANGED <<store, over>>

Return ==
  /\ \A j \in Jobs : hand[j] = {}
  /\ over' = TRUE
  /\ UNCHANGED <<hand, store>>

JobNext(j) ==
  \/ Redeliver(j) \/ Take(j) \/ Begin(j) \/ Succeed(j) \/ Fail(j)
  \/ Acked(j) \/ Failed(j) \/ Lost(j) \/ Release(j)

Next == Return \/ (\E S \in SUBSET Jobs : Pull(S)) \/ \E j \in Jobs : JobNext(j)

Spec == Init /\ [][Next]_vars

=============================================================================
