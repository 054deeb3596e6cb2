------------------------------ MODULE PoolLease ------------------------------
(***************************************************************************)
(* What Pool.Execute promises its callers (runtime/internal/workerpool/    *)
(* pool.go): a worker is lent to one caller at a time, at most Limit are   *)
(* lent at once, and once the pool stops no further worker is lent, while  *)
(* those on lease still come back.                                         *)
(***************************************************************************)
EXTENDS Integers, FiniteSets

CONSTANTS
  Callers,  \* goroutines that borrow workers
  Slots,    \* workers
  Limit     \* config.MaxWorkers, 0 for no limit

VARIABLES
  lease,     \* lease[p]: the worker on lease to p, as a set of at most one
  accepting  \* the pool still lends

vars == <<lease, accepting>>

Lent == UNION {lease[p] : p \in Callers}

Init ==
  /\ lease = [p \in Callers |-> {}]
  /\ accepting = TRUE

Lend(p) ==
  /\ accepting
  /\ lease[p] = {}
  /\ Limit = 0 \/ Cardinality(Lent) < Limit
  /\ \E w \in Slots \ Lent : lease' = [lease EXCEPT ![p] = {w}]
  /\ UNCHANGED accepting

Return(p) ==
  /\ lease[p] # {}
  /\ lease' = [lease EXCEPT ![p] = {}]
  /\ UNCHANGED accepting

Close ==
  /\ accepting
  /\ accepting' = FALSE
  /\ UNCHANGED lease

Next == Close \/ \E p \in Callers : Lend(p) \/ Return(p)

Spec == Init /\ [][Next]_vars

=============================================================================
