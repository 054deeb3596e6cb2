------------------------------- MODULE MCQueue -------------------------------
(* Instances of QueueService for TLC. *)
EXTENDS QueueService

CONSTANTS qa, qb, j1, j2, h1, h2

OneQueue == {qa}
OtherQueue == {qb}
TwoQueues == {qa, qb}
TwoJobs == {j1, j2}
TwoHandlers == {h1, h2}

AllInA == [j \in Jobs |-> qa]

=============================================================================
