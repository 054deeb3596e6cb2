---------------------------- MODULE MCWorkerPool ----------------------------
(* Instances of WorkerPool for TLC. *)
EXTENDS WorkerPool, TLC

CONSTANTS p1, p2, p3, run, s1, s2, s3, s4

TwoCallers == {p1, p2}
ThreeCallers == {p1, p2, p3}
OneSlot == {s1}
FourSlots == {s1, s2, s3, s4}

(* Callers and slots are interchangeable. *)
Symmetry3x4 == Permutations(ThreeCallers) \cup Permutations(FourSlots)
Symmetry2x4 == Permutations(TwoCallers) \cup Permutations(FourSlots)

=============================================================================
