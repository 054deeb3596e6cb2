-------------------------- MODULE WorkerPool_proofs --------------------------
(***************************************************************************)
(* Proofs about WorkerPool, for every number of callers, slots and every   *)
(* configuration the clamps of config.Load allow.                          *)
(***************************************************************************)
EXTENDS WorkerPool, FiniteSetTheorems, TLAPS

(* Where a caller holds nothing, exactly one worker, or a reservation. *)
Empty == {"out", "acquire", "wait", "syncClose", "syncReturn", "close"}
Holding == {"exec", "release", "recycle", "recheck", "retire", "respawn",
            "respawnFailed", "readd"}
Growing == {"spawn", "spawnFailed", "spawned"}
Tail == {"syncSignal", "signal"}

(* What a caller's place in the code says about the slots it owns.         *)
CallerShape(p) ==
  /\ pc[p] \in Empty => own[p] = {}
  /\ pc[p] \in Holding => \E w \in Slots : own[p] = {w}
  /\ pc[p] \in Tail => own[p] = {} \/ \E w \in Slots : own[p] = {w}
  /\ pc[p] \in Growing => own[p] # {}
  /\ pc[p] \notin {"syncClose", "close"} => dying[p] = {}
  /\ pc[p] \in {"retire", "syncClose", "syncReturn", "close"} => shutdown
  /\ ~started => pc[p] = "out"

(* The same for Runner: only a bootstrap owns slots, and it runs before    *)
(* any call is let in.                                                     *)
RunnerShape ==
  /\ pc[Runner] \notin Growing => own[Runner] = {}
  /\ pc[Runner] \notin {"shrinkClose", "stopClose"} => dying[Runner] = {}
  /\ pc[Runner] \in Growing => /\ ~started
                               /\ idle = {}
                               /\ total = 0
                               /\ Cardinality(own[Runner]) = MinWorkers
  /\ shutdown => pc[Runner] \in {"stopClose", "done"}

(* Which processes run, by the place of the goroutine that owns the slots. *)
Running ==
  /\ idle \subseteq open
  /\ \A a \in Agents :
       /\ pc[a] \in {"spawned", "exec", "release", "readd", "syncSignal",
                     "signal"} => own[a] \subseteq open
       /\ pc[a] \in {"spawnFailed", "recheck", "retire", "respawn",
                     "respawnFailed"} => own[a] \cap open = {}

Shape == RunnerShape /\ \A p \in Callers : CallerShape(p)

(* The inductive invariant. TypeOK and Accounting need Shape (what a       *)
(* goroutine owns at each place); NoOrphan and OnlyRunningWorkersServe     *)
(* need Running.                                                           *)
IInv ==
  /\ TypeOK
  /\ Shape
  /\ ExclusiveLease
  /\ Running
  /\ NoOrphan
  /\ Accounting
  /\ NothingIdleAfterStop
-----------------------------------------------------------------------------
(* Facts about cardinalities. *)

(* Any set of slots is finite. *)
LEMMA SlotsFinite ==
  ASSUME NEW S \in SUBSET Slots
  PROVE  IsFiniteSet(S) /\ Cardinality(S) \in Nat
BY SlotsAreFinite, FS_Subset, FS_CardinalityType

(* The slots counted by total are finitely many. *)
LEMMA CountedFinite == IsFiniteSet(Counted) /\ Cardinality(Counted) \in Nat
BY SlotsFinite DEF Counted

(* Taking workers out of a set (shrinkIdle, release after stop). *)
LEMMA TakeOut ==
  ASSUME NEW S, IsFiniteSet(S), NEW T \in SUBSET S
  PROVE  Cardinality(S \ T) = Cardinality(S) - Cardinality(T)
<1>1. S \cap T = T
  OBVIOUS
<1> QED
  BY <1>1, FS_Difference

(* Adding workers that are not yet in a set (reserveGrowthLocked). *)
LEMMA PutIn ==
  ASSUME NEW S, IsFiniteSet(S), NEW T, IsFiniteSet(T), S \cap T = {}
  PROVE  Cardinality(S \cup T) = Cardinality(S) + Cardinality(T)
<1>1. Cardinality(S \cap T) = 0
  BY FS_EmptySet
<1>2. Cardinality(S) \in Nat /\ Cardinality(T) \in Nat
  BY FS_CardinalityType
<1>3. Cardinality(S \cup T)
        = Cardinality(S) + Cardinality(T) - Cardinality(S \cap T)
  BY FS_Union
<1> QED
  BY <1>1, <1>2, <1>3

(* A reservation of at least one worker is not empty. *)
LEMMA SlotSetsNonempty ==
  ASSUME NEW n \in Nat \ {0}, NEW S \in SlotSets(n)
  PROVE  S # {} /\ S \subseteq Slots
BY FS_EmptySet DEF SlotSets

(* What reserveGrowthLocked grants: nothing only when the pool is full.    *)
LEMMA GrowthRange ==
  ASSUME TypeOK
  PROVE  /\ Growth \in Nat
         /\ Growth = 0 => MaxWorkers > 0 /\ MaxWorkers <= total
         /\ MaxWorkers > 0 /\ Growth > 0 => total + Growth <= MaxWorkers
BY ClampedConfig DEF Growth, TypeOK

-----------------------------------------------------------------------------
(* The initial states. *)

(* The pool as New leaves it, with Run about to bootstrap, satisfies IInv. *)
LEMMA InitInv == Init => IInv
<1> SUFFICES ASSUME Init PROVE IInv
  OBVIOUS
<1> USE RunnerIsNoCaller DEF Init, Agents
<1>1. PICK S \in SlotSets(MinWorkers) :
        own = [a \in Agents |-> IF a = Runner THEN S ELSE {}]
  BY DEF Init
<1>2. S \subseteq Slots /\ S # {} /\ Cardinality(S) = MinWorkers
  BY ClampedConfig, <1>1, SlotSetsNonempty DEF SlotSets
<1>3. TypeOK
  BY <1>1, <1>2 DEF TypeOK, CallerLabels, RunnerLabels
<1>4. Shape
  BY <1>1, <1>2 DEF Shape, RunnerShape, CallerShape, Empty, Holding, Growing,
     Tail
<1>5. ExclusiveLease /\ Running /\ NoOrphan /\ NothingIdleAfterStop
  BY <1>1 DEF ExclusiveLease, Running, NoOrphan, NothingIdleAfterStop
<1>6. Counted = {}
  BY <1>1 DEF Counted
<1>7. Accounting
  BY <1>6, FS_EmptySet DEF Accounting
<1> QED
  BY <1>3, <1>4, <1>5, <1>7 DEF IInv

-----------------------------------------------------------------------------
(* Each part of IInv is preserved by every step.  The steps that change    *)
(* what the part is about come one by one, the others together.            *)

(* A worker is handed over whole under p.mu: whoever lists, takes or drops *)
(* it gives it up in the same step.                                        *)
LEMMA ExclusiveStep ==
  ASSUME IInv, [Next]_vars
  PROVE  ExclusiveLease'
<1> USE RunnerIsNoCaller DEF IInv, TypeOK, Goto, Agents, ExclusiveLease,
   Free, Shape, CallerShape, RunnerShape, Empty, Holding, Growing, Tail
<1>1. ASSUME BootList PROVE ExclusiveLease'
  BY <1>1 DEF BootList
<1>2. ASSUME ShrinkIdle PROVE ExclusiveLease'
  BY <1>2 DEF ShrinkIdle
<1>3. ASSUME Stop PROVE ExclusiveLease'
  BY <1>3 DEF Stop
<1>4. ASSUME RunnerClose PROVE ExclusiveLease'
  BY <1>4 DEF RunnerClose
<1>5. ASSUME NEW p \in Callers, TakeIdle(p) PROVE ExclusiveLease'
  BY <1>5 DEF TakeIdle
<1>6. ASSUME NEW p \in Callers, Reserve(p) PROVE ExclusiveLease'
  BY <1>6 DEF Reserve
<1>7. ASSUME NEW p \in Callers, GrowFailed(p) PROVE ExclusiveLease'
  BY <1>7 DEF GrowFailed
<1>8. ASSUME NEW p \in Callers, GrowRefused(p) PROVE ExclusiveLease'
  BY <1>8 DEF GrowRefused
<1>9. ASSUME NEW p \in Callers, GrowDone(p) PROVE ExclusiveLease'
  BY <1>9 DEF GrowDone
<1>10. ASSUME NEW p \in Callers, Release(p) PROVE ExclusiveLease'
  BY <1>10 DEF Release
<1>11. ASSUME NEW p \in Callers, ReleaseStopped(p) PROVE ExclusiveLease'
  BY <1>11 DEF ReleaseStopped
<1>12. ASSUME NEW p \in Callers, Retire(p) PROVE ExclusiveLease'
  BY <1>12 DEF Retire
<1>13. ASSUME NEW p \in Callers, ListReplacement(p) PROVE ExclusiveLease'
  BY <1>13 DEF ListReplacement
<1>14. ASSUME NEW p \in Callers, CloseRemoved(p) PROVE ExclusiveLease'
  BY <1>14 DEF CloseRemoved
<1>15. ASSUME UNCHANGED <<own, dying, idle>> PROVE ExclusiveLease'
  BY <1>15
<1> QED
  BY <1>1, <1>2, <1>3, <1>4, <1>5, <1>6, <1>7, <1>8, <1>9, <1>10, <1>11,
     <1>12, <1>13, <1>14, <1>15 DEF Next, RunnerNext, AcquireNext, GrowNext,
     WorkNext, RecycleNext, TailNext, CallNext, Exited, Agents, vars, SpawnOne,
     SpawnFail, BootSync, BootOpen, Cancel, ShrinkSync, Enter, AcquireRefused,
     Block, Wake, GiveUp, TaskDone, TaskSpoilsWorker, RecycleClose,
     RecycleCheck, Respawn, RespawnFail, SyncCurrent, Signal

(* No step drops a running process: it stays listed, or with a goroutine. *)
LEMMA NoOrphanStep ==
  ASSUME IInv, [Next]_vars
  PROVE  NoOrphan'
<1> USE RunnerIsNoCaller DEF IInv, TypeOK, Goto, Agents, Shape, CallerShape,
   RunnerShape, Empty, Holding, Growing, Tail, NoOrphan, Kept, Free, Running
<1>1. ASSUME NEW a \in Agents, SpawnOne(a) PROVE NoOrphan'
  BY <1>1 DEF SpawnOne
<1>2. ASSUME NEW a \in Agents, SpawnFail(a) PROVE NoOrphan'
  BY <1>2 DEF SpawnFail
<1>3. ASSUME BootList PROVE NoOrphan'
  BY <1>3 DEF BootList
<1>4. ASSUME ShrinkIdle PROVE NoOrphan'
  BY <1>4 DEF ShrinkIdle
<1>5. ASSUME Stop PROVE NoOrphan'
  BY <1>5 DEF Stop
<1>6. ASSUME RunnerClose PROVE NoOrphan'
  BY <1>6 DEF RunnerClose
<1>7. ASSUME NEW p \in Callers, TakeIdle(p) PROVE NoOrphan'
  BY <1>7 DEF TakeIdle
<1>8. ASSUME NEW p \in Callers, Reserve(p) PROVE NoOrphan'
  BY <1>8 DEF Reserve
<1>9. ASSUME NEW p \in Callers, GrowFailed(p) PROVE NoOrphan'
  BY <1>9 DEF GrowFailed
<1>10. ASSUME NEW p \in Callers, GrowRefused(p) PROVE NoOrphan'
  BY <1>10 DEF GrowRefused
<1>11. ASSUME NEW p \in Callers, GrowDone(p) PROVE NoOrphan'
  BY <1>11 DEF GrowDone
<1>12. ASSUME NEW p \in Callers, Release(p) PROVE NoOrphan'
  BY <1>12 DEF Release
<1>13. ASSUME NEW p \in Callers, ReleaseStopped(p) PROVE NoOrphan'
  BY <1>13 DEF ReleaseStopped
<1>14. ASSUME NEW p \in Callers, Retire(p) PROVE NoOrphan'
  BY <1>14 DEF Retire
<1>15. ASSUME NEW p \in Callers, ListReplacement(p) PROVE NoOrphan'
  BY <1>15 DEF ListReplacement
<1>16. ASSUME NEW p \in Callers, CloseRemoved(p) PROVE NoOrphan'
  BY <1>16 DEF CloseRemoved
<1>17. ASSUME NEW p \in Callers, TaskSpoilsWorker(p) PROVE NoOrphan'
  BY <1>17 DEF TaskSpoilsWorker
<1>18. ASSUME NEW p \in Callers, RecycleClose(p) PROVE NoOrphan'
  BY <1>18 DEF RecycleClose
<1>19. ASSUME NEW p \in Callers, Respawn(p) PROVE NoOrphan'
  BY <1>19 DEF Respawn
<1>20. ASSUME UNCHANGED <<own, dying, idle, open>> PROVE NoOrphan'
  BY <1>20
<1> QED
  BY <1>1, <1>2, <1>3, <1>4, <1>5, <1>6, <1>7, <1>8, <1>9, <1>10, <1>11,
     <1>12, <1>13, <1>14, <1>15, <1>16, <1>17, <1>18, <1>19, <1>20 DEF Next,
     RunnerNext, AcquireNext, GrowNext, WorkNext, RecycleNext, TailNext,
     CallNext, Exited, Agents, vars, BootSync, BootOpen, Cancel, ShrinkSync,
     Enter, AcquireRefused, Block, Wake, GiveUp, TaskDone, RecycleCheck,
     RespawnFail, SyncCurrent, Signal

(* Whoever lists a worker does so under the lock with shutdown read there. *)
LEMMA AfterStopStep ==
  ASSUME IInv, [Next]_vars
  PROVE  NothingIdleAfterStop'
<1> USE RunnerIsNoCaller DEF IInv, TypeOK, Goto, Agents, Shape, CallerShape,
   RunnerShape, Empty, Holding, Growing, Tail, NothingIdleAfterStop
<1>1. ASSUME BootList PROVE NothingIdleAfterStop'
  BY <1>1 DEF BootList
<1>2. ASSUME ShrinkIdle PROVE NothingIdleAfterStop'
  BY <1>2 DEF ShrinkIdle
<1>3. ASSUME Stop PROVE NothingIdleAfterStop'
  BY <1>3 DEF Stop
<1>4. ASSUME NEW p \in Callers, TakeIdle(p) PROVE NothingIdleAfterStop'
  BY <1>4 DEF TakeIdle
<1>5. ASSUME NEW p \in Callers, GrowDone(p) PROVE NothingIdleAfterStop'
  BY <1>5 DEF GrowDone
<1>6. ASSUME NEW p \in Callers, Release(p) PROVE NothingIdleAfterStop'
  BY <1>6 DEF Release
<1>7. ASSUME NEW p \in Callers, ListReplacement(p) PROVE NothingIdleAfterStop'
  BY <1>7 DEF ListReplacement
<1>8. ASSUME UNCHANGED <<idle, shutdown>> PROVE NothingIdleAfterStop'
  BY <1>8
<1> QED
  BY <1>1, <1>2, <1>3, <1>4, <1>5, <1>6, <1>7, <1>8 DEF Next, RunnerNext,
     AcquireNext, GrowNext, WorkNext, RecycleNext, TailNext, CallNext, Exited,
     Agents, vars, SpawnOne, SpawnFail, BootSync, BootOpen, Cancel, ShrinkSync,
     RunnerClose, Enter, AcquireRefused, Reserve, Block, Wake, GiveUp,
     GrowFailed, GrowRefused, TaskDone, TaskSpoilsWorker, ReleaseStopped,
     RecycleClose, RecycleCheck, Respawn, RespawnFail, Retire, SyncCurrent,
     CloseRemoved, Signal

(* Each step leaves a goroutine with the slots its next place requires. *)
LEMMA ShapeStep ==
  ASSUME IInv, [Next]_vars
  PROVE  Shape'
<1> USE RunnerIsNoCaller DEF IInv, TypeOK, Goto, Agents, Shape, CallerShape,
   RunnerShape, Empty, Holding, Growing, Tail, NothingIdleAfterStop, AfterSync
<1>1. ASSUME NEW a \in Agents, SpawnOne(a) PROVE Shape'
  BY <1>1 DEF SpawnOne
<1>2. ASSUME NEW a \in Agents, SpawnFail(a) PROVE Shape'
  BY <1>2 DEF SpawnFail
<1>3. ASSUME BootList PROVE Shape'
  BY <1>3 DEF BootList
<1>4. ASSUME BootSync PROVE Shape'
  BY <1>4 DEF BootSync
<1>5. ASSUME BootOpen PROVE Shape'
  BY <1>5 DEF BootOpen
<1>6. ASSUME Cancel PROVE Shape'
  BY <1>6 DEF Cancel
<1>7. ASSUME ShrinkIdle PROVE Shape'
  BY <1>7 DEF ShrinkIdle
<1>8. ASSUME ShrinkSync PROVE Shape'
  BY <1>8 DEF ShrinkSync
<1>9. ASSUME Stop PROVE Shape'
  BY <1>9 DEF Stop
<1>10. ASSUME RunnerClose PROVE Shape'
  BY <1>10 DEF RunnerClose
<1>11. ASSUME NEW p \in Callers, Enter(p) PROVE Shape'
  BY <1>11 DEF Enter
<1>12. ASSUME NEW p \in Callers, AcquireRefused(p) PROVE Shape'
  BY <1>12 DEF AcquireRefused
<1>13. ASSUME NEW p \in Callers, TakeIdle(p) PROVE Shape'
  BY <1>13 DEF TakeIdle
<1>14. ASSUME NEW p \in Callers, Reserve(p) PROVE Shape'
  <2>1. PICK S \in SlotSets(Growth) :
          S \subseteq Free /\ own' = [own EXCEPT ![p] = S]
    BY <1>14 DEF Reserve
  <2>2. S # {}
    BY <1>14, <2>1, GrowthRange, SlotSetsNonempty DEF Reserve
  <2> QED
    BY <1>14, <2>1, <2>2 DEF Reserve
<1>15. ASSUME NEW p \in Callers, Block(p) PROVE Shape'
  BY <1>15 DEF Block
<1>16. ASSUME NEW p \in Callers, Wake(p) PROVE Shape'
  BY <1>16 DEF Wake
<1>17. ASSUME NEW p \in Callers, GiveUp(p) PROVE Shape'
  BY <1>17 DEF GiveUp
<1>18. ASSUME NEW p \in Callers, GrowFailed(p) PROVE Shape'
  BY <1>18 DEF GrowFailed
<1>19. ASSUME NEW p \in Callers, GrowRefused(p) PROVE Shape'
  BY <1>19 DEF GrowRefused
<1>20. ASSUME NEW p \in Callers, GrowDone(p) PROVE Shape'
  BY <1>20 DEF GrowDone
<1>21. ASSUME NEW p \in Callers, TaskDone(p) PROVE Shape'
  BY <1>21 DEF TaskDone
<1>22. ASSUME NEW p \in Callers, TaskSpoilsWorker(p) PROVE Shape'
  BY <1>22 DEF TaskSpoilsWorker
<1>23. ASSUME NEW p \in Callers, Release(p) PROVE Shape'
  BY <1>23 DEF Release
<1>24. ASSUME NEW p \in Callers, ReleaseStopped(p) PROVE Shape'
  BY <1>24 DEF ReleaseStopped
<1>25. ASSUME NEW p \in Callers, RecycleClose(p) PROVE Shape'
  BY <1>25 DEF RecycleClose
<1>26. ASSUME NEW p \in Callers, RecycleCheck(p) PROVE Shape'
  BY <1>26 DEF RecycleCheck
<1>27. ASSUME NEW p \in Callers, Respawn(p) PROVE Shape'
  BY <1>27 DEF Respawn
<1>28. ASSUME NEW p \in Callers, RespawnFail(p) PROVE Shape'
  BY <1>28 DEF RespawnFail
<1>29. ASSUME NEW p \in Callers, Retire(p) PROVE Shape'
  BY <1>29 DEF Retire
<1>30. ASSUME NEW p \in Callers, ListReplacement(p) PROVE Shape'
  BY <1>30 DEF ListReplacement
<1>31. ASSUME NEW p \in Callers, SyncCurrent(p) PROVE Shape'
  BY <1>31 DEF SyncCurrent
<1>32. ASSUME NEW p \in Callers, CloseRemoved(p) PROVE Shape'
  BY <1>32 DEF CloseRemoved
<1>33. ASSUME NEW p \in Callers, Signal(p) PROVE Shape'
  BY <1>33 DEF Signal
<1>34. ASSUME UNCHANGED <<pc, own, dying, idle, total, started, shutdown>> PROVE Shape'
  BY <1>34
<1> QED
  BY <1>1, <1>2, <1>3, <1>4, <1>5, <1>6, <1>7, <1>8, <1>9, <1>10, <1>11,
     <1>12, <1>13, <1>14, <1>15, <1>16, <1>17, <1>18, <1>19, <1>20, <1>21,
     <1>22, <1>23, <1>24, <1>25, <1>26, <1>27, <1>28, <1>29, <1>30, <1>31,
     <1>32, <1>33, <1>34 DEF Next, RunnerNext, AcquireNext, GrowNext, WorkNext,
     RecycleNext, TailNext, CallNext, Exited, Agents, vars

(* Processes are started and closed where Running says, and by nobody but  *)
(* the goroutine that owns them.                                           *)
LEMMA RunningStep ==
  ASSUME IInv, [Next]_vars
  PROVE  Running'
<1> USE RunnerIsNoCaller DEF IInv, TypeOK, Goto, Agents, Shape, CallerShape,
   RunnerShape, Empty, Holding, Growing, Tail, Running, ExclusiveLease,
   AfterSync, Free, NoOrphan, Kept
<1>1. ASSUME NEW a \in Agents, SpawnOne(a) PROVE Running'
  BY <1>1 DEF SpawnOne
<1>2. ASSUME NEW a \in Agents, SpawnFail(a) PROVE Running'
  BY <1>2 DEF SpawnFail
<1>3. ASSUME BootList PROVE Running'
  BY <1>3 DEF BootList
<1>4. ASSUME BootSync PROVE Running'
  BY <1>4 DEF BootSync
<1>5. ASSUME BootOpen PROVE Running'
  BY <1>5 DEF BootOpen
<1>6. ASSUME Cancel PROVE Running'
  BY <1>6 DEF Cancel
<1>7. ASSUME ShrinkIdle PROVE Running'
  BY <1>7 DEF ShrinkIdle
<1>8. ASSUME ShrinkSync PROVE Running'
  BY <1>8 DEF ShrinkSync
<1>9. ASSUME Stop PROVE Running'
  BY <1>9 DEF Stop
<1>10. ASSUME RunnerClose PROVE Running'
  BY <1>10 DEF RunnerClose
<1>11. ASSUME NEW p \in Callers, Enter(p) PROVE Running'
  BY <1>11 DEF Enter
<1>12. ASSUME NEW p \in Callers, AcquireRefused(p) PROVE Running'
  BY <1>12 DEF AcquireRefused
<1>13. ASSUME NEW p \in Callers, TakeIdle(p) PROVE Running'
  BY <1>13 DEF TakeIdle
<1>14. ASSUME NEW p \in Callers, Reserve(p) PROVE Running'
  BY <1>14 DEF Reserve
<1>15. ASSUME NEW p \in Callers, Block(p) PROVE Running'
  BY <1>15 DEF Block
<1>16. ASSUME NEW p \in Callers, Wake(p) PROVE Running'
  BY <1>16 DEF Wake
<1>17. ASSUME NEW p \in Callers, GiveUp(p) PROVE Running'
  BY <1>17 DEF GiveUp
<1>18. ASSUME NEW p \in Callers, GrowFailed(p) PROVE Running'
  BY <1>18 DEF GrowFailed
<1>19. ASSUME NEW p \in Callers, GrowRefused(p) PROVE Running'
  BY <1>19 DEF GrowRefused
<1>20. ASSUME NEW p \in Callers, GrowDone(p) PROVE Running'
  BY <1>20 DEF GrowDone
<1>21. ASSUME NEW p \in Callers, TaskDone(p) PROVE Running'
  BY <1>21 DEF TaskDone
<1>22. ASSUME NEW p \in Callers, TaskSpoilsWorker(p) PROVE Running'
  BY <1>22 DEF TaskSpoilsWorker
<1>23. ASSUME NEW p \in Callers, Release(p) PROVE Running'
  BY <1>23 DEF Release
<1>24. ASSUME NEW p \in Callers, ReleaseStopped(p) PROVE Running'
  BY <1>24 DEF ReleaseStopped
<1>25. ASSUME NEW p \in Callers, RecycleClose(p) PROVE Running'
  BY <1>25 DEF RecycleClose
<1>26. ASSUME NEW p \in Callers, RecycleCheck(p) PROVE Running'
  BY <1>26 DEF RecycleCheck
<1>27. ASSUME NEW p \in Callers, Respawn(p) PROVE Running'
  BY <1>27 DEF Respawn
<1>28. ASSUME NEW p \in Callers, RespawnFail(p) PROVE Running'
  BY <1>28 DEF RespawnFail
<1>29. ASSUME NEW p \in Callers, Retire(p) PROVE Running'
  BY <1>29 DEF Retire
<1>30. ASSUME NEW p \in Callers, ListReplacement(p) PROVE Running'
  BY <1>30 DEF ListReplacement
<1>31. ASSUME NEW p \in Callers, SyncCurrent(p) PROVE Running'
  BY <1>31 DEF SyncCurrent
<1>32. ASSUME NEW p \in Callers, CloseRemoved(p) PROVE Running'
  BY <1>32 DEF CloseRemoved
<1>33. ASSUME NEW p \in Callers, Signal(p) PROVE Running'
  BY <1>33 DEF Signal
<1>34. ASSUME UNCHANGED <<pc, own, idle, open>> PROVE Running'
  BY <1>34
<1> QED
  BY <1>1, <1>2, <1>3, <1>4, <1>5, <1>6, <1>7, <1>8, <1>9, <1>10, <1>11,
     <1>12, <1>13, <1>14, <1>15, <1>16, <1>17, <1>18, <1>19, <1>20, <1>21,
     <1>22, <1>23, <1>24, <1>25, <1>26, <1>27, <1>28, <1>29, <1>30, <1>31,
     <1>32, <1>33, <1>34 DEF Next, RunnerNext, AcquireNext, GrowNext, WorkNext,
     RecycleNext, TailNext, CallNext, Exited, Agents, vars

(* Slots enter and leave the count with total.  After stop total only has  *)
(* to stay above the count.                                                *)
LEMMA AccountingStep ==
  ASSUME IInv, [Next]_vars
  PROVE  Accounting'
<1> USE RunnerIsNoCaller DEF IInv, TypeOK, Goto, Agents, Shape, CallerShape,
   RunnerShape, Empty, Holding, Growing, Tail, ExclusiveLease, Accounting
<1>1. ASSUME BootList PROVE Accounting'
  <2>1. Counted' = own[Runner]
    BY <1>1 DEF BootList, Counted
  <2> QED
    BY <1>1, <2>1, SlotsFinite DEF BootList
<1>2. ASSUME ShrinkIdle PROVE Accounting'
  <2>1. PICK expired \in SUBSET idle :
          /\ idle' = idle \ expired
          /\ total' = total - Cardinality(expired)
    BY <1>2 DEF ShrinkIdle
  <2>2. expired \in SUBSET Counted /\ Counted' = Counted \ expired
    BY <1>2, <2>1 DEF ShrinkIdle, Counted
  <2>3. Cardinality(Counted') = Cardinality(Counted) - Cardinality(expired)
    BY <2>2, CountedFinite, TakeOut
  <2> QED
    BY <1>2, <2>1, <2>3, CountedFinite, SlotsFinite DEF ShrinkIdle
<1>3. ASSUME Stop PROVE Accounting'
  <2>1. Counted' \in SUBSET Counted
    BY <1>3 DEF Stop, Counted
  <2>2. Cardinality(Counted') <= Cardinality(Counted)
    BY <2>1, CountedFinite, FS_Subset
  <2>3. Cardinality(Counted') \in Nat
    BY <2>1, SlotsFinite DEF Counted
  <2> QED
    BY <1>3, <2>2, <2>3, CountedFinite DEF Stop
<1>4. ASSUME NEW p \in Callers, TakeIdle(p) PROVE Accounting'
  <2>1. Counted' = Counted
    BY <1>4 DEF TakeIdle, Counted
  <2> QED
    BY <1>4, <2>1 DEF TakeIdle
<1>5. ASSUME NEW p \in Callers, Reserve(p) PROVE Accounting'
  <2>1. PICK S \in SlotSets(Growth) :
          S \subseteq Free /\ own' = [own EXCEPT ![p] = S]
    BY <1>5 DEF Reserve
  <2>2. Counted' = Counted \cup S /\ Counted \cap S = {} /\ S \subseteq Slots
    BY <1>5, <2>1 DEF Reserve, Counted, Free
  <2>3. Cardinality(Counted') = Cardinality(Counted) + Growth
    BY <2>1, <2>2, CountedFinite, SlotsFinite, PutIn DEF SlotSets
  <2> QED
    BY <1>5, <2>3, CountedFinite, GrowthRange DEF Reserve
<1>6. ASSUME NEW p \in Callers, GrowFailed(p) PROVE Accounting'
  <2>1. own[p] \in SUBSET Counted /\ Counted' = Counted \ own[p]
    BY <1>6 DEF GrowFailed, Counted
  <2>2. Cardinality(Counted') = Cardinality(Counted) - Cardinality(own[p])
    BY <2>1, CountedFinite, TakeOut
  <2> QED
    BY <1>6, <2>2, CountedFinite, SlotsFinite DEF GrowFailed
<1>7. ASSUME NEW p \in Callers, GrowRefused(p) PROVE Accounting'
  <2>1. own[p] \in SUBSET Counted /\ Counted' = Counted \ own[p]
    BY <1>7 DEF GrowRefused, Counted
  <2>2. Cardinality(Counted') = Cardinality(Counted) - Cardinality(own[p])
    BY <2>1, CountedFinite, TakeOut
  <2> QED
    BY <1>7, <2>2, CountedFinite, SlotsFinite DEF GrowRefused
<1>8. ASSUME NEW p \in Callers, GrowDone(p) PROVE Accounting'
  <2>1. Counted' = Counted
    BY <1>8 DEF GrowDone, Counted
  <2> QED
    BY <1>8, <2>1 DEF GrowDone
<1>9. ASSUME NEW p \in Callers, Release(p) PROVE Accounting'
  <2>1. Counted' = Counted
    BY <1>9 DEF Release, Counted
  <2> QED
    BY <1>9, <2>1 DEF Release
<1>10. ASSUME NEW p \in Callers, ReleaseStopped(p) PROVE Accounting'
  <2>1. own[p] \in SUBSET Counted /\ Counted' = Counted \ own[p]
    BY <1>10 DEF ReleaseStopped, Counted
  <2>2. Cardinality(Counted') = Cardinality(Counted) - Cardinality(own[p])
    BY <2>1, CountedFinite, TakeOut
  <2>3. Cardinality(own[p]) = 1
    BY <1>10, FS_Singleton DEF ReleaseStopped
  <2> QED
    BY <1>10, <2>2, <2>3, CountedFinite DEF ReleaseStopped
<1>11. ASSUME NEW p \in Callers, Retire(p) PROVE Accounting'
  <2>1. own[p] \in SUBSET Counted /\ Counted' = Counted \ own[p]
    BY <1>11 DEF Retire, Counted
  <2>2. Cardinality(Counted') = Cardinality(Counted) - Cardinality(own[p])
    BY <2>1, CountedFinite, TakeOut
  <2>3. Cardinality(own[p]) = 1
    BY <1>11, FS_Singleton DEF Retire
  <2> QED
    BY <1>11, <2>2, <2>3, CountedFinite DEF Retire
<1>12. ASSUME NEW p \in Callers, ListReplacement(p) PROVE Accounting'
  <2>1. Counted' = Counted
    BY <1>12 DEF ListReplacement, Counted
  <2> QED
    BY <1>12, <2>1 DEF ListReplacement
<1>13. ASSUME UNCHANGED <<own, idle, total, shutdown>> PROVE Accounting'
  BY <1>13 DEF Counted
<1> QED
  BY <1>1, <1>2, <1>3, <1>4, <1>5, <1>6, <1>7, <1>8, <1>9, <1>10, <1>11,
     <1>12, <1>13 DEF Next, RunnerNext, AcquireNext, GrowNext, WorkNext,
     RecycleNext, TailNext, CallNext, Exited, Agents, vars, SpawnOne,
     SpawnFail, BootSync, BootOpen, Cancel, ShrinkSync, RunnerClose, Enter,
     AcquireRefused, Block, Wake, GiveUp, TaskDone, TaskSpoilsWorker,
     RecycleClose, RecycleCheck, Respawn, RespawnFail, SyncCurrent,
     CloseRemoved, Signal

(* total is a natural number because it bounds the count.                  *)
LEMMA TotalStep ==
  ASSUME IInv, [Next]_vars
  PROVE  total' \in Int
<1> USE RunnerIsNoCaller DEF IInv, TypeOK, Agents
<1>1. ASSUME BootList PROVE total' \in Int
  BY <1>1, SlotsFinite DEF BootList
<1>2. ASSUME ShrinkIdle PROVE total' \in Int
  BY <1>2, SlotsFinite DEF ShrinkIdle
<1>3. ASSUME NEW p \in Callers, Reserve(p) PROVE total' \in Int
  BY <1>3, GrowthRange DEF Reserve
<1>4. ASSUME NEW p \in Callers, GrowFailed(p) PROVE total' \in Int
  BY <1>4, SlotsFinite DEF GrowFailed
<1>5. ASSUME NEW p \in Callers, GrowRefused(p) PROVE total' \in Int
  BY <1>5, SlotsFinite DEF GrowRefused
<1>6. ASSUME NEW p \in Callers, ReleaseStopped(p) PROVE total' \in Int
  BY <1>6 DEF ReleaseStopped
<1>7. ASSUME NEW p \in Callers, Retire(p) PROVE total' \in Int
  BY <1>7 DEF Retire
<1>8. ASSUME UNCHANGED total PROVE total' \in Int
  BY <1>8
<1> QED
  BY <1>1, <1>2, <1>3, <1>4, <1>5, <1>6, <1>7, <1>8 DEF Next, RunnerNext,
     AcquireNext, GrowNext, WorkNext, RecycleNext, TailNext, CallNext, Exited,
     Agents, vars, SpawnOne, SpawnFail, BootSync, BootOpen, Cancel, ShrinkSync,
     Stop, RunnerClose, Enter, AcquireRefused, TakeIdle, Block, Wake, GiveUp,
     GrowDone, TaskDone, TaskSpoilsWorker, Release, RecycleClose, RecycleCheck,
     Respawn, RespawnFail, ListReplacement, SyncCurrent, CloseRemoved, Signal

(* Every step keeps the types. *)
LEMMA TypeStep ==
  ASSUME IInv, total' \in Nat, [Next]_vars
  PROVE  TypeOK'
<1> USE RunnerIsNoCaller DEF IInv, TypeOK, Goto, Agents, CallerLabels,
   RunnerLabels, AfterSync, SlotSets, Free
<1>1. ASSUME NEW a \in Agents, SpawnOne(a) PROVE TypeOK'
  BY <1>1 DEF SpawnOne
<1>2. ASSUME NEW a \in Agents, SpawnFail(a) PROVE TypeOK'
  BY <1>2 DEF SpawnFail
<1>3. ASSUME BootList PROVE TypeOK'
  BY <1>3 DEF BootList
<1>4. ASSUME BootSync PROVE TypeOK'
  BY <1>4 DEF BootSync
<1>5. ASSUME BootOpen PROVE TypeOK'
  BY <1>5 DEF BootOpen
<1>6. ASSUME Cancel PROVE TypeOK'
  BY <1>6 DEF Cancel
<1>7. ASSUME ShrinkIdle PROVE TypeOK'
  BY <1>7 DEF ShrinkIdle
<1>8. ASSUME ShrinkSync PROVE TypeOK'
  BY <1>8 DEF ShrinkSync
<1>9. ASSUME Stop PROVE TypeOK'
  BY <1>9 DEF Stop
<1>10. ASSUME RunnerClose PROVE TypeOK'
  BY <1>10 DEF RunnerClose
<1>11. ASSUME NEW p \in Callers, Enter(p) PROVE TypeOK'
  BY <1>11 DEF Enter
<1>12. ASSUME NEW p \in Callers, AcquireRefused(p) PROVE TypeOK'
  BY <1>12 DEF AcquireRefused
<1>13. ASSUME NEW p \in Callers, TakeIdle(p) PROVE TypeOK'
  BY <1>13 DEF TakeIdle
<1>14. ASSUME NEW p \in Callers, Reserve(p) PROVE TypeOK'
  BY <1>14 DEF Reserve
<1>15. ASSUME NEW p \in Callers, Block(p) PROVE TypeOK'
  BY <1>15 DEF Block
<1>16. ASSUME NEW p \in Callers, Wake(p) PROVE TypeOK'
  BY <1>16 DEF Wake
<1>17. ASSUME NEW p \in Callers, GiveUp(p) PROVE TypeOK'
  BY <1>17 DEF GiveUp
<1>18. ASSUME NEW p \in Callers, GrowFailed(p) PROVE TypeOK'
  BY <1>18 DEF GrowFailed
<1>19. ASSUME NEW p \in Callers, GrowRefused(p) PROVE TypeOK'
  BY <1>19 DEF GrowRefused
<1>20. ASSUME NEW p \in Callers, GrowDone(p) PROVE TypeOK'
  BY <1>20 DEF GrowDone
<1>21. ASSUME NEW p \in Callers, TaskDone(p) PROVE TypeOK'
  BY <1>21 DEF TaskDone
<1>22. ASSUME NEW p \in Callers, TaskSpoilsWorker(p) PROVE TypeOK'
  BY <1>22 DEF TaskSpoilsWorker
<1>23. ASSUME NEW p \in Callers, Release(p) PROVE TypeOK'
  BY <1>23 DEF Release
<1>24. ASSUME NEW p \in Callers, ReleaseStopped(p) PROVE TypeOK'
  BY <1>24 DEF ReleaseStopped
<1>25. ASSUME NEW p \in Callers, RecycleClose(p) PROVE TypeOK'
  BY <1>25 DEF RecycleClose
<1>26. ASSUME NEW p \in Callers, RecycleCheck(p) PROVE TypeOK'
  BY <1>26 DEF RecycleCheck
<1>27. ASSUME NEW p \in Callers, Respawn(p) PROVE TypeOK'
  BY <1>27 DEF Respawn
<1>28. ASSUME NEW p \in Callers, RespawnFail(p) PROVE TypeOK'
  BY <1>28 DEF RespawnFail
<1>29. ASSUME NEW p \in Callers, Retire(p) PROVE TypeOK'
  BY <1>29 DEF Retire
<1>30. ASSUME NEW p \in Callers, ListReplacement(p) PROVE TypeOK'
  BY <1>30 DEF ListReplacement
<1>31. ASSUME NEW p \in Callers, SyncCurrent(p) PROVE TypeOK'
  BY <1>31 DEF SyncCurrent
<1>32. ASSUME NEW p \in Callers, CloseRemoved(p) PROVE TypeOK'
  BY <1>32 DEF CloseRemoved
<1>33. ASSUME NEW p \in Callers, Signal(p) PROVE TypeOK'
  BY <1>33 DEF Signal
<1>34. ASSUME UNCHANGED vars PROVE TypeOK'
  BY <1>34 DEF vars
<1> QED
  BY <1>1, <1>2, <1>3, <1>4, <1>5, <1>6, <1>7, <1>8, <1>9, <1>10, <1>11,
     <1>12, <1>13, <1>14, <1>15, <1>16, <1>17, <1>18, <1>19, <1>20, <1>21,
     <1>22, <1>23, <1>24, <1>25, <1>26, <1>27, <1>28, <1>29, <1>30, <1>31,
     <1>32, <1>33, <1>34 DEF Next, RunnerNext, AcquireNext, GrowNext, WorkNext,
     RecycleNext, TailNext, CallNext, Exited, Agents, vars

(* IInv is inductive. *)
LEMMA StepInv == IInv /\ [Next]_vars => IInv'
<1> SUFFICES ASSUME IInv, [Next]_vars PROVE IInv'
  OBVIOUS
<1>1. Accounting'
  BY AccountingStep
<1>2. total' \in Nat
  <2>1. Counted' \subseteq Slots
    BY DEF Counted
  <2>2. Cardinality(Counted') \in Nat
    BY <2>1, SlotsFinite
  <2> QED
    BY <1>1, <2>2, TotalStep DEF Accounting
<1> QED
  BY <1>1, <1>2, TypeStep, ShapeStep, ExclusiveStep, RunningStep,
     NoOrphanStep, AfterStopStep DEF IInv

-----------------------------------------------------------------------------
(* The pool's invariants, for every instance. *)

(* IInv holds in every reachable state: the inductive invariant the other  *)
(* theorems rest on.                                                       *)
THEOREM Inductive == Spec => []IInv
<1>1. Init => IInv
  BY InitInv
<1>2. IInv /\ [Next]_vars => IInv'
  BY StepInv
<1> QED
  BY <1>1, <1>2, PTL DEF Spec

(* Variables keep their types; in particular total never drops below zero, *)
(* although it is decremented in five places.                              *)
THEOREM TypeCorrect == Spec => []TypeOK
<1>1. IInv => TypeOK
  BY DEF IInv
<1> QED
  BY <1>1, Inductive, PTL

(* No worker is ever in two hands (acquire, release, recycle,              *)
(* growAndAcquire, shrinkIdle, stop).                                      *)
THEOREM LeaseIsExclusive == Spec => []ExclusiveLease
<1>1. IInv => ExclusiveLease
  BY DEF IInv
<1> QED
  BY <1>1, Inductive, PTL

(* Only running workers are listed or given a task.                        *)
THEOREM RunningWorkersServe == Spec => []OnlyRunningWorkersServe
<1>1. IInv => OnlyRunningWorkersServe
  BY DEF IInv, Running, Shape, CallerShape, Holding, Agents,
     OnlyRunningWorkersServe
<1> QED
  BY <1>1, Inductive, PTL

(* Every running process has a keeper that will close it. *)
THEOREM ProcessesAreKept == Spec => []NoOrphan
<1>1. IInv => NoOrphan
  BY DEF IInv
<1> QED
  BY <1>1, Inductive, PTL

(* Run and every call of Execute have returned. *)
AllReturned == pc[Runner] = "done" /\ \A p \in Callers : pc[p] = "out"

(* Nothing leaks: after stop, with Run and every call returned, no PHP     *)
(* process is left running.                                                *)
THEOREM NoProcessLeaks == Spec => [](AllReturned /\ shutdown => open = {})
<1>1. IInv => (AllReturned /\ shutdown => open = {})
  BY DEF IInv, AllReturned, NoOrphan, Kept, Shape, CallerShape, RunnerShape,
     Empty, Growing, NothingIdleAfterStop, Agents
<1> QED
  BY <1>1, Inductive, PTL

(* total is what it is meant to count, through every failure of NewWorker. *)
THEOREM TotalIsExact == Spec => []Accounting
<1>1. IInv => Accounting
  BY DEF IInv
<1> QED
  BY <1>1, Inductive, PTL

(* Nothing is listed after stop. *)
THEOREM StopIsFinal == Spec => []NothingIdleAfterStop
<1>1. IInv => NothingIdleAfterStop
  BY DEF IInv
<1> QED
  BY <1>1, Inductive, PTL

-----------------------------------------------------------------------------
(* max_workers. *)

(* Growth is capped by what max_workers leaves, under the lock.            *)
LEMMA BoundStep ==
  ASSUME IInv, MaxWorkers > 0, MinWorkers <= MaxWorkers,
         total <= MaxWorkers, [Next]_vars
  PROVE  (total <= MaxWorkers)'
<1> USE ClampedConfig DEF IInv, TypeOK
<1>1. ASSUME BootList PROVE (total <= MaxWorkers)'
  <2>1. total' = MinWorkers
    BY <1>1 DEF BootList, IInv, Shape, RunnerShape, Growing
  <2> QED
    BY <2>1
<1>2. ASSUME ShrinkIdle PROVE (total <= MaxWorkers)'
  <2>1. PICK expired \in SUBSET idle : total' = total - Cardinality(expired)
    BY <1>2 DEF ShrinkIdle
  <2>2. Cardinality(expired) \in Nat
    BY SlotsFinite DEF IInv, TypeOK
  <2> QED
    BY <2>1, <2>2
<1>3. ASSUME NEW p \in Callers, Reserve(p) PROVE (total <= MaxWorkers)'
  <2>1. total' = total + Growth /\ Growth > 0
    BY <1>3 DEF Reserve
  <2> QED
    BY <2>1, GrowthRange
<1>4. ASSUME NEW p \in Callers, GrowFailed(p) PROVE (total <= MaxWorkers)'
  <2>1. Cardinality(own[p]) \in Nat
    BY SlotsFinite DEF IInv, TypeOK, Agents
  <2> QED
    BY <1>4, <2>1 DEF GrowFailed
<1>5. ASSUME NEW p \in Callers, GrowRefused(p) PROVE (total <= MaxWorkers)'
  <2>1. Cardinality(own[p]) \in Nat
    BY SlotsFinite DEF IInv, TypeOK, Agents
  <2> QED
    BY <1>5, <2>1 DEF GrowRefused
<1>6. ASSUME NEW p \in Callers, ReleaseStopped(p) PROVE (total <= MaxWorkers)'
  BY <1>6 DEF ReleaseStopped
<1>7. ASSUME NEW p \in Callers, Retire(p) PROVE (total <= MaxWorkers)'
  BY <1>7 DEF Retire
<1>8. ASSUME UNCHANGED <<total>> PROVE (total <= MaxWorkers)'
  BY <1>8
<1> QED
  BY <1>1, <1>2, <1>3, <1>4, <1>5, <1>6, <1>7, <1>8 DEF Next, RunnerNext,
     AcquireNext, GrowNext, WorkNext, RecycleNext, TailNext, CallNext, Exited,
     Agents, vars, SpawnOne, SpawnFail, BootSync, BootOpen, Cancel, ShrinkSync,
     Stop, RunnerClose, Enter, AcquireRefused, TakeIdle, Block, Wake, GiveUp,
     GrowDone, TaskDone, TaskSpoilsWorker, Release, RecycleClose, RecycleCheck,
     Respawn, RespawnFail, ListReplacement, SyncCurrent, CloseRemoved, Signal

(* The pool never counts more than max_workers, if min_workers is within   *)
(* it: growth, reserved by any number of callers at once, is capped under  *)
(* the lock.                                                               *)
THEOREM MaxIsRespected == Spec => []MaxRespected
<1> DEFINE Bound ==
      MaxWorkers > 0 /\ MinWorkers <= MaxWorkers => total <= MaxWorkers
<1>1. Init => Bound
  BY ClampedConfig DEF Init
<1>2. IInv /\ Bound /\ [Next]_vars => Bound'
  BY BoundStep
<1>3. IInv /\ Bound => MaxRespected
  BY CountedFinite, ClampedConfig DEF IInv, TypeOK, Accounting, MaxRespected
<1>4. Spec => []Bound
  BY <1>1, <1>2, Inductive, PTL DEF Spec
<1> QED
  BY <1>3, <1>4, Inductive, PTL

-----------------------------------------------------------------------------
(* Processes. *)

(* Processes that are not on their way to be closed.                       *)
InService == {s \in open : \A a \in Agents : s \notin dying[a]}

(* max_workers bounds the PHP processes themselves, also while the pool is *)
(* bootstrapped, grows, recycles or is stopped; workers on their way to be *)
(* closed come on top.                                                     *)
ProcessesWithinMax ==
  MaxWorkers > 0 /\ MinWorkers <= MaxWorkers => Cardinality(InService) <= MaxWorkers

(* A process in service belongs to the list or a caller, or to a bootstrap *)
(* that is alone in the pool.                                              *)
LEMMA InServiceIsCounted ==
  ASSUME IInv
  PROVE  InService \subseteq Counted \/ InService \subseteq own[Runner]
<1> USE RunnerIsNoCaller DEF IInv, TypeOK, Agents
<1>1. \A s \in InService : s \in Counted \/ s \in own[Runner]
  BY DEF InService, NoOrphan, Kept, Counted
<1>2. CASE pc[Runner] \in Growing
  <2>1. ~started /\ idle = {}
    BY <1>2 DEF Shape, RunnerShape
  <2>2. \A p \in Callers : own[p] = {}
    BY <2>1 DEF Shape, CallerShape, Empty
  <2>3. Counted = {}
    BY <2>1, <2>2 DEF Counted
  <2> QED
    BY <1>1, <2>3
<1>3. CASE pc[Runner] \notin Growing
  <2>1. own[Runner] = {}
    BY <1>3 DEF Shape, RunnerShape
  <2> QED
    BY <1>1, <2>1
<1> QED
  BY <1>2, <1>3

(* The number of processes in service never exceeds max_workers.           *)
THEOREM ProcessesAreBounded == Spec => []ProcessesWithinMax
<1>1. IInv /\ MaxRespected => ProcessesWithinMax
  <2> SUFFICES ASSUME IInv, MaxRespected, MaxWorkers > 0, MinWorkers <= MaxWorkers
               PROVE  Cardinality(InService) <= MaxWorkers
    BY DEF ProcessesWithinMax
  <2>0. InService \in SUBSET Slots
    BY DEF InService, IInv, TypeOK
  <2>1. Cardinality(InService) \in Nat /\ MaxWorkers \in Nat /\ MinWorkers \in Nat
    BY <2>0, SlotsFinite, ClampedConfig
  <2>2. CASE InService \subseteq Counted
    <3>1. Cardinality(InService) <= Cardinality(Counted)
      BY <2>2, CountedFinite, FS_Subset
    <3>2. Cardinality(Counted) <= MaxWorkers
      BY DEF MaxRespected
    <3> QED
      BY <2>1, <3>1, <3>2, CountedFinite
  <2>3. CASE InService \subseteq own[Runner] /\ ~(InService \subseteq Counted)
    <3>1. own[Runner] # {} /\ own[Runner] \in SUBSET Slots
      BY <2>3 DEF IInv, TypeOK, Agents
    <3>2. Cardinality(own[Runner]) = MinWorkers
      BY <3>1 DEF IInv, Shape, RunnerShape
    <3>3. Cardinality(InService) <= Cardinality(own[Runner])
      BY <2>3, <3>1, SlotsFinite, FS_Subset
    <3> QED
      BY <2>1, <3>2, <3>3
  <2> QED
    BY <2>2, <2>3, InServiceIsCounted
<1> QED
  BY <1>1, Inductive, MaxIsRespected, PTL

-----------------------------------------------------------------------------
(* min_workers. *)

(* ShrinkKeepsMin fails because shrinkIdle takes reserved growth for       *)
(* workers.  With no growth under way it holds.                            *)
ShrinkKeepsMinAtRest ==
  [][ShrinkIdle /\ (\A p \in Callers : pc[p] \notin {"spawn", "spawnFailed"}) =>
       Cardinality({s \in Counted' : ~\E p \in Callers :
                       pc[p] \in {"spawn", "spawnFailed"} /\ s \in own[p]})
         >= MinWorkers]_vars

(* What shrinkIdle drops leaves min_workers counted, reservations          *)
(* included.                                                               *)
LEMMA ShrinkCount ==
  ASSUME IInv, ShrinkIdle
  PROVE  Cardinality(Counted') >= MinWorkers
<1> USE ClampedConfig, RunnerIsNoCaller DEF IInv, TypeOK, Agents
<1>1. PICK expired \in SUBSET idle :
        /\ Cardinality(expired) <= total - MinWorkers
        /\ idle' = idle \ expired
        /\ UNCHANGED own /\ ~shutdown
  BY DEF ShrinkIdle, Removable
<1>2. \A s \in expired : \A p \in Callers : s \notin own[p]
  BY DEF ExclusiveLease
<1>3. Counted' = Counted \ expired
  BY <1>1, <1>2 DEF Counted
<1>4. expired \in SUBSET Counted
  BY DEF Counted
<1>5. Cardinality(Counted') = Cardinality(Counted) - Cardinality(expired)
  BY <1>3, <1>4, CountedFinite, TakeOut
<1>6. total = Cardinality(Counted) /\ Cardinality(expired) \in Nat
  BY <1>1, SlotsFinite DEF Accounting
<1> QED
  BY <1>1, <1>5, <1>6, CountedFinite

(* Shrinking never takes the pool below min_workers unless growth that is  *)
(* reserved and not started yet is under way.                              *)
THEOREM ShrinkAtRestKeepsMin == Spec => ShrinkKeepsMinAtRest
<1>1. IInv /\ [Next]_vars =>
        [ShrinkIdle /\ (\A p \in Callers : pc[p] \notin {"spawn", "spawnFailed"}) =>
           Cardinality({s \in Counted' : ~\E p \in Callers :
                           pc[p] \in {"spawn", "spawnFailed"} /\ s \in own[p]})
             >= MinWorkers]_vars
  <2> SUFFICES ASSUME IInv, ShrinkIdle,
                      \A p \in Callers : pc[p] \notin {"spawn", "spawnFailed"}
               PROVE  Cardinality({s \in Counted' : ~\E p \in Callers :
                           pc[p] \in {"spawn", "spawnFailed"} /\ s \in own[p]})
                        >= MinWorkers
    OBVIOUS
  <2>1. {s \in Counted' : ~\E p \in Callers :
           pc[p] \in {"spawn", "spawnFailed"} /\ s \in own[p]} = Counted'
    OBVIOUS
  <2> QED
    BY <2>1, ShrinkCount
<1> QED
  BY <1>1, Inductive, PTL DEF Spec, ShrinkKeepsMinAtRest

-----------------------------------------------------------------------------
(* No lost wake-up. *)

(* A caller can only be sent to wait when the pool is full and nothing is  *)
(* idle; then somebody else owns a slot, and has yet to signal.            *)
LEMMA SomebodyOwns ==
  ASSUME IInv, idle = {}, Growth = 0, ~shutdown,
         NEW p \in Callers, own[p] = {}
  PROVE  \E q \in Callers \ {p} : pc[q] \in Rescuing
<1>1. total > 0
  BY GrowthRange, ClampedConfig DEF IInv, TypeOK
<1>2. Counted # {}
  BY <1>1, FS_EmptySet DEF IInv, Accounting
<1>3. PICK q \in Callers : own[q] # {}
  BY <1>2 DEF Counted
<1>4. pc[q] \in Rescuing
  BY <1>3 DEF IInv, TypeOK, CallerLabels, Shape, CallerShape, Empty, Holding,
     Growing, Tail, Rescuing
<1> QED
  BY <1>3, <1>4

(* Whoever leaves the places that promise a signal has signalled, or has   *)
(* somebody else there, or finds the pool stopped.                         *)
LEMMA WaiterStep ==
  ASSUME IInv, NoStrandedWaiter, [Next]_vars
  PROVE  NoStrandedWaiter'
<1> USE RunnerIsNoCaller DEF IInv, TypeOK, Goto, Agents, NoStrandedWaiter,
   Rescuing, CallerLabels, AfterSync
<1>1. ASSUME NEW a \in Agents, SpawnOne(a) PROVE NoStrandedWaiter'
  BY <1>1 DEF SpawnOne
<1>2. ASSUME NEW a \in Agents, SpawnFail(a) PROVE NoStrandedWaiter'
  BY <1>2 DEF SpawnFail
<1>3. ASSUME BootList PROVE NoStrandedWaiter'
  BY <1>3 DEF BootList
<1>4. ASSUME BootSync PROVE NoStrandedWaiter'
  BY <1>4 DEF BootSync
<1>5. ASSUME BootOpen PROVE NoStrandedWaiter'
  BY <1>5 DEF BootOpen
<1>6. ASSUME Cancel PROVE NoStrandedWaiter'
  BY <1>6 DEF Cancel
<1>7. ASSUME ShrinkIdle PROVE NoStrandedWaiter'
  BY <1>7 DEF ShrinkIdle
<1>8. ASSUME ShrinkSync PROVE NoStrandedWaiter'
  BY <1>8 DEF ShrinkSync
<1>9. ASSUME Stop PROVE NoStrandedWaiter'
  BY <1>9 DEF Stop
<1>10. ASSUME RunnerClose PROVE NoStrandedWaiter'
  BY <1>10 DEF RunnerClose
<1>11. ASSUME NEW p \in Callers, Enter(p) PROVE NoStrandedWaiter'
  BY <1>11 DEF Enter
<1>12. ASSUME NEW p \in Callers, AcquireRefused(p) PROVE NoStrandedWaiter'
  BY <1>12 DEF AcquireRefused
<1>13. ASSUME NEW p \in Callers, TakeIdle(p) PROVE NoStrandedWaiter'
  BY <1>13 DEF TakeIdle
<1>14. ASSUME NEW p \in Callers, Reserve(p) PROVE NoStrandedWaiter'
  BY <1>14 DEF Reserve
<1>15. ASSUME NEW p \in Callers, Block(p) PROVE NoStrandedWaiter'
  <2>1. own[p] = {}
    BY <1>15 DEF Block, Shape, CallerShape, Empty
  <2>2. PICK q \in Callers \ {p} : pc[q] \in Rescuing
    BY <1>15, <2>1, SomebodyOwns DEF Block
  <2> QED
    BY <1>15, <2>2 DEF Block
<1>16. ASSUME NEW p \in Callers, Wake(p) PROVE NoStrandedWaiter'
  BY <1>16 DEF Wake
<1>17. ASSUME NEW p \in Callers, GiveUp(p) PROVE NoStrandedWaiter'
  BY <1>17 DEF GiveUp
<1>18. ASSUME NEW p \in Callers, GrowFailed(p) PROVE NoStrandedWaiter'
  BY <1>18 DEF GrowFailed
<1>19. ASSUME NEW p \in Callers, GrowRefused(p) PROVE NoStrandedWaiter'
  BY <1>19 DEF GrowRefused
<1>20. ASSUME NEW p \in Callers, GrowDone(p) PROVE NoStrandedWaiter'
  BY <1>20 DEF GrowDone
<1>21. ASSUME NEW p \in Callers, TaskDone(p) PROVE NoStrandedWaiter'
  BY <1>21 DEF TaskDone
<1>22. ASSUME NEW p \in Callers, TaskSpoilsWorker(p) PROVE NoStrandedWaiter'
  BY <1>22 DEF TaskSpoilsWorker
<1>23. ASSUME NEW p \in Callers, Release(p) PROVE NoStrandedWaiter'
  BY <1>23 DEF Release
<1>24. ASSUME NEW p \in Callers, ReleaseStopped(p) PROVE NoStrandedWaiter'
  BY <1>24 DEF ReleaseStopped
<1>25. ASSUME NEW p \in Callers, RecycleClose(p) PROVE NoStrandedWaiter'
  BY <1>25 DEF RecycleClose
<1>26. ASSUME NEW p \in Callers, RecycleCheck(p) PROVE NoStrandedWaiter'
  BY <1>26 DEF RecycleCheck
<1>27. ASSUME NEW p \in Callers, Respawn(p) PROVE NoStrandedWaiter'
  BY <1>27 DEF Respawn
<1>28. ASSUME NEW p \in Callers, RespawnFail(p) PROVE NoStrandedWaiter'
  BY <1>28 DEF RespawnFail
<1>29. ASSUME NEW p \in Callers, Retire(p) PROVE NoStrandedWaiter'
  BY <1>29 DEF Retire
<1>30. ASSUME NEW p \in Callers, ListReplacement(p) PROVE NoStrandedWaiter'
  BY <1>30 DEF ListReplacement
<1>31. ASSUME NEW p \in Callers, SyncCurrent(p) PROVE NoStrandedWaiter'
  BY <1>31 DEF SyncCurrent
<1>32. ASSUME NEW p \in Callers, CloseRemoved(p) PROVE NoStrandedWaiter'
  BY <1>32 DEF CloseRemoved
<1>33. ASSUME NEW p \in Callers, Signal(p) PROVE NoStrandedWaiter'
  BY <1>33 DEF Signal
<1>34. ASSUME UNCHANGED vars PROVE NoStrandedWaiter'
  BY <1>34 DEF vars
<1> QED
  BY <1>1, <1>2, <1>3, <1>4, <1>5, <1>6, <1>7, <1>8, <1>9, <1>10, <1>11,
     <1>12, <1>13, <1>14, <1>15, <1>16, <1>17, <1>18, <1>19, <1>20, <1>21,
     <1>22, <1>23, <1>24, <1>25, <1>26, <1>27, <1>28, <1>29, <1>30, <1>31,
     <1>32, <1>33, <1>34 DEF Next, RunnerNext, AcquireNext, GrowNext, WorkNext,
     RecycleNext, TailNext, CallNext, Exited, Agents, vars

(* No lost wake-up, for any number of callers and workers: the single      *)
(* token of p.notify suffices although signal drops it when the channel is *)
(* full.                                                                   *)
THEOREM NoLostWakeup == Spec => []NoStrandedWaiter
<1>1. Init => NoStrandedWaiter
  BY RunnerIsNoCaller DEF Init, NoStrandedWaiter, Agents
<1>2. IInv /\ NoStrandedWaiter /\ [Next]_vars => NoStrandedWaiter'
  BY WaiterStep
<1> QED
  BY <1>1, <1>2, Inductive, PTL DEF Spec

-----------------------------------------------------------------------------
(* The pool implements the abstract lease. *)

LentOut == UNION {OnLease(p) : p \in Callers}

(* A worker of the pool that is on no lease leaves room for one more.      *)
LEMMA RoomToLend ==
  ASSUME IInv, total <= MaxWorkers,
         NEW w \in Counted, w \notin LentOut
  PROVE  Cardinality(LentOut) < MaxWorkers
<1>1. LentOut \cup {w} \in SUBSET Counted
  BY DEF LentOut, OnLease, Counted, IInv, TypeOK, Agents
<1>2. IsFiniteSet(LentOut) /\ Cardinality(LentOut) \in Nat
  BY <1>1, SlotsFinite DEF Counted
<1>3. Cardinality(LentOut \cup {w}) = Cardinality(LentOut) + 1
  BY <1>2, FS_AddElement
<1>4. Cardinality(LentOut \cup {w}) <= Cardinality(Counted)
  BY <1>1, CountedFinite, FS_Subset
<1> QED
  BY <1>2, <1>3, <1>4, CountedFinite, ClampedConfig DEF IInv, TypeOK, Accounting

(* PoolLease's own copy of Cardinality is the same operator.               *)
LEMMA SameCardinality == \A S : Lease!Cardinality(S) = Cardinality(S)
BY DEF Lease!Cardinality, Cardinality

(* Initially nothing is on lease. *)
LEMMA LeaseInit == Init => Lease!Init
BY RunnerIsNoCaller DEF Init, Lease!Init, OnLease, Agents

(* Every step of the pool is a step of PoolLease or leaves the lease       *)
(* alone.                                                                  *)
LEMMA LeaseStep ==
  ASSUME IInv,
         MaxWorkers > 0 => total <= MaxWorkers, [Next]_vars
  PROVE  [Lease!Next]_(Lease!vars)
<1> USE RunnerIsNoCaller DEF IInv, TypeOK, Goto, Agents, OnLease,
   Lease!vars, Lease!Next, AfterSync, Shape, CallerShape, RunnerShape, Empty,
   Holding, Growing, Tail
<1>1. ASSUME NEW a \in Agents, SpawnOne(a) PROVE [Lease!Next]_(Lease!vars)
  BY <1>1 DEF SpawnOne
<1>2. ASSUME NEW a \in Agents, SpawnFail(a) PROVE [Lease!Next]_(Lease!vars)
  BY <1>2 DEF SpawnFail
<1>3. ASSUME BootList PROVE [Lease!Next]_(Lease!vars)
  BY <1>3 DEF BootList
<1>4. ASSUME BootSync PROVE [Lease!Next]_(Lease!vars)
  BY <1>4 DEF BootSync
<1>5. ASSUME BootOpen PROVE [Lease!Next]_(Lease!vars)
  BY <1>5 DEF BootOpen
<1>6. ASSUME Cancel PROVE [Lease!Next]_(Lease!vars)
  BY <1>6 DEF Cancel
<1>7. ASSUME ShrinkIdle PROVE [Lease!Next]_(Lease!vars)
  BY <1>7 DEF ShrinkIdle
<1>8. ASSUME ShrinkSync PROVE [Lease!Next]_(Lease!vars)
  BY <1>8 DEF ShrinkSync
<1>9. ASSUME Stop PROVE [Lease!Next]_(Lease!vars)
  <2>1. Lease!Close
    BY <1>9 DEF Stop, Lease!Close
  <2> QED
    BY <2>1
<1>10. ASSUME RunnerClose PROVE [Lease!Next]_(Lease!vars)
  BY <1>10 DEF RunnerClose
<1>11. ASSUME NEW p \in Callers, Enter(p) PROVE [Lease!Next]_(Lease!vars)
  BY <1>11 DEF Enter
<1>12. ASSUME NEW p \in Callers, AcquireRefused(p) PROVE [Lease!Next]_(Lease!vars)
  BY <1>12 DEF AcquireRefused
<1>13. ASSUME NEW p \in Callers, TakeIdle(p) PROVE [Lease!Next]_(Lease!vars)
  <2>1. PICK w \in idle : own' = [own EXCEPT ![p] = {w}]
    BY <1>13 DEF TakeIdle
  <2>2. w \in Counted /\ w \notin LentOut /\ OnLease(p) = {}
    BY <1>13, <2>1 DEF TakeIdle, Counted, LentOut, ExclusiveLease
  <2>3. MaxWorkers = 0 \/ Cardinality(LentOut) < MaxWorkers
    BY <2>2, RoomToLend, ClampedConfig
  <2>4. [q \in Callers |-> OnLease(q)']
          = [[q \in Callers |-> OnLease(q)] EXCEPT ![p] = {w}]
    BY <1>13, <2>1 DEF TakeIdle
  <2>5. Lease!Lent = LentOut
    BY DEF Lease!Lent, LentOut
  <2>6. w \in Slots \ Lease!Lent
    BY <2>2, <2>5 DEF Counted
  <2>7. ~shutdown /\ UNCHANGED (~shutdown)
    BY <1>13 DEF TakeIdle
  <2>8. [q \in Callers |-> OnLease(q)][p] = {}
    BY <2>2
  <2> HIDE DEF OnLease, LentOut
  <2>9. Lease!Lend(p)
    BY <2>3, <2>4, <2>5, <2>6, <2>7, <2>8, SameCardinality DEF Lease!Lend
  <2> QED
    BY <2>9
<1>14. ASSUME NEW p \in Callers, Reserve(p) PROVE [Lease!Next]_(Lease!vars)
  BY <1>14 DEF Reserve
<1>15. ASSUME NEW p \in Callers, Block(p) PROVE [Lease!Next]_(Lease!vars)
  BY <1>15 DEF Block
<1>16. ASSUME NEW p \in Callers, Wake(p) PROVE [Lease!Next]_(Lease!vars)
  BY <1>16 DEF Wake
<1>17. ASSUME NEW p \in Callers, GiveUp(p) PROVE [Lease!Next]_(Lease!vars)
  BY <1>17 DEF GiveUp
<1>18. ASSUME NEW p \in Callers, GrowFailed(p) PROVE [Lease!Next]_(Lease!vars)
  BY <1>18 DEF GrowFailed
<1>19. ASSUME NEW p \in Callers, GrowRefused(p) PROVE [Lease!Next]_(Lease!vars)
  BY <1>19 DEF GrowRefused
<1>20. ASSUME NEW p \in Callers, GrowDone(p) PROVE [Lease!Next]_(Lease!vars)
  <2>1. PICK w \in own[p] : own' = [own EXCEPT ![p] = {w}]
    BY <1>20 DEF GrowDone
  <2>2. w \in Counted /\ w \notin LentOut /\ OnLease(p) = {}
    BY <1>20, <2>1 DEF GrowDone, Counted, LentOut, ExclusiveLease
  <2>3. MaxWorkers = 0 \/ Cardinality(LentOut) < MaxWorkers
    BY <2>2, RoomToLend, ClampedConfig
  <2>4. [q \in Callers |-> OnLease(q)']
          = [[q \in Callers |-> OnLease(q)] EXCEPT ![p] = {w}]
    BY <1>20, <2>1 DEF GrowDone
  <2>5. Lease!Lent = LentOut
    BY DEF Lease!Lent, LentOut
  <2>6. w \in Slots \ Lease!Lent
    BY <2>2, <2>5 DEF Counted
  <2>7. ~shutdown /\ UNCHANGED (~shutdown)
    BY <1>20 DEF GrowDone
  <2>8. [q \in Callers |-> OnLease(q)][p] = {}
    BY <2>2
  <2> HIDE DEF OnLease, LentOut
  <2>9. Lease!Lend(p)
    BY <2>3, <2>4, <2>5, <2>6, <2>7, <2>8, SameCardinality DEF Lease!Lend
  <2> QED
    BY <2>9
<1>21. ASSUME NEW p \in Callers, TaskDone(p) PROVE [Lease!Next]_(Lease!vars)
  BY <1>21 DEF TaskDone
<1>22. ASSUME NEW p \in Callers, TaskSpoilsWorker(p) PROVE [Lease!Next]_(Lease!vars)
  BY <1>22 DEF TaskSpoilsWorker
<1>23. ASSUME NEW p \in Callers, Release(p) PROVE [Lease!Next]_(Lease!vars)
  <2>1. Lease!Return(p)
    BY <1>23 DEF Release, Lease!Return
  <2> QED
    BY <2>1
<1>24. ASSUME NEW p \in Callers, ReleaseStopped(p) PROVE [Lease!Next]_(Lease!vars)
  <2>1. Lease!Return(p)
    BY <1>24 DEF ReleaseStopped, Lease!Return
  <2> QED
    BY <2>1
<1>25. ASSUME NEW p \in Callers, RecycleClose(p) PROVE [Lease!Next]_(Lease!vars)
  BY <1>25 DEF RecycleClose
<1>26. ASSUME NEW p \in Callers, RecycleCheck(p) PROVE [Lease!Next]_(Lease!vars)
  BY <1>26 DEF RecycleCheck
<1>27. ASSUME NEW p \in Callers, Respawn(p) PROVE [Lease!Next]_(Lease!vars)
  BY <1>27 DEF Respawn
<1>28. ASSUME NEW p \in Callers, RespawnFail(p) PROVE [Lease!Next]_(Lease!vars)
  BY <1>28 DEF RespawnFail
<1>29. ASSUME NEW p \in Callers, Retire(p) PROVE [Lease!Next]_(Lease!vars)
  <2>1. Lease!Return(p)
    BY <1>29 DEF Retire, Lease!Return
  <2> QED
    BY <2>1
<1>30. ASSUME NEW p \in Callers, ListReplacement(p) PROVE [Lease!Next]_(Lease!vars)
  <2>1. Lease!Return(p)
    BY <1>30 DEF ListReplacement, Lease!Return
  <2> QED
    BY <2>1
<1>31. ASSUME NEW p \in Callers, SyncCurrent(p) PROVE [Lease!Next]_(Lease!vars)
  BY <1>31 DEF SyncCurrent
<1>32. ASSUME NEW p \in Callers, CloseRemoved(p) PROVE [Lease!Next]_(Lease!vars)
  BY <1>32 DEF CloseRemoved
<1>33. ASSUME NEW p \in Callers, Signal(p) PROVE [Lease!Next]_(Lease!vars)
  BY <1>33 DEF Signal
<1>34. ASSUME UNCHANGED vars PROVE [Lease!Next]_(Lease!vars)
  BY <1>34 DEF vars
<1> QED
  BY <1>1, <1>2, <1>3, <1>4, <1>5, <1>6, <1>7, <1>8, <1>9, <1>10, <1>11,
     <1>12, <1>13, <1>14, <1>15, <1>16, <1>17, <1>18, <1>19, <1>20, <1>21,
     <1>22, <1>23, <1>24, <1>25, <1>26, <1>27, <1>28, <1>29, <1>30, <1>31,
     <1>32, <1>33, <1>34 DEF Next, RunnerNext, AcquireNext, GrowNext, WorkNext,
     RecycleNext, TailNext, CallNext, Exited, Agents, vars

(* Seen through the lease alone, the pool is PoolLease: one holder per     *)
(* worker, at most max_workers lent, nothing lent after stop.              *)
THEOREM PoolImplementsLease ==
  ASSUME MaxWorkers > 0 => MinWorkers <= MaxWorkers
  PROVE  Spec => ImplementsLease
<1>1. Init => Lease!Init
  BY LeaseInit
<1>2. IInv /\ MaxRespected /\ [Next]_vars => [Lease!Next]_(Lease!vars)
  BY LeaseStep, ClampedConfig DEF MaxRespected
<1> QED
  BY <1>1, <1>2, Inductive, MaxIsRespected, PTL
  DEF Spec, ImplementsLease, Lease!Spec

=============================================================================
