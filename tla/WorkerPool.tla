----------------------------- MODULE WorkerPool -----------------------------
(***************************************************************************)
(* The shared PHP worker pool, runtime/internal/workerpool/pool.go.        *)
(*                                                                         *)
(* Callers are the goroutines that call Pool.Execute (queue, scheduler and *)
(* gateway handlers); Runner is the goroutine of Pool.Run.  A critical     *)
(* section under p.mu is one step.  Everything the code does outside the   *)
(* lock (starting a process, Close, the status gauge, the wake-up token)   *)
(* is a step of its own, because another goroutine can run in between.     *)
(*                                                                         *)
(* A slot stands for one worker: slots are given out when growth is        *)
(* reserved and `open` holds those whose PHP process has been started and  *)
(* not closed.  The order of the idle list (a stack in the code) and the   *)
(* expiry times are abstracted: any idle worker may be popped, and any     *)
(* idle worker may have outlived its TTL, since lastUsed is taken when a   *)
(* task starts and a worker can come back already expired.                 *)
(***************************************************************************)
EXTENDS Integers, FiniteSets

CONSTANTS
  Callers,        \* goroutines that call Execute, each any number of times
  Runner,         \* the goroutine of Pool.Run
  Slots,          \* identities of worker processes (a bound for TLC)
  MinWorkers,     \* config.Workers, clamped to at least 1
  MaxWorkers,     \* config.MaxWorkers, 0 for no limit
  ScaleUpStep     \* config.ScaleUpStep, clamped to at least 1

ASSUME RunnerIsNoCaller == Runner \notin Callers
ASSUME SlotsAreFinite == IsFiniteSet(Slots)
ASSUME ClampedConfig ==
  /\ MinWorkers \in Nat \ {0}
  /\ MaxWorkers \in Nat
  /\ ScaleUpStep \in Nat \ {0}

VARIABLES
  pc,         \* where each goroutine is
  own,        \* own[a]: the slots a reserved, is starting or has on lease
  dying,      \* dying[a]: workers a took out of the pool and has yet to close
  seen,       \* seen[a]: the total a read under the lock, to be published
  idle,       \* p.idle
  total,      \* p.total
  open,       \* slots whose PHP process runs
  notify,     \* a token is in p.notify
  started,    \* p.started is closed
  shutdown,   \* p.shutdown is closed
  cancelled,  \* ctx.Done() is closed
  current     \* status gauge worker_pool.current

vars == <<pc, own, dying, seen, idle, total, open, notify, started, shutdown,
          cancelled, current>>

Agents == Callers \cup {Runner}

CallerLabels ==
  {"out", "acquire", "wait", "spawn", "spawnFailed", "spawned", "exec",
   "release", "recycle", "recheck", "retire", "respawn", "respawnFailed",
   "readd", "syncSignal", "syncClose", "syncReturn", "close", "signal"}

RunnerLabels ==
  {"spawn", "spawnFailed", "spawned", "bootSync", "bootOpen", "loop",
   "shrinkClose", "shrinkSync", "stopClose", "done"}

Goto(a, label) == pc' = [pc EXCEPT ![a] = label]

(* Slots no goroutine and no list refers to: a new worker takes one.       *)
Free == {s \in Slots : /\ s \notin idle
                       /\ \A a \in Agents : s \notin own[a] \cup dying[a]}

(* Sets of n slots. *)
SlotSets(n) == {S \in SUBSET Slots : Cardinality(S) = n}

Init ==
  /\ pc = [a \in Agents |-> IF a = Runner THEN "spawn" ELSE "out"]
  /\ \E S \in SlotSets(MinWorkers) :
       own = [a \in Agents |-> IF a = Runner THEN S ELSE {}]
  /\ dying = [a \in Agents |-> {}]
  /\ seen = [a \in Agents |-> 0]
  /\ idle = {}
  /\ total = 0
  /\ open = {}
  /\ notify = FALSE
  /\ started = FALSE
  /\ shutdown = FALSE
  /\ cancelled = FALSE
  /\ current = 0

-----------------------------------------------------------------------------
(* Faulty variants of the definitions below, with which the properties at  *)
(* the end of the module are shown to be sensitive to the code.  Each      *)
(* changes one thing in the operator it varies; no action uses them.       *)

(* growth that only asks whether there is room at all *)
GrowthUncapped ==
  IF MaxWorkers = 0 \/ total < MaxWorkers THEN ScaleUpStep ELSE 0

(* a refused release that returns before Close *)
AfterSyncNoClose == [syncSignal |-> "signal", syncClose |-> "out",
                     syncReturn |-> "out"]

(* growth that lists the worker the caller keeps, too *)
GrowDoneListsAll(p) ==
  /\ pc[p] = "spawned"
  /\ ~shutdown
  /\ idle' = idle \cup own[p]
  /\ \E w \in own[p] : own' = [own EXCEPT ![p] = {w}]
  /\ seen' = [seen EXCEPT ![p] = total]
  /\ Goto(p, "syncSignal")
  /\ UNCHANGED <<dying, total, open, notify, started, shutdown, cancelled,
                 current>>

(* growth that does not look at shutdown again after starting workers *)
GrowDoneUnchecked(p) ==
  /\ pc[p] = "spawned"
  /\ \E w \in own[p] :
       /\ idle' = idle \cup (own[p] \ {w})
       /\ own' = [own EXCEPT ![p] = {w}]
  /\ seen' = [seen EXCEPT ![p] = total]
  /\ Goto(p, "syncSignal")
  /\ UNCHANGED <<dying, total, open, notify, started, shutdown, cancelled,
                 current>>

(* growth overtaken by stop that drops its workers without closing them *)
GrowRefusedDrops(p) ==
  /\ pc[p] = "spawned"
  /\ shutdown
  /\ total' = total - Cardinality(own[p])
  /\ own' = [own EXCEPT ![p] = {}]
  /\ Goto(p, "syncReturn")
  /\ UNCHANGED <<dying, seen, idle, open, notify, started, shutdown,
                 cancelled, current>>

(* a failed growth that gives back one worker instead of all it reserved,  *)
(* and one that does not signal                                            *)
GrowFailedGivesBack(p, n, label) ==
  /\ pc[p] = "spawnFailed"
  /\ total' = total - n
  /\ own' = [own EXCEPT ![p] = {}]
  /\ Goto(p, label)
  /\ UNCHANGED <<dying, seen, idle, open, notify, started, shutdown,
                 cancelled, current>>
GrowFailedGivesBackOne(p) == GrowFailedGivesBack(p, 1, "signal")
GrowFailedSilently(p) == GrowFailedGivesBack(p, Cardinality(own[p]), "out")

(* a spoilt worker that is released like any other *)
TaskSpoilsUnnoticed(p) ==
  /\ pc[p] = "exec"
  /\ open' = open \ own[p]
  /\ Goto(p, "release")
  /\ UNCHANGED <<own, dying, seen, idle, total, notify, started, shutdown,
                 cancelled, current>>

(* a retired worker subtracted twice, and one whose failed replacement     *)
(* wakes nobody                                                            *)
RetireBy(p, n) ==
  /\ pc[p] \in {"retire", "respawnFailed"}
  /\ total' = total - n
  /\ own' = [own EXCEPT ![p] = {}]
  /\ Goto(p, "out")
  /\ UNCHANGED <<dying, seen, idle, open, notify, started, shutdown,
                 cancelled, current>>
RetireTwice(p) == RetireBy(p, 2)
RetireSilently(p) == RetireBy(p, 1)

(* a replacement listed without looking at shutdown *)
ListReplacementUnchecked(p) ==
  /\ pc[p] = "readd"
  /\ idle' = idle \cup own[p]
  /\ own' = [own EXCEPT ![p] = {}]
  /\ Goto(p, "signal")
  /\ UNCHANGED <<dying, seen, total, open, notify, started, shutdown,
                 cancelled, current>>

-----------------------------------------------------------------------------
(* spawn: starts the workers one at a time, and on the first failure       *)
(* closes those already started.                                           *)

SpawnOne(a) ==
  /\ pc[a] = "spawn"
  /\ \E s \in own[a] \ open :
       /\ open' = open \cup {s}
       /\ pc' = [pc EXCEPT ![a] = IF own[a] \ {s} \subseteq open
                                  THEN "spawned" ELSE "spawn"]
  /\ UNCHANGED <<own, dying, seen, idle, total, notify, started, shutdown,
                 cancelled, current>>

SpawnFail(a) ==
  /\ pc[a] = "spawn"
  /\ open' = open \ own[a]
  /\ Goto(a, "spawnFailed")
  /\ UNCHANGED <<own, dying, seen, idle, total, notify, started, shutdown,
                 cancelled, current>>

-----------------------------------------------------------------------------
(* Run and bootstrap.  A bootstrap that fails leaves Runner at             *)
(* "spawnFailed": Run returns the error and the whole runtime exits.       *)

BootList ==
  /\ pc[Runner] = "spawned"
  /\ idle' = idle \cup own[Runner]
  /\ total' = Cardinality(own[Runner])
  /\ seen' = [seen EXCEPT ![Runner] = total']
  /\ own' = [own EXCEPT ![Runner] = {}]
  /\ Goto(Runner, "bootSync")
  /\ UNCHANGED <<dying, open, notify, started, shutdown, cancelled, current>>

BootSync ==
  /\ pc[Runner] = "bootSync"
  /\ current' = seen[Runner]
  /\ seen' = [seen EXCEPT ![Runner] = 0]
  /\ Goto(Runner, "bootOpen")
  /\ UNCHANGED <<own, dying, idle, total, open, notify, started,
                 shutdown, cancelled>>

BootOpen ==
  /\ pc[Runner] = "bootOpen"
  /\ started' = TRUE
  /\ Goto(Runner, "loop")
  /\ UNCHANGED <<own, dying, seen, idle, total, open, notify, shutdown,
                 cancelled, current>>

(* ctx of the application is cancelled (SIGINT, SIGTERM). *)
Cancel ==
  /\ ~cancelled
  /\ cancelled' = TRUE
  /\ UNCHANGED <<pc, own, dying, seen, idle, total, open, notify, started,
                 shutdown, current>>

(* How many workers shrinkIdle may drop.  total counts growth that is      *)
(* reserved and not yet started.                                           *)
Removable == total - MinWorkers

(* A tick of the shrink timer that finds nothing to drop changes nothing   *)
(* and is a stutter.                                                       *)
ShrinkIdle ==
  /\ pc[Runner] = "loop"
  /\ ~shutdown
  /\ \E expired \in SUBSET idle :
       /\ expired # {}
       /\ Cardinality(expired) <= Removable
       /\ idle' = idle \ expired
       /\ dying' = [dying EXCEPT ![Runner] = expired]
       /\ total' = total - Cardinality(expired)
  /\ seen' = [seen EXCEPT ![Runner] = total']
  /\ Goto(Runner, "shrinkClose")
  /\ UNCHANGED <<own, open, notify, started, shutdown, cancelled, current>>

ShrinkSync ==
  /\ pc[Runner] = "shrinkSync"
  /\ current' = seen[Runner]
  /\ seen' = [seen EXCEPT ![Runner] = 0]
  /\ Goto(Runner, "loop")
  /\ UNCHANGED <<own, dying, idle, total, open, notify, started,
                 shutdown, cancelled>>

(* stop: total is left as it is, and the gauge with it. *)
Stop ==
  /\ pc[Runner] = "loop"
  /\ cancelled
  /\ shutdown' = TRUE
  /\ dying' = [dying EXCEPT ![Runner] = idle]
  /\ idle' = {}
  /\ Goto(Runner, "stopClose")
  /\ UNCHANGED <<own, seen, total, open, notify, started, cancelled, current>>

(* Close of the workers taken out of the list by shrinkIdle or stop. *)
RunnerClose ==
  /\ pc[Runner] \in {"shrinkClose", "stopClose"}
  /\ open' = open \ dying[Runner]
  /\ dying' = [dying EXCEPT ![Runner] = {}]
  /\ Goto(Runner, IF pc[Runner] = "shrinkClose" THEN "shrinkSync" ELSE "done")
  /\ UNCHANGED <<own, seen, idle, total, notify, started, shutdown, cancelled,
                 current>>

-----------------------------------------------------------------------------
(* Execute and acquire.  A call that finds the pool not started or the     *)
(* context done returns at once and changes nothing.                       *)

Enter(p) ==
  /\ pc[p] = "out"
  /\ started
  /\ Goto(p, "acquire")
  /\ UNCHANGED <<own, dying, seen, idle, total, open, notify, started,
                 shutdown, cancelled, current>>

AcquireRefused(p) ==
  /\ pc[p] = "acquire"
  /\ shutdown
  /\ Goto(p, "out")
  /\ UNCHANGED <<own, dying, seen, idle, total, open, notify, started,
                 shutdown, cancelled, current>>

TakeIdle(p) ==
  /\ pc[p] = "acquire"
  /\ ~shutdown
  /\ \E w \in idle :
       /\ idle' = idle \ {w}
       /\ own' = [own EXCEPT ![p] = {w}]
  /\ Goto(p, "exec")
  /\ UNCHANGED <<dying, seen, total, open, notify, started, shutdown,
                 cancelled, current>>

(* reserveGrowthLocked: the growth granted when no worker is idle. *)
Growth ==
  IF MaxWorkers = 0 \/ ScaleUpStep <= MaxWorkers - total THEN ScaleUpStep
  ELSE IF total < MaxWorkers THEN MaxWorkers - total
  ELSE 0

Reserve(p) ==
  /\ pc[p] = "acquire"
  /\ ~shutdown
  /\ idle = {}
  /\ Growth > 0
  /\ \E S \in SlotSets(Growth) :
       /\ S \subseteq Free
       /\ own' = [own EXCEPT ![p] = S]
  /\ total' = total + Growth
  /\ Goto(p, "spawn")
  /\ UNCHANGED <<dying, seen, idle, open, notify, started, shutdown,
                 cancelled, current>>

Block(p) ==
  /\ pc[p] = "acquire"
  /\ ~shutdown
  /\ idle = {}
  /\ Growth = 0
  /\ Goto(p, "wait")
  /\ UNCHANGED <<own, dying, seen, idle, total, open, notify, started,
                 shutdown, cancelled, current>>

Wake(p) ==
  /\ pc[p] = "wait"
  /\ notify
  /\ notify' = FALSE
  /\ Goto(p, "acquire")
  /\ UNCHANGED <<own, dying, seen, idle, total, open, started, shutdown,
                 cancelled, current>>

GiveUp(p) ==
  /\ pc[p] = "wait"
  /\ cancelled \/ shutdown
  /\ Goto(p, "out")
  /\ UNCHANGED <<own, dying, seen, idle, total, open, notify, started,
                 shutdown, cancelled, current>>

-----------------------------------------------------------------------------
(* growAndAcquire, after spawn has returned. *)

GrowFailed(p) ==
  /\ pc[p] = "spawnFailed"
  /\ total' = total - Cardinality(own[p])
  /\ seen' = [seen EXCEPT ![p] = total']
  /\ own' = [own EXCEPT ![p] = {}]
  /\ Goto(p, "syncSignal")
  /\ UNCHANGED <<dying, idle, open, notify, started, shutdown, cancelled,
                 current>>

GrowRefused(p) ==
  /\ pc[p] = "spawned"
  /\ shutdown
  /\ total' = total - Cardinality(own[p])
  /\ seen' = [seen EXCEPT ![p] = total']
  /\ dying' = [dying EXCEPT ![p] = own[p]]
  /\ own' = [own EXCEPT ![p] = {}]
  /\ Goto(p, "syncClose")
  /\ UNCHANGED <<idle, open, notify, started, shutdown, cancelled, current>>

GrowDone(p) ==
  /\ pc[p] = "spawned"
  /\ ~shutdown
  /\ \E w \in own[p] :
       /\ idle' = idle \cup (own[p] \ {w})
       /\ own' = [own EXCEPT ![p] = {w}]
  /\ seen' = [seen EXCEPT ![p] = total]
  /\ Goto(p, "syncSignal")
  /\ UNCHANGED <<dying, total, open, notify, started, shutdown, cancelled,
                 current>>

-----------------------------------------------------------------------------
(* Worker.Execute returns: the worker is fit to be used again, or it has   *)
(* reached its job limit or broke and must be recycled.  A task that ran   *)
(* into its deadline has closed the process already.                       *)

TaskDone(p) ==
  /\ pc[p] = "exec"
  /\ Goto(p, "release")
  /\ UNCHANGED <<own, dying, seen, idle, total, open, notify, started,
                 shutdown, cancelled, current>>

TaskSpoilsWorker(p) ==
  /\ pc[p] = "exec"
  /\ \E timedOut \in BOOLEAN :
       open' = IF timedOut THEN open \ own[p] ELSE open
  /\ Goto(p, "recycle")
  /\ UNCHANGED <<own, dying, seen, idle, total, notify, started, shutdown,
                 cancelled, current>>

(* release of a worker that need not restart. *)
Release(p) ==
  /\ pc[p] = "release"
  /\ ~shutdown
  /\ idle' = idle \cup own[p]
  /\ own' = [own EXCEPT ![p] = {}]
  /\ Goto(p, "signal")
  /\ UNCHANGED <<dying, seen, total, open, notify, started, shutdown,
                 cancelled, current>>

(* release after stop, and the same section of recycle when the            *)
(* replacement is ready: the worker leaves the pool and is closed later.   *)
ReleaseStopped(p) ==
  /\ pc[p] \in {"release", "readd"}
  /\ shutdown
  /\ total' = total - 1
  /\ seen' = [seen EXCEPT ![p] = total']
  /\ dying' = [dying EXCEPT ![p] = own[p]]
  /\ own' = [own EXCEPT ![p] = {}]
  /\ Goto(p, "syncClose")
  /\ UNCHANGED <<idle, open, notify, started, shutdown, cancelled, current>>

-----------------------------------------------------------------------------
(* recycle: close the old process, start a replacement, list it. *)

RecycleClose(p) ==
  /\ pc[p] = "recycle"
  /\ open' = open \ own[p]
  /\ Goto(p, "recheck")
  /\ UNCHANGED <<own, dying, seen, idle, total, notify, started, shutdown,
                 cancelled, current>>

(* The read of p.shutdown outside the lock. *)
RecycleCheck(p) ==
  /\ pc[p] = "recheck"
  /\ Goto(p, IF shutdown THEN "retire" ELSE "respawn")
  /\ UNCHANGED <<own, dying, seen, idle, total, open, notify, started,
                 shutdown, cancelled, current>>

Respawn(p) ==
  /\ pc[p] = "respawn"
  /\ open' = open \cup own[p]
  /\ Goto(p, "readd")
  /\ UNCHANGED <<own, dying, seen, idle, total, notify, started, shutdown,
                 cancelled, current>>

RespawnFail(p) ==
  /\ pc[p] = "respawn"
  /\ Goto(p, "respawnFailed")
  /\ UNCHANGED <<own, dying, seen, idle, total, open, notify, started,
                 shutdown, cancelled, current>>

(* The worker is gone and is not replaced. *)
Retire(p) ==
  /\ pc[p] \in {"retire", "respawnFailed"}
  /\ total' = total - 1
  /\ seen' = [seen EXCEPT ![p] = total']
  /\ own' = [own EXCEPT ![p] = {}]
  /\ Goto(p, IF pc[p] = "retire" THEN "syncReturn" ELSE "syncSignal")
  /\ UNCHANGED <<dying, idle, open, notify, started, shutdown, cancelled,
                 current>>

ListReplacement(p) ==
  /\ pc[p] = "readd"
  /\ ~shutdown
  /\ idle' = idle \cup own[p]
  /\ own' = [own EXCEPT ![p] = {}]
  /\ seen' = [seen EXCEPT ![p] = total]
  /\ Goto(p, "syncSignal")
  /\ UNCHANGED <<dying, total, open, notify, started, shutdown, cancelled,
                 current>>

-----------------------------------------------------------------------------
(* What follows a critical section, outside the lock: publish the total    *)
(* that was read inside, close, signal.                                    *)

AfterSync == [syncSignal |-> "signal", syncClose |-> "close",
              syncReturn |-> "out"]

SyncCurrent(p) ==
  /\ pc[p] \in DOMAIN AfterSync
  /\ current' = seen[p]
  /\ seen' = [seen EXCEPT ![p] = 0]
  /\ Goto(p, AfterSync[pc[p]])
  /\ UNCHANGED <<own, dying, idle, total, open, notify, started,
                 shutdown, cancelled>>

CloseRemoved(p) ==
  /\ pc[p] = "close"
  /\ open' = open \ dying[p]
  /\ dying' = [dying EXCEPT ![p] = {}]
  /\ Goto(p, "out")
  /\ UNCHANGED <<own, seen, idle, total, notify, started, shutdown,
                 cancelled, current>>

(* signal: a second token is dropped.  growAndAcquire goes on to the task  *)
(* with the worker it kept, every other path returns from Execute.         *)
Signal(p) ==
  /\ pc[p] = "signal"
  /\ notify' = TRUE
  /\ Goto(p, IF own[p] = {} THEN "out" ELSE "exec")
  /\ UNCHANGED <<own, dying, seen, idle, total, open, started, shutdown,
                 cancelled, current>>

-----------------------------------------------------------------------------
(* The process has nothing left to do after a failed bootstrap. *)
Exited == pc[Runner] = "spawnFailed" /\ UNCHANGED vars

RunnerNext ==
  \/ SpawnOne(Runner) \/ SpawnFail(Runner)
  \/ BootList \/ BootSync \/ BootOpen
  \/ ShrinkIdle \/ ShrinkSync \/ Stop \/ RunnerClose

AcquireNext(p) ==
  \/ AcquireRefused(p) \/ TakeIdle(p) \/ Reserve(p) \/ Block(p)

GrowNext(p) ==
  \/ SpawnOne(p) \/ SpawnFail(p)
  \/ GrowFailed(p) \/ GrowRefused(p) \/ GrowDone(p)

WorkNext(p) ==
  \/ TaskDone(p) \/ TaskSpoilsWorker(p)
  \/ Release(p) \/ ReleaseStopped(p)

RecycleNext(p) ==
  \/ RecycleClose(p) \/ RecycleCheck(p) \/ Respawn(p) \/ RespawnFail(p)
  \/ Retire(p) \/ ListReplacement(p)

TailNext(p) == SyncCurrent(p) \/ CloseRemoved(p) \/ Signal(p)

(* Every step of a call in progress but the wake-up by a token. *)
CallNext(p) ==
  \/ AcquireNext(p) \/ GiveUp(p) \/ GrowNext(p)
  \/ WorkNext(p) \/ RecycleNext(p) \/ TailNext(p)

Next ==
  \/ RunnerNext \/ Cancel \/ Exited
  \/ \E p \in Callers : Enter(p) \/ Wake(p) \/ CallNext(p)

Spec == Init /\ [][Next]_vars

(* A goroutine that can run does, and a task ends because of its timeout.  *)
(* Strong fairness where Go's runtime gives it: receivers blocked on a     *)
(* channel are served in the order they arrived, and a select with several *)
(* ready cases picks one at random, so a cancelled Run cannot go on        *)
(* ticking for ever.  No call has to be made and no cancellation to come.  *)
Fairness ==
  /\ WF_vars(SpawnOne(Runner) \/ SpawnFail(Runner))
  /\ WF_vars(BootList \/ BootSync \/ BootOpen \/ ShrinkSync \/ RunnerClose)
  /\ SF_vars(Stop)
  /\ \A p \in Callers : WF_vars(CallNext(p)) /\ SF_vars(Wake(p))

FairSpec == Spec /\ Fairness

-----------------------------------------------------------------------------
(* Slots that count for total while the pool runs. *)
Counted ==
  {s \in Slots : s \in idle \/ \E p \in Callers : s \in own[p]}

(* Slots some goroutine or the idle list answers for. *)
Kept ==
  {s \in Slots : s \in idle \/ \E a \in Agents : s \in own[a] \cup dying[a]}

(* The places from which a caller is bound to put a token into notify, or  *)
(* to take a turn at the lock, if the pool is not stopped meanwhile.       *)
Rescuing ==
  {"acquire", "spawn", "spawnFailed", "spawned", "exec", "release",
   "recycle", "recheck", "respawn", "respawnFailed", "readd", "syncSignal",
   "signal"}

(* Types. *)
TypeOK ==
  /\ pc \in [Agents -> CallerLabels \cup RunnerLabels]
  /\ \A p \in Callers : pc[p] \in CallerLabels
  /\ pc[Runner] \in RunnerLabels
  /\ own \in [Agents -> SUBSET Slots]
  /\ dying \in [Agents -> SUBSET Slots]
  /\ seen \in [Agents -> Nat]
  /\ idle \subseteq Slots
  /\ total \in Nat
  /\ open \subseteq Slots
  /\ notify \in BOOLEAN
  /\ started \in BOOLEAN
  /\ shutdown \in BOOLEAN
  /\ cancelled \in BOOLEAN
  /\ current \in Nat

(* A worker is in one place only: on the idle list, with one goroutine, or *)
(* on its way to be closed.  acquire, release, recycle, growAndAcquire,    *)
(* shrinkIdle and stop hand it over without ever sharing it.               *)
ExclusiveLease ==
  \A a \in Agents :
    /\ own[a] \cap idle = {}
    /\ dying[a] \cap idle = {}
    /\ \A b \in Agents :
         /\ own[a] \cap dying[b] = {}
         /\ a # b => own[a] \cap own[b] = {} /\ dying[a] \cap dying[b] = {}

(* Only a worker whose process runs is listed as idle or given a task:     *)
(* none that recycle, shrinkIdle or a task's timeout has closed.           *)
OnlyRunningWorkersServe ==
  /\ idle \subseteq open
  /\ \A p \in Callers : pc[p] = "exec" => own[p] # {} /\ own[p] \subseteq open

(* No PHP process is left behind: whoever is overtaken by stop or by a     *)
(* failed start still holds every process it has to close.  With nobody    *)
(* inside Execute and Run returned, no process runs.                       *)
NoOrphan == open \subseteq Kept

(* p.total is the number of idle workers, of those on lease and of those   *)
(* reserved.  stop empties the list and leaves total, so afterwards it is  *)
(* an upper bound.                                                         *)
Accounting ==
  /\ Cardinality(Counted) <= total
  /\ ~shutdown => total = Cardinality(Counted)

(* max_workers: the pool never counts, holds or starts more workers than   *)
(* configured (with min_workers within it), however many callers grow it   *)
(* at once.                                                                *)
MaxRespected ==
  MaxWorkers > 0 /\ MinWorkers <= MaxWorkers =>
    total <= MaxWorkers /\ Cardinality(Counted) <= MaxWorkers

(* After stop no goroutine lists a worker as idle: it would never be       *)
(* closed.                                                                 *)
NothingIdleAfterStop == shutdown => idle = {}

(* No lost wake-up: while a caller is blocked on p.notify with no token in *)
(* it, another caller is at a point from which it will signal.  signal     *)
(* drops a second token, so this is not one token per waiter.              *)
NoStrandedWaiter ==
  (\E p \in Callers : pc[p] = "wait") /\ ~notify /\ ~shutdown =>
    \E q \in Callers : pc[q] \in Rescuing

(* Every blocked call gets its turn at the pool, or returns because the    *)
(* runtime stops: a waiter is not left on p.notify for ever.               *)
BlockedIsWoken == \A p \in Callers : pc[p] = "wait" ~> pc[p] # "wait"

(* Once the context is cancelled every PHP process is closed for good,     *)
(* whatever growth, recycling or release is under way.                     *)
CancelClosesAll == cancelled ~> [](open = {})

(* The implementation of the abstract lease: a worker is on lease from the *)
(* critical section that hands it out to the one that takes it back.       *)
OnLease(p) ==
  IF pc[p] \in {"spawn", "spawnFailed", "spawned"} THEN {} ELSE own[p]

Lease == INSTANCE PoolLease
           WITH Limit <- MaxWorkers,
                lease <- [p \in Callers |-> OnLease(p)],
                accepting <- ~shutdown

(* The pool lends each worker to one caller, within max_workers, and lends *)
(* nothing after stop.                                                     *)
ImplementsLease == Lease!Spec

(* README.md:324: runtime:status shows the current size of the pool.  With *)
(* nobody inside Execute and no shrink under way, the gauge is the size.   *)
GaugeAtRest ==
  (pc[Runner] = "loop" /\ \A p \in Callers : pc[p] = "out") =>
    current = total

(* README.md:225: shrinking does not take the pool below min_workers.      *)
(* Workers reserved and not started yet are no workers of the pool.        *)
ShrinkKeepsMin ==
  [][ShrinkIdle =>
       Cardinality({s \in Counted' : ~\E p \in Callers :
                       pc[p] \in {"spawn", "spawnFailed"} /\ s \in own[p]})
         >= MinWorkers]_vars

=============================================================================
