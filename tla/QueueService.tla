---------------------------- MODULE QueueService ----------------------------
(***************************************************************************)
(* The queue service, runtime/internal/queue/queue.go: the goroutine of    *)
(* Run, which polls the PHP master for dispatchers and jobs, and one       *)
(* handler goroutine per job.                                              *)
(*                                                                         *)
(* A step is a critical section under s.mu, or a remote call to the PHP    *)
(* master, or the end of a task in the worker pool; between two of them    *)
(* any other goroutine may run.  The job store of the PHP master and the   *)
(* worker pool are external to this module: a call to the master may be    *)
(* refused, may fail, or may be carried out and its reply lost; the pool   *)
(* answers in any way.  Status counters are left out.                      *)
(***************************************************************************)
EXTENDS Integers, FiniteSets

CONSTANTS
  Queues,     \* dispatcher names
  Jobs,       \* job identifiers, none of them ""
  QueueOf,    \* the queue a job was put in
  Handlers,   \* handler goroutines alive at once (a bound for TLC)
  Fallback,   \* config.QueueNames
  MaxNum,     \* largest concurrency a dispatcher is configured with (a bound)
  PullLimit,  \* config.QueuePullLimit
  Outages,    \* whether the PHP master may be unreachable or answer errors
  NoJob       \* a handler or a tick has no job at hand

ASSUME QueueSettings ==
  /\ QueueOf \in [Jobs -> Queues]
  /\ Fallback \subseteq Queues
  /\ MaxNum \in Nat \ {0}
  /\ PullLimit \in Nat
  /\ Outages \in BOOLEAN
  /\ NoJob \notin Jobs
ASSUME FiniteQueue == IsFiniteSet(Jobs) /\ IsFiniteSet(Handlers)

VARIABLES
  run,        \* where the goroutine of Run is
  num,        \* s.workers: configured concurrency, 0 for no such dispatcher
  active,     \* s.workers: jobs counted as running
  fresh,      \* lastRefresh is younger than QueueConfigRefresh
  todo,       \* dispatchers of this tick's snapshot still to be polled
  room,       \* their free concurrency, as of the snapshot
  polled,     \* the dispatcher whose answer is being dispatched
  batch,      \* jobs of that answer not looked at yet
  picked,     \* the job reserved and about to be handed to a handler
  inflight,   \* s.inflight
  hpc,        \* where each handler is
  hjob,       \* its job
  hqueue,     \* the dispatcher it was started for
  cancelled,  \* ctx.Done() is closed
  store,      \* the master's view of each job
  forgotten   \* history: dispatchers dropped while jobs of theirs ran, until
              \* none does

tick == <<todo, room, polled, batch, picked>>
workers == <<num, active, fresh, forgotten>>
handlers == <<hpc, hjob, hqueue>>
vars == <<run, num, active, fresh, todo, room, polled, batch, picked,
          inflight, hpc, hjob, hqueue, cancelled, store, forgotten>>

(* Handlers started for q that have not taken themselves off its count.    *)
Running(q) == {h \in Handlers : hpc[h] # "free" /\ hqueue[h] = q}

Lesser(a, b) == IF a < b THEN a ELSE b

Init ==
  /\ run = "tick"
  /\ num = [q \in Queues |-> 0]
  /\ active = [q \in Queues |-> 0]
  /\ fresh = FALSE
  /\ todo = {}
  /\ room = [q \in Queues |-> 0]
  /\ polled = NoJob
  /\ batch = {}
  /\ picked = NoJob
  /\ inflight = {}
  /\ hpc = [h \in Handlers |-> "free"]
  /\ hjob = [h \in Handlers |-> NoJob]
  /\ hqueue = [h \in Handlers |-> NoJob]
  /\ cancelled = FALSE
  /\ store = [j \in Jobs |-> "ready"]
  /\ forgotten = {}

-----------------------------------------------------------------------------
(* Faulty variants of definitions below; no action uses them.              *)

(* a refresh that starts the counts of the dispatchers it keeps anew *)
KeptActiveReset(cfg) == [q \in Queues |-> 0]

(* a poll bounded by the configured concurrency alone *)
FreeConcurrencyUncounted(q) == num[q]

(* a duplicate that is run again *)
IsDuplicateNever(job) == FALSE

(* a handler that returns early when its report is lost *)
ReportLostReturns(h) ==
  /\ hpc[h] \in {"ack", "fail"}
  /\ Outages \/ cancelled
  /\ hpc' = [hpc EXCEPT ![h] = "unmark"]
  /\ UNCHANGED <<run, workers, tick, inflight, hjob, hqueue, cancelled, store>>

(* a Run that does not wait for its handlers *)
DrainedAtOnce ==
  /\ run \in {"draining", "failing"}
  /\ run' = IF run = "draining" THEN "done" ELSE "failed"
  /\ UNCHANGED <<workers, tick, inflight, handlers, cancelled, store>>

(* a count taken back without the check at zero, and a handler that waits  *)
(* until its dispatcher is configured                                      *)
UnmarkBelowZero(h) ==
  /\ hpc[h] = "unmark"
  /\ active' = [active EXCEPT ![hqueue[h]] = @ - 1]
  /\ hpc' = [hpc EXCEPT ![h] = "free"]
  /\ UNCHANGED <<run, num, fresh, forgotten, tick, inflight, hjob, hqueue,
                 cancelled, store>>
UnmarkConfigured(h) ==
  /\ hpc[h] = "unmark"
  /\ num[hqueue[h]] > 0
  /\ active' = [active EXCEPT ![hqueue[h]] = IF @ > 0 THEN @ - 1 ELSE 0]
  /\ hpc' = [hpc EXCEPT ![h] = "free"]
  /\ UNCHANGED <<run, num, fresh, forgotten, tick, inflight, hjob, hqueue,
                 cancelled, store>>

-----------------------------------------------------------------------------
(* tick, first part: refreshWorkers. *)

NeedsRefresh == ~fresh \/ \A q \in Queues : num[q] = 0

SkipRefresh ==
  /\ run = "tick"
  /\ ~NeedsRefresh
  /\ run' = "snapshot"
  /\ UNCHANGED <<workers, tick, inflight, handlers, cancelled, store>>

(* The counts a new set of dispatchers starts with: a dispatcher that      *)
(* stays keeps its count, one that goes loses it.                          *)
KeptActive(cfg) == [q \in Queues |-> IF cfg[q] > 0 THEN active[q] ELSE 0]

Configure(cfg) ==
  /\ num' = cfg
  /\ active' = KeptActive(cfg)
  /\ fresh' = TRUE
  /\ forgotten' = forgotten \cup {q \in Queues : cfg[q] = 0 /\ Running(q) # {}}
  /\ run' = "snapshot"
  /\ UNCHANGED <<tick, inflight, handlers, cancelled, store>>

(* The master answers with dispatchers: Num <= 0 counts as 1.  Names are   *)
(* keys of the PHP configuration and never empty, like the job identifiers *)
(* (the code skips an entry without a name).                               *)
ConfigReply ==
  /\ run = "tick"
  /\ NeedsRefresh
  /\ ~cancelled
  /\ \E cfg \in [Queues -> 0 .. MaxNum] :
       /\ \E q \in Queues : cfg[q] > 0
       /\ Configure(cfg)

(* useFallbackWorkers: the master has no dispatchers, or is unavailable,   *)
(* as it always is under a cancelled context.                              *)
ConfigFallback ==
  /\ run = "tick"
  /\ NeedsRefresh
  /\ Configure([q \in Queues |-> IF q \in Fallback THEN 1 ELSE 0])

(* Any other error ends Run, and with it the runtime. *)
ConfigError ==
  /\ run = "tick"
  /\ NeedsRefresh
  /\ Outages /\ ~cancelled
  /\ run' = "failing"
  /\ UNCHANGED <<workers, tick, inflight, handlers, cancelled, store>>

(* QueueConfigRefresh elapses. *)
GrowStale ==
  /\ fresh
  /\ run \in {"sleep", "tick"}
  /\ fresh' = FALSE
  /\ UNCHANGED <<run, num, active, forgotten, tick, inflight, handlers,
                 cancelled, store>>

-----------------------------------------------------------------------------
(* tick, second part: poll the dispatchers of the snapshot. *)

FreeConcurrency(q) == num[q] - active[q]

Snapshot ==
  /\ run = "snapshot"
  /\ room' = [q \in Queues |->
                IF num[q] > 0 /\ FreeConcurrency(q) > 0
                THEN Lesser(FreeConcurrency(q), PullLimit) ELSE 0]
  /\ todo' = {q \in Queues : room'[q] > 0}
  /\ run' = "poll"
  /\ UNCHANGED <<workers, polled, batch, picked, inflight, handlers,
                 cancelled, store>>

(* The master hands out jobs of q and marks them reserved. *)
Deliver(q, S) ==
  /\ S \subseteq {j \in Jobs : QueueOf[j] = q /\ store[j] = "ready"}
  /\ Cardinality(S) <= room[q]
  /\ store' = [j \in Jobs |-> IF j \in S THEN "reserved" ELSE store[j]]

PullReply ==
  /\ run = "poll"
  /\ ~cancelled
  /\ \E q \in todo, S \in SUBSET Jobs :
       /\ Deliver(q, S)
       /\ todo' = todo \ {q}
       /\ polled' = q
       /\ batch' = S
  /\ run' = "dispatch"
  /\ UNCHANGED <<workers, room, picked, inflight, handlers, cancelled>>

(* The master cannot be reached, or the context is cancelled: the tick is  *)
(* given up.                                                               *)
PullUnavailable ==
  /\ run = "poll"
  /\ todo # {}
  /\ Outages \/ cancelled
  /\ todo' = {}
  /\ room' = [q \in Queues |-> 0]
  /\ run' = "sleep"
  /\ UNCHANGED <<workers, polled, batch, picked, inflight, handlers,
                 cancelled, store>>

(* The master answers an error, or its answer is lost on the way with the  *)
(* jobs in it: Run returns the error.                                      *)
PullError ==
  /\ run = "poll"
  /\ Outages /\ ~cancelled
  /\ \E q \in todo, S \in SUBSET Jobs : Deliver(q, S)
  /\ todo' = {}
  /\ room' = [q \in Queues |-> 0]
  /\ run' = "failing"
  /\ UNCHANGED <<workers, polled, batch, picked, inflight, handlers, cancelled>>

PollDone ==
  /\ run = "poll"
  /\ todo = {}
  /\ room' = [q \in Queues |-> 0]
  /\ run' = "sleep"
  /\ UNCHANGED <<workers, todo, polled, batch, picked, inflight, handlers,
                 cancelled, store>>

-----------------------------------------------------------------------------
(* tick, third part: dispatch the jobs of one answer. *)

IsDuplicate(job) == job \in inflight

ReserveJob ==
  /\ run = "dispatch"
  /\ picked = NoJob
  /\ \E job \in batch :
       /\ batch' = batch \ {job}
       /\ IF IsDuplicate(job)
          THEN UNCHANGED <<inflight, picked>>
          ELSE /\ inflight' = inflight \cup {job}
               /\ picked' = job
  /\ UNCHANGED <<run, workers, todo, room, polled, handlers, cancelled, store>>

(* markActive(+1) and the go statement. *)
StartHandler ==
  /\ run = "dispatch"
  /\ picked # NoJob
  /\ active' = IF num[polled] > 0
               THEN [active EXCEPT ![polled] = @ + 1] ELSE active
  /\ \E h \in Handlers :
       /\ hpc[h] = "free"
       /\ hpc' = [hpc EXCEPT ![h] = "exec"]
       /\ hjob' = [hjob EXCEPT ![h] = picked]
       /\ hqueue' = [hqueue EXCEPT ![h] = polled]
  /\ picked' = NoJob
  /\ UNCHANGED <<run, num, fresh, forgotten, todo, room, polled, batch,
                 inflight, cancelled, store>>

DispatchDone ==
  /\ run = "dispatch"
  /\ picked = NoJob
  /\ batch = {}
  /\ polled' = NoJob
  /\ run' = "poll"
  /\ UNCHANGED <<workers, todo, room, batch, picked, inflight, handlers,
                 cancelled, store>>

-----------------------------------------------------------------------------
(* Run between two ticks, and its end. *)

NextTick ==
  /\ run = "sleep"
  /\ run' = "tick"
  /\ UNCHANGED <<workers, tick, inflight, handlers, cancelled, store>>

Cancel ==
  /\ ~cancelled
  /\ cancelled' = TRUE
  /\ UNCHANGED <<run, workers, tick, inflight, handlers, store>>

SeeCancel ==
  /\ run = "sleep"
  /\ cancelled
  /\ run' = "draining"
  /\ UNCHANGED <<workers, tick, inflight, handlers, cancelled, store>>

(* The deferred wg.Wait. *)
Drained ==
  /\ run \in {"draining", "failing"}
  /\ \A h \in Handlers : hpc[h] = "free"
  /\ run' = IF run = "draining" THEN "done" ELSE "failed"
  /\ UNCHANGED <<workers, tick, inflight, handlers, cancelled, store>>

-----------------------------------------------------------------------------
(* handleJob, in the handler's goroutine. *)

(* pool.Execute returns. *)
TaskSucceeds(h) ==
  /\ hpc[h] = "exec"
  /\ hpc' = [hpc EXCEPT ![h] = "ack"]
  /\ UNCHANGED <<run, workers, tick, inflight, hjob, hqueue, cancelled, store>>

TaskFails(h) ==
  /\ hpc[h] = "exec"
  /\ hpc' = [hpc EXCEPT ![h] = "fail"]
  /\ UNCHANGED <<run, workers, tick, inflight, hjob, hqueue, cancelled, store>>

(* What the master makes of a report: an acknowledged job is settled, a    *)
(* failed one is queued again if the failure is retryable.                 *)
Outcomes(h) == IF hpc[h] = "ack" THEN {"settled"} ELSE {"ready", "settled"}

(* The report reaches the master.  A call under a cancelled context does   *)
(* not even dial.                                                          *)
Report(h) ==
  /\ hpc[h] \in {"ack", "fail"}
  /\ ~cancelled
  /\ \E outcome \in Outcomes(h) :
       store' = [store EXCEPT ![hjob[h]] = outcome]
  /\ hpc' = [hpc EXCEPT ![h] = "release"]
  /\ UNCHANGED <<run, workers, tick, inflight, hjob, hqueue, cancelled>>

(* The report does not reach the master; the error is logged, or ignored   *)
(* if it says unavailable.                                                 *)
ReportLost(h) ==
  /\ hpc[h] \in {"ack", "fail"}
  /\ Outages \/ cancelled
  /\ hpc' = [hpc EXCEPT ![h] = "release"]
  /\ UNCHANGED <<run, workers, tick, inflight, hjob, hqueue, cancelled, store>>

(* The deferred calls, last one first. *)
ReleaseJob(h) ==
  /\ hpc[h] = "release"
  /\ inflight' = inflight \ {hjob[h]}
  /\ hpc' = [hpc EXCEPT ![h] = "unmark"]
  /\ UNCHANGED <<run, workers, tick, hjob, hqueue, cancelled, store>>

(* markActive(-1) looks the dispatcher up by name and stops at zero. *)
Unmark(h) ==
  /\ hpc[h] = "unmark"
  /\ active' = IF num[hqueue[h]] > 0 /\ active[hqueue[h]] > 0
               THEN [active EXCEPT ![hqueue[h]] = @ - 1] ELSE active
  /\ forgotten' = IF Running(hqueue[h]) = {h} THEN forgotten \ {hqueue[h]}
                  ELSE forgotten
  /\ hpc' = [hpc EXCEPT ![h] = "free"]
  /\ hjob' = [hjob EXCEPT ![h] = NoJob]
  /\ hqueue' = [hqueue EXCEPT ![h] = NoJob]
  /\ UNCHANGED <<run, num, fresh, tick, inflight, cancelled, store>>

-----------------------------------------------------------------------------
(* The master's side, outside src/: a job reserved for too long is handed  *)
(* out again.  A job that is ready and left out of an answer stands also   *)
(* for one that is queued later.                                           *)
Redeliver(job) ==
  /\ store[job] = "reserved"
  /\ store' = [store EXCEPT ![job] = "ready"]
  /\ UNCHANGED <<run, workers, tick, inflight, handlers, cancelled>>

-----------------------------------------------------------------------------
Returned == run \in {"done", "failed"} /\ UNCHANGED vars

RefreshNext == SkipRefresh \/ ConfigReply \/ ConfigFallback \/ ConfigError
PollNext ==
  \/ Snapshot \/ PullReply \/ PullUnavailable \/ PullError \/ PollDone
  \/ ReserveJob \/ StartHandler \/ DispatchDone
TickNext == RefreshNext \/ PollNext

HandlerNext(h) ==
  \/ TaskSucceeds(h) \/ TaskFails(h) \/ Report(h) \/ ReportLost(h)
  \/ ReleaseJob(h) \/ Unmark(h)

Next ==
  \/ TickNext \/ NextTick \/ GrowStale \/ Cancel \/ SeeCancel \/ Drained
  \/ Returned
  \/ \E h \in Handlers : HandlerNext(h)
  \/ \E job \in Jobs : Redeliver(job)

Spec == Init /\ [][Next]_vars

(* Goroutines run, tasks end by their timeout, and the master answers or   *)
(* refuses every call (the calls themselves have no deadline).  A select   *)
(* with the ticker and the context both ready picks one at random, so the  *)
(* cancellation is seen in the end.                                        *)
FairSpec ==
  /\ Spec
  /\ WF_vars(TickNext) /\ WF_vars(NextTick) /\ WF_vars(Drained)
  /\ SF_vars(SeeCancel)
  /\ \A h \in Handlers : WF_vars(HandlerNext(h))

-----------------------------------------------------------------------------
(* Types.  Counts do not go below zero although a handler may take itself  *)
(* off a count it was never added to.                                      *)
TypeOK ==
  /\ run \in {"tick", "snapshot", "poll", "dispatch", "sleep", "draining",
              "failing", "done", "failed"}
  /\ num \in [Queues -> 0 .. MaxNum]
  /\ active \in [Queues -> Nat]
  /\ fresh \in BOOLEAN
  /\ todo \subseteq Queues
  /\ room \in [Queues -> 0 .. MaxNum]
  /\ polled \in Queues \cup {NoJob}
  /\ batch \subseteq Jobs
  /\ picked \in Jobs \cup {NoJob}
  /\ inflight \subseteq Jobs
  /\ hpc \in [Handlers -> {"free", "exec", "ack", "fail", "release", "unmark"}]
  /\ hjob \in [Handlers -> Jobs \cup {NoJob}]
  /\ hqueue \in [Handlers -> Queues \cup {NoJob}]
  /\ cancelled \in BOOLEAN
  /\ store \in [Jobs -> {"ready", "reserved", "settled"}]
  /\ forgotten \subseteq Queues

(* A job the master hands out a second time, while its first run is still  *)
(* going or being reported, is not run again next to it.                   *)
SingleFlight ==
  \A h, k \in Handlers :
    /\ hpc[h] \in {"exec", "ack", "fail", "release"}
    /\ hpc[k] \in {"exec", "ack", "fail", "release"}
    /\ hjob[h] = hjob[k]
    => h = k

(* A job is in inflight exactly from its reservation to the release by its *)
(* handler, whatever becomes of the report: one that stayed in could never *)
(* be run again by this process.                                           *)
InflightExact ==
  inflight = {hjob[h] : h \in {k \in Handlers :
                                 hpc[k] \in {"exec", "ack", "fail", "release"}}}
             \cup ({picked} \ {NoJob})

(* The count of a dispatcher is the number of its running handlers, over   *)
(* any refresh that keeps it.  A dispatcher that was dropped and came back *)
(* is counted too low, and only until all its jobs have ended.             *)
ActiveSound ==
  \A q \in Queues :
    /\ active[q] <= Cardinality(Running(q))
    /\ num[q] > 0 /\ q \notin forgotten => active[q] = Cardinality(Running(q))

(* A dispatcher that was not dropped meanwhile never starts a job beyond   *)
(* its configured concurrency, although the room is computed from a        *)
(* snapshot taken before the calls to the master.                          *)
DispatchWithinNum ==
  [][\A q \in Queues \ forgotten :
       Cardinality(Running(q)') > Cardinality(Running(q)) =>
         Cardinality(Running(q)') <= num[q]]_vars

(* After cancellation Run stops polling, waits for its handlers and        *)
(* returns.                                                                *)
CancelDrains == cancelled ~> run \in {"done", "failed"}

(* Where job is in hand: with the tick that reserved it, or with handlers. *)
InHand(job) ==
  {hpc[h] : h \in {k \in Handlers :
                     hjob[k] = job /\ hpc[k] \in {"exec", "ack", "fail", "release"}}}
  \cup (IF picked = job THEN {"picked"} ELSE {})

Flights == INSTANCE JobFlight
             WITH hand <- [job \in Jobs |-> InHand(job)],
                  over <- run \in {"done", "failed"}

(* Whatever refreshes, redeliveries, lost reports and cancellation do, each *)
(* job is taken, run, reported and released in this order, one at a time,  *)
(* and Run returns only when none is in hand.                              *)
ImplementsFlight == Flights!Spec

(* The service as app.Run sees it, which runs it next to the others.       *)
Leaving == [draining |-> "ending", failing |-> "failing",
            done |-> "returned", failed |-> "failed"]

AsService == INSTANCE Service WITH
  Work <- Handlers,
  at <- IF run \in DOMAIN Leaving THEN Leaving[run] ELSE "running",
  busy <- {h \in Handlers : hpc[h] # "free"}

(* To the rest of the process the queue service is what the scheduler is   *)
(* (see Lifecycle): it starts no handler once it is leaving, and returns   *)
(* when the last has ended, without an error only if it was cancelled.     *)
ImplementsService == AsService!Spec

(* README.md:215 (and 206): the Go side controls a dispatcher's            *)
(* concurrency.  No more jobs of a queue run at once than the largest      *)
(* concurrency it was ever configured with.                                *)
WithinConfigured ==
  \A q \in Queues :
    Cardinality({h \in Running(q) : hpc[h] = "exec"}) <= MaxNum

(* README.md:209: Go reports ack and fail to PHP.  A task that succeeded   *)
(* is acknowledged before its handler ends.                                *)
SuccessIsAcked ==
  [][\A h \in Handlers :
       hpc[h] = "ack" /\ hpc'[h] = "release" =>
         store'[hjob[h]] = "settled"]_vars

=============================================================================
