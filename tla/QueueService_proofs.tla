------------------------- MODULE QueueService_proofs -------------------------
(***************************************************************************)
(* Proofs about QueueService, for any dispatchers, jobs, handlers and      *)
(* configured concurrencies.                                               *)
(***************************************************************************)
EXTENDS QueueService, FiniteSetTheorems, TLAPS

(* Handlers whose job is still reserved in inflight. *)
Live == {h \in Handlers : hpc[h] \in {"exec", "ack", "fail", "release"}}

(* What the place of Run and of a handler says about the job at hand.      *)
Shape ==
  /\ \A h \in Handlers :
       hpc[h] # "free" => hjob[h] \in Jobs /\ hqueue[h] \in Queues
  /\ run = "dispatch" => polled \in Queues \ todo
  /\ run # "dispatch" => picked = NoJob
  /\ run \notin {"poll", "dispatch"} => todo = {}

(* The reserved job is nobody's yet. *)
PickedFresh == \A h \in Live : hjob[h] # picked

Flight == SingleFlight /\ InflightExact /\ PickedFresh

(* A dispatcher that is not configured counts nothing, and jobs it still   *)
(* runs are the ones it was dropped with.                                  *)
Dropped ==
  \A q \in Queues :
    num[q] = 0 => active[q] = 0 /\ (Running(q) # {} => q \in forgotten)

Counts == ActiveSound /\ Dropped

(* What a tick still may start fits the concurrency that is free now:      *)
(* between the snapshot and the go statement counts only go down.          *)
Pending == Cardinality(batch) + IF picked = NoJob THEN 0 ELSE 1
Budget ==
  /\ \A q \in todo : num[q] > 0 /\ active[q] + room[q] <= num[q]
  /\ run = "dispatch" =>
       num[polled] > 0 /\ active[polled] + Pending <= num[polled]

(* The inductive invariant.  Flight needs Shape; Counts and Budget need    *)
(* each other: a job is counted because its dispatcher is configured, and  *)
(* a room is free because the counts are right.                            *)
IInv == TypeOK /\ Shape /\ Flight /\ Counts /\ Budget
-----------------------------------------------------------------------------
(* Facts about cardinalities. *)

(* Any set of jobs is finite. *)
LEMMA JobsFinite ==
  ASSUME NEW S \in SUBSET Jobs
  PROVE  IsFiniteSet(S) /\ Cardinality(S) \in Nat
BY FiniteQueue, FS_Subset, FS_CardinalityType

(* The handlers of a dispatcher are finitely many. *)
LEMMA RunningFinite ==
  ASSUME NEW q
  PROVE  IsFiniteSet(Running(q)) /\ Cardinality(Running(q)) \in Nat
<1>1. Running(q) \in SUBSET Handlers
  BY DEF Running
<1> QED
  BY <1>1, FiniteQueue, FS_Subset, FS_CardinalityType

(* A dispatcher has no handlers exactly when their number is zero.         *)
LEMMA NoneRunning ==
  ASSUME NEW q
  PROVE  Running(q) = {} <=> Cardinality(Running(q)) = 0
BY RunningFinite, FS_EmptySet

-----------------------------------------------------------------------------
(* The initial states. *)

(* The service as New leaves it satisfies IInv. *)
LEMMA InitInv == Init => IInv
<1> SUFFICES ASSUME Init PROVE IInv
  OBVIOUS
<1> USE DEF Init
<1>1. TypeOK
  <2>1. 0 \in 0 .. MaxNum
    BY QueueSettings
  <2> QED
    BY <2>1 DEF TypeOK
<1>2. Shape
  BY DEF Shape
<1>3. Flight
  BY DEF Flight, SingleFlight, InflightExact, PickedFresh, Live
<1>4. \A q \in Queues : Running(q) = {} /\ Cardinality(Running(q)) = 0
  BY NoneRunning DEF Running
<1>5. Counts
  BY <1>4 DEF Counts, ActiveSound, Dropped
<1>6. Budget
  BY DEF Budget
<1> QED
  BY <1>1, <1>2, <1>3, <1>5, <1>6 DEF IInv

-----------------------------------------------------------------------------
(* Types. *)

(* A configuration the master or the fallback gives. *)
LEMMA TypeConfigure ==
  ASSUME TypeOK, NEW cfg \in [Queues -> 0 .. MaxNum], Configure(cfg)
  PROVE  TypeOK'
BY QueueSettings DEF TypeOK, Configure, KeptActive, tick, handlers

(* A snapshot's room fits the configuration. *)
LEMMA TypeSnapshot ==
  ASSUME TypeOK, Snapshot
  PROVE  TypeOK'
<1>1. room' \in [Queues -> 0 .. MaxNum]
  BY QueueSettings DEF TypeOK, Snapshot, FreeConcurrency, Lesser
<1>2. todo' \subseteq Queues
  BY DEF Snapshot
<1> QED
  BY <1>1, <1>2 DEF TypeOK, Snapshot, workers, handlers

(* Every step keeps the types. *)
LEMMA TypeStep ==
  ASSUME TypeOK, Shape, [Next]_vars
  PROVE  TypeOK'
<1> USE QueueSettings DEF tick, workers, handlers
<1>1. CASE RefreshNext
  <2>1. CASE ConfigReply
    BY <2>1, TypeConfigure DEF ConfigReply
  <2>2. CASE ConfigFallback
    <3>1. [q \in Queues |-> IF q \in Fallback THEN 1 ELSE 0]
            \in [Queues -> 0 .. MaxNum]
      OBVIOUS
    <3> QED
      BY <2>2, <3>1, TypeConfigure DEF ConfigFallback
  <2>3. CASE SkipRefresh \/ ConfigError
    BY <2>3 DEF TypeOK, SkipRefresh, ConfigError
  <2> QED
    BY <1>1, <2>1, <2>2, <2>3 DEF RefreshNext
<1>2. CASE PollNext
  <2>1. CASE Snapshot
    BY <2>1, TypeSnapshot
  <2>2. CASE PullReply
    BY <2>2 DEF TypeOK, PullReply, Deliver
  <2>3. CASE PullError
    BY <2>3 DEF TypeOK, PullError, Deliver
  <2>4. CASE PullUnavailable \/ PollDone \/ DispatchDone
    BY <2>4 DEF TypeOK, PullUnavailable, PollDone, DispatchDone
  <2>5. CASE ReserveJob
    BY <2>5 DEF TypeOK, ReserveJob, IsDuplicate
  <2>6. CASE StartHandler
    BY <2>6 DEF TypeOK, StartHandler, Shape
  <2> QED
    BY <1>2, <2>1, <2>2, <2>3, <2>4, <2>5, <2>6 DEF PollNext
<1>3. CASE NextTick \/ GrowStale \/ Cancel \/ SeeCancel \/ Drained
  BY <1>3 DEF TypeOK, NextTick, GrowStale, Cancel, SeeCancel, Drained
<1>4. ASSUME NEW h \in Handlers, HandlerNext(h)
      PROVE  TypeOK'
  <2>1. CASE TaskSucceeds(h) \/ TaskFails(h) \/ ReportLost(h) \/ ReleaseJob(h)
    BY <2>1 DEF TypeOK, TaskSucceeds, TaskFails, ReportLost, ReleaseJob
  <2>2. CASE Report(h)
    BY <2>2 DEF TypeOK, Report, Outcomes
  <2>3. CASE Unmark(h)
    <3>1. hqueue[h] \in Queues
      BY <2>3 DEF Unmark, Shape
    <3>2. active' \in [Queues -> Nat]
      BY <2>3, <3>1 DEF TypeOK, Unmark
    <3>3. forgotten' \subseteq Queues
      BY <2>3 DEF TypeOK, Unmark
    <3> QED
      BY <2>3, <3>2, <3>3 DEF TypeOK, Unmark
  <2> QED
    BY <1>4, <2>1, <2>2, <2>3 DEF HandlerNext
<1>5. ASSUME NEW job \in Jobs, Redeliver(job)
      PROVE  TypeOK'
  BY <1>5 DEF TypeOK, Redeliver
<1>6. CASE Returned \/ UNCHANGED vars
  BY <1>6 DEF TypeOK, Returned, vars
<1> QED
  BY <1>1, <1>2, <1>3, <1>4, <1>5, <1>6 DEF Next, TickNext

-----------------------------------------------------------------------------
(* What is at hand. *)

(* A handler has its job from its start until it is free; a tick has jobs  *)
(* at hand only while it polls and dispatches.                             *)
LEMMA ShapeStep ==
  ASSUME TypeOK, Shape, [Next]_vars
  PROVE  Shape'
<1> USE QueueSettings DEF tick, workers, handlers, Shape
<1>1. CASE RefreshNext
  BY <1>1 DEF RefreshNext, SkipRefresh, ConfigReply, ConfigFallback,
     ConfigError, Configure
<1>2. CASE PollNext
  <2>1. CASE Snapshot \/ PullReply \/ PullError
    BY <2>1 DEF Snapshot, PullReply, PullError, TypeOK
  <2>2. CASE PullUnavailable \/ PollDone \/ DispatchDone
    BY <2>2 DEF PullUnavailable, PollDone, DispatchDone
  <2>3. CASE ReserveJob
    BY <2>3 DEF ReserveJob
  <2>4. CASE StartHandler
    BY <2>4 DEF StartHandler, TypeOK
  <2> QED
    BY <1>2, <2>1, <2>2, <2>3, <2>4 DEF PollNext
<1>3. CASE NextTick \/ GrowStale \/ Cancel \/ SeeCancel \/ Drained
  BY <1>3 DEF NextTick, GrowStale, Cancel, SeeCancel, Drained
<1>4. ASSUME NEW h \in Handlers, HandlerNext(h)
      PROVE  Shape'
  BY <1>4 DEF HandlerNext, TaskSucceeds, TaskFails, Report, ReportLost,
     ReleaseJob, Unmark, TypeOK
<1>5. ASSUME NEW job \in Jobs, Redeliver(job)
      PROVE  Shape'
  BY <1>5 DEF Redeliver
<1>6. CASE Returned \/ UNCHANGED vars
  BY <1>6 DEF Returned, vars
<1> QED
  BY <1>1, <1>2, <1>3, <1>4, <1>5, <1>6 DEF Next, TickNext

-----------------------------------------------------------------------------
(* inflight. *)

(* A step that starts and ends no job leaves inflight exact.               *)
LEMMA FlightSame ==
  ASSUME Flight, UNCHANGED <<inflight, picked, hjob>>, Live' = Live
  PROVE  Flight'
BY DEF Flight, SingleFlight, InflightExact, PickedFresh, Live

(* reserveJob puts a job in inflight that no handler has.                  *)
LEMMA FlightReserve ==
  ASSUME TypeOK, Shape, Flight, ReserveJob
  PROVE  Flight'
<1>1. PICK job \in batch :
        IF IsDuplicate(job)
        THEN UNCHANGED <<inflight, picked>>
        ELSE inflight' = inflight \cup {job} /\ picked' = job
  BY DEF ReserveJob
<1>2. Live' = Live /\ hjob' = hjob /\ picked = NoJob
  BY DEF ReserveJob, Live, handlers
<1>3. CASE job \in inflight
  BY <1>1, <1>2, <1>3, FlightSame DEF IsDuplicate
<1>4. CASE job \notin inflight
  <2>1. inflight' = inflight \cup {job} /\ picked' = job
    BY <1>1, <1>4 DEF IsDuplicate
  <2>2. job \in Jobs /\ job # NoJob
    BY QueueSettings DEF TypeOK
  <2>3. inflight = {hjob[k] : k \in Live}
    BY <1>2 DEF Flight, InflightExact, Live
  <2>4. PickedFresh'
    BY <1>2, <1>4, <2>1, <2>3 DEF PickedFresh
  <2>5. inflight' = {hjob'[k] : k \in Live'} \cup ({picked'} \ {NoJob})
    BY <1>2, <2>1, <2>2, <2>3
  <2>6. SingleFlight' /\ InflightExact'
    BY <1>2, <2>5 DEF Flight, SingleFlight, InflightExact, Live
  <2> QED
    BY <2>4, <2>6 DEF Flight
<1> QED
  BY <1>3, <1>4

(* The go statement hands the reserved job over to a handler.              *)
LEMMA FlightStart ==
  ASSUME TypeOK, Shape, Flight, StartHandler
  PROVE  Flight'
<1>1. PICK h \in Handlers :
        /\ hpc[h] = "free"
        /\ hpc' = [hpc EXCEPT ![h] = "exec"]
        /\ hjob' = [hjob EXCEPT ![h] = picked]
  BY DEF StartHandler
<1>2. picked \in Jobs /\ picked # NoJob /\ picked' = NoJob
      /\ inflight' = inflight
  BY DEF StartHandler, TypeOK
<1>3. Live' = Live \cup {h} /\ h \notin Live
  BY <1>1 DEF Live, TypeOK
<1>4. hjob'[h] = picked /\ \A k \in Live : hjob'[k] = hjob[k]
  BY <1>1, <1>3 DEF TypeOK, Live
<1>5. \A k, l \in Live' : hjob'[k] = hjob'[l] => k = l
  BY <1>3, <1>4 DEF Flight, SingleFlight, PickedFresh, Live
<1>6. SingleFlight'
  BY <1>5 DEF SingleFlight, Live
<1>7. inflight = {hjob[k] : k \in Live} \cup {picked}
  BY <1>2 DEF Flight, InflightExact, Live
<1>8. inflight' = {hjob'[k] : k \in Live'} \cup ({picked'} \ {NoJob})
  BY <1>2, <1>3, <1>4, <1>7
<1>9. InflightExact'
  BY <1>8 DEF InflightExact, Live
<1>10. \A k \in Live : hjob[k] \in Jobs
  BY DEF Shape, Live
<1>11. \A k \in Live' : hjob'[k] # picked'
  BY <1>2, <1>3, <1>4, <1>10, QueueSettings
<1> QED
  BY <1>6, <1>9, <1>11 DEF Flight, PickedFresh

(* The deferred release takes out this handler's job and no other's.       *)
LEMMA FlightRelease ==
  ASSUME TypeOK, Shape, Flight, NEW h \in Handlers, ReleaseJob(h)
  PROVE  Flight'
<1>1. h \in Live /\ Live' = Live \ {h}
  BY DEF ReleaseJob, Live, TypeOK
<1>2. hjob' = hjob /\ picked' = picked /\ inflight' = inflight \ {hjob[h]}
  BY DEF ReleaseJob, tick
<1>3. \A k \in Live \ {h} : hjob[k] # hjob[h]
  BY <1>1 DEF Flight, SingleFlight, Live
<1>4. picked # hjob[h]
  BY <1>1 DEF Flight, PickedFresh
<1>5. inflight = {hjob[k] : k \in Live} \cup ({picked} \ {NoJob})
  BY DEF Flight, InflightExact, Live
<1>6. inflight' = {hjob'[k] : k \in Live'} \cup ({picked'} \ {NoJob})
  BY <1>1, <1>2, <1>3, <1>4, <1>5
<1>7. InflightExact'
  BY <1>6 DEF InflightExact, Live
<1>8. PickedFresh'
  BY <1>1, <1>2 DEF Flight, PickedFresh
<1>9. SingleFlight'
  <2>1. \A k, l \in Live' : hjob'[k] = hjob'[l] => k = l
    BY <1>1, <1>2 DEF Flight, SingleFlight, Live
  <2> QED
    BY <2>1 DEF SingleFlight, Live
<1> QED
  BY <1>7, <1>8, <1>9 DEF Flight

(* A handler that ends has released its job before.                        *)
LEMMA FlightUnmark ==
  ASSUME TypeOK, Shape, Flight, NEW h \in Handlers, Unmark(h)
  PROVE  Flight'
<1>1. Live' = Live /\ h \notin Live
  BY DEF Unmark, Live, TypeOK
<1>2. inflight' = inflight /\ picked' = picked
      /\ \A k \in Live : hjob'[k] = hjob[k]
  BY <1>1 DEF Unmark, TypeOK, Live, tick
<1>3. inflight = {hjob[k] : k \in Live} \cup ({picked} \ {NoJob})
  BY DEF Flight, InflightExact, Live
<1>4. inflight' = {hjob'[k] : k \in Live'} \cup ({picked'} \ {NoJob})
  BY <1>1, <1>2, <1>3
<1>5. InflightExact'
  BY <1>4 DEF InflightExact, Live
<1>6. PickedFresh'
  BY <1>1, <1>2 DEF Flight, PickedFresh
<1>7. SingleFlight'
  <2>1. \A k, l \in Live' : hjob'[k] = hjob'[l] => k = l
    BY <1>1, <1>2 DEF Flight, SingleFlight, Live
  <2> QED
    BY <2>1 DEF SingleFlight, Live
<1> QED
  BY <1>5, <1>6, <1>7 DEF Flight

(* From reserveJob to the deferred release a job is in inflight, and it is *)
(* there once.                                                             *)
LEMMA FlightStep ==
  ASSUME TypeOK, Shape, Flight, [Next]_vars
  PROVE  Flight'
<1> USE DEF tick, workers, handlers
<1>1. CASE RefreshNext
  BY <1>1, FlightSame DEF RefreshNext, SkipRefresh, ConfigReply,
     ConfigFallback, ConfigError, Configure, Live
<1>2. CASE PollNext
  <2>1. CASE Snapshot \/ PullReply \/ PullError
    BY <2>1, FlightSame DEF Snapshot, PullReply, PullError, Live
  <2>2. CASE PullUnavailable \/ PollDone \/ DispatchDone
    BY <2>2, FlightSame DEF PullUnavailable, PollDone, DispatchDone, Live
  <2> QED
    BY <1>2, <2>1, <2>2, FlightReserve, FlightStart DEF PollNext
<1>3. CASE NextTick \/ GrowStale \/ Cancel \/ SeeCancel \/ Drained
  BY <1>3, FlightSame
     DEF NextTick, GrowStale, Cancel, SeeCancel, Drained, Live
<1>4. ASSUME NEW h \in Handlers, HandlerNext(h)
      PROVE  Flight'
  <2>1. CASE TaskSucceeds(h) \/ TaskFails(h) \/ Report(h) \/ ReportLost(h)
    <3>1. Live' = Live
      BY <2>1 DEF TaskSucceeds, TaskFails, Report, ReportLost, Live, TypeOK
    <3> QED
      BY <2>1, <3>1, FlightSame DEF TaskSucceeds, TaskFails, Report, ReportLost
  <2> QED
    BY <1>4, <2>1, FlightRelease, FlightUnmark DEF HandlerNext
<1>5. ASSUME NEW job \in Jobs, Redeliver(job)
      PROVE  Flight'
  BY <1>5, FlightSame DEF Redeliver, Live
<1>6. CASE Returned \/ UNCHANGED vars
  BY <1>6, FlightSame DEF Returned, vars, Live
<1> QED
  BY <1>1, <1>2, <1>3, <1>4, <1>5, <1>6 DEF Next, TickNext

-----------------------------------------------------------------------------
(* Counts. *)

(* A step that starts and ends no handler and changes no configuration     *)
(* leaves the counts right.                                                *)
LEMMA CountsSame ==
  ASSUME Counts, UNCHANGED <<num, active, forgotten>>,
         \A q \in Queues : Running(q)' = Running(q)
  PROVE  Counts'
BY DEF Counts, ActiveSound, Dropped

(* A refresh keeps the count of a dispatcher that stays.  One that comes   *)
(* back while jobs of its last time run is forgotten, or runs none.        *)
LEMMA CountsConfigure ==
  ASSUME TypeOK, Counts, NEW cfg \in [Queues -> 0 .. MaxNum], Configure(cfg)
  PROVE  Counts'
<1> SUFFICES ASSUME NEW q \in Queues
             PROVE  /\ active'[q] <= Cardinality(Running(q)')
                    /\ num'[q] > 0 /\ q \notin forgotten'
                         => active'[q] = Cardinality(Running(q)')
                    /\ num'[q] = 0
                         => active'[q] = 0
                            /\ (Running(q)' # {} => q \in forgotten')
  BY DEF Counts, ActiveSound, Dropped
<1>1. Running(q)' = Running(q)
  BY DEF Configure, Running, handlers
<1>2. Cardinality(Running(q)) \in Nat /\ active[q] \in Nat
      /\ num[q] \in 0 .. MaxNum /\ cfg[q] \in 0 .. MaxNum
  BY RunningFinite DEF TypeOK
<1>3. num'[q] = cfg[q] /\ active'[q] = IF cfg[q] > 0 THEN active[q] ELSE 0
  BY DEF Configure, KeptActive
<1>4. forgotten \subseteq forgotten'
      /\ (cfg[q] = 0 /\ Running(q) # {} => q \in forgotten')
  BY DEF Configure
<1>5. active[q] <= Cardinality(Running(q))
      /\ (num[q] > 0 /\ q \notin forgotten
            => active[q] = Cardinality(Running(q)))
      /\ (num[q] = 0 => active[q] = 0 /\ (Running(q) # {} => q \in forgotten))
  BY DEF Counts, ActiveSound, Dropped
<1> QED
  BY <1>1, <1>2, <1>3, <1>4, <1>5, NoneRunning, QueueSettings

(* A job that is started is counted, since Budget says its dispatcher is   *)
(* configured.                                                             *)
LEMMA CountsStart ==
  ASSUME TypeOK, Shape, Counts, Budget, StartHandler
  PROVE  Counts'
<1> SUFFICES ASSUME NEW q \in Queues
             PROVE  /\ active'[q] <= Cardinality(Running(q)')
                    /\ num'[q] > 0 /\ q \notin forgotten'
                         => active'[q] = Cardinality(Running(q)')
                    /\ num'[q] = 0
                         => active'[q] = 0
                            /\ (Running(q)' # {} => q \in forgotten')
  BY DEF Counts, ActiveSound, Dropped
<1>1. PICK h \in Handlers :
        /\ hpc[h] = "free"
        /\ hpc' = [hpc EXCEPT ![h] = "exec"]
        /\ hqueue' = [hqueue EXCEPT ![h] = polled]
  BY DEF StartHandler
<1>2. polled \in Queues /\ num[polled] > 0
  BY DEF StartHandler, Shape, Budget
<1>3. active' = [active EXCEPT ![polled] = @ + 1]
      /\ num' = num /\ forgotten' = forgotten
  BY <1>2 DEF StartHandler
<1>4. Cardinality(Running(q)) \in Nat /\ active[q] \in Nat
      /\ num[q] \in Nat
  BY RunningFinite, QueueSettings DEF TypeOK
<1>5. active[q] <= Cardinality(Running(q))
      /\ (num[q] > 0 /\ q \notin forgotten
            => active[q] = Cardinality(Running(q)))
      /\ (num[q] = 0 => active[q] = 0 /\ (Running(q) # {} => q \in forgotten))
  BY DEF Counts, ActiveSound, Dropped
<1>6. CASE q = polled
  <2>1. Running(q)' = Running(q) \cup {h} /\ h \notin Running(q)
    BY <1>1, <1>6 DEF Running, TypeOK
  <2>2. Cardinality(Running(q)') = Cardinality(Running(q)) + 1
    BY <2>1, RunningFinite, FS_AddElement
  <2>3. active'[q] = active[q] + 1
    BY <1>3, <1>6 DEF TypeOK
  <2> QED
    BY <1>2, <1>3, <1>4, <1>5, <1>6, <2>2, <2>3
<1>7. CASE q # polled
  <2>1. Running(q)' = Running(q)
    BY <1>1, <1>7 DEF Running, TypeOK
  <2>2. active'[q] = active[q]
    BY <1>3, <1>7 DEF TypeOK
  <2> QED
    BY <1>3, <1>5, <2>1, <2>2
<1> QED
  BY <1>6, <1>7

(* A handler that ends takes itself off its dispatcher's count, or, if it  *)
(* was never on it, off nothing: the count stops at zero.                  *)
LEMMA CountsUnmark ==
  ASSUME TypeOK, Shape, Counts, NEW h \in Handlers, Unmark(h)
  PROVE  Counts'
<1> SUFFICES ASSUME NEW q \in Queues
             PROVE  /\ active'[q] <= Cardinality(Running(q)')
                    /\ num'[q] > 0 /\ q \notin forgotten'
                         => active'[q] = Cardinality(Running(q)')
                    /\ num'[q] = 0
                         => active'[q] = 0
                            /\ (Running(q)' # {} => q \in forgotten')
  BY DEF Counts, ActiveSound, Dropped
<1>1. hqueue[h] \in Queues /\ hpc[h] # "free" /\ num' = num
  BY DEF Unmark, Shape
<1>2. Cardinality(Running(q)) \in Nat /\ active[q] \in Nat
      /\ num[q] \in Nat
  BY RunningFinite, QueueSettings DEF TypeOK
<1>3. active[q] <= Cardinality(Running(q))
      /\ (num[q] > 0 /\ q \notin forgotten
            => active[q] = Cardinality(Running(q)))
      /\ (num[q] = 0 => active[q] = 0 /\ (Running(q) # {} => q \in forgotten))
  BY DEF Counts, ActiveSound, Dropped
<1>4. CASE q = hqueue[h]
  <2>1. h \in Running(q) /\ Running(q)' = Running(q) \ {h}
    BY <1>1, <1>4 DEF Unmark, Running, TypeOK
  <2>2. Cardinality(Running(q)') = Cardinality(Running(q)) - 1
    BY <2>1, RunningFinite, FS_RemoveElement
  <2>3. Cardinality(Running(q)) # 0
    BY <2>1, NoneRunning
  <2>4. CASE Running(q) = {h}
    <3>1. Cardinality(Running(q)) = 1 /\ Running(q)' = {}
      BY <2>1, <2>4, FS_Singleton
    <3>2. active'[q] = 0
      <4>1. active[q] = 0 \/ active[q] = 1
        BY <1>2, <1>3, <3>1
      <4>2. num[q] = 0 => active[q] = 0
        BY <1>3
      <4> QED
        BY <1>1, <1>2, <1>4, <4>1, <4>2 DEF Unmark, TypeOK
    <3> QED
      BY <1>2, <2>2, <3>1, <3>2
  <2>5. CASE Running(q) # {h}
    <3>1. forgotten' = forgotten
      BY <1>4, <2>5 DEF Unmark
    <3>2. Running(q) # {}
      BY <2>1
    <3>3. CASE num[q] > 0 /\ active[q] > 0
      <4>1. active'[q] = active[q] - 1
        BY <1>1, <1>4, <3>3 DEF Unmark, TypeOK
      <4> QED
        BY <1>1, <1>2, <1>3, <2>2, <3>1, <3>3, <4>1
    <3>4. CASE ~(num[q] > 0 /\ active[q] > 0)
      <4>1. active'[q] = active[q] /\ active[q] = 0
        BY <1>2, <1>3, <1>4, <3>4 DEF Unmark
      <4>2. q \in forgotten
        BY <1>2, <1>3, <2>3, <3>2, <4>1
      <4> QED
        BY <1>2, <2>2, <2>3, <3>1, <4>1, <4>2
    <3> QED
      BY <3>3, <3>4
  <2> QED
    BY <2>4, <2>5
<1>5. CASE q # hqueue[h]
  <2>1. Running(q)' = Running(q)
    BY <1>1, <1>5 DEF Unmark, Running, TypeOK
  <2>2. active'[q] = active[q]
    BY <1>1, <1>5 DEF Unmark, TypeOK
  <2>3. q \in forgotten' <=> q \in forgotten
    BY <1>5 DEF Unmark
  <2> QED
    BY <1>1, <1>3, <2>1, <2>2, <2>3
<1> QED
  BY <1>4, <1>5

(* Every step keeps the counts right. *)
LEMMA CountsStep ==
  ASSUME TypeOK, Shape, Counts, Budget, [Next]_vars
  PROVE  Counts'
<1> USE DEF tick, workers, handlers
<1>1. CASE RefreshNext
  <2>1. CASE ConfigReply
    BY <2>1, CountsConfigure DEF ConfigReply
  <2>2. CASE ConfigFallback
    <3>1. [q \in Queues |-> IF q \in Fallback THEN 1 ELSE 0]
            \in [Queues -> 0 .. MaxNum]
      BY QueueSettings
    <3> QED
      BY <2>2, <3>1, CountsConfigure DEF ConfigFallback
  <2>3. CASE SkipRefresh \/ ConfigError
    BY <2>3, CountsSame DEF SkipRefresh, ConfigError, Running
  <2> QED
    BY <1>1, <2>1, <2>2, <2>3 DEF RefreshNext
<1>2. CASE PollNext
  <2>1. CASE Snapshot \/ PullReply \/ PullError
    BY <2>1, CountsSame DEF Snapshot, PullReply, PullError, Running
  <2>2. CASE PullUnavailable \/ PollDone \/ DispatchDone \/ ReserveJob
    BY <2>2, CountsSame
       DEF PullUnavailable, PollDone, DispatchDone, ReserveJob, Running
  <2> QED
    BY <1>2, <2>1, <2>2, CountsStart DEF PollNext
<1>3. CASE NextTick \/ GrowStale \/ Cancel \/ SeeCancel \/ Drained
  BY <1>3, CountsSame
     DEF NextTick, GrowStale, Cancel, SeeCancel, Drained, Running
<1>4. ASSUME NEW h \in Handlers, HandlerNext(h)
      PROVE  Counts'
  <2>1. CASE TaskSucceeds(h) \/ TaskFails(h) \/ Report(h) \/ ReportLost(h)
             \/ ReleaseJob(h)
    <3>1. \A q \in Queues : Running(q)' = Running(q)
      BY <2>1 DEF TaskSucceeds, TaskFails, Report, ReportLost, ReleaseJob,
         Running, TypeOK
    <3> QED
      BY <2>1, <3>1, CountsSame
         DEF TaskSucceeds, TaskFails, Report, ReportLost, ReleaseJob
  <2> QED
    BY <1>4, <2>1, CountsUnmark DEF HandlerNext
<1>5. ASSUME NEW job \in Jobs, Redeliver(job)
      PROVE  Counts'
  BY <1>5, CountsSame DEF Redeliver, Running
<1>6. CASE Returned \/ UNCHANGED vars
  BY <1>6, CountsSame DEF Returned, vars, Running
<1> QED
  BY <1>1, <1>2, <1>3, <1>4, <1>5, <1>6 DEF Next, TickNext

-----------------------------------------------------------------------------
(* The concurrency a tick has left. *)

(* A step that neither counts up nor polls leaves the budget.              *)
LEMMA BudgetSame ==
  ASSUME Budget, UNCHANGED <<run, num, active, todo, room, polled, batch,
                             picked>>
  PROVE  Budget'
BY DEF Budget, Pending

(* The snapshot takes the dispatchers with free concurrency, and that much *)
(* room at the most.                                                       *)
LEMMA BudgetSnapshot ==
  ASSUME TypeOK, Shape, Snapshot
  PROVE  Budget'
<1>1. ASSUME NEW q \in todo'
      PROVE  num'[q] > 0 /\ active'[q] + room'[q] <= num'[q]
  <2>1. q \in Queues /\ room'[q] > 0
    BY <1>1 DEF Snapshot
  <2>2. num'[q] = num[q] /\ active'[q] = active[q] /\ num[q] \in Nat
        /\ active[q] \in Nat
    BY <2>1, QueueSettings DEF Snapshot, TypeOK, workers
  <2>3. room'[q] = IF num[q] > 0 /\ FreeConcurrency(q) > 0
                   THEN Lesser(FreeConcurrency(q), PullLimit) ELSE 0
    BY <2>1 DEF Snapshot
  <2> QED
    BY <2>1, <2>2, <2>3, QueueSettings DEF FreeConcurrency, Lesser
<1>2. run' # "dispatch"
  BY DEF Snapshot
<1> QED
  BY <1>1, <1>2 DEF Budget

(* The answer to a poll holds no more jobs than there was room for.        *)
LEMMA BudgetPull ==
  ASSUME TypeOK, Shape, Budget, PullReply
  PROVE  Budget'
<1>1. PICK q \in todo, S \in SUBSET Jobs :
        /\ Cardinality(S) <= room[q]
        /\ todo' = todo \ {q}
        /\ polled' = q
        /\ batch' = S
  BY DEF PullReply, Deliver
<1>2. UNCHANGED <<num, active, room, picked>> /\ picked = NoJob
  BY DEF PullReply, Shape, workers
<1>3. num[q] > 0 /\ active[q] + room[q] <= num[q] /\ q \in Queues
  BY DEF Budget, TypeOK
<1>4. Cardinality(S) \in Nat /\ active[q] \in Nat /\ room[q] \in Nat
      /\ num[q] \in Nat
  BY <1>3, JobsFinite, QueueSettings DEF TypeOK
<1>5. Pending' = Cardinality(S)
  BY <1>1, <1>2, <1>4 DEF Pending
<1> QED
  BY <1>1, <1>2, <1>3, <1>4, <1>5 DEF Budget

(* A job looked at leaves the batch, and is picked at the most.            *)
LEMMA BudgetReserve ==
  ASSUME TypeOK, Shape, Budget, ReserveJob
  PROVE  Budget'
<1>1. PICK job \in batch : batch' = batch \ {job}
  BY DEF ReserveJob
<1>2. UNCHANGED <<run, num, active, todo, room, polled>> /\ picked = NoJob
      /\ run = "dispatch"
  BY DEF ReserveJob, workers
<1>3. IsFiniteSet(batch) /\ Cardinality(batch) \in Nat
  BY JobsFinite DEF TypeOK
<1>4. Cardinality(batch') = Cardinality(batch) - 1
  BY <1>1, <1>3, FS_RemoveElement
<1>5. Pending' <= Pending /\ Pending' \in Int /\ Pending \in Int
  BY <1>2, <1>3, <1>4 DEF Pending
<1>6. active[polled] \in Nat /\ num[polled] \in Nat
  BY <1>2, QueueSettings DEF Shape, TypeOK
<1> QED
  BY <1>2, <1>5, <1>6 DEF Budget

(* A started handler is counted where it was pending; the dispatchers      *)
(* still to be polled are others.                                          *)
LEMMA BudgetStart ==
  ASSUME TypeOK, Shape, Budget, StartHandler
  PROVE  Budget'
<1>1. UNCHANGED <<run, num, todo, room, polled, batch>> /\ picked # NoJob
      /\ picked' = NoJob /\ run = "dispatch"
  BY DEF StartHandler
<1>2. polled \in Queues /\ polled \notin todo /\ num[polled] > 0
  BY <1>1 DEF Shape, Budget
<1>3. active' = [active EXCEPT ![polled] = @ + 1]
  BY <1>2 DEF StartHandler
<1>4. Cardinality(batch) \in Nat
  BY JobsFinite DEF TypeOK
<1>5. Pending' = Pending - 1 /\ Pending \in Int
  BY <1>1, <1>4 DEF Pending
<1>6. active[polled] \in Nat /\ num[polled] \in Nat
      /\ active'[polled] = active[polled] + 1
  BY <1>2, <1>3, QueueSettings DEF TypeOK
<1>7. \A q \in todo : active'[q] = active[q]
  BY <1>2, <1>3 DEF TypeOK
<1> QED
  BY <1>1, <1>5, <1>6, <1>7 DEF Budget

(* A handler that ends only makes room. *)
LEMMA BudgetUnmark ==
  ASSUME TypeOK, Shape, Budget, NEW h \in Handlers, Unmark(h)
  PROVE  Budget'
<1>1. UNCHANGED <<run, num, todo, room, polled, batch, picked>>
  BY DEF Unmark, tick
<1>2. \A q \in Queues : /\ active[q] \in Nat /\ active'[q] \in Nat
                        /\ active'[q] <= active[q]
                        /\ num[q] \in Nat /\ room[q] \in Nat
  BY QueueSettings DEF Unmark, TypeOK, Shape
<1>3. ASSUME NEW q \in todo
      PROVE  num[q] > 0 /\ active'[q] + room[q] <= num[q]
  BY <1>2 DEF Budget, TypeOK
<1>4. Pending' = Pending /\ Pending \in Int
  BY <1>1, JobsFinite DEF Pending, TypeOK
<1>5. run = "dispatch" =>
        num[polled] > 0 /\ active'[polled] + Pending <= num[polled]
  BY <1>2, <1>4 DEF Budget, Shape
<1> QED
  BY <1>1, <1>3, <1>4, <1>5 DEF Budget

(* No step lets a tick start more than is free. *)
LEMMA BudgetStep ==
  ASSUME TypeOK, Shape, Budget, [Next]_vars
  PROVE  Budget'
<1> USE DEF tick, workers, handlers
<1>1. CASE RefreshNext
  <2>1. todo' = {} /\ run' # "dispatch"
    BY <1>1 DEF RefreshNext, SkipRefresh, ConfigReply, ConfigFallback,
       ConfigError, Configure, Shape
  <2> QED
    BY <2>1 DEF Budget
<1>2. CASE PollNext
  <2>1. CASE PullUnavailable \/ PullError \/ PollDone
    <3>1. todo' = {} /\ run' # "dispatch"
      BY <2>1 DEF PullUnavailable, PullError, PollDone
    <3> QED
      BY <3>1 DEF Budget
  <2>2. CASE DispatchDone
    BY <2>2 DEF DispatchDone, Budget
  <2> QED
    BY <1>2, <2>1, <2>2, BudgetSnapshot, BudgetPull, BudgetReserve,
       BudgetStart DEF PollNext
<1>3. CASE NextTick \/ SeeCancel \/ Drained
  <2>1. todo' = {} /\ run' # "dispatch"
    BY <1>3 DEF NextTick, SeeCancel, Drained, Shape
  <2> QED
    BY <2>1 DEF Budget
<1>4. CASE GrowStale \/ Cancel
  BY <1>4, BudgetSame DEF GrowStale, Cancel
<1>5. ASSUME NEW h \in Handlers, HandlerNext(h)
      PROVE  Budget'
  <2>1. CASE TaskSucceeds(h) \/ TaskFails(h) \/ Report(h) \/ ReportLost(h)
             \/ ReleaseJob(h)
    BY <2>1, BudgetSame
       DEF TaskSucceeds, TaskFails, Report, ReportLost, ReleaseJob
  <2> QED
    BY <1>5, <2>1, BudgetUnmark DEF HandlerNext
<1>6. ASSUME NEW job \in Jobs, Redeliver(job)
      PROVE  Budget'
  BY <1>6, BudgetSame DEF Redeliver
<1>7. CASE Returned \/ UNCHANGED vars
  BY <1>7, BudgetSame DEF Returned, vars
<1> QED
  BY <1>1, <1>2, <1>3, <1>4, <1>5, <1>6, <1>7 DEF Next, TickNext

-----------------------------------------------------------------------------
(* The theorems. *)

(* IInv is inductive. *)
LEMMA InvStep == IInv /\ [Next]_vars => IInv'
BY TypeStep, ShapeStep, FlightStep, CountsStep, BudgetStep DEF IInv

(* IInv holds in every reachable state. *)
LEMMA Invariance == Spec => []IInv
BY InitInv, InvStep, PTL DEF Spec

(* Every variable stays in its type; counts never go below zero.           *)
THEOREM TypeCorrect == Spec => []TypeOK
<1>1. IInv => TypeOK
  BY DEF IInv
<1> QED
  BY <1>1, Invariance, PTL

(* A job handed out again while it runs or is reported is not run twice.   *)
THEOREM RunsOnce == Spec => []SingleFlight
<1>1. IInv => SingleFlight
  BY DEF IInv, Flight
<1> QED
  BY <1>1, Invariance, PTL

(* inflight holds the jobs between reservation and release, and no other.  *)
THEOREM InflightIsExact == Spec => []InflightExact
<1>1. IInv => InflightExact
  BY DEF IInv, Flight
<1> QED
  BY <1>1, Invariance, PTL

(* A dispatcher's count never exceeds its handlers, and equals them unless *)
(* it was dropped meanwhile.                                               *)
THEOREM CountIsSound == Spec => []ActiveSound
<1>1. IInv => ActiveSound
  BY DEF IInv, Counts
<1> QED
  BY <1>1, Invariance, PTL

(* A step that starts a job of a dispatcher that was not dropped stays     *)
(* within its concurrency.                                                 *)
LEMMA StartsWithinNum ==
  ASSUME IInv, [Next]_vars, NEW q \in Queues \ forgotten,
         Cardinality(Running(q)') > Cardinality(Running(q))
  PROVE  Cardinality(Running(q)') <= num[q]
<1> USE DEF tick, workers, handlers, IInv
<1>1. TypeOK /\ Cardinality(Running(q)) \in Nat
  BY RunningFinite
<1>2. Running(q)' # Running(q)
  BY <1>1
<1>3. CASE StartHandler
  <2>1. PICK h \in Handlers :
          /\ hpc[h] = "free"
          /\ hpc' = [hpc EXCEPT ![h] = "exec"]
          /\ hqueue' = [hqueue EXCEPT ![h] = polled]
    BY <1>3 DEF StartHandler
  <2>2. q = polled
    BY <1>1, <1>2, <2>1 DEF Running, TypeOK
  <2>3. Running(q)' = Running(q) \cup {h} /\ h \notin Running(q)
    BY <1>1, <2>1, <2>2 DEF Running, TypeOK
  <2>4. Cardinality(Running(q)') = Cardinality(Running(q)) + 1
    BY <2>3, RunningFinite, FS_AddElement
  <2>5. num[q] > 0 /\ active[q] + Pending <= num[q]
    BY <1>3, <2>2 DEF StartHandler, Budget
  <2>6. active[q] = Cardinality(Running(q))
    BY <2>5 DEF Counts, ActiveSound
  <2>7. Cardinality(batch) \in Nat /\ num[q] \in Nat
    BY <1>1, JobsFinite, QueueSettings DEF TypeOK
  <2>8. Pending >= 1 /\ Pending \in Int
    BY <1>3, <2>7 DEF Pending, StartHandler
  <2> QED
    BY <1>1, <2>4, <2>5, <2>6, <2>7, <2>8
<1>4. CASE RefreshNext
  BY <1>2, <1>4 DEF RefreshNext, SkipRefresh, ConfigReply, ConfigFallback,
     ConfigError, Configure, Running
<1>5. CASE Snapshot \/ PullReply \/ PullError \/ PullUnavailable \/ PollDone
           \/ DispatchDone \/ ReserveJob
  BY <1>2, <1>5 DEF Snapshot, PullReply, PullError, PullUnavailable, PollDone,
     DispatchDone, ReserveJob, Running
<1>6. CASE NextTick \/ GrowStale \/ Cancel \/ SeeCancel \/ Drained
  BY <1>2, <1>6 DEF NextTick, GrowStale, Cancel, SeeCancel, Drained, Running
<1>7. ASSUME NEW h \in Handlers, HandlerNext(h)
      PROVE  FALSE
  <2>1. Running(q)' \in SUBSET Running(q)
    BY <1>1, <1>7 DEF HandlerNext, TaskSucceeds, TaskFails, Report, ReportLost,
       ReleaseJob, Unmark, Running, TypeOK
  <2>2. Cardinality(Running(q)') <= Cardinality(Running(q))
        /\ Cardinality(Running(q)') \in Nat
    BY <2>1, RunningFinite, FS_Subset, FS_CardinalityType
  <2> QED
    BY <1>1, <2>2
<1>8. ASSUME NEW job \in Jobs, Redeliver(job)
      PROVE  FALSE
  BY <1>2, <1>8 DEF Redeliver, Running
<1>9. CASE Returned \/ UNCHANGED vars
  BY <1>2, <1>9 DEF Returned, vars, Running
<1> QED
  BY <1>3, <1>4, <1>5, <1>6, <1>7, <1>8, <1>9 DEF Next, TickNext, PollNext

(* No job is started beyond the configured concurrency of a dispatcher     *)
(* that was not dropped while its jobs ran.                                *)
THEOREM DispatchStaysWithinNum == Spec => DispatchWithinNum
<1>1. IInv /\ [Next]_vars =>
        [\A q \in Queues \ forgotten :
           Cardinality(Running(q)') > Cardinality(Running(q)) =>
             Cardinality(Running(q)') <= num[q]]_vars
  BY StartsWithinNum
<1> QED
  BY <1>1, Invariance, PTL DEF Spec, DispatchWithinNum

(* WithinConfigured fails for dispatchers that are dropped and come back   *)
(* while jobs of theirs run.  For the others it holds, of all their        *)
(* handlers.                                                               *)
KeptWithin == \A q \in Queues \ forgotten : Cardinality(Running(q)) <= MaxNum

(* A dispatcher stops being forgotten when its last handler ends.          *)
LEMMA RememberedIdle ==
  ASSUME IInv, [Next]_vars, NEW q \in forgotten, q \notin forgotten'
  PROVE  Running(q)' = {}
<1> USE DEF tick, workers, handlers
<1>1. TypeOK
  BY DEF IInv
<1>2. ASSUME NEW h \in Handlers, Unmark(h)
      PROVE  Running(q)' = {}
  <2>1. hqueue[h] = q /\ Running(q) = {h}
    BY <1>2 DEF Unmark
  <2>2. hpc' = [hpc EXCEPT ![h] = "free"] /\ hqueue' = [hqueue EXCEPT ![h] = NoJob]
    BY <1>2 DEF Unmark
  <2> QED
    BY <1>1, <2>1, <2>2 DEF Running, TypeOK
<1>3. CASE RefreshNext \/ PollNext
  BY <1>3 DEF RefreshNext, PollNext, SkipRefresh, ConfigReply, ConfigFallback,
     ConfigError, Configure, Snapshot, PullReply, PullError, PullUnavailable,
     PollDone, ReserveJob, StartHandler, DispatchDone
<1>4. CASE NextTick \/ GrowStale \/ Cancel \/ SeeCancel \/ Drained
  BY <1>4 DEF NextTick, GrowStale, Cancel, SeeCancel, Drained
<1>5. ASSUME NEW h \in Handlers, HandlerNext(h)
      PROVE  Running(q)' = {}
  BY <1>2, <1>5 DEF HandlerNext, TaskSucceeds, TaskFails, Report, ReportLost, ReleaseJob
<1>6. ASSUME NEW job \in Jobs, Redeliver(job)
      PROVE  FALSE
  BY <1>6 DEF Redeliver
<1>7. CASE Returned \/ UNCHANGED vars
  BY <1>7 DEF Returned, vars
<1> QED
  BY <1>3, <1>4, <1>5, <1>6, <1>7 DEF Next, TickNext

(* No step takes a dispatcher over the largest concurrency but one that    *)
(* was dropped while its jobs ran.                                         *)
LEMMA KeptStep ==
  ASSUME IInv, KeptWithin, [Next]_vars
  PROVE  KeptWithin'
<1> SUFFICES ASSUME NEW q \in Queues \ forgotten'
             PROVE  Cardinality(Running(q)') <= MaxNum
  BY DEF KeptWithin
<1>1. Cardinality(Running(q)) \in Nat /\ Cardinality(Running(q)') \in Nat
  <2>1. Running(q)' \in SUBSET Handlers
    BY DEF Running
  <2> QED
    BY <2>1, RunningFinite, FiniteQueue, FS_Subset, FS_CardinalityType
<1>2. MaxNum \in Nat /\ num[q] \in 0 .. MaxNum
  BY QueueSettings DEF IInv, TypeOK
<1>3. CASE q \notin forgotten
  BY <1>1, <1>2, <1>3, StartsWithinNum DEF KeptWithin
<1>4. CASE q \in forgotten
  <2>1. Cardinality(Running(q)') = 0
    BY <1>4, RememberedIdle, FS_EmptySet
  <2> QED
    BY <1>2, <2>1
<1> QED
  BY <1>3, <1>4

(* No more handlers of a dispatcher are under way than the largest         *)
(* concurrency it is ever configured with, unless it was dropped while     *)
(* jobs of it ran: the forgotten count is the only way past the limit.     *)
THEOREM OnlyForgottenExceed == Spec => []KeptWithin
<1>1. Init => KeptWithin
  <2> SUFFICES ASSUME Init, NEW q \in Queues PROVE Cardinality(Running(q)) <= MaxNum
    BY DEF KeptWithin
  <2>1. Running(q) = {}
    BY DEF Init, Running
  <2> QED
    BY <2>1, FS_EmptySet, QueueSettings
<1>2. IInv /\ KeptWithin /\ [Next]_vars => KeptWithin'
  BY KeptStep
<1> QED
  BY <1>1, <1>2, Invariance, PTL DEF Spec

-----------------------------------------------------------------------------
(* Jobs in hand. *)

(* Initially no job is in hand. *)
LEMMA FlightInit == Init => Flights!Init
<1> SUFFICES ASSUME Init PROVE Flights!Init
  OBVIOUS
<1>1. \A job \in Jobs : InHand(job) = {}
  BY QueueSettings DEF Init, InHand
<1>2. run \notin {"done", "failed"} /\ store = [job \in Jobs |-> "ready"]
  BY DEF Init
<1> QED
  BY <1>1, <1>2 DEF Flights!Init

(* A live handler has its job in hand, and nobody else has it.             *)
LEMMA OneHand ==
  ASSUME IInv, NEW h \in Live
  PROVE  hjob[h] \in Jobs /\ InHand(hjob[h]) = {hpc[h]}
BY DEF IInv, Shape, Flight, SingleFlight, PickedFresh, Live, InHand

(* A step of a live handler moves its job and no other. *)
LEMMA HandlerMoves ==
  ASSUME IInv, NEW h \in Live, NEW to \in {"ack", "fail", "release", "unmark"},
         hpc' = [hpc EXCEPT ![h] = to], UNCHANGED <<hjob, picked>>
  PROVE  Flights!Moves(hjob[h], {hpc[h]}, IF to = "unmark" THEN {} ELSE {to})
<1> DEFINE hand == [job \in Jobs |-> InHand(job)]
           next == IF to = "unmark" THEN {} ELSE {to}
<1>1. hpc \in [Handlers -> {"free", "exec", "ack", "fail", "release", "unmark"}]
  BY DEF IInv, TypeOK
<1>2. hjob[h] \in Jobs /\ InHand(hjob[h]) = {hpc[h]}
  BY OneHand
<1>3. InHand(hjob[h])' = next
  BY <1>1 DEF IInv, Flight, SingleFlight, PickedFresh, Live, InHand
<1>4. ASSUME NEW job \in Jobs, job # hjob[h]
      PROVE  InHand(job)' = InHand(job)
  BY <1>1, <1>4 DEF InHand, Live
<1>5. hand' = [hand EXCEPT ![hjob[h]] = next]
  BY <1>2, <1>3, <1>4
<1> QED
  BY <1>2, <1>5 DEF Flights!Moves

(* What leaves handlers and the picked job alone leaves all hands alone.   *)
LEMMA HandsStay ==
  ASSUME UNCHANGED <<hpc, hjob, picked>>
  PROVE  [job \in Jobs |-> InHand(job)]' = [job \in Jobs |-> InHand(job)]
BY DEF InHand

(* A tick that reserves a job that nobody has takes it. *)
LEMMA Takes ==
  ASSUME IInv, ReserveJob
  PROVE  [Flights!Next]_(Flights!vars)
<1> USE DEF IInv, handlers, workers
<1>1. PICK job \in batch :
        IF IsDuplicate(job)
        THEN UNCHANGED <<inflight, picked>>
        ELSE inflight' = inflight \cup {job} /\ picked' = job
  BY DEF ReserveJob
<1>2. CASE IsDuplicate(job)
  BY <1>1, <1>2, HandsStay DEF ReserveJob, Flights!vars
<1>3. CASE ~IsDuplicate(job)
  <2>1. job \in Jobs /\ picked = NoJob /\ picked' = job
    BY <1>1, <1>3 DEF ReserveJob, TypeOK
  <2>2. job \notin inflight /\ job # NoJob
    BY <1>3, <2>1, QueueSettings DEF IsDuplicate
  <2>3. UNCHANGED <<hpc, hjob, store, run>> /\ run = "dispatch"
    BY DEF ReserveJob
  <2>4. InHand(job) = {} /\ InHand(job)' = {"picked"}
    BY <2>1, <2>2, <2>3 DEF InHand, Flight, InflightExact
  <2>5. ASSUME NEW k \in Jobs, k # job PROVE InHand(k)' = InHand(k)
    BY <2>1, <2>3, <2>5, QueueSettings DEF InHand
  <2>6. Flights!Take(job)
    BY <2>1, <2>3, <2>4, <2>5 DEF Flights!Take, Flights!Moves
  <2> QED
    BY <2>1, <2>6 DEF Flights!Next, Flights!JobNext
<1> QED
  BY <1>2, <1>3

(* The go statement hands the job over to its handler. *)
LEMMA Begins ==
  ASSUME IInv, StartHandler
  PROVE  [Flights!Next]_(Flights!vars)
<1> USE DEF IInv
<1>1. PICK h \in Handlers :
        /\ hpc[h] = "free"
        /\ hpc' = [hpc EXCEPT ![h] = "exec"]
        /\ hjob' = [hjob EXCEPT ![h] = picked]
  BY DEF StartHandler
<1>2. picked \in Jobs /\ picked' = NoJob /\ UNCHANGED <<run, store>>
  BY DEF StartHandler, TypeOK
<1>3. hpc \in [Handlers -> {"free", "exec", "ack", "fail", "release", "unmark"}]
      /\ hjob \in [Handlers -> Jobs \cup {NoJob}]
  BY DEF TypeOK
<1>4. InHand(picked) = {"picked"}
  BY DEF InHand, Flight, PickedFresh, Live
<1>5. \A k \in Handlers \ {h} : hpc'[k] = hpc[k] /\ hjob'[k] = hjob[k]
  BY <1>1, <1>3
<1>6. hpc'[h] = "exec" /\ hjob'[h] = picked
  BY <1>1, <1>3
<1>7. \A k \in Handlers : hpc[k] \in {"exec", "ack", "fail", "release"} => hjob[k] # picked
  BY DEF Flight, PickedFresh, Live
<1>8. ASSUME NEW job \in Jobs
      PROVE  InHand(job)' = IF job = picked THEN {"exec"} ELSE InHand(job)
  BY <1>1, <1>2, <1>5, <1>6, <1>7, QueueSettings DEF InHand
<1>9. Flights!Begin(picked)
  BY <1>2, <1>4, <1>8 DEF Flights!Begin, Flights!Moves
<1> QED
  BY <1>2, <1>9 DEF Flights!Next, Flights!JobNext

(* Steps of a handler. *)
LEMMA Handles ==
  ASSUME IInv, NEW h \in Handlers, HandlerNext(h)
  PROVE  [Flights!Next]_(Flights!vars)
<1> USE DEF tick, workers, handlers, Live, Flights!Next, Flights!JobNext
<1>1. CASE TaskSucceeds(h)
  <2>1. Flights!Succeed(hjob[h])
    BY <1>1, HandlerMoves DEF TaskSucceeds, Flights!Succeed
  <2> QED
    BY <1>1, <2>1, OneHand DEF TaskSucceeds
<1>2. CASE TaskFails(h)
  <2>1. Flights!Fail(hjob[h])
    BY <1>2, HandlerMoves DEF TaskFails, Flights!Fail
  <2> QED
    BY <1>2, <2>1, OneHand DEF TaskFails
<1>3. CASE Report(h)
  <2>1. Flights!Acked(hjob[h]) \/ Flights!Failed(hjob[h])
    BY <1>3, HandlerMoves DEF Report, Outcomes, Flights!Acked, Flights!Failed
  <2> QED
    BY <1>3, <2>1, OneHand DEF Report
<1>4. CASE ReportLost(h)
  <2>1. Flights!Lost(hjob[h])
    BY <1>4, HandlerMoves DEF ReportLost, Flights!Lost
  <2> QED
    BY <1>4, <2>1, OneHand DEF ReportLost
<1>5. CASE ReleaseJob(h)
  <2>1. Flights!Release(hjob[h])
    BY <1>5, HandlerMoves DEF ReleaseJob, Flights!Release
  <2> QED
    BY <1>5, <2>1, OneHand DEF ReleaseJob
<1>6. CASE Unmark(h)
  <2>1. hpc \in [Handlers -> {"free", "exec", "ack", "fail", "release", "unmark"}]
        /\ hjob \in [Handlers -> Jobs \cup {NoJob}]
    BY DEF IInv, TypeOK
  <2>2. hpc[h] = "unmark" /\ hpc'[h] = "free" /\ UNCHANGED <<picked, run, store>>
        /\ \A k \in Handlers \ {h} : hpc'[k] = hpc[k] /\ hjob'[k] = hjob[k]
    BY <1>6, <2>1 DEF Unmark
  <2>3. ASSUME NEW job \in Jobs PROVE InHand(job)' = InHand(job)
    BY <2>2 DEF InHand
  <2> QED
    BY <2>2, <2>3 DEF Flights!vars
<1> QED
  BY <1>1, <1>2, <1>3, <1>4, <1>5, <1>6 DEF HandlerNext

(* Every step of the service is a step of JobFlight or leaves the jobs     *)
(* alone.                                                                  *)
LEMMA HandsStep ==
  ASSUME IInv, [Next]_vars
  PROVE  [Flights!Next]_(Flights!vars)
<1> USE DEF tick, workers, handlers, Flights!vars
<1>1. CASE RefreshNext
  BY <1>1, HandsStay DEF RefreshNext, SkipRefresh, ConfigReply, ConfigFallback,
     ConfigError, Configure
<1>2. CASE Snapshot \/ PullUnavailable \/ PollDone \/ DispatchDone
  BY <1>2, HandsStay DEF Snapshot, PullUnavailable, PollDone, DispatchDone
<1>3. CASE PullReply \/ PullError
  <2>1. PICK q \in todo, S \in SUBSET Jobs : Deliver(q, S)
    BY <1>3 DEF PullReply, PullError
  <2>2. Flights!Pull(S)
    BY <1>3, <2>1, HandsStay DEF PullReply, PullError, Deliver, Flights!Pull
  <2> QED
    BY <2>2 DEF Flights!Next
<1>4. CASE NextTick \/ GrowStale \/ Cancel \/ SeeCancel
  BY <1>4, HandsStay DEF NextTick, GrowStale, Cancel, SeeCancel
<1>5. CASE Drained
  <2>1. \A job \in Jobs : InHand(job) = {}
    BY <1>5, QueueSettings DEF IInv, Shape, InHand, Drained
  <2>2. Flights!Return
    BY <1>5, <2>1, HandsStay DEF Drained, Flights!Return
  <2> QED
    BY <2>2 DEF Flights!Next
<1>6. ASSUME NEW job \in Jobs, Redeliver(job)
      PROVE  [Flights!Next]_(Flights!vars)
  <2>1. Flights!Redeliver(job)
    BY <1>6, HandsStay DEF Redeliver, Flights!Redeliver
  <2> QED
    BY <2>1 DEF Flights!Next, Flights!JobNext
<1>7. CASE Returned \/ UNCHANGED vars
  BY <1>7, HandsStay DEF Returned, vars
<1> QED
  BY <1>1, <1>2, <1>3, <1>4, <1>5, <1>6, <1>7, Takes, Begins, Handles
     DEF Next, TickNext, PollNext

(* Seen through the jobs in hand alone, the service is JobFlight: taken,   *)
(* run, reported and released in this order, one at a time, and nothing in *)
(* hand once Run has returned.                                             *)
THEOREM QueueImplementsFlight == Spec => ImplementsFlight
BY FlightInit, HandsStep, Invariance, PTL DEF Spec, ImplementsFlight, Flights!Spec

-----------------------------------------------------------------------------
(* The queue service implements Service. *)

(* Service's variables. *)
At == IF run \in DOMAIN Leaving THEN Leaving[run] ELSE "running"
Busy == {h \in Handlers : hpc[h] # "free"}

(* A step of Run that is none of Service's. *)
LEMMA ServiceSame ==
  ASSUME UNCHANGED <<At, Busy, cancelled>>
  PROVE  UNCHANGED AsService!vars
BY DEF AsService!vars, At, Busy

(* Each step of the queue service is one of Service, or none. *)
LEMMA ServiceStep ==
  ASSUME TypeOK, Shape, [Next]_vars
  PROVE  [AsService!Next]_(AsService!vars)
<1> USE DEF tick, workers, handlers
<1> DEFINE Same == UNCHANGED <<At, Busy, cancelled>>
<1>1. CASE SkipRefresh \/ ConfigReply \/ ConfigFallback
  <2>1. Same
    BY <1>1 DEF SkipRefresh, ConfigReply, ConfigFallback, Configure, At, Busy, Leaving
  <2> QED
    BY <2>1, ServiceSame
<1>2. CASE ConfigError \/ PullError
  <2>1. At = "running" /\ At' = "failing" /\ UNCHANGED <<Busy, cancelled>>
    BY <1>2 DEF ConfigError, PullError, At, Busy, Leaving
  <2>2. AsService!Error
    BY <2>1 DEF AsService!Error, AsService!Moves, At, Busy
  <2> QED
    BY <2>2 DEF AsService!Next
<1>3. CASE Snapshot \/ PullReply \/ PullUnavailable \/ PollDone \/ ReserveJob
           \/ DispatchDone
  <2>1. Same
    BY <1>3 DEF Snapshot, PullReply, PullUnavailable, PollDone, ReserveJob,
       DispatchDone, At, Busy, Leaving
  <2> QED
    BY <2>1, ServiceSame
<1>4. CASE StartHandler
  <2>1. PICK h \in Handlers : hpc' = [hpc EXCEPT ![h] = "exec"]
    BY <1>4 DEF StartHandler
  <2>2. At = "running" /\ Busy' = Busy \cup {h} /\ UNCHANGED <<At, cancelled>>
    BY <1>4, <2>1 DEF StartHandler, At, Busy, Leaving, TypeOK
  <2>3. AsService!Begin(h)
    BY <2>2 DEF AsService!Begin, At, Busy
  <2> QED
    BY <2>3 DEF AsService!Next
<1>5. CASE NextTick \/ GrowStale
  <2>1. Same
    BY <1>5 DEF NextTick, GrowStale, At, Busy, Leaving
  <2> QED
    BY <2>1, ServiceSame
<1>6. CASE Cancel
  <2>1. cancelled' = TRUE /\ UNCHANGED <<At, Busy>>
    BY <1>6 DEF Cancel, At, Busy
  <2>2. AsService!Cancel
    BY <2>1 DEF AsService!Cancel, At, Busy
  <2> QED
    BY <2>2 DEF AsService!Next
<1>7. CASE SeeCancel
  <2>1. At = "running" /\ At' = "ending" /\ cancelled /\ UNCHANGED <<Busy, cancelled>>
    BY <1>7 DEF SeeCancel, At, Busy, Leaving
  <2>2. AsService!SeeCancel
    BY <2>1 DEF AsService!SeeCancel, AsService!Moves, At, Busy
  <2> QED
    BY <2>2 DEF AsService!Next
<1>8. CASE Drained
  <2>1. Busy = {} /\ UNCHANGED <<Busy, cancelled>>
    BY <1>8 DEF Drained, Busy
  <2>2. \/ At = "ending" /\ At' = "returned"
        \/ At = "failing" /\ At' = "failed"
    BY <1>8 DEF Drained, At, Leaving
  <2>3. AsService!Return
    BY <2>1, <2>2 DEF AsService!Return, AsService!Moves, At, Busy
  <2> QED
    BY <2>3 DEF AsService!Next
<1>9. ASSUME NEW h \in Handlers, HandlerNext(h)
      PROVE  [AsService!Next]_(AsService!vars)
  <2>1. CASE Unmark(h)
    <3>1. Busy' = Busy \ {h} /\ UNCHANGED <<At, cancelled>>
      BY <2>1 DEF Unmark, At, Busy, TypeOK
    <3>2. AsService!End(h)
      BY <3>1 DEF AsService!End, At, Busy
    <3> QED
      BY <3>2 DEF AsService!Next
  <2>2. CASE TaskSucceeds(h) \/ TaskFails(h) \/ Report(h) \/ ReportLost(h)
             \/ ReleaseJob(h)
    <3>1. Same
      BY <2>2 DEF TaskSucceeds, TaskFails, Report, ReportLost, ReleaseJob, At,
         Busy, TypeOK
    <3> QED
      BY <3>1, ServiceSame
  <2> QED
    BY <1>9, <2>1, <2>2 DEF HandlerNext
<1>10. ASSUME NEW job \in Jobs, Redeliver(job)
       PROVE  [AsService!Next]_(AsService!vars)
  <2>1. Same
    BY <1>10 DEF Redeliver, At, Busy
  <2> QED
    BY <2>1, ServiceSame
<1>11. CASE Returned \/ UNCHANGED vars
  <2>1. Same
    BY <1>11 DEF Returned, vars, At, Busy
  <2> QED
    BY <2>1, ServiceSame
<1> QED
  BY <1>1, <1>2, <1>3, <1>4, <1>5, <1>6, <1>7, <1>8, <1>9, <1>10, <1>11
     DEF Next, TickNext, RefreshNext, PollNext

(* The queue service begins no job once it is leaving, returns when its    *)
(* last handler has ended, and without an error only if it was cancelled.  *)
THEOREM QueueImplementsService == Spec => ImplementsService
<1>1. Init => AsService!Init
  BY DEF Init, AsService!Init, Leaving
<1>2. IInv /\ [Next]_vars => [AsService!Next]_(AsService!vars)
  BY ServiceStep DEF IInv
<1> QED
  BY <1>1, <1>2, Invariance, PTL DEF Spec, ImplementsService, AsService!Spec

-----------------------------------------------------------------------------
(* What becomes of an answer of the master. *)

(* Jobs of an answer are at hand only while they are dispatched.           *)
AnswerOpen == run # "dispatch" => batch = {}

(* No job of an answer is passed over: it leaves the answer only as one    *)
(* that is in flight now, whether it is taken or was already, and no other *)
(* answer, error or cancellation comes between.                            *)
AnswerIsDispatched ==
  [][\A job \in batch : job \notin batch' => job \in inflight']_vars

(* Only ReserveJob takes a job out of an answer. *)
LEMMA AnswerStep ==
  ASSUME TypeOK, AnswerOpen, [Next]_vars
  PROVE  /\ AnswerOpen'
         /\ \A job \in batch : job \notin batch' => job \in inflight'
<1> USE DEF tick, workers, handlers
<1> DEFINE Goal == /\ AnswerOpen'
                   /\ \A job \in batch : job \notin batch' => job \in inflight'
<1>1. CASE RefreshNext
  BY <1>1 DEF RefreshNext, SkipRefresh, ConfigReply, ConfigFallback,
     ConfigError, Configure, AnswerOpen
<1>2. CASE PullReply
  BY <1>2 DEF PullReply, AnswerOpen
<1>3. CASE ReserveJob
  BY <1>3 DEF ReserveJob, IsDuplicate, AnswerOpen
<1>4. CASE Snapshot \/ PullUnavailable \/ PullError \/ PollDone \/ StartHandler
           \/ DispatchDone
  BY <1>4 DEF Snapshot, PullUnavailable, PullError, PollDone, StartHandler,
     DispatchDone, AnswerOpen
<1>5. CASE NextTick \/ GrowStale \/ Cancel \/ SeeCancel \/ Drained
  BY <1>5 DEF NextTick, GrowStale, Cancel, SeeCancel, Drained, AnswerOpen
<1>6. ASSUME NEW h \in Handlers, HandlerNext(h)
      PROVE  Goal
  BY <1>6 DEF HandlerNext, TaskSucceeds, TaskFails, Report, ReportLost,
     ReleaseJob, Unmark, AnswerOpen
<1>7. ASSUME NEW job \in Jobs, Redeliver(job)
      PROVE  Goal
  BY <1>7 DEF Redeliver, AnswerOpen
<1>8. CASE Returned \/ UNCHANGED vars
  BY <1>8 DEF Returned, vars, AnswerOpen
<1> QED
  BY <1>1, <1>2, <1>3, <1>4, <1>5, <1>6, <1>7, <1>8 DEF Next, TickNext, PollNext

(* Every job the master has handed over in an answer is taken, unless it   *)
(* is in flight already.                                                   *)
THEOREM AnswersAreDispatched == Spec => AnswerIsDispatched
<1>1. Init => AnswerOpen
  BY DEF Init, AnswerOpen
<1>2. IInv /\ AnswerOpen /\ [Next]_vars => AnswerOpen'
  BY AnswerStep DEF IInv
<1>3. IInv /\ AnswerOpen /\ [Next]_vars =>
        [\A job \in batch : job \notin batch' => job \in inflight']_vars
  BY AnswerStep DEF IInv
<1> QED
  BY <1>1, <1>2, <1>3, Invariance, PTL DEF Spec, AnswerIsDispatched

=============================================================================
