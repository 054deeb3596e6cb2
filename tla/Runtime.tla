------------------------------- MODULE Runtime -------------------------------
(***************************************************************************)
(* The Go process: cmd/dux-runtime/main.go, app/app.go and the services    *)
(* app.New puts together, with what they share with other processes: the   *)
(* port, the path of the admin socket, and the control socket of a PHP     *)
(* master.  Each function is over the generations of the process: every    *)
(* start of the runtime makes a new one, and an old one may still be       *)
(* there.  The processes that start, signal and answer it are in           *)
(* Lifecycle.                                                              *)
(*                                                                         *)
(* Steps are system calls other processes can tell apart.  The queue       *)
(* service is left out: to the rest of the process it is a second          *)
(* scheduler (QueueService models it), and one task is in hand at a time.  *)
(* Endpoints are unix sockets, the default.                                *)
(***************************************************************************)
EXTENDS Naturals

CONSTANTS
  Gens,     \* generations of the runtime
  Nobody,   \* no generation
  Bounds    \* what is explored together, see bound

ASSUME GenerationsAreNumbered == Gens \subseteq Nat \ {0} /\ 1 \in Gens /\ Nobody \notin Gens
ASSUME BoundsAreRecords ==
  Bounds \subseteq [last : Nat, stops : SUBSET Gens, kills : SUBSET Gens, realtime : BOOLEAN, scheds : SUBSET Gens, pools : SUBSET Gens]

VARIABLES
  port,     \* whose listener has the realtime port
  gwSock,   \* whose socket the path of the admin endpoint names
  sock,     \* whose socket the path of the control endpoint names
  backlog,  \* runtimes connected to a master and not accepted, by master
  app,      \* main and app.Run
  ctx,      \* the context of signal.NotifyContext is cancelled
  http,     \* realtime.Run
  admin,    \* RunAdmin
  pool,     \* Pool.Run
  sched,    \* scheduler.Run
  call,     \* its call to the master, and what came of it
  task,     \* handleJob
  bound     \* never changes: the last generation started, the generations
            \* stopped and the ones killed from outside, RealtimeEnabled, and
            \* the generations with a scheduler and with a pool (left out, it
            \* has returned from the start)

goVars == <<port, gwSock, backlog, app, ctx, http, admin, pool, sched, call, task>>

Alive(g) == app[g] \in {"load", "up", "drain"}
Up(g) == app[g] \in {"up", "drain"}
Ended(g) == app[g] \in {"exited", "failed", "killed"}

GoTypeOK ==
  /\ bound \in Bounds
  /\ port \in Gens \cup {Nobody}
  /\ gwSock \in Gens \cup {Nobody}
  /\ backlog \in [Gens -> SUBSET Gens]
  /\ app \in [Gens -> {"off", "load", "up", "drain", "exited", "failed", "killed"}]
  /\ ctx \in [Gens -> BOOLEAN]
  /\ http \in [Gens -> {"start", "serving", "closed", "failed"}]
  /\ admin \in [Gens -> {"start", "listen", "up", "closing", "done"}]
  /\ pool \in [Gens -> {"boot", "open", "stopped", "failed"}]
  /\ sched \in [Gens -> {"tick", "sleep", "drain", "failing", "returned", "failed"}]
  /\ call \in [Gens -> {"none", "sent", "empty", "job", "error"}]
  /\ task \in [Gens -> {"none", "exec", "report"}]

GoInit ==
  /\ bound \in Bounds
  /\ port = Nobody
  /\ gwSock = Nobody
  /\ backlog = [m \in Gens |-> {}]
  /\ app = [g \in Gens |-> "off"]
  /\ ctx = [g \in Gens |-> FALSE]
  /\ http = [g \in Gens |-> "start"]
  /\ admin = [g \in Gens |-> "start"]
  /\ pool = [g \in Gens |-> IF g \in bound.pools THEN "boot" ELSE "stopped"]
  /\ sched = [g \in Gens |-> IF g \in bound.scheds THEN "tick" ELSE "returned"]
  /\ call = [g \in Gens |-> "none"]
  /\ task = [g \in Gens |-> "none"]

-----------------------------------------------------------------------------
(* Faulty variants of definitions below; no action uses them.              *)

(* an application that waits for its services after an error *)
SeeErrorWaits(g) ==
  /\ app[g] = "up"
  /\ http[g] = "failed" \/ pool[g] = "failed" \/ sched[g] = "failed"
  /\ app' = [app EXCEPT ![g] = "drain"]
  /\ UNCHANGED <<port, gwSock, backlog, ctx, http, admin, pool, sched, call, task>>

(* a shutdown that does not close the listener *)
CloseHttpLeaks(g) ==
  /\ Up(g)
  /\ ctx[g]
  /\ http[g] \in {"start", "serving"}
  /\ http' = [http EXCEPT ![g] = "closed"]
  /\ UNCHANGED <<port, gwSock, backlog, app, ctx, admin, pool, sched, call, task>>

(* a dial that is not bound to the context *)
RefusedBlind(g, listening) == sock \notin listening

(* a scheduler that does not wait for its handlers *)
DrainedAtOnce(g) ==
  /\ Up(g)
  /\ sched[g] \in {"drain", "failing"}
  /\ sched' = [sched EXCEPT ![g] = IF @ = "drain" THEN "returned" ELSE "failed"]
  /\ UNCHANGED <<port, gwSock, backlog, app, ctx, http, admin, pool, call, task>>

-----------------------------------------------------------------------------
(* The scheduler service.                                                  *)

(* The call of a tick (client.go's call): a dial under a cancelled         *)
(* context, to a path nobody listens on or to one that is not there is     *)
(* refused, and the tick given up.                                         *)
Refused(g, listening) == ctx[g] \/ sock \notin listening

Tick(g, listening) ==
  /\ Up(g)
  /\ sched[g] = "tick" /\ call[g] = "none"
  /\ IF Refused(g, listening)
     THEN /\ sched' = [sched EXCEPT ![g] = "sleep"]
          /\ UNCHANGED <<backlog, call>>
     ELSE /\ call' = [call EXCEPT ![g] = "sent"]
          /\ backlog' = [backlog EXCEPT ![sock] = @ \cup {g}]
          /\ UNCHANGED sched
  /\ UNCHANGED <<port, gwSock, app, ctx, http, admin, pool, task>>

(* The answer: no task due; a task, for which a handler is started; or an  *)
(* error of the master or of the connection, which ends Run.               *)
TickAnswered(g) ==
  /\ Up(g)
  /\ call[g] \in {"empty", "job", "error"}
  /\ call' = [call EXCEPT ![g] = "none"]
  /\ sched' = [sched EXCEPT ![g] = IF call[g] = "error" THEN "failing" ELSE "sleep"]
  /\ task' = [task EXCEPT ![g] = IF call[g] = "job" THEN "exec" ELSE @]
  /\ UNCHANGED <<port, gwSock, backlog, app, ctx, http, admin, pool>>

NextTick(g) ==
  /\ Up(g)
  /\ sched[g] = "sleep"
  /\ sched' = [sched EXCEPT ![g] = "tick"]
  /\ UNCHANGED <<port, gwSock, backlog, app, ctx, http, admin, pool, call, task>>

SeeCancel(g) ==
  /\ Up(g)
  /\ sched[g] = "sleep"
  /\ ctx[g]
  /\ sched' = [sched EXCEPT ![g] = "drain"]
  /\ UNCHANGED <<port, gwSock, backlog, app, ctx, http, admin, pool, call, task>>

(* The deferred wg.Wait. *)
Drained(g) ==
  /\ Up(g)
  /\ sched[g] \in {"drain", "failing"}
  /\ task[g] = "none"
  /\ sched' = [sched EXCEPT ![g] = IF @ = "drain" THEN "returned" ELSE "failed"]
  /\ UNCHANGED <<port, gwSock, backlog, app, ctx, http, admin, pool, call, task>>

(* Pool.Execute returns: the task is done, or has failed, or was refused   *)
(* because the pool has not been bootstrapped yet or the context is        *)
(* cancelled, which also ends a task that is running.                      *)
TaskEnds(g) ==
  /\ Up(g)
  /\ task[g] = "exec"
  /\ task' = [task EXCEPT ![g] = "report"]
  /\ UNCHANGED <<port, gwSock, backlog, app, ctx, http, admin, pool, sched, call>>

(* The report reaches the master or not: nothing here depends on it.       *)
TaskReported(g) ==
  /\ Up(g)
  /\ task[g] = "report"
  /\ task' = [task EXCEPT ![g] = "none"]
  /\ UNCHANGED <<port, gwSock, backlog, app, ctx, http, admin, pool, sched, call>>

-----------------------------------------------------------------------------
(* The worker pool, at the level of Run.                                   *)

PoolBoot(g) ==
  /\ Up(g)
  /\ pool[g] = "boot"
  /\ \E how \in {"open", "failed"} : pool' = [pool EXCEPT ![g] = how]
  /\ UNCHANGED <<port, gwSock, backlog, app, ctx, http, admin, sched, call, task>>

PoolStop(g) ==
  /\ Up(g)
  /\ pool[g] = "open"
  /\ ctx[g]
  /\ pool' = [pool EXCEPT ![g] = "stopped"]
  /\ UNCHANGED <<port, gwSock, backlog, app, ctx, http, admin, sched, call, task>>

-----------------------------------------------------------------------------
(* The realtime service: the HTTP server, and RunAdmin in a goroutine of   *)
(* its own nobody waits for.                                               *)

ListenAndServe(g) ==
  /\ Up(g)
  /\ http[g] = "start"
  /\ bound.realtime
  /\ IF port = Nobody
     THEN port' = g /\ http' = [http EXCEPT ![g] = "serving"]
     ELSE http' = [http EXCEPT ![g] = "failed"] /\ UNCHANGED port
  /\ UNCHANGED <<gwSock, backlog, app, ctx, admin, pool, sched, call, task>>

(* Shutdown, which closes the listener first; ListenAndServe returns.      *)
CloseHttp(g) ==
  /\ Up(g)
  /\ ctx[g]
  /\ http[g] \in {"start", "serving"}
  /\ http' = [http EXCEPT ![g] = "closed"]
  /\ port' = IF port = g THEN Nobody ELSE port
  /\ UNCHANGED <<gwSock, backlog, app, ctx, admin, pool, sched, call, task>>

(* PrepareEndpoint removes the path, whoever's socket it names. *)
AdminPrepare(g) ==
  /\ Up(g)
  /\ admin[g] = "start"
  /\ bound.realtime
  /\ admin' = [admin EXCEPT ![g] = "listen"]
  /\ gwSock' = Nobody
  /\ UNCHANGED <<port, backlog, app, ctx, http, pool, sched, call, task>>

(* A bind to a path that exists fails; the error is logged. *)
AdminListen(g) ==
  /\ Up(g)
  /\ admin[g] = "listen"
  /\ IF gwSock = Nobody
     THEN gwSock' = g /\ admin' = [admin EXCEPT ![g] = "up"]
     ELSE admin' = [admin EXCEPT ![g] = "done"] /\ UNCHANGED gwSock
  /\ UNCHANGED <<port, backlog, app, ctx, http, pool, sched, call, task>>

(* The listener is closed, which removes the path, and then the path is    *)
(* removed again by CleanupEndpoint.                                       *)
AdminClose(g) ==
  /\ Up(g)
  /\ \/ admin[g] = "up" /\ ctx[g] /\ admin' = [admin EXCEPT ![g] = "closing"]
     \/ admin[g] = "closing" /\ admin' = [admin EXCEPT ![g] = "done"]
  /\ gwSock' = Nobody
  /\ UNCHANGED <<port, backlog, app, ctx, http, pool, sched, call, task>>

-----------------------------------------------------------------------------
(* main and app.Run.                                                       *)

(* The end of a process: the system closes its listeners and connections   *)
(* and leaves the paths.  What its goroutines had in hand is gone; where   *)
(* they were matters no longer, and is set to where a normal end leaves    *)
(* them.                                                                   *)
Ends(g, how) ==
  /\ app' = [app EXCEPT ![g] = how]
  /\ port' = IF port = g THEN Nobody ELSE port
  /\ call' = [call EXCEPT ![g] = "none"]
  /\ task' = [task EXCEPT ![g] = "none"]
  /\ backlog' = [m \in Gens |-> backlog[m] \ {g}]
  /\ ctx' = [ctx EXCEPT ![g] = TRUE]
  /\ http' = [http EXCEPT ![g] = "closed"]
  /\ admin' = [admin EXCEPT ![g] = "done"]
  /\ pool' = [pool EXCEPT ![g] = "stopped"]
  /\ sched' = [sched EXCEPT ![g] = "returned"]
  /\ UNCHANGED gwSock

(* The configuration is loaded and the services start, or it is refused. *)
Load(g) ==
  /\ app[g] = "load"
  /\ app' = [app EXCEPT ![g] = "up"]
  /\ UNCHANGED <<port, gwSock, backlog, ctx, http, admin, pool, sched, call, task>>

LoadFails(g) == app[g] = "load" /\ Ends(g, "failed")

SomeFailed(g) == http[g] = "failed" \/ pool[g] = "failed" \/ sched[g] = "failed"

AllReturned(g) ==
  /\ http[g] \in {"closed", "failed"}
  /\ pool[g] \in {"stopped", "failed"}
  /\ sched[g] \in {"returned", "failed"}

(* The three cases of the select, which are tried at random when several   *)
(* are ready: cancelled, so wait for every service; all have returned; or  *)
(* the first error, which ends the process at once.                        *)
SeeCancelled(g) ==
  /\ app[g] = "up"
  /\ ctx[g]
  /\ app' = [app EXCEPT ![g] = "drain"]
  /\ UNCHANGED <<port, gwSock, backlog, ctx, http, admin, pool, sched, call, task>>

SeeDone(g) ==
  /\ Up(g)
  /\ AllReturned(g)
  /\ Ends(g, IF app[g] = "up" /\ SomeFailed(g) THEN "failed" ELSE "exited")

SeeError(g) ==
  /\ app[g] = "up"
  /\ SomeFailed(g)
  /\ Ends(g, "failed")

(* A signal: cancels the context once NotifyContext is set up, kills the   *)
(* process before.                                                         *)
Terminate(g) ==
  IF app[g] = "load" THEN Ends(g, "killed")
  ELSE /\ ctx' = [ctx EXCEPT ![g] = TRUE]
       /\ UNCHANGED <<port, gwSock, backlog, app, http, admin, pool, sched, call, task>>

-----------------------------------------------------------------------------
SchedNext(g) == TickAnswered(g) \/ NextTick(g) \/ Drained(g)
TaskNext(g) == TaskEnds(g) \/ TaskReported(g)
PoolNext(g) == PoolBoot(g) \/ PoolStop(g)
HttpNext(g) == ListenAndServe(g) \/ CloseHttp(g)
AdminNext(g) == AdminPrepare(g) \/ AdminListen(g) \/ AdminClose(g)
AppNext(g) == Load(g) \/ LoadFails(g) \/ SeeCancelled(g) \/ SeeDone(g) \/ SeeError(g)

=============================================================================
