--------------------------- MODULE Lifecycle_proofs ---------------------------
(***************************************************************************)
(* Proofs about Lifecycle, for any number of generations and any bounds.   *)
(***************************************************************************)
EXTENDS Lifecycle, TLAPS

(* A master that has not started its Go process. *)
Early == {"off", "boot", "pid", "prepare", "bind", "spawn"}

(* Generations start one after the other, a master starts its process      *)
(* once, and every way out of it ends the process.                         *)
Stages ==
  /\ \A g \in Gens : /\ g > started => mpc[g] = "off"
                     /\ mpc[g] \in Early => app[g] = "off"
  /\ NoOrphanGo

(* What the places of the services say: they serve and have work in hand   *)
(* while the process runs only, and close once it is cancelled.            *)
Services ==
  \A g \in Gens :
    /\ app[g] \in {"off", "load"} => http[g] = "start" /\ admin[g] = "start"
    /\ http[g] = "serving" => Up(g)
    /\ http[g] = "closed" => ctx[g]
    /\ app[g] = "drain" => ctx[g]
    /\ call[g] # "none" => sched[g] = "tick"
    /\ task[g] # "none" => sched[g] \notin {"returned", "failed"}

(* Generations that do not overlap: all but the last one are over, the     *)
(* names are with the last one, and nobody else talks to its master.       *)
Retired == \A g \in Gens : g < started => Gone(g) /\ ~Alive(g)
Names ==
  \A g \in Gens :
    /\ mpc[g] \in {"pid", "prepare", "bind", "spawn", "loop"} => pidFile = g
    /\ mpc[g] = "bind" => sock = Nobody
    /\ mpc[g] \in {"spawn", "loop"} => sock = g
    /\ Up(g) /\ admin[g] = "listen" => gwSock = Nobody
    /\ Up(g) /\ admin[g] = "up" => gwSock = g
    /\ Up(g) => http[g] # "failed"
Clients == \A g \in Gens : backlog[g] \subseteq {g} /\ serving[g] \in {g, Nobody}
Handover == ~overlap => Retired /\ Names /\ Clients

(* The inductive invariant. *)
IInv == TypeOK /\ Stages /\ Services /\ Handover

-----------------------------------------------------------------------------
(* What the end of a process leaves. *)

(* The end of a process keeps the types. *)
LEMMA EndsType ==
  ASSUME TypeOK, NEW g \in Gens, NEW how \in {"exited", "failed", "killed"},
         Ends(g, how), UNCHANGED bound
  PROVE  GoTypeOK' /\ (\A k \in Gens : port' = k <=> http'[k] = "serving")
<1> USE GenerationsAreNumbered DEF TypeOK, GoTypeOK, Ends
<1>1. backlog' \in [Gens -> SUBSET Gens]
  OBVIOUS
<1>2. \A k \in Gens : port' = k <=> http'[k] = "serving"
  OBVIOUS
<1>3. bound' \in Bounds /\ port' \in Gens \cup {Nobody}
      /\ gwSock' \in Gens \cup {Nobody}
  OBVIOUS
<1> QED
  BY <1>1, <1>2, <1>3

(* A signal to a process keeps the types. *)
LEMMA TerminateType ==
  ASSUME TypeOK, NEW g \in Gens, Terminate(g), UNCHANGED bound
  PROVE  GoTypeOK' /\ (\A k \in Gens : port' = k <=> http'[k] = "serving")
<1>1. CASE app[g] = "load"
  BY <1>1, EndsType DEF Terminate
<1>2. CASE app[g] # "load"
  <2>1. ctx' \in [Gens -> BOOLEAN]
    BY <1>2 DEF Terminate, TypeOK, GoTypeOK
  <2>2. UNCHANGED <<port, gwSock, backlog, app, http, admin, pool, sched, call,
                    task>>
    BY <1>2 DEF Terminate
  <2> QED
    BY <2>1, <2>2 DEF TypeOK, GoTypeOK
<1> QED
  BY <1>1, <1>2

(* A signal to a master keeps the types. *)
LEMMA SignalType ==
  ASSUME TypeOK, NEW m \in Gens, Signal(m)
  PROVE  /\ mpc' \in [Gens -> {"off", "boot", "pid", "prepare", "bind", "spawn",
                              "loop", "close", "unlink", "checkpid", "rmpid",
                              "stop", "wait", "gone"}]
         /\ term' \in [Gens -> BOOLEAN]
BY DEF Signal, TypeOK

(* A server that is closed, or whose process ends, keeps the types.        *)
LEMMA ResetType ==
  ASSUME TypeOK, NEW m \in Gens, Reset(m)
  PROVE  /\ call' \in [Gens -> {"none", "sent", "empty", "job", "error"}]
         /\ backlog' \in [Gens -> SUBSET Gens]
         /\ serving' \in [Gens -> Gens \cup {Nobody}]
BY DEF TypeOK, GoTypeOK, Reset

-----------------------------------------------------------------------------
(* Types. *)

(* The initial states satisfy IInv. *)
LEMMA InitInv == Init => IInv
<1> SUFFICES ASSUME Init PROVE IInv
  OBVIOUS
<1> USE GenerationsAreNumbered DEF Init, GoInit
<1>1. TypeOK
  BY DEF TypeOK, GoTypeOK
<1>2. Stages
  BY DEF Stages, NoOrphanGo, Gone, Alive, Early
<1>3. Services
  BY DEF Services
<1>4. Retired /\ Names /\ Clients
  BY DEF Retired, Names, Clients, Up, Gone, Alive
<1> QED
  BY <1>1, <1>2, <1>3, <1>4 DEF IInv, Handover

(* Steps of the Go process keep the types. *)
LEMMA TypeGo ==
  ASSUME TypeOK, NEW g \in Gens,
         \/ ByGo(Tick(g, Listening)) \/ ByGo(SchedNext(g)) \/ ByGo(SeeCancel(g))
         \/ ByGo(TaskNext(g)) \/ ByGo(PoolNext(g)) \/ ByGo(HttpNext(g))
         \/ ByGo(AdminNext(g)) \/ ByGo(AppNext(g))
  PROVE  TypeOK'
<1> USE GenerationsAreNumbered DEF masterVars, cmdVars, ByGo
<1> DEFINE PortOK == \A k \in Gens : port = k <=> http[k] = "serving"
<1>0. UNCHANGED <<masterVars, cmdVars, bound>>
  OBVIOUS
<1>1. CASE ByGo(Tick(g, Listening))
  BY <1>1 DEF TypeOK, GoTypeOK, Tick, Refused, Listening
<1>2. CASE ByGo(SchedNext(g)) \/ ByGo(SeeCancel(g)) \/ ByGo(TaskNext(g))
  BY <1>2 DEF TypeOK, GoTypeOK, SchedNext, TickAnswered, NextTick, Drained,
     SeeCancel, TaskNext, TaskEnds, TaskReported
<1>3. CASE ByGo(PoolNext(g))
  BY <1>3 DEF TypeOK, GoTypeOK, PoolNext, PoolBoot, PoolStop
<1>4. CASE ByGo(HttpNext(g))
  BY <1>4 DEF TypeOK, GoTypeOK, HttpNext, ListenAndServe, CloseHttp
<1>5. CASE ByGo(AdminNext(g))
  BY <1>5 DEF TypeOK, GoTypeOK, AdminNext, AdminPrepare, AdminListen, AdminClose
<1>6. CASE ByGo(AppNext(g))
  <2>1. CASE Load(g) \/ SeeCancelled(g)
    BY <1>0, <2>1 DEF TypeOK, GoTypeOK, Load, SeeCancelled
  <2>2. CASE LoadFails(g) \/ SeeDone(g) \/ SeeError(g)
    <3>1. PICK how \in {"exited", "failed", "killed"} : Ends(g, how)
      BY <2>2 DEF LoadFails, SeeDone, SeeError
    <3> QED
      BY <1>0, <3>1, EndsType DEF TypeOK
  <2> QED
    BY <1>6, <2>1, <2>2 DEF AppNext
<1> QED
  BY <1>1, <1>2, <1>3, <1>4, <1>5, <1>6

(* Steps of the masters keep the types. *)
LEMMA TypeMaster ==
  ASSUME TypeOK, NEW m \in Gens,
         MasterNext(m) \/ LeaveLoop(m) \/ \E g \in Gens : Accept(m, g),
         UNCHANGED bound
  PROVE  TypeOK'
<1> USE GenerationsAreNumbered DEF goVars, cmdVars, Goto
<1>1. CASE PersistPid(m) \/ BootSignals(m) \/ PrepareEndpoint(m) \/ Bind(m)
           \/ LeaveLoop(m) \/ CleanupEndpoint(m) \/ CheckPid(m) \/ RemovePid(m)
  BY <1>1 DEF TypeOK, GoTypeOK, PersistPid, BootSignals, PrepareEndpoint, Bind,
     LeaveLoop, CleanupEndpoint, CheckPid, RemovePid
<1>2. CASE StartGoProcess(m)
  BY <1>2 DEF TypeOK, GoTypeOK, StartGoProcess
<1>3. CASE HandleClient(m)
  <2>1. serving[m] \in Gens
    BY <1>3 DEF TypeOK, HandleClient
  <2>2. call' \in [Gens -> {"none", "sent", "empty", "job", "error"}]
    <3>1. PICK answer \in Answers(serving[m]) :
            call' = [call EXCEPT ![serving[m]] = IF @ = "sent" THEN answer ELSE @]
      BY <1>3 DEF HandleClient
    <3>2. answer \in {"empty", "error", "job"}
      BY <3>1 DEF Answers
    <3> QED
      BY <2>1, <3>1, <3>2 DEF TypeOK, GoTypeOK
  <2>3. serving' \in [Gens -> Gens \cup {Nobody}]
    BY <1>3 DEF TypeOK, HandleClient
  <2> QED
    BY <1>3, <2>2, <2>3 DEF TypeOK, GoTypeOK, HandleClient
<1>4. CASE CloseServer(m)
  BY <1>4, ResetType DEF TypeOK, GoTypeOK, CloseServer
<1>5. CASE StopGo(m)
  <2>1. CASE UNCHANGED goVars
    BY <1>5, <2>1 DEF TypeOK, GoTypeOK, StopGo
  <2>2. CASE Terminate(m)
    BY <1>5, <2>2, TerminateType DEF TypeOK, StopGo
  <2> QED
    BY <1>5, <2>1, <2>2 DEF StopGo
<1>6. CASE GoEnded(m)
  <2>1. CASE UNCHANGED goVars
    BY <1>6, <2>1 DEF TypeOK, GoTypeOK, GoEnded
  <2>2. CASE Ends(m, "killed")
    BY <1>6, <2>2, EndsType DEF TypeOK, GoEnded
  <2> QED
    BY <1>6, <2>1, <2>2 DEF GoEnded
<1>7. ASSUME NEW g \in Gens, Accept(m, g)
      PROVE  TypeOK'
  BY <1>7 DEF TypeOK, GoTypeOK, Accept
<1> QED
  BY <1>1, <1>2, <1>3, <1>4, <1>5, <1>6, <1>7 DEF MasterNext

(* Signals, kills and the restart command keep the types. *)
LEMMA TypeOutside ==
  ASSUME TypeOK, NEW m \in Gens,
         \/ MasterKilled(m) \/ GoKilled(m) \/ MasterStopped(m) \/ GoStopped(m)
         \/ StopCurrentRuntime \/ StartRuntime \/ WaitForPid,
         UNCHANGED bound
  PROVE  TypeOK'
<1> USE GenerationsAreNumbered DEF goVars, cmdVars, masterVars
<1>1. CASE MasterKilled(m)
  BY <1>1, ResetType DEF TypeOK, GoTypeOK, MasterKilled
<1>2. CASE GoKilled(m)
  BY <1>2, EndsType DEF TypeOK, GoKilled
<1>3. CASE MasterStopped(m)
  BY <1>3, SignalType DEF TypeOK, GoTypeOK, MasterStopped
<1>4. CASE GoStopped(m)
  BY <1>4, TerminateType DEF TypeOK, GoStopped
<1>5. CASE StopCurrentRuntime
  <2>1. pidFile \in Gens \/ pidFile = Nobody
    BY DEF TypeOK
  <2>2. CASE pidFile = Nobody
    BY <1>5, <2>2 DEF TypeOK, GoTypeOK, StopCurrentRuntime
  <2>3. CASE pidFile \in Gens
    <3>1. Signal(pidFile)
      BY <1>5, <2>3 DEF StopCurrentRuntime
    <3> QED
      BY <1>5, <2>3, <3>1, SignalType DEF TypeOK, GoTypeOK, StopCurrentRuntime
  <2> QED
    BY <2>1, <2>2, <2>3
<1>6. CASE StartRuntime
  <2>1. overlap' \in BOOLEAN
    BY <1>6 DEF StartRuntime, TypeOK
  <2>2. GoTypeOK' /\ \A g \in Gens : port' = g <=> http'[g] = "serving"
    BY <1>6 DEF StartRuntime, TypeOK, GoTypeOK
  <2>3. mpc' \in [Gens -> {"off", "boot", "pid", "prepare", "bind", "spawn",
                          "loop", "close", "unlink", "checkpid", "rmpid",
                          "stop", "wait", "gone"}]
    BY <1>6 DEF StartRuntime, TypeOK
  <2>4. started' \in Nat /\ cmd' \in {"idle", "start", "wait"}
    BY <1>6 DEF StartRuntime, TypeOK
  <2>5. UNCHANGED <<pidFile, sock, term, serving, lost>>
    BY <1>6 DEF StartRuntime
  <2> QED
    BY <2>1, <2>2, <2>3, <2>4, <2>5 DEF TypeOK
<1>7. CASE WaitForPid
  BY <1>7 DEF TypeOK, GoTypeOK, WaitForPid
<1> QED
  BY <1>1, <1>2, <1>3, <1>4, <1>5, <1>6, <1>7

(* Every step keeps the types. *)
LEMMA TypeStep ==
  ASSUME TypeOK, [Next]_vars
  PROVE  TypeOK'
<1>1. CASE UNCHANGED vars
  BY <1>1 DEF TypeOK, GoTypeOK, vars, goVars, masterVars, cmdVars
<1> QED
  BY <1>1, TypeGo, TypeMaster, TypeOutside, GenerationsAreNumbered DEF Next, By

-----------------------------------------------------------------------------
(* Generations and the life of a process. *)

(* A Go process is started by its own master only, in StartGoProcess: any  *)
(* other step that touches it leaves it off, or has found it alive.        *)
LEMMA EndsStages ==
  ASSUME TypeOK, NEW g \in Gens, NEW how \in {"exited", "failed", "killed"},
         Ends(g, how), app[g] # "off"
  PROVE  \A k \in Gens : /\ app[k] = "off" => app'[k] = "off"
                         /\ ~Alive(k) => ~Alive(k)'
                         /\ ~Alive(g)'
BY DEF Ends, TypeOK, GoTypeOK, Alive

(* Steps of the Go process start no process and touch no master. *)
LEMMA StagesGo ==
  ASSUME TypeOK, Stages, NEW g \in Gens,
         \/ ByGo(Tick(g, Listening)) \/ ByGo(SchedNext(g)) \/ ByGo(SeeCancel(g))
         \/ ByGo(TaskNext(g)) \/ ByGo(PoolNext(g)) \/ ByGo(HttpNext(g))
         \/ ByGo(AdminNext(g)) \/ ByGo(AppNext(g))
  PROVE  \A k \in Gens : /\ app[k] = "off" => app'[k] = "off"
                         /\ ~Alive(k) => ~Alive(k)'
<1> USE DEF ByGo
<1>1. CASE ByGo(Tick(g, Listening)) \/ ByGo(SchedNext(g)) \/ ByGo(SeeCancel(g))
           \/ ByGo(TaskNext(g)) \/ ByGo(PoolNext(g)) \/ ByGo(HttpNext(g))
           \/ ByGo(AdminNext(g))
  <2>1. app' = app
    BY <1>1 DEF Tick, SchedNext, TickAnswered, NextTick, Drained, SeeCancel,
       TaskNext, TaskEnds, TaskReported, PoolNext, PoolBoot, PoolStop, HttpNext,
       ListenAndServe, CloseHttp, AdminNext, AdminPrepare, AdminListen,
       AdminClose
  <2> QED
    BY <2>1 DEF Alive
<1>2. CASE ByGo(AppNext(g))
  <2>1. CASE Load(g) \/ SeeCancelled(g)
    BY <2>1 DEF Load, SeeCancelled, Alive, TypeOK, GoTypeOK
  <2>2. CASE LoadFails(g) \/ SeeDone(g) \/ SeeError(g)
    BY <2>2, EndsStages DEF LoadFails, SeeDone, SeeError, Up
  <2> QED
    BY <1>2, <2>1, <2>2 DEF AppNext
<1> QED
  BY <1>1, <1>2

(* A signal to a process that runs. *)
LEMMA TerminateStages ==
  ASSUME TypeOK, NEW g \in Gens, Terminate(g)
  PROVE  \A k \in Gens : /\ app[k] = "off" => app'[k] = "off"
                         /\ ~Alive(k) => ~Alive(k)'
<1>1. CASE app[g] = "load"
  BY <1>1, EndsStages DEF Terminate
<1>2. CASE app[g] # "load"
  BY <1>2 DEF Terminate, Alive
<1> QED
  BY <1>1, <1>2

(* Every way out of a master ends the process it started. *)
LEMMA StagesStep ==
  ASSUME TypeOK, Stages, [Next]_vars
  PROVE  Stages'
<1> DEFINE Kept == \A k \in Gens : /\ app[k] = "off" => app'[k] = "off"
                                   /\ ~Alive(k) => ~Alive(k)'
<1> USE DEF goVars, cmdVars, masterVars, Goto
<1>1. ASSUME Kept, UNCHANGED <<mpc, lost, started>>
      PROVE  Stages'
  BY <1>1 DEF Stages, NoOrphanGo, Gone
<1>2. ASSUME app' = app
      PROVE  Kept
  BY <1>2 DEF Alive
<1>3. ASSUME NEW g \in Gens,
             \/ ByGo(Tick(g, Listening)) \/ ByGo(SchedNext(g))
             \/ ByGo(SeeCancel(g)) \/ ByGo(TaskNext(g)) \/ ByGo(PoolNext(g))
             \/ ByGo(HttpNext(g)) \/ ByGo(AdminNext(g)) \/ ByGo(AppNext(g))
      PROVE  Stages'
  <2>1. Kept
    BY <1>3, StagesGo
  <2>2. UNCHANGED <<mpc, lost, started>>
    BY <1>3 DEF ByGo
  <2> QED
    BY <1>1, <2>1, <2>2
<1>4. ASSUME NEW m \in Gens, MasterNext(m) \/ LeaveLoop(m)
      PROVE  Stages'
  <2>1. CASE PersistPid(m) \/ BootSignals(m) \/ PrepareEndpoint(m) \/ Bind(m)
             \/ LeaveLoop(m) \/ CleanupEndpoint(m) \/ CheckPid(m)
             \/ RemovePid(m) \/ CloseServer(m)
    BY <2>1 DEF PersistPid, BootSignals, PrepareEndpoint, Bind, LeaveLoop,
       CleanupEndpoint, CheckPid, RemovePid, CloseServer, Stages, NoOrphanGo,
       Gone, Alive, Early, TypeOK
  <2>2. CASE StartGoProcess(m)
    BY <2>2 DEF StartGoProcess, Stages, NoOrphanGo, Gone, Alive, Early, TypeOK,
       GoTypeOK
  <2>3. CASE HandleClient(m)
    BY <1>1, <1>2, <2>3 DEF HandleClient
  <2>4. CASE StopGo(m)
    <3>1. Kept
      BY <1>2, <2>4, TerminateStages DEF StopGo
    <3>2. mpc' = [mpc EXCEPT ![m] = IF Ended(m) THEN "gone" ELSE "wait"]
          /\ mpc[m] = "stop" /\ UNCHANGED <<lost, started>>
      BY <2>4 DEF StopGo
    <3>3. Ended(m) => ~Alive(m)
      BY DEF Ended, Alive
    <3> QED
      BY <3>1, <3>2, <3>3 DEF Stages, NoOrphanGo, Gone, Early, TypeOK
  <2>5. CASE GoEnded(m)
    <3>1. /\ ~Alive(m)'
          /\ \A k \in Gens \ {m} : app'[k] = app[k]
      <4>1. CASE Ended(m)
        BY <2>5, <4>1 DEF GoEnded, Ended, Alive
      <4>2. CASE ~Ended(m)
        BY <2>5, <4>2 DEF GoEnded, Ends, Alive, TypeOK, GoTypeOK
      <4> QED
        BY <4>1, <4>2
    <3>2. mpc' = [mpc EXCEPT ![m] = "gone"] /\ mpc[m] = "wait"
          /\ UNCHANGED <<lost, started>>
      BY <2>5 DEF GoEnded
    <3> QED
      BY <3>1, <3>2 DEF Stages, NoOrphanGo, Gone, Alive, Early, TypeOK
  <2> QED
    BY <1>4, <2>1, <2>2, <2>3, <2>4, <2>5 DEF MasterNext
<1>5. ASSUME NEW m \in Gens, NEW g \in Gens, Accept(m, g)
      PROVE  Stages'
  BY <1>1, <1>2, <1>5 DEF Accept
<1>6. ASSUME NEW m \in Gens, MasterKilled(m)
      PROVE  Stages'
  BY <1>6 DEF MasterKilled, Stages, NoOrphanGo, Gone, Alive, Early, TypeOK
<1>7. ASSUME NEW m \in Gens, GoKilled(m) \/ GoStopped(m)
      PROVE  Stages'
  <2>1. Kept
    BY <1>7, EndsStages, TerminateStages DEF GoKilled, GoStopped, Alive
  <2> QED
    BY <1>1, <1>7, <2>1 DEF GoKilled, GoStopped
<1>8. ASSUME NEW m \in Gens, Signal(m), UNCHANGED <<goVars, lost, started>>,
             mpc[m] # "off"
      PROVE  Stages'
  BY <1>8 DEF Signal, Stages, NoOrphanGo, Gone, Alive, Early, TypeOK
<1>9. ASSUME NEW m \in Gens, MasterStopped(m)
      PROVE  Stages'
  BY <1>8, <1>9 DEF MasterStopped
<1>10. CASE StopCurrentRuntime
  <2>1. CASE pidFile = Nobody
    BY <1>1, <1>2, <1>10, <2>1 DEF StopCurrentRuntime
  <2>2. CASE pidFile \in Gens
    <3>1. Signal(pidFile)
      BY <1>10, <2>2, GenerationsAreNumbered DEF StopCurrentRuntime
    <3> QED
      BY <1>10, <2>2, <3>1 DEF StopCurrentRuntime, Signal, Stages, NoOrphanGo,
         Gone, Alive, Early, TypeOK
  <2> QED
    BY <2>1, <2>2 DEF TypeOK
<1>11. CASE StartRuntime
  <2>1. mpc' = [mpc EXCEPT ![started + 1] = "boot"] /\ started' = started + 1
        /\ UNCHANGED <<goVars, lost>>
    BY <1>11 DEF StartRuntime
  <2>2. started \in Nat /\ \A g \in Gens : g \in Nat
    BY GenerationsAreNumbered DEF TypeOK
  <2>3. ASSUME NEW g \in Gens
        PROVE  /\ g > started' => mpc'[g] = "off"
               /\ mpc'[g] \in Early => app'[g] = "off"
               /\ Gone(g)' /\ ~lost'[g] => ~Alive(g)'
    BY <2>1, <2>2 DEF Stages, NoOrphanGo, Gone, Alive, Early, TypeOK
  <2> QED
    BY <2>3 DEF Stages, NoOrphanGo
<1>12. CASE WaitForPid
  BY <1>1, <1>2, <1>12 DEF WaitForPid
<1>13. CASE UNCHANGED vars
  BY <1>1, <1>2, <1>13 DEF vars
<1> QED
  BY <1>3, <1>4, <1>5, <1>6, <1>7, <1>9, <1>10, <1>11, <1>12, <1>13
     DEF Next, By

-----------------------------------------------------------------------------
(* The services of a process. *)

(* A process that ends has nothing in hand and is cancelled. *)
LEMMA EndsServices ==
  ASSUME TypeOK, Services, NEW g \in Gens,
         NEW how \in {"exited", "failed", "killed"}, Ends(g, how)
  PROVE  Services'
<1>1. ASSUME NEW k \in Gens
      PROVE  /\ app'[k] \in {"off", "load"} =>
                  http'[k] = "start" /\ admin'[k] = "start"
             /\ http'[k] = "serving" => Up(k)'
             /\ http'[k] = "closed" => ctx'[k]
             /\ app'[k] = "drain" => ctx'[k]
             /\ call'[k] # "none" => sched'[k] = "tick"
             /\ task'[k] # "none" => sched'[k] \notin {"returned", "failed"}
  BY DEF Ends, Services, Up, TypeOK, GoTypeOK
<1> QED
  BY <1>1 DEF Services

(* A signal cancels a process, or ends it before its services run. *)
LEMMA TerminateServices ==
  ASSUME TypeOK, Services, NEW g \in Gens, Terminate(g)
  PROVE  Services'
<1>1. CASE app[g] = "load"
  BY <1>1, EndsServices DEF Terminate
<1>2. CASE app[g] # "load"
  BY <1>2 DEF Terminate, Services, Up, TypeOK, GoTypeOK
<1> QED
  BY <1>1, <1>2

(* An answer, or the end of a connection, comes only to who has called.    *)
LEMMA ResetServices ==
  ASSUME TypeOK, Services, NEW m \in Gens, Reset(m),
         UNCHANGED <<app, ctx, http, admin, sched, task>>
  PROVE  Services'
BY DEF Reset, Services, Up, TypeOK, GoTypeOK

(* Every step keeps Services. *)
LEMMA ServicesStep ==
  ASSUME TypeOK, Stages, Services, [Next]_vars
  PROVE  Services'
<1> USE DEF goVars, cmdVars, masterVars, Goto
<1>1. ASSUME UNCHANGED <<app, ctx, http, admin, sched, call, task>>
      PROVE  Services'
  BY <1>1 DEF Services, Up
<1>2. ASSUME NEW g \in Gens, Tick(g, Listening)
      PROVE  Services'
  BY <1>2 DEF Tick, Services, Up, TypeOK, GoTypeOK
<1>3. ASSUME NEW g \in Gens, SchedNext(g) \/ SeeCancel(g) \/ TaskNext(g)
      PROVE  Services'
  BY <1>3 DEF SchedNext, TickAnswered, NextTick, Drained, SeeCancel, TaskNext,
     TaskEnds, TaskReported, Services, Up, TypeOK, GoTypeOK
<1>4. ASSUME NEW g \in Gens, PoolNext(g) \/ AdminNext(g)
      PROVE  Services'
  <2>1. CASE PoolNext(g)
    BY <1>1, <2>1 DEF PoolNext, PoolBoot, PoolStop
  <2>2. CASE AdminNext(g)
    BY <2>2 DEF AdminNext, AdminPrepare, AdminListen, AdminClose, Services, Up,
       TypeOK, GoTypeOK
  <2> QED
    BY <1>4, <2>1, <2>2
<1>5. ASSUME NEW g \in Gens, HttpNext(g)
      PROVE  Services'
  BY <1>5 DEF HttpNext, ListenAndServe, CloseHttp, Services, Up, TypeOK, GoTypeOK
<1>6. ASSUME NEW g \in Gens, AppNext(g)
      PROVE  Services'
  <2>1. CASE Load(g) \/ SeeCancelled(g)
    BY <2>1 DEF Load, SeeCancelled, Services, Up, TypeOK, GoTypeOK
  <2>2. CASE LoadFails(g) \/ SeeDone(g) \/ SeeError(g)
    BY <2>2, EndsServices DEF LoadFails, SeeDone, SeeError
  <2> QED
    BY <1>6, <2>1, <2>2 DEF AppNext
<1>7. ASSUME NEW m \in Gens, MasterNext(m) \/ LeaveLoop(m)
      PROVE  Services'
  <2>1. CASE PersistPid(m) \/ BootSignals(m) \/ PrepareEndpoint(m) \/ Bind(m)
             \/ LeaveLoop(m) \/ CleanupEndpoint(m) \/ CheckPid(m)
             \/ RemovePid(m)
    BY <1>1, <2>1 DEF PersistPid, BootSignals, PrepareEndpoint, Bind, LeaveLoop,
       CleanupEndpoint, CheckPid, RemovePid
  <2>2. CASE StartGoProcess(m)
    BY <2>2 DEF StartGoProcess, Services, Stages, Early, Up, TypeOK, GoTypeOK
  <2>3. CASE HandleClient(m)
    <3>1. UNCHANGED <<app, ctx, http, admin, sched, task>>
      BY <2>3 DEF HandleClient
    <3>2. \A g \in Gens : call'[g] # "none" => call[g] # "none"
      <4>1. PICK answer :
              call' = [call EXCEPT ![serving[m]] =
                         IF @ = "sent" THEN answer ELSE @]
        BY <2>3 DEF HandleClient
      <4> QED
        BY <4>1 DEF TypeOK, GoTypeOK
    <3> QED
      BY <3>1, <3>2 DEF Services, Up
  <2>4. CASE CloseServer(m)
    BY <2>4, ResetServices DEF CloseServer
  <2>5. CASE StopGo(m) \/ GoEnded(m)
    BY <1>1, <2>5, EndsServices, TerminateServices DEF StopGo, GoEnded
  <2> QED
    BY <1>7, <2>1, <2>2, <2>3, <2>4, <2>5 DEF MasterNext
<1>8. ASSUME NEW m \in Gens, NEW g \in Gens, Accept(m, g)
      PROVE  Services'
  BY <1>1, <1>8 DEF Accept
<1>9. ASSUME NEW m \in Gens, MasterKilled(m) \/ GoKilled(m)
      PROVE  Services'
  BY <1>9, ResetServices, EndsServices DEF MasterKilled, GoKilled
<1>10. ASSUME NEW m \in Gens, MasterStopped(m) \/ GoStopped(m)
      PROVE  Services'
  BY <1>1, <1>10, TerminateServices DEF MasterStopped, GoStopped
<1>11. CASE StopCurrentRuntime \/ StartRuntime \/ WaitForPid
  BY <1>1, <1>11 DEF StopCurrentRuntime, StartRuntime, WaitForPid
<1>12. CASE UNCHANGED vars
  BY <1>1, <1>12 DEF vars
<1> QED
  BY <1>2, <1>3, <1>4, <1>5, <1>6, <1>7, <1>8, <1>9, <1>10, <1>11, <1>12
     DEF Next, By, ByGo

-----------------------------------------------------------------------------
(* Generations that do not overlap. *)

(* Whoever is there is the last generation. *)
LEMMA Sole ==
  ASSUME TypeOK, Stages, Retired, NEW g \in Gens,
         Alive(g) \/ mpc[g] \notin {"off", "gone"}
  PROVE  g = started
BY GenerationsAreNumbered DEF TypeOK, Stages, Retired, Gone, Alive, Early

(* The last generation hands over nothing to the ones before it.           *)
LEMMA RetiredStep ==
  ASSUME TypeOK, Stages, Retired, [Next]_vars, ~overlap'
  PROVE  Retired'
<1> USE DEF goVars, cmdVars, masterVars, Goto
<1>1. ASSUME \A k \in Gens : /\ Gone(k) => Gone(k)'
                             /\ Gone(k) /\ ~Alive(k) => ~Alive(k)',
             started' = started
      PROVE  Retired'
  BY <1>1 DEF Retired
<1>2. ASSUME UNCHANGED <<app, started>>,
             \A k \in Gens : mpc[k] = "gone" => mpc'[k] = "gone"
      PROVE  Retired'
  BY <1>1, <1>2 DEF Gone, Alive
<1>3. ASSUME NEW g \in Gens,
             \/ ByGo(Tick(g, Listening)) \/ ByGo(SchedNext(g))
             \/ ByGo(SeeCancel(g)) \/ ByGo(TaskNext(g)) \/ ByGo(PoolNext(g))
             \/ ByGo(HttpNext(g)) \/ ByGo(AdminNext(g)) \/ ByGo(AppNext(g))
      PROVE  Retired'
  <2>1. \A k \in Gens : ~Alive(k) => ~Alive(k)'
    BY <1>3, StagesGo
  <2>2. UNCHANGED <<mpc, started>>
    BY <1>3 DEF ByGo
  <2> QED
    BY <1>1, <2>1, <2>2 DEF Gone
<1>4. ASSUME NEW m \in Gens, MasterNext(m) \/ LeaveLoop(m)
      PROVE  Retired'
  <2>1. CASE PersistPid(m) \/ BootSignals(m) \/ PrepareEndpoint(m) \/ Bind(m)
             \/ LeaveLoop(m) \/ CleanupEndpoint(m) \/ CheckPid(m)
             \/ RemovePid(m) \/ CloseServer(m) \/ HandleClient(m)
    BY <1>2, <2>1 DEF PersistPid, BootSignals, PrepareEndpoint, Bind, LeaveLoop,
       CleanupEndpoint, CheckPid, RemovePid, CloseServer, HandleClient, TypeOK
  <2>2. CASE StartGoProcess(m)
    <3>1. mpc[m] = "spawn" /\ mpc' = [mpc EXCEPT ![m] = "loop"]
          /\ app' = [app EXCEPT ![m] = "load"] /\ started' = started
      BY <2>2 DEF StartGoProcess
    <3> QED
      BY <1>1, <3>1 DEF Gone, Alive, TypeOK, GoTypeOK
  <2>3. CASE StopGo(m)
    <3>1. \A k \in Gens : ~Alive(k) => ~Alive(k)'
      <4>1. CASE app' = app
        BY <4>1 DEF Alive
      <4>2. CASE Terminate(m)
        BY <4>2, TerminateStages
      <4> QED
        BY <2>3, <4>1, <4>2 DEF StopGo
    <3>2. mpc[m] = "stop" /\ started' = started
          /\ mpc' = [mpc EXCEPT ![m] = IF Ended(m) THEN "gone" ELSE "wait"]
      BY <2>3 DEF StopGo
    <3> QED
      BY <1>1, <3>1, <3>2 DEF Gone, TypeOK
  <2>4. CASE GoEnded(m)
    <3>1. mpc[m] = "wait" /\ mpc' = [mpc EXCEPT ![m] = "gone"]
          /\ started' = started
          /\ \A k \in Gens \ {m} : app'[k] = app[k]
      BY <2>4 DEF GoEnded, Ends, TypeOK, GoTypeOK
    <3> QED
      BY <1>1, <3>1 DEF Gone, Alive, TypeOK
  <2> QED
    BY <1>4, <2>1, <2>2, <2>3, <2>4 DEF MasterNext
<1>5. ASSUME NEW m \in Gens, NEW g \in Gens, Accept(m, g)
      PROVE  Retired'
  BY <1>2, <1>5 DEF Accept
<1>6. ASSUME NEW m \in Gens, MasterKilled(m) \/ MasterStopped(m)
      PROVE  Retired'
  BY <1>2, <1>6 DEF MasterKilled, MasterStopped, Signal, TypeOK
<1>7. ASSUME NEW m \in Gens, GoKilled(m) \/ GoStopped(m)
      PROVE  Retired'
  <2>1. \A k \in Gens : ~Alive(k) => ~Alive(k)'
    BY <1>7, EndsStages, TerminateStages DEF GoKilled, GoStopped, Alive
  <2> QED
    BY <1>1, <1>7, <2>1 DEF GoKilled, GoStopped, Gone
<1>8. CASE StopCurrentRuntime
  <2>1. pidFile = Nobody \/ pidFile \in Gens
    BY DEF TypeOK
  <2> QED
    BY <1>2, <1>8, <2>1 DEF StopCurrentRuntime, Signal, TypeOK
<1>9. CASE StartRuntime
  <2>1. mpc' = [mpc EXCEPT ![started + 1] = "boot"] /\ started' = started + 1
        /\ app' = app
    BY <1>9 DEF StartRuntime
  <2>2. \A g \in Gens : g <= started => Gone(g) /\ ~Alive(g)
    BY <1>9 DEF StartRuntime
  <2>3. started \in Nat /\ \A g \in Gens : g \in Nat
    BY GenerationsAreNumbered DEF TypeOK
  <2> QED
    BY <2>1, <2>2, <2>3 DEF Retired, Gone, Alive, TypeOK
<1>10. CASE WaitForPid \/ UNCHANGED vars
  BY <1>2, <1>10 DEF WaitForPid, vars
<1> QED
  BY <1>3, <1>4, <1>5, <1>6, <1>7, <1>8, <1>9, <1>10 DEF Next, By

(* The names follow the last generation. *)
LEMMA NamesGo ==
  ASSUME TypeOK, Stages, Services, Retired, Names, NEW g \in Gens,
         \/ ByGo(Tick(g, Listening)) \/ ByGo(SchedNext(g)) \/ ByGo(SeeCancel(g))
         \/ ByGo(TaskNext(g)) \/ ByGo(PoolNext(g)) \/ ByGo(HttpNext(g))
         \/ ByGo(AdminNext(g)) \/ ByGo(AppNext(g))
  PROVE  Names'
<1> USE GenerationsAreNumbered DEF ByGo, masterVars
<1>0. UNCHANGED <<mpc, pidFile, sock, started>>
  BY DEF cmdVars
<1>1. \A k \in Gens : Up(k) => k = started
  BY Sole DEF Up, Alive
<1>2. CASE ByGo(Tick(g, Listening)) \/ ByGo(SchedNext(g)) \/ ByGo(SeeCancel(g))
           \/ ByGo(TaskNext(g)) \/ ByGo(PoolNext(g))
  BY <1>0, <1>2 DEF Tick, SchedNext, TickAnswered, NextTick, Drained, SeeCancel,
     TaskNext, TaskEnds, TaskReported, PoolNext, PoolBoot, PoolStop, Names, Up
<1>3. CASE ByGo(HttpNext(g))
  <2>1. CASE CloseHttp(g)
    BY <1>0, <2>1 DEF CloseHttp, Names, Up, TypeOK, GoTypeOK
  <2>2. CASE ListenAndServe(g)
    <3>1. port = Nobody
      BY <1>1, <2>2 DEF ListenAndServe, Services, TypeOK, GoTypeOK
    <3> QED
      BY <1>0, <2>2, <3>1 DEF ListenAndServe, Names, Up, TypeOK, GoTypeOK
  <2> QED
    BY <1>3, <2>1, <2>2 DEF HttpNext
<1>4. CASE ByGo(AdminNext(g))
  <2>1. Up(g) /\ UNCHANGED <<app, http>>
    BY <1>4 DEF AdminNext, AdminPrepare, AdminListen, AdminClose
  <2>2. \A k \in Gens : Up(k) => k = g
    BY <1>1, <2>1
  <2>3. admin[g] = "listen" => gwSock = Nobody
    BY <2>1 DEF Names
  <2> QED
    BY <1>0, <1>4, <2>1, <2>2, <2>3
       DEF AdminNext, AdminPrepare, AdminListen, AdminClose, Names, Up, TypeOK,
           GoTypeOK
<1>5. CASE ByGo(AppNext(g))
  <2>1. CASE Load(g)
    <3>1. admin[g] \notin {"listen", "up"} /\ http[g] # "failed"
      BY <2>1 DEF Load, Services
    <3> QED
      BY <1>0, <2>1, <3>1 DEF Load, Names, Up, TypeOK, GoTypeOK
  <2>2. CASE SeeCancelled(g)
    BY <1>0, <2>2 DEF SeeCancelled, Names, Up, TypeOK, GoTypeOK
  <2>3. CASE LoadFails(g) \/ SeeDone(g) \/ SeeError(g)
    BY <1>0, <2>3 DEF LoadFails, SeeDone, SeeError, Ends, Names, Up,
       TypeOK, GoTypeOK
  <2> QED
    BY <1>5, <2>1, <2>2, <2>3 DEF AppNext
<1> QED
  BY <1>2, <1>3, <1>4, <1>5

(* Masters: only the last one is not gone, and it keeps the names it has   *)
(* taken until it leaves its loop.                                         *)
LEMMA NamesMaster ==
  ASSUME TypeOK, Stages, Services, Retired, Names, NEW m \in Gens,
         MasterNext(m) \/ LeaveLoop(m) \/ \E g \in Gens : Accept(m, g)
  PROVE  Names'
<1> USE GenerationsAreNumbered DEF goVars, cmdVars, Goto
<1>1. ASSUME mpc[m] \notin {"off", "gone"}
      PROVE  \A k \in Gens \ {m} : mpc[k] \in {"off", "gone"}
  BY <1>1, Sole
<1>2. CASE PersistPid(m) \/ BootSignals(m) \/ PrepareEndpoint(m) \/ Bind(m)
  <2>1. UNCHANGED <<app, admin, http, gwSock>> /\ mpc[m] \notin {"off", "gone"}
    BY <1>2 DEF PersistPid, BootSignals, PrepareEndpoint, Bind
  <2>2. mpc[m] \in {"boot", "pid", "prepare", "bind"}
        /\ \A k \in Gens \ {m} : mpc'[k] = mpc[k]
    BY <1>2 DEF PersistPid, BootSignals, PrepareEndpoint, Bind, TypeOK
  <2> QED
    BY <1>1, <1>2, <2>1, <2>2
       DEF PersistPid, BootSignals, PrepareEndpoint, Bind, Names, Up, TypeOK
<1>3. CASE LeaveLoop(m) \/ CleanupEndpoint(m) \/ CheckPid(m) \/ RemovePid(m)
           \/ CloseServer(m)
  <2>1. UNCHANGED <<app, admin, http, gwSock>> /\ mpc[m] \notin {"off", "gone"}
    BY <1>3 DEF LeaveLoop, CleanupEndpoint, CheckPid, RemovePid, CloseServer
  <2>2. mpc'[m] \notin {"pid", "prepare", "bind", "spawn", "loop"}
        /\ \A k \in Gens \ {m} : mpc'[k] = mpc[k]
    BY <1>3 DEF LeaveLoop, CleanupEndpoint, CheckPid, RemovePid, CloseServer,
       TypeOK
  <2> QED
    BY <1>1, <2>1, <2>2 DEF Names, Up
<1>4. CASE StartGoProcess(m)
  <2>1. mpc[m] = "spawn" /\ mpc' = [mpc EXCEPT ![m] = "loop"]
        /\ app' = [app EXCEPT ![m] = "load"]
        /\ UNCHANGED <<admin, http, gwSock, sock, pidFile>>
    BY <1>4 DEF StartGoProcess
  <2> QED
    BY <2>1 DEF Names, Up, TypeOK, GoTypeOK
<1>5. CASE HandleClient(m) \/ \E g \in Gens : Accept(m, g)
  BY <1>5 DEF HandleClient, Accept, Names, Up
<1>6. CASE StopGo(m) \/ GoEnded(m)
  <2>1. /\ UNCHANGED <<sock, pidFile>>
        /\ mpc'[m] \notin {"pid", "prepare", "bind", "spawn", "loop"}
        /\ \A k \in Gens \ {m} : mpc'[k] = mpc[k]
    BY <1>6 DEF StopGo, GoEnded, TypeOK
  <2>2. /\ gwSock' = gwSock
        /\ \A k \in Gens : Up(k)' => /\ Up(k) /\ admin'[k] = admin[k]
                                     /\ http'[k] = http[k]
    BY <1>6 DEF StopGo, GoEnded, Terminate, Ends, Up, TypeOK, GoTypeOK
  <2> QED
    BY <2>1, <2>2 DEF Names
<1> QED
  BY <1>2, <1>3, <1>4, <1>5, <1>6 DEF MasterNext

(* Signals and kills take no name; a new generation has none yet.          *)
LEMMA NamesOutside ==
  ASSUME TypeOK, Stages, Services, Retired, Names, NEW m \in Gens,
         \/ MasterKilled(m) \/ GoKilled(m) \/ MasterStopped(m) \/ GoStopped(m)
         \/ StopCurrentRuntime \/ StartRuntime \/ WaitForPid
  PROVE  Names'
<1> USE DEF goVars, cmdVars, masterVars
<1>1. UNCHANGED <<sock, pidFile, gwSock>>
  BY DEF MasterKilled, GoKilled, MasterStopped, GoStopped, StopCurrentRuntime,
     StartRuntime, WaitForPid, Ends, Terminate
<1>2. ASSUME NEW k \in Gens
      PROVE  mpc'[k] = mpc[k] \/ mpc'[k] \in {"gone", "boot"}
  <2>1. pidFile = Nobody \/ pidFile \in Gens
    BY DEF TypeOK
  <2> QED
    BY <2>1 DEF MasterKilled, GoKilled, MasterStopped, GoStopped,
       StopCurrentRuntime, StartRuntime, WaitForPid, Signal, TypeOK
<1>3. ASSUME NEW k \in Gens, Up(k)'
      PROVE  Up(k) /\ admin'[k] = admin[k] /\ http'[k] = http[k]
  <2>1. CASE GoKilled(m) \/ GoStopped(m)
    BY <1>3, <2>1 DEF GoKilled, GoStopped, Terminate, Ends, Up, TypeOK, GoTypeOK
  <2>2. CASE ~(GoKilled(m) \/ GoStopped(m))
    BY <1>3, <2>2 DEF MasterKilled, MasterStopped, StopCurrentRuntime,
       StartRuntime, WaitForPid, Up
  <2> QED
    BY <2>1, <2>2
<1> QED
  BY <1>1, <1>2, <1>3 DEF Names

-----------------------------------------------------------------------------
(* Clients. *)

(* A connection is made to the socket the path names, which is the         *)
(* caller's own master's while generations do not overlap.                 *)
LEMMA ClientsStep ==
  ASSUME TypeOK, Stages, Services, Retired, Clients, [Next]_vars
  PROVE  Clients'
<1> USE GenerationsAreNumbered DEF goVars, cmdVars, masterVars, Goto
<1>1. ASSUME UNCHANGED <<backlog, serving>>
      PROVE  Clients'
  BY <1>1 DEF Clients
<1>2. ASSUME NEW g \in Gens, ByGo(Tick(g, Listening))
      PROVE  Clients'
  <2>1. CASE Refused(g, Listening)
    BY <1>1, <1>2, <2>1 DEF Tick, ByGo
  <2>2. CASE ~Refused(g, Listening)
    <3>1. sock \in Gens /\ mpc[sock] \notin {"off", "gone"}
      BY <2>2 DEF Refused, Listening
    <3>2. Alive(g)
      BY <1>2 DEF ByGo, Tick, Up, Alive
    <3>3. sock = g
      BY <3>1, <3>2, Sole
    <3>4. backlog' = [backlog EXCEPT ![g] = @ \cup {g}] /\ serving' = serving
      BY <1>2, <2>2, <3>3 DEF Tick, ByGo
    <3> QED
      BY <3>4 DEF Clients, TypeOK, GoTypeOK
  <2> QED
    BY <2>1, <2>2
<1>3. ASSUME NEW g \in Gens,
             \/ ByGo(SchedNext(g)) \/ ByGo(SeeCancel(g)) \/ ByGo(TaskNext(g))
             \/ ByGo(PoolNext(g)) \/ ByGo(HttpNext(g)) \/ ByGo(AdminNext(g))
      PROVE  Clients'
  BY <1>1, <1>3 DEF ByGo, SchedNext, TickAnswered, NextTick, Drained, SeeCancel,
     TaskNext, TaskEnds, TaskReported, PoolNext, PoolBoot, PoolStop, HttpNext,
     ListenAndServe, CloseHttp, AdminNext, AdminPrepare, AdminListen, AdminClose
<1>4. ASSUME NEW g \in Gens, NEW how, Ends(g, how), serving' = serving
      PROVE  Clients'
  BY <1>4 DEF Ends, Clients, TypeOK, GoTypeOK
<1>5. ASSUME NEW g \in Gens, ByGo(AppNext(g))
      PROVE  Clients'
  BY <1>1, <1>4, <1>5 DEF ByGo, AppNext, Load, LoadFails, SeeCancelled, SeeDone,
     SeeError
<1>6. ASSUME NEW m \in Gens, Reset(m)
      PROVE  Clients'
  BY <1>6 DEF Reset, Clients, TypeOK, GoTypeOK
<1>7. ASSUME NEW g \in Gens, Terminate(g), serving' = serving
      PROVE  Clients'
  BY <1>1, <1>4, <1>7 DEF Terminate
<1>8. ASSUME NEW m \in Gens, MasterNext(m) \/ LeaveLoop(m)
      PROVE  Clients'
  <2>1. CASE PersistPid(m) \/ BootSignals(m) \/ PrepareEndpoint(m) \/ Bind(m)
             \/ LeaveLoop(m) \/ CleanupEndpoint(m) \/ CheckPid(m)
             \/ RemovePid(m) \/ StartGoProcess(m)
    BY <1>1, <2>1 DEF PersistPid, BootSignals, PrepareEndpoint, Bind, LeaveLoop,
       CleanupEndpoint, CheckPid, RemovePid, StartGoProcess
  <2>2. CASE HandleClient(m)
    BY <2>2 DEF HandleClient, Clients, TypeOK
  <2>3. CASE CloseServer(m)
    BY <1>6, <2>3 DEF CloseServer
  <2>4. CASE StopGo(m) \/ GoEnded(m)
    BY <1>1, <1>4, <1>7, <2>4 DEF StopGo, GoEnded
  <2> QED
    BY <1>8, <2>1, <2>2, <2>3, <2>4 DEF MasterNext
<1>9. ASSUME NEW m \in Gens, NEW g \in Gens, Accept(m, g)
      PROVE  Clients'
  BY <1>9 DEF Accept, Clients, TypeOK, GoTypeOK
<1>10. ASSUME NEW m \in Gens, \/ MasterKilled(m) \/ GoKilled(m)
                              \/ MasterStopped(m) \/ GoStopped(m)
       PROVE  Clients'
  BY <1>1, <1>4, <1>6, <1>7, <1>10
     DEF MasterKilled, GoKilled, MasterStopped, GoStopped
<1>11. CASE StopCurrentRuntime \/ StartRuntime \/ WaitForPid \/ UNCHANGED vars
  BY <1>1, <1>11 DEF StopCurrentRuntime, StartRuntime, WaitForPid, vars
<1> QED
  BY <1>2, <1>3, <1>5, <1>8, <1>9, <1>10, <1>11 DEF Next, By

-----------------------------------------------------------------------------
(* The theorems. *)

(* No step forgets an overlap. *)
LEMMA OverlapStays ==
  ASSUME TypeOK, [Next]_vars, overlap
  PROVE  overlap'
BY DEF Next, By, ByGo, cmdVars, MasterNext, PersistPid, BootSignals,
   PrepareEndpoint, Bind, StartGoProcess, HandleClient, CloseServer,
   CleanupEndpoint, CheckPid, RemovePid, StopGo, GoEnded, LeaveLoop, Accept,
   MasterKilled, GoKilled, MasterStopped, GoStopped, StopCurrentRuntime,
   StartRuntime, WaitForPid, vars

(* Every step keeps Names. *)
LEMMA NamesStep ==
  ASSUME TypeOK, Stages, Services, Retired, Names, [Next]_vars
  PROVE  Names'
<1>1. CASE UNCHANGED vars
  BY <1>1 DEF vars, goVars, masterVars, Names, Up
<1> QED
  BY <1>1, NamesGo, NamesMaster, NamesOutside, GenerationsAreNumbered
     DEF Next, By

(* IInv is inductive. *)
LEMMA InvStep == IInv /\ [Next]_vars => IInv'
BY TypeStep, StagesStep, ServicesStep, OverlapStays, RetiredStep, NamesStep,
   ClientsStep DEF IInv, Handover

(* IInv holds in every reachable state. *)
LEMMA Invariance == Spec => []IInv
BY InitInv, InvStep, PTL DEF Spec

(* Every variable stays in its type, and the port is with the process that *)
(* serves it.                                                              *)
THEOREM TypeCorrect == Spec => []TypeOK
<1>1. IInv => TypeOK
  BY DEF IInv
<1> QED
  BY <1>1, Invariance, PTL

(* A Go process outlives its master only if the master was killed.         *)
THEOREM NoOrphans == Spec => []NoOrphanGo
<1>1. IInv => NoOrphanGo
  BY DEF IInv, Stages
<1> QED
  BY <1>1, Invariance, PTL

(* Generations that do not overlap have the pid file, the sockets and      *)
(* their clients to themselves, whatever crashed before them.              *)
THEOREM HandoverIsClean == Spec => []CleanHandover
<1>1. IInv => CleanHandover
  BY DEF IInv, Handover, Names, Clients, CleanHandover
<1> QED
  BY <1>1, Invariance, PTL

(* And what an earlier one left never keeps the next from starting.        *)
THEOREM StartsFresh == Spec => []FreshStart
<1>1. IInv => FreshStart
  BY DEF IInv, Handover, Names, FreshStart
<1> QED
  BY <1>1, Invariance, PTL

(* Only SeeDone ends a process without an error. *)
LEMMA ExitStep ==
  ASSUME IInv, [Next]_vars, NEW g \in Gens,
         app[g] # "exited", app'[g] = "exited"
  PROVE  ctx[g] /\ task[g] = "none" /\ call[g] = "none"
<1> USE DEF goVars, cmdVars, masterVars
<1>1. TypeOK /\ Services /\ Stages
  BY DEF IInv
<1>2. PICK k \in Gens : SeeDone(k)
  <2>1. app' # app
    OBVIOUS
  <2>2. ASSUME NEW k \in Gens, Ends(k, "failed") \/ Ends(k, "killed")
        PROVE  FALSE
    BY <1>1, <2>2 DEF Ends, TypeOK, GoTypeOK
  <2>3. ASSUME NEW k \in Gens, Terminate(k)
        PROVE  FALSE
    BY <2>1, <2>2, <2>3 DEF Terminate
  <2>4. ASSUME NEW k \in Gens,
               \/ Tick(k, Listening) \/ SchedNext(k) \/ SeeCancel(k)
               \/ TaskNext(k) \/ PoolNext(k) \/ HttpNext(k) \/ AdminNext(k)
        PROVE  FALSE
    BY <2>1, <2>4 DEF Tick, SchedNext, TickAnswered, NextTick, Drained,
       SeeCancel, TaskNext, TaskEnds, TaskReported, PoolNext, PoolBoot,
       PoolStop, HttpNext, ListenAndServe, CloseHttp, AdminNext, AdminPrepare,
       AdminListen, AdminClose
  <2>5. ASSUME NEW k \in Gens, AppNext(k)
        PROVE  SeeDone(k)
    <3>1. ~Load(k) /\ ~SeeCancelled(k)
      BY <1>1 DEF Load, SeeCancelled, TypeOK, GoTypeOK
    <3> QED
      BY <2>2, <2>5, <3>1 DEF AppNext, LoadFails, SeeError
  <2>6. ASSUME NEW m \in Gens, \/ MasterNext(m) \/ LeaveLoop(m)
                               \/ \E k \in Gens : Accept(m, k)
        PROVE  FALSE
    <3>1. ~StartGoProcess(m)
      BY <1>1 DEF StartGoProcess, TypeOK, GoTypeOK
    <3>2. ~StopGo(m) /\ ~GoEnded(m)
      BY <2>1, <2>2, <2>3 DEF StopGo, GoEnded
    <3> QED
      BY <2>1, <2>6, <3>1, <3>2 DEF MasterNext, PersistPid, BootSignals,
         PrepareEndpoint, Bind, HandleClient, CloseServer, CleanupEndpoint,
         CheckPid, RemovePid, LeaveLoop, Accept
  <2>7. ASSUME NEW m \in Gens, \/ MasterKilled(m) \/ GoKilled(m)
                               \/ MasterStopped(m) \/ GoStopped(m)
        PROVE  FALSE
    BY <2>1, <2>2, <2>3, <2>7 DEF MasterKilled, GoKilled, MasterStopped, GoStopped
  <2>8. ~(StopCurrentRuntime \/ StartRuntime \/ WaitForPid \/ UNCHANGED vars)
    BY <2>1 DEF StopCurrentRuntime, StartRuntime, WaitForPid, vars
  <2> QED
    BY <2>4, <2>5, <2>6, <2>7, <2>8 DEF Next, By, ByGo
<1>3. k = g
  BY <1>1, <1>2 DEF SeeDone, Ends, TypeOK, GoTypeOK
<1>4. AllReturned(g) /\ Up(g) /\ (app[g] = "up" => ~SomeFailed(g))
  BY <1>1, <1>2, <1>3 DEF SeeDone, Ends, TypeOK, GoTypeOK
<1>5. task[g] = "none" /\ call[g] = "none"
  BY <1>1, <1>4 DEF AllReturned, Services
<1>6. ctx[g]
  BY <1>1, <1>4 DEF Up, AllReturned, SomeFailed, Services
<1> QED
  BY <1>5, <1>6

(* A process that ends without an error was cancelled, and has neither a   *)
(* task in hand nor a call in progress.                                    *)
THEOREM ExitIsDrained == Spec => ExitDrained
<1>1. IInv /\ [Next]_vars =>
        [\A g \in Gens :
           app[g] # "exited" /\ app'[g] = "exited" =>
             ctx[g] /\ task[g] = "none" /\ call[g] = "none"]_vars
  BY ExitStep
<1> QED
  BY <1>1, Invariance, PTL DEF Spec, ExitDrained

-----------------------------------------------------------------------------
(* Calls to a master. *)

(* A call that waits for its answer is with a master whose server is open, *)
(* in its backlog or being served, also when generations overlap: nobody   *)
(* waits for an answer that no one owes.  What CallsEnd needs besides is   *)
(* that the master goes on.                                                *)
CallIsTaken ==
  \A g \in Gens : call[g] = "sent" =>
    \E m \in Listening : g \in backlog[m] \/ serving[m] = g

(* A step that changes neither calls nor masters nor their clients keeps   *)
(* every call taken.                                                       *)
LEMMA TakenSame ==
  ASSUME CallIsTaken, UNCHANGED <<call, backlog, serving, mpc>>
  PROVE  CallIsTaken'
BY DEF CallIsTaken, Listening

(* So does the end of a process: its call ends with it.                    *)
LEMMA TakenEnds ==
  ASSUME TypeOK, CallIsTaken, NEW g \in Gens, NEW how, Ends(g, how),
         UNCHANGED serving, Listening \subseteq Listening'
  PROVE  CallIsTaken'
BY DEF TypeOK, GoTypeOK, CallIsTaken, Listening, Ends

(* And the end of a server, which ends the calls it has.                   *)
LEMMA TakenReset ==
  ASSUME TypeOK, CallIsTaken, NEW m \in Gens, Reset(m),
         Listening \ {m} \subseteq Listening'
  PROVE  CallIsTaken'
<1>1. SUFFICES ASSUME NEW g \in Gens, call'[g] = "sent"
               PROVE  \E k \in Listening' : g \in backlog'[k] \/ serving'[k] = g
  BY DEF CallIsTaken
<1>2. call[g] = "sent" /\ g \notin backlog[m] /\ serving[m] # g
  BY <1>1, GenerationsAreNumbered DEF Reset
<1>3. PICK k \in Listening : g \in backlog[k] \/ serving[k] = g
  BY <1>2 DEF CallIsTaken
<1>4. k # m /\ k \in Gens
  BY <1>2, <1>3 DEF Listening
<1>5. backlog'[k] = backlog[k] /\ serving'[k] = serving[k]
  BY <1>4 DEF Reset, TypeOK, GoTypeOK
<1> QED
  BY <1>3, <1>4, <1>5

(* Every step keeps every call taken. *)
LEMMA TakenStep ==
  ASSUME TypeOK, Stages, CallIsTaken, [Next]_vars
  PROVE  CallIsTaken'
<1> USE GenerationsAreNumbered DEF goVars, cmdVars, masterVars, Goto
<1>1. ASSUME NEW g \in Gens, ByGo(Tick(g, Listening))
      PROVE  CallIsTaken'
  <2>1. CASE Refused(g, Listening)
    BY <1>1, <2>1, TakenSame DEF Tick, ByGo
  <2>2. CASE ~Refused(g, Listening)
    <3>1. sock \in Listening /\ sock \in Gens
      BY <2>2 DEF Refused, Listening
    <3>2. /\ call' = [call EXCEPT ![g] = "sent"]
          /\ backlog' = [backlog EXCEPT ![sock] = @ \cup {g}]
          /\ UNCHANGED <<serving, mpc>>
      BY <1>1, <2>2 DEF Tick, ByGo
    <3>3. /\ \A k \in Gens : backlog[k] \subseteq backlog'[k]
          /\ g \in backlog'[sock]
          /\ \A k \in Gens \ {g} : call'[k] = call[k]
      BY <3>1, <3>2 DEF TypeOK, GoTypeOK
    <3> QED
      BY <3>1, <3>2, <3>3 DEF CallIsTaken, Listening
  <2> QED
    BY <2>1, <2>2
<1>2. ASSUME NEW g \in Gens,
             \/ ByGo(SchedNext(g)) \/ ByGo(SeeCancel(g)) \/ ByGo(TaskNext(g))
             \/ ByGo(PoolNext(g)) \/ ByGo(HttpNext(g)) \/ ByGo(AdminNext(g))
      PROVE  CallIsTaken'
  <2>1. CASE ByGo(TickAnswered(g))
    <3>1. UNCHANGED <<backlog, serving, mpc>> /\ call' = [call EXCEPT ![g] = "none"]
      BY <2>1 DEF TickAnswered, ByGo
    <3> QED
      BY <3>1 DEF CallIsTaken, Listening, TypeOK, GoTypeOK
  <2> QED
    BY <1>2, <2>1, TakenSame DEF ByGo, SchedNext, NextTick, Drained, SeeCancel,
       TaskNext, TaskEnds, TaskReported, PoolNext, PoolBoot, PoolStop, HttpNext,
       ListenAndServe, CloseHttp, AdminNext, AdminPrepare, AdminListen, AdminClose
<1>3. ASSUME NEW g \in Gens, ByGo(AppNext(g))
      PROVE  CallIsTaken'
  <2>1. UNCHANGED <<mpc, serving>> /\ Listening' = Listening
    BY <1>3 DEF ByGo, Listening
  <2> QED
    BY <1>3, <2>1, TakenSame, TakenEnds DEF ByGo, AppNext, Load, LoadFails, SeeCancelled,
       SeeDone, SeeError
<1>4. ASSUME NEW g \in Gens, Terminate(g), UNCHANGED serving,
             Listening \subseteq Listening'
      PROVE  CallIsTaken'
  BY <1>4, TakenEnds DEF Terminate, CallIsTaken
<1>5. ASSUME UNCHANGED <<call, backlog, serving>>, Listening \subseteq Listening'
      PROVE  CallIsTaken'
  BY <1>5 DEF CallIsTaken
<1>6. ASSUME NEW m \in Gens, MasterNext(m) \/ LeaveLoop(m)
      PROVE  CallIsTaken'
  <2>1. CASE PersistPid(m) \/ BootSignals(m) \/ PrepareEndpoint(m) \/ Bind(m)
             \/ LeaveLoop(m) \/ CleanupEndpoint(m) \/ CheckPid(m)
             \/ RemovePid(m) \/ StartGoProcess(m)
    <3>1. Listening \subseteq Listening'
      BY <2>1 DEF Listening, TypeOK, PersistPid, BootSignals, PrepareEndpoint, Bind,
         LeaveLoop, CleanupEndpoint, CheckPid, RemovePid, StartGoProcess
    <3> QED
      BY <1>5, <2>1, <3>1 DEF PersistPid, BootSignals, PrepareEndpoint, Bind,
         LeaveLoop, CleanupEndpoint, CheckPid, RemovePid, StartGoProcess
  <2>2. CASE HandleClient(m)
    <3>1. PICK g \in Gens : g = serving[m]
      BY <2>2 DEF HandleClient, TypeOK
    <3>2. /\ serving' = [serving EXCEPT ![m] = Nobody]
          /\ UNCHANGED <<backlog, mpc>>
          /\ call'[g] # "sent"
          /\ \A k \in Gens \ {g} : call'[k] = call[k]
      BY <2>2, <3>1 DEF HandleClient, Answers, TypeOK, GoTypeOK
    <3> QED
      BY <3>1, <3>2 DEF CallIsTaken, Listening, TypeOK
  <2>3. CASE CloseServer(m)
    <3>1. Reset(m) /\ Listening \ {m} \subseteq Listening'
      BY <2>3 DEF CloseServer, Listening, TypeOK
    <3> QED
      BY <3>1, TakenReset
  <2>4. CASE StopGo(m) \/ GoEnded(m)
    <3>1. Listening \subseteq Listening' /\ UNCHANGED serving
      BY <2>4 DEF StopGo, GoEnded, Listening, TypeOK
    <3> QED
      BY <1>4, <1>5, <2>4, <3>1, TakenEnds DEF StopGo, GoEnded
  <2> QED
    BY <1>6, <2>1, <2>2, <2>3, <2>4 DEF MasterNext
<1>7. ASSUME NEW m \in Gens, NEW g \in Gens, Accept(m, g)
      PROVE  CallIsTaken'
  <2>1. /\ serving[m] = Nobody
        /\ serving' = [serving EXCEPT ![m] = g]
        /\ backlog' = [backlog EXCEPT ![m] = @ \ {g}]
        /\ UNCHANGED <<call, mpc>>
    BY <1>7 DEF Accept
  <2> QED
    BY <2>1 DEF CallIsTaken, Listening, TypeOK, GoTypeOK
<1>8. ASSUME NEW m \in Gens, MasterKilled(m)
      PROVE  CallIsTaken'
  <2>1. Reset(m) /\ Listening \ {m} \subseteq Listening'
    BY <1>8 DEF MasterKilled, Listening, TypeOK
  <2> QED
    BY <2>1, TakenReset
<1>9. ASSUME NEW m \in Gens, GoKilled(m) \/ GoStopped(m)
      PROVE  CallIsTaken'
  <2>1. UNCHANGED <<mpc, serving>> /\ Listening' = Listening
    BY <1>9 DEF GoKilled, GoStopped, Listening
  <2> QED
    BY <1>4, <1>9, <2>1, TakenEnds DEF GoKilled, GoStopped
<1>10. ASSUME NEW m \in Gens, Signal(m), UNCHANGED <<call, backlog, serving>>
       PROVE  CallIsTaken'
  <2>1. Listening \subseteq Listening'
    BY <1>10 DEF Signal, Listening, TypeOK
  <2> QED
    BY <1>5, <1>10, <2>1
<1>11. CASE StopCurrentRuntime
  BY <1>10, <1>11, TakenSame DEF StopCurrentRuntime, TypeOK
<1>12. CASE StartRuntime
  <2>1. Listening \subseteq Listening'
    <3>1. started \in Nat /\ \A g \in Gens : g \in Nat
      BY DEF TypeOK
    <3>2. \A g \in Listening : g # started + 1
      BY <3>1 DEF Stages, Listening
    <3> QED
      BY <1>12, <3>2 DEF StartRuntime, Listening, TypeOK
  <2> QED
    BY <1>5, <1>12, <2>1 DEF StartRuntime
<1>13. CASE WaitForPid \/ UNCHANGED vars
  BY <1>13, TakenSame DEF WaitForPid, vars
<1> QED
  BY <1>1, <1>2, <1>3, <1>6, <1>7, <1>8, <1>9, <1>10, <1>11, <1>12, <1>13
     DEF Next, By, MasterStopped

(* No call is left without a master that has it to answer or to cut.       *)
THEOREM NoCallIsLost == Spec => []CallIsTaken
<1>1. Init => CallIsTaken
  BY DEF Init, GoInit, CallIsTaken
<1>2. IInv /\ CallIsTaken /\ [Next]_vars => CallIsTaken'
  BY TakenStep DEF IInv
<1> QED
  BY <1>1, <1>2, Invariance, PTL DEF Spec

(* RestartServes fails when the restart command starts a generation while  *)
(* the one before is still ending, and only then.                          *)
THEOREM OnlyOverlapUnserved ==
  Spec => [](started \in Gens /\ ~overlap => RestartServes)
<1>1. IInv => (started \in Gens /\ ~overlap => RestartServes)
  BY DEF IInv, Handover, Names, RestartServes
<1> QED
  BY <1>1, Invariance, PTL

-----------------------------------------------------------------------------
(* Lifecycle implements Supervision. *)

(* Supervision's variables, one generation at a time and together. *)
MasterOf(g) == IF mpc[g] \in {"off", "gone"} THEN mpc[g] ELSE "up"
ProcessOf(g) == IF Alive(g) THEN "up" ELSE app[g]
Masters == [g \in Gens |-> MasterOf(g)]
Processes == [g \in Gens |-> ProcessOf(g)]
Told == {g \in Gens : ctx[g]}
Asking == {g \in Gens : call[g] # "none"}
Busy == {g \in Gens : task[g] # "none"}
Lost == {g \in Gens : lost[g]}

(* Generations start one after the other, and a master past its start has  *)
(* started its process.                                                    *)
Begun ==
  \A g \in Gens : /\ g <= started => mpc[g] # "off"
                  /\ mpc[g] \notin Early \cup {"gone"} => app[g] # "off"

(* Begun holds initially. *)
LEMMA BegunInit == Init => Begun
BY GenerationsAreNumbered DEF Init, Begun, Early

(* No step takes a process back to where it was before its start. *)
LEMMA NeverOff ==
  ASSUME TypeOK, [Next]_vars, NEW g \in Gens, app[g] # "off"
  PROVE  app'[g] # "off"
<1> USE DEF goVars, ByGo, By
<1>1. ASSUME NEW k \in Gens, NEW how \in {"exited", "failed", "killed"}, Ends(k, how)
      PROVE  app'[g] # "off"
  BY <1>1 DEF Ends, TypeOK, GoTypeOK
<1>2. ASSUME NEW k \in Gens, Terminate(k)
      PROVE  app'[g] # "off"
  BY <1>1, <1>2 DEF Terminate
<1>3. ASSUME NEW k \in Gens,
             \/ Tick(k, Listening) \/ SchedNext(k) \/ SeeCancel(k)
             \/ TaskNext(k) \/ PoolNext(k) \/ HttpNext(k) \/ AdminNext(k)
      PROVE  app'[g] # "off"
  BY <1>3 DEF Tick, SchedNext, TickAnswered, NextTick, Drained,
     SeeCancel, TaskNext, TaskEnds, TaskReported, PoolNext, PoolBoot,
     PoolStop, HttpNext, ListenAndServe, CloseHttp, AdminNext, AdminPrepare,
     AdminListen, AdminClose
<1>4. ASSUME NEW k \in Gens, AppNext(k)
      PROVE  app'[g] # "off"
  <2>1. CASE Load(k) \/ SeeCancelled(k)
    BY <2>1 DEF Load, SeeCancelled, TypeOK, GoTypeOK
  <2> QED
    BY <1>1, <1>4, <2>1 DEF AppNext, LoadFails, SeeDone, SeeError
<1>5. ASSUME NEW m \in Gens, \/ MasterNext(m) \/ LeaveLoop(m)
                             \/ \E k \in Gens : Accept(m, k)
      PROVE  app'[g] # "off"
  <2>1. CASE StartGoProcess(m)
    BY <2>1 DEF StartGoProcess, TypeOK, GoTypeOK
  <2>2. CASE StopGo(m) \/ GoEnded(m)
    BY <1>1, <1>2, <2>2 DEF StopGo, GoEnded
  <2> QED
    BY <1>5, <2>1, <2>2 DEF MasterNext, PersistPid, BootSignals,
       PrepareEndpoint, Bind, HandleClient, CloseServer, CleanupEndpoint,
       CheckPid, RemovePid, LeaveLoop, Accept
<1>6. ASSUME NEW m \in Gens, \/ MasterKilled(m) \/ GoKilled(m)
                             \/ MasterStopped(m) \/ GoStopped(m)
      PROVE  app'[g] # "off"
  BY <1>1, <1>2, <1>6 DEF MasterKilled, GoKilled, MasterStopped, GoStopped
<1>7. CASE StopCurrentRuntime \/ StartRuntime \/ WaitForPid \/ UNCHANGED vars
  BY <1>7 DEF StopCurrentRuntime, StartRuntime, WaitForPid, vars
<1> QED
  BY <1>3, <1>4, <1>5, <1>6, <1>7 DEF Next

(* Every step keeps Begun. *)
LEMMA BegunStep ==
  ASSUME TypeOK, Begun, [Next]_vars
  PROVE  Begun'
<1> USE DEF goVars, cmdVars, masterVars, Goto, Early
<1>1. \A g \in Gens : app[g] # "off" => app'[g] # "off"
  BY NeverOff
<1>2. ASSUME mpc' = mpc, started' = started
      PROVE  Begun'
  BY <1>1, <1>2 DEF Begun
<1>3. ASSUME NEW g \in Gens,
             \/ ByGo(Tick(g, Listening)) \/ ByGo(SchedNext(g))
             \/ ByGo(SeeCancel(g)) \/ ByGo(TaskNext(g)) \/ ByGo(PoolNext(g))
             \/ ByGo(HttpNext(g)) \/ ByGo(AdminNext(g)) \/ ByGo(AppNext(g))
      PROVE  Begun'
  BY <1>2, <1>3 DEF ByGo
<1>4. ASSUME NEW m \in Gens, MasterNext(m) \/ LeaveLoop(m)
      PROVE  Begun'
  <2>1. CASE HandleClient(m)
    BY <1>2, <2>1 DEF HandleClient
  <2>2. CASE StartGoProcess(m)
    BY <2>2, <1>1 DEF StartGoProcess, Begun, TypeOK, GoTypeOK
  <2>3. CASE ~HandleClient(m) /\ ~StartGoProcess(m)
    BY <1>1, <1>4, <2>3 DEF MasterNext, PersistPid, BootSignals, PrepareEndpoint, Bind, LeaveLoop,
       CleanupEndpoint, CheckPid, RemovePid, CloseServer, StopGo, GoEnded, Begun, TypeOK
  <2> QED
    BY <2>1, <2>2, <2>3
<1>5. ASSUME NEW m \in Gens, NEW g \in Gens, Accept(m, g)
      PROVE  Begun'
  BY <1>2, <1>5 DEF Accept
<1>6. ASSUME NEW m \in Gens, MasterKilled(m)
      PROVE  Begun'
  BY <1>1, <1>6 DEF MasterKilled, Begun, TypeOK
<1>7. ASSUME NEW m \in Gens, GoKilled(m) \/ GoStopped(m)
      PROVE  Begun'
  BY <1>2, <1>7 DEF GoKilled, GoStopped
<1>8. ASSUME NEW m \in Gens, Signal(m), started' = started
      PROVE  Begun'
  BY <1>1, <1>8 DEF Signal, Begun, TypeOK
<1>9. CASE StopCurrentRuntime
  BY <1>2, <1>8, <1>9 DEF StopCurrentRuntime, TypeOK
<1>10. CASE StartRuntime
  <2>1. started \in Nat /\ \A g \in Gens : g \in Nat
    BY GenerationsAreNumbered DEF TypeOK
  <2> QED
    BY <1>1, <1>10, <2>1 DEF StartRuntime, Begun, TypeOK
<1>11. CASE WaitForPid \/ UNCHANGED vars
  BY <1>2, <1>11 DEF WaitForPid, vars
<1> QED
  BY <1>3, <1>4, <1>5, <1>6, <1>7, <1>8, <1>9, <1>10, <1>11
     DEF Next, By, MasterStopped

(* IInv and Begun hold in every reachable state. *)
LEMMA BegunInductive == Spec => [](IInv /\ Begun)
<1>1. IInv => TypeOK
  BY DEF IInv
<1> QED
  BY <1>1, InitInv, InvStep, BegunInit, BegunStep, PTL DEF Spec

-----------------------------------------------------------------------------
(* The initial states are Supervision's. *)
LEMMA SupervisionInit == Init => Supervised!Init
<1> SUFFICES ASSUME Init PROVE Supervised!Init
  OBVIOUS
<1>1. \A g \in Gens : MasterOf(g) = (IF g = 1 THEN "up" ELSE "off")
  BY DEF Init, MasterOf
<1>2. \A g \in Gens : ProcessOf(g) = "off"
  BY DEF Init, GoInit, ProcessOf, Alive
<1>3. Masters = [g \in Gens |-> IF g = 1 THEN "up" ELSE "off"]
  BY <1>1 DEF Masters
<1>4. Processes = [g \in Gens |-> "off"]
  BY <1>2 DEF Processes
<1>5. Told = {} /\ Asking = {} /\ Busy = {} /\ Lost = {}
  BY DEF Init, GoInit, Told, Asking, Busy, Lost
<1> QED
  BY <1>3, <1>4, <1>5 DEF Supervised!Init, Masters, MasterOf, Processes, ProcessOf,
     Told, Asking, Busy, Lost

(* What leaves a variable of Supervision alone. *)
LEMMA MastersKept ==
  ASSUME \A g \in Gens : MasterOf(g)' = MasterOf(g)
  PROVE  Masters' = Masters
BY DEF Masters

LEMMA ProcessKept ==
  ASSUME app' = app
  PROVE  Processes' = Processes
BY DEF Processes, ProcessOf, Alive

(* A step of Supervision in the mapped variables, or none. *)
Quiet == UNCHANGED <<Masters, Processes, Told, Asking, Busy, Lost>>

(* A step that leaves all of them alone. *)
LEMMA QuietStep == Quiet => [Supervised!Next]_(Supervised!vars)
BY DEF Quiet, Supervised!vars, Masters, MasterOf, Processes, ProcessOf, Told, Asking, Busy, Lost

(* The end of a process that runs. *)
LEMMA EndStep ==
  ASSUME TypeOK, NEW g \in Gens, NEW how \in {"exited", "failed", "killed"},
         Alive(g), Ends(g, how), lost' = lost
  PROVE  Supervised!EndProcess(g, how)
<1> USE DEF TypeOK, GoTypeOK, Ends
<1>1. ProcessOf(g) = "up"
  BY DEF ProcessOf
<1>2. ASSUME NEW k \in Gens
      PROVE  ProcessOf(k)' = IF k = g THEN how ELSE ProcessOf(k)
  BY DEF ProcessOf, Alive
<1>3. Processes' = [Processes EXCEPT ![g] = how]
  <2> HIDE DEF ProcessOf, TypeOK, Ends
  <2> QED
    BY <1>2 DEF Processes
<1>4. Told' = Told \cup {g}
  BY DEF Told
<1>5. Asking' = Asking \ {g}
  BY DEF Asking
<1>6. Busy' = Busy \ {g}
  BY DEF Busy
<1>7. Lost' = Lost
  BY DEF Lost
<1>8. Processes[g] = "up"
  BY <1>1 DEF Processes
<1> HIDE DEF TypeOK, GoTypeOK, Ends
<1> QED
  BY <1>3, <1>4, <1>5, <1>6, <1>7, <1>8
     DEF Supervised!EndProcess, Processes, ProcessOf, Told, Asking, Busy, Lost

(* A process that fails or is killed. *)
LEMMA FailStep ==
  ASSUME TypeOK, NEW g \in Gens, NEW how \in {"failed", "killed"},
         Alive(g), Ends(g, how), lost' = lost, mpc' = mpc \/ Masters' = Masters
  PROVE  Supervised!Next
<1>1. Supervised!EndProcess(g, how)
  BY EndStep
<1>2. Masters' = Masters
  BY DEF Masters, MasterOf
<1>3. Supervised!Fail(g)
  BY <1>1, <1>2 DEF Supervised!Fail, Masters, MasterOf
<1> QED
  BY <1>3 DEF Supervised!Next

(* A signal to a process that runs. *)
LEMMA TellStep ==
  ASSUME TypeOK, NEW g \in Gens, Alive(g), Terminate(g), lost' = lost,
         Masters' = Masters
  PROVE  Supervised!Next
<1>1. CASE app[g] = "load"
  BY <1>1, FailStep DEF Terminate
<1>2. CASE app[g] # "load"
  <2>1. ctx' = [ctx EXCEPT ![g] = TRUE] /\ UNCHANGED <<app, call, task>>
    BY <1>2 DEF Terminate
  <2>2. Told' = Told \cup {g}
    BY <2>1 DEF Told, TypeOK, GoTypeOK
  <2>3. Processes' = Processes /\ Asking' = Asking /\ Busy' = Busy /\ Lost' = Lost
    BY <2>1, ProcessKept DEF Asking, Busy, Lost
  <2>4. Processes[g] = "up"
    BY DEF Processes, ProcessOf
  <2>5. Supervised!Tell(g)
    BY <2>2, <2>3, <2>4 DEF Supervised!Tell, Masters, MasterOf, Processes, ProcessOf,
       Told, Asking, Busy, Lost
  <2> QED
    BY <2>5 DEF Supervised!Next
<1> QED
  BY <1>1, <1>2

(* A master that leaves before it has started its process, or after that   *)
(* has ended.                                                              *)
LEMMA LeaveStep ==
  ASSUME TypeOK, NEW m \in Gens, mpc[m] \notin {"off", "gone"}, ~Alive(m),
         mpc' = [mpc EXCEPT ![m] = "gone"],
         UNCHANGED <<app, ctx, call, task, lost>>
  PROVE  Supervised!Next
<1>1. Masters' = [Masters EXCEPT ![m] = "gone"]
  <2>1. \A k \in Gens : MasterOf(k)' = IF k = m THEN "gone" ELSE MasterOf(k)
    BY DEF MasterOf, TypeOK
  <2> QED
    BY <2>1 DEF Masters
<1>2. Masters[m] = "up" /\ Processes[m] # "up"
  <2>1. app[m] # "up"
    BY DEF Alive
  <2> QED
    BY <2>1 DEF Masters, MasterOf, Processes, ProcessOf
<1>3. UNCHANGED <<Processes, Told, Asking, Busy, Lost>>
  BY ProcessKept DEF Told, Asking, Busy, Lost
<1>4. Supervised!Leave(m)
  BY <1>1, <1>2, <1>3 DEF Supervised!Leave, Supervised!MasterMoves, Masters, MasterOf,
     Processes, ProcessOf, Told, Asking, Busy, Lost
<1> QED
  BY <1>4 DEF Supervised!Next

(* A signal to a master. *)
LEMMA SignalStep ==
  ASSUME TypeOK, Stages, NEW m \in Gens, Signal(m),
         UNCHANGED <<app, ctx, call, task, lost>>
  PROVE  [Supervised!Next]_(Supervised!vars)
<1>1. CASE mpc[m] \in {"boot", "pid"}
  <2>1. ~Alive(m)
    BY <1>1 DEF Stages, Early, Alive
  <2>2. mpc' = [mpc EXCEPT ![m] = "gone"]
    BY <1>1 DEF Signal
  <2> QED
    BY <1>1, <2>1, <2>2, LeaveStep
<1>2. CASE mpc[m] \notin {"boot", "pid"}
  <2>1. \A k \in Gens : mpc'[k] = mpc[k]
    BY <1>2 DEF Signal, TypeOK
  <2>2. Masters' = Masters
    BY <2>1, MastersKept DEF MasterOf
  <2> QED
    BY <2>2, QuietStep, ProcessKept DEF Quiet, Told, Asking, Busy, Lost
<1> QED
  BY <1>1, <1>2

(* A step of a Go process. *)
LEMMA SupervisedGo ==
  ASSUME TypeOK, Services, NEW g \in Gens, UNCHANGED <<mpc, lost>>,
         \/ Tick(g, Listening) \/ SchedNext(g) \/ SeeCancel(g)
         \/ TaskNext(g) \/ PoolNext(g) \/ HttpNext(g) \/ AdminNext(g) \/ AppNext(g)
  PROVE  [Supervised!Next]_(Supervised!vars)
<1>1. Masters' = Masters /\ Lost' = Lost
  BY DEF Masters, MasterOf, Lost
<1>2. ASSUME UNCHANGED <<app, ctx, call, task>>
      PROVE  [Supervised!Next]_(Supervised!vars)
  BY <1>1, <1>2, ProcessKept, QuietStep DEF Quiet, Told, Asking, Busy
<1>3. CASE \/ NextTick(g) \/ Drained(g) \/ SeeCancel(g) \/ PoolNext(g) \/ HttpNext(g)
           \/ AdminNext(g)
  BY <1>2, <1>3 DEF NextTick, Drained, SeeCancel, PoolNext, PoolBoot, PoolStop, HttpNext,
     ListenAndServe, CloseHttp, AdminNext, AdminPrepare, AdminListen, AdminClose
<1>4. CASE Tick(g, Listening)
  <2>1. CASE Refused(g, Listening)
    BY <1>2, <1>4, <2>1 DEF Tick
  <2>2. CASE ~Refused(g, Listening)
    <3>1. Up(g) /\ ~ctx[g] /\ call' = [call EXCEPT ![g] = "sent"] /\ UNCHANGED <<app, ctx, task>>
      BY <1>4, <2>2 DEF Tick, Refused
    <3>2. Asking' = Asking \cup {g}
      BY <3>1 DEF Asking, TypeOK, GoTypeOK
    <3>3. Processes[g] = "up" /\ g \notin Told
      BY <3>1 DEF Processes, ProcessOf, Alive, Up, Told
    <3>4. Processes' = Processes /\ Told' = Told /\ Busy' = Busy
      BY <3>1, ProcessKept DEF Told, Busy
    <3>5. Supervised!Ask(g)
      BY <1>1, <3>2, <3>3, <3>4 DEF Supervised!Ask, Masters, MasterOf, Processes,
         ProcessOf, Told, Asking, Busy, Lost
    <3> QED
      BY <3>5 DEF Supervised!Next
  <2> QED
    BY <2>1, <2>2
<1>5. CASE TickAnswered(g)
  <2>1. /\ Up(g) /\ call[g] # "none"
        /\ call' = [call EXCEPT ![g] = "none"]
        /\ task' \in {task, [task EXCEPT ![g] = "exec"]}
        /\ UNCHANGED <<app, ctx>>
    BY <1>5 DEF TickAnswered, TypeOK, GoTypeOK
  <2>2. g \in Asking /\ Asking' = Asking \ {g}
    BY <2>1 DEF Asking, TypeOK, GoTypeOK
  <2>3. Busy' \in {Busy, Busy \cup {g}}
    <3>1. CASE task' = task
      BY <3>1 DEF Busy
    <3>2. CASE task' = [task EXCEPT ![g] = "exec"]
      <4>1. Busy' = Busy \cup {g}
        BY <3>2 DEF Busy, TypeOK, GoTypeOK
      <4> QED
        BY <4>1
    <3> QED
      BY <2>1, <3>1, <3>2
  <2>4. Processes[g] = "up"
    BY <2>1 DEF Processes, ProcessOf, Alive, Up
  <2>5. Processes' = Processes /\ Told' = Told
    BY <2>1, ProcessKept DEF Told
  <2>6. Supervised!Answer(g)
    BY <1>1, <2>2, <2>3, <2>4, <2>5 DEF Supervised!Answer, Masters, MasterOf, Processes,
       ProcessOf, Told, Asking, Busy, Lost
  <2> QED
    BY <2>6 DEF Supervised!Next
<1>6. CASE TaskEnds(g)
  <2>1. UNCHANGED <<app, ctx, call>> /\ task[g] = "exec"
        /\ task' = [task EXCEPT ![g] = "report"]
    BY <1>6 DEF TaskEnds
  <2>2. Busy' = Busy
    BY <2>1 DEF Busy, TypeOK, GoTypeOK
  <2> QED
    BY <1>1, <2>1, <2>2, ProcessKept, QuietStep DEF Quiet, Told, Asking
<1>7. CASE TaskReported(g)
  <2>1. UNCHANGED <<app, ctx, call>> /\ Up(g) /\ task[g] = "report"
        /\ task' = [task EXCEPT ![g] = "none"]
    BY <1>7 DEF TaskReported
  <2>2. g \in Busy /\ Busy' = Busy \ {g}
    BY <2>1 DEF Busy, TypeOK, GoTypeOK
  <2>3. Processes[g] = "up"
    BY <2>1 DEF Processes, ProcessOf, Alive, Up
  <2>4. Processes' = Processes /\ Told' = Told /\ Asking' = Asking
    BY <2>1, ProcessKept DEF Told, Asking
  <2>5. Supervised!Finish(g)
    BY <1>1, <2>2, <2>3, <2>4 DEF Supervised!Finish, Masters, MasterOf, Processes,
       ProcessOf, Told, Asking, Busy, Lost
  <2> QED
    BY <2>5 DEF Supervised!Next
<1>8. CASE Load(g) \/ SeeCancelled(g)
  <2>1. Alive(g) /\ Alive(g)' /\ (\A k \in Gens \ {g} : app'[k] = app[k])
        /\ UNCHANGED <<ctx, call, task>>
    BY <1>8 DEF Load, SeeCancelled, Alive, TypeOK, GoTypeOK
  <2>2. Processes' = Processes
    <3>1. \A k \in Gens : ProcessOf(k)' = ProcessOf(k)
      BY <2>1 DEF ProcessOf, Alive
    <3> QED
      BY <3>1 DEF Processes
  <2> QED
    BY <1>1, <2>1, <2>2, QuietStep DEF Quiet, Told, Asking, Busy
<1>9. CASE LoadFails(g) \/ SeeError(g)
  <2>1. Alive(g) /\ Ends(g, "failed")
    BY <1>9 DEF LoadFails, SeeError, Alive
  <2> QED
    BY <2>1, FailStep
<1>10. CASE SeeDone(g)
  <2>1. Alive(g)
    BY <1>10 DEF SeeDone, Up, Alive
  <2>2. CASE app[g] = "up" /\ SomeFailed(g)
    BY <1>10, <2>1, <2>2, FailStep DEF SeeDone
  <2>3. CASE ~(app[g] = "up" /\ SomeFailed(g))
    <3>1. Ends(g, "exited") /\ AllReturned(g) /\ Up(g)
      BY <1>10, <2>3 DEF SeeDone
    <3>2. task[g] = "none" /\ call[g] = "none" /\ ctx[g]
      BY <2>3, <3>1 DEF AllReturned, SomeFailed, Services, Up
    <3>3. g \in Told \ (Asking \cup Busy)
      BY <3>2 DEF Told, Asking, Busy
    <3>4. Supervised!EndProcess(g, "exited")
      BY <2>1, <3>1, EndStep
    <3>5. Supervised!Exit(g)
      BY <1>1, <3>3, <3>4 DEF Supervised!Exit, Masters, MasterOf, Told, Asking, Busy
    <3> QED
      BY <3>5 DEF Supervised!Next
  <2> QED
    BY <2>2, <2>3
<1> QED
  BY <1>3, <1>4, <1>5, <1>6, <1>7, <1>8, <1>9, <1>10 DEF SchedNext, TaskNext, AppNext

(* The end of connections leaves it open that a request is in progress. *)
LEMMA AskingKept ==
  ASSUME TypeOK, \A k \in Gens : call[k] = "none" <=> call'[k] = "none"
  PROVE  Asking' = Asking
BY DEF Asking

(* A step of a master. *)
LEMMA SupervisedMaster ==
  ASSUME TypeOK, Stages, Begun, NEW m \in Gens,
         MasterNext(m) \/ LeaveLoop(m) \/ \E g \in Gens : Accept(m, g)
  PROVE  [Supervised!Next]_(Supervised!vars)
<1> USE DEF goVars, cmdVars, Goto
<1>1. ASSUME mpc[m] \notin {"off", "gone"},
             \E to \in {"pid", "prepare", "bind", "spawn", "loop", "close", "unlink",
                       "checkpid", "rmpid", "stop", "wait"} :
               mpc' = [mpc EXCEPT ![m] = to]
      PROVE  Masters' = Masters
  <2>1. \A k \in Gens : MasterOf(k)' = MasterOf(k)
    BY <1>1 DEF MasterOf, TypeOK
  <2> QED
    BY <2>1, MastersKept
<1>2. ASSUME Masters' = Masters, Asking' = Asking, UNCHANGED <<app, ctx, task, lost>>
      PROVE  [Supervised!Next]_(Supervised!vars)
  BY <1>2, ProcessKept, QuietStep DEF Quiet, Told, Busy, Lost
<1>3. CASE \/ PersistPid(m) \/ BootSignals(m) \/ PrepareEndpoint(m) \/ CleanupEndpoint(m)
           \/ CheckPid(m) \/ RemovePid(m) \/ LeaveLoop(m)
  <2>1. UNCHANGED <<app, ctx, call, task, lost>> /\ mpc[m] \notin {"off", "gone"}
    BY <1>3 DEF PersistPid, BootSignals, PrepareEndpoint, CleanupEndpoint, CheckPid,
       RemovePid, LeaveLoop
  <2>2. \E to \in {"pid", "prepare", "bind", "checkpid", "rmpid", "stop", "close"} :
           mpc' = [mpc EXCEPT ![m] = to]
    BY <1>3 DEF PersistPid, BootSignals, PrepareEndpoint, CleanupEndpoint, CheckPid,
       RemovePid, LeaveLoop
  <2>3. Masters' = Masters
    BY <1>1, <2>1, <2>2
  <2> QED
    BY <1>2, <2>1, <2>3 DEF Asking
<1>4. CASE Bind(m)
  <2>1. mpc[m] = "bind" /\ UNCHANGED <<app, ctx, call, task, lost>>
    BY <1>4 DEF Bind
  <2>2. CASE mpc' = [mpc EXCEPT ![m] = "spawn"]
    <3>1. Masters' = Masters
      BY <1>1, <2>1, <2>2
    <3> QED
      BY <1>2, <2>1, <3>1 DEF Asking
  <2>3. CASE mpc' = [mpc EXCEPT ![m] = "gone"]
    <3>1. ~Alive(m)
      BY <2>1 DEF Stages, Early, Alive
    <3> QED
      BY <2>1, <2>3, <3>1, LeaveStep
  <2> QED
    BY <1>4, <2>2, <2>3 DEF Bind
<1>5. CASE StartGoProcess(m)
  <2>1. /\ mpc[m] = "spawn" /\ mpc' = [mpc EXCEPT ![m] = "loop"]
        /\ app' = [app EXCEPT ![m] = "load"] /\ UNCHANGED <<ctx, call, task, lost>>
    BY <1>5 DEF StartGoProcess
  <2>2. Masters' = Masters
    BY <1>1, <2>1
  <2>3. Processes' = [Processes EXCEPT ![m] = "up"]
    <3>1. \A k \in Gens : ProcessOf(k)' = IF k = m THEN "up" ELSE ProcessOf(k)
      BY <2>1 DEF ProcessOf, Alive, TypeOK, GoTypeOK
    <3> QED
      BY <3>1 DEF Processes
  <2>4. Masters[m] = "up" /\ Processes[m] = "off"
    BY <2>1 DEF Masters, MasterOf, Processes, ProcessOf, Stages, Early, Alive
  <2>5. Told' = Told /\ Asking' = Asking /\ Busy' = Busy /\ Lost' = Lost
    BY <2>1 DEF Told, Asking, Busy, Lost
  <2>6. Supervised!StartProcess(m)
    BY <2>2, <2>3, <2>4, <2>5 DEF Supervised!StartProcess, Masters, MasterOf, Processes,
       ProcessOf, Told, Asking, Busy, Lost
  <2> QED
    BY <2>6 DEF Supervised!Next
<1>6. CASE HandleClient(m)
  <2>1. serving[m] \in Gens /\ UNCHANGED <<mpc, app, ctx, task, lost>>
    BY <1>6 DEF HandleClient, TypeOK
  <2>2. PICK answer \in Answers(serving[m]) :
          call' = [call EXCEPT ![serving[m]] = IF @ = "sent" THEN answer ELSE @]
    BY <1>6 DEF HandleClient
  <2>3. answer # "none"
    BY <2>2 DEF Answers
  <2>4. Asking' = Asking
    BY <2>1, <2>2, <2>3, AskingKept DEF TypeOK, GoTypeOK
  <2>5. Masters' = Masters
    BY <2>1 DEF Masters, MasterOf
  <2> QED
    BY <1>2, <2>1, <2>4, <2>5
<1>7. CASE CloseServer(m)
  <2>1. UNCHANGED <<app, ctx, task, lost>> /\ mpc[m] = "close"
        /\ mpc' = [mpc EXCEPT ![m] = "unlink"] /\ Reset(m)
    BY <1>7 DEF CloseServer
  <2>2. Masters' = Masters
    BY <1>1, <2>1
  <2>3. Asking' = Asking
    BY <2>1, AskingKept DEF Reset, TypeOK, GoTypeOK
  <2> QED
    BY <1>2, <2>1, <2>2, <2>3
<1>8. CASE StopGo(m)
  <2>1. mpc[m] = "stop" /\ lost' = lost
    BY <1>8 DEF StopGo
  <2>2. CASE Ended(m)
    <3>1. mpc' = [mpc EXCEPT ![m] = "gone"] /\ UNCHANGED <<app, ctx, call, task>> /\ ~Alive(m)
      BY <1>8, <2>2 DEF StopGo, Ended, Alive
    <3> QED
      BY <2>1, <3>1, LeaveStep
  <2>3. CASE ~Ended(m)
    <3>1. mpc' = [mpc EXCEPT ![m] = "wait"] /\ Terminate(m)
      BY <1>8, <2>3 DEF StopGo
    <3>2. Alive(m)
      BY <2>1, <2>3 DEF Begun, Early, Ended, Alive, TypeOK, GoTypeOK
    <3>3. Masters' = Masters
      BY <1>1, <2>1, <3>1
    <3> QED
      BY <2>1, <3>1, <3>2, <3>3, TellStep
  <2> QED
    BY <2>2, <2>3
<1>9. CASE GoEnded(m)
  <2>1. mpc[m] = "wait" /\ mpc' = [mpc EXCEPT ![m] = "gone"] /\ lost' = lost
    BY <1>9 DEF GoEnded
  <2>2. CASE Ended(m)
    <3>1. UNCHANGED <<app, ctx, call, task>> /\ ~Alive(m)
      BY <1>9, <2>2 DEF GoEnded, Ended, Alive
    <3> QED
      BY <2>1, <3>1, LeaveStep
  <2>3. CASE ~Ended(m)
    <3>1. Alive(m)
      BY <2>1, <2>3 DEF Begun, Early, Ended, Alive, TypeOK, GoTypeOK
    <3>2. Ends(m, "killed")
      BY <1>9, <2>3 DEF GoEnded
    <3>3. Supervised!EndProcess(m, "killed")
      BY <2>1, <3>1, <3>2, EndStep
    <3>4. Masters' = [Masters EXCEPT ![m] = "gone"]
      <4>1. \A k \in Gens : MasterOf(k)' = IF k = m THEN "gone" ELSE MasterOf(k)
        BY <2>1 DEF MasterOf, TypeOK
      <4> QED
        BY <4>1 DEF Masters
    <3>5. Masters[m] = "up"
      BY <2>1 DEF Masters, MasterOf
    <3>6. Supervised!KillAndLeave(m)
      BY <3>3, <3>4, <3>5 DEF Supervised!KillAndLeave, Supervised!MasterMoves, Masters, MasterOf
    <3> QED
      BY <3>6 DEF Supervised!Next
  <2> QED
    BY <2>2, <2>3
<1>10. ASSUME NEW g \in Gens, Accept(m, g)
       PROVE  [Supervised!Next]_(Supervised!vars)
  BY <1>2, <1>10 DEF Accept, Masters, MasterOf, Asking
<1> QED
  BY <1>3, <1>4, <1>5, <1>6, <1>7, <1>8, <1>9, <1>10 DEF MasterNext

(* A kill, a signal or a step of the restart command. *)
LEMMA SupervisedOutside ==
  ASSUME TypeOK, Stages, Begun, NEW m \in Gens,
         \/ MasterKilled(m) \/ GoKilled(m) \/ MasterStopped(m) \/ GoStopped(m)
         \/ StopCurrentRuntime \/ StartRuntime \/ WaitForPid
  PROVE  [Supervised!Next]_(Supervised!vars)
<1> USE DEF goVars, cmdVars, masterVars
<1>1. ASSUME UNCHANGED <<mpc, app, ctx, call, task, lost>>
      PROVE  [Supervised!Next]_(Supervised!vars)
  BY <1>1, ProcessKept, QuietStep DEF Quiet, Masters, MasterOf, Told, Asking, Busy, Lost
<1>2. CASE MasterKilled(m)
  <2>1. /\ mpc[m] \notin {"off", "gone"} /\ mpc' = [mpc EXCEPT ![m] = "gone"]
        /\ lost' = [lost EXCEPT ![m] = TRUE] /\ Reset(m) /\ UNCHANGED <<app, ctx, task>>
    BY <1>2 DEF MasterKilled
  <2>2. Masters' = [Masters EXCEPT ![m] = "gone"]
    <3>1. \A k \in Gens : MasterOf(k)' = IF k = m THEN "gone" ELSE MasterOf(k)
      BY <2>1 DEF MasterOf, TypeOK
    <3> QED
      BY <3>1 DEF Masters
  <2>3. Masters[m] = "up"
    BY <2>1 DEF Masters, MasterOf
  <2>4. Lost' = Lost \cup {m}
    BY <2>1 DEF Lost, TypeOK
  <2>5. Asking' = Asking
    BY <2>1, AskingKept DEF Reset, TypeOK, GoTypeOK
  <2>6. Processes' = Processes /\ Told' = Told /\ Busy' = Busy
    BY <2>1, ProcessKept DEF Told, Busy
  <2>7. Supervised!MasterKilled(m)
    BY <2>2, <2>3, <2>4, <2>5, <2>6 DEF Supervised!MasterKilled, Supervised!MasterMoves,
       Masters, MasterOf, Processes, ProcessOf, Told, Asking, Busy, Lost
  <2> QED
    BY <2>7 DEF Supervised!Next
<1>3. CASE GoKilled(m)
  BY <1>3, FailStep DEF GoKilled
<1>4. CASE MasterStopped(m)
  BY <1>4, SignalStep DEF MasterStopped
<1>5. CASE GoStopped(m)
  <2>1. Masters' = Masters
    BY <1>5 DEF GoStopped, Masters, MasterOf
  <2> QED
    BY <1>5, <2>1, TellStep DEF GoStopped
<1>6. CASE StopCurrentRuntime
  <2>1. CASE pidFile = Nobody
    BY <1>1, <1>6, <2>1 DEF StopCurrentRuntime
  <2>2. CASE pidFile \in Gens
    BY <1>6, <2>2, SignalStep, GenerationsAreNumbered DEF StopCurrentRuntime
  <2> QED
    BY <2>1, <2>2 DEF TypeOK
<1>7. CASE StartRuntime
  <2> PICK n : n = started + 1
    OBVIOUS
  <2>1. mpc' = [mpc EXCEPT ![n] = "boot"] /\ UNCHANGED <<app, ctx, call, task, lost>>
    BY <1>7 DEF StartRuntime
  <2>2. CASE n \notin Gens
    <3>1. mpc' = mpc
      BY <2>1, <2>2 DEF TypeOK
    <3> QED
      BY <1>1, <2>1, <3>1
  <2>3. CASE n \in Gens
    <3>1. mpc[n] = "off" /\ \A k \in Gens : k < n => mpc[k] # "off"
      BY <2>3, GenerationsAreNumbered DEF Stages, Begun, TypeOK
    <3>2. Masters' = [Masters EXCEPT ![n] = "up"]
      <4>1. \A k \in Gens : MasterOf(k)' = IF k = n THEN "up" ELSE MasterOf(k)
        BY <2>1, <2>3 DEF MasterOf, TypeOK
      <4> QED
        BY <4>1, <2>3 DEF Masters
    <3>3. Masters[n] = "off" /\ \A k \in Gens : k < n => Masters[k] # "off"
      BY <2>3, <3>1 DEF Masters, MasterOf
    <3>4. UNCHANGED <<Processes, Told, Asking, Busy, Lost>>
      BY <2>1, ProcessKept DEF Told, Asking, Busy, Lost
    <3>5. Supervised!StartMaster(n)
      BY <3>2, <3>3, <3>4 DEF Supervised!StartMaster, Supervised!MasterMoves, Masters,
         MasterOf, Processes, ProcessOf, Told, Asking, Busy, Lost
    <3> QED
      BY <2>3, <3>5 DEF Supervised!Next
  <2> QED
    BY <2>2, <2>3
<1>8. CASE WaitForPid
  BY <1>1, <1>8 DEF WaitForPid
<1> QED
  BY <1>2, <1>3, <1>4, <1>5, <1>6, <1>7, <1>8

(* Every step is one of Supervision or leaves its variables alone. *)
LEMMA SupervisedStep ==
  ASSUME IInv, Begun, [Next]_vars
  PROVE  [Supervised!Next]_(Supervised!vars)
<1>1. TypeOK /\ Stages /\ Services
  BY DEF IInv
<1>2. CASE UNCHANGED vars
  <2>1. Quiet
    BY <1>2 DEF vars, goVars, masterVars, Quiet, Masters, MasterOf, Processes, ProcessOf,
       Alive, Told, Asking, Busy, Lost
  <2> QED
    BY <2>1, QuietStep
<1>3. ASSUME NEW g \in Gens,
             \/ ByGo(Tick(g, Listening)) \/ ByGo(SchedNext(g))
             \/ ByGo(SeeCancel(g)) \/ ByGo(TaskNext(g)) \/ ByGo(PoolNext(g))
             \/ ByGo(HttpNext(g)) \/ ByGo(AdminNext(g)) \/ ByGo(AppNext(g))
      PROVE  [Supervised!Next]_(Supervised!vars)
  BY <1>1, <1>3, SupervisedGo DEF ByGo, masterVars
<1>4. 1 \in Gens
  BY GenerationsAreNumbered
<1> QED
  BY <1>1, <1>2, <1>3, <1>4, SupervisedMaster, SupervisedOutside DEF Next, By

(* Five services, a master and a restart command, with kills and signals   *)
(* at any moment, keep to Supervision: each generation starts once, a      *)
(* process goes before its master unless that is killed, and after the     *)
(* word to stop it asks for nothing new and exits with nothing in hand.    *)
THEOREM LifecycleImplementsSupervision == Spec => ImplementsSupervision
<1>1. IInv /\ Begun /\ [Next]_vars => [Supervised!Next]_(Supervised!vars)
  BY SupervisedStep
<1> QED
  BY <1>1, SupervisionInit, BegunInductive, PTL
     DEF Spec, ImplementsSupervision, Supervised!Spec

-----------------------------------------------------------------------------
(* The scheduler implements Service. *)

(* The scheduler of g as app.Run sees it.  The queue service implements    *)
(* Service as well: to the rest of the process it is a second scheduler,   *)
(* and is left out of Runtime for that.  A generation that is left without *)
(* a scheduler counts as having one with nothing to do.                    *)
Leaving == [drain |-> "ending", failing |-> "failing",
            returned |-> "returned", failed |-> "failed"]

SchedulerAt(g) ==
  IF Ended(g) THEN "gone"
  ELSE IF g \in bound.scheds /\ sched[g] \in DOMAIN Leaving THEN Leaving[sched[g]]
  ELSE "running"

TaskOf(g) == IF task[g] = "none" THEN {} ELSE {g}

AsService(g) == INSTANCE Service WITH
  Work <- {g}, at <- SchedulerAt(g), cancelled <- ctx[g], busy <- TaskOf(g)

(* A step that leaves the scheduler of g and its process as they are.      *)
LEMMA ServiceSame ==
  ASSUME NEW g \in Gens, UNCHANGED <<bound, app, sched, ctx, task>>
  PROVE  UNCHANGED AsService(g)!vars
BY DEF AsService!vars, SchedulerAt, TaskOf, Ended

(* The end of the process of g, or of another one. *)
LEMMA ServiceEnds ==
  ASSUME TypeOK, NEW g \in Gens, NEW k \in Gens,
         NEW how \in {"exited", "failed", "killed"}, Ends(k, how), UNCHANGED bound
  PROVE  [AsService(g)!Next]_(AsService(g)!vars)
<1>1. CASE k = g
  <2>1. SchedulerAt(g)' = "gone" /\ ctx'[g] = TRUE /\ TaskOf(g)' = {}
    BY <1>1 DEF Ends, SchedulerAt, TaskOf, Ended, TypeOK, GoTypeOK
  <2> QED
    BY <2>1 DEF AsService!Next, AsService!Dies
<1>2. CASE k # g
  <2>1. app'[g] = app[g] /\ sched'[g] = sched[g] /\ ctx'[g] = ctx[g] /\ task'[g] = task[g]
    BY <1>2 DEF Ends, TypeOK, GoTypeOK
  <2> QED
    BY <2>1 DEF AsService!vars, SchedulerAt, TaskOf, Ended
<1> QED
  BY <1>1, <1>2

(* A signal to the process of g, or to another one. *)
LEMMA ServiceTold ==
  ASSUME TypeOK, NEW g \in Gens, NEW k \in Gens, Terminate(k), UNCHANGED bound
  PROVE  [AsService(g)!Next]_(AsService(g)!vars)
<1>1. CASE app[k] = "load"
  BY <1>1, ServiceEnds DEF Terminate
<1>2. CASE app[k] # "load"
  <2>1. ctx' = [ctx EXCEPT ![k] = TRUE] /\ UNCHANGED <<app, sched, task>>
    BY <1>2 DEF Terminate
  <2>2. UNCHANGED <<SchedulerAt(g), TaskOf(g)>>
    BY <2>1 DEF SchedulerAt, TaskOf, Ended
  <2>3. ctx'[g] = TRUE \/ ctx'[g] = ctx[g]
    BY <2>1 DEF TypeOK, GoTypeOK
  <2> QED
    BY <2>2, <2>3 DEF AsService!Next, AsService!Cancel, AsService!vars
<1> QED
  BY <1>1, <1>2

(* A step of a scheduler is a step of Service, or none. *)
LEMMA ServiceScheduler ==
  ASSUME TypeOK, Services, NEW g \in Gens, NEW k \in Gens,
         \/ Tick(k, Listening) \/ SchedNext(k) \/ SeeCancel(k) \/ TaskNext(k),
         UNCHANGED bound
  PROVE  [AsService(g)!Next]_(AsService(g)!vars)
<1> DEFINE Same == UNCHANGED <<SchedulerAt(g), ctx[g], TaskOf(g)>>
<1>0. ASSUME Same PROVE UNCHANGED AsService(g)!vars
  BY <1>0 DEF AsService!vars
<1>1. UNCHANGED <<app, ctx>> /\ Up(k)
  BY DEF Tick, SchedNext, TickAnswered, NextTick, Drained, SeeCancel, TaskNext, TaskEnds, TaskReported
<1>2. CASE k # g
  <2>1. sched'[g] = sched[g] /\ task'[g] = task[g]
    BY <1>2 DEF Tick, SchedNext, TickAnswered, NextTick, Drained, SeeCancel, TaskNext,
       TaskEnds, TaskReported, TypeOK, GoTypeOK
  <2>2. Same
    BY <1>1, <2>1 DEF SchedulerAt, TaskOf, Ended
  <2> QED
    BY <1>0, <2>2
<1>3. CASE k = g /\ g \notin bound.scheds
  <2>1. SchedulerAt(g) = "running" /\ SchedulerAt(g)' = "running"
    BY <1>1, <1>3 DEF SchedulerAt, Ended, Up
  <2>2. TaskOf(g)' \in {TaskOf(g) \cup {g}, TaskOf(g) \ {g}}
    BY DEF TaskOf
  <2>3. AsService(g)!Begin(g) \/ AsService(g)!End(g)
    BY <1>1, <2>1, <2>2 DEF AsService!Begin, AsService!End
  <2> QED
    BY <2>3 DEF AsService!Next
<1>4. CASE k = g /\ g \in bound.scheds
  <2>0. ~Ended(g) /\ ~Ended(g)'
    BY <1>1, <1>4 DEF Ended, Up
  <2>1. CASE Tick(g, Listening) \/ NextTick(g)
    <3>1. Same
      BY <1>1, <2>0, <2>1 DEF Tick, NextTick, SchedulerAt, TaskOf, Ended, Leaving, TypeOK, GoTypeOK
    <3> QED
      BY <1>0, <3>1
  <2>2. CASE TickAnswered(g)
    <3>1. /\ sched[g] = "tick"
          /\ sched'[g] = IF call[g] = "error" THEN "failing" ELSE "sleep"
          /\ task'[g] = IF call[g] = "job" THEN "exec" ELSE task[g]
      BY <2>2 DEF TickAnswered, Services, TypeOK, GoTypeOK
    <3>2. CASE call[g] = "error"
      <4>1. /\ SchedulerAt(g) = "running" /\ SchedulerAt(g)' = "failing"
            /\ UNCHANGED <<ctx[g], TaskOf(g)>>
        BY <1>1, <1>4, <2>0, <3>1, <3>2 DEF SchedulerAt, TaskOf, Leaving
      <4>2. AsService(g)!Error
        BY <4>1 DEF AsService!Error, AsService!Moves
      <4> QED
        BY <4>2 DEF AsService!Next
    <3>3. CASE call[g] # "error"
      <4>1. /\ SchedulerAt(g) = "running" /\ SchedulerAt(g)' = "running"
            /\ UNCHANGED ctx[g]
            /\ TaskOf(g)' = TaskOf(g) \/ TaskOf(g)' = TaskOf(g) \cup {g}
        BY <1>1, <2>0, <3>1, <3>3 DEF SchedulerAt, TaskOf, Leaving
      <4>2. AsService(g)!Begin(g) \/ Same
        BY <4>1 DEF AsService!Begin
      <4> QED
        BY <1>0, <4>2 DEF AsService!Next
    <3> QED
      BY <3>2, <3>3
  <2>3. CASE SeeCancel(g)
    <3>1. /\ SchedulerAt(g) = "running" /\ SchedulerAt(g)' = "ending"
          /\ ctx[g] /\ UNCHANGED <<ctx[g], TaskOf(g)>>
      BY <1>1, <1>4, <2>0, <2>3 DEF SeeCancel, SchedulerAt, TaskOf, Leaving, TypeOK, GoTypeOK
    <3>2. AsService(g)!SeeCancel
      BY <3>1 DEF AsService!SeeCancel, AsService!Moves
    <3> QED
      BY <3>2 DEF AsService!Next
  <2>4. CASE Drained(g)
    <3>1. /\ \/ SchedulerAt(g) = "ending" /\ SchedulerAt(g)' = "returned"
             \/ SchedulerAt(g) = "failing" /\ SchedulerAt(g)' = "failed"
          /\ TaskOf(g) = {} /\ UNCHANGED <<ctx[g], TaskOf(g)>>
      BY <1>1, <1>4, <2>0, <2>4 DEF Drained, SchedulerAt, TaskOf, Leaving, TypeOK, GoTypeOK
    <3>2. AsService(g)!Return
      BY <3>1 DEF AsService!Return, AsService!Moves
    <3> QED
      BY <3>2 DEF AsService!Next
  <2>5. CASE TaskNext(g)
    <3>1. /\ UNCHANGED <<SchedulerAt(g), ctx[g]>>
          /\ TaskOf(g)' = TaskOf(g) \/ TaskOf(g)' = TaskOf(g) \ {g}
      BY <1>1, <2>5 DEF TaskNext, TaskEnds, TaskReported, SchedulerAt, TaskOf, Ended, TypeOK, GoTypeOK
    <3>2. AsService(g)!End(g) \/ Same
      BY <3>1 DEF AsService!End
    <3> QED
      BY <1>0, <3>2 DEF AsService!Next
  <2> QED
    BY <1>4, <2>1, <2>2, <2>3, <2>4, <2>5 DEF SchedNext
<1> QED
  BY <1>2, <1>3, <1>4

(* Every step of the runtime is, to each scheduler, one of Service or none. *)
LEMMA ServiceStep ==
  ASSUME TypeOK, Stages, Services, NEW g \in Gens, [Next]_vars
  PROVE  [AsService(g)!Next]_(AsService(g)!vars)
<1> USE DEF goVars, By, ByGo
<1> DEFINE Goal == [AsService(g)!Next]_(AsService(g)!vars)
<1>1. ASSUME NEW k \in Gens,
             \/ ByGo(Tick(k, Listening)) \/ ByGo(SchedNext(k)) \/ ByGo(SeeCancel(k))
             \/ ByGo(TaskNext(k))
      PROVE  Goal
  BY <1>1, ServiceScheduler
<1>2. ASSUME NEW k \in Gens,
             \/ ByGo(PoolNext(k)) \/ ByGo(HttpNext(k)) \/ ByGo(AdminNext(k))
      PROVE  Goal
  BY <1>2, ServiceSame DEF PoolNext, PoolBoot, PoolStop, HttpNext, ListenAndServe,
     CloseHttp, AdminNext, AdminPrepare, AdminListen, AdminClose
<1>3. ASSUME NEW k \in Gens, ByGo(AppNext(k))
      PROVE  Goal
  <2>1. CASE LoadFails(k) \/ SeeDone(k) \/ SeeError(k)
    <3>1. PICK how \in {"exited", "failed", "killed"} : Ends(k, how)
      BY <2>1 DEF LoadFails, SeeDone, SeeError
    <3> QED
      BY <1>3, <3>1, ServiceEnds
  <2>2. CASE Load(k) \/ SeeCancelled(k)
    <3>1. UNCHANGED <<bound, sched, ctx, task>> /\ Ended(g)' = Ended(g)
      BY <1>3, <2>2 DEF Load, SeeCancelled, Ended, TypeOK, GoTypeOK
    <3> QED
      BY <3>1 DEF AsService!vars, SchedulerAt, TaskOf
  <2> QED
    BY <1>3, <2>1, <2>2 DEF AppNext
<1>4. ASSUME NEW m \in Gens, By(MasterNext(m))
      PROVE  Goal
  <2>1. CASE StartGoProcess(m)
    <3>1. UNCHANGED <<bound, sched, ctx, task>> /\ app' = [app EXCEPT ![m] = "load"]
      BY <1>4, <2>1 DEF StartGoProcess
    <3>2. ~Ended(m)
      BY <2>1 DEF StartGoProcess, Goto, Stages, Early, Ended
    <3>3. Ended(g)' = Ended(g)
      BY <3>1, <3>2 DEF Ended, TypeOK, GoTypeOK
    <3> QED
      BY <3>1, <3>3 DEF AsService!vars, SchedulerAt, TaskOf
  <2>2. CASE StopGo(m) \/ GoEnded(m)
    BY <1>4, <2>2, ServiceSame, ServiceTold, ServiceEnds DEF StopGo, GoEnded
  <2> QED
    BY <1>4, <2>1, <2>2, ServiceSame DEF MasterNext, PersistPid, BootSignals,
       PrepareEndpoint, Bind, HandleClient, CloseServer, CleanupEndpoint,
       CheckPid, RemovePid
<1>5. ASSUME NEW m \in Gens, \/ By(LeaveLoop(m)) \/ \E k \in Gens : By(Accept(m, k))
      PROVE  Goal
  BY <1>5, ServiceSame DEF LeaveLoop, Accept
<1>6. ASSUME NEW m \in Gens, \/ By(MasterKilled(m)) \/ By(GoKilled(m))
                             \/ By(MasterStopped(m)) \/ By(GoStopped(m))
      PROVE  Goal
  BY <1>6, ServiceSame, ServiceTold, ServiceEnds
     DEF MasterKilled, GoKilled, MasterStopped, GoStopped
<1>7. CASE By(StopCurrentRuntime) \/ By(StartRuntime) \/ By(WaitForPid) \/ UNCHANGED vars
  BY <1>7, ServiceSame DEF StopCurrentRuntime, StartRuntime, WaitForPid, vars
<1> QED
  BY <1>1, <1>2, <1>3, <1>4, <1>5, <1>6, <1>7 DEF Next

(* A scheduler starts no task once it is leaving, returns when its last    *)
(* task has been reported, and without an error only if it was cancelled;  *)
(* or its process ends under it.                                           *)
THEOREM SchedulerImplementsService ==
  ASSUME NEW g \in Gens
  PROVE  Spec => AsService(g)!Spec
<1>1. Init => AsService(g)!Init
  BY DEF Init, GoInit, AsService!Init, SchedulerAt, TaskOf, Ended, Leaving
<1>2. IInv /\ [Next]_vars => [AsService(g)!Next]_(AsService(g)!vars)
  BY ServiceStep DEF IInv
<1> QED
  BY <1>1, <1>2, Invariance, PTL DEF Spec, AsService!Spec

=============================================================================
