------------------------------ MODULE Lifecycle ------------------------------
(***************************************************************************)
(* Generations of the runtime: the PHP master (src/Master.php), the Go     *)
(* process it starts (Runtime) and the restart command                     *)
(* (src/RuntimeRestartCommand.php).  Masters of two generations share the  *)
(* pid file and the path of the control socket; only the signal of the     *)
(* restart command passes between them.                                    *)
(***************************************************************************)
EXTENDS Runtime

VARIABLES
  pidFile,  \* whose pid the file holds
  mpc,      \* where Master::run is
  term,     \* $this->running is false
  serving,  \* the runtime whose request a master handles
  lost,     \* history: the master was killed, its clean-up did not run
  started,  \* generations started so far
  cmd,      \* where the restart command is
  overlap   \* history: a master was started before the last generation ended

masterVars == <<pidFile, sock, mpc, term, serving, lost>>
cmdVars == <<started, cmd, overlap>>
vars == <<goVars, masterVars, cmdVars, bound>>

Gone(m) == mpc[m] = "gone"

(* Masters whose server socket is open. *)
Listening == {m \in Gens : mpc[m] \in {"spawn", "loop", "close"}}

Init ==
  /\ GoInit
  /\ pidFile = Nobody
  /\ sock = Nobody
  /\ mpc = [m \in Gens |-> IF m = 1 THEN "boot" ELSE "off"]
  /\ term = [m \in Gens |-> FALSE]
  /\ serving = [m \in Gens |-> Nobody]
  /\ lost = [m \in Gens |-> FALSE]
  /\ started = 1
  /\ cmd = "idle"
  /\ overlap = FALSE

-----------------------------------------------------------------------------
(* Faulty variants of definitions below; no action uses them.              *)

Goto(m, from, to) == mpc[m] = from /\ mpc' = [mpc EXCEPT ![m] = to]

(* a pid file that is written only if there is none *)
PersistPidOnce(m) ==
  /\ Goto(m, "boot", "pid")
  /\ pidFile' = IF pidFile = Nobody THEN m ELSE pidFile
  /\ UNCHANGED <<goVars, sock, term, serving, lost, cmdVars>>

(* a path that is not removed before it is bound *)
PrepareEndpointKeeps(m) ==
  /\ Goto(m, "prepare", "bind")
  /\ UNCHANGED <<goVars, pidFile, sock, term, serving, lost, cmdVars>>

(* a loop that looks only at the Go process, or only at the signal *)
LeaveLoopGo(m) ==
  /\ Goto(m, "loop", "close")
  /\ serving[m] = Nobody
  /\ app[m] \in {"exited", "failed", "killed"}
  /\ UNCHANGED <<goVars, pidFile, sock, term, serving, lost, cmdVars>>
LeaveLoopSignal(m) ==
  /\ Goto(m, "loop", "close")
  /\ serving[m] = Nobody
  /\ term[m]
  /\ UNCHANGED <<goVars, pidFile, sock, term, serving, lost, cmdVars>>

(* a client whose connection is kept open without an answer, and a         *)
(* clean-up that does not wait for the end of the Go process               *)
HandleClientLeaks(m) ==
  /\ mpc[m] = "loop"
  /\ serving[m] # Nobody
  /\ serving' = [serving EXCEPT ![m] = Nobody]
  /\ UNCHANGED <<goVars, pidFile, sock, mpc, term, lost, cmdVars>>
GoEndedAtOnce(m) ==
  /\ Goto(m, "wait", "gone")
  /\ UNCHANGED <<goVars, pidFile, sock, term, serving, lost, cmdVars>>

-----------------------------------------------------------------------------
(* Master::run up to its loop.                                             *)

PersistPid(m) ==
  /\ Goto(m, "boot", "pid")
  /\ pidFile' = m
  /\ UNCHANGED <<goVars, sock, term, serving, lost, cmdVars>>

(* From here on a signal asks the loop to end; before it kills. *)
BootSignals(m) ==
  /\ Goto(m, "pid", "prepare")
  /\ UNCHANGED <<goVars, pidFile, sock, term, serving, lost, cmdVars>>

(* createControlServer: remove the path, then bind; a bind to a path that  *)
(* exists throws, outside of the try, so nothing is cleaned up.            *)
PrepareEndpoint(m) ==
  /\ Goto(m, "prepare", "bind")
  /\ sock' = Nobody
  /\ UNCHANGED <<goVars, pidFile, term, serving, lost, cmdVars>>

Bind(m) ==
  /\ IF sock = Nobody
     THEN Goto(m, "bind", "spawn") /\ sock' = m
     ELSE Goto(m, "bind", "gone") /\ UNCHANGED sock
  /\ UNCHANGED <<goVars, pidFile, term, serving, lost, cmdVars>>

StartGoProcess(m) ==
  /\ Goto(m, "spawn", "loop")
  /\ app' = [app EXCEPT ![m] = "load"]
  /\ UNCHANGED <<port, gwSock, backlog, ctx, http, admin, pool, sched, call, task,
                 pidFile, sock, term, serving, lost, cmdVars>>

-----------------------------------------------------------------------------
(* The loop: one client at a time.                                         *)

Accept(m, g) ==
  /\ mpc[m] = "loop" /\ ~term[m]
  /\ serving[m] = Nobody
  /\ g \in backlog[m]
  /\ serving' = [serving EXCEPT ![m] = g]
  /\ backlog' = [backlog EXCEPT ![m] = @ \ {g}]
  /\ UNCHANGED <<port, gwSock, app, ctx, http, admin, pool, sched, call, task,
                 pidFile, sock, mpc, term, lost, cmdVars>>

(* handleClient answers, also with what the PHP side threw.  One task at a *)
(* time is due (a bound).  The client may be gone meanwhile.               *)
Answers(g) == {"empty", "error"} \cup (IF task[g] = "none" THEN {"job"} ELSE {})

HandleClient(m) ==
  /\ mpc[m] = "loop"
  /\ serving[m] # Nobody
  /\ serving' = [serving EXCEPT ![m] = Nobody]
  /\ \E answer \in Answers(serving[m]) :
       call' = [call EXCEPT ![serving[m]] = IF @ = "sent" THEN answer ELSE @]
  /\ UNCHANGED <<port, gwSock, backlog, app, ctx, http, admin, pool, sched, task,
                 pidFile, sock, mpc, term, lost, cmdVars>>

(* The loop ends on a signal, or when the Go process has ended. *)
LeaveLoop(m) ==
  /\ Goto(m, "loop", "close")
  /\ serving[m] = Nobody
  /\ term[m] \/ Ended(m)
  /\ UNCHANGED <<goVars, pidFile, sock, term, serving, lost, cmdVars>>

-----------------------------------------------------------------------------
(* The finally block.                                                      *)

(* Clients connected to m, in its backlog or being served: when its server *)
(* is closed, or its process ends, they read the end of the connection.    *)
Reset(m) ==
  LET cut == backlog[m] \cup ({serving[m]} \ {Nobody}) IN
  /\ call' = [g \in Gens |-> IF g \in cut /\ call[g] = "sent" THEN "error" ELSE call[g]]
  /\ backlog' = [backlog EXCEPT ![m] = {}]
  /\ serving' = [serving EXCEPT ![m] = Nobody]

CloseServer(m) ==
  /\ Goto(m, "close", "unlink")
  /\ Reset(m)
  /\ UNCHANGED <<port, gwSock, app, ctx, http, admin, pool, sched, task,
                 pidFile, sock, term, lost, cmdVars>>

(* The path is removed whoever's socket it names. *)
CleanupEndpoint(m) ==
  /\ Goto(m, "unlink", "checkpid")
  /\ sock' = Nobody
  /\ UNCHANGED <<goVars, pidFile, term, serving, lost, cmdVars>>

(* The pid file is removed if it holds one's own pid: a read, then an      *)
(* unlink.                                                                 *)
CheckPid(m) ==
  /\ Goto(m, "checkpid", IF pidFile = m THEN "rmpid" ELSE "stop")
  /\ UNCHANGED <<goVars, pidFile, sock, term, serving, lost, cmdVars>>

RemovePid(m) ==
  /\ Goto(m, "rmpid", "stop")
  /\ pidFile' = Nobody
  /\ UNCHANGED <<goVars, sock, term, serving, lost, cmdVars>>

(* $process->stop(3): a signal, three seconds, and a kill. *)
StopGo(m) ==
  /\ IF Ended(m)
     THEN Goto(m, "stop", "gone") /\ UNCHANGED goVars
     ELSE Goto(m, "stop", "wait") /\ Terminate(m)
  /\ UNCHANGED <<pidFile, sock, term, serving, lost, cmdVars>>

GoEnded(m) ==
  /\ Goto(m, "wait", "gone")
  /\ IF Ended(m) THEN UNCHANGED goVars ELSE Ends(m, "killed")
  /\ UNCHANGED <<pidFile, sock, term, serving, lost, cmdVars>>

-----------------------------------------------------------------------------
(* Faults from outside: a process is killed, or crashes.  The process of   *)
(* a killed master stays, and so do the paths and the pid file.            *)
MasterKilled(m) ==
  /\ m \in bound.kills
  /\ mpc[m] \notin {"off", "gone"}
  /\ mpc' = [mpc EXCEPT ![m] = "gone"]
  /\ lost' = [lost EXCEPT ![m] = TRUE]
  /\ Reset(m)
  /\ UNCHANGED <<port, gwSock, app, ctx, http, admin, pool, sched, task,
                 pidFile, sock, term, cmdVars>>

GoKilled(g) ==
  /\ g \in bound.kills
  /\ Alive(g)
  /\ Ends(g, "killed")
  /\ UNCHANGED <<masterVars, cmdVars>>

(* SIGTERM or SIGINT; before BootSignals it kills.                         *)
Signal(m) ==
  /\ mpc' = [mpc EXCEPT ![m] = IF @ \in {"boot", "pid"} THEN "gone" ELSE @]
  /\ term' = [term EXCEPT ![m] = TRUE]

(* Somebody stops a master; an interrupt from the terminal reaches the Go  *)
(* process as well.                                                        *)
MasterStopped(m) ==
  /\ m \in bound.stops
  /\ mpc[m] \notin {"off", "gone"} /\ ~term[m]
  /\ Signal(m)
  /\ UNCHANGED <<goVars, pidFile, sock, serving, lost, cmdVars>>

GoStopped(g) ==
  /\ g \in bound.stops
  /\ Alive(g) /\ ~ctx[g]
  /\ Terminate(g)
  /\ UNCHANGED <<masterVars, cmdVars>>

-----------------------------------------------------------------------------
(* runtime:restart.                                                        *)

StopCurrentRuntime ==
  /\ cmd = "idle"
  /\ started < bound.last
  /\ cmd' = "start"
  /\ IF pidFile = Nobody THEN UNCHANGED <<mpc, term>> ELSE Signal(pidFile)
  /\ UNCHANGED <<goVars, pidFile, sock, serving, lost, started, overlap>>

(* Half a second later, whatever has become of the old process. *)
StartRuntime ==
  /\ cmd = "start"
  /\ cmd' = "wait"
  /\ started' = started + 1
  /\ mpc' = [mpc EXCEPT ![started + 1] = "boot"]
  /\ overlap' = (overlap \/ \E g \in Gens : g <= started /\ (~Gone(g) \/ Alive(g)))
  /\ UNCHANGED <<goVars, pidFile, sock, term, serving, lost>>

(* The command ends when it sees a pid in the file, the old one as well as *)
(* the new one, or after ten seconds.  It succeeds either way.             *)
WaitForPid ==
  /\ cmd = "wait"
  /\ cmd' = "idle"
  /\ UNCHANGED <<goVars, masterVars, started, overlap>>

-----------------------------------------------------------------------------
MasterNext(m) ==
  \/ PersistPid(m) \/ BootSignals(m) \/ PrepareEndpoint(m) \/ Bind(m)
  \/ StartGoProcess(m) \/ HandleClient(m) \/ CloseServer(m)
  \/ CleanupEndpoint(m) \/ CheckPid(m) \/ RemovePid(m) \/ StopGo(m) \/ GoEnded(m)

(* Steps of a Go process leave the masters alone, and no step changes the  *)
(* bounds.                                                                 *)
ByGo(Step) == Step /\ UNCHANGED <<masterVars, cmdVars, bound>>
By(Step) == Step /\ UNCHANGED bound

Next ==
  \/ \E g \in Gens :
       \/ ByGo(Tick(g, Listening)) \/ ByGo(SchedNext(g)) \/ ByGo(SeeCancel(g))
       \/ ByGo(TaskNext(g)) \/ ByGo(PoolNext(g)) \/ ByGo(HttpNext(g))
       \/ ByGo(AdminNext(g)) \/ ByGo(AppNext(g))
  \/ \E m \in Gens :
       \/ By(MasterNext(m)) \/ By(LeaveLoop(m))
       \/ \E g \in Gens : By(Accept(m, g))
       \/ By(MasterKilled(m)) \/ By(GoKilled(m))
       \/ By(MasterStopped(m)) \/ By(GoStopped(m))
  \/ By(StopCurrentRuntime) \/ By(StartRuntime) \/ By(WaitForPid)

Spec == Init /\ [][Next]_vars

(* Processes and goroutines run, tasks end, and PHP code answers in the    *)
(* end (reading a request has a timeout of 5 s).  Strong fairness: the     *)
(* loop looks at the signal and at the Go process after every client,      *)
(* clients are accepted in the order they came in, and a select with the   *)
(* ticker and the context both ready picks one at random.  Nothing says    *)
(* that anyone restarts, kills or has work.                                *)
FairSpec ==
  /\ Spec
  /\ \A g \in Gens :
       /\ WF_vars(ByGo(Tick(g, Listening) \/ SchedNext(g))) /\ SF_vars(ByGo(SeeCancel(g)))
       /\ WF_vars(ByGo(TaskNext(g)))
       /\ WF_vars(ByGo(PoolNext(g) \/ HttpNext(g) \/ AppNext(g)))
       /\ WF_vars(By(MasterNext(g))) /\ SF_vars(By(LeaveLoop(g)))
       /\ SF_vars(By(\E m \in Gens : Accept(m, g)))

-----------------------------------------------------------------------------
(* Types; and the port is with the process that serves it, and with nobody *)
(* once that has stopped or ended.                                         *)
TypeOK ==
  /\ GoTypeOK
  /\ pidFile \in Gens \cup {Nobody}
  /\ sock \in Gens \cup {Nobody}
  /\ mpc \in [Gens -> {"off", "boot", "pid", "prepare", "bind", "spawn", "loop", "close",
                       "unlink", "checkpid", "rmpid", "stop", "wait", "gone"}]
  /\ term \in [Gens -> BOOLEAN]
  /\ serving \in [Gens -> Gens \cup {Nobody}]
  /\ lost \in [Gens -> BOOLEAN]
  /\ started \in Nat
  /\ cmd \in {"idle", "start", "wait"}
  /\ overlap \in BOOLEAN
  /\ \A g \in Gens : port = g <=> http[g] = "serving"

(* Generations that do not overlap: each has the names to itself while it  *)
(* runs, whatever a killed one left in the pid file and the paths, and a   *)
(* master answers its own process only.                                    *)
CleanHandover ==
  ~overlap =>
    \A g \in Gens :
      /\ mpc[g] = "loop" => sock = g /\ pidFile = g
      /\ Up(g) /\ admin[g] = "up" => gwSock = g
      /\ backlog[g] \cup {serving[g]} \subseteq {g, Nobody}

(* And each can start: what a killed one left does not keep it from        *)
(* binding its paths and the port.                                         *)
FreshStart ==
  ~overlap =>
    \A g \in Gens :
      /\ mpc[g] = "bind" => sock = Nobody
      /\ Up(g) /\ admin[g] = "listen" => gwSock = Nobody
      /\ Up(g) => http[g] # "failed"

(* A Go process outlives its master only if the master was killed: every   *)
(* way out of Master::run ends the process it started.                     *)
NoOrphanGo == \A m \in Gens : Gone(m) /\ ~lost[m] => ~Alive(m)

(* A process that ends without an error was asked to, and has neither a    *)
(* task in hand nor a call in progress.                                    *)
ExitDrained ==
  [][\A g \in Gens :
       app[g] # "exited" /\ app'[g] = "exited" =>
         ctx[g] /\ task[g] = "none" /\ call[g] = "none"]_vars

(* Master and Go process as their supervisor and operator see them.        *)
Supervised == INSTANCE Supervision WITH
  master <- [g \in Gens |-> IF mpc[g] \in {"off", "gone"} THEN mpc[g] ELSE "up"],
  process <- [g \in Gens |-> IF Alive(g) THEN "up" ELSE app[g]],
  told <- {g \in Gens : ctx[g]},
  asking <- {g \in Gens : call[g] # "none"},
  busy <- {g \in Gens : task[g] # "none"},
  lost <- {g \in Gens : lost[g]}

(* Each master starts its process once and does not leave it behind; a     *)
(* process that was told to stop asks for nothing new, whatever is on its  *)
(* way, and finishes what it has before it exits.                          *)
ImplementsSupervision == Supervised!Spec

(* A signal ends the master, and its Go process unless the master was      *)
(* killed on the way.                                                      *)
StopEnds ==
  \A m \in Gens : term[m] ~> Gone(m) /\ (lost[m] \/ ~Alive(m))

(* When the Go process ends, for whatever reason, so does its master.      *)
MasterFollows == \A m \in Gens : Ended(m) ~> Gone(m)

(* A service that fails ends the process, also while it is being stopped.  *)
FailureEnds == \A g \in Gens : (Up(g) /\ SomeFailed(g)) ~> ~Alive(g)

(* A call ends although it has no deadline: the master answers it, or its  *)
(* server is closed under it.                                              *)
CallsEnd == \A g \in Gens : (call[g] = "sent") ~> (call[g] # "sent")

(* RuntimeRestartCommand.php:18 and 39: it restarts the runtime, and       *)
(* prints 'Runtime restarted'.  After that, with the new master in its     *)
(* loop and the old ones gone, the path names the new one's socket.        *)
RestartServes ==
  /\ cmd = "idle"
  /\ mpc[started] = "loop" /\ ~term[started]
  /\ \A m \in Gens \ {started} : mpc[m] \in {"off", "gone"}
  => started = 1 \/ sock = started

=============================================================================
