------------------------------ MODULE PhpWorker ------------------------------
(***************************************************************************)
(* One worker of the pool and the PHP process behind it: Worker.Execute    *)
(* and Close of runtime/internal/phpworker/factory.go, the loop of         *)
(* src/Worker.php, and the part of Pool.release that decides between       *)
(* reuse and recycling.                                                    *)
(*                                                                         *)
(* Go writes a task to the process's stdin and starts a goroutine that     *)
(* reads one reply from its stdout; the caller waits for that goroutine or *)
(* for its deadline.  Replies carry the task's identifier, but nobody      *)
(* compares it: only the order of what happens keeps a reply away from     *)
(* the wrong call.  The pool gives the worker to one call at a time        *)
(* (ExclusiveLease of WorkerPool), so calls are numbered, and a request or *)
(* a reply is the number of the call it belongs to.                        *)
(***************************************************************************)
EXTENDS Integers, Sequences, FiniteSets

CONSTANTS
  MaxCalls,   \* number of calls (a bound for TLC)
  GoMaxJobs,  \* config.WorkerMaxJobs, 0 for no limit
  PhpMaxJobs  \* --max-jobs of the PHP worker, 0 for no limit

ASSUME JobLimits ==
  MaxCalls \in Nat /\ GoMaxJobs \in Nat /\ PhpMaxJobs \in Nat

VARIABLES
  pc,       \* where the current call is
  call,     \* the number of the current or last call
  jobs,     \* w.jobs
  broken,   \* w.broken
  stdin,    \* requests written and not read by PHP
  stdout,   \* replies, or noise, written by PHP and not read
  readers,  \* calls whose reading goroutine still reads from this process
  answer,   \* what it has put into the channel of the call
  outcome,  \* what Execute has made of the call
  proc,     \* whether the process runs
  php,      \* where Worker.run is
  serving,  \* the call whose task it runs
  served    \* $jobs

go == <<pc, call, jobs, broken>>
pipes == <<stdin, stdout>>
process == <<proc, php, serving, served>>
vars == <<pc, call, jobs, broken, stdin, stdout, readers, answer, outcome,
          proc, php, serving, served>>

Calls == 1 .. MaxCalls
None == 0
Failure == -1   \* an error instead of a reply; on stdout, noise
Answers == Calls \cup {None, Failure}

Init ==
  /\ pc = "ready"
  /\ call = 0
  /\ jobs = 0
  /\ broken = FALSE
  /\ stdin = <<>>
  /\ stdout = <<>>
  /\ readers = {}
  /\ answer = [c \in Calls |-> None]
  /\ outcome = [c \in Calls |-> None]
  /\ proc = "up"
  /\ php = "wait"
  /\ serving = None
  /\ served = 0

-----------------------------------------------------------------------------
(* Faulty variants of definitions below; no action uses them.              *)

(* a limit checked one task too late *)
ShouldRestartLate == broken \/ (GoMaxJobs > 0 /\ jobs > GoMaxJobs)

(* a mark that release does not look at *)
ShouldRestartByJobs == GoMaxJobs > 0 /\ jobs >= GoMaxJobs

(* a deadline that leaves the process and the worker alone *)
DeadlineForgiving ==
  /\ pc = "wait"
  /\ outcome' = [outcome EXCEPT ![call] = Failure]
  /\ pc' = "finish"
  /\ UNCHANGED <<call, jobs, broken, pipes, readers, answer, process>>

(* an unreadable reply that does not mark the worker *)
TakeAnswerForgiving ==
  /\ pc = "wait"
  /\ answer[call] # None
  /\ outcome' = [outcome EXCEPT ![call] = answer[call]]
  /\ pc' = "finish"
  /\ UNCHANGED <<call, jobs, broken, pipes, readers, answer, process>>

(* a count that starts at the first reply of the next process, not before  *)
StartKeepsJobs ==
  /\ pc \in {"start", "gone"}
  /\ pc' = "ready"
  /\ broken' = FALSE
  /\ proc' = "up"
  /\ php' = "wait"
  /\ stdin' = <<>>
  /\ stdout' = <<>>
  /\ readers' = {}
  /\ serving' = None
  /\ served' = 0
  /\ UNCHANGED <<call, jobs, answer, outcome>>

-----------------------------------------------------------------------------
(* Worker.Execute. *)

(* The end of the process: nobody reads stdin any more, what is on stdout  *)
(* can still be read.                                                      *)
ProcessEnds ==
  /\ proc' = "down"
  /\ php' = "wait"
  /\ serving' = None
  /\ stdin' = <<>>

(* A call starts, and its task is written. *)
Send ==
  /\ pc = "ready"
  /\ call < MaxCalls
  /\ ~broken /\ proc = "up"
  /\ call' = call + 1
  /\ jobs' = jobs + 1
  /\ stdin' = Append(stdin, call + 1)
  /\ readers' = readers \cup {call + 1}
  /\ pc' = "wait"
  /\ UNCHANGED <<broken, stdout, answer, outcome, process>>

(* The process has gone since the last call: the write fails. *)
SendFails ==
  /\ pc = "ready"
  /\ call < MaxCalls
  /\ broken \/ proc = "down"
  /\ call' = call + 1
  /\ jobs' = jobs + 1
  /\ broken' = TRUE
  /\ outcome' = [outcome EXCEPT ![call + 1] = Failure]
  /\ pc' = "finish"
  /\ UNCHANGED <<pipes, readers, answer, process>>

(* readResult, in the goroutine of call c. *)
ReadReply(c) ==
  /\ c \in readers
  /\ stdout # <<>>
  /\ answer' = [answer EXCEPT ![c] = Head(stdout)]
  /\ stdout' = Tail(stdout)
  /\ readers' = readers \ {c}
  /\ UNCHANGED <<go, stdin, outcome, process>>

ReadEnd(c) ==
  /\ c \in readers
  /\ stdout = <<>>
  /\ proc = "down"
  /\ answer' = [answer EXCEPT ![c] = Failure]
  /\ readers' = readers \ {c}
  /\ UNCHANGED <<go, pipes, outcome, process>>

TakeAnswer ==
  /\ pc = "wait"
  /\ answer[call] # None
  /\ outcome' = [outcome EXCEPT ![call] = answer[call]]
  /\ broken' = (broken \/ answer[call] = Failure)
  /\ pc' = "finish"
  /\ UNCHANGED <<call, jobs, pipes, readers, answer, process>>

(* The task's timeout, or the end of the runtime, at any moment, also when *)
(* the reply is there already.                                             *)
Deadline ==
  /\ pc = "wait"
  /\ broken' = TRUE
  /\ ProcessEnds
  /\ outcome' = [outcome EXCEPT ![call] = Failure]
  /\ pc' = "finish"
  /\ UNCHANGED <<call, jobs, stdout, readers, answer, served>>

-----------------------------------------------------------------------------
(* Pool.release. *)

ShouldRestart == broken \/ (GoMaxJobs > 0 /\ jobs >= GoMaxJobs)

Finish ==
  /\ pc = "finish"
  /\ pc' = IF ShouldRestart THEN "close" ELSE "ready"
  /\ UNCHANGED <<call, jobs, broken, pipes, readers, answer, outcome, process>>

Close ==
  /\ pc = "close"
  /\ ProcessEnds
  /\ pc' = "start"
  /\ UNCHANGED <<call, jobs, broken, stdout, readers, answer, outcome, served>>

(* NewWorker: a new process with pipes of its own.  Whoever still reads    *)
(* from the old one fills a channel nobody waits for.  A worker that could *)
(* not be replaced is started when the pool grows again.                   *)
Start ==
  /\ pc \in {"start", "gone"}
  /\ pc' = "ready"
  /\ jobs' = 0
  /\ broken' = FALSE
  /\ proc' = "up"
  /\ php' = "wait"
  /\ stdin' = <<>>
  /\ stdout' = <<>>
  /\ readers' = {}
  /\ serving' = None
  /\ served' = 0
  /\ UNCHANGED <<call, answer, outcome>>

StartFails ==
  /\ pc = "start"
  /\ pc' = "gone"
  /\ UNCHANGED <<call, jobs, broken, pipes, readers, answer, outcome, process>>

-----------------------------------------------------------------------------
(* Worker.run in PHP. *)

PhpTake ==
  /\ proc = "up"
  /\ php = "wait"
  /\ stdin # <<>>
  /\ serving' = Head(stdin)
  /\ stdin' = Tail(stdin)
  /\ php' = "run"
  /\ UNCHANGED <<go, stdout, readers, answer, outcome, proc, served>>

(* The task has ended, well or with an exception: both are replies. *)
PhpReply ==
  /\ php = "run"
  /\ stdout' = Append(stdout, serving)
  /\ serving' = None
  /\ served' = served + 1
  /\ php' = IF PhpMaxJobs > 0 /\ served' >= PhpMaxJobs THEN "leave" ELSE "wait"
  /\ UNCHANGED <<go, stdin, readers, answer, outcome, proc>>

PhpLeave ==
  /\ php = "leave"
  /\ ProcessEnds
  /\ UNCHANGED <<go, stdout, readers, answer, outcome, served>>

(* The process dies by itself: a fatal error, the kernel, an operator. *)
PhpDies ==
  /\ proc = "up"
  /\ ProcessEnds
  /\ UNCHANGED <<go, stdout, readers, answer, outcome, served>>

(* A task prints to stdout, into the middle of the frames.  Once is        *)
(* enough: the stream stays out of step.                                   *)
PhpNoise ==
  /\ php = "run"
  /\ \A i \in 1 .. Len(stdout) : stdout[i] # Failure
  /\ stdout' = Append(stdout, Failure)
  /\ UNCHANGED <<go, stdin, readers, answer, outcome, process>>

-----------------------------------------------------------------------------
(* All calls have been made. *)
Over == call = MaxCalls /\ pc \in {"ready", "gone"} /\ UNCHANGED vars

GoNext ==
  \/ Send \/ SendFails \/ TakeAnswer \/ Deadline
  \/ Finish \/ Close \/ Start \/ StartFails
ReaderNext(c) == ReadReply(c) \/ ReadEnd(c)
PhpNext == PhpTake \/ PhpReply \/ PhpLeave \/ PhpDies \/ PhpNoise

Next == GoNext \/ PhpNext \/ Over \/ \E c \in Calls : ReaderNext(c)

Spec == Init /\ [][Next]_vars

-----------------------------------------------------------------------------
(* Types, and a worker that is never used beyond its limit.                *)
TypeOK ==
  /\ pc \in {"ready", "wait", "finish", "close", "start", "gone"}
  /\ call \in 0 .. MaxCalls
  /\ jobs \in Nat
  /\ GoMaxJobs > 0 => jobs <= GoMaxJobs
  /\ broken \in BOOLEAN
  /\ stdin \in Seq(Calls)
  /\ stdout \in Seq(Calls \cup {Failure})
  /\ readers \subseteq Calls
  /\ answer \in [Calls -> Answers]
  /\ outcome \in [Calls -> Answers]
  /\ proc \in {"up", "down"}
  /\ php \in {"wait", "run", "leave"}
  /\ serving \in Calls \cup {None}
  /\ served \in Nat

(* A call ends with the reply to its own task or with an error, never with *)
(* the reply to another: not after a deadline that the late reply missed   *)
(* by little, and not after noise.                                         *)
OwnReply == \A c \in Calls : outcome[c] \in {None, Failure, c}

(* When Execute has returned to its caller, which may now report a failure *)
(* and have the task run again, the task is not running any more, nor      *)
(* waiting to run, and nobody reads from a worker that will be used again. *)
QuietBetweenCalls ==
  /\ pc \in {"ready", "gone"} => serving = None /\ stdin = <<>>
  /\ pc = "ready" => readers = {}

(* The two limits are counted on two sides of a pipe.  If Go's is the      *)
(* smaller or they are equal, as Master passes them, no task is lost       *)
(* because it is written to a process that has served its last.            *)
LimitCostsNoTask ==
  GoMaxJobs \in 1 .. PhpMaxJobs /\ (pc = "ready" \/ stdin # <<>>)
    => served < PhpMaxJobs

(* The call as the pool sees it: it is in progress from Execute until      *)
(* release has put the worker back, or has replaced it or given it up, and *)
(* only then returns.                                                      *)
InCall == pc \notin {"ready", "gone"}

TaskAt ==
  IF ~InCall THEN "none"
  ELSE IF stdin # <<>> THEN "sent"
  ELSE IF serving # None THEN "running"
  ELSE IF \/ outcome[call] = call
          \/ pc = "wait" /\ answer[call] = call
          \/ pc = "wait" /\ call \in readers /\ stdout = <<call>>
  THEN "replied"
  ELSE "lost"

Returned(c) ==
  IF outcome[c] = None \/ (InCall /\ c = call) THEN "none"
  ELSE IF outcome[c] = Failure THEN "error"
  ELSE IF outcome[c] = c THEN "own reply" ELSE "another's reply"

Task == INSTANCE TaskCall WITH
  now <- IF InCall THEN {call} ELSE {},
  task <- TaskAt,
  result <- [c \in Calls |-> Returned(c)],
  ready <- pc # "gone"

(* The exchange is a sequence of calls as the pool counts on them: a task  *)
(* that a caller was told has failed does not run any more and was not run *)
(* twice, and a reply is that of a run that has ended.                     *)
ImplementsTaskCall == Task!Spec

=============================================================================
