-------------------------- MODULE PhpWorker_proofs --------------------------
(***************************************************************************)
(* Proofs about PhpWorker, for any number of calls and any job limits.     *)
(***************************************************************************)
EXTENDS PhpWorker, SequenceTheorems, TLAPS

(* What can be in the pipes: nothing but what belongs to the current call, *)
(* and at most one reply.                                                  *)
PipeShape ==
  /\ stdin \in {<<>>, <<call>>}
  /\ stdout \in {<<>>, <<call>>, <<Failure>>, <<Failure, call>>}
  /\ readers \subseteq {call}
  /\ serving \in {None, call}
  /\ pc # "ready" => call \in Calls

(* The reply has been written and not read. *)
ReplyInPipe == stdout \in {<<call>>, <<Failure, call>>}

(* A request is in one place: in stdin, with PHP, or answered, as a reply  *)
(* in stdout or in the channel of the call.                                *)
OnePlace ==
  /\ php = "run" <=> serving # None
  /\ proc = "down" => php = "wait" /\ stdin = <<>>
  /\ stdin # <<>> => serving = None
  /\ stdin # <<>> \/ serving # None => ~ReplyInPipe /\ served + 1 = jobs
  /\ ReplyInPipe => served = jobs

(* What the reading goroutines have put into the channels.  Once it is the *)
(* reply, the pipes are empty: this is what makes the worker reusable.     *)
Answered ==
  \A c \in Calls :
    /\ answer[c] \in {None, Failure, c}
    /\ c > call => answer[c] = None
    /\ c \in readers => answer[c] = None
    /\ c = call /\ answer[c] = c =>
         stdin = <<>> /\ stdout = <<>> /\ serving = None /\ served = jobs

(* The worker as it goes back to the pool. *)
Clean ==
  pc = "ready" \/ (pc = "finish" /\ ~broken) =>
    /\ stdin = <<>>
    /\ stdout = <<>>
    /\ readers = {}
    /\ serving = None
    /\ served = jobs

(* What the places of a call say about the worker. *)
Places ==
  /\ pc \in {"ready", "wait"} => ~broken
  /\ pc = "ready" /\ GoMaxJobs > 0 => jobs < GoMaxJobs
  /\ pc \in {"start", "gone"} => proc = "down"

(* The inductive invariant. *)
WInv ==
  /\ TypeOK
  /\ PipeShape
  /\ OnePlace
  /\ Answered
  /\ Clean
  /\ Places
  /\ OwnReply

-----------------------------------------------------------------------------
(* Sequences of at most two elements. *)

(* An empty pipe has the type of a pipe. *)
LEMMA Empty == \A S : <<>> \in Seq(S)
OBVIOUS

(* The element of a sequence of one. *)
LEMMA One ==
  ASSUME NEW x
  PROVE  /\ Append(<<>>, x) = <<x>>
         /\ Head(<<x>>) = x
         /\ Tail(<<x>>) = <<>>
         /\ <<x>> # <<>>
         /\ <<x>>[1] = x
         /\ Len(<<x>>) = 1
OBVIOUS

(* The elements of a sequence of two. *)
LEMMA Two ==
  ASSUME NEW x, NEW y
  PROVE  /\ Head(<<x, y>>) = x
         /\ Tail(<<x, y>>) = <<y>>
         /\ <<x, y>> # <<>>
         /\ <<x, y>>[1] = x
         /\ Len(<<x, y>>) = 2
OBVIOUS

(* Different sequences. *)
LEMMA Distinct ==
  ASSUME NEW x, NEW y
  PROVE  /\ <<x>> = <<y>> => x = y
         /\ <<x, y>> # <<x>> /\ <<x, y>> # <<y>>
OBVIOUS

(* Appending to a sequence of one. *)
LEMMA AppendSecond ==
  ASSUME NEW S, NEW x \in S, NEW y \in S
  PROVE  Append(<<x>>, y) = <<x, y>>
<1> DEFINE s == Append(<<x>>, y)
           t == <<x, y>>
<1>1. <<x>> \in Seq(S) /\ Len(<<x>>) = 1
  OBVIOUS
<1>2. s \in Seq(S) /\ Len(s) = 2 /\ s[1] = x /\ s[2] = y
  BY <1>1, AppendProperties
<1>3. t \in Seq(S) /\ Len(t) = 2 /\ t[1] = x /\ t[2] = y
  OBVIOUS
<1>4. \A i \in 1 .. Len(s) : s[i] = t[i]
  BY <1>2, <1>3
<1>5. s = t
  <2> HIDE DEF s, t
  <2> QED
    BY <1>2, <1>3, <1>4, SeqEqual
<1> QED
  BY <1>5

-----------------------------------------------------------------------------
(* The invariant holds of a new worker. *)
LEMMA WInit == Init => WInv
<1> SUFFICES ASSUME Init PROVE WInv
  OBVIOUS
<1> USE JobLimits DEF Init
<1>1. TypeOK
  <2>1. stdin \in Seq(Calls) /\ stdout \in Seq(Calls \cup {Failure})
    BY Empty
  <2>2. answer \in [Calls -> Answers] /\ outcome \in [Calls -> Answers]
    BY DEF Answers
  <2>3. /\ pc = "ready" /\ call = 0 /\ jobs = 0 /\ broken = FALSE /\ readers = {}
        /\ proc = "up" /\ php = "wait" /\ serving = None /\ served = 0
    OBVIOUS
  <2> HIDE DEF Init
  <2> QED
    <3>1. call \in 0 .. MaxCalls /\ jobs \in Nat /\ served \in Nat
          /\ (GoMaxJobs > 0 => jobs <= GoMaxJobs)
      BY <2>3
    <3>2. pc \in {"ready", "wait", "finish", "close", "start", "gone"} /\ broken \in BOOLEAN
      BY <2>3
    <3>3. /\ readers \subseteq Calls /\ proc \in {"up", "down"}
          /\ php \in {"wait", "run", "leave"} /\ serving \in Calls \cup {None}
      BY <2>3
    <3> QED
      BY <2>1, <2>2, <3>1, <3>2, <3>3 DEF TypeOK
<1>2. PipeShape /\ OnePlace /\ Answered /\ Clean /\ Places /\ OwnReply
  BY One, Two DEF PipeShape, OnePlace, Answered, Clean, Places, OwnReply, ReplyInPipe,
     Calls, None, Failure
<1> QED
  BY <1>1, <1>2 DEF WInv

(* Every step of Execute, of its reading goroutine, of release and of the  *)
(* PHP process keeps the invariant.                                        *)
LEMMA Step ==
  ASSUME WInv, [Next]_vars
  PROVE  WInv'
<1> USE JobLimits DEF WInv, TypeOK, PipeShape, OnePlace, Answered, Clean,
    Places, OwnReply, ReplyInPipe, Calls, Answers, None, Failure, go, pipes, process, ProcessEnds
<1>1. CASE Send
  BY <1>1, Empty, One, Two, Distinct DEF Send
<1>2. CASE SendFails
  BY <1>2, Empty, One, Two, Distinct DEF SendFails
<1>3. CASE TakeAnswer
  <2>1. call \in Calls /\ answer[call] \in {Failure, call}
    BY <1>3 DEF TakeAnswer
  <2>2. OwnReply' /\ TypeOK'
    BY <1>3, <2>1 DEF TakeAnswer
  <2>3. PipeShape' /\ OnePlace' /\ Answered' /\ Places'
    BY <1>3, <2>1 DEF TakeAnswer
  <2>4. Clean'
    BY <1>3, <2>1 DEF TakeAnswer
  <2> QED
    BY <2>2, <2>3, <2>4
<1>4. CASE Deadline
  BY <1>4, Empty, One, Two, Distinct DEF Deadline
<1>5. CASE Finish
  BY <1>5 DEF Finish, ShouldRestart
<1>6. CASE Close
  BY <1>6, Empty, One, Two, Distinct DEF Close
<1>7. CASE Start
  <2>1. stdin' \in Seq(Calls) /\ stdout' \in Seq(Calls \cup {Failure})
    BY <1>7, Empty DEF Start
  <2>2. TypeOK'
    <3>1. /\ pc' = "ready" /\ jobs' = 0 /\ broken' = FALSE /\ proc' = "up"
          /\ php' = "wait" /\ readers' = {} /\ serving' = None /\ served' = 0
          /\ call' = call /\ answer' = answer /\ outcome' = outcome
      BY <1>7 DEF Start
    <3>2. /\ pc' \in {"ready", "wait", "finish", "close", "start", "gone"}
          /\ call' \in 0 .. MaxCalls /\ jobs' \in Nat /\ served' \in Nat
          /\ (GoMaxJobs > 0 => jobs' <= GoMaxJobs)
      BY <3>1
    <3>3. /\ broken' \in BOOLEAN /\ readers' \subseteq Calls /\ proc' \in {"up", "down"}
          /\ php' \in {"wait", "run", "leave"} /\ serving' \in Calls \cup {None}
      BY <3>1
    <3>4. answer' \in [Calls -> Answers] /\ outcome' \in [Calls -> Answers]
      BY <3>1
    <3> HIDE DEF Calls, Answers, None, Failure
    <3> QED
      BY <2>1, <3>2, <3>3, <3>4
  <2>3. (PipeShape /\ OnePlace /\ Answered /\ Clean /\ Places /\ OwnReply)'
    BY <1>7, One, Two, Distinct DEF Start
  <2> QED
    BY <2>2, <2>3
<1>8. CASE StartFails
  BY <1>8, Empty, One, Two, Distinct DEF StartFails
<1>9. CASE PhpTake
  <2>1. stdin = <<call>> /\ call \in Calls
    BY <1>9 DEF PhpTake
  <2>2. serving' = call /\ stdin' = <<>>
    BY <1>9, <2>1, One DEF PhpTake
  <2> QED
    BY <1>9, <2>1, <2>2, Empty, One DEF PhpTake
<1>10. CASE PhpReply
  <2>1. serving = call /\ call \in Calls /\ stdout \in {<<>>, <<Failure>>}
    BY <1>10 DEF PhpReply
  <2>2. stdout' \in {<<call>>, <<Failure, call>>}
    <3>1. Failure \in Int /\ call \in Int
      BY <2>1
    <3>2. Append(<<Failure>>, call) = <<Failure, call>>
      <4> HIDE DEF Failure
      <4> QED
        BY <3>1, AppendSecond
    <3>3. stdout' = Append(stdout, call)
      BY <1>10, <2>1 DEF PhpReply
    <3> QED
      BY <2>1, <3>2, <3>3, One
  <2>3. stdout' \in Seq(Calls \cup {Failure})
    <3>1. call \in Calls \cup {Failure} /\ Failure \in Calls \cup {Failure}
      BY <2>1
    <3>2. CASE stdout' = <<call>>
      BY <3>1, <3>2
    <3>3. CASE stdout' = <<Failure, call>>
      BY <3>1, <3>3
    <3> QED
      BY <2>2, <3>2, <3>3
  <2> QED
    BY <1>10, <2>1, <2>2, <2>3, One, Two DEF PhpReply
<1>11. CASE PhpLeave
  BY <1>11, Empty, One, Two, Distinct DEF PhpLeave
<1>12. CASE PhpDies
  BY <1>12, Empty, One, Two, Distinct DEF PhpDies
<1>13. CASE PhpNoise
  <2>1. stdout = <<>>
    BY <1>13, One DEF PhpNoise
  <2>2. stdout' = <<Failure>> /\ stdout' \in Seq(Calls \cup {Failure})
    BY <1>13, <2>1, One DEF PhpNoise
  <2> QED
    BY <1>13, <2>1, <2>2, One, Two, Distinct DEF PhpNoise
<1>14. ASSUME NEW c \in Calls, ReadReply(c) PROVE WInv'
  <2>1. c = call /\ call \in Calls
    BY <1>14 DEF ReadReply
  <2>2. CASE stdout = <<call>>
    BY <1>14, <2>1, <2>2, Empty, One, Two, Distinct DEF ReadReply
  <2>3. CASE stdout = <<Failure>>
    BY <1>14, <2>1, <2>3, Empty, One, Two, Distinct DEF ReadReply
  <2>4. CASE stdout = <<Failure, call>>
    BY <1>14, <2>1, <2>4, Empty, One, Two, Distinct DEF ReadReply
  <2> QED
    BY <1>14, <2>2, <2>3, <2>4 DEF ReadReply
<1>15. ASSUME NEW c \in Calls, ReadEnd(c) PROVE WInv'
  BY <1>15, Empty, One, Two, Distinct DEF ReadEnd
<1>16. CASE UNCHANGED vars
  BY <1>16 DEF vars
<1> QED
  BY <1>1, <1>2, <1>3, <1>4, <1>5, <1>6, <1>7, <1>8, <1>9, <1>10, <1>11,
     <1>12, <1>13, <1>14, <1>15, <1>16
     DEF Next, GoNext, PhpNext, ReaderNext, Over

-----------------------------------------------------------------------------
(* The inductive invariant holds in every reachable state. *)
THEOREM WorkerInductive == Spec => []WInv
BY WInit, Step, PTL DEF Spec

(* Types, and no worker is used beyond its limit of jobs. *)
THEOREM WorkerTypeCorrect == Spec => []TypeOK
<1>1. WInv => TypeOK
  BY DEF WInv
<1> QED
  BY <1>1, WorkerInductive, PTL

(* No call returns the reply to another, although Execute does not compare *)
(* the identifier in the reply with that of its task: a late reply stays   *)
(* in the pipe of a process that is replaced, and so does the reply that   *)
(* a line of noise has pushed back.                                        *)
THEOREM RepliesAreOwn == Spec => []OwnReply
<1>1. WInv => OwnReply
  BY DEF WInv
<1> QED
  BY <1>1, WorkerInductive, PTL

(* A task whose call has returned, with a reply or with an error, does not *)
(* run any more when the worker is leased again, and nobody reads from the *)
(* worker then.                                                            *)
THEOREM QuietAfterReturn == Spec => []QuietBetweenCalls
<1>1. WInv => QuietBetweenCalls
  BY DEF WInv, OnePlace, Clean, Places, QuietBetweenCalls, None
<1> QED
  BY <1>1, WorkerInductive, PTL

(* With Go's limit not above PHP's, no task is written to a process that   *)
(* has served its last: the process leaves only after the reply, and Go    *)
(* has counted the task when it reads that.                                *)
THEOREM LimitIsSeen == Spec => []LimitCostsNoTask
<1>1. WInv => LimitCostsNoTask
  BY JobLimits DEF WInv, TypeOK, OnePlace, Clean, Places, LimitCostsNoTask
<1> QED
  BY <1>1, WorkerInductive, PTL

-----------------------------------------------------------------------------
(* The exchange implements TaskCall. *)

(* What a call has made of its task, place by place: nothing while it      *)
(* waits, and once it has a reply there is nothing left to run.            *)
Outcomes ==
  /\ \A c \in Calls : c > call => outcome[c] = None
  /\ pc = "wait" => outcome[call] = None
  /\ pc \in {"finish", "close", "start"} =>
       /\ outcome[call] \in {Failure, call}
       /\ outcome[call] = call => stdin = <<>> /\ serving = None
  /\ pc = "finish" /\ ~broken => outcome[call] = call

(* Outcomes holds of a new worker. *)
LEMMA OutcomesInit == Init => Outcomes
BY JobLimits DEF Init, Outcomes, Calls

(* Every step keeps Outcomes. *)
LEMMA OutcomesStep ==
  ASSUME WInv, Outcomes, [Next]_vars
  PROVE  Outcomes'
<1> USE JobLimits DEF WInv, TypeOK, PipeShape, OnePlace, Answered, Clean,
    Places, OwnReply, Outcomes, Calls, Answers, None, Failure, go, pipes, process, ProcessEnds
<1>1. CASE Send
  BY <1>1 DEF Send
<1>2. CASE SendFails
  BY <1>2 DEF SendFails
<1>3. CASE TakeAnswer
  BY <1>3 DEF TakeAnswer
<1>4. CASE Deadline
  BY <1>4 DEF Deadline
<1>5. CASE Finish
  BY <1>5 DEF Finish
<1>6. CASE Close
  BY <1>6 DEF Close
<1>7. CASE Start
  BY <1>7 DEF Start
<1>8. CASE StartFails
  BY <1>8 DEF StartFails
<1>9. CASE PhpTake
  BY <1>9 DEF PhpTake
<1>10. CASE PhpReply
  BY <1>10 DEF PhpReply
<1>11. CASE PhpLeave
  BY <1>11 DEF PhpLeave
<1>12. CASE PhpDies
  BY <1>12 DEF PhpDies
<1>13. CASE PhpNoise
  BY <1>13 DEF PhpNoise
<1>14. ASSUME NEW c \in Calls, ReadReply(c) PROVE Outcomes'
  BY <1>14 DEF ReadReply
<1>15. ASSUME NEW c \in Calls, ReadEnd(c) PROVE Outcomes'
  BY <1>15 DEF ReadEnd
<1>16. CASE UNCHANGED vars
  BY <1>16 DEF vars
<1> QED
  BY <1>1, <1>2, <1>3, <1>4, <1>5, <1>6, <1>7, <1>8, <1>9, <1>10, <1>11,
     <1>12, <1>13, <1>14, <1>15, <1>16
     DEF Next, GoNext, PhpNext, ReaderNext, Over

(* Both invariants hold in every reachable state. *)
LEMMA OutcomesInductive == Spec => [](WInv /\ Outcomes)
BY WInit, Step, OutcomesInit, OutcomesStep, PTL DEF Spec

(* The call in progress, as TaskCall sees it. *)
Now == IF InCall THEN {call} ELSE {}
Results == [c \in Calls |-> Returned(c)]
Ready == pc # "gone"

(* Task, with the operators above for its variables. *)
LEMMA MappedInit ==
  Task!Init <=> /\ Now = {}
                /\ TaskAt = "none"
                /\ Results = [c \in Calls |-> "none"]
                /\ Ready = TRUE
BY DEF Task!Init, Now, Results, Ready

(* A step that leaves the call, the task and the results alone. *)
LEMMA Silent ==
  ASSUME UNCHANGED <<Now, TaskAt, Results, Ready>>
  PROVE  [Task!Next]_(Task!vars)
BY DEF Task!vars, Now, Results, Ready

(* A step within a call moves its task forward, or loses it.               *)
Forward ==
  \/ TaskAt' = TaskAt
  \/ TaskAt = "sent" /\ TaskAt' = "running"
  \/ TaskAt = "running" /\ TaskAt' = "replied"
  \/ TaskAt \in {"sent", "running", "replied"} /\ TaskAt' = "lost"

(* Such a step is one of TaskCall. *)
LEMMA WithinCall ==
  ASSUME call' = call, pc = pc' \/ (InCall /\ InCall'), Forward,
         \A c \in Calls : outcome'[c] = outcome[c] \/ (InCall /\ c = call)
  PROVE  [Task!Next]_(Task!vars)
<1>1. InCall' = InCall /\ Ready' = Ready
  BY DEF InCall, Ready
<1>2. Now' = Now
  BY <1>1 DEF Now
<1>3. Results' = Results
  <2>1. \A c \in Calls : Returned(c)' = Returned(c)
    BY <1>1 DEF Returned
  <2> QED
    BY <2>1 DEF Results
<1>4. CASE TaskAt' = TaskAt
  BY <1>1, <1>2, <1>3, <1>4, Silent
<1>5. CASE TaskAt' # TaskAt
  <2> HIDE DEF TaskAt, InCall, Returned
  <2>1. Task!Run \/ Task!Reply \/ Task!Lose
    BY <1>1, <1>2, <1>3, <1>5 DEF Task!Run, Task!Reply, Task!Lose, Forward, Now, Results, Ready
  <2> QED
    BY <2>1 DEF Task!Next
<1> QED
  BY <1>4, <1>5

(* A call begins: its task is in the pipe, or could not be written. *)
LEMMA BeginStep ==
  ASSUME WInv, Outcomes, Send \/ SendFails
  PROVE  Task!Next
<1> USE JobLimits DEF WInv, TypeOK, PipeShape, OnePlace, Clean, Places, OwnReply,
    Outcomes, Calls, Answers, None, Failure, go, pipes, process
<1> DEFINE c == call + 1
<1>1. pc = "ready" /\ c \in Calls /\ call' = c /\ pc' \in {"wait", "finish"}
  BY DEF Send, SendFails
<1>2. Now = {} /\ Now' = {c} /\ Ready /\ Ready'
  BY <1>1 DEF Now, InCall, Ready
<1>3. TaskAt' \in {"sent", "lost"}
  BY <1>1, One, Two DEF Send, SendFails, TaskAt, InCall
<1>4. Results[c] = "none"
  BY <1>1 DEF Results, Returned
<1>5. Results' = Results
  <2>1. ASSUME NEW d \in Calls PROVE Returned(d)' = Returned(d)
    <3>1. CASE d = c
      <4>1. outcome[d] = None /\ d = call' /\ InCall'
        BY <1>1, <3>1 DEF InCall
      <4> QED
        BY <4>1 DEF Returned
    <3>2. CASE d # c
      <4>1. outcome'[d] = outcome[d]
        BY <3>2, <1>1 DEF Send, SendFails
      <4> QED
        BY <1>1, <3>2, <4>1 DEF Returned, InCall
    <3> QED
      BY <3>1, <3>2
  <2> QED
    BY <2>1 DEF Results
<1> HIDE DEF c
<1>6. Task!Begin(c)
  BY <1>2, <1>3, <1>4, <1>5 DEF Task!Begin, Now, Results, Ready
<1> QED
  BY <1>1, <1>6 DEF Task!Next

(* A call returns: its worker is ready again, replaced or given up. *)
LEMMA EndStep ==
  ASSUME WInv, Outcomes, InCall, ~InCall', call' = call, outcome' = outcome,
         pc = "start" \/ (pc = "finish" /\ ~broken)
  PROVE  Task!Next
<1> USE JobLimits DEF WInv, TypeOK, PipeShape, OnePlace, Clean, Places, OwnReply,
    Outcomes, Calls, Answers, None, Failure, go, pipes, process
<1>1. call \in Calls /\ outcome[call] \in {Failure, call} /\ stdin = <<>> /\ serving = None
  OBVIOUS
<1>2. Now = {call} /\ Now' = {} /\ Ready' \in BOOLEAN
  BY DEF Now, Ready
<1>3. TaskAt' = "none"
  BY DEF TaskAt
<1>4. ASSUME NEW what, what = IF outcome[call] = call THEN "own reply" ELSE "error"
      PROVE  Results' = [Results EXCEPT ![call] = what]
  <2>1. ASSUME NEW d \in Calls
        PROVE  Returned(d)' = IF d = call THEN what ELSE Returned(d)
    <3>1. outcome'[d] = outcome[d] /\ (Returned(d) = "none" \/ d # call)
      BY DEF Returned
    <3>2. CASE d = call
      <4>1. outcome'[d] = outcome[d] /\ outcome[d] # None /\ ~InCall' /\ (outcome[d] = d <=> outcome[d] # Failure)
        BY <1>1, <3>1, <3>2
      <4>2. Returned(d)' = IF outcome[d] = d THEN "own reply" ELSE "error"
        <5> HIDE DEF InCall
        <5> QED
          BY <4>1 DEF Returned
      <4> QED
        BY <1>4, <3>2, <4>2
    <3>3. CASE d # call
      BY <3>1, <3>3 DEF Returned
    <3> QED
      BY <3>2, <3>3
  <2> HIDE DEF Returned
  <2> QED
    BY <2>1, <1>1 DEF Results
<1>5. CASE outcome[call] = call
  <2>1. TaskAt = "replied"
    BY <1>1, <1>5 DEF TaskAt
  <2> HIDE DEF TaskAt, Returned, InCall
  <2>2. Task!Return(call)
    BY <1>2, <1>3, <1>4, <1>5, <2>1 DEF Task!Return, Task!Ends, Now, Results, Ready
  <2> QED
    BY <1>1, <2>2 DEF Task!Next
<1>6. CASE outcome[call] = Failure
  <2>1. TaskAt = "lost" /\ outcome[call] # call
    BY <1>1, <1>6 DEF TaskAt
  <2> HIDE DEF TaskAt, Returned, InCall
  <2>2. Task!Fail(call)
    BY <1>2, <1>3, <1>4, <2>1 DEF Task!Fail, Task!Ends, Now, Results, Ready
  <2> QED
    BY <1>1, <2>2 DEF Task!Next
<1> QED
  BY <1>1, <1>5, <1>6

(* Every step of the exchange is a step of TaskCall or leaves it alone. *)
LEMMA CallStep ==
  ASSUME WInv, Outcomes, [Next]_vars
  PROVE  [Task!Next]_(Task!vars)
<1> USE JobLimits DEF WInv, TypeOK, PipeShape, OnePlace, Answered, Clean,
    Places, OwnReply, ReplyInPipe, Outcomes, Calls, Answers, None, Failure,
    go, pipes, process, ProcessEnds, InCall, TaskAt, Forward
<1>1. CASE Send \/ SendFails
  BY <1>1, BeginStep
<1>2. CASE TakeAnswer
  <2>1. Forward
    BY <1>2 DEF TakeAnswer
  <2> QED
    BY <1>2, <2>1, WithinCall DEF TakeAnswer
<1>3. CASE Deadline
  <2>1. Forward
    BY <1>3 DEF Deadline
  <2> QED
    BY <1>3, <2>1, WithinCall DEF Deadline
<1>4. CASE Finish
  <2>1. CASE ShouldRestart
    <3>1. Forward
      BY <1>4, <2>1 DEF Finish
    <3> QED
      BY <1>4, <2>1, <3>1, WithinCall DEF Finish
  <2>2. CASE ~ShouldRestart
    <3>1. pc = "finish" /\ ~broken /\ pc' = "ready" /\ call' = call /\ outcome' = outcome
      BY <1>4, <2>2 DEF Finish, ShouldRestart
    <3>2. InCall /\ ~InCall'
      BY <3>1
    <3> QED
      BY <3>1, <3>2, EndStep
  <2> QED
    BY <2>1, <2>2
<1>5. CASE Close
  <2>1. Forward
    BY <1>5 DEF Close
  <2> QED
    BY <1>5, <2>1, WithinCall DEF Close
<1>6. CASE Start
  <2>1. CASE pc = "start"
    <3>1. InCall /\ ~InCall' /\ call' = call /\ outcome' = outcome
      BY <1>6, <2>1 DEF Start
    <3> QED
      BY <2>1, <3>1, EndStep
  <2>2. CASE pc = "gone"
    <3>1. Now = {} /\ Now' = Now /\ TaskAt' = TaskAt /\ ~Ready /\ Ready'
      BY <1>6, <2>2 DEF Start, Now, Ready
    <3>2. Results' = Results
      <4>1. \A c \in Calls : Returned(c)' = Returned(c)
        BY <1>6, <2>2 DEF Start, Returned
      <4> QED
        BY <4>1 DEF Results
    <3> HIDE DEF TaskAt, InCall, WInv, Outcomes
    <3>3. Task!Restart
      BY <3>1, <3>2 DEF Task!Restart, Now, Results, Ready
    <3> QED
      BY <3>3 DEF Task!Next
  <2> QED
    BY <1>6, <2>1, <2>2 DEF Start
<1>7. CASE StartFails
  <2>1. pc = "start" /\ InCall /\ ~InCall' /\ call' = call /\ outcome' = outcome
    BY <1>7 DEF StartFails
  <2> QED
    BY <2>1, EndStep
<1>8. CASE PhpTake
  <2>1. stdin = <<call>> /\ call \in Calls /\ InCall
    BY <1>8 DEF PhpTake
  <2>2. serving' = call /\ stdin' = <<>> /\ pc' = pc /\ call' = call
        /\ outcome' = outcome
    BY <1>8, <2>1, One DEF PhpTake
  <2>3. Forward
    BY <2>1, <2>2
  <2> QED
    BY <2>2, <2>3, WithinCall
<1>9. CASE PhpReply
  <2>1. serving = call /\ stdin = <<>> /\ InCall
    BY <1>9 DEF PhpReply
  <2>2. serving' = None /\ stdin' = stdin /\ pc' = pc /\ call' = call
        /\ outcome' = outcome
    BY <1>9 DEF PhpReply
  <2>3. TaskAt = "running" /\ TaskAt' \in {"replied", "lost"}
    BY <2>1, <2>2
  <2>4. Forward
    BY <2>3
  <2> QED
    BY <2>2, <2>4, WithinCall
<1>10. CASE PhpLeave \/ PhpDies
  <2>1. pc' = pc /\ call' = call /\ outcome' = outcome /\ stdin' = <<>> /\ serving' = None
        /\ stdout' = stdout /\ readers' = readers /\ answer' = answer
    BY <1>10 DEF PhpLeave, PhpDies
  <2>2. Forward
    BY <2>1
  <2> QED
    BY <2>1, <2>2, WithinCall
<1>11. CASE PhpNoise
  <2>1. serving = call /\ pc' = pc /\ call' = call /\ outcome' = outcome
        /\ stdin' = stdin /\ serving' = serving
    BY <1>11 DEF PhpNoise
  <2>2. Forward
    BY <2>1
  <2> QED
    BY <2>1, <2>2, WithinCall
<1>12. ASSUME NEW c \in Calls, ReadReply(c) PROVE [Task!Next]_(Task!vars)
  <2>1. c = call /\ pc' = pc /\ call' = call /\ outcome' = outcome
        /\ stdin' = stdin /\ serving' = serving
    BY <1>12 DEF ReadReply
  <2>2. answer'[call] = Head(stdout) /\ readers' = readers \ {call}
    BY <1>12, <2>1 DEF ReadReply
  <2>3. Head(stdout) = call <=> stdout = <<call>>
    BY <1>12, One, Two, Distinct DEF ReadReply
  <2>4. call \in readers /\ answer[call] = None /\ call # None
    BY <1>12, <2>1 DEF ReadReply
  <2>5. TaskAt' = TaskAt
    <3>1. CASE stdout = <<call>>
      BY <2>1, <2>2, <2>3, <2>4, <3>1
    <3>2. CASE stdout # <<call>>
      BY <2>1, <2>2, <2>3, <2>4, <3>2
    <3> QED
      BY <3>1, <3>2
  <2>6. Forward
    BY <2>5
  <2> QED
    BY <2>1, <2>6, WithinCall
<1>13. ASSUME NEW c \in Calls, ReadEnd(c) PROVE [Task!Next]_(Task!vars)
  <2>1. c = call /\ pc' = pc /\ call' = call /\ outcome' = outcome
        /\ stdin' = stdin /\ serving' = serving /\ stdout' = <<>>
    BY <1>13 DEF ReadEnd
  <2>2. Forward
    BY <1>13, <2>1, One DEF ReadEnd
  <2> QED
    BY <2>1, <2>2, WithinCall
<1>14. CASE UNCHANGED vars
  <2>1. Forward /\ pc' = pc /\ call' = call /\ outcome' = outcome
    BY <1>14 DEF vars
  <2> QED
    BY <2>1, WithinCall
<1> QED
  BY <1>1, <1>2, <1>3, <1>4, <1>5, <1>6, <1>7, <1>8, <1>9, <1>10, <1>11,
     <1>12, <1>13, <1>14
     DEF Next, GoNext, PhpNext, ReaderNext, Over

(* A new worker is in TaskCall's initial state. *)
LEMMA CallInit == Init => Task!Init
<1> SUFFICES ASSUME Init PROVE Task!Init
  OBVIOUS
<1>1. Now = {} /\ TaskAt = "none" /\ Ready = TRUE
  BY DEF Init, Now, Ready, TaskAt, InCall
<1>2. Results = [c \in Calls |-> "none"]
  BY DEF Init, Results, Returned, InCall
<1> QED
  BY <1>1, <1>2, MappedInit

(* The exchange of frames with its deadlines, deaths and noise is a        *)
(* sequence of calls: a task starts at most once, only while its call is   *)
(* in progress; a reply is that of a run that has ended, and an error      *)
(* leaves nothing running.                                                 *)
THEOREM WorkerImplementsTaskCall == Spec => ImplementsTaskCall
<1>1. WInv /\ Outcomes /\ [Next]_vars => [Task!Next]_(Task!vars)
  BY CallStep
<1> QED
  BY <1>1, CallInit, OutcomesInductive, PTL DEF Spec, ImplementsTaskCall, Task!Spec

=============================================================================
