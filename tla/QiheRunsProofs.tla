----------------------------- MODULE QiheRunsProofs -----------------------------
(***************************************************************************)
(* No thread of the pool prefers more than three requests to a run that    *)
(* waits; the client sees one progress at a time, with all its logs; and   *)
(* only the latest run that nobody cancelled is committed, for any number  *)
(* of threads, runs, requests and moves.                                   *)
(*                                                                         *)
(* Of the pool: what a thread has preferred and what is left of its budget *)
(* are three together, unless it has found the other queue empty.  Of the  *)
(* runs: while the latest run has something in the channel, or has not     *)
(* sent its result, its progress is shown; nothing comes after a result.   *)
(***************************************************************************)
EXTENDS QiheRuns, TLAPS

Results == {"finished", "cancelled", "failed"}
Task    == [result : {"log"} \cup Results, run : Run, fresh : Nat]

\* A thread that runs has a job, and nothing is counted past its bound.
Seated  == \A t \in Threads : seat[t].at = "run" => seat[t].job \in Job
Counted ==
  /\ moves <= MaxMoves /\ quick <= MaxQuick
  /\ fresh + (IF phase = "write" THEN 1 ELSE 0) <= moves
TypeInv == TypeOK /\ Seated /\ Counted

FoundNone(t) == seat[t].at \in {"third", "select"}
Burst ==
  \A t \in Threads :
    /\ passed[t] <= 3
    /\ queue["Worker"] # <<>> =>
         IF FoundNone(t) THEN passed[t] = 0 ELSE passed[t] + seat[t].budget <= 3

\* What the pool does in a step.
PoolStep ==
  \/ \E intent \in P!Intents, job \in Job : P!Spawn(intent, job)
  \/ \E t \in Threads : P!Receive(t) \/ P!Finish(t)
  \/ UNCHANGED poolVars

ResultIsLast ==
  /\ \A i \in DOMAIN tasks : tasks[i].result # "log" => stage[tasks[i].run] = "sent"
  /\ \A i, k \in DOMAIN tasks :
       i < k /\ tasks[i].run = tasks[k].run => tasks[i].result = "log"
  /\ \A r \in readers : stage[r] \in {"compile", "run"}
Latest ==
  generation # 0 /\ progress[generation] # "begun" =>
    /\ stage[generation] = "sent"
    /\ \A i \in DOMAIN tasks : tasks[i].run # generation
Stored ==
  store # None => /\ store.run <= generation
                  /\ store.run = generation => progress[generation] # "begun"
RunInv == OneProgress /\ ResultIsLast /\ Latest /\ Stored

QiheInv == TypeInv /\ Burst /\ RunInv
------------------------------------------------------------------------------
(* Queues.                                                                 *)

LEMMA TakeHead ==
  ASSUME NEW S, NEW s \in Seq(S), s # <<>>
  PROVE  /\ Head(s) \in S /\ Head(s) = s[1] /\ 1 \in DOMAIN s
         /\ Tail(s) \in Seq(S)
         /\ \A i \in DOMAIN Tail(s) : i + 1 \in DOMAIN s /\ Tail(s)[i] = s[i + 1]
         /\ \A i \in DOMAIN s : i \in Nat
OBVIOUS

LEMMA AddLast ==
  ASSUME NEW S, NEW s \in Seq(S), NEW e \in S
  PROVE  /\ Append(s, e) \in Seq(S) /\ Append(s, e) # <<>>
         /\ \A i \in DOMAIN Append(s, e) :
              \/ i \in DOMAIN s /\ Append(s, e)[i] = s[i]
              \/ i = Len(s) + 1 /\ Append(s, e)[i] = e
         /\ \A i \in DOMAIN s : i \in Nat /\ i < Len(s) + 1
OBVIOUS

LEMMA RunIsNat == Run \subseteq Nat \ {0} /\ None \notin Run
  BY BoundsAssumption, NoneAssumption DEF Run

\* Where the job of a thread is, and whose it is.
LEMMA AtRun ==
  ASSUME TypeInv, NEW t \in Threads, NEW s, At(t, s)
  PROVE  /\ seat[t].job \in Job /\ seat[t].job.run \in Run
         /\ seat[t].job.fresh \in Nat /\ stage[seat[t].job.run] = s
  BY BoundsAssumption DEF TypeInv, Seated, At, Job, Run
------------------------------------------------------------------------------
(* The pool.                                                               *)

PoolInv == P!TypeOK /\ Seated

LEMMA SpawnKeeps ==
  ASSUME PoolInv, Burst, NEW intent \in P!Intents, NEW job \in Job, P!Spawn(intent, job)
  PROVE  PoolInv' /\ Burst'
<1>1. queue' \in [P!Intents -> Seq(Job)]
  BY DEF PoolInv, P!TypeOK, P!Spawn
<1>2. seat' = seat
  BY DEF P!Spawn
<1>3. passed' \in [Threads -> Nat]
  BY DEF PoolInv, P!TypeOK, P!Spawn
<1>4. PoolInv'
  BY <1>1, <1>2, <1>3 DEF PoolInv, P!TypeOK, Seated
<1>5. ASSUME NEW t \in Threads
      PROVE  /\ passed[t]' <= 3
             /\ queue'["Worker"] # <<>> =>
                  IF FoundNone(t)' THEN passed[t]' = 0
                  ELSE passed[t]' + seat[t].budget' <= 3
  <2>1. FoundNone(t)' = FoundNone(t) /\ seat[t]' = seat[t]
    BY <1>2 DEF FoundNone
  <2>2. seat[t].budget \in 0 .. 3
    BY DEF PoolInv, P!TypeOK, P!LATENCY_BURST
  <2>3. CASE intent = "Worker" /\ queue["Worker"] = <<>>
    BY <2>1, <2>2, <2>3 DEF P!Spawn
  <2>4. CASE ~(intent = "Worker" /\ queue["Worker"] = <<>>)
    <3>1. passed' = passed
      BY <2>4 DEF P!Spawn
    <3>2. queue'["Worker"] # <<>> => queue["Worker"] # <<>>
      BY <2>4 DEF P!Spawn, P!Intents, PoolInv, P!TypeOK
    <3> QED
      BY <2>1, <3>1, <3>2 DEF Burst
  <2> QED
    BY <2>3, <2>4
<1> QED
  BY <1>4, <1>5 DEF Burst

\* The pool as a thread leaves it that has taken a job.
LEMMA TakeKeeps ==
  ASSUME PoolInv, Burst, NEW t \in Threads, NEW intent \in P!Intents, NEW budget \in 0 .. 3,
         P!Take(t, intent, budget),
         intent = "LatencySensitive" /\ queue["Worker"] # <<>> => passed[t] + 1 + budget <= 3
  PROVE  PoolInv' /\ Burst'
<1> DEFINE job == Head(queue[intent])
<1>1. queue[intent] \in Seq(Job) /\ queue[intent] # <<>>
  BY DEF PoolInv, P!TypeOK, P!Take
<1>2. job \in Job /\ Tail(queue[intent]) \in Seq(Job)
  BY <1>1, TakeHead
<1>3. queue' \in [P!Intents -> Seq(Job)] /\ queue' = [queue EXCEPT ![intent] = Tail(@)]
  BY <1>2 DEF PoolInv, P!TypeOK, P!Take
<1>4. seat' = [seat EXCEPT ![t] = [at |-> "run", budget |-> budget, job |-> job]]
  BY DEF P!Take
<1>5. seat' \in [Threads -> [at : {"first", "second", "third", "select", "run"},
                           budget : 0 .. P!LATENCY_BURST, job : Job \cup {None}]]
  <2>1. [at |-> "run", budget |-> budget, job |-> job]
          \in [at : {"first", "second", "third", "select", "run"},
              budget : 0 .. P!LATENCY_BURST, job : Job \cup {None}]
    BY <1>2 DEF P!LATENCY_BURST
  <2> HIDE DEF job
  <2> QED
    BY <2>1, <1>4 DEF PoolInv, P!TypeOK
<1>6. passed' \in [Threads -> Nat]
  BY DEF PoolInv, P!TypeOK, P!Take
<1>7. Seated'
  BY <1>2, <1>4 DEF Seated, PoolInv, P!TypeOK
<1>8. PoolInv'
  BY <1>3, <1>5, <1>6, <1>7 DEF PoolInv, P!TypeOK
<1>9. ASSUME NEW u \in Threads
      PROVE  /\ passed[u]' <= 3
             /\ queue'["Worker"] # <<>> =>
                  IF FoundNone(u)' THEN passed[u]' = 0
                  ELSE passed[u]' + seat[u].budget' <= 3
  <2>1. seat[u].budget \in 0 .. 3 /\ passed[u] \in Nat
    BY DEF PoolInv, P!TypeOK, P!LATENCY_BURST
  <2>2. /\ u = t => seat[u]'.budget = budget /\ ~FoundNone(u)'
        /\ u # t => seat[u]' = seat[u] /\ FoundNone(u)' = FoundNone(u)
    BY <1>4 DEF FoundNone, PoolInv, P!TypeOK
  <2>3. CASE intent = "Worker"
    <3>1. passed[u]' = 0
      BY <2>3 DEF P!Take
    <3>2. (seat[u].budget)' \in 0 .. 3
      BY <1>5 DEF P!LATENCY_BURST
    <3> QED
      BY <3>1, <3>2
  <2>4. CASE intent # "Worker"
    <3>1. intent = "LatencySensitive" /\ queue'["Worker"] = queue["Worker"]
      BY <2>4, <1>3 DEF P!Intents, PoolInv, P!TypeOK
    <3>2. CASE queue["Worker"] = <<>>
      BY <3>1, <3>2, <2>4 DEF P!Take, Burst
    <3>3. CASE queue["Worker"] # <<>>
      <4>1. passed' = [passed EXCEPT ![t] = @ + 1]
        BY <3>3, <2>4 DEF P!Take
      <4>2. CASE u = t
        BY <4>1, <4>2, <3>1, <3>3, <2>1, <2>2 DEF PoolInv, P!TypeOK
      <4>3. CASE u # t
        BY <4>1, <4>3, <3>1, <3>3, <2>1, <2>2 DEF PoolInv, P!TypeOK, Burst
      <4> QED
        BY <4>2, <4>3
    <3> QED
      BY <3>2, <3>3
  <2> QED
    BY <2>3, <2>4
<1> QED
  BY <1>8, <1>9 DEF Burst

LEMMA ReceiveKeeps ==
  ASSUME PoolInv, Burst, NEW t \in Threads, P!Receive(t)
  PROVE  PoolInv' /\ Burst'
<1>1. /\ seat[t].budget \in 0 .. 3 /\ passed[t] \in Nat /\ passed[t] <= 3
      /\ {"Worker", "LatencySensitive"} = P!Intents
  BY DEF PoolInv, P!TypeOK, P!LATENCY_BURST, Burst, P!Intents
<1>2. /\ queue["Worker"] # <<>> /\ FoundNone(t) => passed[t] = 0
      /\ queue["Worker"] # <<>> /\ ~FoundNone(t) => passed[t] + seat[t].budget <= 3
  BY DEF Burst
<1>3. ASSUME seat[t].at = "first", seat[t].budget > 0,
             P!Take(t, "LatencySensitive", seat[t].budget - 1)
      PROVE  PoolInv' /\ Burst'
  <2>1. PICK budget \in 0 .. 3 : budget = seat[t].budget - 1
    BY <1>1, <1>3
  <2>2. P!Take(t, "LatencySensitive", budget)
    BY <1>3, <2>1
  <2>3. queue["Worker"] # <<>> => passed[t] + 1 + budget <= 3
    BY <1>1, <1>2, <1>3, <2>1 DEF FoundNone
  <2> QED
    BY <1>1, <2>2, <2>3, TakeKeeps
<1>4. ASSUME P!Take(t, "Worker", P!LATENCY_BURST)
      PROVE  PoolInv' /\ Burst'
  <2>1. P!Take(t, "Worker", 3)
    BY <1>4 DEF P!LATENCY_BURST
  <2> QED
    BY <1>1, <2>1, TakeKeeps
<1>5. ASSUME FoundNone(t), P!Take(t, "LatencySensitive", P!LATENCY_BURST - 1)
      PROVE  PoolInv' /\ Burst'
  <2>1. P!Take(t, "LatencySensitive", 2)
    BY <1>5 DEF P!LATENCY_BURST
  <2> QED
    BY <1>1, <1>2, <1>5, <2>1, TakeKeeps
<1>6. ASSUME NEW at \in {"second", "third", "select"}, P!Look(t, at),
             at = "second" => ~FoundNone(t),
             at # "second" => FoundNone(t) \/ queue["Worker"] = <<>>
      PROVE  PoolInv' /\ Burst'
  <2>1. seat' = [seat EXCEPT ![t].at = at] /\ queue' = queue /\ passed' = passed
    BY <1>6 DEF P!Look
  <2>2. PoolInv'
    BY <2>1 DEF PoolInv, P!TypeOK, Seated
  <2>3. ASSUME NEW u \in Threads
        PROVE  /\ (seat[u].budget)' = seat[u].budget
               /\ FoundNone(u)' = IF u = t THEN at # "second" ELSE FoundNone(u)
    BY <2>1, <2>3 DEF PoolInv, P!TypeOK, FoundNone
  <2> QED
    BY <1>6, <2>1, <2>2, <2>3 DEF Burst
<1>7. CASE P!TryFirst(t)
  BY <1>3, <1>6, <1>7 DEF P!TryFirst, FoundNone
<1>8. CASE P!TrySecond(t)
  BY <1>4, <1>6, <1>8 DEF P!TrySecond, FoundNone
<1>9. CASE P!TryThird(t)
  BY <1>5, <1>6, <1>9 DEF P!TryThird, FoundNone
<1>10. CASE P!Select(t)
  BY <1>4, <1>5, <1>10 DEF P!Select, FoundNone
<1> QED
  BY <1>7, <1>8, <1>9, <1>10 DEF P!Receive

LEMMA FinishKeeps ==
  ASSUME PoolInv, Burst, NEW t \in Threads, P!Finish(t)
  PROVE  PoolInv' /\ Burst'
<1>1. /\ seat' = [seat EXCEPT ![t].at = "first", ![t].job = None]
      /\ queue' = queue /\ passed' = passed /\ seat[t].at = "run"
  BY DEF P!Finish
<1>2. PoolInv'
  BY <1>1 DEF PoolInv, P!TypeOK, Seated
<1>3. ASSUME NEW u \in Threads
      PROVE  (seat[u].budget)' = seat[u].budget /\ FoundNone(u)' = FoundNone(u)
  BY <1>1, <1>3 DEF PoolInv, P!TypeOK, FoundNone
<1> QED
  BY <1>1, <1>2, <1>3 DEF Burst

LEMMA PoolKeeps == PoolInv /\ Burst /\ PoolStep => PoolInv' /\ Burst'
<1>1. ASSUME PoolInv, Burst, UNCHANGED poolVars PROVE PoolInv' /\ Burst'
  BY <1>1 DEF PoolInv, Burst, poolVars, P!TypeOK, Seated, FoundNone
<1> QED
  BY <1>1, SpawnKeeps, ReceiveKeeps, FinishKeeps DEF PoolStep
------------------------------------------------------------------------------
(* Every step is one of the pool, and keeps the types.                     *)

LEMMA StepsArePoolSteps == TypeInv /\ [Next]_vars => PoolStep
<1> SUFFICES ASSUME TypeInv, [Next]_vars PROVE PoolStep
  OBVIOUS
<1>1. CASE Start
  <2>1. generation' \in Run
    BY <1>1, BoundsAssumption DEF Start, TypeInv, TypeOK, Run
  <2>2. fresh \in 0 .. MaxMoves
    BY BoundsAssumption DEF TypeInv, TypeOK, Counted
  <2>3. [kind |-> "qihe", run |-> generation', fresh |-> fresh] \in Job
    BY <2>1, <2>2 DEF Job
  <2> QED
    BY <1>1, <2>3 DEF Start, PoolStep, P!Intents
<1>2. CASE Request
  <2>1. quick' \in 1 .. MaxQuick
    BY <1>2, BoundsAssumption DEF Request, TypeInv, TypeOK
  <2>2. fresh \in 0 .. MaxMoves
    BY BoundsAssumption DEF TypeInv, TypeOK, Counted
  <2>3. [kind |-> "quick", run |-> quick', fresh |-> fresh] \in Job
    BY <2>1, <2>2 DEF Job
  <2> QED
    BY <1>2, <2>3 DEF Request, PoolStep, P!Intents
<1>3. CASE Edit \/ FinishWrite \/ Reload \/ HandleTask \/ \E r \in Run : CancelProgress(r)
  BY <1>3 DEF Edit, FinishWrite, Reload, HandleTask, CancelProgress, PoolStep
<1>4. CASE \E t \in Threads : Receive(t)
  BY <1>4 DEF Receive, PoolStep
<1>5. CASE \E t \in Threads : Work(t)
  BY <1>5 DEF Work, Reply, Prepare, CommandEnds, Convert, Send, PoolStep
<1>6. CASE \E r \in readers : ReadOutput(r)
  BY <1>6 DEF ReadOutput, PoolStep
<1>7. CASE UNCHANGED vars
  BY <1>7 DEF vars, PoolStep
<1> QED
  BY <1>1, <1>2, <1>3, <1>4, <1>5, <1>6, <1>7 DEF Next, Loop

LEMMA CountedKeeps == TypeInv /\ [Next]_vars => Counted'
<1> SUFFICES ASSUME TypeInv, [Next]_vars PROVE Counted'
  OBVIOUS
<1>1. moves \in Nat /\ quick \in Nat /\ fresh \in Nat /\ Counted
  BY DEF TypeInv, TypeOK
<1>2. CASE UNCHANGED <<moves, quick, fresh, phase>>
  BY <1>1, <1>2 DEF Counted
<1>3. CASE Request
  BY <1>1, <1>3, BoundsAssumption DEF Request, Counted, loopVars
<1>4. CASE Edit \/ FinishWrite \/ Reload
  BY <1>1, <1>4, BoundsAssumption DEF Edit, FinishWrite, Reload, Counted, Idle
<1> QED
  BY <1>2, <1>3, <1>4 DEF Next, Loop, Start, HandleTask, CancelProgress, Receive, Work, Reply,
     Prepare, CommandEnds, Convert, Send, ReadOutput, Enter, loopVars, vars

LEMMA QueueTypes ==
  ASSUME TypeInv
  PROVE  /\ tasks \in Seq(Task)
         /\ tasks # <<>> => Head(tasks) \in Task /\ Tail(tasks) \in Seq(Task)
         /\ \A e \in Task : Append(tasks, e) \in Seq(Task)
<1>1. {"log"} \cup Results = {"log", "finished", "cancelled", "failed"}
  BY DEF Results
<1>2. tasks \in Seq(Task)
  BY <1>1 DEF TypeInv, TypeOK, Task
<1> QED
  BY <1>2, TakeHead, AddLast

LEMMA TaskAt ==
  ASSUME TypeInv, NEW i \in DOMAIN tasks
  PROVE  i \in Nat /\ tasks[i] \in Task /\ tasks[i].run \in Run
<1>1. tasks \in Seq(Task)
  BY QueueTypes
<1>2. i \in Nat /\ tasks[i] \in Task
  BY <1>1
<1> QED
  BY <1>2 DEF Task

LEMMA LogIsTask == \A r \in Run : [result |-> "log", run |-> r, fresh |-> 0] \in Task
  BY DEF Task

LEMMA LoopTypes ==
  TypeInv /\ P!TypeOK' /\ Loop => TypeOK'
<1> SUFFICES ASSUME TypeInv, P!TypeOK', Loop PROVE TypeOK'
  OBVIOUS
<1>1. CASE Start
  <2>1. generation' \in Run /\ generation' \in 0 .. MaxRuns /\ active' = generation'
    BY <1>1, BoundsAssumption DEF Start, TypeInv, TypeOK, Run
  <2>2. progress' \in [Run -> {"none", "begun", "ended"}]
    BY <1>1 DEF Start, Superseded, TypeInv, TypeOK
  <2>3. cancelled' \subseteq Run
    BY <1>1 DEF Start, TypeInv, TypeOK
  <2> QED
    BY <1>1, <2>1, <2>2, <2>3 DEF Start, TypeInv, TypeOK, runVars
<1>2. CASE Request
  BY <1>2 DEF Request, TypeInv, TypeOK, loopVars, runVars
<1>3. CASE Edit
  BY <1>3 DEF Edit, TypeInv, TypeOK, runVars
<1>4. CASE FinishWrite
  BY <1>4 DEF FinishWrite, TypeInv, TypeOK, runVars
<1>5. CASE Reload
  BY <1>5 DEF Reload, TypeInv, TypeOK, runVars
<1>6. CASE \E r \in Run : CancelProgress(r)
  BY <1>6 DEF CancelProgress, TypeInv, TypeOK, runVars
<1>7. CASE HandleTask
  <2> DEFINE task == Head(tasks)
  <2>1. task \in Task /\ tasks' \in Seq(Task) /\ task.run \in Run
    BY <1>7, QueueTypes DEF HandleTask, Task
  <2>2. /\ active' \in Run \cup {None}
        /\ progress' \in [Run -> {"none", "begun", "ended"}]
        /\ stray' \subseteq Run
        /\ store' \in [run : Run, fresh : Nat] \cup {None}
    <3> HIDE DEF task
    <3>1. CASE HandleLog(task.run)
      BY <3>1, <2>1 DEF HandleLog, TypeInv, TypeOK
    <3>2. CASE HandleResult(task)
      BY <3>2, <2>1 DEF HandleResult, EndCurrent, TypeInv, TypeOK
    <3>3. HandleLog(task.run) \/ HandleResult(task)
      BY <1>7 DEF HandleTask, task
    <3> QED
      BY <3>1, <3>2, <3>3
  <2>3. tasks' \in Seq([result : {"log", "finished", "cancelled", "failed"},
                         run : Run, fresh : Nat])
    <3>1. {"log"} \cup Results = {"log", "finished", "cancelled", "failed"}
      BY DEF Results
    <3> QED
      BY <3>1, <2>1 DEF Task
  <2>4. UNCHANGED <<phase, fresh, generation, cancelled, stage, readers, quick, moves>>
    BY <1>7 DEF HandleTask
  <2> QED
    BY <2>2, <2>3, <2>4 DEF TypeInv, TypeOK
<1> QED
  BY <1>1, <1>2, <1>3, <1>4, <1>5, <1>6, <1>7 DEF Loop

LEMMA RunTypes ==
  ASSUME TypeInv, P!TypeOK',
         (\E t \in Threads : Receive(t) \/ Work(t)) \/ (\E r \in readers : ReadOutput(r))
  PROVE  TypeOK'
<1>1. {"log"} \cup Results = {"log", "finished", "cancelled", "failed"}
  BY DEF Results
<1>2. ASSUME UNCHANGED <<loopVars, quick, moves>>,
             stage' \in [Run -> {"none", "compile", "run", "convert",
                                "finished", "cancelled", "failed", "sent"}],
             readers' \subseteq Run, tasks' \in Seq(Task)
      PROVE  TypeOK'
  BY <1>1, <1>2 DEF TypeInv, TypeOK, loopVars, Task
<1>3. CASE \E t \in Threads : Receive(t) \/ Reply(t)
  BY <1>2, <1>3, QueueTypes DEF Receive, Reply, runVars, TypeInv, TypeOK
<1>4. ASSUME NEW t \in Threads, Prepare(t) \/ CommandEnds(t) \/ Convert(t)
      PROVE  TypeOK'
  <2> DEFINE r == seat[t].job.run
  <2>1. r \in Run
    BY <1>4, AtRun DEF Prepare, CommandEnds, Convert
  <2>2. Append(tasks, [result |-> "log", run |-> r, fresh |-> 0]) \in Seq(Task)
    BY <2>1, LogIsTask, QueueTypes
  <2>3. tasks' \in Seq(Task)
    BY <1>4, <2>2, QueueTypes DEF Prepare, CommandEnds, Convert, Log
  <2>4. readers' \subseteq Run
    BY <1>4, <2>1 DEF Prepare, CommandEnds, Convert, TypeInv, TypeOK
  <2>5. stage' \in [Run -> {"none", "compile", "run", "convert",
                           "finished", "cancelled", "failed", "sent"}]
    BY <1>4, <2>1 DEF Prepare, CommandEnds, Convert, Enter, TypeInv, TypeOK
  <2>6. UNCHANGED <<loopVars, quick, moves>>
    BY <1>4 DEF Prepare, CommandEnds, Convert
  <2> QED
    BY <1>2, <2>3, <2>4, <2>5, <2>6
<1>5. ASSUME NEW t \in Threads, Send(t) PROVE TypeOK'
  <2> DEFINE r == seat[t].job.run
  <2>1. r \in Run /\ stage[r] \in Results /\ seat[t].job.fresh \in Nat
    BY <1>5, AtRun DEF Send, Results
  <2>2. [result |-> stage[r], run |-> r, fresh |-> seat[t].job.fresh] \in Task
    BY <2>1 DEF Task
  <2>3. tasks' \in Seq(Task)
    BY <1>5, <2>2, QueueTypes DEF Send
  <2>4. stage' \in [Run -> {"none", "compile", "run", "convert",
                           "finished", "cancelled", "failed", "sent"}]
    BY <1>5, <2>1 DEF Send, Enter, TypeInv, TypeOK
  <2>5. readers' \subseteq Run /\ UNCHANGED <<loopVars, quick, moves>>
    BY <1>5 DEF Send, TypeInv, TypeOK
  <2> QED
    BY <1>2, <2>3, <2>4, <2>5
<1>6. ASSUME NEW r \in readers, ReadOutput(r) PROVE TypeOK'
  <2>1. r \in Run
    BY <1>6 DEF TypeInv, TypeOK
  <2>2. Append(tasks, [result |-> "log", run |-> r, fresh |-> 0]) \in Seq(Task)
    BY <2>1, LogIsTask, QueueTypes
  <2> QED
    BY <1>2, <1>6, <2>2 DEF ReadOutput, Log, TypeInv, TypeOK
<1> QED
  BY <1>3, <1>4, <1>5, <1>6 DEF Work

LEMMA TypesKeep == TypeInv /\ Burst /\ [Next]_vars => TypeInv' /\ Burst'
<1> SUFFICES ASSUME TypeInv, Burst, [Next]_vars PROVE TypeInv' /\ Burst'
  OBVIOUS
<1>1. PoolInv' /\ Burst'
  BY StepsArePoolSteps, PoolKeeps DEF PoolInv, TypeInv, TypeOK
<1>2. CASE UNCHANGED vars
  BY <1>1, <1>2 DEF vars, loopVars, runVars, TypeInv, TypeOK, PoolInv, Counted
<1>3. CASE Next
  <2>1. TypeOK'
    BY <1>1, <1>3, LoopTypes, RunTypes DEF Next, PoolInv
  <2> QED
    BY <1>1, <2>1, CountedKeeps DEF TypeInv, PoolInv
<1> QED
  BY <1>2, <1>3

LEMMA TypesInit == Init => TypeInv /\ Burst
<1> SUFFICES ASSUME Init PROVE TypeInv /\ Burst
  OBVIOUS
<1>1. P!TypeOK
  BY DEF Init, P!Init, P!TypeOK, P!Intents, P!LATENCY_BURST
<1>2. TypeOK
  BY <1>1, BoundsAssumption DEF Init, TypeOK
<1>3. Seated /\ Burst
  BY DEF Init, P!Init, Seated, Burst, FoundNone, P!LATENCY_BURST, P!Intents
<1> QED
  BY <1>2, <1>3, BoundsAssumption DEF TypeInv, Counted, Init
------------------------------------------------------------------------------
(* The runs.                                                               *)

runInvVars == <<generation, active, store, progress, stray, stage, readers, tasks>>

LEMMA RunFrame ==
  ASSUME RunInv, UNCHANGED runInvVars
  PROVE  RunInv'
  BY DEF runInvVars, RunInv, OneProgress, OneIsActive, LogsBelong, ResultIsLast, Latest, Stored

\* While the latest run has something in the channel, it is the active one.
LEMMA Pending ==
  ASSUME TypeInv, RunInv, NEW i \in DOMAIN tasks, tasks[i].run = generation
  PROVE  /\ generation \in Run /\ progress[generation] = "begun" /\ active = generation
         /\ store # None => store.run < generation
<1>1. tasks[i].run \in Run
  BY TaskAt
<1>2. generation \in Run /\ generation # 0 /\ generation \in Nat
  BY <1>1, RunIsNat
<1>3. progress[generation] = "begun"
  BY <1>2 DEF RunInv, Latest
<1>4. active = generation
  BY <1>2, <1>3 DEF RunInv, OneProgress, OneIsActive
<1>5. ASSUME store # None PROVE store.run < generation
  <2>1. store.run \in Nat
    BY <1>5, RunIsNat DEF TypeInv, TypeOK
  <2> QED
    BY <1>2, <1>3, <1>5, <2>1 DEF RunInv, Stored
<1> QED
  BY <1>2, <1>3, <1>4, <1>5

LEMMA StartKeeps ==
  ASSUME TypeInv, RunInv, Start
  PROVE  RunInv'
<1>1. /\ generation \in Nat /\ generation' = generation + 1 /\ generation' \in Run
      /\ active' = generation' /\ active \in Run \cup {None}
      /\ progress \in [Run -> {"none", "begun", "ended"}]
      /\ progress' = [Superseded EXCEPT ![generation'] = "begun"]
      /\ UNCHANGED <<store, stray, stage, readers, tasks>>
  BY BoundsAssumption DEF Start, TypeInv, TypeOK, Run, runVars
<1>2. ASSUME NEW r \in Run
      PROVE  progress'[r] = IF r = generation' THEN "begun"
                            ELSE IF r = active THEN "ended" ELSE progress[r]
  BY <1>1, <1>2, RunIsNat DEF Superseded
<1>3. OneProgress'
  BY <1>1, <1>2 DEF RunInv, OneProgress, OneIsActive, LogsBelong
<1>4. ResultIsLast'
  BY <1>1 DEF RunInv, ResultIsLast
<1>5. Latest'
  BY <1>1, <1>2 DEF Latest
<1>6. Stored'
  <2> SUFFICES ASSUME store # None
               PROVE  store.run <= generation' /\ store.run # generation'
    BY <1>1 DEF Stored
  <2>1. store.run \in Nat /\ store.run <= generation
    BY RunIsNat DEF TypeInv, TypeOK, RunInv, Stored
  <2> QED
    BY <1>1, <2>1
<1> QED
  BY <1>3, <1>4, <1>5, <1>6 DEF RunInv

LEMMA HandleKeeps ==
  ASSUME TypeInv, RunInv, HandleTask
  PROVE  RunInv'
<1> DEFINE task == Head(tasks)
<1>1. /\ tasks # <<>> /\ tasks' = Tail(tasks)
      /\ UNCHANGED <<generation, stage, readers>>
      /\ IF task.result = "log" THEN HandleLog(task.run) ELSE HandleResult(task)
  BY DEF HandleTask
<1>2. /\ task = tasks[1] /\ 1 \in DOMAIN tasks /\ task.run \in Run
      /\ \A i \in DOMAIN tasks' : i \in Nat /\ i + 1 \in DOMAIN tasks /\ tasks'[i] = tasks[i + 1]
      /\ \A i \in DOMAIN tasks' : 1 < i + 1
  <2>1. tasks \in Seq(Task)
    BY QueueTypes
  <2>2. /\ Head(tasks) \in Task /\ Head(tasks) = tasks[1] /\ 1 \in DOMAIN tasks
        /\ Tail(tasks) \in Seq(Task)
        /\ \A i \in DOMAIN Tail(tasks) : i + 1 \in DOMAIN tasks /\ Tail(tasks)[i] = tasks[i + 1]
    BY <1>1, <2>1, TakeHead
  <2>3. \A i \in DOMAIN Tail(tasks) : i \in Nat /\ 1 < i + 1
    BY <2>2
  <2>4. task.run \in Run
    BY <2>2 DEF Task
  <2> QED
    BY <1>1, <2>2, <2>3, <2>4
<1> HIDE DEF task
<1>3. ResultIsLast'
  <2>1. \A i \in DOMAIN tasks' : tasks'[i].result # "log" => stage'[tasks'[i].run] = "sent"
    BY <1>1, <1>2 DEF RunInv, ResultIsLast
  <2>2. ASSUME NEW i \in DOMAIN tasks', NEW k \in DOMAIN tasks',
               i < k, tasks'[i].run = tasks'[k].run
        PROVE  tasks'[i].result = "log"
    <3>1. i + 1 < k + 1 /\ tasks[i + 1].run = tasks[k + 1].run
      BY <1>2, <2>2
    <3> QED
      BY <1>2, <3>1 DEF RunInv, ResultIsLast
  <2>3. \A r \in readers' : stage'[r] \in {"compile", "run"}
    BY <1>1 DEF RunInv, ResultIsLast
  <2> QED
    BY <2>1, <2>2, <2>3 DEF ResultIsLast
<1>4. Latest /\ UNCHANGED progress => Latest'
  BY <1>1, <1>2 DEF Latest
<1>5. CASE task.result = "log"
  <2>1. UNCHANGED <<active, store, progress, stray>>
    <3>1. UNCHANGED <<active, store, progress>>
      BY <1>1, <1>5 DEF HandleLog
    <3>2. task.run = generation => progress[task.run] = "begun"
      BY <1>2, Pending
    <3> QED
      BY <1>1, <1>5, <3>1, <3>2 DEF HandleLog
  <2> QED
    BY <1>1, <1>3, <1>4, <2>1 DEF RunInv, OneProgress, OneIsActive, LogsBelong, Stored
<1>6. CASE task.result # "log" /\ task.run # generation
  <2>1. UNCHANGED <<active, store, progress, stray>>
    BY <1>1, <1>6 DEF HandleResult
  <2> QED
    BY <1>1, <1>3, <1>4, <2>1 DEF RunInv, OneProgress, OneIsActive, LogsBelong, Stored
<1>7. CASE task.result # "log" /\ task.run = generation
  <2>1. /\ active = generation /\ generation \in Run /\ generation \in Nat
        /\ store # None => store.run < generation
    BY <1>2, <1>7, Pending, RunIsNat
  <2>2. /\ active' = None /\ stray' = stray
        /\ progress' = [progress EXCEPT ![generation] = "ended"]
        /\ store' = store \/ store' = [run |-> generation, fresh |-> fresh]
    BY <1>1, <1>7, <2>1 DEF HandleResult, EndCurrent
  <2>3. progress \in [Run -> {"none", "begun", "ended"}]
    BY DEF TypeInv, TypeOK
  <2>4. OneProgress'
    BY <2>1, <2>2, <2>3, RunIsNat DEF RunInv, OneProgress, OneIsActive, LogsBelong
  <2>5. stage'[generation] = "sent"
    BY <1>1, <1>2, <1>7 DEF RunInv, ResultIsLast
  <2>6. \A i \in DOMAIN tasks' : tasks'[i].run # generation
    BY <1>2, <1>7 DEF RunInv, ResultIsLast
  <2>7. Latest'
    BY <1>1, <2>5, <2>6 DEF Latest
  <2>8. Stored'
    <3>1. progress'[generation] # "begun"
      BY <2>1, <2>2, <2>3
    <3>2. store # None => store.run <= generation
      BY DEF RunInv, Stored
    <3>3. store' # None => store'.run <= generation
      BY <2>1, <2>2, <3>2
    <3> QED
      BY <1>1, <3>1, <3>3 DEF Stored
  <2> QED
    BY <1>3, <2>4, <2>7, <2>8 DEF RunInv
<1> QED
  BY <1>5, <1>6, <1>7

\* A run goes on, and sends a log or its result.
LEMMA AdvanceKeeps ==
  ASSUME TypeInv, RunInv, UNCHANGED loopVars, NEW r \in Run, stage[r] # "sent",
         stage' = stage \/ \E s : stage' = [stage EXCEPT ![r] = s],
         readers' \subseteq readers \cup {r},
         r \in readers' => stage'[r] \in {"compile", "run"},
         \/ tasks' = tasks /\ stage'[r] # "sent"
         \/ \E e \in Task : /\ tasks' = Append(tasks, e) /\ e.run = r
                            /\ e.result # "log" => stage'[r] = "sent"
  PROVE  RunInv'
<1>1. \A q \in Run : q # r => stage'[q] = stage[q]
  BY DEF TypeInv, TypeOK
<1>2. generation # 0 /\ progress[generation] # "begun" => generation # r
  BY DEF RunInv, Latest
<1>3. generation \in Run \cup {0}
  BY BoundsAssumption DEF TypeInv, TypeOK, Run
<1>4. UNCHANGED <<generation, active, store, progress, stray>>
  BY DEF loopVars
<1>5. ASSUME NEW i \in DOMAIN tasks
      PROVE  /\ i \in Nat /\ tasks[i].run \in Run
             /\ tasks[i].run = r => tasks[i].result = "log"
  <2>1. i \in Nat /\ tasks[i].run \in Run
    BY TaskAt
  <2> QED
    BY <2>1 DEF RunInv, ResultIsLast
<1>6. \A q \in readers' : stage'[q] \in {"compile", "run"}
  <2>1. readers \subseteq Run
    BY DEF TypeInv, TypeOK
  <2> QED
    BY <1>1, <2>1 DEF RunInv, ResultIsLast
<1>7. ASSUME NEW i \in DOMAIN tasks, tasks[i].result # "log"
      PROVE  stage'[tasks[i].run] = "sent"
  <2>1. stage[tasks[i].run] = "sent"
    BY <1>7 DEF RunInv, ResultIsLast
  <2> QED
    BY <1>1, <1>5, <1>7, <2>1
<1>8. ResultIsLast' /\ Latest'
  <2>1. CASE tasks' = tasks
    BY <2>1, <1>1, <1>2, <1>3, <1>4, <1>6, <1>7 DEF RunInv, ResultIsLast, Latest
  <2>2. CASE tasks' # tasks
    <3>1. PICK e \in Task : /\ tasks' = Append(tasks, e) /\ e.run = r
                            /\ e.result # "log" => stage'[r] = "sent"
      BY <2>2
    <3>2. /\ \A i \in DOMAIN tasks' :
               \/ i \in DOMAIN tasks /\ tasks'[i] = tasks[i]
               \/ i = Len(tasks) + 1 /\ tasks'[i] = e
          /\ \A i \in DOMAIN tasks : i \in Nat /\ i < Len(tasks) + 1
          /\ Len(tasks) \in Nat
      BY <3>1, QueueTypes, AddLast
    <3>3. \A i \in DOMAIN tasks' : tasks'[i].result # "log" => stage'[tasks'[i].run] = "sent"
      BY <1>7, <3>1, <3>2
    <3>4. ASSUME NEW i \in DOMAIN tasks', NEW k \in DOMAIN tasks',
                 i < k, tasks'[i].run = tasks'[k].run
          PROVE  tasks'[i].result = "log"
      <4>1. i \in DOMAIN tasks /\ tasks'[i] = tasks[i]
        BY <3>2, <3>4
      <4>2. CASE k \in DOMAIN tasks /\ tasks'[k] = tasks[k]
        BY <3>4, <4>1, <4>2 DEF RunInv, ResultIsLast
      <4>3. CASE tasks'[k] = e
        BY <1>5, <3>1, <3>4, <4>1, <4>3
      <4> QED
        BY <3>2, <4>2, <4>3
    <3>5. ResultIsLast'
      BY <1>6, <3>3, <3>4 DEF ResultIsLast
    <3>6. Latest'
      BY <1>1, <1>2, <1>3, <1>4, <3>1, <3>2 DEF RunInv, Latest
    <3> QED
      BY <3>5, <3>6
  <2> QED
    BY <2>1, <2>2
<1>9. OneProgress' /\ Stored'
  BY <1>4 DEF RunInv, OneProgress, OneIsActive, LogsBelong, Stored
<1> QED
  BY <1>8, <1>9 DEF RunInv

LEMMA WorkKeeps ==
  ASSUME TypeInv, RunInv, NEW t \in Threads, Work(t)
  PROVE  RunInv'
<1> DEFINE r == seat[t].job.run
<1>1. CASE Reply(t)
  BY <1>1, RunFrame DEF Reply, loopVars, runVars, runInvVars
<1>2. CASE Prepare(t) \/ CommandEnds(t) \/ Convert(t) \/ Send(t)
  <2>1. r \in Run /\ seat[t].job.fresh \in Nat
    BY <1>2, AtRun DEF Prepare, CommandEnds, Convert, Send
  <2>2. stage \in [Run -> {"none", "compile", "run", "convert",
                          "finished", "cancelled", "failed", "sent"}]
    BY DEF TypeInv, TypeOK
  <2>3. stage[r] # "sent" /\ r \notin readers
    BY <1>2, <2>1, AtRun DEF Prepare, CommandEnds, Convert, Send, RunInv, ResultIsLast
  <2>4. UNCHANGED loopVars
    BY <1>2 DEF Prepare, CommandEnds, Convert, Send
  <2>5. [result |-> "log", run |-> r, fresh |-> 0] \in Task
    BY <2>1, LogIsTask
  <2>6. CASE Prepare(t) \/ CommandEnds(t) \/ Convert(t)
    <3>1. PICK s \in {"compile", "run", "convert", "finished", "cancelled", "failed"} :
            /\ stage' = [stage EXCEPT ![r] = s]
            /\ \/ readers' = readers /\ tasks' = tasks
               \/ /\ readers' = readers \cup {r} /\ s \in {"compile", "run"}
                  /\ tasks' = Append(tasks, [result |-> "log", run |-> r, fresh |-> 0])
      BY <2>6 DEF Prepare, CommandEnds, Convert, Enter, Log
    <3>2. stage'[r] = s
      BY <2>1, <2>2, <3>1
    <3> HIDE DEF r
    <3>3. CASE readers' = readers /\ tasks' = tasks
      BY <2>1, <2>3, <2>4, <3>1, <3>2, <3>3, AdvanceKeeps
    <3>4. CASE /\ readers' = readers \cup {r} /\ s \in {"compile", "run"}
               /\ tasks' = Append(tasks, [result |-> "log", run |-> r, fresh |-> 0])
      BY <2>1, <2>3, <2>4, <2>5, <3>1, <3>2, <3>4, AdvanceKeeps
    <3> QED
      BY <3>1, <3>3, <3>4
  <2>7. CASE Send(t)
    <3> DEFINE e == [result |-> stage[r], run |-> r, fresh |-> seat[t].job.fresh]
    <3>1. stage[r] \in Results
      BY <2>7, AtRun DEF Send, Results
    <3>2. e \in Task /\ e.run = r
      BY <2>1, <3>1 DEF Task
    <3>3. /\ stage' = [stage EXCEPT ![r] = "sent"] /\ stage'[r] = "sent"
          /\ readers' = readers /\ tasks' = Append(tasks, e)
      BY <2>1, <2>2, <2>7 DEF Send, Enter
    <3> HIDE DEF r, e
    <3> QED
      BY <2>1, <2>3, <2>4, <3>2, <3>3, AdvanceKeeps
  <2> QED
    BY <1>2, <2>6, <2>7
<1> QED
  BY <1>1, <1>2 DEF Work

LEMMA ReadKeeps ==
  ASSUME TypeInv, RunInv, NEW r \in readers, ReadOutput(r)
  PROVE  RunInv'
<1>1. r \in Run /\ stage[r] \in {"compile", "run"}
  BY DEF TypeInv, TypeOK, RunInv, ResultIsLast
<1>2. [result |-> "log", run |-> r, fresh |-> 0] \in Task
  BY <1>1, LogIsTask
<1>3. /\ UNCHANGED loopVars /\ stage' = stage /\ readers' = readers \ {r}
      /\ tasks' = Append(tasks, [result |-> "log", run |-> r, fresh |-> 0])
  BY DEF ReadOutput, Log
<1> QED
  BY <1>1, <1>2, <1>3, AdvanceKeeps

LEMMA RunsKeep == TypeInv /\ RunInv /\ [Next]_vars => RunInv'
<1> SUFFICES ASSUME TypeInv, RunInv, [Next]_vars PROVE RunInv'
  OBVIOUS
<1>1. CASE Request \/ Edit \/ FinishWrite \/ Reload \/ (\E r \in Run : CancelProgress(r))
  BY <1>1, RunFrame DEF Request, Edit, FinishWrite, Reload, CancelProgress, loopVars, runVars, runInvVars
<1>2. CASE (\E t \in Threads : Receive(t)) \/ UNCHANGED vars
  BY <1>2, RunFrame DEF Receive, vars, loopVars, runVars, runInvVars
<1> QED
  BY <1>1, <1>2, StartKeeps, HandleKeeps, WorkKeeps, ReadKeeps DEF Next, Loop

------------------------------------------------------------------------------
\* The three parts of the invariant hold together.
THEOREM QiheInvHolds == Spec => []QiheInv
<1>1. Init => QiheInv
  <2> SUFFICES ASSUME Init PROVE QiheInv
    OBVIOUS
  <2>1. RunInv
    BY RunIsNat DEF Init, RunInv, OneProgress, OneIsActive, LogsBelong, ResultIsLast, Latest, Stored
  <2> QED
    BY <2>1, TypesInit DEF QiheInv
<1>2. QiheInv /\ [Next]_vars => QiheInv'
  BY TypesKeep, RunsKeep DEF QiheInv
<1> QED
  BY <1>1, <1>2, PTL DEF Spec

\* Every variable keeps its type, the pool's included.
THEOREM TypeOKHolds == Spec => []TypeOK
<1>1. QiheInv => TypeOK
  BY DEF QiheInv, TypeInv
<1> QED
  BY <1>1, QiheInvHolds, PTL

\* However the threads, the loop and the runs interleave, and whatever comes between
\* two looks of a thread at the channels (JobReceivers::recv).
THEOREM BurstBoundedHolds == Spec => []BurstBounded
<1>1. QiheInv => BurstBounded
  BY DEF QiheInv, Burst, BurstBounded, P!BurstBounded, P!LATENCY_BURST
<1> QED
  BY <1>1, QiheInvHolds, PTL

\* One progress at a time, with every log of the latest run in it (Qihe::start,
\* Qihe::handle).
THEOREM OneProgressHolds == Spec => []OneProgress
<1>1. QiheInv => OneProgress
  BY DEF QiheInv, RunInv
<1> QED
  BY <1>1, QiheInvHolds, PTL

\* Nothing but the result of the latest run, not cancelled and of the current text,
\* is ever committed, and none twice (Qihe::handle).
THEOREM OnlyLatestCommittedHolds == Spec => OnlyLatestCommitted
<1>1. ASSUME QiheInv, [Next]_vars, store' # store
      PROVE  /\ store'.run = generation /\ store'.run \notin cancelled
             /\ store'.fresh = fresh
             /\ store # None => store.run < store'.run
  <2>1. HandleTask
    BY <1>1 DEF Next, Loop, Start, Request, Edit, FinishWrite, Reload, CancelProgress, Receive,
       Work, Reply, Prepare, CommandEnds, Convert, Send, ReadOutput, loopVars, vars
  <2> DEFINE task == Head(tasks)
  <2>2. tasks # <<>> /\ HandleResult(task)
    BY <1>1, <2>1 DEF HandleTask, HandleLog
  <2>3. 1 \in DOMAIN tasks /\ task = tasks[1]
    BY <1>1, <2>2, QueueTypes, TakeHead DEF QiheInv
  <2>4. /\ task.run = generation /\ Commits(task)
        /\ store' = [run |-> task.run, fresh |-> fresh]
    BY <1>1, <2>2 DEF HandleResult
  <2>5. active = generation /\ (store # None => store.run < generation)
    BY <1>1, <2>3, <2>4, Pending DEF QiheInv
  <2> QED
    BY <2>4, <2>5 DEF Commits
<1> QED
  BY <1>1, QiheInvHolds, PTL DEF Spec, OnlyLatestCommitted
==============================================================================
