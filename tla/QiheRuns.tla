-------------------------------- MODULE QiheRuns --------------------------------
(***************************************************************************)
(* Qihe analyses in the background.  A run is a job of the pool that keeps *)
(* a snapshot while two external commands run one after the other; threads *)
(* read their output, and log it.  A newer run supersedes it, the client   *)
(* may cancel it by its progress token, and an edit waits for it in        *)
(* apply_change: until then the main loop reads nothing.                   *)
(***************************************************************************)
EXTENDS Integers, Sequences, FiniteSets

CONSTANTS
  Threads,
  MaxRuns,   \* bound: runs that are started
  MaxQuick,  \* bound: latency-sensitive requests
  MaxMoves,  \* bound: edits and reloads
  None

ASSUME BoundsAssumption == MaxRuns \in Nat /\ MaxQuick \in Nat /\ MaxMoves \in Nat
ASSUME NoneAssumption == None \notin Nat

Run == 1 .. MaxRuns
Job == [kind : {"qihe"}, run : Run, fresh : 0 .. MaxMoves]
         \cup [kind : {"quick"}, run : 1 .. MaxQuick, fresh : 0 .. MaxMoves]

VARIABLES
  queue, seat, passed, \* of the pool
  phase,      \* of the main loop: idle, or write while apply_change waits
  fresh,      \* DiagnosticCommitFreshness: what a snapshot taken now is of
  generation, \* run_generation
  active,     \* the run of active_progress_token and active_cancel_token
  cancelled,  \* runs whose cancellation token is cancelled
  store,      \* the result that was committed to QiheDiagnostics
  stage,      \* of each run: none, compile, run, convert, then its result
  readers,    \* runs whose command has output that was not yet logged
  tasks,      \* what the runs sent to the main loop
  progress,   \* of each run, as the client is told: none, begun, ended
  stray,      \* history: runs that were logged outside their progress
  quick, moves

P == INSTANCE Pool WITH Jobs <- Job

poolVars == <<queue, seat, passed>>
loopVars == <<phase, fresh, generation, active, cancelled, store, progress, stray>>
runVars  == <<stage, readers, tasks>>
vars     == <<poolVars, loopVars, runVars, quick, moves>>

Idle == phase = "idle"

\* The run that thread t is at, and at which stage.
At(t, s) ==
  /\ seat[t].at = "run"
  /\ seat[t].job.kind = "qihe"
  /\ stage[seat[t].job.run] = s

\* Bug: the result that is sent keeps the snapshot.
HasSnapshot_InTask ==
  \/ \E i \in P!Intents : queue[i] # <<>>
  \/ \E t \in Threads : seat[t].job # None
  \/ \E i \in DOMAIN tasks : tasks[i].result # "log"

\* A job has its snapshot from the call that spawns it until its handler returns.
HasSnapshot ==
  \/ \E i \in P!Intents : queue[i] # <<>>
  \/ \E t \in Threads : /\ seat[t].job # None
                        /\ seat[t].job.kind = "qihe"
                             => stage[seat[t].job.run] \in {"none", "compile", "run",
                                                            "convert"}

------------------------------------------------------------------------------
(* The main loop.                                                          *)

\* Bug: the older run is cancelled, and its progress left to itself.
Superseded_Silent == progress

\* end_superseded.
Superseded == IF active = None THEN progress ELSE [progress EXCEPT ![active] = "ended"]

\* Qihe::start.
Start ==
  /\ Idle
  /\ generation < MaxRuns
  /\ generation' = generation + 1
  /\ cancelled' = IF active = None THEN cancelled ELSE cancelled \cup {active}
  /\ active' = generation'
  /\ progress' = [Superseded EXCEPT ![generation'] = "begun"]
  /\ P!Spawn("Worker", [kind |-> "qihe", run |-> generation', fresh |-> fresh])
  /\ UNCHANGED <<phase, fresh, store, stray, runVars, quick, moves>>

\* cancel_progress_token: the client knows the token of any run it was told of.
CancelProgress(r) ==
  /\ Idle
  /\ r <= generation
  /\ cancelled' = IF active = r THEN cancelled \cup {r} ELSE cancelled
  /\ UNCHANGED <<poolVars, phase, fresh, generation, active, store, progress, stray,
                 runVars, quick, moves>>

\* A request that is latency-sensitive.
Request ==
  /\ Idle
  /\ quick < MaxQuick
  /\ quick' = quick + 1
  /\ P!Spawn("LatencySensitive", [kind |-> "quick", run |-> quick', fresh |-> fresh])
  /\ UNCHANGED <<loopVars, runVars, moves>>

Edit ==
  /\ Idle
  /\ moves < MaxMoves
  /\ moves' = moves + 1
  /\ phase' = "write"
  /\ UNCHANGED <<poolVars, fresh, generation, active, cancelled, store, progress, stray,
                 runVars, quick>>

FinishWrite ==
  /\ phase = "write"
  /\ ~HasSnapshot
  /\ phase' = "idle"
  /\ fresh' = fresh + 1
  /\ UNCHANGED <<poolVars, generation, active, cancelled, store, progress, stray,
                 runVars, quick, moves>>

\* A reload begins or ends: readiness_revision.  No snapshot has to go.
Reload ==
  /\ Idle
  /\ moves < MaxMoves
  /\ moves' = moves + 1
  /\ fresh' = fresh + 1
  /\ UNCHANGED <<poolVars, phase, generation, active, cancelled, store, progress, stray,
                 runVars, quick>>

HandleLog(r) ==
  /\ stray' = IF r = generation /\ progress[r] # "begun" THEN stray \cup {r} ELSE stray
  /\ UNCHANGED <<active, store, progress>>

\* end_current.
EndCurrent(r) ==
  /\ active' = IF active = r THEN None ELSE active
  /\ progress' = [progress EXCEPT ![r] = "ended"]

\* Bug: a cancelled run that has finished is committed.
Commits_Cancelled(task) == task.result = "finished" /\ task.fresh = fresh

Commits(task) ==
  /\ task.result = "finished"
  /\ ~(active = task.run /\ task.run \in cancelled)
  /\ task.fresh = fresh

HandleResult(task) ==
  /\ IF task.run # generation THEN UNCHANGED <<active, store, progress>>
     ELSE /\ EndCurrent(task.run)
          /\ store' = IF Commits(task) THEN [run |-> task.run, fresh |-> fresh] ELSE store
  /\ UNCHANGED stray

\* Qihe::handle.
HandleTask ==
  LET task == Head(tasks) IN
  /\ Idle
  /\ tasks # <<>>
  /\ tasks' = Tail(tasks)
  /\ IF task.result = "log" THEN HandleLog(task.run) ELSE HandleResult(task)
  /\ UNCHANGED <<poolVars, phase, fresh, generation, cancelled, stage, readers, quick, moves>>

------------------------------------------------------------------------------
(* The threads of the pool, and what they start.                           *)

Receive(t) == P!Receive(t) /\ UNCHANGED <<loopVars, runVars, quick, moves>>

\* The handler of a request ends, by itself or interrupted.
Reply(t) ==
  /\ seat[t].at = "run"
  /\ seat[t].job.kind = "quick"
  /\ P!Finish(t)
  /\ UNCHANGED <<loopVars, runVars, quick, moves>>

Enter(r, s) == stage' = [stage EXCEPT ![r] = s]

Log(r) == tasks' = Append(tasks, [result |-> "log", run |-> r, fresh |-> 0])

\* run_qihe_request, until the first command.  A query is cancelled by the write.
Prepare(t) ==
  LET r == seat[t].job.run IN
  /\ At(t, "none")
  /\ \/ /\ r \in cancelled \/ phase = "write"
        /\ Enter(r, "cancelled") /\ UNCHANGED <<readers, tasks>>
     \/ /\ Enter(r, "failed") /\ UNCHANGED <<readers, tasks>>
     \/ /\ r \notin cancelled
        /\ Enter(r, "compile") /\ Log(r) /\ readers' = readers \cup {r}
  /\ UNCHANGED <<poolVars, loopVars, quick, moves>>

\* stream_command_output: a line of the command.
ReadOutput(r) ==
  /\ readers' = readers \ {r}
  /\ Log(r)
  /\ UNCHANGED <<poolVars, loopVars, stage, quick, moves>>

\* The second command, or the first, exits; a cancelled one is killed.
CommandEnds(t) ==
  LET r == seat[t].job.run IN
  /\ At(t, "compile") \/ At(t, "run")
  /\ r \notin readers
  /\ \/ /\ r \in cancelled
        /\ Enter(r, "cancelled") /\ UNCHANGED <<readers, tasks>>
     \/ /\ Enter(r, "failed") /\ UNCHANGED <<readers, tasks>>
     \/ /\ At(t, "compile") /\ Enter(r, "run") /\ Log(r) /\ readers' = readers \cup {r}
     \/ /\ At(t, "run") /\ Enter(r, "convert") /\ UNCHANGED <<readers, tasks>>
  /\ UNCHANGED <<poolVars, loopVars, quick, moves>>

\* The problems are placed with queries, which a write cancels.
Convert(t) ==
  LET r == seat[t].job.run IN
  /\ At(t, "convert")
  /\ \/ (r \in cancelled \/ phase = "write") /\ Enter(r, "cancelled")
     \/ Enter(r, "failed")
     \/ r \notin cancelled /\ Enter(r, "finished")
  /\ UNCHANGED <<poolVars, loopVars, readers, tasks, quick, moves>>

\* The snapshot is gone, and the result is sent.
Send(t) ==
  LET r == seat[t].job.run IN
  /\ At(t, "finished") \/ At(t, "cancelled") \/ At(t, "failed")
  /\ tasks' = Append(tasks, [result |-> stage[r], run |-> r, fresh |-> seat[t].job.fresh])
  /\ Enter(r, "sent")
  /\ P!Finish(t)
  /\ UNCHANGED <<loopVars, readers, quick, moves>>

------------------------------------------------------------------------------
Init ==
  /\ P!Init
  /\ phase = "idle" /\ fresh = 0 /\ generation = 0 /\ active = None /\ cancelled = {}
  /\ store = None
  /\ stage = [r \in Run |-> "none"] /\ readers = {} /\ tasks = <<>>
  /\ progress = [r \in Run |-> "none"] /\ stray = {}
  /\ quick = 0 /\ moves = 0

Loop == \/ Start \/ Request \/ Edit \/ FinishWrite \/ Reload \/ HandleTask
        \/ \E r \in Run : CancelProgress(r)

Work(t) == Reply(t) \/ Prepare(t) \/ CommandEnds(t) \/ Convert(t) \/ Send(t)

Next ==
  \/ Loop
  \/ \E t \in Threads : Receive(t) \/ Work(t)
  \/ \E r \in readers : ReadOutput(r)

Spec == Init /\ [][Next]_vars

\* Threads run, pipes are read, commands end, and the loop goes on.
Fairness ==
  /\ WF_vars(HandleTask) /\ WF_vars(FinishWrite)
  /\ \A t \in Threads : WF_vars(Receive(t)) /\ WF_vars(Work(t))
  /\ \A r \in Run : WF_vars(r \in readers /\ ReadOutput(r))

FairSpec == Spec /\ Fairness

------------------------------------------------------------------------------
(* Properties.                                                             *)

\* Every variable has the type its Rust counterpart has.
TypeOK ==
  /\ P!TypeOK
  /\ phase \in {"idle", "write"} /\ fresh \in Nat
  /\ generation \in 0 .. MaxRuns /\ active \in Run \cup {None}
  /\ cancelled \subseteq Run /\ readers \subseteq Run /\ stray \subseteq Run
  /\ store \in [run : Run, fresh : Nat] \cup {None}
  /\ stage \in [Run -> {"none", "compile", "run", "convert",
                        "finished", "cancelled", "failed", "sent"}]
  /\ progress \in [Run -> {"none", "begun", "ended"}]
  /\ tasks \in Seq([result : {"log", "finished", "cancelled", "failed"},
                    run : Run, fresh : Nat])
  /\ quick \in Nat /\ moves \in Nat

\* No thread prefers more than three requests to a run that waits.
BurstBounded == P!BurstBounded

\* Whoever ends a run (itself, a newer one, the client, a failure), the client sees
\* the progress of the latest run only, and that as long as it is active.
OneIsActive == \A r \in Run : progress[r] = "begun" <=> active = r

\* What a command writes reaches the client before the progress of its run ends.
LogsBelong == stray = {}

\* One progress at a time, with the logs of its run in it (Qihe::start, end_current).
OneProgress == OneIsActive /\ LogsBelong

\* "logs, diagnostics, and progress completion from older runs are ignored once a
\* newer run starts" (qihe.rs), nor is a result committed that the client cancelled
\* or that comes from an older text.
OnlyLatestCommitted ==
  [][store' # store =>
       /\ store'.run = generation /\ store'.run \notin cancelled
       /\ store'.fresh = fresh
       /\ store # None => store.run < store'.run]_vars

\* Every progress that begins ends, whatever waits for what: the loop for a snapshot,
\* the run for a thread, the command for the threads that read its output.
EveryRunEnds == \A r \in Run : progress[r] = "begun" ~> progress[r] = "ended"

\* An edit gets through.
EveryEditApplies == phase = "write" ~> phase = "idle"

\* Neither runs nor edits wait for ever, the edit for the run's snapshot included.
EverythingEnds == EveryRunEnds /\ EveryEditApplies
==============================================================================
