---------------------------------- MODULE Pool ----------------------------------
(***************************************************************************)
(* The worker pool (utils::thread): two queues, one for jobs that somebody *)
(* waits for, and threads that prefer it, each within a budget of its own. *)
(* A thread looks for a job in several steps; others come in between.      *)
(***************************************************************************)
EXTENDS Integers, Sequences

CONSTANTS Threads, Jobs, None

VARIABLES
  queue,  \* the channels, by ThreadIntent
  seat,   \* of each thread: where its loop is, its latency_budget, and its job
  passed  \* history: latency-sensitive jobs that each thread took while the first
          \* of the other jobs waited

vars == <<queue, seat, passed>>

LATENCY_BURST == 3

Intents == {"Worker", "LatencySensitive"}

Spawn(intent, job) ==
  /\ queue' = [queue EXCEPT ![intent] = Append(@, job)]
  /\ passed' = IF intent = "Worker" /\ queue["Worker"] = <<>>
               THEN [t \in Threads |-> 0] ELSE passed
  /\ UNCHANGED seat

Take(t, intent, budget) ==
  /\ queue[intent] # <<>>
  /\ queue' = [queue EXCEPT ![intent] = Tail(@)]
  /\ seat' = [seat EXCEPT ![t] = [at |-> "run", budget |-> budget, job |-> Head(queue[intent])]]
  /\ passed' = IF intent = "Worker" THEN [u \in Threads |-> 0]
               ELSE IF queue["Worker"] # <<>> THEN [passed EXCEPT ![t] = @ + 1]
               ELSE passed

Look(t, at) ==
  /\ seat' = [seat EXCEPT ![t].at = at]
  /\ UNCHANGED <<queue, passed>>

\* Bug: the budget is never used up.
TryFirst_Free(t) ==
  /\ seat[t].at = "first"
  /\ \/ Take(t, "LatencySensitive", seat[t].budget)
     \/ queue["LatencySensitive"] = <<>> /\ Look(t, "second")

\* Bug: the budget is not looked at.
TryFirst_Unchecked(t) ==
  /\ seat[t].at = "first"
  /\ \/ Take(t, "LatencySensitive", seat[t].budget - 1)
     \/ queue["LatencySensitive"] = <<>> /\ Look(t, "second")

\* JobReceivers::recv.
TryFirst(t) ==
  /\ seat[t].at = "first"
  /\ \/ seat[t].budget > 0 /\ Take(t, "LatencySensitive", seat[t].budget - 1)
     \/ (seat[t].budget = 0 \/ queue["LatencySensitive"] = <<>>) /\ Look(t, "second")

TrySecond(t) ==
  /\ seat[t].at = "second"
  /\ \/ Take(t, "Worker", LATENCY_BURST)
     \/ queue["Worker"] = <<>> /\ Look(t, "third")

TryThird(t) ==
  /\ seat[t].at = "third"
  /\ \/ Take(t, "LatencySensitive", LATENCY_BURST - 1)
     \/ queue["LatencySensitive"] = <<>> /\ Look(t, "select")

\* select! takes from either channel that has a job.
Select(t) ==
  /\ seat[t].at = "select"
  /\ Take(t, "LatencySensitive", LATENCY_BURST - 1) \/ Take(t, "Worker", LATENCY_BURST)

Receive(t) == TryFirst(t) \/ TrySecond(t) \/ TryThird(t) \/ Select(t)

\* The job returns.
Finish(t) ==
  /\ seat[t].at = "run"
  /\ seat' = [seat EXCEPT ![t].at = "first", ![t].job = None]
  /\ UNCHANGED <<queue, passed>>

Init ==
  /\ queue = [i \in Intents |-> <<>>]
  /\ seat = [t \in Threads |-> [at |-> "first", budget |-> LATENCY_BURST, job |-> None]]
  /\ passed = [t \in Threads |-> 0]

Next ==
  \/ \E intent \in Intents, job \in Jobs : Spawn(intent, job)
  \/ \E t \in Threads : Receive(t) \/ Finish(t)

Spec == Init /\ [][Next]_vars

TypeOK ==
  /\ queue \in [Intents -> Seq(Jobs)]
  /\ seat \in [Threads -> [at : {"first", "second", "third", "select", "run"},
                           budget : 0 .. LATENCY_BURST, job : Jobs \cup {None}]]
  /\ passed \in [Threads -> Nat]

\* However many latency-sensitive jobs come, and whatever the threads do between two
\* looks of one, no thread prefers more than three of them to the job that waits.
BurstBounded == \A t \in Threads : passed[t] <= LATENCY_BURST
==============================================================================
