------------------------------- MODULE Requests -------------------------------
(***************************************************************************)
(* From a request of the client to its answer.                             *)
(*                                                                         *)
(* The main loop registers a request, and answers it itself or gives it,   *)
(* with a snapshot of the analysis, to a worker.  A change of the analysis *)
(* cancels the queries of every worker and waits until no job has its      *)
(* snapshot any more; what was cancelled is tried again or answered with   *)
(* ContentModified, as the policy of the method says.  The client may      *)
(* cancel a request at any time, and shut the server down.                 *)
(***************************************************************************)
EXTENDS Naturals, Sequences

CONSTANTS
  Ids,       \* ids of requests
  None,      \* no method: the request was not sent
  MaxChanges \* bound: edits of the client, and reloads of the workspace

(* The methods differ in what the router does with them: symbols stands    *)
(* for workspace/symbol and the pull diagnostics, tokens for the semantic  *)
(* tokens, hover for those never retried, command for executeCommand.      *)
Methods == {"symbols", "tokens", "hover", "command", "shutdown", "unknown"}
Codes   == {"ok", "empty", "error", "cancelled", "modified", "invalid"}

ASSUME NoneAssumption  == None \notin Methods \cup Codes
ASSUME BoundAssumption == MaxChanges \in Nat

VARIABLES
  method,    \* what the client asks in each request it sent
  since,     \* how many edits it sent before the request
  cancels,   \* the requests it wants no more
  edits,     \* how many edits it sent
  reloads,   \* how often the workspace was loaded, at start-up too
  inbox,     \* what the main loop has not read of it
  answers,   \* the responses it got to each request
  phase,     \* of the loop: idle, write (in apply_change), or exited
  ready,     \* is_workspace_ready
  incoming,  \* ReqQueue.incoming: requests without a response
  cancelled, \* requests whose own token is cancelled
  shutdown,  \* shutdown_requested; all tokens are then cancelled
  applied,   \* edits in the analysis
  jobs,      \* of the worker pool
  tasks,     \* what the workers sent back
  committed  \* requests whose effects were applied

clientVars == <<method, since, cancels, edits>>
queueVars  == <<inbox, incoming, answers>>
tokenVars  == <<cancelled, shutdown>>
modeVars   == <<phase, ready, reloads, applied>>
workVars   == <<jobs, tasks>>
vars       == <<clientVars, queueVars, tokenVars, modeVars, workVars, committed>>

JobSet  == [id : Ids, edits : Nat,
            stage : {"queued", "running", "ok", "error", "interrupted"}]
TaskSet == [id : Ids, edits : Nat, code : Codes \cup {"retry"}]

------------------------------------------------------------------------------
(* Policies of the router, and cancellation.                               *)

\* retry_on_content_change.
Retries(m) == m \in {"symbols", "tokens"}

\* respond_before_workspace_ready.
AnswersEarly(m) == m = "symbols"

\* request_mut: the handler is run by the main loop.
OnLoop(m) == m \in {"command", "shutdown"}

\* A request's token is a child of the lifecycle's.
IsCancelled(id) == shutdown \/ id \in cancelled

\* The job still has its snapshot, which the handler drops when it returns.
HoldsSnapshot(j) == j.stage \in {"queued", "running"}

------------------------------------------------------------------------------
(* Client::respond and Router::dispatch_request, on the main loop.         *)

\* Bug: a response is sent whether or not the request still waits for one.
Respond_Unchecked(id, waiting, code, seen) ==
  /\ answers' = [answers EXCEPT ![id] = Append(@, [code |-> code, edits |-> seen])]
  /\ incoming' = waiting \ {id}

\* Only a request that is still registered is answered.
Respond(id, waiting, code, seen) ==
  /\ answers' = IF id \in waiting
                THEN [answers EXCEPT ![id] = Append(@, [code |-> code, edits |-> seen])]
                ELSE answers
  /\ incoming' = waiting \ {id}

\* The reply if the request gets one at once, else None.
ReplyAtOnce(id) ==
  IF ~ready /\ AnswersEarly(method[id])        THEN "empty"
  ELSE IF shutdown /\ method[id] # "shutdown"  THEN "invalid"
  ELSE IF method[id] = "unknown"               THEN "error"
  ELSE IF ~OnLoop(method[id])                  THEN None
  ELSE IF IsCancelled(id)                      THEN "cancelled" ELSE "ok"

\* A command of the client may fail, or request a reload of the workspace.
Dispatch(id, waiting) ==
  LET reply == ReplyAtOnce(id)
      asked == IF reply = "ok" THEN method[id] ELSE None IN
  /\ \/ /\ reply = None
        /\ jobs' = jobs \cup {[id |-> id, edits |-> applied, stage |-> "queued"]}
        /\ incoming' = waiting
        /\ UNCHANGED answers
     \/ /\ reply # None
        /\ \E code \in {reply} \cup (IF asked = "command" THEN {"error"} ELSE {}) :
             Respond(id, waiting, code, applied)
        /\ UNCHANGED jobs
  /\ shutdown' = (shutdown \/ asked = "shutdown")
  /\ ready' \in {ready} \cup (IF asked = "command" THEN {FALSE} ELSE {})

------------------------------------------------------------------------------
(* Turns of the main loop.                                                 *)

\* register_incoming, and dispatch.
HandleRequest(id) ==
  /\ Dispatch(id, incoming \cup {id})
  /\ UNCHANGED <<phase, cancelled, applied, tasks>>

\* Bug: the request is forgotten without a response.
Cancel_Silent(id) ==
  /\ incoming' = incoming \ {id}
  /\ cancelled' = cancelled \cup ({id} \cap incoming)
  /\ UNCHANGED <<phase, ready, answers, shutdown, applied, workVars>>

\* handle_cancel.
Cancel(id) ==
  /\ Respond(id, incoming, "cancelled", applied)
  /\ cancelled' = cancelled \cup ({id} \cap incoming)
  /\ UNCHANGED <<phase, ready, shutdown, applied, workVars>>

\* Bug: the turn ends without process_changes.
Edit_NotProcessed == UNCHANGED <<phase, ready, incoming, answers, tokenVars, applied, workVars>>

\* A text is changed; process_changes then has to change the analysis.
Edit ==
  /\ phase' = "write"
  /\ applied' = applied + 1
  /\ UNCHANGED <<ready, incoming, answers, tokenVars, workVars>>

\* The exit notification: the loop returns.
Exit ==
  /\ phase' = "exited"
  /\ UNCHANGED <<ready, incoming, answers, tokenVars, applied, workVars>>

HandleMessage ==
  LET n == Head(inbox) IN
  /\ phase = "idle"
  /\ inbox # <<>>
  /\ inbox' = Tail(inbox)
  /\ \/ n.kind = "request" /\ HandleRequest(n.id)
     \/ n.kind = "cancel"  /\ Cancel(n.id)
     \/ n.kind = "edit"    /\ Edit
     \/ n.kind = "exit"    /\ Exit
  /\ UNCHANGED <<clientVars, reloads, committed>>

\* A workspace is fetched and read, or has to be loaded again.
WorkspaceChanges ==
  /\ phase = "idle"
  /\ reloads < MaxChanges
  /\ IF ready
     THEN ready' = FALSE /\ UNCHANGED <<phase, reloads>>
     ELSE /\ ready' = TRUE
          /\ phase' = "write"
          /\ reloads' = reloads + 1
  /\ UNCHANGED <<clientVars, queueVars, tokenVars, applied, workVars, committed>>

\* apply_change returns only when every snapshot is dropped.
FinishWrite ==
  /\ phase = "write"
  /\ \A j \in jobs : ~HoldsSnapshot(j)
  /\ phase' = "idle"
  /\ UNCHANGED <<clientVars, queueVars, tokenVars, ready, reloads, applied, workVars, committed>>

\* Bug: a retry is dropped while the workspace loads.
ProcessRetry_IfReady(t) ==
  /\ IF t.id \in incoming /\ ready
     THEN Dispatch(t.id, incoming)
     ELSE UNCHANGED <<ready, incoming, answers, shutdown, jobs>>
  /\ UNCHANGED committed

\* process_task, of a ProtocolTask::Retry.
ProcessRetry(t) ==
  /\ IF t.id \in incoming
     THEN Dispatch(t.id, incoming)
     ELSE UNCHANGED <<ready, incoming, answers, shutdown, jobs>>
  /\ UNCHANGED committed

\* Bug: the effects of a response nobody waits for are applied.
ProcessResponse_AnyEffect(t) ==
  /\ Respond(t.id, incoming, t.code, t.edits)
  /\ committed' = IF t.code = "ok" /\ method[t.id] = "tokens" THEN committed \cup {t.id}
                  ELSE committed
  /\ UNCHANGED <<ready, shutdown, jobs>>

\* process_task, of a ProtocolTask::Response.
ProcessResponse(t) ==
  /\ Respond(t.id, incoming, t.code, t.edits)
  /\ committed' = IF t.id \in incoming /\ t.code = "ok" /\ method[t.id] = "tokens"
                  THEN committed \cup {t.id}
                  ELSE committed
  /\ UNCHANGED <<ready, shutdown, jobs>>

ProcessTask ==
  LET t == Head(tasks) IN
  /\ phase = "idle"
  /\ tasks # <<>>
  /\ tasks' = Tail(tasks)
  /\ \/ t.code = "retry" /\ ProcessRetry(t)
     \/ t.code # "retry" /\ ProcessResponse(t)
  /\ UNCHANGED <<clientVars, inbox, phase, reloads, cancelled, applied>>

------------------------------------------------------------------------------
(* Workers (Router::request).                                              *)

Workers(newJobs, newTasks) ==
  /\ jobs' = newJobs
  /\ tasks' = newTasks
  /\ UNCHANGED <<clientVars, queueVars, tokenVars, modeVars, committed>>

Returned(j, code) == Append(tasks, [id |-> j.id, edits |-> j.edits, code |-> code])

\* The handler is not called if the token is cancelled already.
Start(j) ==
  /\ j.stage = "queued"
  /\ IF IsCancelled(j.id)
     THEN Workers(jobs \ {j}, Returned(j, "cancelled"))
     ELSE Workers((jobs \ {j}) \cup {[j EXCEPT !.stage = "running"]}, tasks)

\* Queries end with Cancelled once the analysis is about to change, and a
\* handler may ask its token as well.
HandlerEnds(j) ==
  /\ j.stage = "running"
  /\ \E stage \in {"ok", "error"}
                   \cup (IF phase = "write" \/ IsCancelled(j.id) THEN {"interrupted"} ELSE {}) :
       Workers((jobs \ {j}) \cup {[j EXCEPT !.stage = stage]}, tasks)

\* Bugs: a change is reported as if the client had cancelled the request; an
\* interrupted handler's failure is passed on as it is.
CodeOf_Cancelled(j) ==
  IF j.stage = "error"                          THEN "error"
  ELSE IF IsCancelled(j.id) \/ j.stage # "ok"   THEN "cancelled" ELSE "ok"
CodeOf_AsIs(j) ==
  IF j.stage # "error" /\ IsCancelled(j.id) THEN "cancelled" ELSE j.stage

\* The check of the token after the handler, and encode_thread_result.
CodeOf(j) ==
  IF j.stage = "error"              THEN "error"
  ELSE IF IsCancelled(j.id)         THEN "cancelled"
  ELSE IF j.stage = "ok"            THEN "ok"
  ELSE IF Retries(method[j.id])     THEN "retry" ELSE "modified"

Encode(j) ==
  /\ ~HoldsSnapshot(j)
  /\ Workers(jobs \ {j}, Returned(j, CodeOf(j)))

------------------------------------------------------------------------------
(* The client.                                                             *)

Tell(message) ==
  /\ phase # "exited"
  /\ \A i \in DOMAIN inbox : inbox[i].kind # "exit"
  /\ inbox' = Append(inbox, message)
  /\ UNCHANGED <<incoming, answers, tokenVars, modeVars, workVars, committed>>

SendRequest(id, m) ==
  /\ method[id] = None
  /\ method' = [method EXCEPT ![id] = m]
  /\ since' = [since EXCEPT ![id] = edits]
  /\ Tell([kind |-> "request", id |-> id])
  /\ UNCHANGED <<cancels, edits>>

SendCancel(id) ==
  /\ method[id] # None /\ id \notin cancels
  /\ cancels' = cancels \cup {id}
  /\ Tell([kind |-> "cancel", id |-> id])
  /\ UNCHANGED <<method, since, edits>>

SendEdit ==
  /\ edits < MaxChanges
  /\ edits' = edits + 1
  /\ Tell([kind |-> "edit"])
  /\ UNCHANGED <<method, since, cancels>>

SendExit ==
  /\ Tell([kind |-> "exit"])
  /\ UNCHANGED clientVars

------------------------------------------------------------------------------
Init ==
  /\ method = [id \in Ids |-> None]
  /\ since = [id \in Ids |-> 0]
  /\ cancels = {}
  /\ edits = 0
  /\ reloads = 0
  /\ inbox = <<>>
  /\ answers = [id \in Ids |-> <<>>]
  /\ phase = "idle"
  /\ ready = FALSE
  /\ incoming = {}
  /\ cancelled = {}
  /\ shutdown = FALSE
  /\ applied = 0
  /\ jobs = {}
  /\ tasks = <<>>
  /\ committed = {}

Client == \/ \E id \in Ids, m \in Methods : SendRequest(id, m)
          \/ \E id \in Ids : SendCancel(id)
          \/ SendEdit
          \/ SendExit

Loop == HandleMessage \/ FinishWrite \/ ProcessTask

Worker == \E j \in jobs : Start(j) \/ HandlerEnds(j) \/ Encode(j)

Next == Client \/ Loop \/ WorkspaceChanges \/ Worker

Spec == Init /\ [][Next]_vars

\* The loop goes on while there is something to do, and workers do not hang.
FairSpec == Spec /\ WF_vars(Loop) /\ WF_vars(Worker)

------------------------------------------------------------------------------
(* Properties.                                                             *)

Answer == [code : Codes, edits : Nat]

\* Every variable keeps its type; what the loop waits for (in client.rs, the
\* requests registered as incoming) was asked.
TypeOK ==
  /\ method \in [Ids -> Methods \cup {None}]
  /\ since \in [Ids -> Nat]
  /\ cancels \subseteq Ids
  /\ edits \in Nat /\ reloads \in Nat /\ applied \in Nat
  /\ inbox \in Seq([kind : {"request", "cancel"}, id : Ids] \cup [kind : {"edit", "exit"}])
  /\ answers \in [Ids -> Seq(Answer)]
  /\ phase \in {"idle", "write", "exited"}
  /\ ready \in BOOLEAN /\ shutdown \in BOOLEAN
  /\ incoming \subseteq Ids
  /\ cancelled \subseteq Ids
  /\ jobs \subseteq JobSet
  /\ tasks \in Seq(TaskSet)
  /\ committed \subseteq Ids

\* A request is answered once, although its worker, its retry, the client's
\* cancellation and the shutdown all may answer it (Client::respond, cancel).
AtMostOneAnswer == \A id \in Ids : Len(answers[id]) <= 1

\* No request is forgotten: while the client waits for the answer to what the
\* loop has read, a worker has the request or has sent the loop its outcome;
\* and never two have it, whatever is retried.
NothingLost ==
  \A id \in incoming : \/ \E j \in jobs : j.id = id
                       \/ \E i \in DOMAIN tasks : tasks[i].id = id
SingleHolder ==
  /\ \A j, k \in jobs : j.id = k.id => j = k
  /\ \A i, k \in DOMAIN tasks : tasks[i].id = tasks[k].id => i = k
  /\ \A j \in jobs : \A i \in DOMAIN tasks : j.id # tasks[i].id

\* A request that waits is in one place: with one worker, or once in the task channel
\* (Router::request, process_task).
ExactlyOneHolder == NothingLost /\ SingleHolder

AnswersTo(id) == {answers[id][i] : i \in DOMAIN answers[id]}

\* A result is computed from a text that has every edit the client sent before
\* it asked, also if the request was tried again meanwhile.
AnswerSeesEdits ==
  \A id \in Ids : \A a \in AnswersTo(id) :
    a.code = "ok" => since[id] <= a.edits /\ a.edits <= edits

\* A refusal has a reason the client knows of: it cancelled the request or asked
\* for the shutdown, or it changed the text and the method is not retried.
RefusalsAreExplained ==
  LET asksShutdown == \E id \in Ids : method[id] = "shutdown" IN
  \A id \in Ids : \A a \in AnswersTo(id) :
    /\ a.code = "cancelled" => id \in cancels \/ asksShutdown
    /\ a.code = "invalid"   => asksShutdown
    /\ a.code = "modified"  => ~Retries(method[id]) /\ edits + reloads > 0

\* Semantic tokens are a base for later deltas only if the client got them
\* (ProtocolTask::Response, accepted_effects).
EffectsOnlyOfAccepted ==
  \A id \in committed : \E a \in AnswersTo(id) : a.code = "ok"

\* No worker is given a request, or starts on one, that has its answer, and none
\* at all after the shutdown (cancel, cancel_all, is_completed).
NoNeedlessWork ==
  [][\A j \in jobs' \ jobs : HoldsSnapshot(j) => answers[j.id] = <<>> /\ ~shutdown]_vars

\* Every request gets its answer, unless the client ends the server.
EventuallyAnswered ==
  \A id \in Ids : method[id] # None ~> answers[id] # <<>> \/ phase = "exited"
===============================================================================
