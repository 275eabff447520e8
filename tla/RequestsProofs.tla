----------------------------- MODULE RequestsProofs -----------------------------
(***************************************************************************)
(* A request is answered at most once, is never lost and never worked on   *)
(* twice or in vain, its result has seen the edits before it and a refusal *)
(* has a reason, for any number of requests, edits and reloads.            *)
(*                                                                         *)
(* The argument: a request that waits for its answer is in one place, with *)
(* a worker or in the task channel, and what has left incoming without its *)
(* place being cleared has a cancelled token.  That needs to know that a   *)
(* request the loop has not read is nowhere else.                          *)
(*                                                                         *)
(* What an answer says rests on a count: of the edits that the messages    *)
(* the loop has not read will bring, so that a request is read only when   *)
(* the analysis has every edit sent before it (Counted).  Jobs and tasks   *)
(* carry what they have seen and why they are refused (JobOk, TaskOk), and *)
(* neither an edit nor a retry can take that back (Later).                 *)
(***************************************************************************)
EXTENDS Requests, SequenceTheorems, TLAPS

Message == [kind : {"request", "cancel"}, id : Ids] \cup [kind : {"edit", "exit"}]

Answered ==
  \A id \in Ids : Len(answers[id]) <= 1 /\ (id \in incoming => answers[id] = <<>>)

\* Who works for nobody finds its token cancelled.
Abandoned == \A j \in jobs : j.id \in incoming \/ IsCancelled(j.id)

HasJob(id)  == \E j \in jobs : j.id = id
HasTask(id) == \E i \in DOMAIN tasks : tasks[i].id = id
Touched(id) == id \in incoming \/ answers[id] # <<>> \/ HasJob(id) \/ HasTask(id)

IsRequest(i) == inbox[i].kind = "request"

\* The loop has not seen a request it has not read.
Unread ==
  /\ \A id \in Ids : method[id] = None => ~Touched(id)
  /\ \A i \in DOMAIN inbox : IsRequest(i) => method[inbox[i].id] # None /\ ~Touched(inbox[i].id)
  /\ \A i, k \in DOMAIN inbox : IsRequest(i) /\ IsRequest(k) /\ inbox[i].id = inbox[k].id => i = k

\* The channel has every task but those of a request, as if that were taken.
Taken(id) ==
  /\ tasks' \in Seq(TaskSet)
  /\ \A i \in DOMAIN tasks' : tasks'[i].id # id /\ \E k \in DOMAIN tasks : tasks'[i] = tasks[k]
  /\ \A k \in DOMAIN tasks : tasks[k].id # id => \E i \in DOMAIN tasks' : tasks'[i] = tasks[k]
  /\ \A i, k \in DOMAIN tasks' : tasks'[i].id = tasks'[k].id => i = k

WorkInv == NothingLost /\ SingleHolder /\ Abandoned
ReqInv  == TypeOK /\ Answered /\ WorkInv /\ Unread /\ EffectsOnlyOfAccepted

------------------------------------------------------------------------------
(* Queues.                                                                 *)

LEMMA TakeHead ==
  ASSUME NEW S, NEW s \in Seq(S), s # <<>>
  PROVE  /\ Head(s) \in S /\ Head(s) = s[1] /\ 1 \in DOMAIN s
         /\ Tail(s) \in Seq(S)
         /\ \A i \in DOMAIN Tail(s) : i + 1 \in DOMAIN s /\ Tail(s)[i] = s[i + 1]
         /\ \A i \in DOMAIN s : i # 1 => i - 1 \in DOMAIN Tail(s) /\ Tail(s)[i - 1] = s[i]
OBVIOUS

LEMMA AddLast ==
  ASSUME NEW S, NEW s \in Seq(S), NEW e \in S
  PROVE  /\ Append(s, e) \in Seq(S)
         /\ Len(s) + 1 \in DOMAIN Append(s, e) /\ Append(s, e)[Len(s) + 1] = e
         /\ \A i \in DOMAIN s : i \in DOMAIN Append(s, e) /\ Append(s, e)[i] = s[i]
         /\ \A i \in DOMAIN Append(s, e) : i \in DOMAIN s \/ i = Len(s) + 1
OBVIOUS

------------------------------------------------------------------------------
(* Responses and dispatch.                                                 *)

\* A response answers its request if that waits, and no other.
LEMMA RespondEffect ==
  ASSUME TypeOK, NEW waiting \in SUBSET Ids, NEW id \in Ids, NEW code \in Codes, NEW seen \in Nat,
         \A k \in Ids : Len(answers[k]) <= 1 /\ (k \in waiting => answers[k] = <<>>),
         Respond(id, waiting, code, seen)
  PROVE  /\ answers' \in [Ids -> Seq(Answer)]
         /\ incoming' = waiting \ {id}
         /\ Answered'
         /\ \A k \in Ids : k # id => answers'[k] = answers[k]
         /\ \A k \in Ids : AnswersTo(k) \subseteq AnswersTo(k)'
         /\ id \in waiting => [code |-> code, edits |-> seen] \in AnswersTo(id)'
         /\ id \notin waiting => answers' = answers
<1> DEFINE a == [code |-> code, edits |-> seen]
<1>1. a \in Answer
  BY DEF Answer
<1>2. answers \in [Ids -> Seq(Answer)]
  BY DEF TypeOK
<1>3. CASE id \notin waiting
  BY <1>2, <1>3 DEF Respond, Answered, AnswersTo
<1>4. CASE id \in waiting
  <2>1. answers[id] = <<>>
    BY <1>4
  <2>2. answers' = [answers EXCEPT ![id] = Append(<<>>, a)]
    BY <1>4, <2>1 DEF Respond
  <2>3. Append(<<>>, a) = <<a>>
    OBVIOUS
  <2> HIDE DEF a
  <2>4. <<a>> \in Seq(Answer) /\ Len(<<a>>) = 1 /\ DOMAIN <<a>> = {1} /\ <<a>>[1] = a
    BY <1>1
  <2>5. answers'[id] = <<a>> /\ \A k \in Ids : k # id => answers'[k] = answers[k]
    BY <1>2, <2>2, <2>3
  <2>6. answers' \in [Ids -> Seq(Answer)]
    BY <1>2, <2>2, <2>3, <2>4
  <2>7. incoming' = waiting \ {id}
    BY DEF Respond
  <2>8. a \in AnswersTo(id)' /\ AnswersTo(id) = {}
    BY <2>1, <2>4, <2>5 DEF AnswersTo
  <2>9. \A k \in Ids : AnswersTo(k) \subseteq AnswersTo(k)'
    BY <2>5, <2>8 DEF AnswersTo
  <2>10. Answered'
    <3>1. ASSUME NEW k \in Ids PROVE Len(answers'[k]) <= 1
      <4>1. CASE k = id BY <4>1, <2>4, <2>5
      <4>2. CASE k # id BY <4>2, <2>5
      <4> QED BY <4>1, <4>2
    <3>2. ASSUME NEW k \in incoming' PROVE answers'[k] = <<>>
      BY <2>5, <2>7, <3>2
    <3> QED BY <3>1, <3>2 DEF Answered
  <2>11. \A k \in Ids : k # id => answers'[k] = answers[k]
    BY <2>5
  <2>12. [code |-> code, edits |-> seen] \in AnswersTo(id)'
    BY <2>8 DEF a
  <2> QED BY <1>4, <2>6, <2>7, <2>9, <2>10, <2>11, <2>12
<1> QED BY <1>3, <1>4

LEMMA EffectsKept ==
  ASSUME EffectsOnlyOfAccepted, committed' = committed, committed \subseteq Ids,
         \A k \in Ids : AnswersTo(k) \subseteq AnswersTo(k)'
  PROVE  EffectsOnlyOfAccepted'
BY DEF EffectsOnlyOfAccepted

\* The loop answers a request that no worker has, or gives it to one.
LEMMA DispatchEffect ==
  ASSUME ReqInv, NEW id \in Ids, method[id] \in Methods, answers[id] = <<>>, ~HasJob(id),
         Taken(id), Dispatch(id, incoming \cup {id}), UNCHANGED <<cancelled, committed>>
  PROVE  /\ answers' \in [Ids -> Seq(Answer)] /\ incoming' \subseteq Ids
         /\ jobs' \subseteq JobSet /\ shutdown' \in BOOLEAN /\ ready' \in BOOLEAN
         /\ Answered' /\ WorkInv' /\ EffectsOnlyOfAccepted'
         /\ \A k \in Ids : k # id /\ Touched(k)' => Touched(k)
         /\ \A j \in jobs' \ jobs : j.id = id /\ ~shutdown
<1> DEFINE new == [id |-> id, edits |-> applied, stage |-> "queued"]
<1>1. PICK W \in SUBSET Ids : W = incoming \cup {id}
  BY DEF ReqInv, TypeOK
<1>2. applied \in Nat /\ jobs \subseteq JobSet /\ ready \in BOOLEAN /\ shutdown \in BOOLEAN
      /\ incoming \subseteq Ids /\ committed \subseteq Ids
  BY DEF ReqInv, TypeOK
<1>3. shutdown' \in BOOLEAN /\ ready' \in BOOLEAN /\ (shutdown => shutdown')
  BY <1>2 DEF Dispatch
<1>4. \A k \in Ids : Len(answers[k]) <= 1 /\ (k \in W => answers[k] = <<>>)
  BY <1>1 DEF ReqInv, Answered
<1>5. CASE ReplyAtOnce(id) = None
  <2>1. jobs' = jobs \cup {new} /\ incoming' = incoming \cup {id} /\ answers' = answers
    BY <1>5, NoneAssumption DEF Dispatch
  <2>2. new \in JobSet /\ new.id = id
    BY <1>2 DEF JobSet
  <2>3. ~shutdown
    BY <1>5, NoneAssumption DEF ReplyAtOnce, Methods, Codes, OnLoop
  <2> HIDE DEF new
  <2>4. Answered' /\ answers' \in [Ids -> Seq(Answer)]
    BY <2>1, <1>4, <1>1 DEF Answered, ReqInv, TypeOK
  <2>5. NothingLost'
    <3>1. ASSUME NEW k \in incoming', k # id PROVE HasJob(k)' \/ HasTask(k)'
      BY <3>1, <2>1 DEF Taken, ReqInv, WorkInv, NothingLost, HasJob, HasTask
    <3>2. HasJob(id)'
      BY <2>1, <2>2 DEF HasJob
    <3> QED BY <3>1, <3>2 DEF NothingLost, HasJob, HasTask
  <2>6. SingleHolder'
    BY <2>1, <2>2 DEF ReqInv, WorkInv, SingleHolder, Taken, HasJob
  <2>7. Abandoned'
    BY <2>1, <2>2, <1>3 DEF ReqInv, WorkInv, Abandoned, IsCancelled
  <2>8. EffectsOnlyOfAccepted'
    BY <2>1 DEF ReqInv, EffectsOnlyOfAccepted, AnswersTo
  <2>9. ASSUME NEW k \in Ids, k # id, Touched(k)' PROVE Touched(k)
    BY <2>1, <2>2, <2>9 DEF Touched, HasJob, HasTask, Taken
  <2> QED BY <1>2, <1>3, <2>1, <2>2, <2>3, <2>4, <2>5, <2>6, <2>7, <2>8, <2>9 DEF WorkInv
<1>6. CASE ReplyAtOnce(id) # None
  <2>1. PICK code \in Codes : Respond(id, incoming \cup {id}, code, applied)
    BY <1>6 DEF Dispatch, ReplyAtOnce, Codes
  <2>2. jobs' = jobs
    BY <1>6 DEF Dispatch
  <2>3. PICK seen \in Nat : seen = applied
    BY <1>2
  <2>4. /\ answers' \in [Ids -> Seq(Answer)] /\ incoming' = incoming \ {id} /\ Answered'
        /\ \A k \in Ids : k # id => answers'[k] = answers[k]
        /\ \A k \in Ids : AnswersTo(k) \subseteq AnswersTo(k)'
    <3>1. Respond(id, W, code, seen)
      BY <2>1, <2>3, <1>1
    <3>2. W \ {id} = incoming \ {id}
      BY <1>1
    <3> QED BY <3>1, <3>2, <1>4, RespondEffect DEF ReqInv
  <2>5. NothingLost'
    BY <2>2, <2>4 DEF Taken, ReqInv, WorkInv, NothingLost
  <2>6. SingleHolder'
    BY <2>2 DEF ReqInv, WorkInv, SingleHolder, Taken
  <2>7. Abandoned'
    BY <2>2, <2>4, <1>3 DEF ReqInv, WorkInv, Abandoned, IsCancelled, HasJob
  <2>8. EffectsOnlyOfAccepted'
    BY <2>4, <1>2, EffectsKept DEF ReqInv
  <2>9. ASSUME NEW k \in Ids, k # id, Touched(k)' PROVE Touched(k)
    BY <2>2, <2>4, <2>9 DEF Touched, HasJob, HasTask, Taken
  <2> QED BY <1>2, <1>3, <2>2, <2>4, <2>5, <2>6, <2>7, <2>8, <2>9 DEF WorkInv
<1> QED BY <1>5, <1>6

------------------------------------------------------------------------------
(* What is enough for the requests the loop has not read.                  *)

LEMMA UnreadKept ==
  ASSUME Unread, UNCHANGED <<method, inbox>>, \A k \in Ids : Touched(k)' => Touched(k),
         inbox \in Seq(Message)
  PROVE  Unread'
<1>1. \A i \in DOMAIN inbox : IsRequest(i) => inbox[i].id \in Ids
  BY DEF IsRequest, Message
<1> QED BY <1>1 DEF Unread, IsRequest

\* A message is taken; if it is a request it was the only one of its id.
LEMMA UnreadTaken ==
  ASSUME ReqInv, inbox # <<>>, inbox' = Tail(inbox), UNCHANGED method,
         \A k \in Ids : Touched(k)' => Touched(k) \/ (IsRequest(1) /\ inbox[1].id = k)
  PROVE  Unread'
<1>1. inbox \in Seq(Message)
  BY DEF ReqInv, TypeOK, Message
<1>2. \A i \in DOMAIN Tail(inbox) : i + 1 \in DOMAIN inbox /\ Tail(inbox)[i] = inbox[i + 1]
  BY <1>1, TakeHead
<1>3. 1 \in DOMAIN inbox
  BY <1>1, TakeHead
<1>4. ASSUME NEW k \in Ids, method[k] = None PROVE ~Touched(k)'
  BY <1>3, <1>4 DEF ReqInv, Unread
<1>5. ASSUME NEW i \in DOMAIN inbox', IsRequest(i)'
      PROVE  (method[inbox[i].id] # None /\ ~Touched(inbox[i].id))'
  <2>1. i + 1 \in DOMAIN inbox /\ inbox'[i] = inbox[i + 1] /\ IsRequest(i + 1)
    BY <1>2, <1>5 DEF IsRequest
  <2>2. inbox[i + 1].id \in Ids
    BY <1>1, <2>1 DEF IsRequest, Message
  <2>3. i + 1 # 1
    BY <1>5
  <2>4. PICK k \in Ids : k = inbox[i + 1].id
    BY <2>2
  <2>5. method[k] # None /\ ~Touched(k) /\ ~(IsRequest(1) /\ inbox[1].id = k)
    BY <2>1, <2>3, <2>4, <1>3 DEF ReqInv, Unread
  <2>6. ~Touched(k)'
    BY <2>5
  <2>7. k = (inbox[i].id)'
    BY <2>1, <2>4
  <2>8. (method[k] # None /\ ~Touched(k))'
    BY <2>5, <2>6
  <2> QED BY <2>7, <2>8
<1>6. ASSUME NEW i \in DOMAIN inbox', NEW k \in DOMAIN inbox', IsRequest(i)', IsRequest(k)',
             inbox'[i].id = inbox'[k].id
      PROVE  i = k
  BY <1>2, <1>6 DEF ReqInv, Unread, IsRequest
<1> QED BY <1>4, <1>5, <1>6 DEF Unread

\* A response for nobody's job, or none's but an abandoned one's, keeps the work.
LEMMA CancelEffect ==
  ASSUME ReqInv, NEW id \in Ids, Cancel(id), UNCHANGED committed
  PROVE  /\ answers' \in [Ids -> Seq(Answer)] /\ incoming' \subseteq Ids /\ cancelled' \subseteq Ids
         /\ Answered' /\ WorkInv' /\ EffectsOnlyOfAccepted'
         /\ \A k \in Ids : Touched(k)' => Touched(k)
<1>1. PICK W \in SUBSET Ids : W = incoming
  BY DEF ReqInv, TypeOK
<1>2. PICK seen \in Nat : seen = applied
  BY DEF ReqInv, TypeOK
<1>3. /\ answers' \in [Ids -> Seq(Answer)] /\ incoming' = incoming \ {id} /\ Answered'
      /\ \A k \in Ids : k # id => answers'[k] = answers[k]
      /\ \A k \in Ids : AnswersTo(k) \subseteq AnswersTo(k)'
      /\ id \notin incoming => answers' = answers
  <2>1. Respond(id, W, "cancelled", seen)
    BY <1>1, <1>2 DEF Cancel
  <2>2. "cancelled" \in Codes /\ \A k \in Ids : Len(answers[k]) <= 1 /\ (k \in W => answers[k] = <<>>)
    BY <1>1 DEF ReqInv, Answered, Codes
  <2> QED BY <2>1, <2>2, <1>1, RespondEffect DEF ReqInv
<1>4. UNCHANGED <<jobs, tasks, shutdown>> /\ cancelled' = cancelled \cup ({id} \cap incoming)
  BY DEF Cancel, workVars
<1>5. NothingLost' /\ SingleHolder'
  BY <1>3, <1>4 DEF ReqInv, WorkInv, NothingLost, SingleHolder
<1>6. Abandoned'
  BY <1>3, <1>4 DEF ReqInv, WorkInv, Abandoned, IsCancelled
<1>7. EffectsOnlyOfAccepted'
  BY <1>3, EffectsKept DEF ReqInv, TypeOK
<1>8. \A k \in Ids : Touched(k)' => Touched(k)
  BY <1>3, <1>4 DEF Touched, HasJob, HasTask
<1> QED BY <1>3, <1>4, <1>5, <1>6, <1>7, <1>8 DEF WorkInv, ReqInv, TypeOK

LEMMA HandleMessageInv == ReqInv /\ HandleMessage => ReqInv'
<1> SUFFICES ASSUME ReqInv, HandleMessage PROVE ReqInv'
  OBVIOUS
<1>1. inbox \in Seq(Message) /\ inbox # <<>> /\ inbox' = Tail(inbox)
  BY DEF ReqInv, TypeOK, Message, HandleMessage
<1>2. 1 \in DOMAIN inbox /\ inbox[1] = Head(inbox) /\ Head(inbox) \in Message /\ inbox' \in Seq(Message)
  BY <1>1, TakeHead
<1>3. UNCHANGED <<method, since, cancels, edits, reloads, committed>>
  BY DEF HandleMessage, clientVars
<1>4. CASE Head(inbox).kind = "request" /\ HandleRequest(Head(inbox).id)
  <2>1. PICK id \in Ids : id = Head(inbox).id
    BY <1>2, <1>4 DEF Message
  <2>2. ~Touched(id) /\ method[id] \in Methods /\ IsRequest(1) /\ inbox[1].id = id
    BY <1>2, <1>4, <2>1 DEF ReqInv, Unread, TypeOK, IsRequest
  <2>3. Dispatch(id, incoming \cup {id}) /\ UNCHANGED <<phase, cancelled, applied, tasks>>
    BY <1>4, <2>1 DEF HandleRequest
  <2>4. Taken(id)
    BY <2>2, <2>3 DEF Taken, Touched, HasTask, ReqInv, TypeOK, WorkInv, SingleHolder
  <2>5. answers[id] = <<>> /\ ~HasJob(id)
    BY <2>2 DEF Touched
  <2>6. /\ answers' \in [Ids -> Seq(Answer)] /\ incoming' \subseteq Ids
        /\ jobs' \subseteq JobSet /\ shutdown' \in BOOLEAN /\ ready' \in BOOLEAN
        /\ Answered' /\ WorkInv' /\ EffectsOnlyOfAccepted'
        /\ \A k \in Ids : k # id /\ Touched(k)' => Touched(k)
    BY <1>3, <2>2, <2>3, <2>4, <2>5, DispatchEffect
  <2>7. Unread'
    BY <1>1, <1>3, <2>2, <2>6, UnreadTaken
  <2>8. TypeOK'
    BY <1>2, <1>3, <2>3, <2>6 DEF ReqInv, TypeOK, Message
  <2> QED BY <2>6, <2>7, <2>8 DEF ReqInv
<1>5. CASE Head(inbox).kind = "cancel" /\ Cancel(Head(inbox).id)
  <2>1. PICK id \in Ids : id = Head(inbox).id
    BY <1>2, <1>5 DEF Message
  <2>2. Cancel(id) /\ UNCHANGED <<phase, ready, shutdown, applied, jobs, tasks>>
    BY <1>5, <2>1 DEF Cancel, workVars
  <2>3. /\ answers' \in [Ids -> Seq(Answer)] /\ incoming' \subseteq Ids /\ cancelled' \subseteq Ids
        /\ Answered' /\ WorkInv' /\ EffectsOnlyOfAccepted'
        /\ \A k \in Ids : Touched(k)' => Touched(k)
    BY <1>3, <2>2, CancelEffect
  <2>4. Unread'
    BY <1>1, <1>3, <2>3, UnreadTaken
  <2>5. TypeOK'
    BY <1>2, <1>3, <2>2, <2>3 DEF ReqInv, TypeOK, Message
  <2> QED BY <2>3, <2>4, <2>5 DEF ReqInv
<1>6. CASE Edit \/ Exit
  <2>1. UNCHANGED <<ready, incoming, answers, cancelled, shutdown, jobs, tasks>>
    BY <1>6 DEF Edit, Exit, tokenVars, workVars
  <2>2. phase' \in {"idle", "write", "exited"} /\ applied' \in Nat
    BY <1>6 DEF Edit, Exit, ReqInv, TypeOK
  <2>3. TypeOK'
    BY <1>2, <1>3, <2>1, <2>2 DEF ReqInv, TypeOK, Message
  <2>4. Unread'
    BY <1>1, <1>3, <2>1, UnreadTaken DEF Touched, HasJob, HasTask
  <2> QED BY <1>3, <2>1, <2>3, <2>4
        DEF ReqInv, Answered, WorkInv, NothingLost, SingleHolder, Abandoned, IsCancelled,
            EffectsOnlyOfAccepted, AnswersTo
<1> QED BY <1>4, <1>5, <1>6 DEF HandleMessage

------------------------------------------------------------------------------
(* The outcomes the workers sent.                                          *)

\* Taking the first task takes the only one of its request.
LEMMA HeadTaken ==
  ASSUME ReqInv, tasks # <<>>, tasks' = Tail(tasks), NEW id \in Ids, id = Head(tasks).id
  PROVE  Taken(id) /\ ~HasJob(id) /\ HasTask(id)
<1>1. tasks \in Seq(TaskSet)
  BY DEF ReqInv, TypeOK
<1>2. /\ Head(tasks) = tasks[1] /\ 1 \in DOMAIN tasks /\ tasks' \in Seq(TaskSet)
      /\ \A i \in DOMAIN tasks' : i + 1 \in DOMAIN tasks /\ tasks'[i] = tasks[i + 1]
      /\ \A i \in DOMAIN tasks : i # 1 => i - 1 \in DOMAIN tasks' /\ tasks'[i - 1] = tasks[i]
  BY <1>1, TakeHead
<1>3. \A i, k \in DOMAIN tasks : tasks[i].id = tasks[k].id => i = k
  BY DEF ReqInv, WorkInv, SingleHolder
<1>4. ASSUME NEW i \in DOMAIN tasks'
      PROVE  tasks'[i].id # id /\ \E k \in DOMAIN tasks : tasks'[i] = tasks[k]
  <2>1. i + 1 \in DOMAIN tasks /\ tasks'[i] = tasks[i + 1] /\ i + 1 # 1
    BY <1>2
  <2> QED BY <1>2, <1>3, <2>1
<1>5. \A k \in DOMAIN tasks : tasks[k].id # id => \E i \in DOMAIN tasks' : tasks'[i] = tasks[k]
  BY <1>2
<1>6. ASSUME NEW i \in DOMAIN tasks', NEW k \in DOMAIN tasks', tasks'[i].id = tasks'[k].id
      PROVE  i = k
  <2>1. i + 1 = k + 1
    BY <1>2, <1>3, <1>6
  <2> QED BY <2>1, <1>2
<1>7. ~HasJob(id) /\ HasTask(id)
  BY <1>2 DEF HasJob, HasTask, ReqInv, WorkInv, SingleHolder
<1> QED BY <1>2, <1>4, <1>5, <1>6, <1>7 DEF Taken

LEMMA ProcessTaskInv == ReqInv /\ ProcessTask => ReqInv'
<1> SUFFICES ASSUME ReqInv, ProcessTask PROVE ReqInv'
  OBVIOUS
<1>1. tasks \in Seq(TaskSet) /\ tasks # <<>> /\ tasks' = Tail(tasks)
  BY DEF ReqInv, TypeOK, ProcessTask
<1>2. PICK t \in TaskSet : t = Head(tasks)
  BY <1>1, TakeHead
<1>3. PICK id \in Ids : id = t.id
  BY DEF TaskSet
<1>4. Taken(id) /\ ~HasJob(id) /\ HasTask(id)
  BY <1>1, <1>2, <1>3, HeadTaken
<1>5. UNCHANGED <<method, since, cancels, edits, inbox, phase, reloads, cancelled, applied>>
  BY DEF ProcessTask, clientVars
<1>6. method[id] \in Methods
  <2>1. method[id] # None
    BY <1>4 DEF ReqInv, Unread, Touched
  <2> QED BY <2>1 DEF ReqInv, TypeOK
<1>7. inbox \in Seq(Message) /\ tasks' \in Seq(TaskSet)
  BY <1>4 DEF ReqInv, TypeOK, Message, Taken
<1>8. CASE t.code = "retry" /\ ProcessRetry(t) /\ id \in incoming
  <2>1. Dispatch(id, incoming \cup {id}) /\ committed' = committed
    <3>1. incoming \cup {id} = incoming
      BY <1>8
    <3> QED BY <1>3, <1>8, <3>1 DEF ProcessRetry
  <2>2. answers[id] = <<>>
    BY <1>8 DEF ReqInv, Answered
  <2>3. /\ answers' \in [Ids -> Seq(Answer)] /\ incoming' \subseteq Ids
        /\ jobs' \subseteq JobSet /\ shutdown' \in BOOLEAN /\ ready' \in BOOLEAN
        /\ Answered' /\ WorkInv' /\ EffectsOnlyOfAccepted'
        /\ \A k \in Ids : k # id /\ Touched(k)' => Touched(k)
    BY <1>4, <1>5, <1>6, <2>1, <2>2, DispatchEffect
  <2>4. \A k \in Ids : Touched(k)' => Touched(k)
    BY <1>4, <2>3 DEF Touched
  <2>5. Unread'
    BY <1>5, <1>7, <2>4, UnreadKept DEF ReqInv
  <2>6. TypeOK'
    BY <1>5, <1>7, <2>1, <2>3 DEF ReqInv, TypeOK
  <2> QED BY <2>3, <2>5, <2>6 DEF ReqInv
<1>9. ASSUME jobs' = jobs, shutdown' = shutdown, ready' = ready,
             answers' \in [Ids -> Seq(Answer)], incoming' = incoming \ {id}, Answered',
             \A k \in Ids : k # id => answers'[k] = answers[k],
             EffectsOnlyOfAccepted', committed' \subseteq Ids
      PROVE  ReqInv'
  <2>1. NothingLost' /\ SingleHolder'
    BY <1>4, <1>9 DEF Taken, ReqInv, WorkInv, NothingLost, SingleHolder
  <2>2. Abandoned'
    BY <1>4, <1>5, <1>9 DEF ReqInv, WorkInv, Abandoned, IsCancelled, HasJob
  <2>3. \A k \in Ids : Touched(k)' => Touched(k)
    BY <1>4, <1>9 DEF Touched, HasJob, HasTask, Taken
  <2>4. Unread'
    BY <1>5, <1>7, <2>3, UnreadKept DEF ReqInv
  <2>5. TypeOK'
    BY <1>5, <1>7, <1>9 DEF ReqInv, TypeOK
  <2> QED BY <1>9, <2>1, <2>2, <2>4, <2>5 DEF ReqInv, WorkInv
<1>10. CASE t.code = "retry" /\ ProcessRetry(t) /\ id \notin incoming
  <2>1. UNCHANGED <<ready, incoming, answers, shutdown, jobs, committed>>
    BY <1>3, <1>10 DEF ProcessRetry
  <2>2. incoming' = incoming \ {id}
    BY <1>10, <2>1
  <2>3. Answered' /\ EffectsOnlyOfAccepted'
    BY <2>1 DEF ReqInv, Answered, EffectsOnlyOfAccepted, AnswersTo
  <2> QED BY <1>9, <2>1, <2>2, <2>3 DEF ReqInv, TypeOK
<1>11. CASE t.code # "retry" /\ ProcessResponse(t)
  <2>1. PICK W \in SUBSET Ids : W = incoming
    BY DEF ReqInv, TypeOK
  <2>2. t.code \in Codes /\ t.edits \in Nat
    BY <1>11 DEF TaskSet
  <2>3. Respond(id, W, t.code, t.edits) /\ UNCHANGED <<ready, shutdown, jobs>>
    BY <1>3, <1>11, <2>1 DEF ProcessResponse
  <2>4. \A k \in Ids : Len(answers[k]) <= 1 /\ (k \in W => answers[k] = <<>>)
    BY <2>1 DEF ReqInv, Answered
  <2>5. /\ answers' \in [Ids -> Seq(Answer)] /\ incoming' = incoming \ {id} /\ Answered'
        /\ \A k \in Ids : k # id => answers'[k] = answers[k]
        /\ \A k \in Ids : AnswersTo(k) \subseteq AnswersTo(k)'
        /\ id \in incoming => [code |-> t.code, edits |-> t.edits] \in AnswersTo(id)'
    BY <2>1, <2>2, <2>3, <2>4, RespondEffect DEF ReqInv
  <2>6. CASE id \in incoming /\ t.code = "ok"
    <3>1. committed' \subseteq committed \cup {id}
      BY <1>3, <1>11 DEF ProcessResponse
    <3>2. \E a \in AnswersTo(id)' : a.code = "ok"
      BY <2>5, <2>6
    <3>3. \A k \in committed : \E a \in AnswersTo(k)' : a.code = "ok"
      BY <2>5 DEF ReqInv, EffectsOnlyOfAccepted, TypeOK
    <3>4. EffectsOnlyOfAccepted' /\ committed' \subseteq Ids
      BY <3>1, <3>2, <3>3 DEF EffectsOnlyOfAccepted, ReqInv, TypeOK
    <3> QED BY <1>9, <2>3, <2>5, <3>4
  <2>7. CASE ~(id \in incoming /\ t.code = "ok")
    <3>1. committed' = committed
      BY <1>3, <1>11, <2>7 DEF ProcessResponse
    <3>2. EffectsOnlyOfAccepted' /\ committed' \subseteq Ids
      BY <2>5, <3>1, EffectsKept DEF ReqInv, TypeOK
    <3> QED BY <1>9, <2>3, <2>5, <3>2
  <2> QED BY <2>6, <2>7
<1> QED BY <1>2, <1>8, <1>10, <1>11 DEF ProcessTask

------------------------------------------------------------------------------
(* Workers.                                                                *)

\* A job moves on, or its outcome takes its place.
LEMMA WorkersInv ==
  ASSUME ReqInv, NEW j \in jobs,
         \/ \E k \in JobSet : k.id = j.id /\ Workers((jobs \ {j}) \cup {k}, tasks)
         \/ \E t \in TaskSet : t.id = j.id /\ Workers(jobs \ {j}, Append(tasks, t))
  PROVE  ReqInv'
<1>1. tasks \in Seq(TaskSet) /\ jobs \subseteq JobSet /\ j.id \in Ids /\ inbox \in Seq(Message)
  BY DEF ReqInv, TypeOK, JobSet, Message
<1>2. UNCHANGED <<method, since, cancels, edits, inbox, incoming, answers, cancelled, shutdown,
                  phase, ready, reloads, applied, committed>>
  BY DEF Workers, clientVars, queueVars, tokenVars, modeVars
<1>3. ASSUME jobs' \subseteq JobSet, tasks' \in Seq(TaskSet), SingleHolder',
             \A k \in Ids : HasJob(k)' \/ HasTask(k)' <=> HasJob(k) \/ HasTask(k),
             \A k \in Ids : HasJob(k)' => HasJob(k)
      PROVE  ReqInv'
  <2>1. Answered' /\ EffectsOnlyOfAccepted'
    BY <1>2 DEF ReqInv, Answered, EffectsOnlyOfAccepted, AnswersTo
  <2>2. NothingLost'
    BY <1>2, <1>3 DEF ReqInv, TypeOK, WorkInv, NothingLost, HasJob, HasTask
  <2>3. Abandoned'
    <3>1. \A i \in jobs' : i.id \in Ids
      BY <1>3 DEF JobSet
    <3> QED BY <1>2, <1>3, <3>1 DEF ReqInv, WorkInv, Abandoned, IsCancelled, HasJob
  <2>4. \A k \in Ids : Touched(k)' => Touched(k)
    BY <1>2, <1>3 DEF Touched
  <2>5. Unread'
    BY <1>1, <1>2, <2>4, UnreadKept DEF ReqInv
  <2>6. TypeOK'
    BY <1>2, <1>3 DEF ReqInv, TypeOK
  <2> QED BY <1>3, <2>1, <2>2, <2>3, <2>5, <2>6 DEF ReqInv, WorkInv
<1>4. ASSUME NEW k \in JobSet, k.id = j.id, Workers((jobs \ {j}) \cup {k}, tasks)
      PROVE  ReqInv'
  <2>1. jobs' = (jobs \ {j}) \cup {k} /\ tasks' = tasks
    BY <1>4 DEF Workers
  <2>2. SingleHolder'
    BY <1>4, <2>1 DEF ReqInv, WorkInv, SingleHolder
  <2>3. \A i \in Ids : (HasJob(i)' <=> HasJob(i)) /\ (HasTask(i)' <=> HasTask(i))
    BY <1>4, <2>1 DEF HasJob, HasTask
  <2> QED BY <1>1, <1>3, <2>1, <2>2, <2>3
<1>5. ASSUME NEW t \in TaskSet, t.id = j.id, Workers(jobs \ {j}, Append(tasks, t))
      PROVE  ReqInv'
  <2>1. jobs' = jobs \ {j} /\ tasks' = Append(tasks, t)
    BY <1>5 DEF Workers
  <2>2. /\ tasks' \in Seq(TaskSet)
        /\ Len(tasks) + 1 \in DOMAIN tasks' /\ tasks'[Len(tasks) + 1] = t
        /\ \A i \in DOMAIN tasks : i \in DOMAIN tasks' /\ tasks'[i] = tasks[i]
        /\ \A i \in DOMAIN tasks' : i \in DOMAIN tasks \/ i = Len(tasks) + 1
    BY <1>1, <2>1, AddLast
  <2>3. SingleHolder'
    <3>1. ASSUME NEW i \in DOMAIN tasks', NEW k \in DOMAIN tasks', tasks'[i].id = tasks'[k].id
          PROVE  i = k
      BY <1>5, <2>2, <3>1 DEF ReqInv, WorkInv, SingleHolder
    <3>2. ASSUME NEW i \in jobs', NEW k \in DOMAIN tasks' PROVE i.id # tasks'[k].id
      BY <1>5, <2>1, <2>2 DEF ReqInv, WorkInv, SingleHolder
    <3>3. \A i, k \in jobs' : i.id = k.id => i = k
      BY <2>1 DEF ReqInv, WorkInv, SingleHolder
    <3> QED BY <3>1, <3>2, <3>3 DEF SingleHolder
  <2>4. \A i \in Ids : HasJob(i)' => HasJob(i)
    BY <2>1 DEF HasJob
  <2>5. \A i \in Ids : HasTask(i)' <=> HasTask(i) \/ i = j.id
    BY <1>5, <2>2 DEF HasTask
  <2>6. \A i \in Ids : HasJob(i) => HasJob(i)' \/ i = j.id
    BY <2>1 DEF HasJob
  <2>7. HasJob(j.id)
    BY DEF HasJob
  <2>8. jobs' \subseteq JobSet
    BY <1>1, <2>1
  <2> QED BY <1>3, <2>2, <2>3, <2>4, <2>5, <2>6, <2>7, <2>8
<1> QED BY <1>4, <1>5

LEMMA WorkerInv ==
  ASSUME ReqInv, NEW j \in jobs, Start(j) \/ HandlerEnds(j) \/ Encode(j)
  PROVE  ReqInv'
<1>1. j \in JobSet
  BY DEF ReqInv, TypeOK
<1>2. ASSUME NEW code \in Codes \cup {"retry"}, NEW t, t = [id |-> j.id, edits |-> j.edits, code |-> code]
      PROVE  t \in TaskSet /\ t.id = j.id
  BY <1>1, <1>2 DEF JobSet, TaskSet
<1>3. ASSUME NEW stage \in {"running", "ok", "error", "interrupted"}
      PROVE  [j EXCEPT !.stage = stage] \in JobSet /\ [j EXCEPT !.stage = stage].id = j.id
  BY <1>1, <1>3 DEF JobSet
<1>4. CASE Start(j)
  <2>1. CASE IsCancelled(j.id)
    <3>1. Workers(jobs \ {j}, Append(tasks, [id |-> j.id, edits |-> j.edits, code |-> "cancelled"]))
      BY <1>4, <2>1 DEF Start, Returned
    <3>2. "cancelled" \in Codes
      BY DEF Codes
    <3> QED BY <1>2, <3>1, <3>2, WorkersInv
  <2>2. CASE ~IsCancelled(j.id)
    BY <1>3, <1>4, <2>2, WorkersInv DEF Start
  <2> QED BY <2>1, <2>2
<1>5. CASE HandlerEnds(j)
  <2>1. PICK stage \in {"ok", "error", "interrupted"} :
          Workers((jobs \ {j}) \cup {[j EXCEPT !.stage = stage]}, tasks)
    BY <1>5 DEF HandlerEnds
  <2> QED BY <1>3, <2>1, WorkersInv
<1>6. CASE Encode(j)
  <2>1. PICK code \in Codes \cup {"retry"} : code = CodeOf(j)
    BY DEF CodeOf, Codes
  <2>2. Workers(jobs \ {j}, Append(tasks, [id |-> j.id, edits |-> j.edits, code |-> code]))
    BY <1>6, <2>1 DEF Encode, Returned
  <2> QED BY <1>2, <2>2, WorkersInv
<1> QED BY <1>4, <1>5, <1>6

------------------------------------------------------------------------------
(* The other steps.                                                        *)

LEMMA InitInv == Init => ReqInv
<1> SUFFICES ASSUME Init PROVE ReqInv
  OBVIOUS
<1>1. DOMAIN inbox = {} /\ DOMAIN tasks = {}
  BY DEF Init
<1>2. TypeOK
  <2>1. <<>> \in Seq(Answer) /\ <<>> \in Seq(TaskSet) /\ <<>> \in Seq(Message)
    OBVIOUS
  <2>2. answers \in [Ids -> Seq(Answer)]
    BY <2>1 DEF Init
  <2>3. method \in [Ids -> Methods \cup {None}] /\ since \in [Ids -> Nat]
    BY DEF Init
  <2> QED BY <2>1, <2>2, <2>3 DEF Init, TypeOK, Message
<1>3. Answered /\ WorkInv /\ EffectsOnlyOfAccepted
  BY <1>1 DEF Init, Answered, WorkInv, NothingLost, SingleHolder, Abandoned, EffectsOnlyOfAccepted
<1>4. Unread
  BY <1>1 DEF Init, Unread, Touched, HasJob, HasTask
<1> QED BY <1>2, <1>3, <1>4 DEF ReqInv

\* Whatever changes neither a request nor its place keeps the invariant.
LEMMA FrameInv ==
  ASSUME ReqInv, TypeOK',
         UNCHANGED <<method, inbox, incoming, answers, cancelled, shutdown, jobs, tasks, committed>>
  PROVE  ReqInv'
<1>1. Unread'
  BY UnreadKept DEF ReqInv, TypeOK, Message, Touched, HasJob, HasTask
<1> QED BY <1>1
        DEF ReqInv, Answered, WorkInv, NothingLost, SingleHolder, Abandoned, IsCancelled,
            EffectsOnlyOfAccepted, AnswersTo

LEMMA OtherLoopInv == ReqInv /\ (FinishWrite \/ WorkspaceChanges) => ReqInv'
<1> SUFFICES ASSUME ReqInv, FinishWrite \/ WorkspaceChanges PROVE ReqInv'
  OBVIOUS
<1>1. UNCHANGED <<method, since, cancels, edits, inbox, incoming, answers, cancelled, shutdown,
                  applied, jobs, tasks, committed>>
  BY DEF FinishWrite, WorkspaceChanges, clientVars, queueVars, tokenVars, workVars
<1>2. phase' \in {"idle", "write", "exited"} /\ ready' \in BOOLEAN /\ reloads' \in Nat
  <2>1. CASE FinishWrite
    BY <2>1 DEF FinishWrite, ReqInv, TypeOK
  <2>2. CASE WorkspaceChanges /\ ready
    BY <2>2 DEF WorkspaceChanges, ReqInv, TypeOK
  <2>3. CASE WorkspaceChanges /\ ~ready
    BY <2>3 DEF WorkspaceChanges, ReqInv, TypeOK
  <2> QED BY <2>1, <2>2, <2>3
<1>3. TypeOK'
  BY <1>1, <1>2 DEF ReqInv, TypeOK
<1> QED BY <1>1, <1>3, FrameInv

\* A message of the client, which is no request or one of a new id.
LEMMA TellInv ==
  ASSUME ReqInv, NEW message \in Message, Tell(message),
         method' \in [Ids -> Methods \cup {None}], since' \in [Ids -> Nat], cancels' \subseteq Ids,
         edits' \in Nat,
         \A k \in Ids : method'[k] = None => method[k] = None,
         message.kind = "request" => method[message.id] = None /\ method'[message.id] # None,
         \A k \in Ids : method[k] # None => method'[k] # None,
         \A i \in DOMAIN inbox : IsRequest(i) => method[inbox[i].id] # None
  PROVE  ReqInv'
<1>1. inbox \in Seq(Message)
  BY DEF ReqInv, TypeOK, Message
<1>2. UNCHANGED <<incoming, answers, cancelled, shutdown, phase, ready, reloads, applied, jobs, tasks,
                  committed>> /\ inbox' = Append(inbox, message)
  BY DEF Tell, tokenVars, modeVars, workVars
<1>3. /\ inbox' \in Seq(Message)
      /\ Len(inbox) + 1 \in DOMAIN inbox' /\ inbox'[Len(inbox) + 1] = message
      /\ \A i \in DOMAIN inbox : i \in DOMAIN inbox' /\ inbox'[i] = inbox[i]
      /\ \A i \in DOMAIN inbox' : i \in DOMAIN inbox \/ i = Len(inbox) + 1
  BY <1>1, <1>2, AddLast
<1>4. \A k \in Ids : Touched(k)' <=> Touched(k)
  BY <1>2 DEF Touched, HasJob, HasTask
<1>5. \A i \in DOMAIN inbox : IsRequest(i) => inbox[i].id \in Ids
  BY <1>1 DEF IsRequest, Message
<1>6. Unread'
  <2>1. ASSUME NEW k \in Ids, method'[k] = None PROVE ~Touched(k)'
    BY <1>4, <2>1 DEF ReqInv, Unread
  <2>2. ASSUME NEW i \in DOMAIN inbox', IsRequest(i)'
        PROVE  (method[inbox[i].id] # None /\ ~Touched(inbox[i].id))'
    <3>1. CASE i \in DOMAIN inbox
      <4>1. PICK k \in Ids : k = inbox[i].id
        BY <1>3, <1>5, <2>2, <3>1 DEF IsRequest
      <4>2. method[k] # None /\ ~Touched(k)
        BY <1>3, <2>2, <3>1, <4>1 DEF IsRequest, ReqInv, Unread
      <4>3. (method[k] # None /\ ~Touched(k))' /\ k = (inbox[i].id)'
        BY <1>3, <1>4, <3>1, <4>1, <4>2
      <4> QED BY <4>3
    <3>2. CASE i \notin DOMAIN inbox
      <4>1. inbox'[i] = message
        BY <1>3, <2>2, <3>2
      <4>2. PICK k \in Ids : k = message.id
        BY <2>2, <4>1 DEF IsRequest, Message
      <4>3. method[k] = None /\ method'[k] # None
        BY <2>2, <4>1, <4>2 DEF IsRequest
      <4>4. ~Touched(k)
        BY <4>3 DEF ReqInv, Unread
      <4>5. (method[k] # None /\ ~Touched(k))' /\ k = (inbox[i].id)'
        BY <1>4, <4>1, <4>2, <4>3, <4>4
      <4> QED BY <4>5
    <3> QED BY <3>1, <3>2
  <2>3. ASSUME NEW i \in DOMAIN inbox', NEW k \in DOMAIN inbox', IsRequest(i)', IsRequest(k)',
               inbox'[i].id = inbox'[k].id
        PROVE  i = k
    <3>1. CASE i \in DOMAIN inbox /\ k \in DOMAIN inbox
      BY <1>3, <2>3, <3>1 DEF ReqInv, Unread, IsRequest
    <3>2. CASE i \notin DOMAIN inbox /\ k \in DOMAIN inbox
      <4>1. inbox'[i] = message /\ inbox'[k] = inbox[k]
        BY <1>3, <2>3, <3>2
      <4>2. method[message.id] = None /\ method[inbox[k].id] # None
        BY <2>3, <3>2, <4>1 DEF IsRequest
      <4> QED BY <2>3, <4>1, <4>2
    <3>3. CASE i \in DOMAIN inbox /\ k \notin DOMAIN inbox
      <4>1. inbox'[k] = message /\ inbox'[i] = inbox[i]
        BY <1>3, <2>3, <3>3
      <4>2. method[message.id] = None /\ method[inbox[i].id] # None
        BY <2>3, <3>3, <4>1 DEF IsRequest
      <4> QED BY <2>3, <4>1, <4>2
    <3>4. CASE i \notin DOMAIN inbox /\ k \notin DOMAIN inbox
      BY <1>3, <3>4
    <3> QED BY <3>1, <3>2, <3>3, <3>4
  <2> QED BY <2>1, <2>2, <2>3 DEF Unread
<1>7. TypeOK'
  BY <1>2, <1>3 DEF ReqInv, TypeOK, Message
<1> QED BY <1>2, <1>6, <1>7
        DEF ReqInv, Answered, WorkInv, NothingLost, SingleHolder, Abandoned, IsCancelled,
            EffectsOnlyOfAccepted, AnswersTo

LEMMA ClientInv == ReqInv /\ Client => ReqInv'
<1> SUFFICES ASSUME ReqInv, Client PROVE ReqInv'
  OBVIOUS
<1>1. \A i \in DOMAIN inbox : IsRequest(i) => method[inbox[i].id] # None
  BY DEF ReqInv, Unread
<1>2. method \in [Ids -> Methods \cup {None}] /\ since \in [Ids -> Nat] /\ cancels \subseteq Ids /\ edits \in Nat
  BY DEF ReqInv, TypeOK
<1>3. ASSUME NEW id \in Ids, NEW m \in Methods, SendRequest(id, m) PROVE ReqInv'
  <2>1. PICK message \in Message : message = [kind |-> "request", id |-> id]
    BY DEF Message
  <2>2. /\ method[id] = None /\ method' = [method EXCEPT ![id] = m] /\ since' = [since EXCEPT ![id] = edits]
        /\ Tell(message) /\ UNCHANGED <<cancels, edits>>
    BY <1>3, <2>1 DEF SendRequest
  <2>3. m # None
    BY NoneAssumption
  <2> QED BY <1>1, <1>2, <2>1, <2>2, <2>3, TellInv
<1>4. ASSUME NEW id \in Ids, SendCancel(id) PROVE ReqInv'
  <2>1. PICK message \in Message : message = [kind |-> "cancel", id |-> id]
    BY DEF Message
  <2>2. cancels' = cancels \cup {id} /\ Tell(message) /\ UNCHANGED <<method, since, edits>>
    BY <1>4, <2>1 DEF SendCancel
  <2> QED BY <1>1, <1>2, <2>1, <2>2, TellInv
<1>5. CASE SendEdit
  <2>1. PICK message \in Message : message = [kind |-> "edit"]
    BY DEF Message
  <2> QED BY <1>1, <1>2, <1>5, <2>1, TellInv DEF SendEdit
<1>6. CASE SendExit
  <2>1. PICK message \in Message : message = [kind |-> "exit"]
    BY DEF Message
  <2> QED BY <1>1, <1>2, <1>6, <2>1, TellInv DEF SendExit, clientVars
<1> QED BY <1>3, <1>4, <1>5, <1>6 DEF Client

LEMMA StutterInv == ReqInv /\ UNCHANGED vars => ReqInv'
<1> SUFFICES ASSUME ReqInv, UNCHANGED vars PROVE ReqInv'
  OBVIOUS
<1>1. UNCHANGED <<method, since, cancels, edits, reloads, inbox, answers, phase, ready, incoming,
                  cancelled, shutdown, applied, jobs, tasks, committed>>
  BY DEF vars, clientVars, queueVars, tokenVars, modeVars, workVars
<1>2. TypeOK'
  BY <1>1 DEF ReqInv, TypeOK
<1> QED BY <1>1, <1>2, FrameInv

LEMMA NextInv == ReqInv /\ [Next]_vars => ReqInv'
BY HandleMessageInv, ProcessTaskInv, WorkerInv, OtherLoopInv, ClientInv, StutterInv
   DEF Next, Loop, Worker

------------------------------------------------------------------------------
(* Theorems.                                                               *)

\* The inductive invariant: types, at most one answer, one place for a request
\* that waits, a cancelled token for abandoned work, and nothing known of a
\* request the loop has not read (client.rs, router.rs).
THEOREM ReqInvHolds == Spec => []ReqInv
BY InitInv, NextInv, PTL DEF Spec

\* A request gets at most one response (Client::respond, Client::cancel).
THEOREM AtMostOneAnswerHolds == Spec => []AtMostOneAnswer
<1>1. ReqInv => AtMostOneAnswer
  BY DEF ReqInv, Answered, AtMostOneAnswer
<1> QED BY <1>1, ReqInvHolds, PTL

\* No request is lost between the main loop and the workers (Router::request,
\* process_task).
THEOREM NothingLostHolds == Spec => []NothingLost
<1>1. ReqInv => NothingLost
  BY DEF ReqInv, WorkInv
<1> QED BY <1>1, ReqInvHolds, PTL

\* A request that waits for its answer is in one place: with one worker, or once in the
\* task channel.
THEOREM ExactlyOneHolderHolds == Spec => []ExactlyOneHolder
<1>1. ReqInv => ExactlyOneHolder
  BY DEF ReqInv, WorkInv, ExactlyOneHolder
<1> QED BY <1>1, ReqInvHolds, PTL

\* No request is worked on twice at a time, however often it is retried
\* (ProtocolTask::Retry).
THEOREM SingleHolderHolds == Spec => []SingleHolder
<1>1. ReqInv => SingleHolder
  BY DEF ReqInv, WorkInv
<1> QED BY <1>1, ReqInvHolds, PTL

\* Effects are applied only with a response the client gets (process_task).
THEOREM EffectsOnlyOfAcceptedHolds == Spec => []EffectsOnlyOfAccepted
<1>1. ReqInv => EffectsOnlyOfAccepted
  BY DEF ReqInv
<1> QED BY <1>1, ReqInvHolds, PTL

\* Every variable keeps its type.
THEOREM TypeOKHolds == Spec => []TypeOK
<1>1. ReqInv => TypeOK
  BY DEF ReqInv
<1> QED BY <1>1, ReqInvHolds, PTL

\* A worker is never given, and never starts on, a request that has its answer
\* or comes after the shutdown (Client::cancel, cancel_all, is_completed).
THEOREM NoNeedlessWorkHolds == Spec => NoNeedlessWork
<1> DEFINE Needed == \A j \in jobs' \ jobs : HoldsSnapshot(j) => answers[j.id] = <<>> /\ ~shutdown
<1>1. ReqInv /\ Next => Needed
  <2> SUFFICES ASSUME ReqInv, Next PROVE Needed
    OBVIOUS
  <2>1. CASE Client
    BY <2>1 DEF Client, SendRequest, SendCancel, SendEdit, SendExit, Tell, workVars
  <2>2. CASE FinishWrite \/ WorkspaceChanges
    BY <2>2 DEF FinishWrite, WorkspaceChanges, workVars
  <2>3. CASE HandleMessage
    <3>1. CASE Head(inbox).kind = "request" /\ HandleRequest(Head(inbox).id)
      <4>1. inbox \in Seq(Message) /\ inbox # <<>>
        BY <2>3 DEF HandleMessage, ReqInv, TypeOK, Message
      <4>2. Head(inbox) \in Message /\ Head(inbox) = inbox[1] /\ 1 \in DOMAIN inbox
        BY <4>1, TakeHead
      <4>3. PICK id \in Ids : id = Head(inbox).id
        BY <3>1, <4>2 DEF Message
      <4>4. ~Touched(id) /\ method[id] \in Methods
        BY <3>1, <4>2, <4>3 DEF ReqInv, Unread, TypeOK, IsRequest
      <4>5. Dispatch(id, incoming \cup {id}) /\ UNCHANGED <<cancelled, committed, tasks>>
        BY <2>3, <3>1, <4>3 DEF HandleRequest, HandleMessage
      <4>6. Taken(id) /\ answers[id] = <<>> /\ ~HasJob(id)
        BY <4>4, <4>5 DEF Taken, Touched, HasTask, ReqInv, TypeOK, WorkInv, SingleHolder
      <4>7. \A j \in jobs' \ jobs : j.id = id /\ ~shutdown
        BY <4>4, <4>5, <4>6, DispatchEffect
      <4> QED BY <4>6, <4>7
    <3>2. CASE Cancel(Head(inbox).id) \/ Edit \/ Exit
      BY <3>2 DEF Cancel, Edit, Exit, workVars
    <3> QED BY <2>3, <3>1, <3>2 DEF HandleMessage
  <2>4. CASE ProcessTask
    <3>1. tasks \in Seq(TaskSet) /\ tasks # <<>> /\ tasks' = Tail(tasks) /\ cancelled' = cancelled
      BY <2>4 DEF ProcessTask, ReqInv, TypeOK
    <3>2. PICK t \in TaskSet : t = Head(tasks)
      BY <3>1, TakeHead
    <3>3. PICK id \in Ids : id = t.id
      BY DEF TaskSet
    <3>4. Taken(id) /\ ~HasJob(id) /\ HasTask(id)
      BY <3>1, <3>2, <3>3, HeadTaken
    <3>5. CASE ProcessRetry(t) /\ id \in incoming
      <4>1. incoming \cup {id} = incoming
        BY <3>5
      <4>2. Dispatch(id, incoming \cup {id}) /\ committed' = committed
        BY <3>3, <3>5, <4>1 DEF ProcessRetry
      <4>3. method[id] \in Methods /\ answers[id] = <<>>
        BY <3>4, <3>5 DEF ReqInv, Unread, Touched, TypeOK, Answered
      <4>4. \A j \in jobs' \ jobs : j.id = id /\ ~shutdown
        BY <3>1, <3>4, <4>2, <4>3, DispatchEffect
      <4> QED BY <4>3, <4>4
    <3>6. CASE ProcessResponse(t) \/ (ProcessRetry(t) /\ id \notin incoming)
      BY <3>3, <3>6 DEF ProcessResponse, ProcessRetry
    <3> QED BY <2>4, <3>2, <3>5, <3>6 DEF ProcessTask
  <2>5. ASSUME NEW j \in jobs, Start(j) \/ HandlerEnds(j) \/ Encode(j) PROVE Needed
    <3>1. CASE Start(j) /\ ~IsCancelled(j.id)
      <4>1. j.id \in incoming /\ ~shutdown
        BY <3>1 DEF ReqInv, WorkInv, Abandoned, IsCancelled
      <4>2. answers[j.id] = <<>>
        BY <4>1 DEF ReqInv, Answered, TypeOK
      <4>3. jobs' = (jobs \ {j}) \cup {[j EXCEPT !.stage = "running"]}
        BY <3>1 DEF Start, Workers
      <4>4. [j EXCEPT !.stage = "running"].id = j.id
        BY DEF ReqInv, TypeOK, JobSet
      <4> QED BY <4>1, <4>2, <4>3, <4>4
    <3>2. CASE Start(j) /\ IsCancelled(j.id)
      BY <3>2 DEF Start, Workers
    <3>3. CASE HandlerEnds(j)
      <4>1. PICK stage \in {"ok", "error", "interrupted"} :
              jobs' = (jobs \ {j}) \cup {[j EXCEPT !.stage = stage]}
        BY <3>3 DEF HandlerEnds, Workers
      <4>2. ~HoldsSnapshot([j EXCEPT !.stage = stage])
        BY DEF HoldsSnapshot, ReqInv, TypeOK, JobSet
      <4> QED BY <4>1, <4>2
    <3>4. CASE Encode(j)
      BY <3>4 DEF Encode, Workers
    <3> QED BY <2>5, <3>1, <3>2, <3>3, <3>4
  <2> QED BY <2>1, <2>2, <2>3, <2>4, <2>5 DEF Next, Loop, Worker
<1>2. ReqInv /\ [Next]_vars => [Needed]_vars
  BY <1>1
<1> QED BY <1>2, ReqInvHolds, PTL DEF Spec, NoNeedlessWork

------------------------------------------------------------------------------
(* What an answer has seen, and why a request is refused.                  *)

\* f[i] is the number of edits in the analysis when message i is read.
Counted ==
  \E f \in [1 .. Len(inbox) + 1 -> 0 .. edits] :
    /\ f[1] = applied /\ f[Len(inbox) + 1] = edits
    /\ \A i \in 1 .. Len(inbox) :
         /\ f[i + 1] = f[i] + (IF inbox[i].kind = "edit" THEN 1 ELSE 0)
         /\ inbox[i].kind = "request" => since[inbox[i].id] <= f[i]

Sees(id, n) == since[id] <= n /\ n <= applied

AsksShutdown == \E id \in Ids : method[id] = "shutdown"
Changed      == edits + reloads > 0

Reason(id, code) ==
  /\ code = "cancelled" => id \in cancels \/ AsksShutdown
  /\ code = "invalid"   => AsksShutdown
  /\ code = "modified"  => ~Retries(method[id]) /\ Changed

JobOk(j)        == Sees(j.id, j.edits) /\ (j.stage = "interrupted" => IsCancelled(j.id) \/ Changed)
TaskOk(t)       == Sees(t.id, t.edits) /\ Reason(t.id, t.code)
AnswerOk(id, a) == (a.code = "ok" => Sees(id, a.edits)) /\ Reason(id, a.code)

IsSent(t) == \E i \in DOMAIN tasks : tasks[i] = t

AllOk ==
  /\ \A j \in jobs : JobOk(j)
  /\ \A t \in TaskSet : IsSent(t) => TaskOk(t)
  /\ \A id \in Ids : \A a \in AnswersTo(id) : AnswerOk(id, a)

Causes ==
  /\ shutdown => AsksShutdown
  /\ cancelled \subseteq cancels
  /\ \A i \in DOMAIN inbox : inbox[i].kind = "cancel" => inbox[i].id \in cancels
  /\ phase = "write" => applied + reloads > 0

AnswerInv == Counted /\ AllOk /\ Causes

\* What a step may do to the client's side and to the counters.
Grows ==
  /\ \A k \in Ids : Touched(k) => since'[k] = since[k] /\ method'[k] = method[k]
  /\ \A k \in Ids : method[k] # None => method'[k] = method[k]
  /\ cancels \subseteq cancels' /\ cancelled \subseteq cancelled' /\ (shutdown => shutdown')
  /\ edits <= edits' /\ reloads <= reloads' /\ applied <= applied'

LEMMA ServerGrows ==
  ASSUME TypeOK, UNCHANGED <<method, since, cancels, edits>>, cancelled \subseteq cancelled',
         shutdown => shutdown', reloads' \in {reloads, reloads + 1}, applied' \in {applied, applied + 1}
  PROVE  Grows
<1>1. edits <= edits' /\ reloads <= reloads' /\ applied <= applied'
  BY DEF TypeOK
<1> QED BY <1>1 DEF Grows

------------------------------------------------------------------------------
(* What has been seen stays seen, and a reason stays one.                  *)

LEMMA Later ==
  ASSUME TypeOK, TypeOK', Grows, NEW k \in Ids, Touched(k)
  PROVE  /\ \A n \in Nat : Sees(k, n) => Sees(k, n)'
         /\ \A c : Reason(k, c) => Reason(k, c)'
         /\ IsCancelled(k) \/ Changed => IsCancelled(k)' \/ Changed'
<1>1. since'[k] = since[k] /\ method'[k] = method[k]
  BY DEF Grows
<1>2. /\ since[k] \in Nat /\ applied \in Nat /\ applied' \in Nat /\ applied <= applied'
      /\ edits \in Nat /\ edits' \in Nat /\ edits <= edits'
      /\ reloads \in Nat /\ reloads' \in Nat /\ reloads <= reloads'
  BY DEF TypeOK, Grows
<1>3. Changed => Changed'
  <2>1. ASSUME NEW a \in Nat, NEW b \in Nat, NEW c \in Nat, NEW d \in Nat, a <= c, b <= d, a + b > 0
        PROVE  c + d > 0
    BY <2>1
  <2> QED BY <1>2, <2>1 DEF Changed
<1>4. AsksShutdown => AsksShutdown'
  BY NoneAssumption DEF AsksShutdown, Grows, Methods
<1>5. \A n \in Nat : Sees(k, n) => Sees(k, n)'
  BY <1>1, <1>2 DEF Sees
<1>6. \A c : Reason(k, c) => Reason(k, c)'
  BY <1>1, <1>3, <1>4 DEF Reason, Grows
<1>7. IsCancelled(k) => IsCancelled(k)'
  BY DEF IsCancelled, Grows
<1> QED BY <1>3, <1>5, <1>6, <1>7

\* Enough to look at what is new.
LEMMA AllOkKept ==
  ASSUME ReqInv, AnswerInv, TypeOK', Grows,
         \A j \in jobs' : j \in jobs \/ JobOk(j)',
         \A t \in TaskSet : IsSent(t)' => IsSent(t) \/ TaskOk(t)',
         \A id \in Ids : \A a \in AnswersTo(id)' : a \in AnswersTo(id) \/ AnswerOk(id, a)'
  PROVE  AllOk'
<1>1. TypeOK /\ AllOk
  BY DEF ReqInv, AnswerInv
<1>2. ASSUME NEW j \in jobs PROVE JobOk(j)'
  <2>1. j.id \in Ids /\ j.edits \in Nat /\ Touched(j.id)
    BY <1>1 DEF TypeOK, JobSet, Touched, HasJob
  <2>2. JobOk(j)
    BY <1>1 DEF AllOk
  <2> QED BY <1>1, <2>1, <2>2, Later DEF JobOk
<1>3. ASSUME NEW t \in TaskSet, IsSent(t) PROVE TaskOk(t)'
  <2>1. t.id \in Ids /\ t.edits \in Nat /\ Touched(t.id)
    BY <1>3 DEF TaskSet, Touched, HasTask, IsSent
  <2>2. TaskOk(t)
    BY <1>1, <1>3 DEF AllOk
  <2> QED BY <1>1, <2>1, <2>2, Later DEF TaskOk
<1>4. ASSUME NEW id \in Ids, NEW a \in AnswersTo(id) PROVE AnswerOk(id, a)'
  <2>1. answers[id] \in Seq(Answer) /\ a.edits \in Nat /\ answers[id] # <<>>
    <3>1. PICK i \in DOMAIN answers[id] : a = answers[id][i]
      BY DEF AnswersTo
    <3>2. answers[id] \in Seq(Answer)
      BY <1>1 DEF TypeOK
    <3>3. a \in Answer /\ answers[id] # <<>>
      BY <3>1, <3>2
    <3> QED BY <3>2, <3>3 DEF Answer
  <2>2. Touched(id)
    BY <2>1 DEF Touched
  <2>3. AnswerOk(id, a)
    BY <1>1 DEF AllOk
  <2> QED BY <1>1, <2>1, <2>2, <2>3, Later DEF AnswerOk
<1> QED BY <1>2, <1>3, <1>4 DEF AllOk

LEMMA RespondGrows ==
  ASSUME TypeOK, NEW waiting \in SUBSET Ids, NEW id \in Ids, NEW code \in Codes, NEW seen \in Nat,
         Respond(id, waiting, code, seen)
  PROVE  \A k \in Ids : \A a \in AnswersTo(k)' :
           a \in AnswersTo(k) \/ (k = id /\ a = [code |-> code, edits |-> seen])
<1> DEFINE b == [code |-> code, edits |-> seen]
<1>1. answers \in [Ids -> Seq(Answer)] /\ b \in Answer
  BY DEF TypeOK, Answer
<1>2. answers' = answers \/ answers' = [answers EXCEPT ![id] = Append(@, b)]
  BY DEF Respond
<1> HIDE DEF b
<1>3. ASSUME NEW k \in Ids, NEW a \in AnswersTo(k)'
      PROVE  a \in AnswersTo(k) \/ (k = id /\ a = b)
  <2>1. CASE answers'[k] = answers[k]
    BY <1>3, <2>1 DEF AnswersTo
  <2>2. CASE k = id /\ answers'[k] = Append(answers[k], b)
    <3>1. PICK s \in Seq(Answer) : s = answers[k]
      BY <1>1
    <3>2. \A i \in DOMAIN Append(s, b) : (i \in DOMAIN s /\ Append(s, b)[i] = s[i]) \/ Append(s, b)[i] = b
      BY <1>1, AddLast
    <3> QED BY <1>3, <2>2, <3>1, <3>2 DEF AnswersTo
  <2> QED BY <1>1, <1>2, <2>1, <2>2
<1> QED BY <1>3 DEF b

------------------------------------------------------------------------------
(* The edits on their way.                                                 *)

LEMMA CountedTail ==
  ASSUME TypeOK, Counted, inbox # <<>>, inbox' = Tail(inbox), UNCHANGED <<since, edits>>,
         applied' = applied + (IF Head(inbox).kind = "edit" THEN 1 ELSE 0)
  PROVE  Counted'
<1>1. inbox \in Seq(Message) /\ edits \in Nat
  BY DEF TypeOK, Message
<1>2. /\ Len(inbox) \in Nat /\ Len(inbox) >= 1 /\ Head(inbox) = inbox[1]
      /\ Len(inbox') = Len(inbox) - 1
      /\ \A i \in 1 .. Len(inbox) - 1 : inbox'[i] = inbox[i + 1]
  BY <1>1, LenProperties, HeadTailProperties, EmptySeq
<1>3. PICK f \in [1 .. Len(inbox) + 1 -> 0 .. edits] :
        /\ f[1] = applied /\ f[Len(inbox) + 1] = edits
        /\ \A i \in 1 .. Len(inbox) :
             /\ f[i + 1] = f[i] + (IF inbox[i].kind = "edit" THEN 1 ELSE 0)
             /\ inbox[i].kind = "request" => since[inbox[i].id] <= f[i]
  BY DEF Counted
<1> DEFINE g == [i \in 1 .. Len(inbox) |-> f[i + 1]]
<1>4. g \in [1 .. Len(inbox') + 1 -> 0 .. edits']
  BY <1>2, <1>3
<1>5. g[1] = applied' /\ g[Len(inbox') + 1] = edits'
  BY <1>2, <1>3
<1>6. ASSUME NEW i \in 1 .. Len(inbox')
      PROVE  /\ g[i + 1] = g[i] + (IF inbox'[i].kind = "edit" THEN 1 ELSE 0)
             /\ inbox'[i].kind = "request" => since'[inbox'[i].id] <= g[i]
  <2>1. /\ i + 1 \in 1 .. Len(inbox) /\ i \in 1 .. Len(inbox) /\ inbox'[i] = inbox[i + 1]
        /\ g[i] = f[i + 1] /\ g[i + 1] = f[(i + 1) + 1]
    BY <1>2
  <2> QED BY <1>3, <2>1
<1> HIDE DEF g
<1> QED BY <1>4, <1>5, <1>6 DEF Counted

LEMMA CountedHead ==
  ASSUME TypeOK, Counted, inbox # <<>>, Head(inbox).kind = "request"
  PROVE  since[Head(inbox).id] <= applied
<1>1. inbox \in Seq(Message)
  BY DEF TypeOK, Message
<1>2. 1 \in 1 .. Len(inbox) /\ Head(inbox) = inbox[1]
  BY <1>1, LenProperties, HeadTailProperties, EmptySeq
<1> QED BY <1>2 DEF Counted

LEMMA CountedAppend ==
  ASSUME TypeOK, Counted, NEW m \in Message, inbox' = Append(inbox, m), applied' = applied,
         edits' = edits + (IF m.kind = "edit" THEN 1 ELSE 0),
         \A i \in DOMAIN inbox : IsRequest(i) => since'[inbox[i].id] = since[inbox[i].id],
         m.kind = "request" => since'[m.id] <= edits
  PROVE  Counted'
<1>1. inbox \in Seq(Message) /\ edits \in Nat
  BY DEF TypeOK, Message
<1>2. /\ Len(inbox) \in Nat /\ Len(inbox') = Len(inbox) + 1 /\ DOMAIN inbox = 1 .. Len(inbox)
      /\ \A i \in 1 .. Len(inbox) : inbox'[i] = inbox[i]
      /\ inbox'[Len(inbox) + 1] = m
  BY <1>1, LenProperties, AppendProperties
<1>3. PICK f \in [1 .. Len(inbox) + 1 -> 0 .. edits] :
        /\ f[1] = applied /\ f[Len(inbox) + 1] = edits
        /\ \A i \in 1 .. Len(inbox) :
             /\ f[i + 1] = f[i] + (IF inbox[i].kind = "edit" THEN 1 ELSE 0)
             /\ inbox[i].kind = "request" => since[inbox[i].id] <= f[i]
  BY DEF Counted
<1> DEFINE g == [i \in 1 .. Len(inbox) + 2 |-> IF i = Len(inbox) + 2 THEN edits' ELSE f[i]]
<1>4. g \in [1 .. Len(inbox') + 1 -> 0 .. edits']
  BY <1>1, <1>2, <1>3
<1>5. g[1] = applied' /\ g[Len(inbox') + 1] = edits'
  BY <1>2, <1>3
<1>6. ASSUME NEW i \in 1 .. Len(inbox')
      PROVE  /\ g[i + 1] = g[i] + (IF inbox'[i].kind = "edit" THEN 1 ELSE 0)
             /\ inbox'[i].kind = "request" => since'[inbox'[i].id] <= g[i]
  <2>1. CASE i \in 1 .. Len(inbox)
    <3>1. inbox'[i] = inbox[i] /\ g[i] = f[i] /\ g[i + 1] = f[i + 1]
      BY <1>2, <2>1
    <3>2. inbox[i].kind = "request" => since'[inbox[i].id] = since[inbox[i].id]
      BY <1>2, <2>1 DEF IsRequest
    <3> QED BY <1>3, <2>1, <3>1, <3>2
  <2>2. CASE i = Len(inbox) + 1
    <3>1. inbox'[i] = m /\ g[i] = edits /\ g[i + 1] = edits'
      BY <1>2, <1>3, <2>2
    <3> QED BY <3>1
  <2> QED BY <1>2, <2>1, <2>2
<1> HIDE DEF g
<1> QED BY <1>4, <1>5, <1>6 DEF Counted

LEMMA AppliedOfEdits == TypeOK /\ Counted => applied <= edits
<1> SUFFICES ASSUME TypeOK, Counted PROVE applied <= edits
  OBVIOUS
<1>1. edits \in Nat /\ 1 \in 1 .. Len(inbox) + 1
  BY LenProperties DEF TypeOK
<1>2. PICK f \in [1 .. Len(inbox) + 1 -> 0 .. edits] : f[1] = applied
  BY DEF Counted
<1> QED BY <1>1, <1>2

------------------------------------------------------------------------------
(* The steps of the main loop.                                             *)

\* A job or an answer that the dispatch makes is of the analysis as it is.
LEMMA DispatchOk ==
  ASSUME ReqInv, AnswerInv, TypeOK', Grows, NEW waiting \in SUBSET Ids, NEW id \in Ids,
         Touched(id)', since[id] <= applied, method[id] \in Methods, Dispatch(id, waiting),
         UNCHANGED <<method, since, cancels, edits, reloads, applied, cancelled>>,
         \A t \in TaskSet : IsSent(t)' => IsSent(t)
  PROVE  AllOk' /\ (shutdown' => AsksShutdown')
<1>1. TypeOK /\ Causes /\ applied \in Nat /\ since[id] \in Nat
  BY DEF ReqInv, AnswerInv, TypeOK
<1>2. AsksShutdown' <=> AsksShutdown
  BY DEF AsksShutdown
<1>3. shutdown' => AsksShutdown'
  <2>1. shutdown' => shutdown \/ method[id] = "shutdown"
    BY NoneAssumption DEF Dispatch, Methods
  <2> QED BY <1>1, <1>2, <2>1 DEF Causes, AsksShutdown
<1>4. \A n : Sees(id, n)' <=> Sees(id, n)
  BY DEF Sees
<1>5. CASE ReplyAtOnce(id) = None
  <2> DEFINE new == [id |-> id, edits |-> applied, stage |-> "queued"]
  <2>1. jobs' = jobs \cup {new} /\ answers' = answers
    BY <1>5, NoneAssumption DEF Dispatch
  <2>2. new.id = id /\ new.edits = applied /\ new.stage = "queued"
    OBVIOUS
  <2> HIDE DEF new
  <2>3. PICK j : j = new
    OBVIOUS
  <2>4. JobOk(j)'
    <3>1. Sees(id, applied)'
      BY <1>1 DEF Sees
    <3>2. j.id = id /\ j.edits = applied' /\ j.stage = "queued"
      BY <2>2, <2>3
    <3> QED BY <3>1, <3>2 DEF JobOk, Sees
  <2>5. \A k \in Ids : AnswersTo(k)' = AnswersTo(k)
    BY <2>1 DEF AnswersTo
  <2> QED BY <1>3, <2>1, <2>3, <2>4, <2>5, AllOkKept
<1>6. CASE ReplyAtOnce(id) # None
  <2>1. jobs' = jobs
    BY <1>6 DEF Dispatch
  <2>2. PICK code \in {"empty", "error", "invalid", "cancelled", "ok"} :
          /\ Respond(id, waiting, code, applied)
          /\ code = "invalid" => shutdown
          /\ code = "cancelled" => IsCancelled(id)
    BY <1>6 DEF Dispatch, ReplyAtOnce
  <2>3. code \in Codes
    BY <2>2 DEF Codes
  <2>4. PICK seen \in Nat : seen = applied
    BY <1>1
  <2> DEFINE b == [code |-> code, edits |-> seen]
  <2>5. \A k \in Ids : \A a \in AnswersTo(k)' : a \in AnswersTo(k) \/ (k = id /\ a = b)
    BY <1>1, <2>2, <2>3, <2>4, RespondGrows
  <2>6. b.code = code /\ b.edits = seen
    OBVIOUS
  <2> HIDE DEF b
  <2>7. AnswerOk(id, b)'
    <3>1. code = "cancelled" => id \in cancels \/ AsksShutdown
      BY <1>1, <2>2 DEF IsCancelled, Causes
    <3>2. code = "invalid" => AsksShutdown
      BY <1>1, <2>2 DEF Causes
    <3>3. Reason(id, code)'
      BY <1>2, <2>2, <3>1, <3>2 DEF Reason
    <3>4. Sees(id, seen)'
      BY <1>1, <2>4 DEF Sees
    <3> QED BY <2>6, <3>3, <3>4 DEF AnswerOk
  <2> QED BY <1>3, <2>1, <2>5, <2>7, AllOkKept
<1> QED BY <1>5, <1>6

\* A response of a worker, or to the client's cancellation.
LEMMA RespondOk ==
  ASSUME ReqInv, AnswerInv, TypeOK', Grows, NEW waiting \in SUBSET Ids, NEW id \in Ids,
         NEW code \in Codes, NEW seen \in Nat, Respond(id, waiting, code, seen),
         (code = "ok" => Sees(id, seen))', Reason(id, code)',
         jobs' = jobs, \A t \in TaskSet : IsSent(t)' => IsSent(t)
  PROVE  AllOk'
<1> DEFINE b == [code |-> code, edits |-> seen]
<1>1. \A k \in Ids : \A a \in AnswersTo(k)' : a \in AnswersTo(k) \/ (k = id /\ a = b)
  BY RespondGrows DEF ReqInv
<1>2. b.code = code /\ b.edits = seen
  OBVIOUS
<1> HIDE DEF b
<1>3. AnswerOk(id, b)'
  BY <1>2 DEF AnswerOk
<1> QED BY <1>1, <1>3, AllOkKept

LEMMA CausesKept ==
  ASSUME ReqInv, Causes, UNCHANGED <<method, cancels, cancelled>>, shutdown' => AsksShutdown',
         inbox' = inbox \/ (inbox # <<>> /\ inbox' = Tail(inbox)),
         phase' = "write" => applied' + reloads' > 0
  PROVE  Causes'
<1>1. inbox \in Seq(Message)
  BY DEF ReqInv, TypeOK, Message
<1>2. \A i \in DOMAIN inbox' : \E k \in DOMAIN inbox : inbox'[i] = inbox[k]
  BY <1>1, TakeHead
<1> QED BY <1>2 DEF Causes

LEMMA HandleMessageOk == ReqInv /\ AnswerInv /\ HandleMessage => AnswerInv'
<1> SUFFICES ASSUME ReqInv, AnswerInv, HandleMessage PROVE AnswerInv'
  OBVIOUS
<1> DEFINE n == Head(inbox)
<1>1. inbox \in Seq(Message) /\ inbox # <<>> /\ inbox' = Tail(inbox) /\ phase = "idle"
      /\ TypeOK /\ Counted /\ Causes
  BY DEF ReqInv, TypeOK, Message, HandleMessage, AnswerInv
<1>2. 1 \in DOMAIN inbox /\ inbox[1] = n /\ n \in Message
  BY <1>1, TakeHead
<1>3. UNCHANGED <<method, since, cancels, edits, reloads, committed>>
  BY DEF HandleMessage, clientVars
<1>4. TypeOK'
  BY HandleMessageInv DEF ReqInv
<1>5. n.kind = "request" => since[n.id] <= applied
  BY <1>1, CountedHead
<1>10. ASSUME applied' = applied + (IF n.kind = "edit" THEN 1 ELSE 0) PROVE Counted'
  BY <1>1, <1>3, <1>10, CountedTail
<1>6. edits \in Nat /\ reloads \in Nat /\ applied \in Nat /\ applied' \in Nat
  BY <1>1, <1>4 DEF TypeOK
<1> HIDE DEF n
<1>7. CASE n.kind = "request" /\ HandleRequest(n.id)
  <2>1. PICK id \in Ids : id = n.id
    BY <1>2, <1>7 DEF Message
  <2>2. PICK W \in SUBSET Ids : W = incoming \cup {id}
    BY <1>1 DEF TypeOK
  <2>3. Dispatch(id, W) /\ UNCHANGED <<phase, cancelled, applied, tasks>>
    BY <1>7, <2>1, <2>2 DEF HandleRequest
  <2>4. method[id] \in Methods
    BY <1>1, <1>2, <1>7, <2>1 DEF ReqInv, Unread, TypeOK, IsRequest
  <2>5. Grows
    <3>1. shutdown => shutdown'
      BY <2>3 DEF Dispatch
    <3> QED BY <1>1, <1>3, <2>3, <3>1, ServerGrows
  <2>6. Touched(id)'
    <3>1. CASE ReplyAtOnce(id) = None
      <4>1. incoming' = W
        BY <2>3, <3>1, NoneAssumption DEF Dispatch
      <4> QED BY <2>2, <4>1 DEF Touched
    <3>2. CASE ReplyAtOnce(id) # None
      <4>1. PICK b : answers' = [answers EXCEPT ![id] = Append(@, b)] /\ b \in Answer
        <5>1. PICK code \in Codes : Respond(id, W, code, applied)
          BY <2>3, <3>2 DEF Dispatch, ReplyAtOnce, Codes
        <5>2. [code |-> code, edits |-> applied] \in Answer
          BY <1>6 DEF Answer
        <5> QED BY <2>2, <5>1, <5>2 DEF Respond
      <4>2. answers[id] \in Seq(Answer) /\ answers'[id] = Append(answers[id], b)
        BY <1>1, <4>1 DEF TypeOK
      <4>3. answers'[id] # <<>>
        BY <4>1, <4>2, AppendProperties, EmptySeq, LenProperties
      <4> QED BY <4>3 DEF Touched
    <3> QED BY <3>1, <3>2
  <2>7. \A t \in TaskSet : IsSent(t)' => IsSent(t)
    BY <2>3 DEF IsSent
  <2>8. AllOk' /\ (shutdown' => AsksShutdown')
    BY <1>3, <1>4, <1>5, <1>7, <2>1, <2>3, <2>4, <2>5, <2>6, <2>7, DispatchOk
  <2>9. Causes'
    BY <1>1, <1>3, <2>3, <2>8, CausesKept
  <2> QED BY <1>6, <1>7, <1>10, <2>3, <2>8, <2>9 DEF AnswerInv
<1>8. CASE n.kind = "cancel" /\ Cancel(n.id)
  <2>1. PICK id \in Ids : id = n.id
    BY <1>2, <1>8 DEF Message
  <2>2. PICK W \in SUBSET Ids : W = incoming
    BY <1>1 DEF TypeOK
  <2>3. PICK seen \in Nat : seen = applied
    BY <1>6
  <2>4. /\ Respond(id, W, "cancelled", seen) /\ cancelled' = cancelled \cup ({id} \cap incoming)
        /\ UNCHANGED <<phase, ready, shutdown, applied, jobs, tasks>>
    BY <1>8, <2>1, <2>2, <2>3 DEF Cancel, workVars
  <2>5. id \in cancels
    BY <1>1, <1>2, <1>8, <2>1 DEF Causes
  <2>6. Grows
    BY <1>1, <1>3, <2>4, ServerGrows
  <2>7. Reason(id, "cancelled")'
    BY <1>3, <2>5 DEF Reason
  <2>8. \A t \in TaskSet : IsSent(t)' => IsSent(t)
    BY <2>4 DEF IsSent
  <2>9. AllOk'
    <3>1. "cancelled" \in Codes
      BY DEF Codes
    <3> QED BY <1>4, <2>4, <2>6, <2>7, <2>8, <3>1, RespondOk
  <2>10. Causes'
    <3>1. \A i \in DOMAIN inbox' : \E k \in DOMAIN inbox : inbox'[i] = inbox[k]
      BY <1>1, TakeHead
    <3>2. AsksShutdown' <=> AsksShutdown
      BY <1>3 DEF AsksShutdown
    <3> QED BY <1>1, <1>3, <2>4, <2>5, <3>1, <3>2 DEF Causes
  <2> QED BY <1>6, <1>8, <1>10, <2>4, <2>9, <2>10 DEF AnswerInv
<1>9. CASE (n.kind = "edit" /\ Edit) \/ (n.kind = "exit" /\ Exit)
  <2>1. UNCHANGED <<incoming, answers, cancelled, shutdown, jobs, tasks>>
    BY <1>9 DEF Edit, Exit, tokenVars, workVars
  <2>2. applied' = applied + (IF n.kind = "edit" THEN 1 ELSE 0)
    BY <1>6, <1>9 DEF Edit, Exit
  <2>3. Grows
    <3>1. applied' \in {applied, applied + 1}
      BY <1>6, <1>9 DEF Edit, Exit
    <3> QED BY <1>1, <1>3, <2>1, <3>1, ServerGrows
  <2>4. AllOk'
    BY <1>4, <2>1, <2>3, AllOkKept DEF IsSent, AnswersTo
  <2>5. Causes'
    <3>1. shutdown' => AsksShutdown'
      BY <1>1, <1>3, <2>1 DEF Causes, AsksShutdown
    <3>2. phase' = "write" => applied' = applied + 1
      BY <1>9 DEF Edit, Exit
    <3>3. applied + 1 + reloads > 0
      BY <1>6
    <3>4. phase' = "write" => applied' + reloads' > 0
      BY <1>3, <3>2, <3>3
    <3> QED BY <1>1, <1>3, <2>1, <3>1, <3>4, CausesKept
  <2> QED BY <1>10, <2>2, <2>4, <2>5 DEF AnswerInv
<1> QED BY <1>7, <1>8, <1>9 DEF HandleMessage, n

LEMMA ProcessTaskOk == ReqInv /\ AnswerInv /\ ProcessTask => AnswerInv'
<1> SUFFICES ASSUME ReqInv, AnswerInv, ProcessTask PROVE AnswerInv'
  OBVIOUS
<1>1. tasks \in Seq(TaskSet) /\ tasks # <<>> /\ tasks' = Tail(tasks) /\ TypeOK /\ phase = "idle"
  BY DEF ReqInv, TypeOK, ProcessTask
<1>2. PICK t \in TaskSet : t = Head(tasks)
  BY <1>1, TakeHead
<1>3. PICK id \in Ids : id = t.id
  BY DEF TaskSet
<1>4. UNCHANGED <<method, since, cancels, edits, inbox, phase, reloads, cancelled, applied>>
  BY DEF ProcessTask, clientVars
<1>5. TaskOk(t) /\ Sees(id, t.edits) /\ Reason(id, t.code) /\ HasTask(id)
  <2>1. t = tasks[1] /\ 1 \in DOMAIN tasks
    BY <1>1, <1>2, TakeHead
  <2>2. IsSent(t)
    BY <2>1 DEF IsSent
  <2> QED BY <1>3, <2>1, <2>2 DEF AnswerInv, AllOk, TaskOk, HasTask
<1>6. \A s \in TaskSet : IsSent(s)' => IsSent(s)
  <2>1. \A i \in DOMAIN tasks' : i + 1 \in DOMAIN tasks /\ tasks'[i] = tasks[i + 1]
    BY <1>1, TakeHead
  <2> QED BY <2>1 DEF IsSent
<1>7. TypeOK'
  BY ProcessTaskInv DEF ReqInv
<1>8. /\ edits \in Nat /\ reloads \in Nat /\ applied \in Nat /\ since[id] \in Nat /\ t.edits \in Nat
  BY <1>1 DEF TypeOK, TaskSet
<1>9. (Sees(id, t.edits) /\ Reason(id, t.code))'
  BY <1>4, <1>5 DEF Sees, Reason, AsksShutdown, Changed
<1>10. Counted'
  BY <1>4 DEF AnswerInv, Counted
<1>11. method[id] \in Methods
  BY <1>1, <1>5 DEF ReqInv, Unread, Touched, TypeOK
<1>12. ASSUME AllOk', shutdown' => AsksShutdown' PROVE AnswerInv'
  <2>1. phase' # "write" /\ inbox' = inbox /\ Causes
    BY <1>1, <1>4 DEF AnswerInv
  <2>2. Causes'
    BY <1>4, <1>12, <2>1, CausesKept
  <2> QED BY <1>10, <1>12, <2>2 DEF AnswerInv
<1>13. shutdown => AsksShutdown'
  BY <1>4 DEF AnswerInv, Causes, AsksShutdown
<1>14. CASE t.code = "retry" /\ ProcessRetry(t) /\ id \in incoming
  <2>1. PICK W \in SUBSET Ids : W = incoming
    BY <1>1 DEF TypeOK
  <2>2. Dispatch(id, W)
    BY <1>3, <1>14, <2>1 DEF ProcessRetry
  <2>3. Grows
    <3>1. shutdown => shutdown'
      BY <2>2 DEF Dispatch
    <3> QED BY <1>1, <1>4, <3>1, ServerGrows
  <2>4. since[id] <= applied
    BY <1>5, <1>8 DEF Sees
  <2>5. Touched(id)'
    <3>1. CASE ReplyAtOnce(id) = None
      <4>1. incoming' = W
        BY <2>2, <3>1, NoneAssumption DEF Dispatch
      <4> QED BY <1>14, <2>1, <4>1 DEF Touched
    <3>2. CASE ReplyAtOnce(id) # None
      <4>1. PICK b : answers' = [answers EXCEPT ![id] = Append(@, b)] /\ b \in Answer
        <5>1. PICK code \in Codes : Respond(id, W, code, applied)
          BY <2>2, <3>2 DEF Dispatch, ReplyAtOnce, Codes
        <5>2. [code |-> code, edits |-> applied] \in Answer
          BY <1>8 DEF Answer
        <5> QED BY <1>14, <2>1, <5>1, <5>2 DEF Respond
      <4>2. answers[id] \in Seq(Answer) /\ answers'[id] = Append(answers[id], b)
        BY <1>1, <4>1 DEF TypeOK
      <4>3. answers'[id] # <<>>
        BY <4>1, <4>2, AppendProperties, EmptySeq, LenProperties
      <4> QED BY <4>3 DEF Touched
    <3> QED BY <3>1, <3>2
  <2>6. AllOk' /\ (shutdown' => AsksShutdown')
    BY <1>4, <1>6, <1>7, <1>11, <2>2, <2>3, <2>4, <2>5, DispatchOk
  <2> QED BY <1>12, <2>6
<1>15. CASE t.code = "retry" /\ ProcessRetry(t) /\ id \notin incoming
  <2>1. UNCHANGED <<answers, shutdown, jobs>>
    BY <1>3, <1>15 DEF ProcessRetry
  <2>2. Grows
    BY <1>1, <1>4, <2>1, ServerGrows
  <2>3. AllOk'
    BY <1>6, <1>7, <2>1, <2>2, AllOkKept DEF AnswersTo
  <2> QED BY <1>12, <1>13, <2>1, <2>3
<1>16. CASE t.code # "retry" /\ ProcessResponse(t)
  <2>1. PICK W \in SUBSET Ids : W = incoming
    BY <1>1 DEF TypeOK
  <2>2. t.code \in Codes
    BY <1>16 DEF TaskSet
  <2>3. Respond(id, W, t.code, t.edits) /\ UNCHANGED <<shutdown, jobs>>
    BY <1>3, <1>16, <2>1 DEF ProcessResponse
  <2>4. Grows
    BY <1>1, <1>4, <2>3, ServerGrows
  <2>5. AllOk'
    BY <1>6, <1>7, <1>8, <1>9, <2>2, <2>3, <2>4, RespondOk
  <2> QED BY <1>12, <1>13, <2>3, <2>5
<1> QED BY <1>2, <1>14, <1>15, <1>16 DEF ProcessTask

------------------------------------------------------------------------------
(* The steps of the workers.                                               *)

LEMMA WorkersOk ==
  ASSUME ReqInv, AnswerInv, TypeOK', NEW newJobs, NEW newTasks, Workers(newJobs, newTasks),
         \A k \in newJobs : k \in jobs \/ JobOk(k),
         \A t \in TaskSet : (\E i \in DOMAIN newTasks : newTasks[i] = t) => IsSent(t) \/ TaskOk(t)
  PROVE  AnswerInv'
<1>1. TypeOK
  BY DEF ReqInv
<1>2. /\ UNCHANGED <<method, since, cancels, edits, inbox, answers, cancelled, shutdown, phase, reloads, applied>>
      /\ jobs' = newJobs /\ tasks' = newTasks
  BY DEF Workers, clientVars, queueVars, tokenVars, modeVars
<1>3. Grows
  BY <1>1, <1>2, ServerGrows
<1>4. /\ \A id, n : Sees(id, n)' <=> Sees(id, n)
      /\ \A id, c : Reason(id, c)' <=> Reason(id, c)
      /\ \A id : IsCancelled(id)' <=> IsCancelled(id)
      /\ Changed' <=> Changed
  BY <1>2 DEF Sees, Reason, IsCancelled, AsksShutdown, Changed
<1>5. \A k \in jobs' : k \in jobs \/ JobOk(k)'
  BY <1>2, <1>4 DEF JobOk
<1>6. \A t \in TaskSet : IsSent(t)' => IsSent(t) \/ TaskOk(t)'
  BY <1>2, <1>4 DEF IsSent, TaskOk
<1>7. \A id \in Ids : AnswersTo(id)' = AnswersTo(id)
  BY <1>2 DEF AnswersTo
<1>8. AllOk'
  BY <1>3, <1>5, <1>6, <1>7, AllOkKept
<1>9. Counted' /\ Causes'
  BY <1>2 DEF AnswerInv, Counted, Causes, AsksShutdown
<1> QED BY <1>8, <1>9 DEF AnswerInv

\* A worker passes on what its job has seen, with a reason it has.
LEMMA ReturnedOk ==
  ASSUME ReqInv, AnswerInv, TypeOK', NEW j \in jobs, NEW code \in Codes \cup {"retry"},
         Reason(j.id, code), Workers(jobs \ {j}, Returned(j, code))
  PROVE  AnswerInv'
<1>1. j \in JobSet /\ JobOk(j) /\ tasks \in Seq(TaskSet)
  BY DEF ReqInv, TypeOK, AnswerInv, AllOk
<1>2. PICK t \in TaskSet : t = [id |-> j.id, edits |-> j.edits, code |-> code]
  BY <1>1 DEF TaskSet, JobSet
<1>3. TaskOk(t)
  BY <1>1, <1>2 DEF TaskOk, JobOk
<1>4. \A i \in DOMAIN Append(tasks, t) : (\E k \in DOMAIN tasks : Append(tasks, t)[i] = tasks[k]) \/ Append(tasks, t)[i] = t
  BY <1>1, AddLast
<1>5. \A s \in TaskSet : (\E i \in DOMAIN Append(tasks, t) : Append(tasks, t)[i] = s) => IsSent(s) \/ TaskOk(s)
  BY <1>3, <1>4 DEF IsSent
<1>6. Workers(jobs \ {j}, Append(tasks, t))
  BY <1>2 DEF Returned
<1> QED BY <1>5, <1>6, WorkersOk

LEMMA MovedOk ==
  ASSUME ReqInv, AnswerInv, TypeOK', NEW j \in jobs, NEW stage,
         stage = "interrupted" => IsCancelled(j.id) \/ Changed,
         Workers((jobs \ {j}) \cup {[j EXCEPT !.stage = stage]}, tasks)
  PROVE  AnswerInv'
<1>1. j \in JobSet /\ JobOk(j)
  BY DEF ReqInv, TypeOK, AnswerInv, AllOk
<1>2. PICK k : k = [j EXCEPT !.stage = stage]
  OBVIOUS
<1>3. k.id = j.id /\ k.edits = j.edits /\ k.stage = stage
  BY <1>1, <1>2 DEF JobSet
<1>4. JobOk(k)
  BY <1>1, <1>3 DEF JobOk
<1>5. \A i \in (jobs \ {j}) \cup {k} : i \in jobs \/ JobOk(i)
  BY <1>4
<1> QED BY <1>2, <1>5, WorkersOk DEF IsSent

LEMMA WorkerOk ==
  ASSUME ReqInv, AnswerInv, NEW j \in jobs, Start(j) \/ HandlerEnds(j) \/ Encode(j)
  PROVE  AnswerInv'
<1>1. TypeOK' /\ TypeOK /\ Causes /\ JobOk(j) /\ j \in JobSet
  BY WorkerInv DEF ReqInv, AnswerInv, AllOk, TypeOK
<1>2. IsCancelled(j.id) => Reason(j.id, "cancelled")
  BY <1>1 DEF IsCancelled, Causes, Reason
<1>3. CASE Start(j) /\ IsCancelled(j.id)
  <2>1. "cancelled" \in Codes
    BY DEF Codes
  <2> QED BY <1>1, <1>2, <1>3, <2>1, ReturnedOk DEF Start
<1>4. CASE Start(j) /\ ~IsCancelled(j.id)
  BY <1>1, <1>4, MovedOk DEF Start
<1>5. CASE HandlerEnds(j)
  <2>1. PICK stage : /\ Workers((jobs \ {j}) \cup {[j EXCEPT !.stage = stage]}, tasks)
                     /\ stage = "interrupted" => phase = "write" \/ IsCancelled(j.id)
    BY <1>5 DEF HandlerEnds
  <2>2. phase = "write" => Changed
    <3>1. applied <= edits /\ applied \in Nat /\ edits \in Nat /\ reloads \in Nat
      BY <1>1, AppliedOfEdits DEF AnswerInv, TypeOK
    <3>2. applied + reloads > 0 => edits + reloads > 0
      BY <3>1
    <3> QED BY <1>1, <3>2 DEF Causes, Changed
  <2> QED BY <1>1, <2>1, <2>2, MovedOk
<1>6. CASE Encode(j)
  <2>1. PICK code \in Codes \cup {"retry"} : code = CodeOf(j)
    BY DEF CodeOf, Codes
  <2>2. code \in {"error", "cancelled", "ok", "retry", "modified"}
    BY <2>1 DEF CodeOf
  <2>3. code = "cancelled" => IsCancelled(j.id)
    BY <2>1 DEF CodeOf
  <2>4. code = "modified" => ~Retries(method[j.id]) /\ Changed
    <3>1. code = "modified" => /\ ~Retries(method[j.id]) /\ ~IsCancelled(j.id)
                               /\ j.stage # "error" /\ j.stage # "ok"
      BY <2>1 DEF CodeOf
    <3>2. j.stage = "interrupted" \/ j.stage = "error" \/ j.stage = "ok"
      BY <1>1, <1>6 DEF Encode, HoldsSnapshot, JobSet
    <3> QED BY <1>1, <3>1, <3>2 DEF JobOk
  <2>5. Reason(j.id, code)
    BY <1>2, <2>2, <2>3, <2>4 DEF Reason
  <2>6. Workers(jobs \ {j}, Returned(j, code))
    BY <1>6, <2>1 DEF Encode
  <2> QED BY <1>1, <2>5, <2>6, ReturnedOk
<1> QED BY <1>3, <1>4, <1>5, <1>6

------------------------------------------------------------------------------
(* The other steps.                                                        *)

LEMMA OtherLoopOk == ReqInv /\ AnswerInv /\ (FinishWrite \/ WorkspaceChanges) => AnswerInv'
<1> SUFFICES ASSUME ReqInv, AnswerInv, FinishWrite \/ WorkspaceChanges PROVE AnswerInv'
  OBVIOUS
<1>1. UNCHANGED <<method, since, cancels, edits, inbox, answers, cancelled, shutdown, applied, jobs, tasks>>
  BY DEF FinishWrite, WorkspaceChanges, clientVars, queueVars, tokenVars, workVars
<1>2. TypeOK' /\ TypeOK /\ Causes /\ reloads \in Nat /\ applied \in Nat
  BY OtherLoopInv DEF ReqInv, AnswerInv, TypeOK
<1>3. /\ reloads' \in {reloads, reloads + 1}
      /\ phase' = "write" => reloads' = reloads + 1
  BY <1>2 DEF FinishWrite, WorkspaceChanges
<1>4. Grows
  BY <1>1, <1>2, <1>3, ServerGrows
<1>5. AllOk'
  BY <1>1, <1>2, <1>4, AllOkKept DEF IsSent, AnswersTo
<1>6. Counted'
  BY <1>1 DEF AnswerInv, Counted
<1>7. phase' = "write" => applied' + reloads' > 0
  <2>1. applied + (reloads + 1) > 0
    BY <1>2
  <2> QED BY <1>1, <1>3, <2>1
<1>8. shutdown' => AsksShutdown'
  BY <1>1, <1>2 DEF Causes, AsksShutdown
<1>9. Causes'
  BY <1>1, <1>2, <1>7, <1>8, CausesKept
<1> QED BY <1>5, <1>6, <1>9 DEF AnswerInv

\* A message of the client: the loop has not seen it, nor a request it makes.
LEMMA TellOk ==
  ASSUME ReqInv, AnswerInv, TypeOK', NEW m \in Message, Tell(m),
         \A k \in Ids : method[k] # None => method'[k] = method[k] /\ since'[k] = since[k],
         edits' = edits + (IF m.kind = "edit" THEN 1 ELSE 0),
         m.kind = "request" => since'[m.id] <= edits,
         cancels \subseteq cancels', m.kind = "cancel" => m.id \in cancels'
  PROVE  AnswerInv'
<1>1. TypeOK /\ Counted /\ Causes /\ inbox \in Seq(Message) /\ edits \in Nat
  BY DEF ReqInv, AnswerInv, TypeOK, Message
<1>2. UNCHANGED <<answers, cancelled, shutdown, phase, reloads, applied, jobs, tasks>> /\ inbox' = Append(inbox, m)
  BY DEF Tell, tokenVars, modeVars, workVars
<1>3. Grows
  <2>1. \A k \in Ids : Touched(k) => method[k] # None
    BY DEF ReqInv, Unread
  <2>2. edits <= edits' /\ reloads <= reloads' /\ applied <= applied'
    BY <1>1, <1>2 DEF TypeOK
  <2> QED BY <1>2, <2>1, <2>2 DEF Grows
<1>4. AllOk'
  BY <1>2, <1>3, AllOkKept DEF IsSent, AnswersTo
<1>5. Counted'
  <2>1. \A i \in DOMAIN inbox : IsRequest(i) => since'[inbox[i].id] = since[inbox[i].id]
    <3>1. ASSUME NEW i \in DOMAIN inbox, IsRequest(i) PROVE since'[inbox[i].id] = since[inbox[i].id]
      <4>1. inbox[i].id \in Ids
        BY <1>1, <3>1 DEF IsRequest, Message
      <4>2. method[inbox[i].id] # None
        BY <3>1 DEF ReqInv, Unread
      <4> QED BY <4>1, <4>2
    <3> QED BY <3>1
  <2> QED BY <1>1, <1>2, <2>1, CountedAppend
<1>6. Causes'
  <2>1. shutdown' => AsksShutdown'
    BY <1>1, <1>2, NoneAssumption DEF Causes, AsksShutdown, Methods
  <2>2. \A i \in DOMAIN inbox' : (i \in DOMAIN inbox /\ inbox'[i] = inbox[i]) \/ inbox'[i] = m
    BY <1>1, <1>2, AddLast
  <2>3. phase' = "write" => applied' + reloads' > 0
    BY <1>1, <1>2 DEF Causes
  <2> QED BY <1>1, <1>2, <2>1, <2>2, <2>3 DEF Causes
<1> QED BY <1>4, <1>5, <1>6 DEF AnswerInv

LEMMA ClientOk == ReqInv /\ AnswerInv /\ Client => AnswerInv'
<1> SUFFICES ASSUME ReqInv, AnswerInv, Client PROVE AnswerInv'
  OBVIOUS
<1>1. TypeOK' /\ method \in [Ids -> Methods \cup {None}] /\ since \in [Ids -> Nat] /\ edits \in Nat
  BY ClientInv DEF ReqInv, TypeOK
<1>2. ASSUME NEW id \in Ids, NEW m \in Methods, SendRequest(id, m) PROVE AnswerInv'
  <2>1. PICK message \in Message : message = [kind |-> "request", id |-> id]
    BY DEF Message
  <2>2. /\ method[id] = None /\ method' = [method EXCEPT ![id] = m] /\ since' = [since EXCEPT ![id] = edits]
        /\ Tell(message) /\ UNCHANGED <<cancels, edits>>
    BY <1>2, <2>1 DEF SendRequest
  <2>3. \A k \in Ids : method[k] # None => method'[k] = method[k] /\ since'[k] = since[k]
    BY <1>1, <2>2
  <2>4. message.kind = "request" /\ message.id = id
    BY <2>1
  <2>5. since'[id] <= edits
    BY <1>1, <2>2
  <2>6. edits' = edits + (IF message.kind = "edit" THEN 1 ELSE 0)
    BY <1>1, <2>2, <2>4
  <2> QED BY <1>1, <2>2, <2>3, <2>4, <2>5, <2>6, TellOk
<1>3. ASSUME NEW id \in Ids, SendCancel(id) PROVE AnswerInv'
  <2>1. PICK message \in Message : message = [kind |-> "cancel", id |-> id]
    BY DEF Message
  <2>2. cancels' = cancels \cup {id} /\ Tell(message) /\ UNCHANGED <<method, since, edits>>
    BY <1>3, <2>1 DEF SendCancel
  <2>3. message.kind = "cancel" /\ message.id = id
    BY <2>1
  <2>4. edits' = edits + (IF message.kind = "edit" THEN 1 ELSE 0)
    BY <1>1, <2>2, <2>3
  <2> QED BY <1>1, <2>2, <2>3, <2>4, TellOk
<1>4. CASE SendEdit
  <2>1. PICK message \in Message : message = [kind |-> "edit"]
    BY DEF Message
  <2> QED BY <1>1, <1>4, <2>1, TellOk DEF SendEdit
<1>5. CASE SendExit
  <2>1. PICK message \in Message : message = [kind |-> "exit"]
    BY DEF Message
  <2> QED BY <1>1, <1>5, <2>1, TellOk DEF SendExit, clientVars
<1> QED BY <1>2, <1>3, <1>4, <1>5 DEF Client

LEMMA StutterOk == AnswerInv /\ UNCHANGED vars => AnswerInv'
<1> SUFFICES ASSUME AnswerInv, UNCHANGED vars PROVE AnswerInv'
  OBVIOUS
<1>1. UNCHANGED <<method, since, cancels, edits, reloads, inbox, answers, phase, cancelled, shutdown,
                  applied, jobs, tasks>>
  BY DEF vars, clientVars, queueVars, tokenVars, modeVars, workVars
<1> QED BY <1>1
        DEF AnswerInv, Counted, AllOk, Causes, JobOk, TaskOk, AnswerOk, IsSent, AnswersTo, Sees, Reason,
            IsCancelled, AsksShutdown, Changed

LEMMA InitOk == Init => AnswerInv
<1> SUFFICES ASSUME Init PROVE AnswerInv
  OBVIOUS
<1>1. DOMAIN inbox = {} /\ DOMAIN tasks = {} /\ Len(inbox) = 0
  BY DEF Init
<1>2. Counted
  <2>1. PICK f : f = [i \in 1 .. 1 |-> 0]
    OBVIOUS
  <2> QED BY <1>1, <2>1 DEF Init, Counted
<1>3. \A id \in Ids : AnswersTo(id) = {}
  <2>1. ASSUME NEW id \in Ids PROVE AnswersTo(id) = {}
    <3>1. answers[id] = <<>>
      BY DEF Init
    <3>2. DOMAIN answers[id] = {}
      BY <3>1
    <3> QED BY <3>2 DEF AnswersTo
  <2> QED BY <2>1
<1>4. AllOk
  BY <1>1, <1>3 DEF Init, AllOk, IsSent
<1>5. Causes
  BY <1>1 DEF Init, Causes
<1> QED BY <1>2, <1>4, <1>5 DEF AnswerInv

\* What is sent back was computed from every edit that came before the request,
\* and what is refused was refused for a reason; on top of ReqInv, which says
\* where a request can be (Router::request, encode_thread_result, handle_cancel).
THEOREM AnswerInvHolds == Spec => []AnswerInv
<1>1. ReqInv /\ AnswerInv /\ [Next]_vars => AnswerInv'
  BY HandleMessageOk, ProcessTaskOk, WorkerOk, OtherLoopOk, ClientOk, StutterOk DEF Next, Loop, Worker
<1> QED BY <1>1, InitOk, ReqInvHolds, PTL DEF Spec

\* A result is computed from a text that has every edit the client sent before
\* it asked, also if the request was tried again (Router::dispatch_request,
\* process_task).
THEOREM AnswerSeesEditsHolds == Spec => []AnswerSeesEdits
<1>1. TypeOK /\ AnswerInv => AnswerSeesEdits
  <2> SUFFICES ASSUME TypeOK, AnswerInv, NEW id \in Ids, NEW a \in AnswersTo(id), a.code = "ok"
               PROVE  since[id] <= a.edits /\ a.edits <= edits
    BY DEF AnswerSeesEdits
  <2>1. since[id] <= a.edits /\ a.edits <= applied
    BY DEF AnswerInv, AllOk, AnswerOk, Sees
  <2>2. applied <= edits /\ applied \in Nat /\ edits \in Nat
    BY AppliedOfEdits DEF AnswerInv, TypeOK
  <2>3. a.edits \in Nat
    <3>1. PICK s \in Seq(Answer) : s = answers[id]
      BY DEF TypeOK
    <3>2. \A i \in DOMAIN s : s[i] \in Answer
      BY <3>1
    <3>3. a \in Answer
      BY <3>1, <3>2 DEF AnswersTo
    <3> QED BY <3>3 DEF Answer
  <2> QED BY <2>1, <2>2, <2>3
<1> QED BY <1>1, AnswerInvHolds, TypeOKHolds, PTL

\* A request is refused only for what the client did: it cancelled it, asked for
\* the shutdown, or changed the text or the workspace under a request that is
\* not tried again (encode_thread_result, retry_on_content_change).
THEOREM RefusalsAreExplainedHolds == Spec => []RefusalsAreExplained
<1>1. AnswerInv => RefusalsAreExplained
  BY DEF AnswerInv, AllOk, AnswerOk, Reason, RefusalsAreExplained, AsksShutdown, Changed
<1> QED BY <1>1, AnswerInvHolds, PTL
==============================================================================
