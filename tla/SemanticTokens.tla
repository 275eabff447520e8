----------------------------- MODULE SemanticTokens -----------------------------
(***************************************************************************)
(* Semantic tokens of one document: full and delta answers, and the cache  *)
(* of the last answer that deltas are computed against.                    *)
(*                                                                         *)
(* A worker colours the text of its snapshot, gives the result the next    *)
(* id, and only then looks into the cache, which by that time may have got *)
(* another answer or lost its own.  The main loop commits a result to the  *)
(* cache when it accepts the response, and drops it when the text or the   *)
(* settings change or the document is closed.  The client gets answers     *)
(* later, and applies the edits of a delta to the result it named.         *)
(*                                                                         *)
(* A request or notification is handled when it is sent: that the client's *)
(* channel is slow looks like answers that arrive late.                    *)
(***************************************************************************)
EXTENDS TokenBuilder, FiniteSets

CONSTANTS
  Texts,       \* contents of the document
  Settings,    \* settings of the semantic tokens (SemaTokenConfig)
  What,        \* kinds of marks: type, modifiers and length of a token
  MarksOf,     \* the marks of a text under a setting, in the order they are pushed
  MaxRequests, \* bound: requests for tokens
  MaxMoves,    \* bound: changes of text, settings, and opening or closing
  None

TOKEN_SIZE == 5

\* A mark says where it starts; a token has the same form, and five numbers.
Mark  == [line : Nat, char : Nat, what : What]
Token == [line : Nat, char : Nat, what : What]

ASSUME MarksAssumption == MarksOf \in [Texts \X Settings -> Seq(Mark)]
ASSUME BoundsAssumption == MaxRequests \in Nat /\ MaxMoves \in Nat

VARIABLES
  open,    \* is the document open in the editor?
  held,    \* the result the client shows
  asked,   \* how many requests it sent
  moves,   \* how many of the bounded moves were made
  phase,   \* of the main loop: idle, or write while apply_change waits
  snap,    \* what a snapshot taken now sees of text and settings
  cache,   \* semantic_tokens_cache, of the document
  issued,  \* tokens of each result by its id; TOKEN_RESULT_COUNTER is one more
  waiting, \* ReqQueue.incoming: requests without a response
  jobs,    \* of the worker pool
  tasks,   \* what the workers sent back
  outbox   \* answers on their way to the client

clientVars == <<open, held, asked, moves>>
loopVars   == <<phase, snap, cache, waiting, outbox>>
workVars   == <<issued, jobs, tasks>>
vars       == <<clientVars, loopVars, workVars>>

Snapshot == [text : Texts, setting : Settings, version : Nat]
Result   == [id : Nat, data : Seq(Token)]
Edit     == [start : Nat, delete : Nat, data : Seq(Token)]
Reply    == [full : {TRUE}, id : Nat, data : Seq(Token)]
              \cup [full : {FALSE}, id : Nat, edits : Seq(Edit)]

\* The encoded tokens of a text under a setting.
TokensOf == [c \in Texts \X Settings |-> Build(MarksOf[c])]

Colour(s) == TokensOf[<<s.text, s.setting>>]

------------------------------------------------------------------------------
(* to_proto::semantic_token_delta.                                         *)

Shorter(s, t) == IF Len(s) <= Len(t) THEN Len(s) ELSE Len(t)

\* How many tokens two results share at the start, and at the end.
CommonPrefix(s, t) == Cardinality({n \in 1 .. Shorter(s, t) : \A i \in 1 .. n : s[i] = t[i]})
CommonSuffix(s, t) ==
  Cardinality({n \in 1 .. Shorter(s, t) :
                 \A i \in 1 .. n : s[Len(s) + 1 - i] = t[Len(t) + 1 - i]})

After(s, n)  == SubSeq(s, n + 1, Len(s))
Before(s, n) == SubSeq(s, 1, Len(s) - n)

\* Bug: the suffix is counted over the whole results and may overlap the prefix;
\* what is deleted is counted from the lengths, and underflows.
SemanticTokenEdits_Underflow(old, new) ==
  LET offset  == CommonPrefix(new, old)
      fromEnd == CommonSuffix(new, old)
      gone    == Len(old) - offset - fromEnd
      come    == Before(After(new, offset), fromEnd)
  IN IF old = new THEN <<>>
     ELSE <<[start |-> TOKEN_SIZE * offset, delete |-> TOKEN_SIZE * gone, data |-> come]>>

\* The suffix is taken from what the prefix leaves.
SemanticTokenEdits(old, new) ==
  LET offset  == CommonPrefix(new, old)
      oldRest == After(old, offset)
      newRest == After(new, offset)
      fromEnd == CommonSuffix(newRest, oldRest)
      gone    == Before(oldRest, fromEnd)
      come    == Before(newRest, fromEnd)
  IN IF gone = <<>> /\ come = <<>> THEN <<>>
     ELSE <<[start |-> TOKEN_SIZE * offset, delete |-> TOKEN_SIZE * Len(gone), data |-> come]>>

\* What a client makes of edits: they count numbers, five to a token.
ApplyEdits(edits, data) ==
  IF edits = <<>> THEN data
  ELSE SubSeq(data, 1, edits[1].start \div TOKEN_SIZE)
         \o edits[1].data
         \o After(data, (edits[1].start + edits[1].delete) \div TOKEN_SIZE)

Restored(reply, base) == IF reply.full THEN reply.data ELSE ApplyEdits(reply.edits, base.data)

------------------------------------------------------------------------------
(* Requests (handlers/request/semantic_tokens.rs).                         *)

\* A full request names no base, a delta request the client's last result.
Dispatch(req, base) ==
  jobs' = jobs \cup {[req |-> req, base |-> base, snap |-> snap, result |-> None]}

Ask ==
  /\ open
  /\ phase = "idle"
  /\ asked < MaxRequests
  /\ asked' = asked + 1
  /\ waiting' = waiting \cup {asked'}
  /\ \E base \in {None, held} : Dispatch(asked', base)
  /\ UNCHANGED <<open, held, moves, phase, snap, cache, outbox, issued, tasks>>

\* $/cancelRequest is answered at once; the job may still run.
Cancel(req) ==
  /\ phase = "idle"
  /\ waiting' = waiting \ {req}
  /\ UNCHANGED <<clientVars, phase, snap, cache, outbox, workVars>>

\* TOKEN_RESULT_COUNTER.fetch_add.
NextId == Len(issued) + 1

\* compute_sema_tokens_helper.
Compute(j) ==
  /\ j.result = None
  /\ issued' = Append(issued, Colour(j.snap))
  /\ jobs' = (jobs \ {j})
               \cup {[j EXCEPT !.result = [id |-> NextId, data |-> Colour(j.snap)]]}
  /\ UNCHANGED <<clientVars, loopVars, tasks>>

\* Bug: any result in the cache will do.
ReplyTo_AnyBase(j) ==
  IF j.base # None /\ cache # None
  THEN [full |-> FALSE, id |-> j.result.id, edits |-> SemanticTokenEdits(cache.data, j.result.data)]
  ELSE [full |-> TRUE, id |-> j.result.id, data |-> j.result.data]

\* handle_semantic_tokens_full, and ..._delta: a delta only against the result
\* that the client named and the cache has now.
ReplyTo(j) ==
  IF j.base # None /\ cache # None /\ cache.id = j.base.id
  THEN [full |-> FALSE, id |-> j.result.id, edits |-> SemanticTokenEdits(cache.data, j.result.data)]
  ELSE [full |-> TRUE, id |-> j.result.id, data |-> j.result.data]

\* The handler returns, and drops its snapshot.
Return(j) ==
  /\ j.result # None
  /\ jobs' = jobs \ {j}
  /\ tasks' = Append(tasks, [retry |-> FALSE, req |-> j.req, base |-> j.base, snap |-> j.snap,
                             result |-> j.result, reply |-> ReplyTo(j)])
  /\ UNCHANGED <<clientVars, loopVars, issued>>

\* A query is cancelled by the write, or the handler sees that the client has
\* cancelled it, which the client was told.
Interrupt(j) ==
  /\ jobs' = jobs \ {j}
  /\ \/ /\ phase = "write"
        /\ tasks' = Append(tasks, [retry |-> TRUE, req |-> j.req, base |-> j.base])
     \/ /\ j.req \notin waiting
        /\ UNCHANGED tasks
  /\ UNCHANGED <<clientVars, loopVars, issued>>

\* process_task.  A response nobody waits for has no effect.
ProcessResponse(t) ==
  /\ IF t.req \in waiting
     THEN /\ outbox' = Append(outbox, [base |-> t.base, snap |-> t.snap, reply |-> t.reply])
          /\ cache' = t.result
     ELSE UNCHANGED <<outbox, cache>>
  /\ waiting' = waiting \ {t.req}
  /\ UNCHANGED jobs

ProcessRetry(t) ==
  /\ IF t.req \in waiting THEN Dispatch(t.req, t.base) ELSE UNCHANGED jobs
  /\ UNCHANGED <<outbox, cache, waiting>>

ProcessTask ==
  /\ phase = "idle"
  /\ tasks # <<>>
  /\ tasks' = Tail(tasks)
  /\ \/ Head(tasks).retry  /\ ProcessRetry(Head(tasks))
     \/ ~Head(tasks).retry /\ ProcessResponse(Head(tasks))
  /\ UNCHANGED <<clientVars, phase, snap, issued>>

------------------------------------------------------------------------------
(* Notifications, and the client.                                          *)

Move == phase = "idle" /\ moves < MaxMoves /\ moves' = moves + 1

\* The analysis is given a text; its snapshots have to go first.
Write(text) ==
  /\ snap' = [snap EXCEPT !.text = text, !.version = @ + 1]
  /\ phase' = "write"

\* Bug: apply_change does not wait.
FinishWrite_AtOnce ==
  /\ phase = "write"
  /\ phase' = "idle"
  /\ UNCHANGED <<clientVars, snap, cache, waiting, outbox, workVars>>

FinishWrite ==
  /\ phase = "write"
  /\ jobs = {}
  /\ phase' = "idle"
  /\ UNCHANGED <<clientVars, snap, cache, waiting, outbox, workVars>>

\* handle_did_open_text_document leaves the cache alone.
DidOpen(text) ==
  /\ Move
  /\ ~open
  /\ open' = TRUE
  /\ IF text # snap.text THEN Write(text) ELSE UNCHANGED <<snap, phase>>
  /\ UNCHANGED <<held, asked, cache, waiting, outbox, workVars>>

\* handle_did_change_text_document.
DidChange(text) ==
  /\ Move
  /\ open
  /\ cache' = None
  /\ IF text # snap.text THEN Write(text) ELSE UNCHANGED <<snap, phase>>
  /\ UNCHANGED <<open, held, asked, waiting, outbox, workVars>>

\* handle_did_close_text_document; the client forgets what it showed.
DidClose ==
  /\ Move
  /\ open
  /\ open' = FALSE
  /\ held' = None
  /\ cache' = None
  /\ UNCHANGED <<asked, phase, snap, waiting, outbox, workVars>>

\* A closed document is read from disk again.
DiskChange(text) ==
  /\ Move
  /\ ~open
  /\ text # snap.text
  /\ Write(text)
  /\ UNCHANGED <<open, held, asked, cache, waiting, outbox, workVars>>

\* update_configuration.  Snapshots keep the settings they were taken with, and
\* nothing waits for them.
UpdateConfiguration(setting) ==
  /\ Move
  /\ setting # snap.setting
  /\ snap' = [snap EXCEPT !.setting = setting]
  /\ cache' = None
  /\ UNCHANGED <<open, held, asked, phase, waiting, outbox, workVars>>

\* The client shows the answer, if the document is still open.
Receive ==
  LET a == Head(outbox) IN
  /\ outbox # <<>>
  /\ outbox' = Tail(outbox)
  /\ held' = IF open
             THEN [id |-> a.reply.id, data |-> Restored(a.reply, a.base)]
             ELSE held
  /\ UNCHANGED <<open, asked, moves, phase, snap, cache, waiting, workVars>>

------------------------------------------------------------------------------
\* The editor has opened the document.
Init ==
  /\ open = TRUE /\ held = None /\ asked = 0 /\ moves = 0
  /\ phase = "idle"
  /\ \E text \in Texts, setting \in Settings :
       snap = [text |-> text, setting |-> setting, version |-> 0]
  /\ cache = None /\ waiting = {} /\ outbox = <<>>
  /\ issued = <<>> /\ jobs = {} /\ tasks = <<>>

Worker == \E j \in jobs : Compute(j) \/ Return(j) \/ Interrupt(j)

Loop ==
  \/ Ask
  \/ \E req \in waiting : Cancel(req)
  \/ ProcessTask
  \/ FinishWrite
  \/ \E text \in Texts : DidOpen(text) \/ DidChange(text) \/ DiskChange(text)
  \/ DidClose
  \/ \E setting \in Settings : UpdateConfiguration(setting)

Next == Worker \/ Loop \/ Receive

Spec == Init /\ [][Next]_vars

------------------------------------------------------------------------------
(* Properties.                                                             *)

Maybe(S) == S \cup {None}

Job  == [req : Nat, base : Maybe(Result), snap : Snapshot, result : Maybe(Result)]
Task == [retry : {TRUE}, req : Nat, base : Maybe(Result)]
          \cup [retry : {FALSE}, req : Nat, base : Maybe(Result), snap : Snapshot,
                result : Result, reply : Reply]
Answer == [base : Maybe(Result), snap : Snapshot, reply : Reply]

\* Every variable has the type its Rust counterpart has.
TypeOK ==
  /\ open \in BOOLEAN /\ held \in Maybe(Result) /\ asked \in Nat /\ moves \in Nat
  /\ phase \in {"idle", "write"} /\ snap \in Snapshot
  /\ cache \in Maybe(Result) /\ waiting \subseteq Nat
  /\ outbox \in Seq(Answer)
  /\ issued \in Seq(Seq(Token))
  /\ jobs \subseteq Job
  /\ tasks \in Seq(Task)

\* Whatever was committed, dropped or recoloured between the worker's look into
\* the cache and the arrival of its answer: a client that applies the answer to the
\* result it named has the tokens of the text and settings the worker saw.
AnswersRestore ==
  \A i \in DOMAIN outbox :
    Restored(outbox[i].reply, outbox[i].base) = Colour(outbox[i].snap)

\* Answers never go back to an older text: a worker that saw the text before an
\* edit has answered, or tries again, before the edit is done.
AnswersKeepOrder ==
  \A i, k \in DOMAIN outbox :
    i < k => outbox[i].snap.version <= outbox[k].snap.version

\* From the marks of the analysis to the screen: encoded, sent as edits of what
\* the client has, applied and decoded, every mark is where it was, except one
\* that came after a later one.
ScreenShowsMarks ==
  \A i \in DOMAIN outbox :
    Decode(Restored(outbox[i].reply, outbox[i].base))
      = InOrder(MarksOf[<<outbox[i].snap.text, outbox[i].snap.setting>>])
==============================================================================
