---------------------------- MODULE PushDiagnostics ----------------------------
(***************************************************************************)
(* Push diagnostics: how a client that does not pull gets to see the       *)
(* problems of the documents it has open.                                  *)
(*                                                                         *)
(* A turn of the main loop that changes texts, open documents, settings or *)
(* readiness asks for the diagnostics of some files.  Workers compute them *)
(* from a snapshot, with the snapshot's freshness; the main loop publishes *)
(* a batch only if its freshness is still current.  The semantic compiler  *)
(* and Qihe publish through the same gate.                                 *)
(*                                                                         *)
(* A turn is one action: workers share only their snapshot and the task    *)
(* channel with the loop.  apply_change waits until every snapshot is      *)
(* dropped, so a turn that applies a change needs jobs to be empty, and    *)
(* the text a job sees is the current one.                                 *)
(***************************************************************************)
EXTENDS Naturals, Sequences, FiniteSets

CONSTANTS
  Files,      \* the files of the workspace
  Profile,    \* those of its compilation profile; any other owns itself
  Texts,      \* texts of a file
  Clean,      \* the text without problems
  None,       \* no text: the file is deleted
  OnType,     \* diagnostics.update: onType, else onSave
  Semantic,   \* diagnostics.semantic.enabled
  Qihe,       \* does the user run Qihe analyses?
  FetchFails, \* may the fetch of a workspace fail?
  MaxMoves    \* bound: how often the client, the disk and the workspace change

ASSUME ProfileAssumption == Profile \subseteq Files
ASSUME TextAssumption    == Clean \in Texts /\ None \notin Texts
ASSUME FlagAssumption    == {OnType, Semantic, Qihe, FetchFails} \subseteq BOOLEAN

VARIABLES
  text,       \* what the analysis has of each file
  open,       \* MemDocs: files open in the editor
  commit,     \* diagnostics_revision, with the analysis' snapshot_id
  target,     \* diagnostic_target_revision
  readiness,  \* diagnostic_readiness_revision
  fetching,   \* is a requested workspace not yet fetched?
  loading,    \* is the VFS loading a new workspace?
  deferred,   \* diagnostics_deferred_until_ready
  semActive,  \* SemanticCompiler.active_cancel_token is some
  semPending, \* SemanticCompiler.pending_profiles is not empty
  qihe,       \* QiheDiagnostics: the files with problems, and of what freshness
  jobs,       \* jobs of the worker pool, each with a snapshot
  tasks,      \* results in the task channel
  published,  \* published_diagnostics: what the client shows of each file
  moves       \* how many of the bounded moves were made

docVars  == <<text, open>>
revVars  == <<commit, target, readiness>>
wsVars   == <<fetching, loading>>
semVars  == <<semActive, semPending>>
vars     == <<docVars, revVars, wsVars, deferred, semVars, qihe, jobs, tasks, published, moves>>

Ready == ~fetching /\ ~loading

\* DiagnosticPublishFreshness, and the part of it that external diagnostics have.
Fresh       == [commit |-> commit, readiness |-> readiness, target |-> target]
CommitOf(r) == <<r.commit, r.readiness>>

------------------------------------------------------------------------------
(* Which problems a file has (GlobalStateSnapshot::lsp_diagnostics).       *)

\* diagnostic_owner, of a document.
Owner(f) == IF f \in Profile THEN Profile ELSE {f}

\* A file's problems depend on the text of every file of its owner: one entry
\* for each that is not clean.
\* Bug: a deleted file of the owner is diagnosed too.
Own_Deleted(f) == {[by |-> "vide", file |-> g, text |-> text[g]] :
                     g \in {g \in Owner(f) : text[g] # Clean}}

Own(f) == {[by |-> "vide", file |-> g, text |-> text[g]] :
             g \in {g \in Owner(f) : text[g] \notin {Clean, None}}}
External(f, fresh) ==
  IF f \in qihe.files /\ qihe.fresh = CommitOf(fresh)
  THEN {[by |-> "qihe", file |-> f]} ELSE {}
Diags(f, fresh) == Own(f) \cup External(f, fresh)

\* diagnostic_target_file_ids_for_changes, of the documents open after the turn.
SharingOwner(changed) == {f \in open' : \E g \in changed : Owner(f) = Owner(g)}

------------------------------------------------------------------------------
(* The end of a turn: process_changes and the deferred invalidation.       *)

\* Invalidation by a turn that changed files (process_changes).
Invalidated(pending, changed, structure) ==
  IF structure THEN {} ELSE IF OnType /\ changed # {} THEN changed \cup pending
  ELSE changed \ open'

\* Bug: changed publish targets are requested only along with a changed text.
AsksForPending_WithTextOnly(pending, changed, structure) ==
  pending # {} /\ changed # {} /\ (structure \/ ~OnType)

\* The extra request for documents opened or closed in this turn.
AsksForPending(pending, changed, structure) ==
  pending # {} /\ (changed = {} \/ structure \/ ~OnType)

TargetAfter(pending) == IF pending # {} THEN target + 1 ELSE target

CommitAfter(changed, other) == IF changed # {} \/ other THEN commit + 1 ELSE commit

\* take_deferred_diagnostics_if_ready.
Flushes == Ready' /\ deferred

\* schedule and start_run of the semantic compiler.
ScheduleSemantic(wanted) ==
  /\ semActive'  = (semActive \/ wanted)
  /\ semPending' = (semPending \/ (wanted /\ semActive))

\* The end of a turn that made the documents in pending publish targets or no
\* longer so, changed the files in changed (structure: created or deleted
\* some), invalidated those in saved, or the whole workspace.
EndTurn(pending, changed, structure, saved, whole) ==
  LET all      == whole \/ structure \/ Flushes
      partly   == Invalidated(pending, changed, structure) \cup saved
      requests == {IF all THEN open' ELSE {}, SharingOwner(partly),
                   IF AsksForPending(pending, changed, structure) THEN pending ELSE {}} \ {{}}
      semantic == Semantic /\ Ready' /\ Profile # {} /\ (all \/ partly \cap Profile # {})
      fresh    == [commit |-> commit', readiness |-> readiness', target |-> target']
  IN
  /\ changed # {} \/ whole => jobs = {}
  /\ commit' = CommitAfter(changed, whole)
  /\ target' = TargetAfter(pending)
  /\ deferred' = (~Ready' /\ (deferred \/ all \/ partly # {} \/ requests # {}))
  /\ ScheduleSemantic(semantic)
  /\ jobs' = jobs
       \cup (IF Ready' THEN {[kind |-> "push", files |-> s, open |-> open', fresh |-> fresh] :
                                s \in requests} ELSE {})
       \cup (IF semantic /\ ~semActive
             THEN {[kind |-> "semantic", files |-> Profile, open |-> open', fresh |-> fresh]}
             ELSE {})

\* clear_deleted_push_diagnostics; while not ready that is deferred too.
ClearDeleted(deleted) ==
  published' = [f \in Files |-> IF f \in deleted /\ Ready THEN {} ELSE published[f]]

------------------------------------------------------------------------------
(* Turns that handle a notification of the client.                         *)

Move == moves < MaxMoves /\ moves' = moves + 1

\* The document may differ from the file on disk.
DidOpen(f, t) ==
  /\ Move
  /\ f \notin open
  /\ open' = open \cup {f}
  /\ text' = [text EXCEPT ![f] = t]
  /\ UNCHANGED <<readiness, wsVars, qihe, tasks, published>>
  /\ EndTurn({f}, {f} \ {g \in {f} : t = text[g]}, text[f] = None, {}, FALSE)

DidChange(f, t) ==
  /\ Move
  /\ f \in open /\ t # text[f]
  /\ text' = [text EXCEPT ![f] = t]
  /\ UNCHANGED <<open, readiness, wsVars, qihe, tasks, published>>
  /\ EndTurn({}, {f}, FALSE, {}, FALSE)

DidClose(f) ==
  /\ Move
  /\ f \in open
  /\ open' = open \ {f}
  /\ UNCHANGED <<text, readiness, wsVars, qihe, tasks, published>>
  /\ EndTurn({f}, {}, FALSE, {}, FALSE)

DidSave(f) ==
  /\ Move
  /\ f \in open /\ ~OnType
  /\ UNCHANGED <<docVars, readiness, wsVars, qihe, tasks, published>>
  /\ EndTurn({}, {}, FALSE, {f}, FALSE)

\* update_configuration, of the settings of diagnostics.
DidChangeConfiguration ==
  /\ Move
  /\ UNCHANGED <<docVars, readiness, wsVars, qihe, tasks, published>>
  /\ EndTurn({}, {}, FALSE, {}, TRUE)

------------------------------------------------------------------------------
(* Turns that handle the loader and the workspace.                         *)

\* Files that are not open are written, created or deleted on disk.
VfsChanged(changed, t) ==
  LET structure == \E f \in changed : None \in {text[f], t}
      deleted   == IF t = None THEN changed ELSE {} IN
  /\ Move
  /\ changed # {} /\ changed \cap open = {}
  /\ \A f \in changed : text[f] # t
  /\ text' = [f \in Files |-> IF f \in changed THEN t ELSE text[f]]
  /\ qihe' = [qihe EXCEPT !.files = @ \ deleted]
  /\ ClearDeleted(deleted)
  /\ UNCHANGED <<open, readiness, wsVars, tasks>>
  /\ EndTurn({}, changed, structure, {}, FALSE)

\* request_workspace_reload.
RequestReload ==
  /\ Move
  /\ fetching' = TRUE
  /\ readiness' = readiness + 1
  /\ UNCHANGED <<docVars, loading, qihe, tasks, published>>
  /\ EndTurn({}, {}, FALSE, {}, FALSE)

\* switch_workspaces.
FetchSucceeded ==
  /\ fetching
  /\ fetching' = FALSE /\ loading' = TRUE
  /\ UNCHANGED <<docVars, readiness, qihe, tasks, published, moves>>
  /\ EndTurn({}, {}, FALSE, {}, TRUE)

\* The workspace stays as it was.
FetchFailed ==
  /\ FetchFails
  /\ fetching
  /\ fetching' = FALSE
  /\ UNCHANGED <<docVars, loading, readiness, qihe, tasks, published, moves>>
  /\ EndTurn({}, {}, FALSE, {}, FALSE)

VfsLoaded ==
  /\ loading
  /\ loading' = FALSE
  /\ UNCHANGED <<docVars, fetching, readiness, qihe, tasks, published, moves>>
  /\ EndTurn({}, {}, FALSE, {}, FALSE)

------------------------------------------------------------------------------
(* The workers.                                                            *)

\* Both kinds of diagnostics are computed for the documents the snapshot has
\* open; a file without one is touched and gets nothing.  A turn that waits
\* for its snapshots cancels the computation, which then skips files: it makes
\* the batch outdated all the same.
Compute(j) ==
  /\ j.kind \in {"push", "semantic"}
  /\ tasks' = Append(tasks,
       [kind |-> j.kind, fresh |-> j.fresh, files |-> j.files,
        diags |-> [f \in j.files |-> IF f \in j.open THEN Diags(f, j.fresh) ELSE {}]])

\* A Qihe analysis finds problems in some files.
RunQihe(j) ==
  /\ j.kind = "qihe"
  /\ \E found \in SUBSET {f \in Files : text[f] # None} :
       tasks' = Append(tasks, [kind |-> "qihe", fresh |-> j.fresh, files |-> found, diags |-> <<>>])

Worker ==
  \E j \in jobs :
    /\ Compute(j) \/ RunQihe(j)
    /\ jobs' = jobs \ {j}
    /\ UNCHANGED <<docVars, revVars, wsVars, deferred, semVars, qihe, published, moves>>

------------------------------------------------------------------------------
(* Turns that handle a result.                                             *)

\* Bug: batches computed before a document was opened or closed are published.
IsFresh_AnyTarget(fresh) == fresh.commit = commit /\ fresh.readiness = readiness

IsFresh(fresh) == fresh = Fresh

\* DiagnosticsPublisher::publish.
Publish(fresh, touched, diags) ==
  /\ deferred' = (deferred \/ ~Ready)
  /\ published' = IF Ready /\ IsFresh(fresh)
                  THEN [f \in Files |-> IF f \in touched THEN diags[f] ELSE published[f]]
                  ELSE published

HandleDiagnostics ==
  LET b == Head(tasks) IN
  /\ b.kind = "push"
  /\ Publish(b.fresh, b.files, b.diags)
  /\ UNCHANGED <<semVars, qihe, jobs>>

\* Bug: the run that has ended stays the active one.
StartPendingSemantic_StaysActive ==
  /\ semActive' = TRUE
  /\ UNCHANGED <<semPending, jobs>>

\* start_pending.
StartPendingSemantic ==
  /\ semActive' = semPending
  /\ semPending' = FALSE
  /\ jobs' = jobs \cup IF semPending
                       THEN {[kind |-> "semantic", files |-> Profile, open |-> open, fresh |-> Fresh]}
                       ELSE {}

\* SemanticCompiler::handle.  An outdated run is dropped before its batch
\* reaches the publisher.
HandleSemantic ==
  LET b == Head(tasks) IN
  /\ b.kind = "semantic"
  /\ IF IsFresh(b.fresh) THEN Publish(b.fresh, b.files, b.diags) ELSE UNCHANGED <<deferred, published>>
  /\ StartPendingSemantic
  /\ UNCHANGED qihe

\* Qihe::handle: the result replaces the last one's, and every file of either
\* is published at once.
HandleQihe ==
  LET r == Head(tasks)
      changed == qihe.files \cup r.files
      own(f) == IF f \in open THEN Own(f) \cup (IF f \in r.files THEN {[by |-> "qihe", file |-> f]} ELSE {})
                ELSE {} IN
  /\ r.kind = "qihe"
  /\ IF CommitOf(r.fresh) = CommitOf(Fresh) /\ changed # {}
     THEN /\ qihe' = [files |-> r.files, fresh |-> CommitOf(Fresh)]
          /\ Publish(Fresh, changed, [f \in changed |-> own(f)])
     ELSE UNCHANGED <<qihe, deferred, published>>
  /\ UNCHANGED <<semVars, jobs>>

HandleTask ==
  /\ tasks # <<>>
  /\ HandleDiagnostics \/ HandleSemantic \/ HandleQihe
  /\ tasks' = Tail(tasks)
  /\ UNCHANGED <<docVars, revVars, wsVars, moves>>

\* The client asks for a Qihe analysis, one at a time.
StartQihe ==
  /\ Qihe
  /\ Move
  /\ \A j \in jobs : j.kind # "qihe"
  /\ \A i \in 1..Len(tasks) : tasks[i].kind # "qihe"
  /\ jobs' = jobs \cup {[kind |-> "qihe", files |-> {}, open |-> open, fresh |-> Fresh]}
  /\ UNCHANGED <<docVars, revVars, wsVars, deferred, semVars, qihe, tasks, published>>

------------------------------------------------------------------------------
\* The workspace is loaded and nothing is open.
Init ==
  /\ text \in [Files -> Texts \cup {None}]
  /\ open = {}
  /\ commit = 0 /\ target = 0 /\ readiness = 0
  /\ fetching = FALSE /\ loading = FALSE /\ deferred = FALSE
  /\ semActive = FALSE /\ semPending = FALSE
  /\ qihe = [files |-> {}, fresh |-> <<0, 0>>]
  /\ jobs = {} /\ tasks = <<>>
  /\ published = [f \in Files |-> {}]
  /\ moves = 0

Client ==
  \/ \E f \in Files, t \in Texts : DidOpen(f, t) \/ DidChange(f, t)
  \/ \E f \in Files : DidClose(f) \/ DidSave(f)
  \/ DidChangeConfiguration \/ StartQihe
Workspace ==
  \/ \E changed \in SUBSET Files, t \in Texts \cup {None} : VfsChanged(changed, t)
  \/ RequestReload \/ FetchSucceeded \/ FetchFailed \/ VfsLoaded

Next == Client \/ Workspace \/ Worker \/ HandleTask

Spec == Init /\ [][Next]_vars

\* Workers run, the loop takes results from the task channel, and a fetch and
\* a load of the workspace end (WorkspaceReload).
Fairness ==
  /\ WF_vars(Worker) /\ WF_vars(HandleTask)
  /\ WF_vars(FetchSucceeded \/ FetchFailed) /\ WF_vars(VfsLoaded)

FairSpec == Spec /\ Fairness

------------------------------------------------------------------------------
(* Properties.                                                             *)

Problem == [by : {"vide"}, file : Files, text : Texts] \cup [by : {"qihe"}, file : Files]
FreshRec == [commit : Nat, readiness : Nat, target : Nat]

\* Every variable has the type its Rust counterpart has.
TypeOK ==
  /\ text \in [Files -> Texts \cup {None}] /\ open \subseteq Files
  /\ commit \in Nat /\ target \in Nat /\ readiness \in Nat
  /\ {fetching, loading, deferred, semActive, semPending} \subseteq BOOLEAN
  /\ qihe.files \subseteq Files /\ qihe.fresh \in Nat \X Nat
  /\ \A j \in jobs : /\ j.kind \in {"push", "semantic", "qihe"}
                     /\ j.files \subseteq Files /\ j.open \subseteq Files /\ j.fresh \in FreshRec
  /\ \A i \in 1..Len(tasks) : /\ tasks[i].kind \in {"push", "semantic", "qihe"}
                              /\ tasks[i].files \subseteq Files /\ tasks[i].fresh \in FreshRec
  /\ published \in [Files -> SUBSET Problem]
  /\ moves \in Nat

OwnPart(problems) == {p \in problems : p.by = "vide"}

\* Whatever a batch was computed from, what it changes on the client's screen
\* is right at that moment: an outdated result never replaces a newer one, and
\* a closed document never gets problems again.
PublishedIsCurrent ==
  [][\A f \in Files :
       OwnPart(published'[f]) # OwnPart(published[f])
         => OwnPart(published'[f]) = IF f \in open' THEN Own(f)' ELSE {}]_vars

Quiet == Ready /\ ~deferred /\ jobs = {} /\ tasks = <<>>

\* When all work is done the client shows each open document's problems.
OpenIsShown ==
  Quiet => \A f \in open : OwnPart(published[f]) = Own(f)

\* The semantic compiler and deferred diagnostics always come to rest: no job
\* waits for another for ever, and no run restarts itself endlessly.
EventuallyQuiet == <>[](Quiet /\ ~semActive)

\* "so push diagnostics converge at the normal change-processing boundary"
\* (global_state.rs): when all work is done the client shows the problems of
\* the open documents.
Converges == OpenIsShown
==============================================================================
