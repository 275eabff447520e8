---------------------------- MODULE PullDiagnostics ----------------------------
(***************************************************************************)
(* Pull diagnostics: the client asks for the problems of a document, or of *)
(* the workspace, and names the result it has; the server answers with a   *)
(* report, or that nothing has changed.  The server asks it to ask again   *)
(* (workspace/diagnostic/refresh) when something has.                      *)
(*                                                                         *)
(* A handler reads in several steps.  Its snapshot holds the text, but not *)
(* the problems of Qihe, which it shares with the main loop; and while an  *)
(* edit waits for it in apply_change any query may be interrupted.  Some   *)
(* of its steps then fail, and the request is tried again; others take the *)
(* interruption for an absent value and go on.                             *)
(***************************************************************************)
EXTENDS Integers, FiniteSets

CONSTANTS
  Files, Profile, Texts, None,
  Scopes,     \* which requests the client makes: one kind is chosen
  QiheScopes, \* those with which Qihe runs
  RunsFail,  \* may a run of the semantic compiler fail by itself?
  MaxMoves,  \* bound: edits, changed settings, reloads, opened and closed documents
  MaxQihe    \* bound: results of Qihe

ASSUME DataAssumption == Texts # {} /\ Profile \subseteq Files
ASSUME NoneAssumption ==
  /\ None \notin [fresh : Nat \X Nat \X Nat, owner : SUBSET Files, generation : Nat]
  /\ None \notin {"id", "own", "items", "answered"}
ASSUME ScopeAssumption == Scopes \cup QiheScopes \subseteq {"document", "workspace"}

VARIABLES
  scope,
  text, config, snapshot, readiness, target, ready,
  phase,    \* of the main loop: None, or the change it waits to apply
  qihe,     \* QiheDiagnostics: of each file its problems, freshness, generation
  sem,      \* the run of the semantic compiler: None, or its freshness and result
  semPending,
  ask,      \* files that the client is going to ask for
  pull,     \* of each file the request for it
  shown,    \* what the client shows of each file: the result's id, the problems
  moves, results

docVars == <<text, config, snapshot>>
semVars == <<sem, semPending>>
vars    == <<scope, docVars, readiness, target, ready, phase, qihe, semVars,
             ask, pull, shown, moves, results>>

Idle  == phase = None
Fresh == <<snapshot, config, readiness>>  \* DiagnosticCommitFreshness
NoPull == [at |-> None, prev |-> None, fresh |-> <<>>, items |-> {}, id |-> None]

------------------------------------------------------------------------------
(* What a report says of a file.                                           *)

\* diagnostic_owner.
Owner(f) == IF f \in Profile THEN Profile ELSE IF scope = "workspace" THEN Files ELSE {f}

Own(f) == {[by |-> "vide", file |-> g, text |-> text[g], config |-> config] : g \in Owner(f)}

External(f, fresh) == IF qihe[f].fresh = fresh THEN qihe[f].problems ELSE {}

\* Bug: the id does not count the results of Qihe.
ResultId_Uncounted(f, fresh) == [fresh |-> fresh, owner |-> Owner(f), generation |-> 0]

\* diagnostic_result_id, without what cannot change while the snapshot does not.
ResultId(f, fresh) ==
  [fresh |-> fresh, owner |-> Owner(f),
   generation |-> IF qihe[f].fresh = fresh THEN qihe[f].generation ELSE 0]

------------------------------------------------------------------------------
(* The client.                                                             *)

\* A workspace request asks for all files at once.
Asked(f) == IF scope = "workspace" THEN Files ELSE {f}

\* document_diagnostic_report, workspace_diagnostic_report, and the client's part.
Report(p, old) == IF p.id # None /\ p.id = p.prev THEN old ELSE [id |-> p.id, items |-> p.items]

Receive(f) ==
  /\ Idle
  /\ \A g \in Asked(f) : pull[g].at = "answered"
  /\ shown' = [g \in Files |-> IF g \in Asked(f) THEN Report(pull[g], shown[g]) ELSE shown[g]]
  /\ pull' = [g \in Files |-> IF g \in Asked(f) THEN NoPull ELSE pull[g]]
  /\ UNCHANGED <<scope, docVars, readiness, target, ready, phase, qihe, semVars, ask,
                 moves, results>>

------------------------------------------------------------------------------
(* The handlers, on a worker.                                              *)

Handler(f, p) ==
  /\ pull' = [pull EXCEPT ![f] = p]
  /\ UNCHANGED <<scope, docVars, readiness, target, ready, phase, qihe, semVars, ask,
                 shown, moves, results>>

\* The client asks, and the loop spawns the handler once the workspace is ready:
\* what the client shows changes by the answer only.  Handlers share nothing that
\* they write, so that one at a time is enough.
Ask(f) ==
  /\ Idle /\ ready
  /\ f \in ask
  /\ \A g \in Files : pull[g] = NoPull
  /\ pull' = [g \in Files |->
                IF g \in Asked(f)
                THEN [NoPull EXCEPT !.at = IF scope = "document" THEN "id" ELSE "own",
                                    !.prev = shown[g].id, !.fresh = Fresh]
                ELSE NoPull]
  /\ ask' = ask \ Asked(f)
  /\ UNCHANGED <<scope, docVars, readiness, target, ready, phase, qihe, semVars,
                 shown, moves, results>>

\* An edit waits: the request is tried again.
Interrupt(f) ==
  /\ ~Idle
  /\ pull[f].at \in {"own", "items"}
  /\ ask' = ask \cup Asked(f)
  /\ pull' = [g \in Files |-> NoPull]
  /\ UNCHANGED <<scope, docVars, readiness, target, ready, phase, qihe, semVars,
                 shown, moves, results>>

\* An edit waits, and what was asked for seems to be absent.
Absent == ~Idle

\* handle_document_diagnostic, its first query.
ReadDocumentId(f) ==
  /\ scope = "document" /\ pull[f].at = "id"
  /\ \/ Handler(f, [pull[f] EXCEPT !.at = "items", !.id = ResultId(f, pull[f].fresh)])
     \/ Absent /\ Handler(f, [pull[f] EXCEPT !.at = "items"])

\* lsp_diagnostics.
ReadDocumentItems(f) ==
  /\ scope = "document" /\ pull[f].at = "items"
  /\ \/ Handler(f, [pull[f] EXCEPT !.at = "answered",
                                   !.items = Own(f) \cup External(f, pull[f].fresh)])
     \/ Absent /\ Handler(f, [pull[f] EXCEPT !.at = "answered"])

\* handle_workspace_diagnostic: no file seems to be there, so that those which were
\* reported before are reported as gone.
ReadNoFile ==
  /\ scope = "workspace"
  /\ Absent /\ \A f \in Files : pull[f].at = "own"
  /\ pull' = [f \in Files |-> [pull[f] EXCEPT !.at = "answered",
                                  !.items = IF pull[f].prev = None THEN shown[f].items ELSE {}]]
  /\ UNCHANGED <<scope, docVars, readiness, target, ready, phase, qihe, semVars, ask,
                 shown, moves, results>>

\* The problems of the owners of all files, of those owners that seem to be there.
ReadOwn ==
  /\ scope = "workspace"
  /\ \A f \in Files : pull[f].at = "own"
  /\ \E owners \in SUBSET {Owner(f) : f \in Files} :
       /\ Absent \/ \A f \in Files : Owner(f) \in owners
       /\ pull' = [f \in Files |->
                     [pull[f] EXCEPT !.at = "items",
                                     !.items = IF Owner(f) \in owners THEN Own(f) ELSE {}]]
  /\ UNCHANGED <<scope, docVars, readiness, target, ready, phase, qihe, semVars, ask,
                 shown, moves, results>>

\* external_lsp_diagnostics of a file, then its workspace_diagnostic_result_id.
ReadExternal(f) ==
  /\ scope = "workspace" /\ pull[f].at = "items"
  /\ Handler(f, [pull[f] EXCEPT !.at = "id", !.items = @ \cup External(f, pull[f].fresh)])

ReadWorkspaceId(f) ==
  /\ scope = "workspace" /\ pull[f].at = "id"
  /\ \/ Handler(f, [pull[f] EXCEPT !.at = "answered", !.id = ResultId(f, pull[f].fresh)])
     \/ Absent /\ Handler(f, [pull[f] EXCEPT !.at = "answered"])

Work(f) == ReadDocumentId(f) \/ ReadDocumentItems(f) \/ ReadExternal(f) \/ ReadWorkspaceId(f)

------------------------------------------------------------------------------
(* The main loop.                                                          *)

Move == Idle /\ moves < MaxMoves /\ moves' = moves + 1

HasSnapshot ==
  \/ \E f \in Files : pull[f].at \in {"id", "own", "items"}
  \/ sem # None /\ sem.result = "running"

\* The client asks again for all it shows.
Refresh == ask' = Files

\* SemanticCompiler::schedule.
Schedule ==
  /\ sem' = IF sem = None THEN [fresh |-> <<snapshot', config', readiness', target'>>,
                                result |-> "running"] ELSE sem
  /\ semPending' = (semPending \/ sem # None)

\* invalidate_diagnostics: of some files, or the workspace (Files).  What comes
\* before the workspace is ready is invalidated when it is.
Invalidate(files) ==
  IF ~ready' THEN UNCHANGED <<semVars, ask>>
  ELSE /\ IF files \cap Profile # {} THEN Schedule ELSE UNCHANGED semVars
       /\ IF files = Files \/ files \cap Profile = {} THEN Refresh ELSE UNCHANGED ask

\* The client edits a document, and asks for its problems.
Edit(f, t) ==
  /\ Move
  /\ t # text[f]
  /\ phase' = [kind |-> "edit", file |-> f, text |-> t]
  /\ ask' = IF scope = "document" THEN ask \cup {f} ELSE ask
  /\ UNCHANGED <<scope, docVars, readiness, target, ready, qihe, semVars, pull, shown, results>>

\* update_configuration, of the settings of diagnostics.
Configure ==
  /\ Move
  /\ phase' = [kind |-> "config"]
  /\ UNCHANGED <<scope, docVars, readiness, target, ready, qihe, semVars, ask, pull, shown,
                 results>>

\* The fetch of a reload has succeeded: switch_workspaces.
Switch ==
  /\ Idle /\ ~ready
  /\ phase' = [kind |-> "workspace"]
  /\ UNCHANGED <<scope, docVars, readiness, target, ready, qihe, semVars, ask, pull, shown,
                 moves, results>>

\* Bug: the snapshots of the handlers are not waited for.
FinishWrite_AtOnce ==
  /\ ~Idle
  /\ snapshot' = snapshot + 1
  /\ IF phase.kind # "edit"
     THEN /\ UNCHANGED text
          /\ config' = IF phase.kind = "config" THEN config + 1 ELSE config
          /\ ready' = (ready \/ phase.kind = "workspace")
     ELSE text' = [text EXCEPT ![phase.file] = phase.text] /\ UNCHANGED <<config, ready>>
  /\ phase' = None
  /\ UNCHANGED <<scope, readiness, target, qihe, pull, shown, moves, results>>
  /\ Invalidate(IF phase.kind # "edit" THEN Files ELSE {phase.file})

\* apply_change, and what process_changes, or the change of settings, does then.
FinishWrite ==
  /\ ~Idle
  /\ ~HasSnapshot
  /\ snapshot' = snapshot + 1
  /\ IF phase.kind # "edit"
     THEN /\ UNCHANGED text
          /\ config' = IF phase.kind = "config" THEN config + 1 ELSE config
          /\ ready' = (ready \/ phase.kind = "workspace")
     ELSE text' = [text EXCEPT ![phase.file] = phase.text] /\ UNCHANGED <<config, ready>>
  /\ phase' = None
  /\ UNCHANGED <<scope, readiness, target, qihe, pull, shown, moves, results>>
  /\ Invalidate(IF phase.kind # "edit" THEN Files ELSE {phase.file})

RequestReload ==
  /\ Move
  /\ ready' = FALSE
  /\ readiness' = readiness + 1
  /\ UNCHANGED <<scope, docVars, target, phase, qihe, semVars, ask, pull, shown, results>>

\* A document is opened or closed, and its text is that on disk.
ChangeTargets ==
  /\ Move
  /\ target' = target + 1
  /\ IF ready THEN Refresh ELSE UNCHANGED ask
  /\ UNCHANGED <<scope, docVars, readiness, ready, phase, qihe, semVars, pull, shown, results>>

\* The result of a Qihe run of the current freshness (QiheRuns).
CommitQihe ==
  /\ Idle /\ scope \in QiheScopes /\ results < MaxQihe
  /\ results' = results + 1
  /\ \E found \in SUBSET Files \ {{}} :
       qihe' = [f \in Files |->
                  IF f \in found \/ qihe[f].problems # {}
                  THEN [problems |-> IF f \in found THEN {[by |-> "qihe", result |-> results']}
                                     ELSE {},
                        fresh |-> Fresh, generation |-> qihe[f].generation + 1]
                  ELSE qihe[f]]
  /\ IF ready THEN Refresh ELSE UNCHANGED ask
  /\ UNCHANGED <<scope, docVars, readiness, target, ready, phase, semVars, pull, shown, moves>>

------------------------------------------------------------------------------
(* The semantic compiler warms the analysis for the pulls that follow.     *)

RunSemantic ==
  /\ sem # None /\ sem.result = "running"
  /\ \E result \in {"finished"} \cup {r \in {"cancelled"} : ~Idle} \cup {r \in {"failed"} : RunsFail} :
       sem' = [sem EXCEPT !.result = result]
  /\ UNCHANGED <<scope, docVars, readiness, target, ready, phase, qihe, semPending, ask,
                 pull, shown, moves, results>>

\* Bug: what was asked for during the run is forgotten.
HandleSemantic_Forgets ==
  /\ Idle
  /\ sem # None /\ sem.result # "running"
  /\ IF sem.result = "finished" /\ sem.fresh = <<snapshot, config, readiness, target>> /\ ready
     THEN Refresh ELSE UNCHANGED ask
  /\ sem' = None
  /\ semPending' = FALSE
  /\ UNCHANGED <<scope, docVars, readiness, target, ready, phase, qihe, pull, shown, moves,
                 results>>

\* SemanticCompiler::handle.
HandleSemantic ==
  /\ Idle
  /\ sem # None /\ sem.result # "running"
  /\ IF sem.result = "finished" /\ sem.fresh = <<snapshot, config, readiness, target>> /\ ready
     THEN Refresh ELSE UNCHANGED ask
  /\ sem' = IF semPending THEN [fresh |-> <<snapshot, config, readiness, target>>,
                                result |-> "running"] ELSE None
  /\ semPending' = FALSE
  /\ UNCHANGED <<scope, docVars, readiness, target, ready, phase, qihe, pull, shown, moves,
                 results>>

------------------------------------------------------------------------------
\* The client has asked for everything once.
Init ==
  /\ scope \in Scopes
  /\ text = [f \in Files |-> CHOOSE t \in Texts : TRUE] /\ config = 0 /\ snapshot = 0 /\ readiness = 0 /\ target = 0
  /\ ready = TRUE /\ phase = None
  /\ qihe = [f \in Files |-> [problems |-> {}, fresh |-> <<>>, generation |-> 0]]
  /\ sem = None /\ semPending = FALSE
  /\ ask = {}
  /\ pull = [f \in Files |-> NoPull]
  /\ shown = [f \in Files |-> [id |-> ResultId(f, Fresh), items |-> Own(f)]]
  /\ moves = 0 /\ results = 0

Loop ==
  \/ \E f \in Files, t \in Texts : Edit(f, t)
  \/ Configure \/ RequestReload \/ ChangeTargets \/ CommitQihe
  \/ Switch \/ FinishWrite \/ HandleSemantic

Next ==
  \/ Loop \/ RunSemantic \/ ReadOwn \/ ReadNoFile
  \/ \E f \in Files : Ask(f) \/ Receive(f) \/ Interrupt(f) \/ Work(f)

Spec == Init /\ [][Next]_vars

\* The client asks when it is told to, the loop goes on, handlers end, a reload ends.
Fairness ==
  /\ WF_vars(Switch) /\ WF_vars(FinishWrite) /\ WF_vars(HandleSemantic)
  /\ WF_vars(RunSemantic) /\ WF_vars(ReadOwn)
  /\ \A f \in Files : /\ WF_vars(Ask(f)) /\ WF_vars(Receive(f)) /\ WF_vars(Work(f))

FairSpec == Spec /\ Fairness

------------------------------------------------------------------------------
(* Properties.                                                             *)

Id == [fresh : Nat \X Nat \X Nat, owner : SUBSET Files, generation : Nat] \cup {None}

\* Every variable has the type its Rust counterpart has, and the snapshot of a handler
\* is that of the analysis as long as it reads (the assertion of make_snapshot).
TypeOK ==
  /\ text \in [Files -> Texts] /\ {config, snapshot, readiness, target} \subseteq Nat
  /\ {ready, semPending} \subseteq BOOLEAN
  /\ ask \subseteq Files
  /\ \A f \in Files :
       /\ pull[f].at \in {None, "id", "own", "items", "answered"}
       /\ pull[f].at \in {"id", "own", "items"} => pull[f].fresh[1] = snapshot
       /\ {pull[f].id, pull[f].prev, shown[f].id} \subseteq Id
       /\ qihe[f].generation \in Nat
  /\ sem # None => sem.result \in {"running", "finished", "cancelled", "failed"}

\* "unchanged" is never a lie: whatever the client was told, and in whatever order
\* texts, settings, reloads and results of Qihe came in between, the id it will name
\* is the server's current one only if what it shows is what a report would say.
UnchangedIsTrue ==
  \A f \in Files :
    shown[f].id = ResultId(f, Fresh) => shown[f].items = Own(f) \cup External(f, Fresh)

Current(f) == ready /\ Idle /\ shown[f].items = Own(f) \cup External(f, Fresh)

\* The client comes to show the problems as they are, though edits wait for the
\* semantic compiler with their refresh, and interrupted handlers report nothing.
EventuallyShown == <>[](\A f \in Files : Current(f))

\* "External diagnostics carry this same commit freshness plus their own per-owner
\* generation" (diagnostics.rs): of a workspace report too, the id tells which.
WorkspaceIdIsTrue == UnchangedIsTrue
==============================================================================
