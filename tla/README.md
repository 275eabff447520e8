# Vide in TLA+

Vide is a language server for Verilog and SystemVerilog, written in Rust. This
directory models two parts of it: the main loop with the threads around it, and
the bookkeeping by which texts, workspaces, diagnostics, requests and semantic
tokens stay consistent while everything changes at once; and, of the analysis,
the resolution of names. The models are checked with TLC on small instances; the
invariants that matter most are proved with TLAPS for every value of the
constants.

Paths in this file are shortened: `crates/` is the repository's `crates/`,
`global_state/` is its `src/global_state/`, and `hir-def/` its
`crates/hir-def/src/`. `PROJECT.json` has them in full.

## 1. The system

One thread, the **main loop** (`global_state/event_loop.rs`), owns all mutable
state (`GlobalState`). It waits for the client's messages, the results of
worker jobs and the messages of the VFS loader, handles one event (draining
the channel it came from), then ends the turn: `process_changes` gives the
accumulated changes to the analysis, deferred diagnostics are flushed if the
workspace is ready, and a requested fetch is started. Other threads share with
it only FIFO channels, cancellation tokens, and immutable snapshots of the
analysis (salsa), which block the next change of the analysis until dropped.

| part | state | operations | talks to |
|---|---|---|---|
| main loop (`event_loop.rs`) | channels, where it is in a turn | next_event, handle_event, process_task, process_vfs_msg | everything |
| reload pipeline (`workspace_state.rs`, `reload.rs`, `excl_task.rs`) | requested, committed, active generation; VFS config version and progress; the exclusive task | request, start, begin, finish of a fetch; begin_vfs_load, accept_vfs_progress | pool, loader, client progress |
| VFS loader (`crates/vfs/src/notify.rs`) | current config, scan threads and their counter, watcher | Config, Invalidate, watcher events | VFS queue of the loop |
| VFS (`crates/vfs/src/lib.rs`) and open documents (`mem_docs.rs`) | text of every file, merged change log, buffers | set_file_contents, take_changes; didOpen, didChange, didClose | analysis database |
| analysis database (`base-db`, `ide`) | file texts, source roots | apply_change, snapshots, cancellation | workers |
| push diagnostics (`process_changes.rs`, `diagnostics.rs`, `publisher.rs`) | three revisions, deferral flag, pending targets, what was published | invalidate, compute, publish | workers, client |
| semantic compiler (`semantic_compiler.rs`) | active run, pending profiles | schedule, handle, start_pending | workers, publisher |
| Qihe (`qihe.rs`) | run generation, progress, results of the external tool | start, cancel, handle | external process, publisher |
| request layer (`vide-lsp-runtime`, `protocol.rs`, `task.rs`) | registered requests, tokens, shutdown flag | dispatch, respond, cancel, retry | pool, client |
| worker pool (`utils/src/thread.rs`) | two queues, latency budget per thread | spawn, recv | all jobs |
| pull diagnostics (`handlers/request/diagnostics.rs`) | result ids from revisions | document and workspace pulls, refresh | request layer |
| semantic tokens (`semantic_tokens.rs`, `to_proto.rs`) | tokens last accepted, by URI | full, delta, commit | request layer |
| name resolution (`hir-def`) | none of its own: functions of the files, memoised | unit_index, design_map, scope_for, resolve_path_at, file_lowering_diagnostics | requests, diagnostics |
| manifests and watching (`project_manifest.rs`, `reload.rs`) | watched paths | reload on change | client, loader |

What is hard in it: results come back in any order and later than what
outdated them; a turn collapses many requests into flags; a file has two
writers, and several changes of it merge into one; the loop waits for workers,
which wait for nothing but must notice it; cancellation, retry, reload and
shutdown meet on the same request. Name resolution runs alone, but its rules pile
up: what a name means depends on declarations, two kinds of imports, their places
and the exports of packages that export each other's names. `PROJECT.json` lists each hazard at the
line where it bites.

What makes the parts correct:

* reload: one fetch at a time; a ready server serves what was asked for last,
  completely scanned; the client's progress bars are opened and closed in pairs;
* contents: the analysis has the editor's text of an open document, and the
  disk's of any other once messages have arrived;
* push diagnostics: what appears on the screen is right when it appears, and in
  the end all of it is there;
* requests: every request gets exactly one answer, one that fits;
* semantic tokens: a client that applies a delta has the tokens of the text;
* Qihe and the pool: every run that begins ends, in the client's eyes too, and no
  job is passed over for ever;
* pull diagnostics: "unchanged" is true, and in the end the client shows what there is;
* name resolution: a name has the meaning its place gives it, whatever comes
  later or further out, and exports are neither missing nor invented.

## 2. Modules

| module | models | extends or uses |
|---|---|---|
| `ReloadService` | abstract: what the reload pipeline promises | |
| `WorkspaceReload` | the pipeline: loop, fetch worker, loader and scan threads | refines `ReloadService` |
| `WorkspaceReloadProofs` | three inductive invariants, its safety properties, the refinement | `WorkspaceReload`, `ReloadService` |
| `FileContents` | two writers of a file, VFS, change log, analysis | |
| `FileContentsProofs` | its type invariant and two safety properties | `FileContents` |
| `PushDiagnostics` | requests for diagnostics, workers, publisher, semantic compiler, Qihe's results | |
| `PushDiagnosticsProofs` | its type invariant, the publisher's promise, what one document is shown | `PushDiagnostics` |
| `Requests` | registry, dispatch, workers, retry, cancel, shutdown, the wait of apply_change | |
| `RequestsProofs` | its type invariant and its safety properties | `Requests` |
| `TokenBuilder` | the encoding of marks as relative tokens, and its inverse | |
| `SemanticTokens` | full and delta answers, the cache they are computed against | extends `TokenBuilder` |
| `MCSemanticTokens` | its instance: the marks of two texts under two settings | `SemanticTokens` |
| `SemanticTokensProofs` | encoding and delta for all sequences; its safety properties | `SemanticTokens` |
| `Pool` | the worker pool: two queues, a latency budget in each thread | |
| `QiheRuns` | runs of the external analysis as jobs of that pool | composes `Pool` |
| `QiheRunsProofs` | inductive invariants of pool and runs, three properties | `QiheRuns` |
| `PullDiagnostics` | handlers that read in steps, result ids, refreshes | |
| `PullDiagnosticsProofs` | result ids and what they stand for, one property | `PullDiagnostics` |
| `DesignMap` | the packages' exports as a fixed point | |
| `NameResolution` | units, scopes, names and paths at a place, import conflicts | extends `DesignMap` |
| `MCNameResolution` | its instance: two files, four packages, modules, blocks | `NameResolution` |
| `NameResolutionProofs` | the least fixed point; three safety properties | `NameResolution` |

The models of the server are views of the same loop at different grain.
`WorkspaceReload` and `FileContents` split a turn into its steps, because a loop
that drains a channel races with the thread that fills it. In `PushDiagnostics` a
turn is one action, because workers share nothing with a turn but their
snapshot, and a turn that changes the analysis waits for every snapshot (the guard
`changed # {} \/ whole => jobs = {}`). `Requests`, `SemanticTokens`, `QiheRuns` and
`PullDiagnostics` model that wait itself, as the phase `write`: between its begin
and its end the loop does nothing, and workers notice that they are to stop. What
one model takes from another: the readiness that `PushDiagnostics`,
`PullDiagnostics` and `Requests` let change is what `WorkspaceReload` computes,
and their fairness on it is its `EventuallyReady`; the problems that `QiheRuns`
commits are what `PushDiagnostics` and `PullDiagnostics` publish; the dispatch of
`SemanticTokens` is `Requests` with one method.

Names follow the source: an action has the name of the handler it models in
TLA+ capitals (`handle_did_open_text_document` is `DidOpen`), a variable that of
its field where it has one, and its comment names the field otherwise.
`PROJECT.json` maps each definition to its lines. Definitions whose name has a
suffix after an underscore (`Respond_Unchecked`) are plausible bugs, kept next
to what they would replace: for each checked property there is one that breaks
it, so that we know that the property says something.

### WorkspaceReload

Three actors. The main loop polls the loader's channel, then the tasks', then
waits for any (`phase`: poll, pollTasks, select), drains the channel it took
from (task, vfs) and ends its turn. The fetch worker sends Begin, reads the
manifests (or fails), sends End. The loader takes the next config when idle and
scans its entries in parallel: each thread announces, loads, counts with an
atomic counter and reports the count in two steps, so counts may arrive out of
order. A manifest is edited at any time, and the edit announced by the client
or found by the loader; the loop may ignore the loader's word (`VfsChanged`: the
manifest is open, a scan has brought its content before, or automatic reload is off),
not the client's, whose last one `announced` remembers. `VfsLoaded` leaves open whether a scanned file was new
to the VFS (then it is in the change log until the end of the turn) or not.

### FileContents

A path per file; a text is a model value, and no text is "deleted". The editor
opens (also with a buffer that differs from the disk), edits, saves and closes;
other programs write, delete and create; either is reported by the client's
watcher (a notification, delayed as it likes) or by the server's own (an event
queue that a new config drops). Scans read and send a file in two steps. `Merge`
is the merge of two changes of one turn; `AppliedText`, `RootIdsAfter` and
`FileSetAfter` are `Change::apply` with its source roots, including its panic when
a changed file has no source root.

### PushDiagnostics

`EndTurn` is the end of `process_changes` for the documents a turn made pending,
changed, saved or invalidated as a whole; every notification and loader message
is that with its own arguments. A file's problems are those of every file of
its owner (the compilation profile or itself), so a change of one file outdates
the problems of another. Jobs carry the freshness of their snapshot;
`Publish` compares all three revisions with the current ones.

### Requests

Six methods stand for the combinations of policies that the router
distinguishes: `symbols` (retried, answered early while the workspace loads),
`tokens` (retried, with an effect on acceptance), `hover` (not retried), `command`
(run by the loop), `shutdown`, and an unknown method. A job is queued, running, or
has ended `ok`, in `error` or `interrupted`; it holds its snapshot in the first
two. `Encode` is what the closure does after the handler: look at the token,
turn an interruption into a retry, a cancellation or ContentModified.

### SemanticTokens, TokenBuilder

One document. `Compute` colours the text of the snapshot and takes the next
result id; `Return` looks into the shared cache, makes a delta or a full answer and
drops the snapshot; `ProcessResponse` commits the result to the cache if the
request still waits. Notifications drop the cache, configuration changes too. The
delta (`SemanticTokenEdits`: common prefix, then the common suffix of what is left)
and the client's use of it (`ApplyEdits`) count numbers, five to a token, as the
protocol does. `TokenBuilder` is `SemanticTokensBuilder`: positions relative to the
token before, a mark that goes backwards skipped.

### Pool, QiheRuns

`Pool` is `JobReceivers::recv`, a step for each of its looks at a channel, so that
jobs arrive between them; the budget belongs to the thread and is passed on from
job to job. `QiheRuns` instantiates it: a run is one job with four stages (prepare,
compile, run, convert), whose command writes lines that reader threads log; it
keeps a snapshot to the end. The loop starts runs, supersedes them, cancels the
active one when the client cancels its progress, and waits in `write` for all
snapshots of queued and running jobs.

### PullDiagnostics

A handler reads the problems and the parts of the result id in the order of the
code, which for a document is the id first and for the workspace the id last.
Its snapshot fixes texts and settings, Qihe's store is shared with the loop. While
an edit waits, a query may be interrupted: where the code uses `?` the request
is tried again (`Interrupt`), where it uses `unwrap_or_default` or `let else` it goes
on without what that query asked for (`Absent`; `ReadOwn` may miss any of the owners). Refreshes are what makes the client ask again.

### DesignMap, NameResolution

`design_map` is a loop over the packages in sorted order, one action per visit and
one for the end of a pass. When it is over, `Resolve` answers a reference
(`resolve_path_at`) and `Diagnose` computes the conflicts reported for the files'
imports. A design is a set of definitions, imports, export declarations and
references, each with its owner and place; the scope of an owner is derived
from it by kind, as the builders of `scope.rs` do (`ScopeKinds`, `WithImports`,
`ProcOwners`). The walk outwards is a recursive function over the tree of owners
(`Chain`), and "the first scope that has something" a minimum over its places.

## 3. Runs

Passing runs, with their distinct states:

| run | bounds | states | question |
|---|---|---|---|
| `reload` | 2 entries, 1 edit | 488 thousand | exclusion, progress, freshness, the abstract service, liveness |
| `files` | 1 file, 2 texts, 4 moves, either watcher | 763 thousand | who wins, and does it settle |
| `push_two` | 2 files of one profile, 3 moves, on save, all sources | 318 thousand | is what appears right; does work come to rest |
| `push_one` | 1 file, 5 moves, on type, semantic compiler | 469 thousand | is everything there in the end |
| `requests` | 2 requests, 1 edit or load | 773 thousand | one fitting answer each |
| `tokens` | 3 requests, 2 moves, 2 texts, 2 settings | 2.05 million | do deltas restore the tokens |
| `qihe` | 1 thread, 2 runs, 4 requests, 1 edit or reload | 430 thousand | does every run end, and the right one count |
| `pull` | 2 files, one with a profile, 2 moves, 1 result of Qihe | 487 thousand | is "unchanged" true; is everything there in the end |
| `names` | 1881 designs of 4 packages, 2 modules, a few scopes | 29 thousand | what names mean |

Bounds, each a constant of its module. `MaxEdits`: the first fetch plus an edit
give two generations, so that one is superseded while it is active, and its number
is used again after a failure; two entries scanned in parallel under two configs of
any subsets overlap in the channel, and two threads race for the counter.
`MaxMoves` bounds edits, opens, closes, saves, writes and reloads: a
counterexample to a merge needs three moves in one turn, those to convergence two
to four. `MaxChanges` bounds edits and loads of `requests`: one write interrupts
both requests, each in any stage. Two requests suffice since requests interact only
through the loop's phase, the shutdown and the identity of an id. Three token
requests: one whose result the client holds, one that is committed after that,
and one that names the first. Two runs of Qihe: a run and its successor; one
thread, so that requests and runs compete for it, and four requests, one more than
the budget. `names`: all subsets of three declarations and five export declarations
over four packages, two of one name, for the exports; all choices of up to two
of eight declarations and of eight imports around one block for the scopes, since
what a reference sees is decided between at most two sources in each scope and
two scopes; all subsets of eight declarations for the paths.

Deadlock is not checked in the runs with bounded moves (`files`, `push_*`,
`requests`, `tokens`, `qihe`, `pull`): a server whose client asks for nothing stops,
and so does one that has exited. In `reload` it is checked, the client can always
pull, and in `names`, where a request can always be asked.

### What the passing properties say

* `SingleFetch`, `ProgressPaired`: bookkeeping that spans threads.
* `ReadyMeansCurrent`: a server that says it is ready has read the newest
  manifests, up to edits that the client has sent no notice of, and all files of
  the newest config.
* `ImplementsService`: the same as a refinement. `ReloadService` knows the disk,
  the version wanted by the newest request, the version served, and the
  outcome of the newest request; generations, channels and scans are hidden.
  Serving the result of a superseded fetch, or being ready before the newest
  request has an outcome, would violate it.
* `NoStaleText`, `OpenBufferWins`: whatever was merged, the analysis has no text
  that the VFS lacks, and of an open document the editor's.
* `EventuallySynced`: the VFS comes to what editor and disk show.
* `PublishedIsCurrent`: a step property; no batch changes a file's problems
  to anything but what the file has at that moment.
* `OpenIsShown`: at rest, the problems of the one open document are shown, after
  deferrals, flushes, reloads and edits in any order.
* `AtMostOneAnswer`, `ExactlyOneHolder`: a request is in one place until it is
  answered, once.
* `AnswerSeesEdits`: an answer is of a text with every edit the client sent
  before its request, although the edits may overtake its retries.
* `RefusalsAreExplained`: Cancelled, ContentModified and InvalidRequest only for
  the reason they name; a retried method never gets ContentModified.
* `EffectsOnlyOfAccepted`: semantic tokens are committed only with an answer the
  client got.
* `AnswersRestore`: a client that applies an answer to the result it named has
  the tokens of the text and settings that the worker saw, however the cache
  changed in between; `AnswersKeepOrder`: and no answer goes back to an older text.
* `ScreenShowsMarks`: from the marks of the analysis, encoded, sent as a delta, applied
  and decoded, to the screen: every mark is in its place.
* `BurstBounded`: a thread prefers three requests at most to a run that waits, counted
  by a history variable from the moment the run came.
* `OneProgress`, `OnlyLatestCommitted`: the client sees one progress, that of the active
  run, with all its logs in it; only the result of the latest run is committed, if
  it is of the current text and nobody cancelled it.
* `UnchangedIsTrue`: whenever the id the client will name is the server's current
  one, what it shows is what a full report would say.
* `ExportsAreLeast`: when the loop over the packages stops, every package exports
  what it declares and passes on, and nothing else: any namespaces closed in that
  way contain them.
* `IgnoresLaterAndOuter`: cut from the design all that comes after a reference, and
  all of the scopes around the one that answered, and the answer is the same (with the
  code's own exceptions for calls). Places count in every scope, as the code and its
  comment say (`hir-def/pathres.rs:155`), not in the innermost one only.
* `ActivationsReported`: a name in an expression that is answered by a wildcard import
  and declared later in the scope of that import is a reported conflict. Not so the
  name of a type, which the code does not collect (section 5).
* `UniqueMeansOnePath`: a path resolves to one definition only if each of its parts
  does, instances with several targets and packages of one name included.

### Liveness and fairness

`EventuallyReady`, `DeferredIsFlushed`, `EditsAreServed`, `EventuallySynced`,
`EventuallyQuiet`, `EventuallyAnswered`, `EverythingEnds`, `EventuallyShown` and
`EventuallyMapped` hold under the fairness of `FairSpec` in each module, which is no
more than this:

* weak fairness of the loop's steps: it never sleeps with a message in a channel
  it polls (`next_event` ends in a `select!` on all), and `apply_change` returns
  when all snapshots are gone (`FinishWrite`);
* strong fairness of reading the client's channel (`SelectReload`,
  `SelectClient`): other events may always be there, and crossbeam's `select!`
  picks among the ready channels at random, so none is passed over for ever;
  likewise for the loader's `TakeWatchEvent`, which the loader selects from;
* weak fairness of pool threads and jobs, fetch, loader and each scan thread: the
  operating system runs them, and they end. In `requests` this means that handlers
  do not hang, in `qihe` that the external commands end and that the threads
  that read their output do (`ReadOutput`); the run then shows that neither the
  edit that waits for the run's snapshot nor the run that waits for a thread waits
  for ever;
* `files`: if the client watches the disk, it reports changes of the files it was
  asked to watch; if the server does, `EventuallySynced` is not claimed;
* `pull`: the client asks again when told to, a reload ends (`Switch`), and a run of the
  semantic compiler ends by itself or is interrupted, but does not fail
  (`RunsFail = FALSE`, see section 5);
* `names`: the loop over the packages just runs.

The environment has no fairness: nothing forces an edit, a pull, a success of a
fetch. The edits are bounded, so "once the edits stop" is part of the claims.

### Findings

Three runs each check what a comment claims, and TLC finds a behaviour of the code
that contradicts it. `PROJECT.json` quotes the lines.

* `files_panic` (`NeverPanics`): a file created and deleted within one drained turn
  becomes a deletion of a file no source root ever had, and `Change::apply` panics.
* `push_converge` (`Converges`): opening or closing one document outdates a
  batch in flight for another, and only the first is asked for again. Likewise an
  edit or a disk change of a file outdates the batches of files that share no owner
  with it: the diagnostics revision they carry is one for all files.
* `pull_workspace` (`WorkspaceIdIsTrue`): a workspace pull reads Qihe's problems
  first and the generation in the result id last; a result committed in between
  makes every later answer "unchanged" with the old problems on the screen.

`OpenIsShown` is checked where the second of these cannot occur (one document), and
`Converges` is the same formula where it can; likewise `UnchangedIsTrue`, where Qihe
runs beside document pulls only, and `WorkspaceIdIsTrue`.

## 4. Proofs

Every theorem is for arbitrary constants (any sets of entries, files, texts,
requests, threads, tokens, packages, designs; any bounds) from the assumptions the
modules name: `None` is none of the values it stands beside, bounds are naturals,
flags are Booleans, `Listed` and `Profile` are subsets of `Files`, `Clean` is a text,
there is a text at all, the entries of a config are finitely many, marks have natural
positions, a path has a length, the owners of a design form trees (`TreeAssumption`).

* **WorkspaceReload.** `SingleFetch` counts jobs and queued results and is not
  inductive: it does not say where Begin is, nor why a result in the queue is of
  the active generation. `FetchInv` adds that the fetch is idle or in one of
  five places (spawned, Begin queued, loading after Begin was read, Begin and End
  queued, End queued), with its generation between committed and
  requested, and that an unstarted request exists exactly if the newest
  generation is not the running one. That last fact is what makes numbering
  generations anew after a failure harmless. `SingleFetchHolds` and
  `FetchProgressPairedHolds` follow.

  `ScanInv` is about the other half, loader and scan threads. Of the newest config
  (`Current` are its messages that the loop has not read): configs are taken in order
  and the last in the inbox is the newest (`Inbox`); "started" comes first of its
  messages and "finished" last, whatever order the threads report in (`InOrder`); the
  progress the client sees is open exactly between them, if there is something to load,
  and before "started" is read
  the VFS is not ready (`Progress`); and an entry that its thread has read is in
  the channel, in the change log or in the analysis, so that after "finished" all are
  there (`Loaded`; this rests on the loader joining its threads first). From it and
  `FetchInv` follow `ProgressPairedHolds` and the part of `ReadyMeansCurrentHolds`
  about the scan. For the part about the manifests, `ReadInv` follows what a fetch
  has read from the worker through the channel to the committed workspace: if it is
  of the newest request, it is no older than what was on disk when that was made, and
  once the client's notices are read that is no older than the last edit it sent
  one of (`Notices`). `TypeOKHolds`
  includes that no message is of a config yet to come.

  `ImplementsServiceHolds` is the refinement, step by step. `ReadInv` shows that what
  is served is no older than wanted; `FetchInv` that a fetch with an outcome is of the
  newest request, and that a request while one runs leaves the outcome open; `ScanInv` that
  a ready server does not become unready but by a request: once the scan of the newest
  config is over none of its messages is left, and those of older ones are rejected.

* **FileContents.** `FilesInv`: the change log is the difference of VFS and
  analysis (a file without a change has the same text, or is unknown to the
  analysis; one with a change has the VFS's text in the log), and every open
  buffer is in the VFS. Lemmas show that the merge and every write keep it. At
  rest the log is empty, hence `NoStaleTextHolds` and `OpenBufferWinsHolds`.
* **PushDiagnostics.** `PushInv`: no freshness is from the future; a job of the
  current freshness has the documents open now; a batch of the current freshness
  has the problems its files have now. A turn that changes a text or a target
  bumps a revision, so nothing in flight is current any more: lemma
  `OldFreshness`. `PublishedIsCurrentHolds` is an action property: at the publisher
  the freshness is compared, so the batch is right. `OpenIsShownHolds` is about one document
  in a workspace whose files have one owner, with updates on type, as long as no
  other document is opened and no fetch fails. `Recovered`: while the workspace is ready,
  the document's problems are on the screen or a batch of the current freshness is
  with a worker or in the channel; while it loads, the request that was dropped is
  remembered in `deferred`. None of the hypotheses can be left out: with a second document
  or a second owner the formula is `Converges`, which is refuted; on save nothing is
  computed for an edit before the save; and a reload outdates the batch in flight, which
  nothing asks for again if the fetch fails.
* **Requests.** `ReqInv`: a registered request has no answer, is in exactly one
  place, and if work remains for one that is not registered its token is
  cancelled (why `Start` does not run it); the loop has no trace of a request
  it has not read. From it: `AtMostOneAnswerHolds`, `ExactlyOneHolderHolds` (with its
  halves `NothingLostHolds` and `SingleHolderHolds`), `EffectsOnlyOfAcceptedHolds` and
  the action property `NoNeedlessWorkHolds`. `AnswerInv` adds what work has seen.
  A request follows some number of edits in the client's channel; that they are all
  applied when it is read is said by a function from the messages of the inbox to the
  number of edits applied once they are reached (`Counted`), which every send extends at its
  end and every read shortens at its head. A job or a task has seen the edits applied
  when its snapshot was taken, which are those its request follows at least (`JobOk`,
  `TaskOk`), also when it was tried again; and whatever interrupted it has a cause
  that the client knows of (`Reason`, `Causes`). `AnswerSeesEditsHolds` and
  `RefusalsAreExplainedHolds` follow.
* **SemanticTokens.** `DeltaRestores` is about the operators alone: for any two
  sequences, applying the edits made of the common prefix and the suffix of the rest
  gives the new one; its lemmas place prefix, suffix and middle of both. For
  `AnswersRestoreHolds` the invariant says that equal ids mean equal tokens,
  wherever they are (cache, jobs, client, channel): ids are positions in the history
  of results. `AnswersKeepOrderHolds`: a job that has a
  snapshot has that of the current version, and responses and answers are queued in
  the order of theirs. `DecodeBuild` is about `TokenBuilder` alone, for every sequence of
  marks: after each mark the builder's place is that of the last mark it kept, none of
  the earlier ones is after it, and a client that decodes the tokens made so far is at
  the same place with the marks kept so far (`Follows`). So `push` skips exactly the marks
  that come after a later one, and no difference it takes is negative (`PushType`). With
  `AnswersRestoreHolds` this is `ScreenShowsMarksHolds`.
* **QiheRuns.** `BurstBounded` alone is not inductive: `Burst` says that what a
  thread has preferred and what is left of its budget are three together, unless
  it stands after a look that found the other queue empty, and then it is none.
  Every step of the composition is a step of the pool (`StepsArePoolSteps`). For the
  runs, `Latest`: while the latest run has something in the channel or has not sent its
  result, its progress is shown; `ResultIsLast`: nothing comes after a result.
  Hence `OneProgressHolds` and, since what is committed comes from the channel,
  `OnlyLatestCommittedHolds`.
* **PullDiagnostics.** Where Qihe does not run beside workspace pulls (with it,
  `WorkspaceIdIsTrue` is refuted), `PullInv` says that every id, in a pull or with
  the client, is of the past (`OfPast`): no snapshot, readiness or generation
  in it is above the present one. None of them ever comes back, so an id that is
  the current one has been so since it was read, and what it stands for has not
  changed (`RevisionOK`, `CommitOK`). Further, a document pull that has an id has
  that of its snapshot (`DocumentRead`); what a workspace pull has read while no
  edit waited are the problems of now, as the edit would have waited for its
  snapshot (`WorkspaceRead`); what was read while one waited is outdated when the client
  gets it, since the loop passes answers on only after the edit (`AnswerTrue`, guarded
  by `Idle`). `UnchangedIsTrueHolds` follows.
* **NameResolution.** `MapInv`: the exports contain the declarations, lie below every
  closed choice of namespaces (passing on is monotone, lemma `PassedGrows`, which
  rests on `AndThenGrows`: more children never make an ambiguous parent yield
  more than they themselves are), and, as long as the pass has changed nothing, the
  packages visited in it add nothing. At the end that makes them the least closed
  ones: `ExportsAreLeastHolds`. `IgnoresLaterAndOuterHolds`: the first scope with an
  answer stays the first in the cut design (`CutShrinks` within it, `CutKeeps` at it).
  `ActivationsReportedHolds`: the walk for wildcard imports stops where the full walk
  did (`WalksAgree`), also from the body around a block (`FromBody`); it is about names in expressions.
  `UniqueMeansOnePathHolds`: a child of several parents is not unique, unless the parents
  are (`UniqueChild`), so what a path reaches is unique at each segment if it is at the
  last (`OnePath`), for paths of any length.

Each proof has one lemma per action or group of actions and one step per conjunct
the action disturbs; the theorems end with PTL.

Induction over a sequence (the marks of a text, the segments of a path) is made
without the library's induction theorems: the set of the numbers at which the claim
fails would have a least element (`WFMin`), which is not zero and not the successor of
one at which it holds (`Induct`). That the recursive functions exist on which such claims
rest is proved the same way (`RunExists`, `StepsExist`): each shorter function can be
extended by one value.

Every safety property that a passing run checks is stated by a theorem. Model-checked
only are the liveness properties (`EventuallyReady`, `DeferredIsFlushed`,
`EditsAreServed`, `EventuallySynced`, `EventuallyQuiet`, `EventuallyAnswered`,
`EverythingEnds`, `EventuallyShown`, `EventuallyMapped`): fairness and ENABLED are
beyond the prover.

## 5. Abstractions

* A message, a text, a URI, a position are model values or small records. Two
  spellings of one document, versions and line endings are left out.
* `WorkspaceReload`: a client's notice always asks for a reload, which
  `workspace.auto.reload` makes it do by default. The change of the manifest's own text in
  the VFS is not followed; that it defers diagnostics is, one step early (`VfsChanged`
  sets the flag which the code sets at the end of the same turn).
* `FileContents`: registration of the client's watcher is in effect before the first
  scan reads, and the server's watcher loses nothing while registered. A
  Loaded message of several files is one message per file, drained together.
* `FileContents` starts after the first fetch; the result of later
  fetches is a config with the same files, as a reload that changes which files
  are loaded is `WorkspaceReload`'s.
* `PushDiagnostics`: the set of files in the profile is fixed across reloads; two jobs
  that would compute the same batch are one; a failed or cancelled semantic run
  is one whose batch is outdated; one Qihe analysis runs at a time.
* `Requests`: ids are unique; `next_event`'s preference among channels is left open
  (more behaviours, not fewer); the number of threads and the order in which they
  take jobs is left open (`Pool` has it); the flag that an early answer sets is
  `WorkspaceReload`'s `deferred`; the two looks at the token in
  `encode_thread_result` are one, as a token once cancelled stays so; snapshots of jobs
  other than requests are not counted.
* `SemanticTokens`: a request or notification is handled when it is sent; which token
  the analysis gives a name is a constant function of text and settings.
* `QiheRuns`: a command's output is one line in each stage; arguments and parsing
  are left out; other jobs of the pool are requests.
* `PullDiagnostics`: one handler at a time, since they share nothing they write; the
  result of Qihe is committed as `QiheRuns` does; aliases of a URI and disabled
  roots are left out.
* `NameResolution`: owners are given, and what a body declares is a set of definitions
  with kinds; the merging of a port's several origins, the trace of a resolution
  and the text of messages are left out. `Diagnose` is of all files at once.

Disagreements met while modelling that have no run of their own, as each would need
one more instance:

* A file created, deleted and created again in a turn is merged to Modify, and
  gets no source root.
* A document closed while the workspace loads is forgotten by the deferred
  invalidation; its problems stay on the screen.
* A reload outdates the batches in flight when it is requested; if its fetch fails, nothing
  asks for them again (`push_one` with `FetchFails`), and an opened document may show
  no problems.
* A batch computed before Qihe's result and published after it takes Qihe's problems
  off the screen: the push path does not compare the external generation.
* An answer accepted after didClose puts a closed document back into the token cache.
* With updates on save, a pull that was interrupted and answered empty is not asked
  for again, nor after a failed run of the semantic compiler.
* A change of the token settings drops the cache but asks no client to refresh.
* A manifest edited while its workspace is scanned may never be reloaded under the
  server's own watcher: if the scan brings the new text first, that is no external change
  (`VfsFileSource::ConfigScan`), and when the watcher reports it nothing has changed
  (`global_state/event_loop.rs:454`). `ReadyMeansCurrent` and `EditsAreServed` are
  therefore about edits that the client announces.
* Import conflicts: the names of types are not collected: a name in a declaration, a
  cast or an assignment pattern is lowered to `DataTy::Named`, and
  `collect_ident_references` takes only `Expr::Ident` (`hir-def/diagnostics.rs:217`).
  A typedef after a use of the same name that a wildcard import answered is not reported.
  Further, a block's explicit import of the very definition makes a later
  declaration outside a conflict (`hir-def/diagnostics.rs:297`); references of
  calls are looked for as if they were values; references in begin/end blocks are asked
  from the procedure's body, past what the block declares; a name declared twice, or
  as a property, is not compared with explicit imports (`collect_import_conflicts`
  asks for a unique listing); modules in modules are not walked.
* The head of `hir-def/design_map.rs` says that imports are exported; only what
  export declarations name is. The doc of `NameRef` (`hir-def/pathres.rs:62`) says
  that declarations and explicit imports count only before the reference "in the innermost
  scope"; the code filters them in every scope, as its comment at `:155` says, and
  `IgnoresLaterAndOuter` follows the code. `hir-def/pathres.rs:390` says that every scope
  is filtered by position; `$unit` is not. A listing of a scope leaves assertions out, a
  listing of a package's exports has them.

## 6. Not modelled

The rest of the language analysis (`ide`, `hir-ty`, `hir-semantics`, `preproc*`,
`syntax`, `slang-sys`): parsing, preprocessing, types and the queries of the editor
are functions of the texts without state of their own, whose content is the grammar of
two languages; a model of them would repeat it line by line. They are most of
the repository's lines, which is why the share of lines modelled stays small. Of
`hir-def` the lowering of syntax to declarations is left out for the same reason.
Reading of manifests (`project-model`), settings, formatting of answers, texts and
translations: data. The browser build runs the same loop on one thread. Editors,
website and build scripts are not part of the server. Requests from the server to the
client are left out of `Requests`.

## 7. Plan

In order:

1. Proofs: that the bookkeeping of the other sources is lost by no turn in
   `PushDiagnostics` (the semantic compiler's pending profiles), and the composition
   of `QiheRuns` with `PullDiagnostics`' store.
2. `ManifestWatch`: which changes of manifests lead to a reload, beside
   `WorkspaceReload`'s run.
3. Composition: `Requests` with `FileContents`' turns, to say that an answer is of
   the buffer the editor had.
4. The preprocessor's macro tables and include chains (`preproc-expand`), as the
   next part of the analysis with rules that pile up.
