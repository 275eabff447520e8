--------------------------- MODULE WorkspaceReload ---------------------------
(***************************************************************************)
(* How the server loads a workspace and how it knows that it is ready.     *)
(*                                                                         *)
(* The main loop (src/global_state/event_loop.rs) numbers reload requests  *)
(* with generations, runs at most one fetch at a time (utils::ExclTask) on *)
(* a pool thread that reads the project manifests, and hands every fetched *)
(* workspace to the VFS loader thread (crates/vfs/src/notify.rs), which    *)
(* scans the load entries in parallel.  WorkspaceVfsReadiness              *)
(* (src/global_state/workspace_state.rs) decides from the messages that    *)
(* come back, some of them outdated, when diagnostics may run.             *)
(*                                                                         *)
(* Three actors interleave: the main loop, the fetch worker, the loader    *)
(* with its scan threads.  They share only channels, which are FIFO.  A    *)
(* turn of the main loop is several actions, because it keeps draining the *)
(* channel it reads while the other threads go on sending.                 *)
(***************************************************************************)
EXTENDS Integers, Sequences, FiniteSets

CONSTANTS
  Entries,     \* the load entries a workspace may have (loader::Entry)
  MaxEdits,    \* bound: how often the project's manifests change
  None         \* Option::None

ASSUME NoneAssumption     == None \notin Nat \cup {"ok", "errors"}
ASSUME EntriesAssumption  == IsFiniteSet(Entries)
ASSUME MaxEditsAssumption == MaxEdits \in Nat

(* The main loop: where it is in a turn, and what the client has seen. *)
VARIABLES
  phase,            \* where the loop is inside a turn
  clientNotices,    \* reload notifications the client has sent, not yet read
  deferred,         \* diagnostics_deferred_until_ready
  projectStatus     \* the last vide/projectStatus the client received

(* Fetching: WorkspaceVfsReadiness' generations, ExclTask, worker, tasks.  *)
VARIABLES
  requested,        \* requested_workspace_generation
  committed,        \* committed_workspace_generation
  activeFetch,      \* active_fetch_generation
  fetchProgress,    \* fetch_progress_generation
  pendingFetch,     \* ExclTask.requested
  fetchRunning,     \* ExclTask.in_process
  lastResult,       \* ExclTask.last_result: None, "ok" or "errors"
  workers,          \* the pool jobs that run fetch_workspaces' closure
  taskQueue,        \* task_pool channel: the FetchWorkspace tasks in it
  fetchOpen,        \* Begin minus End sent for the "fetching" progress
  manifest,         \* version of the manifests on disk
  workspaceManifest,\* the version the current workspaces were read from
  wanted,           \* history: the manifest when a reload was last requested
  announced         \* history: the last manifest the client sent a notice of

(* Scanning: WorkspaceVfsReadiness' VFS part and the loader.               *)
VARIABLES
  vfsVersion,       \* vfs_config_version
  vfsProgress,      \* vfs_progress, without the version it always shares
  vfsReady,         \* vfs_ready
  vfsClientProgress,\* vfs_client_progress_active
  scanOpen,         \* Begin minus End sent for the "scanning roots" progress
  strayReport,      \* was progress reported on a token that is not open?
  loadSets,         \* loadSets[v]: the entries of loader config v
  loaderInbox,      \* configs sent to the loader, not yet taken
  scan,             \* version the loader is scanning, None when idle
  entryStage,       \* where the scan thread of each entry is
  processed,        \* the scan's atomic counter of loaded entries
  vfsQueue,         \* vfs_loader channel: Progress, Loaded, Changed
  vfsPending,       \* loaded entries in the VFS change log
  analysed          \* loaded entries the analysis host has been given

loopVars  == <<phase, clientNotices, deferred, projectStatus>>
genVars   == <<requested, committed, activeFetch, fetchProgress>>
exclVars  == <<pendingFetch, fetchRunning, lastResult>>
fetchVars == <<genVars, exclVars, workers, taskQueue, fetchOpen>>
readyVars == <<vfsVersion, vfsProgress, vfsReady, vfsClientProgress>>
loadVars  == <<loaderInbox, scan, entryStage, processed>>
scanVars  == <<readyVars, scanOpen, strayReport, loadSets, loadVars, vfsQueue,
               vfsPending, analysed>>
diskVars  == <<manifest, workspaceManifest, wanted, announced>>
vars      == <<loopVars, fetchVars, scanVars, diskVars>>

------------------------------------------------------------------------------
(* WorkspaceVfsReadiness and ExclTask.                                     *)

\* is_ready.  vfs_progress.config_version is assigned together with
\* vfs_config_version and never alone, so that conjunct is not kept.
IsReady == activeFetch = None /\ requested = committed /\ vfsReady

\* Bug: a request made during a fetch is numbered but not remembered.
RequestReload_Forgotten ==
  /\ requested' = requested + 1
  /\ pendingFetch' = IF fetchRunning THEN pendingFetch ELSE requested + 1
  /\ wanted' = manifest

\* request_workspace_reload: a new generation; the newest request replaces
\* one that has not started.
RequestReload ==
  /\ requested' = requested + 1
  /\ pendingFetch' = requested + 1
  /\ wanted' = manifest

NewJob(gen) == [gen |-> gen, stage |-> "spawned", failed |-> FALSE, read |-> 0]

\* Bugs: no exclusion; a request that cannot start is taken all the same.
StartRequestedFetch_NoExclusion ==
  IF pendingFetch # None
  THEN /\ fetchRunning' = TRUE
       /\ pendingFetch' = None
       /\ activeFetch' = pendingFetch
       /\ workers' = workers \cup {NewJob(pendingFetch)}
  ELSE UNCHANGED <<fetchRunning, pendingFetch, activeFetch, workers>>
StartRequestedFetch_Taken ==
  /\ pendingFetch' = None
  /\ IF ~fetchRunning /\ pendingFetch # None
     THEN /\ fetchRunning' = TRUE
          /\ activeFetch' = pendingFetch
          /\ workers' = workers \cup {NewJob(pendingFetch)}
     ELSE UNCHANGED <<fetchRunning, activeFetch, workers>>

\* start_requested_workspace_fetch: start the request unless a fetch runs.
StartRequestedFetch ==
  IF ~fetchRunning /\ pendingFetch # None
  THEN /\ fetchRunning' = TRUE
       /\ pendingFetch' = None
       /\ activeFetch' = pendingFetch
       /\ workers' = workers \cup {NewJob(pendingFetch)}
  ELSE UNCHANGED <<fetchRunning, pendingFetch, activeFetch, workers>>

\* Bug: a result is committed although a newer reload was requested.
IsCurrent_AnyRequest(gen) == activeFetch = gen

\* The test of accept_workspace_fetch_begin and finish_workspace_fetch: the
\* running fetch, and no reload has been requested since it started.
IsCurrent(gen) == activeFetch = gen /\ requested = gen

\* finish_fetch_progress, with the Progress::End it lets the loop send.
FinishFetchProgress(gen) ==
  IF fetchProgress = gen
  THEN fetchProgress' = None /\ fetchOpen' = fetchOpen - 1
  ELSE UNCHANGED <<fetchProgress, fetchOpen>>

\* Bug: the superseded progress stays open.
BeginVfsLoad_LeftOpen(load) ==
  LET v == vfsVersion + 1 IN
  /\ vfsVersion' = v
  /\ vfsProgress' = [done |-> 0, total |-> Cardinality(load)]
  /\ vfsReady' = FALSE
  /\ vfsClientProgress' = FALSE
  /\ UNCHANGED scanOpen
  /\ loadSets' = Append(loadSets, load)
  /\ loaderInbox' = Append(loaderInbox, v)

\* begin_vfs_load and the message to the loader; the client's progress of a
\* superseded scan is closed.
BeginVfsLoad(load) ==
  LET v == vfsVersion + 1 IN
  /\ vfsVersion' = v
  /\ vfsProgress' = [done |-> 0, total |-> Cardinality(load)]
  /\ vfsReady' = FALSE
  /\ vfsClientProgress' = FALSE
  /\ scanOpen' = IF vfsClientProgress THEN scanOpen - 1 ELSE scanOpen
  /\ loadSets' = Append(loadSets, load)
  /\ loaderInbox' = Append(loaderInbox, v)

------------------------------------------------------------------------------
(* FetchWorkspace tasks (process_task).                                    *)

FetchBegin(gen) ==
  /\ IF IsCurrent(gen)
     THEN /\ fetchProgress' = gen
          /\ fetchOpen' = fetchOpen + 1
          /\ projectStatus' = "loading"
     ELSE UNCHANGED <<fetchProgress, fetchOpen, projectStatus>>
  /\ UNCHANGED <<requested, committed, activeFetch, exclVars, deferred,
                 scanVars, diskVars>>

\* finish_workspace_fetch.  Stale: not the fetch that is running, or a newer reload was requested.
FetchEndStale(m) ==
  /\ ~IsCurrent(m.gen)
  /\ activeFetch' = IF activeFetch = m.gen THEN None ELSE activeFetch
  /\ FinishFetchProgress(m.gen)
  /\ fetchRunning' = FALSE
  /\ lastResult' = None
  /\ UNCHANGED <<requested, committed, pendingFetch, deferred, projectStatus,
                 scanVars, diskVars>>

\* CurrentFailure: the old workspace stays, and is current again.
FetchEndFailed(m) ==
  /\ IsCurrent(m.gen)
  /\ m.failed
  /\ activeFetch' = None
  /\ fetchProgress' = IF fetchProgress = m.gen THEN None ELSE fetchProgress
  /\ fetchOpen' = fetchOpen - 1
  /\ requested' = committed
  /\ fetchRunning' = FALSE
  /\ lastResult' = "errors"
  /\ projectStatus' = "error"
  /\ UNCHANGED <<committed, pendingFetch, deferred, scanVars, diskVars>>

\* CurrentSuccess and switch_workspaces: commit, scan the new load entries.
\* Diagnostics are invalidated while the scan is pending, hence deferred.
FetchEndCommitted(m) ==
  /\ IsCurrent(m.gen)
  /\ ~m.failed
  /\ activeFetch' = None
  /\ fetchProgress' = IF fetchProgress = m.gen THEN None ELSE fetchProgress
  /\ fetchOpen' = fetchOpen - 1
  /\ committed' = m.gen
  /\ fetchRunning' = FALSE
  /\ lastResult' = "ok"
  /\ workspaceManifest' = m.read
  /\ \E load \in SUBSET Entries : BeginVfsLoad(load)
  /\ deferred' = TRUE
  /\ projectStatus' = "loaded"
  /\ UNCHANGED <<requested, pendingFetch, strayReport, scan, entryStage,
                 processed, vfsQueue, vfsPending, analysed, manifest, wanted,
                 announced>>

FetchEnd(m) ==
  \/ FetchEndStale(m)
  \/ FetchEndFailed(m)
  \/ FetchEndCommitted(m)

ProcessTask ==
  LET m == Head(taskQueue) IN
  /\ taskQueue # <<>>
  /\ taskQueue' = Tail(taskQueue)
  /\ \/ m.kind = "begin" /\ FetchBegin(m.gen)
     \/ m.kind = "end" /\ FetchEnd(m)
  /\ UNCHANGED <<clientNotices, workers>>

------------------------------------------------------------------------------
(* VFS loader messages (process_vfs_msg).                                  *)

Total(v) == Cardinality(loadSets[v])

\* Bug: progress of any config counts.
RejectsProgress_AnyVersion(m, done) ==
  m.kind # "finished" /\ done < vfsProgress.done

\* accept_vfs_progress refuses another config's progress, and a count that
\* a scan thread sent late.
RejectsProgress(m, done) ==
  \/ m.version # vfsVersion
  \/ m.kind # "finished" /\ done < vfsProgress.done

AcceptProgress(m, done) ==
  /\ ~RejectsProgress(m, done)
  /\ vfsProgress' = [done |-> done, total |-> Total(m.version)]
  /\ vfsReady' = (m.kind = "finished" \/ Total(m.version) = 0)

ProgressIgnored(m) ==
  /\ RejectsProgress(m, m.n)
  /\ UNCHANGED <<readyVars, scanOpen, strayReport>>

\* An empty scan updates readiness and reports nothing.
ProgressOfEmptyScan(m) ==
  /\ AcceptProgress(m, m.n)
  /\ Total(m.version) = 0
  /\ UNCHANGED <<vfsVersion, vfsClientProgress, scanOpen, strayReport>>

ProgressReported(m) ==
  /\ AcceptProgress(m, m.n)
  /\ Total(m.version) > 0
  /\ CASE m.kind = "started"  -> scanOpen' = scanOpen + 1 /\ vfsClientProgress' = TRUE
       [] m.kind = "finished" -> scanOpen' = scanOpen - 1 /\ vfsClientProgress' = FALSE
       [] m.kind = "progress" -> UNCHANGED <<scanOpen, vfsClientProgress>>
  /\ strayReport' = (strayReport \/ (m.kind = "progress" /\ scanOpen # 1))
  /\ UNCHANGED vfsVersion

VfsProgress(m) ==
  /\ \/ ProgressIgnored(m)
     \/ ProgressOfEmptyScan(m)
     \/ ProgressReported(m)
  /\ UNCHANGED <<vfsPending, analysed, deferred, requested, pendingFetch, wanted>>

\* process_vfs_files for a scan: files whose content the VFS does not have
\* yet enter its change log, the others are already where they belong.  A
\* Loaded message carries no version; m.version only records its origin.
VfsLoaded(m) ==
  LET entry   == <<m.version, m.entry>>
      pending == \E p \in vfsPending : p[2] = m.entry
  IN
  /\ \E changed \in BOOLEAN :
       IF changed \/ pending
       THEN vfsPending' = vfsPending \cup {entry} /\ UNCHANGED analysed
       ELSE analysed' = analysed \cup {entry} /\ UNCHANGED vfsPending
  /\ UNCHANGED <<readyVars, scanOpen, strayReport, deferred, requested, pendingFetch,
                 wanted>>

\* process_vfs_files for an external change of a project manifest.  Nothing happens
\* to a manifest that is open, or whose content a scan has brought before; any other
\* is changed in the VFS, which defers diagnostics unless the turn ends ready, and is
\* reloaded if automatic reload is on.
VfsChanged ==
  /\ \/ UNCHANGED <<deferred, requested, pendingFetch, wanted>>
     \/ /\ deferred' = TRUE
        /\ RequestReload \/ UNCHANGED <<requested, pendingFetch, wanted>>
  /\ UNCHANGED <<readyVars, scanOpen, strayReport, vfsPending, analysed>>

ProcessVfsMsg ==
  LET m == Head(vfsQueue) IN
  /\ vfsQueue # <<>>
  /\ vfsQueue' = Tail(vfsQueue)
  /\ \/ m.kind \in {"started", "progress", "finished"} /\ VfsProgress(m)
     \/ m.kind = "loaded" /\ VfsLoaded(m)
     \/ m.kind = "changed" /\ VfsChanged
  /\ UNCHANGED <<clientNotices, projectStatus, committed, activeFetch,
                 fetchProgress, fetchRunning, lastResult, workers, taskQueue,
                 fetchOpen, loadSets, loadVars, manifest, workspaceManifest,
                 announced>>

------------------------------------------------------------------------------
(* The main loop (run, next_event, handle_event).                          *)

\* next_event polls the loader's channel, then the tasks', and only then
\* waits for the first of the three that has a message.
PollVfs ==
  /\ phase = "poll"
  /\ \/ vfsQueue # <<>> /\ ProcessVfsMsg /\ phase' = "vfs"
     \/ /\ vfsQueue = <<>>
        /\ phase' = "pollTasks"
        /\ UNCHANGED <<clientNotices, deferred, projectStatus, fetchVars,
                       scanVars, diskVars>>

PollTasks ==
  /\ phase = "pollTasks"
  /\ \/ ProcessTask /\ phase' = "task"
     \/ /\ taskQueue = <<>>
        /\ phase' = "select"
        /\ UNCHANGED <<clientNotices, deferred, projectStatus, fetchVars,
                       scanVars, diskVars>>

SelectTask == phase = "select" /\ ProcessTask /\ phase' = "task"
SelectVfs  == phase = "select" /\ ProcessVfsMsg /\ phase' = "vfs"

\* didSave, didChangeWatchedFiles, didChangeWorkspaceFolders, the answer to
\* didChangeConfiguration: each ends in a request to reload.
SelectReload ==
  /\ phase = "select"
  /\ clientNotices > 0
  /\ clientNotices' = clientNotices - 1
  /\ RequestReload
  /\ phase' = "client"
  /\ UNCHANGED <<deferred, projectStatus, committed, activeFetch,
                 fetchProgress, fetchRunning, lastResult, workers, taskQueue,
                 fetchOpen, scanVars, manifest, workspaceManifest, announced>>

\* A pull for diagnostics: deferred, and answered empty, until ready.
SelectPull ==
  /\ phase = "select"
  /\ deferred' = (deferred \/ ~IsReady)
  /\ phase' = "client"
  /\ UNCHANGED <<clientNotices, projectStatus, fetchVars, scanVars, diskVars>>

\* handle_task and handle_vfs_msg take everything their channel holds.
DrainTasks == phase = "task" /\ ProcessTask /\ UNCHANGED phase
DrainVfs   == phase = "vfs" /\ ProcessVfsMsg /\ UNCHANGED phase

\* Bug: deferred diagnostics are never taken.
DeferredAfterTurn_Kept == deferred \/ (~IsReady /\ vfsPending # {})

\* process_changes invalidates diagnostics, or defers that; deferred ones are
\* then taken (and computed) if the workspace is ready.
DeferredAfterTurn == ~IsReady /\ (deferred \/ vfsPending # {})

\* The end of handle_event: process_changes gives the VFS changes to the
\* analysis, deferred diagnostics are flushed, a requested fetch is started.
EndTurn ==
  /\ \/ phase = "client"
     \/ phase = "task" /\ taskQueue = <<>>
     \/ phase = "vfs" /\ vfsQueue = <<>>
  /\ phase' = "poll"
  /\ analysed' = analysed \cup vfsPending
  /\ vfsPending' = {}
  /\ deferred' = DeferredAfterTurn
  /\ StartRequestedFetch
  /\ UNCHANGED <<clientNotices, projectStatus, requested, committed,
                 fetchProgress, lastResult, taskQueue, fetchOpen, readyVars,
                 scanOpen, strayReport, loadSets, loadVars, vfsQueue, diskVars>>

MainLoop ==
  \/ PollVfs \/ PollTasks
  \/ SelectTask \/ SelectVfs \/ SelectReload \/ SelectPull
  \/ DrainTasks \/ DrainVfs \/ EndTurn

------------------------------------------------------------------------------
(* The fetch worker: the closure fetch_workspaces gives to the pool.       *)

Advance(w, stage, failed, read) ==
  workers' = (workers \ {w}) \cup
    {[gen |-> w.gen, stage |-> stage, failed |-> failed, read |-> read]}

FetchMsg(kind, w) ==
  [kind |-> kind, gen |-> w.gen, failed |-> w.failed, read |-> w.read]

WorkerBegin(w) ==
  /\ w.stage = "spawned"
  /\ taskQueue' = Append(taskQueue, FetchMsg("begin", w))
  /\ Advance(w, "loading", FALSE, 0)
  /\ UNCHANGED <<loopVars, genVars, exclVars, fetchOpen, scanVars, diskVars>>

\* ProjectModel::load reads the manifests; an error or a panic fails it.
WorkerLoad(w) ==
  /\ w.stage = "loading"
  /\ \E failed \in BOOLEAN :
       Advance(w, "loaded", failed, IF failed THEN 0 ELSE manifest)
  /\ UNCHANGED <<loopVars, genVars, exclVars, taskQueue, fetchOpen, scanVars,
                 diskVars>>

WorkerEnd(w) ==
  /\ w.stage = "loaded"
  /\ taskQueue' = Append(taskQueue, FetchMsg("end", w))
  /\ workers' = workers \ {w}
  /\ UNCHANGED <<loopVars, genVars, exclVars, fetchOpen, scanVars, diskVars>>

Worker == \E w \in workers : WorkerBegin(w) \/ WorkerLoad(w) \/ WorkerEnd(w)

------------------------------------------------------------------------------
(* The loader thread and its scan threads (NotifyActor::run).              *)

\* Bug: the index of the last entry for the number of entries.
ScanMsg_Index(kind, n) == [kind |-> kind, version |-> scan, n |-> n - 1]

ScanMsg(kind, n) == [kind |-> kind, version |-> scan, n |-> n]

LoaderTakeConfig ==
  /\ scan = None
  /\ loaderInbox # <<>>
  /\ LET v == Head(loaderInbox) IN
       /\ scan' = v
       /\ entryStage' = [e \in Entries |->
                           IF e \in loadSets[v] THEN [at |-> "read", n |-> 0]
                                                ELSE [at |-> "done", n |-> 0]]
       /\ vfsQueue' = Append(vfsQueue, [kind |-> "started", version |-> v, n |-> 0])
  /\ loaderInbox' = Tail(loaderInbox)
  /\ processed' = 0
  /\ UNCHANGED <<loopVars, fetchVars, readyVars, scanOpen, strayReport,
                 loadSets, vfsPending, analysed, diskVars>>

ScanStep(e, from, to, n) ==
  /\ scan # None
  /\ entryStage[e].at = from
  /\ entryStage' = [entryStage EXCEPT ![e] = [at |-> to, n |-> n]]
  /\ UNCHANGED <<loopVars, fetchVars, readyVars, scanOpen, strayReport,
                 loadSets, loaderInbox, scan, vfsPending, analysed, diskVars>>

\* load_entry announces each directory with the counter's current value.
ScanDirectory(e) ==
  /\ ScanStep(e, "read", "load", 0)
  /\ vfsQueue' = Append(vfsQueue, ScanMsg("progress", processed))
  /\ UNCHANGED processed

ScanLoaded(e) ==
  /\ ScanStep(e, "load", "count", 0)
  /\ vfsQueue' = Append(vfsQueue,
                        [kind |-> "loaded", version |-> scan, entry |-> e])
  /\ UNCHANGED processed

\* fetch_add and the send of its result are two steps of a scan thread.
ScanCount(e) ==
  /\ ScanStep(e, "count", "report", processed + 1)
  /\ processed' = processed + 1
  /\ UNCHANGED vfsQueue

ScanReport(e) ==
  /\ ScanStep(e, "report", "done", 0)
  /\ vfsQueue' = Append(vfsQueue, ScanMsg("progress", entryStage[e].n))
  /\ UNCHANGED processed

\* for_each has joined every scan thread.
LoaderFinish ==
  /\ scan # None
  /\ \A e \in Entries : entryStage[e].at = "done"
  /\ vfsQueue' = Append(vfsQueue, ScanMsg("finished", Total(scan)))
  /\ scan' = None
  /\ UNCHANGED <<loopVars, fetchVars, readyVars, scanOpen, strayReport,
                 loadSets, loaderInbox, entryStage, processed, vfsPending,
                 analysed, diskVars>>

ScanThread(e) ==
  ScanDirectory(e) \/ ScanLoaded(e) \/ ScanCount(e) \/ ScanReport(e)

Loader == LoaderTakeConfig \/ LoaderFinish \/ \E e \in Entries : ScanThread(e)

------------------------------------------------------------------------------
\* A manifest is edited and the edit announced: by the client (didSave,
\* didChangeWatchedFiles), with automatic reload on, or by the loader, which rereads
\* the file.
EditManifest ==
  /\ manifest < MaxEdits
  /\ manifest' = manifest + 1
  /\ \/ /\ clientNotices' = clientNotices + 1 /\ announced' = manifest'
        /\ UNCHANGED vfsQueue
     \/ /\ vfsQueue' = Append(vfsQueue, [kind |-> "changed"])
        /\ UNCHANGED <<clientNotices, announced>>
  /\ UNCHANGED <<phase, deferred, projectStatus, fetchVars, readyVars,
                 scanOpen, strayReport, loadSets, loadVars, vfsPending,
                 analysed, workspaceManifest, wanted>>

\* run requests and starts the first fetch before its first event.
Init ==
  /\ phase = "poll" /\ clientNotices = 0 /\ deferred = FALSE
  /\ projectStatus = None
  /\ requested = 1 /\ committed = 0 /\ activeFetch = 1 /\ fetchProgress = None
  /\ pendingFetch = None /\ fetchRunning = TRUE /\ lastResult = None
  /\ workers = {NewJob(1)}
  /\ taskQueue = <<>> /\ fetchOpen = 0
  /\ manifest = 0 /\ workspaceManifest = None /\ wanted = 0 /\ announced = 0
  /\ vfsVersion = 0 /\ vfsProgress = [done |-> 0, total |-> 0]
  /\ vfsReady = TRUE /\ vfsClientProgress = FALSE
  /\ scanOpen = 0 /\ strayReport = FALSE
  /\ loadSets = <<>> /\ loaderInbox = <<>> /\ scan = None
  /\ entryStage = [e \in Entries |-> [at |-> "done", n |-> 0]]
  /\ processed = 0
  /\ vfsQueue = <<>> /\ vfsPending = {} /\ analysed = {}

Next == MainLoop \/ Worker \/ Loader \/ EditManifest

Spec == Init /\ [][Next]_vars

\* The loop handles whatever it finds in a channel, and select! does not pass
\* over the client's channel for ever, which is FIFO, so a notification is read
\* whatever else the client sends: SF.  Pool, loader and scan threads run.
\* The client never has to edit or to pull.
Fairness ==
  /\ WF_vars(PollVfs) /\ WF_vars(PollTasks)
  /\ WF_vars(SelectTask) /\ WF_vars(SelectVfs) /\ SF_vars(SelectReload)
  /\ WF_vars(DrainTasks) /\ WF_vars(DrainVfs) /\ WF_vars(EndTurn)
  /\ WF_vars(Worker)
  /\ WF_vars(LoaderTakeConfig) /\ WF_vars(LoaderFinish)
  /\ \A e \in Entries : WF_vars(ScanThread(e))

FairSpec == Spec /\ Fairness

------------------------------------------------------------------------------
(* Properties.                                                             *)

Gen      == Nat
GenOrNil == Nat \cup {None}
Job      == [gen : Gen, stage : {"spawned", "loading", "loaded"},
             failed : BOOLEAN, read : Nat]
Task     == [kind : {"begin", "end"}, gen : Gen, failed : BOOLEAN, read : Nat]
VfsMsg   == [kind : {"started", "progress", "finished"}, version : Nat, n : Nat]
              \cup [kind : {"loaded"}, version : Nat, entry : Entries]
              \cup [kind : {"changed"}]
Stage    == [at : {"read", "load", "count", "report", "done"}, n : Nat]

\* Every variable has the type its Rust counterpart has, and no message is of a config
\* yet to come: always!(config_version <= current_vfs_config_version).
TypeOK ==
  /\ phase \in {"poll", "pollTasks", "select", "task", "vfs", "client"}
  /\ clientNotices \in Nat /\ deferred \in BOOLEAN
  /\ projectStatus \in {None, "loading", "error", "loaded"}
  /\ requested \in Gen /\ committed \in Gen
  /\ activeFetch \in GenOrNil /\ fetchProgress \in GenOrNil
  /\ pendingFetch \in GenOrNil /\ fetchRunning \in BOOLEAN
  /\ lastResult \in {None, "ok", "errors"}
  /\ workers \subseteq Job /\ taskQueue \in Seq(Task)
  /\ fetchOpen \in Int /\ manifest \in Nat /\ wanted \in Nat /\ announced \in Nat
  /\ workspaceManifest \in GenOrNil
  /\ vfsVersion \in Nat /\ vfsProgress \in [done : Nat, total : Nat]
  /\ vfsReady \in BOOLEAN /\ vfsClientProgress \in BOOLEAN
  /\ scanOpen \in Int /\ strayReport \in BOOLEAN
  /\ loadSets \in Seq(SUBSET Entries) /\ loaderInbox \in Seq(Nat)
  /\ scan \in GenOrNil /\ entryStage \in [Entries -> Stage]
  /\ processed \in Nat /\ vfsQueue \in Seq(VfsMsg)
  /\ vfsPending \subseteq Nat \X Entries /\ analysed \subseteq Nat \X Entries
  /\ \A i \in DOMAIN vfsQueue :
       vfsQueue[i].kind \in {"started", "progress", "finished"}
         => vfsQueue[i].version <= vfsVersion

EndsQueued == {i \in DOMAIN taskQueue : taskQueue[i].kind = "end"}

\* utils::ExclTask ("only one long-running operation is being executed") holds
\* across threads: there is one fetch job or one unread result at most, it
\* belongs to the generation the readiness state believes active, and a
\* result that arrives finds the task in process (complete's assertion).
SingleFetch ==
  /\ Cardinality(workers) + Cardinality(EndsQueued) = (IF fetchRunning THEN 1 ELSE 0)
  /\ fetchRunning <=> activeFetch # None
  /\ \A w \in workers : w.gen = activeFetch
  /\ \A i \in EndsQueued : taskQueue[i].gen = activeFetch

\* The client sees Begin and End of the "fetching workspaces" progress in
\* strict alternation, through reloads that supersede a running fetch and
\* generations that are numbered again after a failure.
FetchProgressPaired ==
  fetchOpen = (IF fetchProgress = None THEN 0 ELSE 1)

\* The same for "scanning roots", when configs supersede each other while
\* their messages are in the channel; nothing is reported outside the pair.
ScanProgressPaired ==
  /\ scanOpen = (IF vfsClientProgress THEN 1 ELSE 0)
  /\ ~strayReport

\* Both progresses that the client is shown begin and end in turn (finish_fetch_progress,
\* begin_vfs_load, process_vfs_msg).
ProgressPaired == FetchProgressPaired /\ ScanProgressPaired

\* Between two turns of the main loop.
AtRest == phase = "poll"

\* Between turns, a ready workspace means that every entry of the newest
\* loader config has been read and handed to the analysis: no request sees
\* a partial startup or a partial reload.
ReadyMeansAnalysed ==
  AtRest /\ IsReady /\ vfsVersion > 0
    => \A e \in loadSets[vfsVersion] : <<vfsVersion, e>> \in analysed

\* A ready workspace whose last fetch succeeded was read from manifests not older
\* than the last edit that the client has sent a notice of, once the notice is read
\* (the loader's word of an edit may be ignored).
ReadyMeansFresh ==
  IsReady /\ lastResult = "ok" /\ clientNotices = 0
    => workspaceManifest \in announced .. manifest

\* What is_ready promises to requests and diagnostics: neither a part nor the past of
\* the workspace.
ReadyMeansCurrent == ReadyMeansAnalysed /\ ReadyMeansFresh

\* What the pipeline promises, ReloadService, under the mapping: the outcome of
\* the newest request is not known while it has not been committed or failed.
Service == INSTANCE ReloadService WITH
  disk    <- manifest,
  served  <- workspaceManifest,
  outcome <- IF requested = committed THEN lastResult ELSE None,
  ready   <- IsReady
ImplementsService == Service!Spec

\* However reloads, failures and scans interleave, the server becomes ready
\* for good once the edits stop.
EventuallyReady == <>[]IsReady

\* Diagnostics that were deferred are eventually flushed.
DeferredIsFlushed == []<>~deferred

\* "After project configuration changes, Vide reloads vide.toml": the last edit that
\* the client has sent a notice of is in the workspace, unless reading it failed.
EditsAreServed ==
  <>[](lastResult = "errors" \/ workspaceManifest \in announced .. manifest)
==============================================================================
