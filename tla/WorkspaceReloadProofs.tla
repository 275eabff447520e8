------------------------ MODULE WorkspaceReloadProofs ------------------------
(***************************************************************************)
(* Proofs about WorkspaceReload, for every set of load entries and every   *)
(* number of edits.                                                        *)
(*                                                                         *)
(* The fetch pipeline is a relay of one baton: the running fetch is in     *)
(* exactly one of five places (Spawned .. EndQueued below), in the pool or *)
(* in the task channel, and always carries the active generation.  That is *)
(* FetchInv, the strengthening that makes SingleFetch and                  *)
(* FetchProgressPaired inductive.                                          *)
(*                                                                         *)
(* ScanInv says where the loader's messages of the newest config are: they *)
(* are in order, "started" first and "finished" last, and every entry that *)
(* has been read is in one of them or has arrived.  Messages of older      *)
(* configs may precede them, of younger ones there are none.  ReadInv says *)
(* that what has been read for the newest request was read after it.       *)
(* Together they give what is_ready promises, and the refinement of        *)
(* ReloadService.                                                          *)
(***************************************************************************)
EXTENDS WorkspaceReload, FiniteSetTheorems, SequenceTheorems, TLAPS

IsTask(m, kind) == m \in Task /\ m.kind = kind /\ m.gen = activeFetch

\* One pool job, past its Begin.
JobRuns == \E w \in Job : w.gen = activeFetch /\ w.stage # "spawned" /\ workers = {w}

\* The Begin has been handled: it was accepted unless a newer reload had been
\* requested by then.
BeginHandled ==
  /\ fetchProgress \in {None, activeFetch}
  /\ requested = activeFetch => fetchProgress = activeFetch

Spawned ==
  /\ workers = {NewJob(activeFetch)} /\ taskQueue = <<>> /\ fetchProgress = None

BeginQueued ==
  /\ JobRuns /\ fetchProgress = None
  /\ \E b \in Task : IsTask(b, "begin") /\ taskQueue = <<b>>

Loading == JobRuns /\ taskQueue = <<>> /\ BeginHandled

BothQueued ==
  /\ workers = {} /\ fetchProgress = None
  /\ \E b, e \in Task : IsTask(b, "begin") /\ IsTask(e, "end") /\ taskQueue = <<b, e>>

EndQueued ==
  /\ workers = {} /\ BeginHandled
  /\ \E e \in Task : IsTask(e, "end") /\ taskQueue = <<e>>

Running ==
  /\ fetchRunning /\ activeFetch \in Nat
  /\ committed < activeFetch /\ activeFetch <= requested
  /\ pendingFetch = None <=> activeFetch = requested
  /\ Spawned \/ BeginQueued \/ Loading \/ BothQueued \/ EndQueued

Idle ==
  /\ ~fetchRunning /\ activeFetch = None
  /\ workers = {} /\ taskQueue = <<>> /\ fetchProgress = None
  /\ committed <= requested
  /\ pendingFetch = None <=> requested = committed

FetchInv ==
  /\ requested \in Nat /\ committed \in Nat /\ manifest \in Nat
  /\ fetchRunning \in BOOLEAN
  /\ pendingFetch \in {None, requested}
  /\ fetchOpen = (IF fetchProgress = None THEN 0 ELSE 1)
  /\ Running \/ Idle

fetchInvVars == <<requested, committed, activeFetch, fetchProgress, pendingFetch,
                  fetchRunning, workers, taskQueue, fetchOpen>>

------------------------------------------------------------------------------
LEMMA FetchInvInit == Init => FetchInv
BY NoneAssumption
   DEF Init, FetchInv, Running, Idle, Spawned, NewJob

\* Steps of the loader, the scan messages and the edits of the manifests.
LEMMA FetchInvStutter ==
  ASSUME FetchInv, UNCHANGED fetchInvVars, manifest' \in Nat
  PROVE  FetchInv'
BY DEF FetchInv, fetchInvVars, Running, Idle, Spawned,
       BeginQueued, Loading, BothQueued, EndQueued, JobRuns, BeginHandled, IsTask

\* A request only raises the generation, so the running fetch, if any, is no
\* longer the requested one and a new request is pending.
LEMMA FetchInvRequest ==
  ASSUME FetchInv, RequestReload,
         UNCHANGED <<committed, activeFetch, fetchProgress, fetchRunning,
                     workers, taskQueue, fetchOpen, manifest>>
  PROVE  FetchInv'
<1>1. requested' = requested + 1 /\ pendingFetch' = requested'
  BY DEF RequestReload
<1>2. CASE Idle
  BY <1>1, <1>2, NoneAssumption DEF FetchInv, Idle
<1>3. CASE Running
  <2>1. activeFetch < requested' /\ requested' \in Nat
    BY <1>1, <1>3 DEF FetchInv, Running
  <2>2. Running'
    BY <1>1, <1>3, <2>1, NoneAssumption
       DEF FetchInv, Running, Spawned, BeginQueued, Loading, BothQueued,
           EndQueued, JobRuns, BeginHandled, IsTask
  <2>3. QED
    BY <1>1, <2>1, <2>2 DEF FetchInv
<1>4. QED
  BY <1>2, <1>3 DEF FetchInv

\* A fetch starts only from Idle, and starts the newest request.
LEMMA FetchInvStart ==
  ASSUME FetchInv, StartRequestedFetch,
         UNCHANGED <<requested, committed, fetchProgress, taskQueue, fetchOpen,
                     manifest>>
  PROVE  FetchInv'
<1>1. CASE ~fetchRunning /\ pendingFetch # None
  <2>1. Idle /\ pendingFetch = requested /\ committed < requested
    BY <1>1 DEF FetchInv, Running, Idle
  <2>2. Spawned' /\ fetchRunning' = TRUE /\ activeFetch' = requested /\ pendingFetch' = None
    BY <1>1, <2>1 DEF StartRequestedFetch, Spawned, Idle, NewJob
  <2>3. QED
    BY <2>1, <2>2, NoneAssumption DEF FetchInv, Running
<1>2. CASE ~(~fetchRunning /\ pendingFetch # None)
  <2>1. UNCHANGED fetchInvVars
    BY <1>2 DEF StartRequestedFetch, fetchInvVars
  <2>2. QED
    BY <2>1, FetchInvStutter DEF FetchInv
<1>3. QED
  BY <1>1, <1>2

\* What the main loop finds at the head of its task channel.
LEMMA HeadOfTasks ==
  ASSUME FetchInv, taskQueue # <<>>
  PROVE  /\ Running
         /\ Head(taskQueue).gen = activeFetch
         /\ \/ BeginQueued /\ Head(taskQueue).kind = "begin" /\ Tail(taskQueue) = <<>>
            \/ /\ BothQueued /\ Head(taskQueue).kind = "begin"
               /\ \E e \in Task : IsTask(e, "end") /\ Tail(taskQueue) = <<e>>
            \/ EndQueued /\ Head(taskQueue).kind = "end" /\ Tail(taskQueue) = <<>>
<1>1. Running /\ (BeginQueued \/ BothQueued \/ EndQueued)
  BY DEF FetchInv, Running, Idle, Spawned, Loading
<1>2. CASE BeginQueued
  BY <1>1, <1>2 DEF BeginQueued, IsTask
<1>3. CASE BothQueued
  BY <1>1, <1>3 DEF BothQueued, IsTask
<1>4. CASE EndQueued
  BY <1>1, <1>4 DEF EndQueued, IsTask
<1>5. QED
  BY <1>1, <1>2, <1>3, <1>4

LEMMA ManifestKept == ProcessTask => manifest' = manifest
BY DEF ProcessTask, FetchBegin, FetchEnd, FetchEndStale, FetchEndFailed,
       FetchEndCommitted, diskVars

LEMMA FetchInvTask ==
  ASSUME FetchInv, ProcessTask, manifest' = manifest
  PROVE  FetchInv'
<1> DEFINE m == Head(taskQueue)
<1>1. taskQueue # <<>> /\ taskQueue' = Tail(taskQueue) /\ UNCHANGED workers
  BY DEF ProcessTask
<1>2. Running /\ m.gen = activeFetch
  BY <1>1, HeadOfTasks
<1>3. CASE m.kind = "begin" /\ FetchBegin(m.gen)
  <2>1. BeginQueued \/ BothQueued
    BY <1>1, <1>3, HeadOfTasks
  <2>2. UNCHANGED <<requested, committed, activeFetch, pendingFetch, fetchRunning>>
    BY <1>3 DEF FetchBegin, exclVars
  <2>3. BeginHandled' /\ fetchOpen' = (IF fetchProgress' = None THEN 0 ELSE 1)
    BY <1>2, <1>3, <2>1, <2>2, NoneAssumption
       DEF FetchBegin, IsCurrent, BeginHandled, BeginQueued, BothQueued, FetchInv, Running
  <2>4. Loading' \/ EndQueued'
    BY <1>1, <1>3, <2>1, <2>2, <2>3, HeadOfTasks
       DEF Loading, EndQueued, JobRuns, IsTask, BeginQueued, BothQueued
  <2>5. QED
    BY <1>2, <2>2, <2>3, <2>4 DEF FetchInv, Running
<1>4. CASE m.kind = "end" /\ FetchEnd(m)
  <2>1. EndQueued /\ taskQueue' = <<>>
    BY <1>1, <1>4, HeadOfTasks
  <2>2. fetchRunning' = FALSE /\ activeFetch' = None
    BY <1>2, <1>4 DEF FetchEnd, FetchEndStale, FetchEndFailed, FetchEndCommitted
  <2>3. fetchProgress' = None /\ fetchOpen' = 0
    BY <1>2, <1>4, <2>1, NoneAssumption
       DEF FetchEnd, FetchEndStale, FetchEndFailed, FetchEndCommitted,
           FinishFetchProgress, IsCurrent, EndQueued, BeginHandled, FetchInv, Running
  <2>4. /\ requested' \in Nat /\ committed' \in Nat /\ committed' <= requested'
        /\ pendingFetch' \in {None, requested'}
        /\ pendingFetch' = None <=> requested' = committed'
    BY <1>2, <1>4, NoneAssumption
       DEF FetchEnd, FetchEndStale, FetchEndFailed, FetchEndCommitted, IsCurrent,
           FetchInv, Running
  <2>5. Idle'
    BY <1>1, <2>1, <2>2, <2>3, <2>4 DEF Idle, EndQueued
  <2>6. QED
    BY <2>2, <2>3, <2>4, <2>5 DEF FetchInv
<1>5. QED
  BY <1>3, <1>4 DEF ProcessTask

LEMMA AppendSecond ==
  ASSUME NEW S, NEW b \in S, NEW e \in S
  PROVE  Append(<<b>>, e) = <<b, e>>
<1>1. <<b>> \in Seq(S) /\ <<b, e>> \in Seq(S)
  OBVIOUS
<1>2. Append(<<b>>, e) \in Seq(S) /\ Len(Append(<<b>>, e)) = Len(<<b, e>>)
  BY <1>1, AppendProperties
<1>3. \A i \in 1 .. Len(<<b, e>>) : Append(<<b>>, e)[i] = <<b, e>>[i]
  BY <1>1
<1>4. QED
  BY <1>1, <1>2, <1>3, SeqEqual

LEMMA FetchInvWorker ==
  ASSUME FetchInv, NEW w \in workers,
         WorkerBegin(w) \/ WorkerLoad(w) \/ WorkerEnd(w)
  PROVE  FetchInv'
<1>1. /\ requested' = requested /\ committed' = committed
      /\ activeFetch' = activeFetch /\ fetchProgress' = fetchProgress
      /\ pendingFetch' = pendingFetch /\ fetchRunning' = fetchRunning
      /\ fetchOpen' = fetchOpen /\ manifest' = manifest
  BY DEF WorkerBegin, WorkerLoad, WorkerEnd, genVars, exclVars, diskVars
<1>2. Running /\ workers = {w} /\ w \in Job /\ w.gen = activeFetch
  <2>1. Running /\ (Spawned \/ JobRuns)
    BY DEF FetchInv, Running, Idle, BeginQueued, Loading, BothQueued, EndQueued
  <2>2. NewJob(activeFetch) \in Job /\ NewJob(activeFetch).gen = activeFetch
    BY <2>1 DEF Running, NewJob, Job, Gen
  <2>3. QED
    BY <2>1, <2>2 DEF Spawned, JobRuns
<1>3. CASE WorkerBegin(w)
  <2>1. Spawned
    BY <1>2, <1>3 DEF WorkerBegin, Running, Spawned, BeginQueued, Loading,
                      BothQueued, EndQueued, JobRuns
  <2>2. FetchMsg("begin", w) \in Task /\ taskQueue' = <<FetchMsg("begin", w)>>
    BY <1>2, <1>3, <2>1 DEF WorkerBegin, FetchMsg, Task, Job, Spawned
  <2>3. BeginQueued'
    BY <1>1, <1>2, <1>3, <2>1, <2>2
       DEF WorkerBegin, Advance, Job, BeginQueued, JobRuns, IsTask, FetchMsg, Spawned
  <2>4. QED
    BY <1>1, <1>2, <2>3 DEF FetchInv, Running
<1>4. CASE WorkerLoad(w)
  <2>1. BeginQueued \/ Loading
    BY <1>2, <1>4 DEF WorkerLoad, Running, Spawned, BeginQueued, Loading,
                      BothQueued, EndQueued, NewJob
  <2>2. JobRuns' /\ taskQueue' = taskQueue
    <3>1. PICK failed \in BOOLEAN :
            Advance(w, "loaded", failed, IF failed THEN 0 ELSE manifest)
      BY <1>4 DEF WorkerLoad
    <3> DEFINE v == [gen |-> w.gen, stage |-> "loaded", failed |-> failed,
                     read |-> IF failed THEN 0 ELSE manifest]
    <3>2. v \in Job /\ v.gen = activeFetch /\ v.stage # "spawned"
      BY <1>2 DEF Job, Gen, FetchInv
    <3>3. workers' = {v}
      BY <1>2, <3>1 DEF Advance
    <3>4. taskQueue' = taskQueue
      BY <1>4 DEF WorkerLoad
    <3> HIDE DEF v
    <3>5. QED
      BY <1>1, <3>2, <3>3, <3>4 DEF JobRuns
  <2>3. BeginQueued' \/ Loading'
    BY <1>1, <2>1, <2>2 DEF BeginQueued, Loading, BeginHandled, IsTask
  <2>4. QED
    BY <1>1, <1>2, <2>3 DEF FetchInv, Running
<1>5. CASE WorkerEnd(w)
  <2>1. BeginQueued \/ Loading
    BY <1>2, <1>5 DEF WorkerEnd, Running, Spawned, BeginQueued, Loading,
                      BothQueued, EndQueued, NewJob
  <2>2. /\ FetchMsg("end", w) \in Task /\ IsTask(FetchMsg("end", w), "end")'
        /\ taskQueue' = Append(taskQueue, FetchMsg("end", w))
        /\ workers' = {}
    BY <1>1, <1>2, <1>5 DEF WorkerEnd, FetchMsg, IsTask, Task, Job
  <2>3. CASE BeginQueued
    <3>1. PICK b \in Task : IsTask(b, "begin") /\ taskQueue = <<b>>
      BY <2>3 DEF BeginQueued
    <3>2. taskQueue' = <<b, FetchMsg("end", w)>>
      BY <2>2, <3>1, AppendSecond
    <3>3. BothQueued'
      BY <1>1, <2>2, <2>3, <3>1, <3>2 DEF BothQueued, BeginQueued, IsTask
    <3>4. QED
      BY <1>1, <1>2, <3>3 DEF FetchInv, Running
  <2>4. CASE Loading
    <3>1. taskQueue' = <<FetchMsg("end", w)>>
      BY <2>2, <2>4 DEF Loading
    <3>2. EndQueued'
      BY <1>1, <2>2, <2>4, <3>1 DEF EndQueued, Loading, BeginHandled
    <3>3. QED
      BY <1>1, <1>2, <3>2 DEF FetchInv, Running
  <2>5. QED
    BY <2>1, <2>3, <2>4
<1>6. QED
  BY <1>3, <1>4, <1>5

\* Messages of the loader: only a manifest change touches the fetch side.
LEMMA FetchInvVfsMsg ==
  ASSUME FetchInv, ProcessVfsMsg
  PROVE  FetchInv'
<1>1. UNCHANGED <<committed, activeFetch, fetchProgress, fetchRunning, workers,
                  taskQueue, fetchOpen, manifest>>
  BY DEF ProcessVfsMsg
<1>2. CASE UNCHANGED <<requested, pendingFetch>>
  BY <1>1, <1>2, FetchInvStutter DEF fetchInvVars, FetchInv
<1>3. CASE RequestReload
  BY <1>1, <1>3, FetchInvRequest
<1>4. QED
  BY <1>2, <1>3 DEF ProcessVfsMsg, VfsProgress, VfsLoaded, VfsChanged

LEMMA FetchInvStep == FetchInv /\ [Next]_vars => FetchInv'
<1> SUFFICES ASSUME FetchInv, [Next]_vars PROVE FetchInv'
  OBVIOUS
<1> USE DEF fetchInvVars, fetchVars, genVars, exclVars, diskVars
<1>1. CASE PollVfs
  BY <1>1, FetchInvVfsMsg, FetchInvStutter DEF PollVfs, FetchInv
<1>2. CASE PollTasks
  <2>1. CASE ProcessTask
    BY <2>1, FetchInvTask, ManifestKept
  <2>2. QED
    BY <1>2, <2>1, FetchInvStutter DEF PollTasks, FetchInv
<1>3. CASE SelectTask \/ DrainTasks
  BY <1>3, FetchInvTask, ManifestKept DEF SelectTask, DrainTasks
<1>4. CASE SelectVfs \/ DrainVfs
  BY <1>4, FetchInvVfsMsg DEF SelectVfs, DrainVfs
<1>5. CASE SelectReload
  BY <1>5, FetchInvRequest DEF SelectReload
<1>6. CASE SelectPull
  BY <1>6, FetchInvStutter DEF SelectPull, FetchInv
<1>7. CASE EndTurn
  BY <1>7, FetchInvStart DEF EndTurn
<1>8. CASE Worker
  BY <1>8, FetchInvWorker DEF Worker
<1>9. CASE Loader
  BY <1>9, FetchInvStutter
     DEF Loader, LoaderTakeConfig, LoaderFinish, ScanThread, ScanDirectory,
         ScanLoaded, ScanCount, ScanReport, ScanStep, FetchInv
<1>10. CASE EditManifest
  BY <1>10, FetchInvStutter DEF EditManifest, FetchInv
<1>11. CASE UNCHANGED vars
  BY <1>11, FetchInvStutter DEF vars, FetchInv
<1>12. QED
  BY <1>1, <1>2, <1>3, <1>4, <1>5, <1>6, <1>7, <1>8, <1>9, <1>10, <1>11
     DEF Next, MainLoop

\* The inductive invariant holds in every reachable state.
THEOREM FetchInvHolds == Spec => []FetchInv
BY FetchInvInit, FetchInvStep, PTL DEF Spec

------------------------------------------------------------------------------
LEMMA FetchInvSingle == FetchInv => SingleFetch
<1> SUFFICES ASSUME FetchInv PROVE SingleFetch
  OBVIOUS
<1>1. ASSUME NEW x, workers = {x}, x.gen = activeFetch, EndsQueued = {}, Running
      PROVE  SingleFetch
  <2>1. Cardinality(workers) = 1 /\ Cardinality(EndsQueued) = 0
    BY <1>1, FS_EmptySet, FS_Singleton
  <2>2. fetchRunning = TRUE /\ activeFetch # None
    BY <1>1, NoneAssumption DEF Running, FetchInv
  <2>3. QED
    BY <1>1, <2>1, <2>2 DEF SingleFetch
<1>2. ASSUME NEW i, workers = {}, EndsQueued = {i}, taskQueue[i].gen = activeFetch, Running
      PROVE  SingleFetch
  <2>1. Cardinality(workers) = 0 /\ Cardinality(EndsQueued) = 1
    BY <1>2, FS_EmptySet, FS_Singleton
  <2>2. fetchRunning = TRUE /\ activeFetch # None
    BY <1>2, NoneAssumption DEF Running, FetchInv
  <2>3. QED
    BY <1>2, <2>1, <2>2 DEF SingleFetch
<1>3. CASE Idle
  <2>1. EndsQueued = {}
    BY <1>3 DEF Idle, EndsQueued
  <2>2. QED
    BY <1>3, <2>1, FS_EmptySet DEF SingleFetch, Idle
<1>4. CASE Running /\ Spawned
  <2>1. EndsQueued = {} /\ NewJob(activeFetch).gen = activeFetch
    BY <1>4 DEF Spawned, EndsQueued, NewJob
  <2>2. QED
    BY <1>1, <1>4, <2>1 DEF Spawned
<1>5. CASE Running /\ (BeginQueued \/ Loading)
  <2>1. JobRuns /\ EndsQueued = {}
    BY <1>5 DEF BeginQueued, Loading, EndsQueued, IsTask
  <2>2. QED
    BY <1>1, <1>5, <2>1 DEF JobRuns
<1>6. CASE Running /\ BothQueued
  <2>1. EndsQueued = {2} /\ taskQueue[2].gen = activeFetch
    BY <1>6 DEF BothQueued, EndsQueued, IsTask
  <2>2. QED
    BY <1>2, <1>6, <2>1 DEF BothQueued
<1>7. CASE Running /\ EndQueued
  <2>1. EndsQueued = {1} /\ taskQueue[1].gen = activeFetch
    BY <1>7 DEF EndQueued, EndsQueued, IsTask
  <2>2. QED
    BY <1>2, <1>7, <2>1 DEF EndQueued
<1>8. QED
  BY <1>3, <1>4, <1>5, <1>6, <1>7 DEF FetchInv, Running

\* One fetch at a time, across the pool, the channel and the readiness state.
THEOREM SingleFetchHolds == Spec => []SingleFetch
BY FetchInvHolds, FetchInvSingle, PTL

\* Begin and End of the "fetching workspaces" progress alternate.
THEOREM FetchProgressPairedHolds == Spec => []FetchProgressPaired
<1>1. FetchInv => FetchProgressPaired
  BY DEF FetchInv, FetchProgressPaired
<1>2. QED
  BY <1>1, FetchInvHolds, PTL

------------------------------------------------------------------------------
(* The scan of the newest config.                                          *)

\* The last config that the loader has taken.
Taken == vfsVersion - Len(loaderInbox)

OfConfig(m, v) == m.kind # "changed" /\ m.version = v

\* The messages of the newest config that the loop has not read.
Current == {i \in DOMAIN vfsQueue : OfConfig(vfsQueue[i], vfsVersion)}
Queued(kind) == \E i \in Current : vfsQueue[i].kind = kind

\* The loop has not heard of its scan; has heard of its end.
Unheard == Taken < vfsVersion \/ Queued("started")
Over    == Taken = vfsVersion /\ scan = None /\ ~Queued("finished")

ScanTypes ==
  /\ vfsVersion \in Nat /\ vfsProgress \in [done : Nat, total : Nat]
  /\ vfsReady \in BOOLEAN /\ vfsClientProgress \in BOOLEAN
  /\ scanOpen \in Int /\ strayReport \in BOOLEAN
  /\ loadSets \in Seq(SUBSET Entries) /\ loaderInbox \in Seq(Nat)
  /\ scan \in GenOrNil /\ entryStage \in [Entries -> Stage]
  /\ processed \in Nat /\ vfsQueue \in Seq(VfsMsg)
  /\ vfsPending \subseteq Nat \X Entries /\ analysed \subseteq Nat \X Entries

Inbox ==
  /\ vfsVersion = Len(loadSets) /\ Len(loaderInbox) <= vfsVersion
  /\ \A i \in DOMAIN loaderInbox : loaderInbox[i] = Taken + i
  /\ scan # None => scan = Taken /\ scan >= 1
  /\ \A i \in DOMAIN vfsQueue :
       vfsQueue[i].kind # "changed" => vfsQueue[i].version \in 1 .. Taken

\* "started" comes first of them, "finished" last.
InOrder ==
  /\ \A i, j \in Current :
       i < j => vfsQueue[i].kind # "finished" /\ vfsQueue[j].kind # "started"
  /\ scan = vfsVersion => ~Queued("finished")
  /\ Over => Current = {}

Progress ==
  /\ Unheard => vfsProgress.done = 0
  /\ vfsClientProgress <=> ~Unheard /\ ~Over /\ loadSets[vfsVersion] # {}
  /\ vfsReady => Over \/ (~Unheard /\ loadSets[vfsVersion] = {})
  /\ ScanProgressPaired

\* An entry that has been read is on its way to the analysis, or there.
Read(e) ==
  scan = None \/ (scan = vfsVersion /\ entryStage[e].at \in {"count", "report", "done"})
Handed(e) ==
  \/ \E i \in Current : vfsQueue[i].kind = "loaded" /\ vfsQueue[i].entry = e
  \/ <<vfsVersion, e>> \in vfsPending \cup analysed
Loaded ==
  /\ phase # "vfs" => vfsPending = {}
  /\ vfsVersion > 0 /\ Taken = vfsVersion
       => \A e \in loadSets[vfsVersion] : Read(e) => Handed(e)

ScanInv == ScanTypes /\ Inbox /\ InOrder /\ Progress /\ Loaded

------------------------------------------------------------------------------
(* What has been read of the manifests.                                    *)

\* Read since the newest request, if that is the one which is served.
Recent(read, gen) == read \in Nat /\ read <= manifest /\ (gen = requested => wanted <= read)

\* What the client's notices were of is wanted, once they are read.
Notices ==
  /\ clientNotices \in Nat /\ announced \in Nat /\ announced <= manifest
  /\ clientNotices = 0 => announced <= wanted

ReadInv ==
  /\ wanted \in Nat /\ manifest \in Nat /\ wanted <= manifest
  /\ Notices
  /\ \A w \in workers : w.stage = "loaded" /\ ~w.failed => Recent(w.read, w.gen)
  /\ \A i \in DOMAIN taskQueue :
       taskQueue[i].kind = "end" /\ ~taskQueue[i].failed
         => Recent(taskQueue[i].read, taskQueue[i].gen)
  /\ requested = committed /\ activeFetch = None => lastResult # None
  /\ lastResult = "ok" => Recent(workspaceManifest, committed)

------------------------------------------------------------------------------
(* Lemmas on the loader's channel and on the size of a load.               *)

LEMMA TotalOf ==
  ASSUME ScanTypes, NEW v \in DOMAIN loadSets
  PROVE  Total(v) \in Nat /\ (Total(v) = 0 <=> loadSets[v] = {}) /\ loadSets[v] \subseteq Entries
<1>1. loadSets[v] \subseteq Entries
  BY DEF ScanTypes
<1>2. IsFiniteSet(loadSets[v])
  BY <1>1, EntriesAssumption, FS_Subset
<1> QED
  BY <1>1, <1>2, FS_CardinalityType, FS_EmptySet DEF Total

LEMMA ChannelTail ==
  ASSUME ScanTypes, vfsQueue # <<>>, vfsQueue' = Tail(vfsQueue), vfsVersion' = vfsVersion
  PROVE  /\ Head(vfsQueue) \in VfsMsg /\ Head(vfsQueue) = vfsQueue[1] /\ 1 \in DOMAIN vfsQueue
         /\ vfsQueue' \in Seq(VfsMsg)
         /\ \A i \in DOMAIN vfsQueue' :
              i \in Nat /\ i + 1 \in DOMAIN vfsQueue /\ vfsQueue'[i] = vfsQueue[i + 1]
         /\ \A i \in DOMAIN vfsQueue : i \in Nat /\ (i = 1 \/ (i - 1 \in DOMAIN vfsQueue' /\ i - 1 \in Nat))
         /\ \A i \in Current' : i \in Nat /\ i + 1 \in Current /\ vfsQueue'[i] = vfsQueue[i + 1]
         /\ \A i \in Current : i = 1 \/ (i - 1 \in Current' /\ vfsQueue'[i - 1] = vfsQueue[i])
<1>1. vfsQueue \in Seq(VfsMsg)
  BY DEF ScanTypes
<1>2. /\ Tail(vfsQueue) \in Seq(VfsMsg) /\ Len(Tail(vfsQueue)) = Len(vfsQueue) - 1
      /\ \A i \in 1 .. Len(Tail(vfsQueue)) : Tail(vfsQueue)[i] = vfsQueue[i + 1]
      /\ Head(vfsQueue) \in VfsMsg
  BY <1>1, HeadTailProperties
<1>3. /\ Len(vfsQueue) \in Nat /\ DOMAIN vfsQueue = 1 .. Len(vfsQueue) /\ Len(vfsQueue) >= 1
      /\ DOMAIN vfsQueue' = 1 .. Len(vfsQueue) - 1
  BY <1>1, <1>2, EmptySeq, LenProperties
<1>4. Head(vfsQueue) = vfsQueue[1] /\ 1 \in DOMAIN vfsQueue
  BY <1>1, <1>3
<1>5. \A i \in DOMAIN vfsQueue' :
        i \in Nat /\ i + 1 \in DOMAIN vfsQueue /\ vfsQueue'[i] = vfsQueue[i + 1]
  BY <1>2, <1>3
<1>6. \A i \in DOMAIN vfsQueue :
        i \in Nat /\ (i = 1 \/ (i - 1 \in DOMAIN vfsQueue' /\ i - 1 \in Nat))
  BY <1>3
<1>7. \A i \in Current' : i \in Nat /\ i + 1 \in Current /\ vfsQueue'[i] = vfsQueue[i + 1]
  BY <1>5 DEF Current
<1>8. \A i \in Current : i = 1 \/ (i - 1 \in Current' /\ vfsQueue'[i - 1] = vfsQueue[i])
  <2>1. ASSUME NEW i \in Current, i # 1
        PROVE  i - 1 \in Current' /\ vfsQueue'[i - 1] = vfsQueue[i]
    <3>1. i \in DOMAIN vfsQueue /\ OfConfig(vfsQueue[i], vfsVersion)
      BY DEF Current
    <3>2. i \in Nat /\ i - 1 \in DOMAIN vfsQueue' /\ i - 1 \in Nat
      BY <1>6, <2>1, <3>1
    <3>3. vfsQueue'[i - 1] = vfsQueue[(i - 1) + 1]
      BY <1>5, <3>2
    <3>4. (i - 1) + 1 = i
      BY <3>2
    <3> QED
      BY <3>1, <3>2, <3>3, <3>4 DEF Current
  <2> QED
    BY <2>1
<1> QED
  BY <1>2, <1>4, <1>5, <1>6, <1>7, <1>8

LEMMA ChannelAppend ==
  ASSUME ScanTypes, NEW m \in VfsMsg, vfsQueue' = Append(vfsQueue, m), vfsVersion' = vfsVersion
  PROVE  LET n == Len(vfsQueue) + 1 IN
         /\ vfsQueue' \in Seq(VfsMsg) /\ n \in Nat
         /\ DOMAIN vfsQueue' = DOMAIN vfsQueue \cup {n} /\ vfsQueue'[n] = m
         /\ \A i \in DOMAIN vfsQueue : i \in Nat /\ i < n /\ vfsQueue'[i] = vfsQueue[i]
         /\ Current' = Current \cup {i \in {n} : OfConfig(m, vfsVersion)}
<1> DEFINE n == Len(vfsQueue) + 1
<1>1. vfsQueue \in Seq(VfsMsg)
  BY DEF ScanTypes
<1>2. /\ vfsQueue' \in Seq(VfsMsg) /\ Len(vfsQueue') = n
      /\ \A i \in 1 .. Len(vfsQueue) : vfsQueue'[i] = vfsQueue[i]
      /\ vfsQueue'[n] = m
  BY <1>1, AppendProperties
<1>3. /\ Len(vfsQueue) \in Nat /\ DOMAIN vfsQueue = 1 .. Len(vfsQueue)
      /\ DOMAIN vfsQueue' = 1 .. n
  BY <1>1, <1>2, LenProperties
<1>4. DOMAIN vfsQueue' = DOMAIN vfsQueue \cup {n} /\ n \in Nat
  BY <1>3
<1>5. \A i \in DOMAIN vfsQueue : i \in Nat /\ i < n /\ vfsQueue'[i] = vfsQueue[i]
  BY <1>2, <1>3
<1> HIDE DEF n
<1>6. Current' = Current \cup {i \in {n} : OfConfig(m, vfsVersion)}
  BY <1>2, <1>4, <1>5 DEF Current
<1> QED
  BY <1>2, <1>4, <1>5, <1>6 DEF n

LEMMA MessageType ==
  /\ \A v \in Nat, n \in Nat, kind \in {"started", "progress", "finished"} :
       [kind |-> kind, version |-> v, n |-> n] \in VfsMsg
  /\ \A v \in Nat, e \in Entries : [kind |-> "loaded", version |-> v, entry |-> e] \in VfsMsg
  /\ [kind |-> "changed"] \in VfsMsg
BY DEF VfsMsg

\* What the main loop may find.
LEMMA MessageKinds ==
  ASSUME NEW m \in VfsMsg
  PROVE  /\ m.kind \in {"started", "progress", "finished"} => m.version \in Nat /\ m.n \in Nat
         /\ m.kind = "loaded" => m.version \in Nat /\ m.entry \in Entries
         /\ m.kind \in {"started", "progress", "finished", "loaded", "changed"}
BY DEF VfsMsg

------------------------------------------------------------------------------
(* Steps that leave the loader and its channel alone.                      *)

LEMMA ScanStutter ==
  ASSUME ScanInv, UNCHANGED scanVars, phase' \in {phase, "vfs"} \/ phase # "vfs"
  PROVE  ScanInv'
<1> USE DEF scanVars, readyVars, loadVars
<1>1. ScanTypes' /\ Inbox'
  BY DEF ScanInv, ScanTypes, Inbox, Taken
<1>2. /\ Current' = Current /\ (Over' <=> Over) /\ (Unheard' <=> Unheard)
      /\ \A kind : Queued(kind)' <=> Queued(kind)
  BY DEF Current, Over, Unheard, Queued, Taken
<1>3. InOrder' /\ Progress'
  BY <1>2 DEF ScanInv, InOrder, Progress, ScanProgressPaired
<1>4. \A e : (Read(e)' <=> Read(e)) /\ (Handed(e)' <=> Handed(e))
  BY <1>2 DEF Read, Handed
<1>5. Loaded'
  BY <1>4 DEF ScanInv, Loaded, Taken
<1> QED
  BY <1>1, <1>3, <1>5 DEF ScanInv

\* A new config has no messages yet.
LEMMA ScanBegin ==
  ASSUME ScanInv, NEW load \in SUBSET Entries, BeginVfsLoad(load),
         UNCHANGED <<strayReport, scan, entryStage, processed, vfsQueue, vfsPending, analysed>>,
         phase # "vfs", phase' # "vfs"
  PROVE  ScanInv'
<1> DEFINE v == vfsVersion + 1
<1>1. /\ vfsVersion' = v /\ vfsReady' = FALSE /\ vfsClientProgress' = FALSE
      /\ vfsProgress' = [done |-> 0, total |-> Cardinality(load)]
      /\ scanOpen' = IF vfsClientProgress THEN scanOpen - 1 ELSE scanOpen
      /\ loadSets' = Append(loadSets, load)
      /\ loaderInbox' = Append(loaderInbox, v)
  BY DEF BeginVfsLoad
<1>2. ScanTypes /\ Inbox /\ Progress /\ v \in Nat
  BY DEF ScanInv, ScanTypes
<1>3. /\ Len(loaderInbox) \in Nat /\ DOMAIN loaderInbox = 1 .. Len(loaderInbox)
      /\ loaderInbox' \in Seq(Nat) /\ Len(loaderInbox') = Len(loaderInbox) + 1
      /\ DOMAIN loaderInbox' = 1 .. Len(loaderInbox) + 1
      /\ \A i \in 1 .. Len(loaderInbox) : loaderInbox'[i] = loaderInbox[i]
      /\ loaderInbox'[Len(loaderInbox) + 1] = v
  BY <1>1, <1>2, AppendProperties, LenProperties DEF ScanTypes
<1>4. loadSets' \in Seq(SUBSET Entries) /\ Len(loadSets') = v
  BY <1>1, <1>2, AppendProperties DEF ScanTypes, Inbox
<1>5. Cardinality(load) \in Nat
  BY EntriesAssumption, FS_Subset, FS_CardinalityType
<1>6. ScanTypes'
  <2>1. vfsProgress' \in [done : Nat, total : Nat] /\ scanOpen' \in Int
    BY <1>1, <1>2, <1>5 DEF ScanTypes
  <2>2. /\ UNCHANGED <<strayReport, scan, entryStage, processed, vfsQueue, vfsPending, analysed>>
        /\ ScanTypes
    BY <1>2
  <2> QED
    BY <1>1, <1>2, <1>3, <1>4, <2>1, <2>2 DEF ScanTypes
<1>7. Taken' = Taken /\ Taken < vfsVersion' /\ Taken \in Nat
  BY <1>1, <1>2, <1>3 DEF Taken, Inbox
<1>8. Inbox'
  <2>1. \A i \in DOMAIN loaderInbox' : loaderInbox'[i] = Taken + i
    <3>1. Taken + (Len(loaderInbox) + 1) = v
      <4>1. vfsVersion \in Nat /\ Len(loaderInbox) \in Nat
        BY <1>2, <1>3 DEF ScanTypes
      <4> QED
        BY <4>1 DEF Taken
    <3>2. \A i \in 1 .. Len(loaderInbox) : loaderInbox'[i] = Taken + i
      BY <1>2, <1>3 DEF Inbox
    <3> QED
      BY <1>3, <3>1, <3>2
  <2>2. Len(loaderInbox') <= vfsVersion'
    BY <1>1, <1>2, <1>3 DEF Inbox
  <2> QED
    BY <1>1, <1>2, <1>4, <1>7, <2>1, <2>2 DEF Inbox
<1>9. Current' = {}
  <2>1. \A i \in DOMAIN vfsQueue :
          vfsQueue[i].kind # "changed" => vfsQueue[i].version <= Taken /\ vfsQueue[i].version \in Nat
    BY <1>2, <1>7 DEF Inbox
  <2> QED
    BY <1>2, <1>7, <2>1 DEF Current, OfConfig
<1>10. Unheard' /\ ~Over' /\ (\A kind : ~Queued(kind)') /\ Taken' # vfsVersion'
  BY <1>1, <1>2, <1>7, <1>9 DEF Unheard, Over, Queued
<1>11. InOrder'
  BY <1>9, <1>10 DEF InOrder
<1>12. Progress'
  BY <1>1, <1>2, <1>10 DEF Progress, ScanProgressPaired
<1>13. Loaded'
  BY <1>10 DEF Loaded, ScanInv
<1> QED
  BY <1>6, <1>8, <1>11, <1>12, <1>13 DEF ScanInv

------------------------------------------------------------------------------
(* The main loop reads a message of the loader.                            *)

LEMMA TailFacts ==
  ASSUME ScanInv, vfsQueue # <<>>, vfsQueue' = Tail(vfsQueue),
         UNCHANGED <<vfsVersion, loadSets, loaderInbox, scan>>
  PROVE  LET m == Head(vfsQueue)
             mine == OfConfig(m, vfsVersion)
         IN  /\ m \in VfsMsg /\ Inbox' /\ Taken' = Taken /\ vfsQueue' \in Seq(VfsMsg)
             /\ \A kind : Queued(kind) <=> Queued(kind)' \/ (mine /\ m.kind = kind)
             /\ \A i, j \in Current' :
                  i < j => vfsQueue'[i].kind # "finished" /\ vfsQueue'[j].kind # "started"
             /\ mine => /\ ~Queued("started")' /\ ~Over
                        /\ Taken = vfsVersion /\ vfsVersion \in DOMAIN loadSets
             /\ mine /\ m.kind = "finished" => Current' = {}
             /\ Current = {} => Current' = {}
<1> DEFINE m == Head(vfsQueue)
           mine == OfConfig(m, vfsVersion)
<1>1. ScanTypes /\ Inbox /\ InOrder
  BY DEF ScanInv
<1>2. /\ m \in VfsMsg /\ m = vfsQueue[1] /\ 1 \in DOMAIN vfsQueue /\ vfsQueue' \in Seq(VfsMsg)
      /\ \A i \in DOMAIN vfsQueue' : i + 1 \in DOMAIN vfsQueue /\ vfsQueue'[i] = vfsQueue[i + 1]
      /\ \A i \in Current' : i \in Nat /\ i + 1 \in Current /\ vfsQueue'[i] = vfsQueue[i + 1]
      /\ \A i \in Current : i = 1 \/ (i - 1 \in Current' /\ vfsQueue'[i - 1] = vfsQueue[i])
  BY <1>1, ChannelTail
<1> HIDE DEF m
<1>3. Inbox' /\ Taken' = Taken
  BY <1>1, <1>2 DEF Inbox, Taken
<1>4. mine <=> 1 \in Current
  BY <1>2 DEF Current
<1>5. \A kind : Queued(kind) <=> Queued(kind)' \/ (mine /\ m.kind = kind)
  <2> SUFFICES ASSUME NEW kind
               PROVE  Queued(kind) <=> Queued(kind)' \/ (mine /\ m.kind = kind)
    OBVIOUS
  <2>1. ASSUME Queued(kind)
        PROVE  Queued(kind)' \/ (mine /\ m.kind = kind)
    <3>1. PICK i \in Current : vfsQueue[i].kind = kind
      BY <2>1 DEF Queued
    <3>2. CASE i = 1
      BY <1>2, <1>4, <3>1, <3>2
    <3>3. CASE i # 1
      <4>1. i - 1 \in Current' /\ vfsQueue'[i - 1].kind = kind
        BY <1>2, <3>1, <3>3
      <4> QED
        BY <4>1 DEF Queued
    <3> QED
      BY <3>2, <3>3
  <2>2. ASSUME Queued(kind)'
        PROVE  Queued(kind)
    <3>1. PICK i \in Current' : vfsQueue'[i].kind = kind
      BY <2>2 DEF Queued
    <3>2. i + 1 \in Current /\ vfsQueue[i + 1].kind = kind
      BY <1>2, <3>1
    <3> QED
      BY <3>2 DEF Queued
  <2>3. ASSUME mine, m.kind = kind
        PROVE  Queued(kind)
    BY <1>2, <1>4, <2>3 DEF Queued
  <2> QED
    BY <2>1, <2>2, <2>3
<1>6. \A i, j \in Current' :
        i < j => vfsQueue'[i].kind # "finished" /\ vfsQueue'[j].kind # "started"
  <2> SUFFICES ASSUME NEW i \in Current', NEW j \in Current', i < j
               PROVE  vfsQueue'[i].kind # "finished" /\ vfsQueue'[j].kind # "started"
    OBVIOUS
  <2>1. /\ i + 1 \in Current /\ j + 1 \in Current /\ i \in Nat /\ j \in Nat
        /\ vfsQueue'[i] = vfsQueue[i + 1] /\ vfsQueue'[j] = vfsQueue[j + 1]
    BY <1>2
  <2>2. i + 1 < j + 1
    BY <2>1
  <2> QED
    BY <1>1, <2>1, <2>2 DEF InOrder
<1>7. ASSUME mine, NEW i \in Current'
      PROVE  vfsQueue'[i].kind # "started" /\ m.kind # "finished"
  <2>1. i \in Nat /\ i + 1 \in Current /\ vfsQueue'[i] = vfsQueue[i + 1] /\ 1 \in Current
    BY <1>2, <1>4, <1>7
  <2>2. i + 1 > 1
    <3>1. i \in DOMAIN vfsQueue' /\ vfsQueue' \in Seq(VfsMsg)
      BY <1>2 DEF Current
    <3>2. i >= 1
      BY <3>1, LenProperties
    <3> QED
      BY <2>1, <3>2
  <2> QED
    BY <1>1, <1>2, <2>1, <2>2 DEF InOrder
<1>8. ASSUME mine
      PROVE  Taken = vfsVersion /\ vfsVersion \in DOMAIN loadSets
  <2>1. m.version = vfsVersion /\ m.version \in 1 .. Taken
    BY <1>1, <1>2, <1>8 DEF OfConfig, Inbox
  <2>2. /\ Taken <= vfsVersion /\ Taken \in Int /\ vfsVersion \in Nat
        /\ DOMAIN loadSets = 1 .. vfsVersion
    BY <1>1, LenProperties DEF ScanTypes, Inbox, Taken
  <2> QED
    BY <2>1, <2>2
<1>9. mine => ~Over
  BY <1>1, <1>4 DEF InOrder
<1>10. mine => ~Queued("started")'
  BY <1>7 DEF Queued
<1>11. mine /\ m.kind = "finished" => Current' = {}
  BY <1>7
<1>12. Current = {} => Current' = {}
  BY <1>2
<1> QED
  BY <1>2, <1>3, <1>5, <1>6, <1>8, <1>9, <1>10, <1>11, <1>12 DEF m

\* A message that neither opens nor ends the scan of the newest config.
LEMMA TailQuiet ==
  ASSUME ScanInv, vfsQueue # <<>>, vfsQueue' = Tail(vfsQueue),
         UNCHANGED <<vfsVersion, loadSets, loaderInbox, scan>>,
         ~(/\ OfConfig(Head(vfsQueue), vfsVersion)
           /\ Head(vfsQueue).kind \in {"started", "finished"})
  PROVE  InOrder' /\ (Unheard' <=> Unheard) /\ (Over' <=> Over)
<1>1. (Queued("started")' <=> Queued("started")) /\ (Queued("finished")' <=> Queued("finished"))
  BY TailFacts
<1>2. (Unheard' <=> Unheard) /\ (Over' <=> Over)
  BY <1>1, TailFacts DEF Unheard, Over
<1>3. InOrder'
  BY <1>1, <1>2, TailFacts DEF InOrder, ScanInv
<1> QED
  BY <1>2, <1>3

\* What has been read stays on its way.
LEMMA TailLoaded ==
  ASSUME ScanInv, vfsQueue # <<>>, vfsQueue' = Tail(vfsQueue),
         UNCHANGED <<vfsVersion, loadSets, loaderInbox, scan, entryStage>>, phase' = "vfs",
         vfsPending \cup analysed \subseteq (vfsPending \cup analysed)',
         Head(vfsQueue).kind = "loaded"
           => <<Head(vfsQueue).version, Head(vfsQueue).entry>> \in (vfsPending \cup analysed)'
  PROVE  Loaded'
<1>1. Taken' = Taken
  BY TailFacts
<1>2. ASSUME NEW e, Handed(e)
      PROVE  Handed(e)'
  <2>1. CASE <<vfsVersion, e>> \in vfsPending \cup analysed
    BY <2>1 DEF Handed
  <2>2. ASSUME NEW i \in Current, vfsQueue[i].kind = "loaded", vfsQueue[i].entry = e
        PROVE  Handed(e)'
    <3>1. /\ Head(vfsQueue) = vfsQueue[1]
          /\ i = 1 \/ (i - 1 \in Current' /\ vfsQueue'[i - 1] = vfsQueue[i])
      BY ChannelTail DEF ScanInv
    <3>2. CASE i = 1
      BY <2>2, <3>1, <3>2 DEF Handed, Current, OfConfig
    <3>3. CASE i # 1
      BY <2>2, <3>1, <3>3 DEF Handed
    <3> QED
      BY <3>2, <3>3
  <2> QED
    BY <1>2, <2>1, <2>2 DEF Handed
<1>3. \A e : Read(e)' <=> Read(e)
  BY DEF Read
<1> QED
  BY <1>1, <1>2, <1>3 DEF Loaded, ScanInv

LEMMA ScanProgress ==
  ASSUME ScanInv, vfsQueue # <<>>, vfsQueue' = Tail(vfsQueue), phase' = "vfs",
         UNCHANGED <<loadSets, loadVars>>,
         Head(vfsQueue).kind \in {"started", "progress", "finished"}, VfsProgress(Head(vfsQueue))
  PROVE  ScanInv'
<1> DEFINE m == Head(vfsQueue)
           mine == OfConfig(m, vfsVersion)
<1>1. /\ ScanTypes /\ InOrder /\ Progress
      /\ UNCHANGED <<vfsVersion, loadSets, loaderInbox, scan, entryStage, processed>>
      /\ UNCHANGED <<vfsPending, analysed>>
  BY DEF ScanInv, VfsProgress, ProgressIgnored, ProgressOfEmptyScan, ProgressReported, readyVars,
         loadVars
<1>2. m \in VfsMsg /\ Inbox' /\ Taken' = Taken /\ vfsQueue' \in Seq(VfsMsg)
  BY <1>1, TailFacts
<1>3. m.kind \in {"started", "progress", "finished"} /\ m.n \in Nat /\ m.version \in Nat
  BY <1>2, MessageKinds
<1>4. mine <=> m.version = vfsVersion
  BY <1>3 DEF OfConfig
<1>5. Loaded'
  BY <1>1, <1>3, TailLoaded
<1>6. mine => vfsVersion \in DOMAIN loadSets
  BY <1>1, TailFacts
<1>7. mine => /\ Total(vfsVersion) \in Nat
              /\ Total(vfsVersion) = 0 <=> loadSets[vfsVersion] = {}
  BY <1>1, <1>6, TotalOf
<1> HIDE DEF m
\* What a report does.
<1>8. ASSUME ProgressReported(m)
       PROVE  /\ m.kind = "started"  => scanOpen' = scanOpen + 1 /\ vfsClientProgress' = TRUE
              /\ m.kind = "finished" => scanOpen' = scanOpen - 1 /\ vfsClientProgress' = FALSE
              /\ m.kind = "progress" => UNCHANGED <<scanOpen, vfsClientProgress>>
              /\ strayReport' \in BOOLEAN
              /\ ~strayReport /\ (m.kind # "progress" \/ scanOpen = 1) => ~strayReport'
  <2>1. m.kind = "started"  => scanOpen' = scanOpen + 1 /\ vfsClientProgress' = TRUE
    BY <1>8 DEF ProgressReported
  <2>2. m.kind = "finished" => scanOpen' = scanOpen - 1 /\ vfsClientProgress' = FALSE
    BY <1>8 DEF ProgressReported
  <2>3. m.kind = "progress" => UNCHANGED <<scanOpen, vfsClientProgress>>
    BY <1>8 DEF ProgressReported
  <2>4. strayReport' = (strayReport \/ (m.kind = "progress" /\ scanOpen # 1))
    BY <1>8 DEF ProgressReported
  <2>5. strayReport' \in BOOLEAN
    BY <2>4
  <2>6. ~strayReport /\ (m.kind # "progress" \/ scanOpen = 1) => ~strayReport'
    BY <2>4
  <2> QED
    BY <2>1, <2>2, <2>3, <2>5, <2>6
<1>9. CASE ~mine
  <2>1. UNCHANGED <<readyVars, scanOpen, strayReport>>
    BY <1>4, <1>9 DEF VfsProgress, ProgressIgnored, ProgressOfEmptyScan, ProgressReported,
       AcceptProgress, RejectsProgress, m
  <2>2. InOrder' /\ (Unheard' <=> Unheard) /\ (Over' <=> Over)
    BY <1>1, <1>9, TailQuiet DEF m
  <2>3. Progress'
    BY <1>1, <2>1, <2>2 DEF Progress, ScanProgressPaired, readyVars
  <2>4. ScanTypes'
    BY <1>1, <1>2, <2>1 DEF ScanTypes, readyVars
  <2> QED
    BY <1>2, <1>5, <2>2, <2>3, <2>4 DEF ScanInv
<1>10. CASE mine
  <2>1. Taken = vfsVersion /\ ~Queued("started")' /\ ~Over
    BY <1>1, <1>10, TailFacts DEF m
  <2>2. ~Unheard'
    BY <1>1, <1>2, <2>1 DEF Unheard, ScanTypes
  <2>3. vfsReady \in BOOLEAN /\ vfsProgress.done \in Nat /\ scanOpen \in Int
    BY <1>1 DEF ScanTypes
  <2>4. \/ UNCHANGED <<vfsProgress, vfsReady>> /\ RejectsProgress(m, m.n)
        \/ /\ vfsProgress' = [done |-> m.n, total |-> Total(vfsVersion)]
           /\ vfsReady' = (m.kind = "finished" \/ Total(vfsVersion) = 0)
    BY <1>4, <1>10 DEF VfsProgress, ProgressIgnored, ProgressOfEmptyScan, ProgressReported,
       AcceptProgress, readyVars, m
  <2>5. ScanTypes'
    <3>1. vfsProgress' \in [done : Nat, total : Nat] /\ vfsReady' \in BOOLEAN
      <4>1. [done |-> m.n, total |-> Total(vfsVersion)] \in [done : Nat, total : Nat]
        BY <1>3, <1>7, <1>10
      <4> QED
        BY <1>1, <2>4, <4>1 DEF ScanTypes
    <3>2. vfsClientProgress' \in BOOLEAN /\ scanOpen' \in Int
      <4>1. CASE ProgressReported(m)
        <5>1. vfsClientProgress \in BOOLEAN
          BY <1>1 DEF ScanTypes
        <5>2. CASE m.kind = "started"
          BY <1>8, <2>3, <4>1, <5>2
        <5>3. CASE m.kind = "progress"
          BY <1>8, <2>3, <4>1, <5>1, <5>3
        <5>4. CASE m.kind = "finished"
          BY <1>8, <2>3, <4>1, <5>4
        <5> QED
          BY <1>3, <5>2, <5>3, <5>4
      <4>2. CASE ~ProgressReported(m)
        BY <1>1, <4>2 DEF ScanTypes, VfsProgress, ProgressIgnored, ProgressOfEmptyScan,
           readyVars, m
      <4> QED
        BY <4>1, <4>2
    <3>4. strayReport' \in BOOLEAN
      BY <1>1, <1>3 DEF ScanTypes, VfsProgress, ProgressIgnored, ProgressOfEmptyScan, ProgressReported,
         readyVars, m
    <3> QED
      BY <1>1, <1>2, <3>1, <3>2, <3>4 DEF ScanTypes
  <2>6. CASE m.kind = "started"
    <3>1. Unheard /\ vfsProgress.done = 0 /\ ~vfsClientProgress /\ scanOpen = 0 /\ ~strayReport
      <4>1. Queued("started")
        BY <1>1, <1>10, <2>6, TailFacts DEF m
      <4> QED
        BY <1>1, <4>1 DEF Unheard, Progress, ScanProgressPaired
    <3>2. ~RejectsProgress(m, m.n)
      BY <1>3, <1>4, <1>10, <3>1 DEF RejectsProgress
    <3>3. ~Over'
      <4>1. Queued("finished")' <=> Queued("finished")
        BY <1>1, <2>6, TailFacts DEF m
      <4> QED
        BY <1>1, <1>2, <2>1, <4>1 DEF Over
    <3>4. InOrder'
      BY <1>1, <2>6, <3>3, TailFacts DEF InOrder, m
    <3>5. /\ vfsReady' = (Total(vfsVersion) = 0)
          /\ IF Total(vfsVersion) = 0 THEN UNCHANGED <<vfsClientProgress, scanOpen, strayReport>>
             ELSE vfsClientProgress' = TRUE /\ scanOpen' = 1 /\ ~strayReport'
      <4>1. ProgressOfEmptyScan(m) \/ ProgressReported(m)
        BY <3>2 DEF VfsProgress, ProgressIgnored, m
      <4>2. m.version = vfsVersion
        BY <1>4, <1>10
      <4>3. CASE ProgressOfEmptyScan(m)
        BY <2>4, <2>6, <3>2, <4>2, <4>3 DEF ProgressOfEmptyScan
      <4>4. CASE ProgressReported(m)
        <5>1. Total(vfsVersion) # 0
          BY <1>7, <1>10, <4>2, <4>4 DEF ProgressReported
        <5>2. vfsReady' = (Total(vfsVersion) = 0)
          BY <2>4, <2>6, <3>2
        <5> QED
          BY <2>6, <3>1, <4>4, <5>1, <5>2, <1>8
      <4> QED
        BY <4>1, <4>3, <4>4
    <3>6. Progress'
      BY <1>1, <1>7, <1>10, <2>2, <3>1, <3>3, <3>5 DEF Progress, ScanProgressPaired
    <3> QED
      BY <1>2, <1>5, <2>5, <3>4, <3>6 DEF ScanInv
  <2>7. CASE m.kind = "progress"
    <3>1. InOrder' /\ (Unheard' <=> Unheard) /\ (Over' <=> Over)
      BY <1>1, <2>7, TailQuiet DEF m
    <3>2. /\ vfsClientProgress <=> loadSets[vfsVersion] # {}
          /\ vfsReady => loadSets[vfsVersion] = {}
          /\ scanOpen = (IF vfsClientProgress THEN 1 ELSE 0) /\ ~strayReport
      BY <1>1, <2>1, <2>2, <3>1 DEF Progress, ScanProgressPaired
    <3>3. UNCHANGED <<vfsClientProgress, scanOpen>> /\ ~strayReport'
      <4>1. CASE ProgressReported(m)
        <5>1. Total(vfsVersion) # 0
          BY <1>4, <1>7, <1>10, <4>1 DEF ProgressReported
        <5>2. scanOpen = 1
          BY <1>7, <1>10, <3>2, <5>1
        <5> QED
          BY <1>8, <2>7, <3>2, <4>1, <5>2
      <4>2. CASE ~ProgressReported(m)
        BY <3>2, <4>2 DEF VfsProgress, ProgressIgnored, ProgressOfEmptyScan, readyVars, m
      <4> QED
        BY <4>1, <4>2
    <3>4. vfsReady' => loadSets[vfsVersion] = {}
      BY <1>7, <1>10, <2>4, <2>7, <3>2
    <3>5. Progress'
      BY <1>1, <2>1, <2>2, <3>1, <3>2, <3>3, <3>4 DEF Progress, ScanProgressPaired
    <3> QED
      BY <1>2, <1>5, <2>5, <3>1, <3>5 DEF ScanInv
  <2>8. CASE m.kind = "finished"
    <3>1. Current' = {} /\ Queued("finished")
      BY <1>1, <1>10, <2>8, TailFacts DEF m
    <3>2. ~Queued("finished")' /\ scan = None
      <4>1. scan # vfsVersion
        BY <1>1, <3>1 DEF InOrder
      <4> QED
        BY <1>1, <2>1, <3>1, <4>1 DEF Queued, ScanInv, Inbox
    <3>3. Over'
      BY <1>1, <1>2, <2>1, <3>2 DEF Over
    <3>4. InOrder'
      BY <1>1, <3>1, <3>2 DEF InOrder
    <3>5. ~Queued("started") /\ ~Unheard
      <4>1. ~Queued("started")
        BY <1>1, <2>1, <2>8, TailFacts DEF m
      <4> QED
        BY <1>1, <2>1, <4>1 DEF Unheard, ScanTypes
    <3>6. /\ vfsClientProgress <=> loadSets[vfsVersion] # {}
          /\ scanOpen = (IF vfsClientProgress THEN 1 ELSE 0) /\ ~strayReport
      BY <1>1, <2>1, <3>5 DEF Progress, ScanProgressPaired
    <3>7. vfsClientProgress' = FALSE /\ scanOpen' = 0 /\ ~strayReport'
      <4>1. ProgressOfEmptyScan(m) \/ ProgressReported(m)
        BY <1>3, <1>4, <1>10, <2>8 DEF VfsProgress, ProgressIgnored, RejectsProgress, m
      <4>2. CASE ProgressOfEmptyScan(m)
        BY <1>1, <1>4, <1>7, <1>10, <3>6, <4>2 DEF ProgressOfEmptyScan, ScanTypes
      <4>3. CASE ProgressReported(m)
        <5>1. Total(vfsVersion) # 0
          BY <1>4, <1>7, <1>10, <4>3 DEF ProgressReported
        <5>2. scanOpen = 1
          BY <1>7, <1>10, <3>6, <5>1
        <5> QED
          BY <2>8, <3>6, <4>3, <5>2, <1>8
      <4> QED
        BY <4>1, <4>2, <4>3
    <3>8. Progress'
      BY <1>1, <2>2, <3>3, <3>7 DEF Progress, ScanProgressPaired
    <3> QED
      BY <1>2, <1>5, <2>5, <3>4, <3>8 DEF ScanInv
  <2> QED
    BY <1>3, <2>6, <2>7, <2>8
<1> QED
  BY <1>9, <1>10

LEMMA ScanOther ==
  ASSUME ScanInv, vfsQueue # <<>>, vfsQueue' = Tail(vfsQueue), phase' = "vfs",
         UNCHANGED <<readyVars, scanOpen, strayReport, loadSets, loadVars>>,
         Head(vfsQueue).kind \in {"loaded", "changed"},
         vfsPending' \subseteq Nat \X Entries, analysed' \subseteq Nat \X Entries,
         vfsPending \cup analysed \subseteq (vfsPending \cup analysed)',
         Head(vfsQueue).kind = "loaded"
           => <<Head(vfsQueue).version, Head(vfsQueue).entry>> \in (vfsPending \cup analysed)'
  PROVE  ScanInv'
<1>1. UNCHANGED <<vfsVersion, vfsProgress, vfsReady, vfsClientProgress, loaderInbox, scan,
                  entryStage, processed>>
  BY DEF readyVars, loadVars
<1>2. Inbox' /\ vfsQueue' \in Seq(VfsMsg)
  BY <1>1, TailFacts
<1>3. InOrder' /\ (Unheard' <=> Unheard) /\ (Over' <=> Over)
  BY <1>1, TailQuiet
<1>4. Loaded'
  BY <1>1, TailLoaded
<1>5. ScanTypes'
  BY <1>1, <1>2 DEF ScanInv, ScanTypes
<1>6. Progress'
  BY <1>1, <1>3 DEF ScanInv, Progress, ScanProgressPaired
<1> QED
  BY <1>2, <1>3, <1>4, <1>5, <1>6 DEF ScanInv

LEMMA ScanMessage ==
  ASSUME ScanInv, ProcessVfsMsg, phase' = "vfs"
  PROVE  ScanInv'
<1> DEFINE m == Head(vfsQueue)
<1>1. /\ vfsQueue # <<>> /\ vfsQueue' = Tail(vfsQueue) /\ UNCHANGED <<loadSets, loadVars>>
      /\ vfsPending \subseteq Nat \X Entries /\ analysed \subseteq Nat \X Entries
  BY DEF ProcessVfsMsg, ScanInv, ScanTypes
<1>2. m \in VfsMsg
  BY <1>1, HeadTailProperties DEF ScanInv, ScanTypes
<1>3. CASE m.kind \in {"started", "progress", "finished"} /\ VfsProgress(m)
  BY <1>1, <1>3, ScanProgress
<1>4. CASE m.kind = "loaded" /\ VfsLoaded(m)
  <2>1. UNCHANGED <<readyVars, scanOpen, strayReport>>
    BY <1>4 DEF VfsLoaded
  <2>2. <<m.version, m.entry>> \in Nat \X Entries
    BY <1>2, <1>4, MessageKinds
  <2>3. \/ vfsPending' = vfsPending \cup {<<m.version, m.entry>>} /\ UNCHANGED analysed
        \/ analysed' = analysed \cup {<<m.version, m.entry>>} /\ UNCHANGED vfsPending
    BY <1>4 DEF VfsLoaded
  <2> QED
    BY <1>1, <1>4, <2>1, <2>2, <2>3, ScanOther
<1>5. CASE m.kind = "changed" /\ VfsChanged
  BY <1>1, <1>5, ScanOther DEF VfsChanged
<1> QED
  BY <1>3, <1>4, <1>5 DEF ProcessVfsMsg

\* The end of a turn hands what has been loaded to the analysis.
LEMMA ScanEndTurn ==
  ASSUME ScanInv, phase' = "poll", analysed' = analysed \cup vfsPending, vfsPending' = {},
         UNCHANGED <<readyVars, scanOpen, strayReport, loadSets, loadVars, vfsQueue>>
  PROVE  ScanInv'
<1> USE DEF readyVars, loadVars
<1>1. ScanTypes' /\ Inbox'
  BY DEF ScanInv, ScanTypes, Inbox, Taken
<1>2. /\ Current' = Current /\ (Over' <=> Over) /\ (Unheard' <=> Unheard)
      /\ \A kind : Queued(kind)' <=> Queued(kind)
  BY DEF Current, Over, Unheard, Queued, Taken
<1>3. InOrder' /\ Progress'
  BY <1>2 DEF ScanInv, InOrder, Progress, ScanProgressPaired
<1>4. \A e : (Read(e)' <=> Read(e)) /\ (Handed(e)' <=> Handed(e))
  BY <1>2 DEF Read, Handed
<1>5. Loaded'
  BY <1>4 DEF ScanInv, Loaded, Taken
<1> QED
  BY <1>1, <1>3, <1>5 DEF ScanInv

------------------------------------------------------------------------------
(* The loader sends a message.                                             *)

LEMMA AppendFacts ==
  ASSUME ScanInv, NEW m \in VfsMsg, vfsQueue' = Append(vfsQueue, m),
         UNCHANGED <<vfsVersion, loadSets>>
  PROVE  /\ vfsQueue' \in Seq(VfsMsg)
         /\ \A kind : Queued(kind)' <=> Queued(kind) \/ (OfConfig(m, vfsVersion) /\ m.kind = kind)
         /\ vfsPending' = vfsPending /\ analysed' = analysed => \A e : Handed(e) => Handed(e)'
         /\ ~OfConfig(m, vfsVersion) => Current' = Current
         /\ \A i \in DOMAIN vfsQueue' : vfsQueue'[i] = m \/ (i \in DOMAIN vfsQueue /\ vfsQueue'[i] = vfsQueue[i])
<1> DEFINE n == Len(vfsQueue) + 1
<1>1. /\ vfsQueue' \in Seq(VfsMsg) /\ n \in Nat
      /\ DOMAIN vfsQueue' = DOMAIN vfsQueue \cup {n} /\ vfsQueue'[n] = m
      /\ \A i \in DOMAIN vfsQueue : i \in Nat /\ i < n /\ vfsQueue'[i] = vfsQueue[i]
      /\ Current' = Current \cup {i \in {n} : OfConfig(m, vfsVersion)}
  BY ChannelAppend DEF ScanInv
<1> HIDE DEF n
<1>2. Current \subseteq DOMAIN vfsQueue
  BY DEF Current
<1>3. \A kind : Queued(kind)' <=> Queued(kind) \/ (OfConfig(m, vfsVersion) /\ m.kind = kind)
  <2> SUFFICES ASSUME NEW kind
               PROVE  Queued(kind)' <=> Queued(kind) \/ (OfConfig(m, vfsVersion) /\ m.kind = kind)
    OBVIOUS
  <2>1. Queued(kind) => Queued(kind)'
    BY <1>1, <1>2 DEF Queued
  <2>2. OfConfig(m, vfsVersion) /\ m.kind = kind => Queued(kind)'
    BY <1>1 DEF Queued
  <2>3. Queued(kind)' => Queued(kind) \/ (OfConfig(m, vfsVersion) /\ m.kind = kind)
    BY <1>1, <1>2 DEF Queued
  <2> QED
    BY <2>1, <2>2, <2>3
<1>5. ASSUME NEW e, vfsPending' = vfsPending, analysed' = analysed, Handed(e)
      PROVE  Handed(e)'
  BY <1>1, <1>2, <1>5 DEF Handed
<1>6. ~OfConfig(m, vfsVersion) => Current' = Current
  BY <1>1
<1>7. \A i \in DOMAIN vfsQueue' :
        vfsQueue'[i] = m \/ (i \in DOMAIN vfsQueue /\ vfsQueue'[i] = vfsQueue[i])
  BY <1>1
<1> QED
  BY <1>1, <1>3, <1>5, <1>6, <1>7

\* The messages of the newest config stay in order.
LEMMA AppendOrder ==
  ASSUME ScanInv, NEW m \in VfsMsg, vfsQueue' = Append(vfsQueue, m), vfsVersion' = vfsVersion,
         \/ ~OfConfig(m, vfsVersion)
         \/ m.kind = "started" /\ Current = {}
         \/ m.kind # "started" /\ ~Queued("finished")
  PROVE  \A i, j \in Current' :
           i < j => vfsQueue'[i].kind # "finished" /\ vfsQueue'[j].kind # "started"
<1> DEFINE n == Len(vfsQueue) + 1
<1>1. /\ n \in Nat /\ vfsQueue'[n] = m
      /\ \A i \in DOMAIN vfsQueue : i \in Nat /\ i < n /\ vfsQueue'[i] = vfsQueue[i]
      /\ Current' = Current \cup {i \in {n} : OfConfig(m, vfsVersion)}
  BY ChannelAppend DEF ScanInv
<1> HIDE DEF n
<1>2. Current \subseteq DOMAIN vfsQueue
  BY DEF Current
<1> SUFFICES ASSUME NEW i \in Current', NEW j \in Current', i < j
             PROVE  vfsQueue'[i].kind # "finished" /\ vfsQueue'[j].kind # "started"
  OBVIOUS
<1>3. i \in Current /\ vfsQueue'[i] = vfsQueue[i]
  <2>1. i # n
    BY <1>1, <1>2
  <2> QED
    BY <1>1, <1>2, <2>1
<1>4. CASE j \in Current
  BY <1>1, <1>2, <1>3, <1>4 DEF ScanInv, InOrder
<1>5. CASE j = n /\ OfConfig(m, vfsVersion)
  BY <1>1, <1>3, <1>5 DEF Queued
<1> QED
  BY <1>1, <1>4, <1>5

\* An edit that the loader announces.
LEMMA ScanChanged ==
  ASSUME ScanInv, vfsQueue' = Append(vfsQueue, [kind |-> "changed"]), phase' = phase,
         UNCHANGED <<readyVars, scanOpen, strayReport, loadSets, loadVars, vfsPending, analysed>>
  PROVE  ScanInv'
<1> DEFINE m == [kind |-> "changed"]
<1> USE DEF readyVars, loadVars
<1>1. m \in VfsMsg /\ ~OfConfig(m, vfsVersion) /\ m.kind = "changed"
      /\ vfsQueue' = Append(vfsQueue, m) /\ UNCHANGED <<vfsVersion, loadSets>>
  BY MessageType DEF OfConfig
<1> HIDE DEF m
<1>2. /\ vfsQueue' \in Seq(VfsMsg) /\ Current' = Current
      /\ \A kind : Queued(kind)' <=> Queued(kind)
      /\ \A i, j \in Current' :
           i < j => vfsQueue'[i].kind # "finished" /\ vfsQueue'[j].kind # "started"
      /\ \A e : Handed(e) => Handed(e)'
      /\ \A i \in DOMAIN vfsQueue' :
           vfsQueue'[i] = m \/ (i \in DOMAIN vfsQueue /\ vfsQueue'[i] = vfsQueue[i])
  BY <1>1, AppendFacts, AppendOrder
<1>3. ScanTypes' /\ Inbox'
  BY <1>1, <1>2 DEF ScanInv, ScanTypes, Inbox, Taken
<1>4. (Over' <=> Over) /\ (Unheard' <=> Unheard)
  BY <1>2 DEF Over, Unheard, Taken
<1>5. InOrder' /\ Progress'
  BY <1>2, <1>4 DEF ScanInv, InOrder, Progress, ScanProgressPaired
<1>6. \A e : Read(e)' <=> Read(e)
  BY DEF Read
<1>7. Loaded'
  BY <1>2, <1>6 DEF ScanInv, Loaded, Taken
<1> QED
  BY <1>3, <1>5, <1>7 DEF ScanInv

\* The loader takes the next config: it is the newest, or older.
LEMMA ScanTake ==
  ASSUME ScanInv, LoaderTakeConfig
  PROVE  ScanInv'
<1> DEFINE v == Head(loaderInbox)
           m == [kind |-> "started", version |-> v, n |-> 0]
<1>1. /\ scan = None /\ loaderInbox # <<>> /\ scan' = v /\ vfsQueue' = Append(vfsQueue, m)
      /\ loaderInbox' = Tail(loaderInbox) /\ processed' = 0
      /\ entryStage' = [e \in Entries |-> IF e \in loadSets[v] THEN [at |-> "read", n |-> 0]
                                                             ELSE [at |-> "done", n |-> 0]]
      /\ UNCHANGED <<phase, readyVars, scanOpen, strayReport, loadSets, vfsPending, analysed>>
  BY DEF LoaderTakeConfig, loopVars
<1>2. ScanTypes /\ Inbox /\ InOrder /\ Progress /\ Loaded
  BY DEF ScanInv
<1>3. /\ loaderInbox' \in Seq(Nat) /\ Len(loaderInbox') = Len(loaderInbox) - 1
      /\ Len(loaderInbox) \in Nat /\ Len(loaderInbox) >= 1 /\ v \in Nat
      /\ DOMAIN loaderInbox = 1 .. Len(loaderInbox)
      /\ DOMAIN loaderInbox' = 1 .. Len(loaderInbox) - 1 /\ v = loaderInbox[1]
      /\ \A i \in 1 .. Len(loaderInbox) - 1 : loaderInbox'[i] = loaderInbox[i + 1]
  BY <1>1, <1>2, HeadTailProperties, LenProperties, EmptySeq DEF ScanTypes
<1> HIDE DEF v
<1>4. vfsVersion \in Nat /\ vfsVersion' = vfsVersion
  BY <1>1, <1>2 DEF ScanTypes, readyVars
<1>5. /\ Taken \in Nat /\ Taken' = Taken + 1 /\ v = Taken' /\ Taken < vfsVersion
      /\ Taken' <= vfsVersion /\ v \in Nat /\ v >= 1
  <2>1. Taken \in Nat /\ Taken < vfsVersion
    BY <1>2, <1>3, <1>4 DEF Taken, Inbox
  <2>2. Taken' = Taken + 1
    BY <1>3, <1>4 DEF Taken
  <2>3. v = Taken + 1
    BY <1>2, <1>3 DEF Inbox
  <2> QED
    BY <1>4, <2>1, <2>2, <2>3
<1>6. m \in VfsMsg /\ m.kind = "started" /\ m.version = v
  BY <1>5, MessageType
<1>7. OfConfig(m, vfsVersion) <=> v = vfsVersion
  BY <1>6 DEF OfConfig
<1>8. Current = {}
  BY <1>2, <1>5 DEF Current, OfConfig, Inbox
<1> HIDE DEF m
<1>8a. vfsQueue' = Append(vfsQueue, m) /\ UNCHANGED <<vfsVersion, loadSets>>
  BY <1>1, <1>4 DEF m
<1>9. /\ vfsQueue' \in Seq(VfsMsg)
      /\ \A kind : Queued(kind)' <=> Queued(kind) \/ (v = vfsVersion /\ kind = "started")
      /\ \A i, j \in Current' :
           i < j => vfsQueue'[i].kind # "finished" /\ vfsQueue'[j].kind # "started"
      /\ v # vfsVersion => Current' = Current
      /\ \A i \in DOMAIN vfsQueue' :
           vfsQueue'[i] = m \/ (i \in DOMAIN vfsQueue /\ vfsQueue'[i] = vfsQueue[i])
  BY <1>6, <1>7, <1>8, <1>8a, AppendFacts, AppendOrder
<1>10. \A kind : ~Queued(kind)
  BY <1>8 DEF Queued
<1>11. ScanTypes'
  <2>1. entryStage' \in [Entries -> Stage]
    BY <1>1 DEF Stage
  <2> QED
    BY <1>1, <1>2, <1>3, <1>9, <2>1 DEF ScanTypes, readyVars, GenOrNil
<1>12. Inbox'
  <2>1. \A i \in DOMAIN loaderInbox' : loaderInbox'[i] = Taken' + i
    <3> SUFFICES ASSUME NEW i \in 1 .. Len(loaderInbox) - 1
                 PROVE  loaderInbox[i + 1] = (Taken + 1) + i
      BY <1>3, <1>5
    <3>1. i + 1 \in DOMAIN loaderInbox
      BY <1>3
    <3>2. loaderInbox[i + 1] = Taken + (i + 1)
      BY <1>2, <3>1 DEF Inbox
    <3> QED
      BY <1>5, <3>2
  <2>2. \A i \in DOMAIN vfsQueue' :
          vfsQueue'[i].kind # "changed" => vfsQueue'[i].version \in 1 .. Taken'
    BY <1>2, <1>5, <1>6, <1>9 DEF Inbox
  <2>3. vfsVersion' = Len(loadSets') /\ Len(loaderInbox') <= vfsVersion'
    BY <1>1, <1>2, <1>3, <1>4 DEF Inbox
  <2> QED
    BY <1>1, <1>5, <2>1, <2>2, <2>3 DEF Inbox
<1>13. scan' # None /\ ~Over' /\ ~Over /\ Unheard /\ Unheard'
  <2>1. v # None
    BY <1>5, NoneAssumption
  <2>2. Unheard'
    BY <1>4, <1>5, <1>9 DEF Unheard
  <2> QED
    BY <1>1, <1>4, <1>5, <2>1, <2>2 DEF Over, Unheard
<1>14. InOrder' /\ Progress'
  <2>1. InOrder'
    BY <1>9, <1>10, <1>13 DEF InOrder
  <2> QED
    BY <1>1, <1>2, <1>13, <2>1 DEF Progress, ScanProgressPaired, readyVars
<1>15. Loaded'
  <2>1. ASSUME Taken' = vfsVersion', vfsVersion' > 0, NEW e \in loadSets'[vfsVersion']
        PROVE  ~Read(e)'
    <3>1. v = vfsVersion /\ e \in loadSets[v]
      BY <1>1, <1>4, <1>5, <2>1
    <3>2. e \in Entries
      <4>1. v \in DOMAIN loadSets
        BY <1>2, <1>5, <3>1, LenProperties DEF Inbox, ScanTypes
      <4> QED
        BY <1>2, <3>1, <4>1, TotalOf
    <3>3. entryStage'[e].at = "read"
      BY <1>1, <3>1, <3>2
    <3> QED
      BY <1>13, <3>3 DEF Read
  <2> QED
    BY <1>1, <1>2, <2>1 DEF Loaded
<1> QED
  BY <1>11, <1>12, <1>14, <1>15 DEF ScanInv

\* A step of a scan thread, with a message and without.
LEMMA ScanThreadStep ==
  ASSUME ScanInv, scan # None, phase' = phase,
         UNCHANGED <<readyVars, scanOpen, strayReport, loadSets, loaderInbox, scan, vfsPending,
                     analysed>>,
         processed' \in Nat, entryStage' \in [Entries -> Stage],
         NEW m \in VfsMsg, m.kind \in {"progress", "loaded"}, m.version = scan,
         vfsQueue' \in {vfsQueue, Append(vfsQueue, m)},
         \A e \in Entries : entryStage'[e].at \in {"count", "report", "done"}
            => \/ entryStage[e].at \in {"count", "report", "done"}
               \/ m.kind = "loaded" /\ m.entry = e /\ vfsQueue' = Append(vfsQueue, m)
  PROVE  ScanInv'
<1> USE DEF readyVars
<1>1. ScanTypes /\ Inbox /\ InOrder /\ Progress /\ Loaded /\ Taken' = Taken
      /\ vfsVersion' = vfsVersion
  BY DEF ScanInv, Taken
<1>2. OfConfig(m, vfsVersion) <=> scan = vfsVersion
  BY DEF OfConfig
<1>3. scan = vfsVersion => ~Queued("finished")
  BY <1>1 DEF InOrder
<1>4. /\ vfsQueue' \in Seq(VfsMsg)
      /\ Queued("started")' <=> Queued("started")
      /\ Queued("finished")' <=> Queued("finished")
      /\ \A i, j \in Current' :
           i < j => vfsQueue'[i].kind # "finished" /\ vfsQueue'[j].kind # "started"
      /\ \A e : Handed(e) => Handed(e)'
      /\ \A i \in DOMAIN vfsQueue' :
           vfsQueue'[i] = m \/ (i \in DOMAIN vfsQueue /\ vfsQueue'[i] = vfsQueue[i])
  <2>1. CASE vfsQueue' = Append(vfsQueue, m)
    <3>1. /\ vfsQueue' \in Seq(VfsMsg) /\ m.kind \notin {"started", "finished"}
          /\ \A kind : Queued(kind)' <=> Queued(kind) \/ (OfConfig(m, vfsVersion) /\ m.kind = kind)
          /\ \A e : Handed(e) => Handed(e)'
          /\ \A i \in DOMAIN vfsQueue' :
               vfsQueue'[i] = m \/ (i \in DOMAIN vfsQueue /\ vfsQueue'[i] = vfsQueue[i])
      BY <1>1, <2>1, AppendFacts
    <3>2. \A i, j \in Current' :
            i < j => vfsQueue'[i].kind # "finished" /\ vfsQueue'[j].kind # "started"
      BY <1>1, <1>2, <1>3, <2>1, <3>1, AppendOrder
    <3> QED
      BY <3>1, <3>2
  <2>2. CASE vfsQueue' = vfsQueue
    <3>1. Current' = Current
      BY <1>1, <2>2 DEF Current
    <3> QED
      BY <1>1, <2>2, <3>1 DEF ScanTypes, InOrder, Queued, Handed
  <2> QED
    BY <2>1, <2>2
<1>5. ScanTypes'
  BY <1>1, <1>4 DEF ScanTypes
<1>6. Inbox'
  <2>1. scan \in 1 .. Taken /\ Taken \in Int
    <3>1. Taken \in Int
      BY <1>1, LenProperties DEF ScanTypes, Taken
    <3> QED
      BY <1>1, <3>1, NoneAssumption DEF ScanTypes, Inbox, GenOrNil
  <2>2. \A i \in DOMAIN vfsQueue' :
          vfsQueue'[i].kind # "changed" => vfsQueue'[i].version \in 1 .. Taken
    BY <1>1, <1>4, <2>1 DEF Inbox
  <2> QED
    BY <1>1, <2>2 DEF Inbox
<1>7. ~Over /\ ~Over' /\ (Unheard' <=> Unheard)
  BY <1>1, <1>4 DEF Over, Unheard
<1>8. InOrder' /\ Progress'
  BY <1>1, <1>3, <1>4, <1>7 DEF InOrder, Progress, ScanProgressPaired
<1>9. Loaded'
  <2> SUFFICES ASSUME vfsVersion > 0, Taken = vfsVersion, NEW e \in loadSets[vfsVersion], Read(e)'
               PROVE  Handed(e)'
    BY <1>1 DEF Loaded
  <2>1. scan = vfsVersion /\ entryStage'[e].at \in {"count", "report", "done"}
    BY <1>1 DEF Read
  <2>2. e \in Entries
    <3>1. vfsVersion \in DOMAIN loadSets
      BY <1>1, LenProperties DEF Inbox, ScanTypes
    <3> QED
      BY <1>1, <3>1, TotalOf
  <2>3. CASE entryStage[e].at \in {"count", "report", "done"}
    <3>1. Read(e)
      BY <2>1, <2>3 DEF Read
    <3> QED
      BY <1>1, <1>4, <3>1 DEF Loaded
  <2>4. CASE m.kind = "loaded" /\ m.entry = e /\ vfsQueue' = Append(vfsQueue, m)
    <3>1. /\ vfsQueue'[Len(vfsQueue) + 1] = m
          /\ Current' = Current \cup {i \in {Len(vfsQueue) + 1} : OfConfig(m, vfsVersion)}
      BY <1>1, <2>4, ChannelAppend
    <3> QED
      BY <1>2, <2>1, <2>4, <3>1 DEF Handed
  <2> QED
    BY <2>1, <2>2, <2>3, <2>4
<1> QED
  BY <1>5, <1>6, <1>8, <1>9 DEF ScanInv

\* The end of a scan.  Every scan thread has been joined: all has been read.
LEMMA ScanFinish ==
  ASSUME ScanInv, LoaderFinish
  PROVE  ScanInv'
<1> DEFINE m == [kind |-> "finished", version |-> scan, n |-> Total(scan)]
<1>1. /\ scan # None /\ scan' = None /\ vfsQueue' = Append(vfsQueue, m)
      /\ \A e \in Entries : entryStage[e].at = "done"
      /\ UNCHANGED <<phase, readyVars, scanOpen, strayReport, loadSets, loaderInbox, entryStage,
                     processed, vfsPending, analysed>>
  BY DEF LoaderFinish, ScanMsg, loopVars
<1>2. ScanTypes /\ Inbox /\ InOrder /\ Progress /\ Loaded
  BY DEF ScanInv
<1>3. /\ vfsVersion' = vfsVersion /\ vfsVersion \in Nat /\ Taken' = Taken
      /\ Taken \in Int /\ Taken <= vfsVersion
  BY <1>1, <1>2, LenProperties DEF ScanTypes, readyVars, Taken, Inbox
<1>4. scan = Taken /\ scan \in 1 .. vfsVersion
  BY <1>1, <1>2, <1>3, NoneAssumption DEF ScanTypes, Inbox, GenOrNil
<1>5. Total(scan) \in Nat
  <2>1. scan \in DOMAIN loadSets
    BY <1>2, <1>4, LenProperties DEF ScanTypes, Inbox
  <2> QED
    BY <1>2, <2>1, TotalOf
<1>6. m \in VfsMsg /\ m.kind = "finished" /\ m.version = scan
  <2>1. scan \in Nat
    BY <1>3, <1>4
  <2> QED
    BY <1>5, <2>1, MessageType
<1>7. vfsQueue' = Append(vfsQueue, m) /\ UNCHANGED <<vfsVersion, loadSets>>
  BY <1>1, <1>3
<1> HIDE DEF m
<1>8. OfConfig(m, vfsVersion) <=> scan = vfsVersion
  BY <1>6 DEF OfConfig
<1>9. /\ vfsQueue' \in Seq(VfsMsg)
      /\ \A kind : Queued(kind)' <=> Queued(kind) \/ (OfConfig(m, vfsVersion) /\ m.kind = kind)
      /\ vfsPending' = vfsPending /\ analysed' = analysed => \A e : Handed(e) => Handed(e)'
      /\ \A i \in DOMAIN vfsQueue' :
           vfsQueue'[i] = m \/ (i \in DOMAIN vfsQueue /\ vfsQueue'[i] = vfsQueue[i])
  BY <1>6, <1>7, AppendFacts
<1>10. \A i, j \in Current' :
         i < j => vfsQueue'[i].kind # "finished" /\ vfsQueue'[j].kind # "started"
  <2>1. scan = vfsVersion => ~Queued("finished")
    BY <1>2 DEF InOrder
  <2> QED
    BY <1>6, <1>7, <1>8, <2>1, AppendOrder
<1>11. ScanTypes'
  BY <1>1, <1>2, <1>9 DEF ScanTypes, readyVars, GenOrNil
<1>12. Inbox'
  <2>1. \A i \in DOMAIN vfsQueue' :
          vfsQueue'[i].kind # "changed" => vfsQueue'[i].version \in 1 .. Taken
    BY <1>2, <1>4, <1>6, <1>9 DEF Inbox
  <2> QED
    BY <1>1, <1>2, <1>3, <2>1 DEF Inbox
<1>13. ~Over /\ ~Over' /\ (Unheard' <=> Unheard)
  <2>1. Taken = vfsVersion => Queued("finished")'
    BY <1>4, <1>6, <1>8, <1>9
  <2>2. Queued("started")' <=> Queued("started")
    BY <1>6, <1>9
  <2> QED
    BY <1>1, <1>3, <2>1, <2>2 DEF Over, Unheard
<1>14. InOrder'
  <2>1. None # vfsVersion
    BY <1>3, NoneAssumption
  <2> QED
    BY <1>1, <1>3, <1>10, <1>13, <2>1 DEF InOrder
<1>15. Progress'
  BY <1>1, <1>2, <1>13 DEF Progress, ScanProgressPaired, readyVars
<1>16. Loaded'
  <2>1. ASSUME vfsVersion > 0, Taken = vfsVersion, NEW e \in loadSets[vfsVersion]
        PROVE  Handed(e)'
    <3>1. e \in Entries
      <4>1. vfsVersion \in DOMAIN loadSets
        BY <1>2, <1>3, <2>1, LenProperties DEF Inbox, ScanTypes
      <4> QED
        BY <1>2, <4>1, TotalOf
    <3>2. Read(e)
      BY <1>1, <1>4, <2>1, <3>1 DEF Read
    <3>3. Handed(e)
      BY <1>2, <2>1, <3>2 DEF Loaded
    <3> QED
      BY <1>1, <1>9, <3>3
  <2> QED
    BY <1>1, <1>2, <1>3, <2>1 DEF Loaded
<1> QED
  BY <1>11, <1>12, <1>14, <1>15, <1>16 DEF ScanInv

LEMMA ScanThreadInv ==
  ASSUME ScanInv, NEW e \in Entries, ScanThread(e)
  PROVE  ScanInv'
<1>1. /\ ScanTypes /\ scan # None /\ entryStage \in [Entries -> Stage]
      /\ processed \in Nat /\ scan \in Nat /\ phase' = phase
      /\ UNCHANGED <<readyVars, scanOpen, strayReport, loadSets, loaderInbox, scan, vfsPending,
                     analysed>>
  BY NoneAssumption DEF ScanInv, ScanTypes, GenOrNil, ScanThread, ScanDirectory, ScanLoaded,
     ScanCount, ScanReport, ScanStep, loopVars
<1>2. ASSUME NEW from, NEW to \in {"read", "load", "count", "report", "done"}, NEW n \in Nat,
             ScanStep(e, from, to, n)
      PROVE  /\ entryStage' \in [Entries -> Stage] /\ entryStage'[e].at = to
             /\ entryStage[e].at = from
             /\ \A d \in Entries : d # e => entryStage'[d] = entryStage[d]
  <2>1. [at |-> to, n |-> n] \in Stage
    BY DEF Stage
  <2> QED
    BY <1>1, <1>2, <2>1 DEF ScanStep
<1>3. CASE ScanDirectory(e)
  <2> DEFINE m == ScanMsg("progress", processed)
  <2>1. m \in VfsMsg /\ m.kind = "progress" /\ m.version = scan
    BY <1>1, MessageType DEF ScanMsg
  <2>2. vfsQueue' = Append(vfsQueue, m) /\ processed' \in Nat /\ ScanStep(e, "read", "load", 0)
    BY <1>1, <1>3 DEF ScanDirectory
  <2> HIDE DEF m
  <2>3. /\ entryStage' \in [Entries -> Stage] /\ entryStage'[e].at = "load"
        /\ \A d \in Entries : d # e => entryStage'[d] = entryStage[d]
    BY <1>2, <2>2
  <2> QED
    BY <1>1, <2>1, <2>2, <2>3, ScanThreadStep
<1>4. CASE ScanLoaded(e)
  <2> DEFINE m == [kind |-> "loaded", version |-> scan, entry |-> e]
  <2>1. m \in VfsMsg /\ m.kind = "loaded" /\ m.version = scan /\ m.entry = e
    BY <1>1, MessageType
  <2>2. vfsQueue' = Append(vfsQueue, m) /\ processed' \in Nat /\ ScanStep(e, "load", "count", 0)
    BY <1>1, <1>4 DEF ScanLoaded
  <2> HIDE DEF m
  <2>3. /\ entryStage' \in [Entries -> Stage]
        /\ \A d \in Entries : d # e => entryStage'[d] = entryStage[d]
    BY <1>2, <2>2
  <2> QED
    BY <1>1, <2>1, <2>2, <2>3, ScanThreadStep
<1>5. CASE ScanCount(e)
  <2> DEFINE m == ScanMsg("progress", 0)
  <2>1. m \in VfsMsg /\ m.kind = "progress" /\ m.version = scan
    BY <1>1, MessageType DEF ScanMsg
  <2>2. /\ vfsQueue' = vfsQueue /\ processed + 1 \in Nat /\ processed' = processed + 1
        /\ ScanStep(e, "count", "report", processed + 1)
    BY <1>1, <1>5 DEF ScanCount
  <2> HIDE DEF m
  <2>3. /\ entryStage' \in [Entries -> Stage] /\ entryStage[e].at = "count"
        /\ \A d \in Entries : d # e => entryStage'[d] = entryStage[d]
    BY <1>2, <2>2
  <2> QED
    BY <1>1, <2>1, <2>2, <2>3, ScanThreadStep
<1>6. CASE ScanReport(e)
  <2> DEFINE m == ScanMsg("progress", entryStage[e].n)
  <2>1. m \in VfsMsg /\ m.kind = "progress" /\ m.version = scan
    <3>1. entryStage[e].n \in Nat
      BY <1>1 DEF Stage
    <3> QED
      BY <1>1, <3>1, MessageType DEF ScanMsg
  <2>2. vfsQueue' = Append(vfsQueue, m) /\ processed' \in Nat /\ ScanStep(e, "report", "done", 0)
    BY <1>1, <1>6 DEF ScanReport
  <2> HIDE DEF m
  <2>3. /\ entryStage' \in [Entries -> Stage] /\ entryStage[e].at = "report"
        /\ \A d \in Entries : d # e => entryStage'[d] = entryStage[d]
    BY <1>2, <2>2
  <2> QED
    BY <1>1, <2>1, <2>2, <2>3, ScanThreadStep
<1> QED
  BY <1>3, <1>4, <1>5, <1>6 DEF ScanThread

LEMMA ScanInvInit == Init => ScanInv
<1> SUFFICES ASSUME Init PROVE ScanInv
  OBVIOUS
<1>1. /\ vfsVersion = 0 /\ loadSets = <<>> /\ loaderInbox = <<>> /\ vfsQueue = <<>> /\ scan = None
      /\ vfsProgress = [done |-> 0, total |-> 0] /\ vfsReady = TRUE /\ vfsClientProgress = FALSE
      /\ scanOpen = 0 /\ strayReport = FALSE /\ processed = 0 /\ vfsPending = {} /\ analysed = {}
      /\ entryStage = [e \in Entries |-> [at |-> "done", n |-> 0]]
  BY DEF Init
<1>2. Len(loaderInbox) = 0 /\ DOMAIN vfsQueue = {} /\ Len(loadSets) = 0 /\ DOMAIN loaderInbox = {}
  BY <1>1
<1>3. ScanTypes
  <2>1. entryStage \in [Entries -> Stage]
    BY <1>1 DEF Stage
  <2>2. loadSets \in Seq(SUBSET Entries) /\ loaderInbox \in Seq(Nat) /\ vfsQueue \in Seq(VfsMsg)
    BY <1>1
  <2>3. vfsProgress \in [done : Nat, total : Nat] /\ scanOpen \in Int /\ vfsVersion \in Nat
    BY <1>1
  <2> QED
    BY <1>1, <2>1, <2>2, <2>3 DEF ScanTypes, GenOrNil
<1>4. Taken = 0 /\ Inbox
  <2>1. Taken = 0
    <3>1. vfsVersion = 0 /\ Len(loaderInbox) = 0
      BY <1>1, <1>2
    <3> QED
      BY <3>1 DEF Taken
  <2> QED
    BY <1>1, <1>2, <2>1 DEF Inbox
<1>5. Current = {} /\ (\A kind : ~Queued(kind)) /\ Over /\ ~Unheard
  BY <1>1, <1>2, <1>4 DEF Current, Queued, Over, Unheard
<1>6. InOrder /\ Progress /\ Loaded
  BY <1>1, <1>5 DEF InOrder, Progress, Loaded, ScanProgressPaired
<1> QED
  BY <1>3, <1>4, <1>6 DEF ScanInv

\* The loader's messages never cross the fetch's tasks.
LEMMA ScanTask ==
  ASSUME ScanInv, ProcessTask, phase # "vfs", phase' # "vfs"
  PROVE  ScanInv'
<1>1. CASE UNCHANGED scanVars
  BY <1>1, ScanStutter
<1>2. CASE FetchEndCommitted(Head(taskQueue))
  <2>1. PICK load \in SUBSET Entries : BeginVfsLoad(load)
    BY <1>2 DEF FetchEndCommitted
  <2>2. UNCHANGED <<strayReport, scan, entryStage, processed, vfsQueue, vfsPending, analysed>>
    BY <1>2 DEF FetchEndCommitted
  <2> QED
    BY <2>1, <2>2, ScanBegin
<1> QED
  BY <1>1, <1>2 DEF ProcessTask, FetchBegin, FetchEnd, FetchEndStale, FetchEndFailed

LEMMA ScanInvStep == ScanInv /\ [Next]_vars => ScanInv'
<1> SUFFICES ASSUME ScanInv, [Next]_vars PROVE ScanInv'
  OBVIOUS
<1>1. CASE PollVfs
  BY <1>1, ScanMessage, ScanStutter DEF PollVfs
<1>2. CASE PollTasks
  BY <1>2, ScanTask, ScanStutter DEF PollTasks
<1>3. CASE SelectTask \/ DrainTasks
  BY <1>3, ScanTask DEF SelectTask, DrainTasks
<1>4. CASE SelectVfs \/ DrainVfs
  BY <1>4, ScanMessage DEF SelectVfs, DrainVfs
<1>5. CASE SelectReload \/ SelectPull
  BY <1>5, ScanStutter DEF SelectReload, SelectPull
<1>6. CASE EndTurn
  BY <1>6, ScanEndTurn DEF EndTurn
<1>7. CASE Worker
  <2>1. UNCHANGED scanVars /\ phase' = phase
    BY <1>7 DEF Worker, WorkerBegin, WorkerLoad, WorkerEnd, loopVars
  <2> QED
    BY <2>1, ScanStutter
<1>8. CASE Loader
  BY <1>8, ScanTake, ScanFinish, ScanThreadInv DEF Loader
<1>9. CASE EditManifest
  <2>1. CASE UNCHANGED vfsQueue
    BY <1>9, <2>1, ScanStutter DEF EditManifest, scanVars
  <2>2. CASE vfsQueue' = Append(vfsQueue, [kind |-> "changed"])
    BY <1>9, <2>2, ScanChanged DEF EditManifest
  <2> QED
    BY <1>9, <2>1, <2>2 DEF EditManifest
<1>10. CASE UNCHANGED vars
  BY <1>10, ScanStutter DEF vars, loopVars
<1> QED
  BY <1>1, <1>2, <1>3, <1>4, <1>5, <1>6, <1>7, <1>8, <1>9, <1>10 DEF Next, MainLoop

THEOREM ScanInvHolds == Spec => []ScanInv
BY ScanInvInit, ScanInvStep, PTL DEF Spec

\* Both progresses that the client is shown begin and end in turn.
THEOREM ProgressPairedHolds == Spec => []ProgressPaired
<1>1. ScanInv => ScanProgressPaired
  BY DEF ScanInv, Progress
<1> QED
  BY <1>1, FetchProgressPairedHolds, ScanInvHolds, PTL DEF ProgressPaired

------------------------------------------------------------------------------
(* The manifests that have been read.                                      *)

\* What the baton carries.
LEMMA FetchFacts ==
  ASSUME FetchInv
  PROVE  /\ requested \in Nat /\ committed \in Nat /\ committed <= requested
         /\ \A w \in workers : w \in Job /\ w.gen = activeFetch
         /\ taskQueue \in Seq(Task)
         /\ \A i \in DOMAIN taskQueue : taskQueue[i].gen = activeFetch
         /\ activeFetch # None => /\ activeFetch \in Nat
                                  /\ committed < activeFetch /\ activeFetch <= requested
         /\ workers # {} \/ taskQueue # <<>> => activeFetch # None
<1>1. CASE Idle
  BY <1>1 DEF FetchInv, Idle
<1>2. CASE Running
  <2>1. /\ activeFetch \in Nat /\ committed < activeFetch /\ activeFetch <= requested
        /\ activeFetch # None /\ requested \in Nat /\ committed \in Nat
    BY <1>2, NoneAssumption DEF FetchInv, Running
  <2>2. committed <= requested
    BY <2>1
  <2>3. \A w \in workers : w \in Job /\ w.gen = activeFetch
    <3>1. NewJob(activeFetch) \in Job /\ NewJob(activeFetch).gen = activeFetch
      BY <2>1 DEF NewJob, Job, Gen
    <3> QED
      BY <1>2, <3>1 DEF Running, Spawned, BeginQueued, Loading, BothQueued, EndQueued, JobRuns
  <2>4. /\ taskQueue \in Seq(Task)
        /\ \A i \in DOMAIN taskQueue : taskQueue[i].gen = activeFetch
    <3>1. CASE Spawned \/ Loading
      <4>1. taskQueue = <<>>
        BY <3>1 DEF Spawned, Loading
      <4>2. DOMAIN taskQueue = {}
        BY <4>1
      <4>3. taskQueue \in Seq(Task)
        BY <4>1
      <4> QED
        BY <4>2, <4>3
    <3>2. CASE BeginQueued
      BY <3>2 DEF BeginQueued, IsTask
    <3>3. CASE BothQueued
      <4>1. PICK b \in Task, e \in Task :
              b.gen = activeFetch /\ e.gen = activeFetch /\ taskQueue = <<b, e>>
        BY <3>3 DEF BothQueued, IsTask
      <4> QED
        BY <4>1
    <3>4. CASE EndQueued
      BY <3>4 DEF EndQueued, IsTask
    <3> QED
      BY <1>2, <3>1, <3>2, <3>3, <3>4 DEF Running
  <2> QED
    BY <2>1, <2>2, <2>3, <2>4
<1> QED
  BY <1>1, <1>2 DEF FetchInv

\* Sending keeps what is in a channel.
LEMMA AppendKeeps ==
  ASSUME NEW S, NEW q \in Seq(S), NEW x
  PROVE  /\ \A i \in DOMAIN q : i \in DOMAIN Append(q, x) /\ Append(q, x)[i] = q[i]
         /\ \A i \in DOMAIN Append(q, x) :
              Append(q, x)[i] = x \/ (i \in DOMAIN q /\ Append(q, x)[i] = q[i])
         /\ Len(q) + 1 \in DOMAIN Append(q, x) /\ Append(q, x)[Len(q) + 1] = x
<1>1. q \in Seq(S \cup {x}) /\ DOMAIN q = 1 .. Len(q) /\ Len(q) \in Nat
  BY LenProperties
<1>2. /\ Append(q, x) \in Seq(S \cup {x}) /\ Len(Append(q, x)) = Len(q) + 1
      /\ \A i \in 1 .. Len(q) : Append(q, x)[i] = q[i]
      /\ Append(q, x)[Len(q) + 1] = x
  BY <1>1, AppendProperties
<1>3. DOMAIN Append(q, x) = 1 .. Len(q) + 1
  BY <1>2, LenProperties
<1> QED
  BY <1>1, <1>2, <1>3

LEMMA ReadInvInit == Init => ReadInv
<1> SUFFICES ASSUME Init PROVE ReadInv
  OBVIOUS
<1>1. workers = {NewJob(1)} /\ NewJob(1).stage = "spawned" /\ DOMAIN taskQueue = {}
  BY DEF Init, NewJob
<1>2. lastResult = None /\ requested # committed /\ lastResult # "ok"
  BY NoneAssumption DEF Init
<1>3. wanted = 0 /\ manifest = 0 /\ clientNotices = 0 /\ announced = 0
  BY DEF Init
<1> QED
  BY <1>1, <1>2, <1>3 DEF ReadInv, Notices

\* Steps that neither read the manifests nor request, end or announce a reload.
LEMMA ReadKept ==
  ASSUME ReadInv,
         UNCHANGED <<requested, committed, activeFetch, lastResult, manifest, workspaceManifest,
                     wanted, announced, clientNotices>>,
         \A w \in workers' : w.stage = "loaded" => w \in workers \/ Recent(w.read, w.gen) \/ w.failed,
         \A i \in DOMAIN taskQueue' : taskQueue'[i].kind = "end" /\ ~taskQueue'[i].failed
            => Recent(taskQueue'[i].read, taskQueue'[i].gen)
  PROVE  ReadInv'
<1>1. \A read, gen : Recent(read, gen)' <=> Recent(read, gen)
  BY DEF Recent
<1> QED
  BY <1>1 DEF ReadInv, Notices

\* A new request: nothing that has been read is of its generation.
LEMMA ReadRequest ==
  ASSUME ReadInv, FetchInv, RequestReload, clientNotices' \in Nat,
         UNCHANGED <<committed, activeFetch, lastResult, workers, taskQueue, manifest,
                     workspaceManifest, announced>>
  PROVE  ReadInv'
<1>1. requested' = requested + 1 /\ wanted' = manifest /\ requested \in Nat
  BY FetchFacts DEF RequestReload
<1>2. ASSUME NEW read, NEW gen \in Nat, gen <= requested, Recent(read, gen)
      PROVE  Recent(read, gen)'
  BY <1>1, <1>2 DEF Recent
<1>3. /\ committed \in Nat /\ committed <= requested
      /\ \A w \in workers : w.gen \in Nat /\ w.gen <= requested
      /\ \A i \in DOMAIN taskQueue : taskQueue[i].gen \in Nat /\ taskQueue[i].gen <= requested
  <2>1. \A i \in DOMAIN taskQueue : taskQueue # <<>>
    OBVIOUS
  <2> QED
    BY <2>1, FetchFacts
<1>4. lastResult' = "ok" => Recent(workspaceManifest, committed)'
  <2>1. \A read : Recent(read, committed) => Recent(read, committed)'
    BY <1>1, <1>3 DEF Recent
  <2> QED
    BY <1>1, <2>1 DEF ReadInv
<1>5. \A w \in workers' : w.stage = "loaded" /\ ~w.failed => Recent(w.read, w.gen)'
  <2>1. ASSUME NEW w \in workers, w.stage = "loaded", ~w.failed
        PROVE  Recent(w.read, w.gen)'
    <3>1. w.gen \in Nat /\ w.gen <= requested /\ Recent(w.read, w.gen)
      BY <1>3, <2>1 DEF ReadInv
    <3> QED
      BY <1>1, <3>1 DEF Recent
  <2> QED
    BY <2>1
<1>6. ASSUME NEW i \in DOMAIN taskQueue', taskQueue'[i].kind = "end", ~taskQueue'[i].failed
      PROVE  (Recent(taskQueue[i].read, taskQueue[i].gen))'
  <2>1. taskQueue' = taskQueue
    OBVIOUS
  <2> DEFINE read == taskQueue[i].read
             gen  == taskQueue[i].gen
  <2>2. gen \in Nat /\ gen <= requested /\ Recent(read, gen)
    BY <1>3, <1>6 DEF ReadInv
  <2>3. gen' = gen /\ read' = read
    BY <2>1
  <2> HIDE DEF gen, read
  <2>4. Recent(read, gen)'
    BY <1>1, <2>2, <2>3 DEF Recent
  <2> QED
    BY <2>4 DEF gen, read
<1>7. requested' # committed'
  BY <1>1, <1>3
<1>8. Notices'
  BY <1>1 DEF ReadInv, Notices
<1> QED
  BY <1>1, <1>4, <1>5, <1>6, <1>7, <1>8 DEF ReadInv

\* The outcome of a fetch.
LEMMA ReadTask ==
  ASSUME ReadInv, FetchInv, ProcessTask
  PROVE  ReadInv'
<1> DEFINE m == Head(taskQueue)
<1>1. /\ taskQueue # <<>> /\ taskQueue' = Tail(taskQueue) /\ UNCHANGED <<workers, clientNotices>>
  BY DEF ProcessTask
<1>2. /\ m = taskQueue[1] /\ 1 \in DOMAIN taskQueue /\ m.gen = activeFetch /\ m \in Task
      /\ \A i \in DOMAIN taskQueue' : i + 1 \in DOMAIN taskQueue /\ taskQueue'[i] = taskQueue[i + 1]
  <2>1. taskQueue \in Seq(Task) /\ Len(taskQueue) \in Nat /\ DOMAIN taskQueue = 1 .. Len(taskQueue)
    BY FetchFacts, LenProperties
  <2>2. /\ taskQueue' \in Seq(Task) /\ Len(taskQueue') = Len(taskQueue) - 1 /\ m \in Task
        /\ \A i \in 1 .. Len(taskQueue') : taskQueue'[i] = taskQueue[i + 1]
        /\ Len(taskQueue) >= 1
    BY <1>1, <2>1, HeadTailProperties, EmptySeq
  <2>3. DOMAIN taskQueue' = 1 .. Len(taskQueue) - 1
    BY <2>2, LenProperties
  <2>4. m = taskQueue[1] /\ 1 \in DOMAIN taskQueue
    BY <2>1, <2>2
  <2> QED
    BY <1>1, <2>1, <2>2, <2>3, <2>4, FetchFacts
<1>3. /\ activeFetch \in Nat /\ committed < activeFetch /\ activeFetch <= requested
      /\ committed \in Nat /\ requested \in Nat /\ activeFetch # None
  BY <1>1, FetchFacts
<1>4. UNCHANGED <<manifest, wanted, announced>>
  BY DEF ProcessTask, FetchBegin, FetchEnd, FetchEndStale, FetchEndFailed, FetchEndCommitted,
     diskVars
<1>5. \A i \in DOMAIN taskQueue' : taskQueue'[i].kind = "end" /\ ~taskQueue'[i].failed
         => Recent(taskQueue'[i].read, taskQueue'[i].gen)
  BY <1>2 DEF ReadInv
<1>6. m.kind = "end" /\ ~m.failed => Recent(m.read, m.gen)
  BY <1>2 DEF ReadInv
<1>9. Notices'
  BY <1>1, <1>4 DEF ReadInv, Notices
<1> HIDE DEF m
<1>7. CASE FetchBegin(m.gen)
  <2>1. UNCHANGED <<requested, committed, activeFetch, lastResult, workspaceManifest>>
    BY <1>7 DEF FetchBegin, exclVars, diskVars
  <2> QED
    BY <1>1, <1>4, <1>5, <2>1, ReadKept
<1>8. CASE m.kind = "end" /\ FetchEnd(m)
  <2>1. workers' = {} /\ taskQueue' = <<>>
    <3>1. EndQueued /\ Tail(taskQueue) = <<>>
      BY <1>1, <1>8, HeadOfTasks DEF m
    <3> QED
      BY <1>1, <3>1 DEF EndQueued
  <2>2. CASE FetchEndStale(m)
    <3>1. /\ requested # committed /\ lastResult' = None
          /\ UNCHANGED <<requested, committed, workspaceManifest>>
      BY <1>2, <1>3, <2>2 DEF FetchEndStale, IsCurrent, diskVars
    <3> QED
      BY <1>1, <1>4, <1>9, <2>1, <3>1, NoneAssumption DEF ReadInv
  <2>3. CASE FetchEndFailed(m)
    <3>1. lastResult' = "errors"
      BY <2>3 DEF FetchEndFailed
    <3> QED
      BY <1>1, <1>4, <1>9, <2>1, <3>1, NoneAssumption DEF ReadInv
  <2>4. CASE FetchEndCommitted(m)
    <3>1. /\ lastResult' = "ok" /\ workspaceManifest' = m.read /\ committed' = m.gen /\ ~m.failed
          /\ UNCHANGED requested
      BY <2>4 DEF FetchEndCommitted
    <3>2. Recent(workspaceManifest, committed)'
      BY <1>4, <1>6, <1>8, <3>1 DEF Recent
    <3> QED
      BY <1>1, <1>4, <1>9, <2>1, <3>1, <3>2, NoneAssumption DEF ReadInv
  <2> QED
    BY <1>8, <2>2, <2>3, <2>4 DEF FetchEnd
<1> QED
  BY <1>7, <1>8 DEF ProcessTask, m

\* The worker reads the manifests after its fetch was requested.
LEMMA ReadWorker ==
  ASSUME ReadInv, FetchInv, NEW w \in workers, WorkerBegin(w) \/ WorkerLoad(w) \/ WorkerEnd(w)
  PROVE  ReadInv'
<1>1. UNCHANGED <<clientNotices, requested, committed, activeFetch, lastResult, manifest,
                  workspaceManifest, wanted, announced>>
  BY DEF WorkerBegin, WorkerLoad, WorkerEnd, loopVars, genVars, exclVars, diskVars
<1>3. taskQueue \in Seq(Task)
  BY FetchFacts
<1>4. CASE WorkerBegin(w)
  <2> DEFINE b == FetchMsg("begin", w)
             v == [gen |-> w.gen, stage |-> "loading", failed |-> FALSE, read |-> 0]
  <2>1. /\ taskQueue' = Append(taskQueue, b) /\ b.kind = "begin"
        /\ workers' = (workers \ {w}) \cup {v} /\ v.stage = "loading"
    BY <1>4 DEF WorkerBegin, FetchMsg, Advance
  <2> HIDE DEF b, v
  <2>2. \A i \in DOMAIN taskQueue' :
          taskQueue'[i] = b \/ (i \in DOMAIN taskQueue /\ taskQueue'[i] = taskQueue[i])
    BY <1>3, <2>1, AppendKeeps
  <2>3. \A i \in DOMAIN taskQueue' : taskQueue'[i].kind = "end" /\ ~taskQueue'[i].failed
           => Recent(taskQueue'[i].read, taskQueue'[i].gen)
    BY <2>1, <2>2 DEF ReadInv
  <2>4. \A u \in workers' : u.stage = "loaded" => u \in workers
    BY <2>1
  <2> QED
    BY <1>1, <2>3, <2>4, ReadKept
<1>5. CASE WorkerLoad(w)
  <2>1. PICK failed \in BOOLEAN :
          Advance(w, "loaded", failed, IF failed THEN 0 ELSE manifest)
    BY <1>5 DEF WorkerLoad
  <2> DEFINE v == [gen |-> w.gen, stage |-> "loaded", failed |-> failed,
                   read |-> IF failed THEN 0 ELSE manifest]
  <2>2. workers' = (workers \ {w}) \cup {v} /\ taskQueue' = taskQueue
    BY <1>5, <2>1 DEF WorkerLoad, Advance
  <2>3. Recent(v.read, v.gen) \/ v.failed
    BY DEF ReadInv, Recent
  <2> HIDE DEF v
  <2>4. \A u \in workers' : u \in workers \/ Recent(u.read, u.gen) \/ u.failed
    BY <2>2, <2>3
  <2>5. \A i \in DOMAIN taskQueue' : taskQueue'[i].kind = "end" /\ ~taskQueue'[i].failed
           => Recent(taskQueue'[i].read, taskQueue'[i].gen)
    BY <2>2 DEF ReadInv
  <2> QED
    BY <1>1, <2>4, <2>5, ReadKept
<1>6. CASE WorkerEnd(w)
  <2> DEFINE b == FetchMsg("end", w)
  <2>1. /\ taskQueue' = Append(taskQueue, b) /\ workers' = workers \ {w}
        /\ w.stage = "loaded" /\ b.read = w.read /\ b.gen = w.gen /\ b.failed = w.failed
    BY <1>6 DEF WorkerEnd, FetchMsg
  <2>2. ~b.failed => Recent(b.read, b.gen)
    BY <2>1 DEF ReadInv
  <2> HIDE DEF b
  <2>3. \A i \in DOMAIN taskQueue' :
          taskQueue'[i] = b \/ (i \in DOMAIN taskQueue /\ taskQueue'[i] = taskQueue[i])
    BY <1>3, <2>1, AppendKeeps
  <2>4. \A i \in DOMAIN taskQueue' : taskQueue'[i].kind = "end" /\ ~taskQueue'[i].failed
           => Recent(taskQueue'[i].read, taskQueue'[i].gen)
    BY <2>2, <2>3 DEF ReadInv
  <2>5. \A u \in workers' : u \in workers
    BY <2>1
  <2> QED
    BY <1>1, <2>4, <2>5, ReadKept
<1> QED
  BY <1>4, <1>5, <1>6

LEMMA ReadStutter ==
  ASSUME ReadInv,
         UNCHANGED <<requested, committed, activeFetch, lastResult, manifest, workspaceManifest,
                     wanted, announced, clientNotices, workers, taskQueue>>
  PROVE  ReadInv'
<1>1. \A i \in DOMAIN taskQueue' : taskQueue'[i].kind = "end" /\ ~taskQueue'[i].failed
        => Recent(taskQueue'[i].read, taskQueue'[i].gen)
  BY DEF ReadInv
<1> QED
  BY <1>1, ReadKept

LEMMA ReadVfsMsg ==
  ASSUME ReadInv, FetchInv, ProcessVfsMsg
  PROVE  ReadInv'
<1>1. /\ UNCHANGED <<committed, activeFetch, lastResult, workers, taskQueue, manifest,
                     workspaceManifest, announced, clientNotices>>
      /\ clientNotices' \in Nat
  BY DEF ProcessVfsMsg, ReadInv, Notices
<1>2. CASE RequestReload
  BY <1>1, <1>2, ReadRequest
<1>3. CASE UNCHANGED <<requested, wanted>>
  BY <1>1, <1>3, ReadStutter
<1> QED
  BY <1>2, <1>3 DEF ProcessVfsMsg, VfsProgress, VfsLoaded, VfsChanged

LEMMA ReadLoader ==
  ASSUME ReadInv, Loader
  PROVE  ReadInv'
<1>1. UNCHANGED <<clientNotices, requested, committed, activeFetch, lastResult, manifest,
                  workspaceManifest, wanted, announced, workers, taskQueue>>
  BY DEF Loader, LoaderTakeConfig, LoaderFinish, ScanThread, ScanDirectory, ScanLoaded,
     ScanCount, ScanReport, ScanStep, loopVars, fetchVars, genVars, exclVars, diskVars
<1> QED
  BY <1>1, ReadStutter

LEMMA ReadEdit ==
  ASSUME ReadInv, EditManifest
  PROVE  ReadInv'
<1>1. /\ manifest' = manifest + 1
      /\ UNCHANGED <<requested, committed, activeFetch, lastResult, workspaceManifest, wanted,
                     workers, taskQueue>>
  BY DEF EditManifest, fetchVars, genVars, exclVars
<1>2. Notices'
  <2>1. \/ clientNotices' = clientNotices + 1 /\ announced' = manifest'
        \/ UNCHANGED <<clientNotices, announced>>
    BY DEF EditManifest
  <2> QED
    BY <1>1, <2>1 DEF ReadInv, Notices
<1>3. /\ wanted \in Nat /\ manifest' \in Nat /\ wanted <= manifest'
  BY <1>1 DEF ReadInv
<1>4. \A read, gen : Recent(read, gen) => Recent(read, gen)'
  BY <1>1 DEF Recent, ReadInv
<1>5. \A w \in workers' : w.stage = "loaded" /\ ~w.failed => Recent(w.read, w.gen)'
  BY <1>1, <1>4 DEF ReadInv
<1>6. \A i \in DOMAIN taskQueue : taskQueue[i].kind = "end" /\ ~taskQueue[i].failed
        => Recent(taskQueue[i].read, taskQueue[i].gen)
  BY DEF ReadInv
<1>7. (\A i \in DOMAIN taskQueue : taskQueue[i].kind = "end" /\ ~taskQueue[i].failed
        => Recent(taskQueue[i].read, taskQueue[i].gen))'
  BY <1>1, <1>3, <1>6 DEF Recent, ReadInv
<1>8. (lastResult = "ok" => Recent(workspaceManifest, committed))'
  BY <1>1, <1>3 DEF Recent, ReadInv
<1> QED
  BY <1>1, <1>2, <1>3, <1>5, <1>7, <1>8 DEF ReadInv

LEMMA ReadEndTurn ==
  ASSUME ReadInv, EndTurn
  PROVE  ReadInv'
<1>1. UNCHANGED <<clientNotices, requested, committed, lastResult, manifest, workspaceManifest,
                  wanted, announced, taskQueue>>
  BY DEF EndTurn, diskVars
<1>2. Notices'
  BY <1>1 DEF ReadInv, Notices
<1>3. CASE UNCHANGED <<activeFetch, workers>>
  BY <1>1, <1>3, ReadStutter
<1>4. CASE activeFetch' # None /\ workers' = workers \cup {NewJob(pendingFetch)}
  <2>1. NewJob(pendingFetch).stage = "spawned"
    BY DEF NewJob
  <2>2. \A read, gen : Recent(read, gen)' <=> Recent(read, gen)
    BY <1>1 DEF Recent
  <2>3. \A w \in workers' : w.stage = "loaded" => w \in workers
    BY <1>4, <2>1
  <2>4. \A w \in workers' : w.stage = "loaded" /\ ~w.failed => Recent(w.read, w.gen)'
    BY <2>2, <2>3 DEF ReadInv
  <2>5. \A i \in DOMAIN taskQueue : taskQueue[i].kind = "end" /\ ~taskQueue[i].failed
          => Recent(taskQueue[i].read, taskQueue[i].gen)
    BY DEF ReadInv
  <2>6. (\A i \in DOMAIN taskQueue : taskQueue[i].kind = "end" /\ ~taskQueue[i].failed
          => Recent(taskQueue[i].read, taskQueue[i].gen))'
    BY <1>1, <2>5 DEF Recent
  <2>7. (lastResult = "ok" => Recent(workspaceManifest, committed))'
    BY <1>1 DEF Recent, ReadInv
  <2> QED
    BY <1>1, <1>2, <1>4, <2>4, <2>6, <2>7 DEF ReadInv
<1> QED
  BY <1>3, <1>4 DEF EndTurn, StartRequestedFetch

LEMMA ReadInvStep == ReadInv /\ FetchInv /\ [Next]_vars => ReadInv'
<1> SUFFICES ASSUME ReadInv, FetchInv, [Next]_vars PROVE ReadInv'
  OBVIOUS
\* Steps that only move the loop, or nothing.
<1>1. ASSUME UNCHANGED <<clientNotices, fetchVars, diskVars>>
      PROVE  ReadInv'
  BY <1>1, ReadStutter DEF fetchVars, genVars, exclVars, diskVars
<1>3. CASE PollVfs
  BY <1>1, <1>3, ReadVfsMsg DEF PollVfs
<1>4. CASE PollTasks \/ SelectTask \/ DrainTasks
  BY <1>1, <1>4, ReadTask DEF PollTasks, SelectTask, DrainTasks
<1>5. CASE SelectVfs \/ DrainVfs
  BY <1>5, ReadVfsMsg DEF SelectVfs, DrainVfs
<1>6. CASE SelectReload
  <2>1. clientNotices' \in Nat
    BY <1>6 DEF SelectReload, ReadInv, Notices
  <2> QED
    BY <1>6, <2>1, ReadRequest DEF SelectReload
<1>7. CASE SelectPull
  BY <1>1, <1>7 DEF SelectPull
<1>8. CASE EndTurn
  BY <1>8, ReadEndTurn
<1>9. CASE Worker
  BY <1>9, ReadWorker DEF Worker
<1>10. CASE Loader
  BY <1>10, ReadLoader
<1>11. CASE EditManifest
  BY <1>11, ReadEdit
<1>12. CASE UNCHANGED vars
  BY <1>1, <1>12 DEF vars, loopVars
<1> QED
  BY <1>3, <1>4, <1>5, <1>6, <1>7, <1>8, <1>9, <1>10, <1>11, <1>12 DEF Next, MainLoop

THEOREM ReadInvHolds == Spec => []ReadInv
BY ReadInvInit, ReadInvStep, FetchInvHolds, PTL DEF Spec

------------------------------------------------------------------------------
\* What is_ready promises: neither a part nor the past of the workspace.
THEOREM ReadyMeansCurrentHolds == Spec => []ReadyMeansCurrent
<1>1. ScanInv => ReadyMeansAnalysed
  <2> SUFFICES ASSUME ScanInv, AtRest, IsReady, vfsVersion > 0, NEW e \in loadSets[vfsVersion]
               PROVE  <<vfsVersion, e>> \in analysed
    BY DEF ReadyMeansAnalysed
  <2>1. Over
    BY DEF IsReady, ScanInv, Progress
  <2>2. Taken = vfsVersion /\ Read(e) /\ Current = {}
    BY <2>1 DEF Over, Read, ScanInv, InOrder
  <2>3. Handed(e)
    BY <2>2 DEF ScanInv, Loaded
  <2>4. vfsPending = {}
    BY DEF AtRest, ScanInv, Loaded
  <2> QED
    BY <2>2, <2>3, <2>4 DEF Handed
<1>2. ReadInv => ReadyMeansFresh
  <2> SUFFICES ASSUME ReadInv, IsReady, lastResult = "ok", clientNotices = 0
               PROVE  workspaceManifest \in announced .. manifest
    BY DEF ReadyMeansFresh
  <2>1. /\ announced \in Nat /\ wanted \in Nat /\ manifest \in Nat
        /\ announced <= wanted /\ Recent(workspaceManifest, requested)
    BY DEF ReadInv, Notices, IsReady
  <2> QED
    BY <2>1 DEF Recent
<1> QED
  BY <1>1, <1>2, ScanInvHolds, ReadInvHolds, PTL DEF ReadyMeansCurrent

------------------------------------------------------------------------------
(* Types.                                                                  *)

LoopTypes ==
  /\ phase \in {"poll", "pollTasks", "select", "task", "vfs", "client"}
  /\ deferred \in BOOLEAN /\ projectStatus \in {None, "loading", "error", "loaded"}
  /\ lastResult \in {None, "ok", "errors"} /\ workspaceManifest \in GenOrNil

loopTypeVars == <<phase, deferred, projectStatus, lastResult, workspaceManifest>>

LEMMA LoopTypesTask ==
  ASSUME LoopTypes, FetchInv, ProcessTask
  PROVE  deferred' \in BOOLEAN /\ projectStatus' \in {None, "loading", "error", "loaded"}
         /\ lastResult' \in {None, "ok", "errors"} /\ workspaceManifest' \in GenOrNil
<1> DEFINE m == Head(taskQueue)
<1>1. m \in Task
  BY FetchFacts, HeadTailProperties DEF ProcessTask
<1>2. m.read \in GenOrNil
  BY <1>1 DEF Task, GenOrNil
<1> HIDE DEF m
<1>3. CASE FetchBegin(m.gen)
  BY <1>3 DEF FetchBegin, LoopTypes, exclVars, diskVars
<1>4. CASE FetchEndStale(m)
  BY <1>4 DEF FetchEndStale, LoopTypes, diskVars
<1>5. CASE FetchEndFailed(m)
  BY <1>5 DEF FetchEndFailed, LoopTypes, diskVars
<1>6. CASE FetchEndCommitted(m)
  BY <1>2, <1>6 DEF FetchEndCommitted, LoopTypes
<1> QED
  BY <1>3, <1>4, <1>5, <1>6 DEF ProcessTask, FetchEnd, m

LEMMA LoopTypesStep == LoopTypes /\ FetchInv /\ [Next]_vars => LoopTypes'
<1> SUFFICES ASSUME LoopTypes, FetchInv, [Next]_vars PROVE LoopTypes'
  OBVIOUS
<1>1. CASE PollVfs \/ SelectVfs \/ DrainVfs
  <2>1. ProcessVfsMsg => deferred' \in BOOLEAN
    BY DEF ProcessVfsMsg, VfsProgress, VfsLoaded, VfsChanged, LoopTypes
  <2>2. QED
    BY <1>1, <2>1 DEF PollVfs, SelectVfs, DrainVfs, ProcessVfsMsg, LoopTypes, fetchVars, exclVars,
       diskVars
<1>2. CASE PollTasks
  <2>1. CASE ProcessTask /\ phase' = "task"
    BY <2>1, LoopTypesTask DEF LoopTypes
  <2>2. QED
    BY <1>2, <2>1 DEF PollTasks, LoopTypes, fetchVars, exclVars, diskVars
<1>3. CASE SelectTask \/ DrainTasks
  <2>1. ProcessTask /\ phase' \in {phase, "task"}
    BY <1>3 DEF SelectTask, DrainTasks
  <2>2. QED
    BY <2>1, LoopTypesTask DEF LoopTypes
<1>4. CASE SelectReload
  BY <1>4 DEF SelectReload, LoopTypes
<1>5. CASE SelectPull
  BY <1>5 DEF SelectPull, LoopTypes, fetchVars, exclVars, diskVars
<1>6. CASE EndTurn
  BY <1>6 DEF EndTurn, DeferredAfterTurn, LoopTypes, diskVars
<1>7. ASSUME UNCHANGED loopTypeVars
      PROVE  LoopTypes'
  BY <1>7 DEF loopTypeVars, LoopTypes
<1>8. CASE Worker \/ Loader \/ EditManifest \/ UNCHANGED vars
  <2>1. UNCHANGED loopTypeVars
    BY <1>8 DEF Worker, WorkerBegin, WorkerLoad, WorkerEnd, Loader, LoaderTakeConfig, LoaderFinish,
       ScanThread, ScanDirectory, ScanLoaded, ScanCount, ScanReport, ScanStep, EditManifest,
       vars, loopVars, fetchVars, exclVars, diskVars, loopTypeVars
  <2> QED
    BY <1>7, <2>1
<1> QED
  BY <1>1, <1>2, <1>3, <1>4, <1>5, <1>6, <1>8 DEF Next, MainLoop

LEMMA FetchTypes ==
  ASSUME FetchInv
  PROVE  /\ requested \in Gen /\ committed \in Gen /\ manifest \in Nat
         /\ activeFetch \in GenOrNil /\ fetchProgress \in GenOrNil /\ pendingFetch \in GenOrNil
         /\ fetchRunning \in BOOLEAN /\ fetchOpen \in Int
         /\ workers \subseteq Job /\ taskQueue \in Seq(Task)
<1>1. requested \in Gen /\ committed \in Gen /\ manifest \in Nat /\ fetchRunning \in BOOLEAN
      /\ pendingFetch \in GenOrNil /\ fetchOpen \in Int
  BY DEF FetchInv, Gen, GenOrNil
<1>2. activeFetch \in GenOrNil
  BY FetchFacts DEF GenOrNil
<1>3. fetchProgress \in {None, activeFetch}
  BY DEF FetchInv, Running, Idle, Spawned, BeginQueued, Loading, BothQueued, EndQueued, BeginHandled
<1>4. fetchProgress \in GenOrNil
  BY <1>2, <1>3 DEF GenOrNil
<1> QED
  BY <1>1, <1>2, <1>4, FetchFacts

\* Every variable has its type, and no message is of a config yet to come.
THEOREM TypeOKHolds == Spec => []TypeOK
<1>1. Init => LoopTypes
  BY DEF Init, LoopTypes, GenOrNil
<1>2. LoopTypes /\ FetchInv /\ ScanInv /\ ReadInv => TypeOK
  <2> SUFFICES ASSUME LoopTypes, FetchInv, ScanInv, ReadInv PROVE TypeOK
    OBVIOUS
  <2>1. \A i \in DOMAIN vfsQueue :
          vfsQueue[i].kind \in {"started", "progress", "finished"}
            => vfsQueue[i].version <= vfsVersion
    <3>1. Taken \in Int /\ Taken <= vfsVersion /\ vfsVersion \in Nat
      BY LenProperties DEF ScanInv, ScanTypes, Inbox, Taken
    <3>2. \A i \in DOMAIN vfsQueue :
            vfsQueue[i].kind # "changed" => vfsQueue[i].version \in 1 .. Taken
      BY DEF ScanInv, Inbox
    <3> QED
      BY <3>1, <3>2
  <2>2. clientNotices \in Nat /\ wanted \in Nat /\ announced \in Nat
    BY DEF ReadInv, Notices
  <2>3. ScanTypes
    BY DEF ScanInv
  <2> QED
    BY <2>1, <2>2, <2>3, FetchTypes DEF TypeOK, LoopTypes, ScanTypes
<1>3. Spec => []LoopTypes
  BY <1>1, LoopTypesStep, FetchInvHolds, PTL DEF Spec
<1> QED
  BY <1>2, <1>3, FetchInvHolds, ScanInvHolds, ReadInvHolds, PTL

------------------------------------------------------------------------------
(* The pipeline implements ReloadService.                                  *)

\* What the promise sees of the pipeline.
Outcome == IF requested = committed THEN lastResult ELSE None
promised == <<manifest, workspaceManifest, wanted>>

LEMMA ServiceStutter ==
  ASSUME UNCHANGED promised, Outcome' = Outcome, IsReady' <=> IsReady
  PROVE  UNCHANGED Service!vars
BY DEF Service!vars, promised, Outcome

\* Nothing the promise sees, unless the turn starts a fetch.
LEMMA ServiceIdle ==
  ASSUME UNCHANGED <<promised, requested, committed, lastResult, activeFetch, vfsReady>>
  PROVE  UNCHANGED Service!vars
<1>1. Outcome' = Outcome
  BY DEF Outcome
<1>2. IsReady' <=> IsReady
  BY DEF IsReady
<1> QED
  BY <1>1, <1>2, ServiceStutter

\* A new request leaves the outcome open.
LEMMA ServiceRequest ==
  ASSUME FetchInv, RequestReload, UNCHANGED <<manifest, workspaceManifest, committed>>
  PROVE  Service!Next
<1>1. requested' # committed' /\ wanted' = manifest
  BY FetchFacts DEF RequestReload
<1>2. Outcome' = None /\ IsReady' = FALSE
  BY <1>1 DEF Outcome, IsReady
<1> QED
  BY <1>1, <1>2 DEF Service!Next, Service!Request, Outcome

\* A ready server stays ready through the rest of a scan's messages, and gets
\* ready when the outcome is known.
LEMMA ServiceProgress ==
  ASSUME FetchInv, ScanInv, ReadInv, ProcessVfsMsg, VfsProgress(Head(vfsQueue)),
         Head(vfsQueue).kind \in {"started", "progress", "finished"}
  PROVE  Service!Next \/ UNCHANGED Service!vars
<1> DEFINE m == Head(vfsQueue)
<1>1. /\ UNCHANGED <<promised, requested, committed, lastResult, activeFetch>>
      /\ vfsQueue # <<>> /\ vfsQueue' = Tail(vfsQueue)
      /\ UNCHANGED <<vfsVersion, loadSets, loaderInbox, scan>>
  BY DEF ProcessVfsMsg, VfsProgress, ProgressIgnored, ProgressOfEmptyScan, ProgressReported,
     readyVars, loadVars, promised
<1>2. vfsReady \in BOOLEAN
  BY DEF ScanInv, ScanTypes
<1>3. \/ vfsReady' = vfsReady
      \/ /\ m.version = vfsVersion
         /\ vfsReady' = (m.kind = "finished" \/ Total(m.version) = 0)
  BY DEF VfsProgress, ProgressIgnored, ProgressOfEmptyScan, ProgressReported, AcceptProgress,
     RejectsProgress, readyVars
<1> HIDE DEF m
<1>4. CASE vfsReady' = vfsReady
  BY <1>1, <1>4, ServiceIdle
<1>5. CASE vfsReady' # vfsReady
  <2>1. m.version = vfsVersion /\ vfsReady' = (m.kind = "finished" \/ Total(vfsVersion) = 0)
    BY <1>3, <1>5
  <2>2. ~vfsReady
    <3> SUFFICES ASSUME vfsReady PROVE FALSE
      OBVIOUS
    <3>1. OfConfig(m, vfsVersion)
      BY <2>1 DEF OfConfig, m
    <3>2. ~Over /\ vfsVersion \in DOMAIN loadSets
      BY <1>1, <3>1, TailFacts DEF m
    <3>3. loadSets[vfsVersion] = {}
      BY <3>2 DEF ScanInv, Progress
    <3>4. Total(vfsVersion) = 0
      BY <3>2, <3>3, TotalOf DEF ScanInv
    <3> QED
      BY <1>2, <1>5, <2>1, <3>4
  <2>3. vfsReady' = TRUE
    BY <1>2, <1>5, <2>1, <2>2
  <2>4. CASE requested = committed /\ activeFetch = None
    <3>1. Outcome = lastResult /\ Outcome' = Outcome /\ lastResult # None
      BY <1>1, <2>4 DEF Outcome, ReadInv
    <3>2. IsReady = FALSE /\ IsReady' = TRUE
      BY <1>1, <2>2, <2>3, <2>4 DEF IsReady
    <3> QED
      BY <1>1, <3>1, <3>2 DEF Service!Next, Service!Settle, Outcome, promised
  <2>5. CASE ~(requested = committed /\ activeFetch = None)
    <3>1. Outcome' = Outcome
      BY <1>1 DEF Outcome
    <3>2. ~IsReady /\ ~IsReady'
      BY <1>1, <2>5 DEF IsReady
    <3> QED
      BY <1>1, <3>1, <3>2, ServiceStutter
  <2> QED
    BY <2>4, <2>5
<1> QED
  BY <1>4, <1>5

LEMMA ServiceVfsMsg ==
  ASSUME FetchInv, ScanInv, ReadInv, ProcessVfsMsg
  PROVE  Service!Next \/ UNCHANGED Service!vars
<1> DEFINE m == Head(vfsQueue)
<1>1. UNCHANGED <<manifest, workspaceManifest, committed, lastResult, activeFetch>>
  BY DEF ProcessVfsMsg
<1>2. CASE m.kind \in {"started", "progress", "finished"} /\ VfsProgress(m)
  BY <1>2, ServiceProgress
<1>3. CASE VfsLoaded(m)
  <2>1. UNCHANGED <<promised, requested, vfsReady>>
    BY <1>1, <1>3 DEF VfsLoaded, readyVars, promised
  <2> QED
    BY <1>1, <2>1, ServiceIdle
<1>4. CASE VfsChanged /\ RequestReload
  BY <1>1, <1>4, ServiceRequest
<1>5. CASE VfsChanged /\ UNCHANGED <<requested, wanted>>
  <2>1. UNCHANGED <<promised, requested, vfsReady>>
    BY <1>1, <1>5 DEF VfsChanged, readyVars, promised
  <2> QED
    BY <1>1, <2>1, ServiceIdle
<1> QED
  BY <1>2, <1>3, <1>4, <1>5 DEF ProcessVfsMsg, VfsChanged

\* The end of a fetch: no outcome, a failure or a new workspace.
LEMMA ServiceTask ==
  ASSUME FetchInv, ReadInv, ProcessTask
  PROVE  Service!Next \/ UNCHANGED Service!vars
<1> DEFINE m == Head(taskQueue)
<1>1. /\ taskQueue # <<>> /\ m.gen = activeFetch
      /\ activeFetch \in Nat /\ committed < activeFetch /\ activeFetch <= requested
      /\ committed \in Nat /\ requested \in Nat /\ activeFetch # None
  BY HeadOfTasks, FetchFacts DEF ProcessTask
<1>2. m.kind = "end" /\ ~m.failed => Recent(m.read, m.gen)
  <2>1. m = taskQueue[1] /\ 1 \in DOMAIN taskQueue
    <3>1. taskQueue \in Seq(Task) /\ Len(taskQueue) \in Nat /\ DOMAIN taskQueue = 1 .. Len(taskQueue)
      BY FetchFacts, LenProperties
    <3>2. Len(taskQueue) >= 1
      BY <1>1, <3>1, EmptySeq
    <3> QED
      BY <3>1, <3>2
  <2> QED
    BY <2>1 DEF ReadInv
<1>3. ~IsReady /\ requested # committed
  BY <1>1 DEF IsReady
<1>4. Outcome = None
  BY <1>3 DEF Outcome
<1> HIDE DEF m
<1>5. CASE FetchBegin(m.gen)
  <2>1. UNCHANGED <<promised, requested, committed, lastResult, activeFetch, vfsReady>>
    BY <1>5 DEF FetchBegin, promised, exclVars, diskVars, scanVars, readyVars
  <2> QED
    BY <2>1, ServiceIdle
<1>6. CASE FetchEndStale(m)
  <2>1. UNCHANGED <<promised, requested, committed>>
    BY <1>6 DEF FetchEndStale, promised, diskVars
  <2>2. Outcome' = None /\ ~IsReady'
    BY <1>3, <2>1 DEF Outcome, IsReady
  <2> QED
    BY <1>3, <1>4, <2>1, <2>2, ServiceStutter
<1>7. CASE FetchEndFailed(m)
  <2>1. UNCHANGED <<promised, committed>> /\ requested' = committed /\ lastResult' = "errors"
    BY <1>7 DEF FetchEndFailed, promised, diskVars
  <2>2. Outcome' = "errors" /\ IsReady' \in BOOLEAN
    <3>1. Outcome' = "errors"
      BY <2>1 DEF Outcome
    <3>2. IsReady' \in BOOLEAN
      BY DEF IsReady
    <3> QED
      BY <3>1, <3>2
  <2> QED
    BY <1>4, <2>1, <2>2 DEF Service!Next, Service!Fail, Outcome, promised
<1>8. CASE m.kind = "end" /\ FetchEndCommitted(m)
  <2>1. /\ requested' = committed' /\ lastResult' = "ok" /\ workspaceManifest' = m.read /\ ~m.failed
        /\ UNCHANGED <<manifest, wanted>> /\ vfsReady' = FALSE /\ m.gen = requested
    BY <1>1, <1>8 DEF FetchEndCommitted, IsCurrent, BeginVfsLoad
  <2>2. workspaceManifest' \in wanted .. manifest
    <3>1. Recent(m.read, m.gen)
      BY <1>2, <1>8, <2>1
    <3>2. wanted \in Nat /\ manifest \in Nat
      BY DEF ReadInv
    <3> QED
      BY <2>1, <3>1, <3>2 DEF Recent
  <2>3. Outcome' = "ok"
    BY <2>1 DEF Outcome
  <2>4. IsReady = FALSE /\ IsReady' = FALSE
    BY <1>3, <2>1 DEF IsReady
  <2> QED
    BY <1>4, <2>1, <2>2, <2>3, <2>4 DEF Service!Next, Service!Serve, Outcome
<1> QED
  BY <1>5, <1>6, <1>7, <1>8 DEF ProcessTask, FetchEnd, m

LEMMA ServiceStep ==
  FetchInv /\ ScanInv /\ ReadInv /\ [Next]_vars => [Service!Next]_Service!vars
<1> SUFFICES ASSUME FetchInv, ScanInv, ReadInv, [Next]_vars
             PROVE  Service!Next \/ UNCHANGED Service!vars
  OBVIOUS
<1> USE DEF promised, fetchVars, genVars, exclVars, scanVars, readyVars, diskVars
<1>1. CASE PollVfs
  BY <1>1, ServiceVfsMsg, ServiceIdle DEF PollVfs
<1>2. CASE PollTasks
  BY <1>2, ServiceTask, ServiceIdle DEF PollTasks
<1>3. CASE SelectTask \/ DrainTasks
  BY <1>3, ServiceTask DEF SelectTask, DrainTasks
<1>4. CASE SelectVfs \/ DrainVfs
  BY <1>4, ServiceVfsMsg DEF SelectVfs, DrainVfs
<1>5. CASE SelectReload
  BY <1>5, ServiceRequest DEF SelectReload
<1>6. CASE SelectPull
  BY <1>6, ServiceIdle DEF SelectPull
<1>7. CASE EndTurn
  <2>1. UNCHANGED <<promised, requested, committed, lastResult, vfsReady>>
    BY <1>7 DEF EndTurn
  <2>2. CASE activeFetch' = activeFetch
    BY <2>1, <2>2, ServiceIdle
  <2>3. CASE ~fetchRunning /\ pendingFetch # None
    <3>1. requested # committed
      BY <2>3 DEF FetchInv, Idle, Running
    <3>2. Outcome' = Outcome /\ ~IsReady /\ ~IsReady'
      BY <2>1, <3>1 DEF Outcome, IsReady
    <3> QED
      BY <2>1, <3>2, ServiceStutter
  <2> QED
    BY <1>7, <2>2, <2>3 DEF EndTurn, StartRequestedFetch
<1>8. CASE Worker
  BY <1>8, ServiceIdle DEF Worker, WorkerBegin, WorkerLoad, WorkerEnd
<1>9. CASE Loader
  BY <1>9, ServiceIdle
     DEF Loader, LoaderTakeConfig, LoaderFinish, ScanThread, ScanDirectory, ScanLoaded, ScanCount,
         ScanReport, ScanStep
<1>10. CASE EditManifest
  <2>1. /\ manifest' = manifest + 1 /\ UNCHANGED <<workspaceManifest, wanted>>
        /\ UNCHANGED <<requested, committed, lastResult, activeFetch, vfsReady>>
    BY <1>10 DEF EditManifest
  <2>2. Outcome' = Outcome
    BY <2>1 DEF Outcome
  <2>3. IsReady' = IsReady
    BY <2>1 DEF IsReady
  <2> QED
    BY <2>1, <2>2, <2>3 DEF Service!Next, Service!Edit, Outcome
<1>11. CASE UNCHANGED vars
  BY <1>11, ServiceIdle DEF vars
<1> QED
  BY <1>1, <1>2, <1>3, <1>4, <1>5, <1>6, <1>7, <1>8, <1>9, <1>10, <1>11 DEF Next, MainLoop

\* Every behaviour of the pipeline is one that ReloadService promises.
THEOREM ImplementsServiceHolds == Spec => ImplementsService
<1>1. Init => Service!Init
  BY DEF Init, Service!Init, IsReady
<1> QED
  BY <1>1, ServiceStep, FetchInvHolds, ScanInvHolds, ReadInvHolds, PTL
     DEF Spec, ImplementsService, Service!Spec
==============================================================================
