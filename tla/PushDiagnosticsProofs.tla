------------------------- MODULE PushDiagnosticsProofs -------------------------
(***************************************************************************)
(* What the client shows changes only to what is right at that moment, for *)
(* any files, profile and settings, and however results are delayed.       *)
(*                                                                         *)
(* The argument: a freshness that is still current proves that neither the *)
(* texts nor the set of open documents changed since it was taken, as each *)
(* turn that changes one of them bumps a counter of it.  So a batch of the *)
(* current freshness has the problems that its files have now.             *)
(*                                                                         *)
(* That they get there in the end holds for a document that is alone:      *)
(* while the workspace is ready its problems are shown or on their way,    *)
(* and while it loads what was dropped is remembered (Recovered).          *)
(***************************************************************************)
EXTENDS PushDiagnostics, SequenceTheorems, TLAPS

Shown(f) == IF f \in open THEN Own(f) ELSE {}

JobSet == [kind : {"push", "semantic", "qihe"}, files : SUBSET Files,
           open : SUBSET Files, fresh : FreshRec]
BatchOf(S) == [kind : {"push", "semantic"}, fresh : FreshRec, files : {S}, diags : [S -> SUBSET Problem]]
QiheResult == [kind : {"qihe"}, fresh : FreshRec, files : SUBSET Files, diags : {<<>>}]
TaskSet    == (UNION {BatchOf(S) : S \in SUBSET Files}) \cup QiheResult

DocType   == text \in [Files -> Texts \cup {None}] /\ open \in SUBSET Files
RevType   == commit \in Nat /\ target \in Nat /\ readiness \in Nat
FlagType  == /\ fetching \in BOOLEAN /\ loading \in BOOLEAN /\ deferred \in BOOLEAN
             /\ semActive \in BOOLEAN /\ semPending \in BOOLEAN
ShownType == /\ qihe \in [files : SUBSET Files, fresh : Nat \X Nat]
             /\ published \in [Files -> SUBSET Problem] /\ moves \in Nat
WorkType  == jobs \in SUBSET JobSet /\ tasks \in Seq(TaskSet)

\* No freshness is from the future.
Past(r) == r.commit <= commit /\ r.readiness <= readiness /\ r.target <= target

\* A job of the current freshness sees the documents that are open now.
JobFresh(j) == Past(j.fresh) /\ (j.fresh = Fresh => j.open = open)

\* A batch of the current freshness has the problems its files have now.
TaskFresh(b) ==
  /\ Past(b.fresh)
  /\ b.kind # "qihe" /\ b.fresh = Fresh => \A f \in b.files : OwnPart(b.diags[f]) = Shown(f)

PushInv ==
  /\ DocType /\ RevType /\ FlagType /\ ShownType /\ WorkType
  /\ \A j \in jobs : JobFresh(j)
  /\ \A i \in 1..Len(tasks) : TaskFresh(tasks[i])

------------------------------------------------------------------------------
(* Problems.                                                               *)

\* Problems of a file's owner are Vide's own, and typed.
LEMMA OwnProblems ==
  ASSUME DocType, NEW f \in Files
  PROVE  Own(f) \in SUBSET Problem /\ OwnPart(Own(f)) = Own(f)
<1>1. Owner(f) \subseteq Files
  BY ProfileAssumption DEF Owner
<1>2. ASSUME NEW p \in Own(f) PROVE p \in Problem /\ p.by = "vide"
  <2>1. PICK g \in Owner(f) : text[g] \notin {Clean, None} /\ p = [by |-> "vide", file |-> g, text |-> text[g]]
    BY <1>2 DEF Own
  <2>2. g \in Files /\ text[g] \in Texts
    BY <1>1, <2>1 DEF DocType
  <2> QED BY <2>1, <2>2 DEF Problem
<1> QED BY <1>2 DEF OwnPart

\* Qihe's problems are not part of them.
LEMMA ExternalProblems ==
  ASSUME NEW f \in Files, NEW fresh
  PROVE  External(f, fresh) \in SUBSET Problem /\ OwnPart(External(f, fresh)) = {}
<1>1. [by |-> "qihe", file |-> f] \in Problem
  BY DEF Problem
<1>2. [by |-> "qihe", file |-> f].by # "vide"
  OBVIOUS
<1> QED BY <1>1, <1>2 DEF External, OwnPart

LEMMA DiagsProblems ==
  ASSUME DocType, NEW f \in Files, NEW fresh
  PROVE  Diags(f, fresh) \in SUBSET Problem /\ OwnPart(Diags(f, fresh)) = Own(f)
<1>1. OwnPart(Own(f) \cup External(f, fresh)) = OwnPart(Own(f)) \cup OwnPart(External(f, fresh))
  BY DEF OwnPart
<1> QED BY <1>1, OwnProblems, ExternalProblems DEF Diags

------------------------------------------------------------------------------
(* Turns.                                                                  *)

\* What the end of a turn does to the freshness and to the jobs.
TurnEffect ==
  /\ RevType' /\ commit <= commit' /\ target <= target' /\ readiness <= readiness'
  /\ text' # text => commit < commit'
  /\ open' # open => target < target'
  /\ deferred' \in BOOLEAN /\ semActive' \in BOOLEAN /\ semPending' \in BOOLEAN
  /\ \A j \in jobs' : j \in jobs \/ (j \in JobSet /\ j.fresh = Fresh' /\ j.open = open')

LEMMA EndTurnEffect ==
  ASSUME PushInv, DocType', readiness' \in Nat, readiness <= readiness',
         NEW pending \in SUBSET Files, NEW changed \in SUBSET Files, NEW structure,
         NEW saved, NEW whole,
         text' # text => changed # {}, open' # open => pending # {},
         EndTurn(pending, changed, structure, saved, whole)
  PROVE  TurnEffect
<1> DEFINE fresh == [commit |-> commit', readiness |-> readiness', target |-> target']
<1>1. /\ commit' = CommitAfter(changed, whole) /\ target' = TargetAfter(pending)
  BY DEF EndTurn
<1>2. /\ RevType' /\ commit <= commit' /\ target <= target'
      /\ (changed # {} => commit < commit') /\ (pending # {} => target < target')
  BY <1>1 DEF CommitAfter, TargetAfter, PushInv, RevType
<1>3. deferred' \in BOOLEAN /\ semActive' \in BOOLEAN /\ semPending' \in BOOLEAN
  BY DEF EndTurn, ScheduleSemantic
<1>4. fresh \in FreshRec /\ fresh = Fresh'
  BY <1>2 DEF FreshRec, RevType, Fresh
<1>5. ASSUME NEW j \in jobs', j \notin jobs
      PROVE  j \in JobSet /\ j.fresh = Fresh' /\ j.open = open'
  <2>1. \E s : /\ s \in SUBSET Files
               /\ \/ j = [kind |-> "push", files |-> s, open |-> open', fresh |-> fresh]
                  \/ j = [kind |-> "semantic", files |-> s, open |-> open', fresh |-> fresh]
    BY <1>5, ProfileAssumption DEF EndTurn, SharingOwner, DocType
  <2> HIDE DEF fresh
  <2> QED BY <2>1, <1>4 DEF JobSet, DocType
<1> QED BY <1>2, <1>3, <1>5 DEF TurnEffect

\* After a turn no outdated freshness is current, unless texts and open
\* documents are what they were.
LEMMA OldFreshness ==
  ASSUME PushInv, TurnEffect, NEW r \in FreshRec, Past(r)
  PROVE  Past(r)' /\ (r = Fresh' => r = Fresh /\ text' = text /\ open' = open)
<1>1. r.commit \in Nat /\ r.readiness \in Nat /\ r.target \in Nat
  BY DEF FreshRec
<1>2. Past(r)'
  BY <1>1 DEF Past, TurnEffect, PushInv, RevType
<1>3. ASSUME r = Fresh' PROVE r = Fresh /\ text' = text /\ open' = open
  <2>1. r.commit = commit' /\ r.readiness = readiness' /\ r.target = target'
    BY <1>3 DEF Fresh
  <2>2. commit' = commit /\ readiness' = readiness /\ target' = target
    BY <1>1, <2>1 DEF Past, TurnEffect, PushInv, RevType
  <2>3. text' = text /\ open' = open
    BY <2>2 DEF TurnEffect, PushInv, RevType
  <2> QED BY <1>3, <2>2, <2>3 DEF Fresh
<1> QED BY <1>2, <1>3

LEMMA TurnKeeps ==
  ASSUME PushInv, TurnEffect, DocType', ShownType', tasks' = tasks,
         fetching' \in BOOLEAN, loading' \in BOOLEAN
  PROVE  PushInv'
<1>1. ASSUME NEW j \in jobs' PROVE j \in JobSet /\ JobFresh(j)'
  <2>1. CASE j \in jobs
    <3>1. j \in JobSet /\ j.fresh \in FreshRec /\ JobFresh(j)
      BY <2>1 DEF PushInv, WorkType, JobSet
    <3> QED BY <3>1, OldFreshness DEF JobFresh
  <2>2. CASE j \in JobSet /\ j.fresh = Fresh' /\ j.open = open'
    BY <2>2 DEF JobFresh, Past, Fresh, TurnEffect, RevType
  <2> QED BY <2>1, <2>2 DEF TurnEffect
<1>2. ASSUME NEW i \in 1..Len(tasks') PROVE TaskFresh(tasks[i])'
  <2>1. PICK b \in TaskSet : b = tasks[i] /\ TaskFresh(b)
    BY <1>2 DEF PushInv, WorkType
  <2>2. b.fresh \in FreshRec /\ b.files \subseteq Files /\ tasks'[i] = b
    BY <2>1 DEF TaskSet, BatchOf, QiheResult
  <2>3. text' = text /\ open' = open => \A f \in Files : Shown(f)' = Shown(f)
    BY DEF Shown, Own, Owner
  <2>4. /\ Past(b.fresh)'
        /\ b.fresh = Fresh' => b.fresh = Fresh /\ text' = text /\ open' = open
    BY <2>1, <2>2, OldFreshness DEF TaskFresh
  <2>5. TaskFresh(b)'
    BY <2>1, <2>2, <2>3, <2>4 DEF TaskFresh
  <2> QED BY <2>2, <2>5 DEF TaskFresh, Past, Fresh, OwnPart
<1> QED BY <1>1, <1>2 DEF PushInv, WorkType, FlagType, TurnEffect

------------------------------------------------------------------------------
(* Each action keeps the invariant.                                        *)

LEMMA InitInv == Init => PushInv
<1> SUFFICES ASSUME Init PROVE PushInv
  OBVIOUS
<1>1. tasks = <<>> /\ jobs = {}
  BY DEF Init
<1>2. WorkType /\ \A i \in 1..Len(tasks) : TaskFresh(tasks[i])
  BY <1>1 DEF WorkType
<1>3. DocType /\ RevType /\ FlagType
  BY DEF Init, DocType, RevType, FlagType
<1>4. ShownType
  BY DEF Init, ShownType
<1> QED BY <1>1, <1>2, <1>3, <1>4 DEF PushInv

LEMMA StutterInv ==
  ASSUME PushInv, UNCHANGED vars
  PROVE  PushInv'
<1> USE DEF vars, docVars, revVars, wsVars, semVars
<1>1. DocType' /\ RevType' /\ FlagType' /\ ShownType' /\ WorkType'
  BY DEF PushInv, DocType, RevType, FlagType, ShownType, WorkType
<1>2. \A j \in jobs' : JobFresh(j)'
  BY DEF PushInv, JobFresh, Past, Fresh
<1>3. \A i \in 1..Len(tasks') : TaskFresh(tasks[i])'
  BY DEF PushInv, TaskFresh, Past, Fresh, Shown, Own, Owner, OwnPart
<1> QED BY <1>1, <1>2, <1>3 DEF PushInv

LEMMA DidOpenInv ==
  ASSUME PushInv, NEW f \in Files, NEW t \in Texts, DidOpen(f, t)
  PROVE  PushInv'
<1>1. DocType' /\ readiness' = readiness /\ (text' # text => t # text[f])
  BY DEF DidOpen, PushInv, DocType
<1>2. PICK changed \in SUBSET Files, structure \in BOOLEAN :
        /\ changed = {f} \ {g \in {f} : t = text[g]} /\ structure = (text[f] = None)
  OBVIOUS
<1>3. EndTurn({f}, changed, structure, {}, FALSE)
  BY <1>2 DEF DidOpen
<1>4. TurnEffect
  <2>1. text' # text => changed # {}
    BY <1>1, <1>2
  <2>2. {f} \in SUBSET Files /\ {f} # {}
    OBVIOUS
  <2>3. readiness' \in Nat /\ readiness <= readiness'
    BY <1>1 DEF PushInv, RevType
  <2> QED BY <1>1, <1>3, <2>1, <2>2, <2>3, EndTurnEffect
<1> QED BY <1>1, <1>4, TurnKeeps DEF DidOpen, Move, wsVars, PushInv, FlagType, ShownType

LEMMA DidChangeInv ==
  ASSUME PushInv, NEW f \in Files, NEW t \in Texts, DidChange(f, t)
  PROVE  PushInv'
<1>1. DocType' /\ readiness' \in Nat /\ readiness <= readiness'
  BY DEF DidChange, PushInv, DocType, RevType
<1>2. TurnEffect
  BY <1>1, EndTurnEffect DEF DidChange
<1> QED BY <1>1, <1>2, TurnKeeps DEF DidChange, Move, wsVars, PushInv, FlagType, ShownType

LEMMA DidCloseInv ==
  ASSUME PushInv, NEW f \in Files, DidClose(f)
  PROVE  PushInv'
<1>1. DocType' /\ readiness' \in Nat /\ readiness <= readiness'
  BY DEF DidClose, PushInv, DocType, RevType
<1>2. TurnEffect
  BY <1>1, EndTurnEffect DEF DidClose
<1> QED BY <1>1, <1>2, TurnKeeps DEF DidClose, Move, wsVars, PushInv, FlagType, ShownType

LEMMA DidSaveInv ==
  ASSUME PushInv, NEW f \in Files, DidSave(f)
  PROVE  PushInv'
<1>1. DocType' /\ readiness' \in Nat /\ readiness <= readiness'
  BY DEF DidSave, PushInv, DocType, RevType, docVars
<1>2. TurnEffect
  BY <1>1, EndTurnEffect DEF DidSave, docVars
<1> QED BY <1>1, <1>2, TurnKeeps DEF DidSave, Move, wsVars, PushInv, FlagType, ShownType

LEMMA VfsChangedInv ==
  ASSUME PushInv, NEW changed \in SUBSET Files, NEW t \in Texts \cup {None}, VfsChanged(changed, t)
  PROVE  PushInv'
<1>1. DocType' /\ readiness' \in Nat /\ readiness <= readiness'
  BY DEF VfsChanged, PushInv, DocType, RevType
<1>2. TurnEffect
  <2>1. PICK structure : structure = (\E f \in changed : None \in {text[f], t})
    OBVIOUS
  <2>2. EndTurn({}, changed, structure, {}, FALSE)
    BY <2>1 DEF VfsChanged
  <2>3. changed # {} /\ open' = open
    BY DEF VfsChanged
  <2> QED BY <1>1, <2>2, <2>3, EndTurnEffect
<1>3. ShownType' /\ tasks' = tasks /\ fetching' = fetching /\ loading' = loading
  BY DEF VfsChanged, ClearDeleted, Move, wsVars, PushInv, ShownType
<1> QED BY <1>1, <1>2, <1>3, TurnKeeps DEF PushInv, FlagType

\* Turns that leave texts, documents and screen alone.
WorkspaceTurn ==
  /\ text' = text /\ open' = open /\ tasks' = tasks /\ qihe' = qihe /\ published' = published
  /\ readiness' \in {readiness, readiness + 1} /\ moves' \in {moves, moves + 1}
  /\ fetching' \in BOOLEAN /\ loading' \in BOOLEAN
  /\ \E whole : EndTurn({}, {}, FALSE, {}, whole)

LEMMA WorkspaceTurnInv ==
  ASSUME PushInv, WorkspaceTurn
  PROVE  PushInv'
<1>1. DocType' /\ readiness' \in Nat /\ readiness <= readiness'
  BY DEF WorkspaceTurn, PushInv, DocType, RevType
<1>2. TurnEffect
  BY <1>1, EndTurnEffect DEF WorkspaceTurn
<1>3. ShownType'
  BY DEF WorkspaceTurn, PushInv, ShownType
<1> QED BY <1>1, <1>2, <1>3, TurnKeeps DEF WorkspaceTurn

LEMMA WorkspaceTurns ==
  ASSUME PushInv,
         DidChangeConfiguration \/ RequestReload \/ FetchSucceeded \/ FetchFailed \/ VfsLoaded
  PROVE  WorkspaceTurn
<1>0. FlagType
  BY DEF PushInv
<1> USE <1>0 DEF WorkspaceTurn, docVars, wsVars, FlagType
<1>1. CASE DidChangeConfiguration
  BY <1>1 DEF DidChangeConfiguration, Move
<1>2. CASE RequestReload
  BY <1>2 DEF RequestReload, Move
<1>3. CASE FetchSucceeded
  BY <1>3 DEF FetchSucceeded
<1>4. CASE FetchFailed
  BY <1>4 DEF FetchFailed
<1>5. CASE VfsLoaded
  BY <1>5 DEF VfsLoaded
<1> QED BY <1>1, <1>2, <1>3, <1>4, <1>5

------------------------------------------------------------------------------
(* The workers and what the loop does with their results.                  *)

\* A step that changes no text, document or freshness keeps the invariant, if
\* what it adds to the pool and the channel is current.
LEMMA WorkInv ==
  ASSUME PushInv, UNCHANGED <<docVars, revVars>>, FlagType', ShownType', WorkType',
         \A j \in jobs' : j \in jobs \/ (j.fresh = Fresh /\ j.open = open),
         \A i \in 1..Len(tasks') : TaskFresh(tasks'[i])
  PROVE  PushInv'
<1> USE DEF docVars, revVars
<1>1. Fresh' = Fresh /\ DocType' /\ RevType'
  BY DEF Fresh, PushInv, DocType, RevType
<1>2. \A j \in jobs' : JobFresh(j)'
  BY <1>1 DEF PushInv, JobFresh, Past, Fresh, RevType
<1>3. \A r : TaskFresh(r) => TaskFresh(r)'
  BY <1>1 DEF TaskFresh, Past, Shown, Own, Owner
<1>4. \A i \in 1..Len(tasks') : TaskFresh(tasks[i])'
  BY <1>3 DEF TaskFresh, Past, Fresh, OwnPart
<1> QED BY <1>1, <1>2, <1>4 DEF PushInv

\* A worker's result is right, as of its freshness.
LEMMA ComputedIsFresh ==
  ASSUME PushInv, NEW j \in jobs, j.kind \in {"push", "semantic"}
  PROVE  LET b == [kind |-> j.kind, fresh |-> j.fresh, files |-> j.files,
                   diags |-> [f \in j.files |-> IF f \in j.open THEN Diags(f, j.fresh) ELSE {}]]
         IN  b \in TaskSet /\ TaskFresh(b)
<1> DEFINE d == [f \in j.files |-> IF f \in j.open THEN Diags(f, j.fresh) ELSE {}]
           b == [kind |-> j.kind, fresh |-> j.fresh, files |-> j.files, diags |-> d]
<1>1. j.files \in SUBSET Files /\ j.fresh \in FreshRec /\ JobFresh(j) /\ DocType
  BY DEF PushInv, WorkType, JobSet
<1>2. d \in [j.files -> SUBSET Problem]
  BY <1>1, DiagsProblems
<1>3. ASSUME j.fresh = Fresh, NEW f \in j.files PROVE OwnPart(d[f]) = Shown(f)
  BY <1>1, <1>3, DiagsProblems DEF JobFresh, Shown, OwnPart
<1> HIDE DEF d
<1>4. b \in BatchOf(j.files)
  BY <1>1, <1>2 DEF BatchOf
<1>5. b \in TaskSet
  BY <1>1, <1>4 DEF TaskSet
<1>6. TaskFresh(b)
  BY <1>1, <1>3 DEF TaskFresh, JobFresh
<1> QED BY <1>5, <1>6 DEF d

LEMMA WorkerInv ==
  ASSUME PushInv, Worker
  PROVE  PushInv'
<1>1. PICK j \in jobs : /\ Compute(j) \/ RunQihe(j)
                        /\ jobs' = jobs \ {j}
                        /\ UNCHANGED <<docVars, revVars, wsVars, deferred, semVars, qihe, published, moves>>
  BY DEF Worker
<1>2. PICK b \in TaskSet : TaskFresh(b) /\ tasks' = Append(tasks, b)
  <2>1. CASE Compute(j)
    BY <2>1, ComputedIsFresh DEF Compute
  <2>2. CASE RunQihe(j)
    <3>1. PICK found \in SUBSET Files :
            tasks' = Append(tasks, [kind |-> "qihe", fresh |-> j.fresh, files |-> found, diags |-> <<>>])
      BY <2>2 DEF RunQihe
    <3>2. j.fresh \in FreshRec /\ JobFresh(j)
      BY DEF PushInv, WorkType, JobSet
    <3> DEFINE r == [kind |-> "qihe", fresh |-> j.fresh, files |-> found, diags |-> <<>>]
    <3>3. r \in TaskSet
      BY <3>2 DEF TaskSet, QiheResult
    <3>4. TaskFresh(r)
      BY <3>2 DEF TaskFresh, JobFresh
    <3> QED BY <3>1, <3>3, <3>4
  <2> QED BY <1>1, <2>1, <2>2
<1>3. FlagType' /\ ShownType'
  BY <1>1 DEF PushInv, FlagType, ShownType, wsVars, semVars
<1>4. tasks \in Seq(TaskSet) /\ WorkType'
  BY <1>1, <1>2 DEF PushInv, WorkType
<1>5. \A i \in 1..Len(tasks') : TaskFresh(tasks'[i])
  BY <1>2, <1>4 DEF PushInv
<1> QED BY <1>1, <1>3, <1>4, <1>5, WorkInv

\* What handling a result changes on the screen is what a file has now.
ShowsCurrent ==
  /\ published' \in [Files -> SUBSET Problem]
  /\ \A f \in Files : OwnPart(published'[f]) \in {OwnPart(published[f]), Shown(f)}

LEMMA PublishShows ==
  ASSUME PushInv, NEW fresh, NEW touched \in SUBSET Files, NEW diags \in [touched -> SUBSET Problem],
         IsFresh(fresh) => \A f \in touched : OwnPart(diags[f]) = Shown(f),
         Publish(fresh, touched, diags)
  PROVE  ShowsCurrent /\ deferred' \in BOOLEAN
<1>1. deferred' \in BOOLEAN /\ published \in [Files -> SUBSET Problem]
  BY DEF Publish, PushInv, ShownType
<1>2. CASE Ready /\ IsFresh(fresh)
  <2>1. published' = [f \in Files |-> IF f \in touched THEN diags[f] ELSE published[f]]
    BY <1>2 DEF Publish
  <2> QED BY <1>1, <1>2, <2>1 DEF ShowsCurrent
<1>3. CASE ~(Ready /\ IsFresh(fresh))
  BY <1>1, <1>3 DEF Publish, ShowsCurrent
<1> QED BY <1>1, <1>2, <1>3

LEMMA HandleDiagnosticsShows ==
  ASSUME PushInv, tasks # <<>>, HandleDiagnostics
  PROVE  ShowsCurrent /\ deferred' \in BOOLEAN
<1>1. PICK b \in TaskSet : b = Head(tasks) /\ TaskFresh(b)
  BY DEF PushInv, WorkType
<1>2. b.kind = "push" /\ Publish(b.fresh, b.files, b.diags)
  BY <1>1 DEF HandleDiagnostics
<1>3. b.files \in SUBSET Files /\ b.diags \in [b.files -> SUBSET Problem]
  BY <1>1, <1>2 DEF TaskSet, BatchOf, QiheResult
<1>4. IsFresh(b.fresh) => \A f \in b.files : OwnPart(b.diags[f]) = Shown(f)
  BY <1>1, <1>2 DEF TaskFresh, IsFresh
<1> QED BY <1>2, <1>3, <1>4, PublishShows

LEMMA HandleSemanticShows ==
  ASSUME PushInv, tasks # <<>>, HandleSemantic
  PROVE  ShowsCurrent /\ deferred' \in BOOLEAN
<1>1. PICK b \in TaskSet : b = Head(tasks) /\ TaskFresh(b)
  BY DEF PushInv, WorkType
<1>2. b.kind = "semantic" /\ (IF IsFresh(b.fresh) THEN Publish(b.fresh, b.files, b.diags)
                                                  ELSE UNCHANGED <<deferred, published>>)
  BY <1>1 DEF HandleSemantic
<1>3. b.files \in SUBSET Files /\ b.diags \in [b.files -> SUBSET Problem]
  BY <1>1, <1>2 DEF TaskSet, BatchOf, QiheResult
<1>4. IsFresh(b.fresh) => \A f \in b.files : OwnPart(b.diags[f]) = Shown(f)
  BY <1>1, <1>2 DEF TaskFresh, IsFresh
<1>5. CASE ~IsFresh(b.fresh)
  BY <1>2, <1>5 DEF ShowsCurrent, PushInv, ShownType, FlagType
<1> QED BY <1>2, <1>3, <1>4, <1>5, PublishShows

LEMMA HandleQiheShows ==
  ASSUME PushInv, tasks # <<>>, HandleQihe
  PROVE  ShowsCurrent /\ deferred' \in BOOLEAN /\ qihe' \in [files : SUBSET Files, fresh : Nat \X Nat]
<1>1. PICK r \in TaskSet : r = Head(tasks)
  BY DEF PushInv, WorkType
<1> DEFINE changed == qihe.files \cup r.files
           own(f) == IF f \in open THEN Own(f) \cup (IF f \in r.files THEN {[by |-> "qihe", file |-> f]} ELSE {})
                     ELSE {}
           diags == [f \in changed |-> own(f)]
<1>2. IF CommitOf(r.fresh) = CommitOf(Fresh) /\ changed # {}
      THEN qihe' = [files |-> r.files, fresh |-> CommitOf(Fresh)] /\ Publish(Fresh, changed, diags)
      ELSE UNCHANGED <<qihe, deferred, published>>
  BY <1>1 DEF HandleQihe
<1>3. r.files \in SUBSET Files /\ changed \in SUBSET Files
  BY <1>1 DEF TaskSet, BatchOf, QiheResult, PushInv, ShownType
<1>4. ASSUME NEW f \in changed PROVE own(f) \in SUBSET Problem /\ OwnPart(own(f)) = Shown(f)
  <2>1. f \in Files /\ DocType
    BY <1>3 DEF PushInv
  <2>2. [by |-> "qihe", file |-> f] \in Problem /\ [by |-> "qihe", file |-> f].by # "vide"
    BY <2>1 DEF Problem
  <2> QED BY <2>1, <2>2, OwnProblems DEF OwnPart, Shown
<1>5. diags \in [changed -> SUBSET Problem] /\ \A f \in changed : OwnPart(diags[f]) = Shown(f)
  BY <1>4
<1>6. CommitOf(Fresh) \in Nat \X Nat
  BY DEF CommitOf, Fresh, PushInv, RevType
<1> HIDE DEF diags, changed
<1>7. CASE qihe' = [files |-> r.files, fresh |-> CommitOf(Fresh)] /\ Publish(Fresh, changed, diags)
  BY <1>3, <1>5, <1>6, <1>7, PublishShows
<1>8. CASE UNCHANGED <<qihe, deferred, published>>
  BY <1>8 DEF ShowsCurrent, PushInv, ShownType, FlagType
<1> QED BY <1>2, <1>7, <1>8

LEMMA HandleTaskInv ==
  ASSUME PushInv, HandleTask
  PROVE  PushInv' /\ ShowsCurrent
<1>1. tasks # <<>> /\ tasks' = Tail(tasks) /\ UNCHANGED <<docVars, revVars, wsVars, moves>>
  BY DEF HandleTask
<1>2. ShowsCurrent /\ deferred' \in BOOLEAN /\ qihe' \in [files : SUBSET Files, fresh : Nat \X Nat]
  BY <1>1, HandleDiagnosticsShows, HandleSemanticShows, HandleQiheShows
     DEF HandleTask, HandleDiagnostics, HandleSemantic, PushInv, ShownType
<1>3. semActive' \in BOOLEAN /\ semPending' \in BOOLEAN
  BY DEF HandleTask, HandleDiagnostics, HandleSemantic, HandleQihe, StartPendingSemantic,
         semVars, PushInv, FlagType
<1>4. ASSUME NEW j \in jobs', j \notin jobs
      PROVE  j \in JobSet /\ j.fresh = Fresh /\ j.open = open
  <2> DEFINE new == [kind |-> "semantic", files |-> Profile, open |-> open, fresh |-> Fresh]
  <2>1. j = new
    BY <1>4 DEF HandleTask, HandleDiagnostics, HandleSemantic, HandleQihe, StartPendingSemantic
  <2>2. Fresh \in FreshRec /\ open \in SUBSET Files
    BY DEF Fresh, FreshRec, PushInv, RevType, DocType
  <2> QED BY <2>1, <2>2, ProfileAssumption DEF JobSet
<1>5. tasks \in Seq(TaskSet) /\ WorkType'
  BY <1>1, <1>4 DEF PushInv, WorkType
<1>6. \A i \in 1..Len(tasks') : TaskFresh(tasks'[i])
  BY <1>1, <1>5 DEF PushInv
<1>7. FlagType' /\ ShownType'
  BY <1>1, <1>2, <1>3 DEF PushInv, FlagType, ShownType, ShowsCurrent, wsVars
<1> QED BY <1>1, <1>2, <1>4, <1>5, <1>6, <1>7, WorkInv

LEMMA StartQiheInv ==
  ASSUME PushInv, StartQihe
  PROVE  PushInv'
<1> DEFINE new == [kind |-> "qihe", files |-> {}, open |-> open, fresh |-> Fresh]
<1>1. /\ jobs' = jobs \cup {new} /\ moves' = moves + 1
      /\ UNCHANGED <<docVars, revVars, wsVars, deferred, semVars, qihe, tasks, published>>
  BY DEF StartQihe, Move
<1>2. new \in JobSet /\ new.fresh = Fresh /\ new.open = open
  BY DEF Fresh, FreshRec, JobSet, PushInv, RevType, DocType
<1> HIDE DEF new
<1>3. FlagType' /\ ShownType' /\ WorkType'
  BY <1>1, <1>2 DEF PushInv, FlagType, ShownType, WorkType, wsVars, semVars
<1>4. \A i \in 1..Len(tasks') : TaskFresh(tasks'[i])
  BY <1>1 DEF PushInv
<1> QED BY <1>1, <1>2, <1>3, <1>4, WorkInv

LEMMA NextInv ==
  ASSUME PushInv, [Next]_vars
  PROVE  PushInv'
<1>1. CASE Client
  BY <1>1, DidOpenInv, DidChangeInv, DidCloseInv, DidSaveInv, StartQiheInv, WorkspaceTurns,
     WorkspaceTurnInv DEF Client
<1>2. CASE Workspace
  BY <1>2, VfsChangedInv, WorkspaceTurns, WorkspaceTurnInv DEF Workspace
<1> QED BY <1>1, <1>2, WorkerInv, HandleTaskInv, StutterInv DEF Next

\* The inductive invariant: no freshness is from the future, and one that is
\* current proves that the texts and documents are those it was taken of.
THEOREM PushInvHolds == Spec => []PushInv
<1> QED BY InitInv, NextInv, PTL DEF Spec

\* The type invariant (TypeOK).
THEOREM TypeOKHolds == Spec => []TypeOK
<1>1. PushInv => TypeOK
  <2> SUFFICES ASSUME PushInv PROVE TypeOK
    OBVIOUS
  <2>1. \A j \in jobs : j.kind \in {"push", "semantic", "qihe"} /\ j.files \subseteq Files
                        /\ j.open \subseteq Files /\ j.fresh \in FreshRec
    BY DEF PushInv, WorkType, JobSet
  <2>2. ASSUME NEW i \in 1..Len(tasks)
        PROVE  /\ tasks[i].kind \in {"push", "semantic", "qihe"}
               /\ tasks[i].files \subseteq Files /\ tasks[i].fresh \in FreshRec
    <3>1. tasks[i] \in TaskSet
      BY DEF PushInv, WorkType
    <3> QED BY <3>1 DEF TaskSet, BatchOf, QiheResult
  <2> QED BY <2>1, <2>2 DEF TypeOK, PushInv, DocType, RevType, FlagType, ShownType
<1> QED BY <1>1, PushInvHolds, PTL

\* What a step changes of the problems the client shows of a file is what the
\* file has at that moment: an outdated batch never replaces a newer one, and
\* a closed document gets no problems (PublishedIsCurrent).
THEOREM PublishedIsCurrentHolds == Spec => PublishedIsCurrent
<1> DEFINE Current(f) == OwnPart(published'[f]) # OwnPart(published[f])
                           => OwnPart(published'[f]) = IF f \in open' THEN Own(f)' ELSE {}
<1>1. ASSUME PushInv, [Next]_vars, NEW f \in Files PROVE Current(f)
  <2>1. CASE HandleTask
    <3>1. ShowsCurrent /\ text' = text /\ open' = open
      BY <1>1, <2>1, HandleTaskInv DEF HandleTask, docVars
    <3>2. Shown(f) = IF f \in open' THEN Own(f)' ELSE {}
      BY <3>1 DEF Shown, Own, Owner
    <3> QED BY <3>1, <3>2 DEF ShowsCurrent
  <2>2. CASE \E changed \in SUBSET Files, t \in Texts \cup {None} : VfsChanged(changed, t)
    <3>1. PICK changed \in SUBSET Files, t \in Texts \cup {None} : VfsChanged(changed, t)
      BY <2>2
    <3>2. changed \cap open = {} /\ open' = open
      BY <3>1 DEF VfsChanged
    <3>3. published'[f] = published[f] \/ (published'[f] = {} /\ f \in changed)
      BY <3>1 DEF VfsChanged, ClearDeleted
    <3> QED BY <3>2, <3>3 DEF OwnPart
  <2>3. CASE UNCHANGED published
    BY <2>3
  <2>4. CASE Client
    BY <1>1, <2>3, <2>4, WorkspaceTurns
       DEF Client, DidOpen, DidChange, DidClose, DidSave, StartQihe, WorkspaceTurn
  <2>5. CASE Workspace
    BY <1>1, <2>2, <2>3, <2>5, WorkspaceTurns DEF Workspace, WorkspaceTurn
  <2>6. CASE Worker
    BY <2>3, <2>6 DEF Worker
  <2>7. CASE UNCHANGED vars
    BY <2>3, <2>7 DEF vars
  <2> QED BY <1>1, <2>1, <2>4, <2>5, <2>6, <2>7 DEF Next
<1> HIDE DEF Current
<1>2. PushInv /\ [Next]_vars => [\A f \in Files : Current(f)]_vars
  BY <1>1
<1> QED BY <1>2, PushInvHolds, PTL DEF Spec, PublishedIsCurrent, Current

------------------------------------------------------------------------------
(* One open document.                                                      *)

\* A batch is lost for good when a turn outdates it and asks for other files
\* alone: one that changes a file of another owner, or opens or closes another
\* document.  Neither can be where all files have one owner and f alone is open.
OneOwner(f) == \A g \in Files : Owner(g) = Owner(f)
OnlyDoc(f)  == open \subseteq {f}

\* Current problems of f are computed, or were and are in the task channel.
OnWay(f) ==
  \/ \E j \in jobs : j.kind = "push" /\ j.fresh = Fresh /\ f \in j.files
  \/ \E i \in 1..Len(tasks) : tasks[i].kind = "push" /\ tasks[i].fresh = Fresh /\ f \in tasks[i].files

IsShown(f) == OwnPart(published[f]) = Own(f)

\* What was not asked for while the workspace loads is not forgotten.
Recovered(f) ==
  /\ Ready => ~deferred
  /\ loading /\ ~fetching => deferred
  /\ Ready /\ f \in open => IsShown(f) \/ OnWay(f)

LEMMA TurnRequests ==
  ASSUME NEW f \in Files, OneOwner(f), OnType, NEW pending \in SUBSET Files, NEW changed \in SUBSET Files,
         NEW structure, NEW whole, EndTurn(pending, changed, structure, {}, whole), Ready', f \in open',
         changed # {} \/ f \in pending \/ whole \/ structure \/ deferred
  PROVE  OnWay(f)'
<1> DEFINE fresh    == [commit |-> commit', readiness |-> readiness', target |-> target']
           all      == whole \/ structure \/ Flushes
           partly   == Invalidated(pending, changed, structure) \cup {}
           requests == {IF all THEN open' ELSE {}, SharingOwner(partly),
                        IF AsksForPending(pending, changed, structure) THEN pending ELSE {}} \ {{}}
           job(s)   == [kind |-> "push", files |-> s, open |-> open', fresh |-> fresh]
<1>1. \A s \in requests : job(s) \in jobs'
  BY DEF EndTurn
<1>2. \E s \in requests : f \in s
  <2>1. CASE all
    BY <2>1
  <2>2. CASE ~all /\ changed # {}
    <3>1. ~structure
      BY <2>2
    <3>2. Invalidated(pending, changed, structure) = changed \cup pending
      BY <2>2, <3>1 DEF Invalidated
    <3>3. PICK g \in Files : g \in partly
      BY <2>2, <3>2
    <3>4. Owner(f) = Owner(g)
      BY <3>3 DEF OneOwner
    <3>5. f \in SharingOwner(partly)
      BY <3>3, <3>4 DEF SharingOwner
    <3> QED BY <3>5
  <2>3. CASE ~all /\ changed = {} /\ f \in pending
    BY <2>3 DEF AsksForPending
  <2> QED BY <2>1, <2>2, <2>3 DEF Flushes
<1>3. PICK s \in requests : f \in s
  BY <1>2
<1>4. job(s).kind = "push" /\ job(s).fresh = Fresh' /\ job(s).files = s
  BY DEF Fresh
<1> HIDE DEF requests, job
<1> QED BY <1>1, <1>3, <1>4 DEF OnWay

LEMMA TurnRecovers ==
  ASSUME NEW f \in Files, OneOwner(f), OnType, NEW pending \in SUBSET Files, NEW changed \in SUBSET Files,
         NEW structure, NEW whole, EndTurn(pending, changed, structure, {}, whole),
         loading' /\ ~fetching' => whole \/ deferred,
         Ready' /\ f \in open' => changed # {} \/ f \in pending \/ whole \/ structure \/ deferred
  PROVE  Recovered(f)'
<1>1. Ready' => ~deferred'
  BY DEF EndTurn
<1>2. ~Ready' /\ (deferred \/ whole) => deferred'
  BY DEF EndTurn
<1>3. Ready' /\ f \in open' => OnWay(f)'
  BY TurnRequests
<1> QED BY <1>1, <1>2, <1>3 DEF Recovered, Ready

------------------------------------------------------------------------------
(* The steps, with one open document.                                      *)

LEMMA ClientRecovers ==
  ASSUME PushInv, NEW f \in Files, OneOwner(f), OnType, Recovered(f), OnlyDoc(f), OnlyDoc(f)', Client
  PROVE  Recovered(f)'
<1>1. loading /\ ~fetching => deferred
  BY DEF Recovered
<1>2. ASSUME NEW g \in Files, NEW t \in Texts, DidOpen(g, t) PROVE Recovered(f)'
  <2>1. PICK changed \in SUBSET Files, structure \in BOOLEAN :
          /\ changed = {g} \ {h \in {g} : t = text[h]} /\ structure = (text[g] = None)
    OBVIOUS
  <2>2. EndTurn({g}, changed, structure, {}, FALSE) /\ open' = open \cup {g} /\ UNCHANGED <<fetching, loading>>
    BY <1>2, <2>1 DEF DidOpen, wsVars
  <2>3. g = f
    BY <2>2 DEF OnlyDoc
  <2> QED BY <1>1, <2>2, <2>3, TurnRecovers
<1>3. ASSUME NEW g \in Files, NEW t \in Texts, DidChange(g, t) PROVE Recovered(f)'
  <2>1. EndTurn({}, {g}, FALSE, {}, FALSE) /\ UNCHANGED <<fetching, loading>>
    BY <1>3 DEF DidChange, wsVars
  <2> QED BY <1>1, <2>1, TurnRecovers
<1>4. ASSUME NEW g \in Files, DidClose(g) PROVE Recovered(f)'
  <2>1. /\ EndTurn({g}, {}, FALSE, {}, FALSE) /\ UNCHANGED <<fetching, loading>>
        /\ g \in open /\ open' = open \ {g}
    BY <1>4 DEF DidClose, wsVars
  <2>2. f \notin open'
    BY <2>1 DEF OnlyDoc
  <2> QED BY <1>1, <2>1, <2>2, TurnRecovers
<1>5. ASSUME NEW g \in Files, DidSave(g) PROVE Recovered(f)'
  BY <1>5 DEF DidSave
<1>6. CASE DidChangeConfiguration
  <2>1. EndTurn({}, {}, FALSE, {}, TRUE)
    BY <1>6 DEF DidChangeConfiguration
  <2> QED BY <2>1, TurnRecovers
<1>7. CASE StartQihe
  <2>1. /\ jobs \subseteq jobs'
        /\ UNCHANGED <<text, open, commit, target, readiness, fetching, loading, deferred, tasks, published>>
    BY <1>7 DEF StartQihe, docVars, revVars, wsVars
  <2> QED BY <2>1 DEF Recovered, IsShown, OnWay, Own, Owner, OwnPart, Fresh, Ready
<1> QED BY <1>2, <1>3, <1>4, <1>5, <1>6, <1>7 DEF Client

LEMMA WorkspaceRecovers ==
  ASSUME PushInv, NEW f \in Files, OneOwner(f), OnType, ~FetchFails, Recovered(f), Workspace
  PROVE  Recovered(f)'
<1>1. loading /\ ~fetching => deferred
  BY DEF Recovered
<1>2. ASSUME NEW changed \in SUBSET Files, NEW t \in Texts \cup {None}, VfsChanged(changed, t)
      PROVE  Recovered(f)'
  <2>1. PICK structure : structure = (\E g \in changed : None \in {text[g], t})
    OBVIOUS
  <2>2. EndTurn({}, changed, structure, {}, FALSE) /\ changed # {} /\ UNCHANGED <<fetching, loading>>
    BY <1>2, <2>1 DEF VfsChanged, wsVars
  <2> QED BY <1>1, <2>2, TurnRecovers
<1>3. CASE RequestReload
  <2>1. EndTurn({}, {}, FALSE, {}, FALSE) /\ fetching' = TRUE
    BY <1>3 DEF RequestReload
  <2> QED BY <2>1, TurnRecovers DEF Ready
<1>4. CASE FetchSucceeded
  <2>1. EndTurn({}, {}, FALSE, {}, TRUE)
    BY <1>4 DEF FetchSucceeded
  <2> QED BY <2>1, TurnRecovers
<1>5. CASE FetchFailed
  BY <1>5 DEF FetchFailed
<1>6. CASE VfsLoaded
  <2>1. EndTurn({}, {}, FALSE, {}, FALSE) /\ loading = TRUE /\ loading' = FALSE /\ fetching' = fetching
    BY <1>6 DEF VfsLoaded, PushInv, FlagType
  <2>2. Ready' => deferred
    BY <1>1, <2>1 DEF Ready
  <2> QED BY <2>1, <2>2, TurnRecovers
<1> QED BY <1>2, <1>3, <1>4, <1>5, <1>6 DEF Workspace

LEMMA WorkerRecovers ==
  ASSUME PushInv, NEW f \in Files, Recovered(f), Worker
  PROVE  Recovered(f)'
<1>1. PICK j \in jobs : /\ Compute(j) \/ RunQihe(j)
                        /\ jobs' = jobs \ {j}
                        /\ UNCHANGED <<text, open, commit, target, readiness, fetching, loading, deferred, published>>
  BY DEF Worker, docVars, revVars, wsVars
<1>2. PICK b : /\ tasks' = Append(tasks, b)
               /\ j.kind = "push" => b.kind = "push" /\ b.fresh = j.fresh /\ b.files = j.files
  <2>1. CASE Compute(j)
    <3>1. PICK d : tasks' = Append(tasks, [kind |-> j.kind, fresh |-> j.fresh, files |-> j.files, diags |-> d])
      BY <2>1 DEF Compute
    <3> DEFINE new == [kind |-> j.kind, fresh |-> j.fresh, files |-> j.files, diags |-> d]
    <3>2. new.kind = j.kind /\ new.fresh = j.fresh /\ new.files = j.files
      OBVIOUS
    <3> HIDE DEF new
    <3> QED BY <3>1, <3>2 DEF new
  <2>2. CASE RunQihe(j)
    <3>1. j.kind # "push"
      BY <2>2 DEF RunQihe
    <3>2. \E b : tasks' = Append(tasks, b)
      BY <2>2 DEF RunQihe
    <3> QED BY <3>1, <3>2
  <2> QED BY <1>1, <2>1, <2>2
<1>3. tasks \in Seq(TaskSet)
  BY DEF PushInv, WorkType
<1>4. /\ \A i \in 1..Len(tasks) : i \in 1..Len(tasks') /\ tasks'[i] = tasks[i]
      /\ \E i \in 1..Len(tasks') : tasks'[i] = b
  BY <1>2, <1>3
<1>5. OnWay(f) => OnWay(f)'
  <2>1. Fresh' = Fresh
    BY <1>1 DEF Fresh
  <2> QED BY <1>1, <1>2, <1>4, <2>1 DEF OnWay
<1>6. IsShown(f)' <=> IsShown(f)
  BY <1>1 DEF IsShown, Own, Owner, OwnPart
<1> QED BY <1>1, <1>5, <1>6 DEF Recovered, Ready

LEMMA HandleTaskRecovers ==
  ASSUME PushInv, NEW f \in Files, Recovered(f), HandleTask
  PROVE  Recovered(f)'
<1>1. /\ tasks # <<>> /\ tasks' = Tail(tasks)
      /\ UNCHANGED <<text, open, commit, target, readiness, fetching, loading>>
  BY DEF HandleTask, docVars, revVars, wsVars
<1>2. tasks \in Seq(TaskSet) /\ DocType /\ ShownType /\ FlagType
  BY DEF PushInv, WorkType
<1>3. PICK b \in TaskSet : b = Head(tasks) /\ b = tasks[1] /\ TaskFresh(b)
  BY <1>1, <1>2 DEF PushInv
<1>4. ShowsCurrent /\ jobs \subseteq jobs'
  BY HandleTaskInv
     DEF HandleTask, HandleDiagnostics, HandleSemantic, HandleQihe, StartPendingSemantic
<1>5. deferred' = deferred \/ deferred' = (deferred \/ ~Ready)
  BY DEF HandleTask, HandleDiagnostics, HandleSemantic, HandleQihe, Publish
<1>6. Fresh' = Fresh /\ (Own(f) = Own(f)') /\ (Ready' <=> Ready)
  BY <1>1 DEF Fresh, Own, Owner, Ready
<1>7. ASSUME Ready, f \in open PROVE IsShown(f)' \/ OnWay(f)'
  <2>1. CASE IsShown(f)
    BY <1>4, <1>6, <1>7, <2>1 DEF ShowsCurrent, IsShown, Shown, OwnPart
  <2>2. CASE b.kind = "push" /\ b.fresh = Fresh /\ f \in b.files
    <3>1. Publish(b.fresh, b.files, b.diags)
      BY <1>3, <2>2 DEF HandleTask, HandleDiagnostics, HandleSemantic, HandleQihe
    <3>2. published'[f] = b.diags[f]
      BY <1>7, <2>2, <3>1 DEF Publish, IsFresh
    <3>3. OwnPart(b.diags[f]) = Shown(f)
      BY <1>3, <2>2 DEF TaskFresh
    <3>4. OwnPart(published'[f]) = Own(f)
      BY <1>7, <3>2, <3>3 DEF Shown
    <3> QED BY <1>6, <3>4 DEF IsShown, OwnPart
  <2>3. CASE ~(b.kind = "push" /\ b.fresh = Fresh /\ f \in b.files) /\ OnWay(f)
    <3>1. CASE \E j \in jobs : j.kind = "push" /\ j.fresh = Fresh /\ f \in j.files
      BY <1>4, <1>6, <3>1 DEF OnWay
    <3>2. CASE \E i \in 1..Len(tasks) : tasks[i].kind = "push" /\ tasks[i].fresh = Fresh /\ f \in tasks[i].files
      <4>1. PICK i \in 1..Len(tasks) : tasks[i].kind = "push" /\ tasks[i].fresh = Fresh /\ f \in tasks[i].files
        BY <3>2
      <4>2. i # 1
        BY <1>3, <2>3, <4>1
      <4>3. i - 1 \in 1..Len(Tail(tasks)) /\ Tail(tasks)[i - 1] = tasks[i]
        BY <1>1, <1>2, <4>1, <4>2
      <4> QED BY <1>1, <1>6, <4>1, <4>3 DEF OnWay
    <3> QED BY <2>3, <3>1, <3>2 DEF OnWay
  <2> QED BY <1>7, <2>1, <2>2, <2>3 DEF Recovered
<1> QED BY <1>1, <1>2, <1>5, <1>6, <1>7 DEF Recovered, FlagType, Ready

\* A document that is the only one opened, in a workspace whose files have one
\* owner, has its problems on the screen whenever there is nothing left to do:
\* each turn that outdates its batch, or drops it while the workspace loads,
\* asks for another (process_changes, take_deferred_diagnostics_if_ready).
\* With a second document this is false (Converges).
THEOREM OpenIsShownHolds ==
  ASSUME NEW f \in Files, OneOwner(f), OnType, ~FetchFails
  PROVE  Spec /\ []OnlyDoc(f) => []OpenIsShown
<1>1. Init => Recovered(f)
  BY DEF Init, Recovered, Ready
<1>2. PushInv /\ Recovered(f) /\ OnlyDoc(f) /\ OnlyDoc(f)' /\ [Next]_vars => Recovered(f)'
  <2> SUFFICES ASSUME PushInv, Recovered(f), OnlyDoc(f), OnlyDoc(f)', [Next]_vars PROVE Recovered(f)'
    OBVIOUS
  <2>1. CASE UNCHANGED vars
    BY <2>1 DEF vars, docVars, revVars, wsVars, semVars, Recovered, IsShown, OnWay, Own, Owner, OwnPart, Fresh, Ready
  <2> QED BY <2>1, ClientRecovers, WorkspaceRecovers, WorkerRecovers, HandleTaskRecovers DEF Next
<1>3. Recovered(f) /\ OnlyDoc(f) => OpenIsShown
  <2> SUFFICES ASSUME Recovered(f), OnlyDoc(f), Quiet, NEW g \in open PROVE OwnPart(published[g]) = Own(g)
    BY DEF OpenIsShown
  <2>1. g = f /\ Ready /\ jobs = {} /\ tasks = <<>>
    BY DEF OnlyDoc, Quiet
  <2>2. ~OnWay(f)
    BY <2>1 DEF OnWay
  <2> QED BY <2>1, <2>2 DEF Recovered, IsShown
<1> QED BY <1>1, <1>2, <1>3, PushInvHolds, PTL DEF Spec
==============================================================================
