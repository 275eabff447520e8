-------------------------- MODULE PullDiagnosticsProofs --------------------------
(***************************************************************************)
(* "Unchanged" is true, for any files, texts, moves and results of Qihe,   *)
(* if Qihe does not run beside workspace pulls.                            *)
(*                                                                         *)
(* The argument: an id names revisions of the past, which never come back, *)
(* so an id that is the current one was so all the time since.  A document *)
(* pull reads its id before its problems.  What a workspace pull reads is  *)
(* held by its snapshot.  What was read while an edit waited is of a       *)
(* revision that is outdated when the client gets it.                      *)
(***************************************************************************)
EXTENDS PullDiagnostics, TLAPS

Triple == Nat \X Nat \X Nat
Ids    == [fresh : Triple, owner : SUBSET Files, generation : Nat]

\* The current id, and what a report would say with it.
Now(f) == ResultId(f, Fresh)
IsTrue(f, items) == items = Own(f) \cup External(f, Fresh)

\* An id, or None, of no revision that is still to come.
OfPast(f, id) ==
  id # None => /\ id.fresh[1] <= snapshot /\ id.fresh[3] <= readiness
               /\ id.generation <= qihe[f].generation

Reads(f) == pull[f].at \in {"id", "own", "items"}

PullShape(f) ==
  /\ pull[f] = [at |-> pull[f].at, prev |-> pull[f].prev, fresh |-> pull[f].fresh,
                items |-> pull[f].items, id |-> pull[f].id]
  /\ pull[f].at \in {None, "id", "own", "items", "answered"}
  /\ pull[f].prev \in Id /\ pull[f].id \in Id

SnapshotHeld(f) ==
  Reads(f) => /\ pull[f].fresh \in Triple
              /\ pull[f].fresh[1] = snapshot /\ pull[f].fresh[3] <= readiness

\* What a document pull, and a workspace pull, has read so far.
DocumentRead(f) ==
  scope = "document" => /\ pull[f].at = "id" => pull[f].id = None
                        /\ pull[f].at = "items" /\ pull[f].id # None
                             => pull[f].id.fresh = pull[f].fresh
WorkspaceRead(f) ==
  scope = "workspace" => /\ pull[f].at = "own" => pull[f].id = None
                         /\ pull[f].at \in {"items", "id"} /\ Idle => pull[f].items = Own(f)

AnswerTrue(f) ==
  pull[f].at = "answered" /\ Idle /\ pull[f].id = Now(f) => IsTrue(f, pull[f].items)

PullOK(f) ==
  /\ PullShape(f) /\ SnapshotHeld(f) /\ OfPast(f, pull[f].id)
  /\ DocumentRead(f) /\ WorkspaceRead(f) /\ AnswerTrue(f)

ShownOK(f) ==
  /\ shown[f].id \in Id
  /\ OfPast(f, shown[f].id)
  /\ shown[f].id = Now(f) => IsTrue(f, shown[f].items)

QiheOK(f) ==
  /\ qihe[f].generation \in Nat
  /\ scope = "workspace" => qihe[f].problems = {}

PhaseOK ==
  phase # None =>
    /\ phase.kind \in {"edit", "config", "workspace"}
    /\ phase.kind = "edit" => phase.file \in Files /\ phase.text \in Texts

SemOK ==
  sem # None => /\ sem = [fresh |-> sem.fresh, result |-> sem.result]
                /\ sem.result \in {"running", "finished", "cancelled", "failed"}

LoopOK ==
  /\ scope \in {"document", "workspace"}
  /\ text \in [Files -> Texts]
  /\ config \in Nat /\ snapshot \in Nat /\ readiness \in Nat /\ target \in Nat
  /\ ready \in BOOLEAN /\ semPending \in BOOLEAN
  /\ ask \subseteq Files
  /\ PhaseOK /\ SemOK
  /\ pull = [f \in Files |-> pull[f]] /\ qihe = [f \in Files |-> qihe[f]]
  /\ shown = [f \in Files |-> shown[f]]

PullInv == LoopOK /\ \A f \in Files : PullOK(f) /\ ShownOK(f) /\ QiheOK(f)

------------------------------------------------------------------------------
(* Ids.                                                                    *)

\* The id of a revision names it, and is of the past at once.
LEMMA IdOf ==
  ASSUME PullInv, NEW f \in Files, NEW fresh \in Triple,
         fresh[1] <= snapshot, fresh[3] <= readiness
  PROVE  /\ ResultId(f, fresh) \in Id /\ ResultId(f, fresh) # None
         /\ ResultId(f, fresh).fresh = fresh
         /\ OfPast(f, ResultId(f, fresh))
<1> DEFINE g == IF qihe[f].fresh = fresh THEN qihe[f].generation ELSE 0
<1>1. Owner(f) \in SUBSET Files
  BY DataAssumption DEF Owner
<1>2. g \in Nat /\ g <= qihe[f].generation
  BY DEF PullInv, QiheOK
<1> HIDE DEF g
<1>3. ResultId(f, fresh) = [fresh |-> fresh, owner |-> Owner(f), generation |-> g]
  BY DEF ResultId, g
<1>4. ResultId(f, fresh) \in Ids
  BY <1>1, <1>2, <1>3 DEF Ids
<1>5. ResultId(f, fresh) \in Id /\ ResultId(f, fresh) # None
  BY <1>4, NoneAssumption DEF Id, Ids, Triple
<1>6. /\ ResultId(f, fresh).fresh = fresh
      /\ ResultId(f, fresh).generation = g
  BY <1>3
<1> QED
  BY <1>2, <1>5, <1>6 DEF OfPast

\* The current one is.
LEMMA FreshType ==
  ASSUME LoopOK
  PROVE  /\ Fresh \in Triple
         /\ Fresh[1] = snapshot /\ Fresh[3] = readiness
BY DEF LoopOK, Fresh, Triple

\* When a revision is new, the id of it is.
LEMMA Renewed ==
  ASSUME PullInv, LoopOK', NEW f \in Files, QiheOK(f)', NEW id \in Id, OfPast(f, id),
         snapshot' > snapshot \/ readiness' > readiness
  PROVE  id # Now(f)'
<1> SUFFICES ASSUME id = Now(f)'
             PROVE  FALSE
  OBVIOUS
<1>1. Fresh' \in Triple /\ Fresh'[1] = snapshot' /\ Fresh'[3] = readiness'
  BY DEF LoopOK, Fresh, Triple
<1>2. Now(f)'.fresh = Fresh'
  BY DEF Now, ResultId
<1>3. CASE id = None
  <2> DEFINE g == IF qihe'[f].fresh = Fresh' THEN qihe'[f].generation ELSE 0
  <2>1. Owner(f)' \in SUBSET Files
    BY DataAssumption DEF Owner
  <2>2. g \in Nat
    BY DEF QiheOK
  <2> HIDE DEF g
  <2>3. Now(f)' = [fresh |-> Fresh', owner |-> Owner(f)', generation |-> g]
    BY DEF Now, ResultId, g
  <2>4. Now(f)' # None
    BY <1>1, <2>1, <2>2, <2>3, NoneAssumption DEF Triple
  <2> QED
    BY <1>3, <2>4
<1>4. CASE id # None
  <2>1. id.fresh[1] = snapshot' /\ id.fresh[3] = readiness'
    BY <1>1, <1>2
  <2>2. snapshot \in Nat /\ readiness \in Nat /\ snapshot' \in Nat /\ readiness' \in Nat
    BY DEF PullInv, LoopOK
  <2> QED
    BY <1>4, <2>1, <2>2 DEF OfPast
<1> QED
  BY <1>3, <1>4

------------------------------------------------------------------------------
(* Steps that leave the revisions and the results of Qihe alone.           *)

StandStill == UNCHANGED <<scope, text, config, snapshot, readiness, qihe>>

LEMMA Still ==
  ASSUME StandStill, NEW f \in Files
  PROVE  /\ Fresh' = Fresh /\ Now(f)' = Now(f) /\ Own(f)' = Own(f)
         /\ \A items : IsTrue(f, items)' <=> IsTrue(f, items)
         /\ \A id : OfPast(f, id)' <=> OfPast(f, id)
<1>1. Fresh' = Fresh
  BY DEF StandStill, Fresh
<1>2. Owner(f)' = Owner(f)
  BY DEF StandStill, Owner
<1>3. Own(f)' = Own(f)
  BY <1>2 DEF StandStill, Own
<1>4. Now(f)' = Now(f)
  BY <1>1, <1>2 DEF StandStill, Now, ResultId
<1>5. \A items : IsTrue(f, items)' <=> IsTrue(f, items)
  BY <1>1, <1>3 DEF StandStill, IsTrue, External
<1>6. \A id : OfPast(f, id)' <=> OfPast(f, id)
  BY DEF StandStill, OfPast
<1> QED
  BY <1>1, <1>3, <1>4, <1>5, <1>6

\* A pull that is not touched, while no edit ends.
LEMMA PullKept ==
  ASSUME PullInv, StandStill, Idle' => Idle, NEW f \in Files, pull'[f] = pull[f]
  PROVE  PullOK(f)'
<1>1. PullOK(f)
  BY DEF PullInv
<1>2. PullShape(f)' /\ SnapshotHeld(f)' /\ DocumentRead(f)'
  BY <1>1 DEF PullOK, PullShape, SnapshotHeld, DocumentRead, StandStill, Reads
<1>3. OfPast(f, pull[f].id)'
  BY <1>1, Still DEF PullOK
<1>4. WorkspaceRead(f)'
  BY <1>1, Still DEF PullOK, WorkspaceRead, StandStill
<1>5. AnswerTrue(f)'
  BY <1>1, Still DEF PullOK, AnswerTrue
<1> QED
  BY <1>2, <1>3, <1>4, <1>5 DEF PullOK

\* What the client shows stays true.
LEMMA ShownKept ==
  ASSUME PullInv, StandStill, NEW f \in Files, shown'[f] = shown[f]
  PROVE  ShownOK(f)'
BY Still DEF PullInv, ShownOK

LEMMA QiheKept ==
  ASSUME PullInv, UNCHANGED <<scope, qihe>>, NEW f \in Files
  PROVE  QiheOK(f)'
BY DEF PullInv, QiheOK

\* No pull at all.
LEMMA NoPullOK ==
  ASSUME NEW f \in Files, pull'[f] = NoPull
  PROVE  PullOK(f)'
<1>1. None \in Id
  BY DEF Id
<1>2. /\ pull'[f].at = None /\ pull'[f].prev = None /\ pull'[f].id = None
      /\ pull'[f].fresh = <<>> /\ pull'[f].items = {}
  BY DEF NoPull
<1>3. PullShape(f)'
  BY <1>1, <1>2 DEF PullShape, NoPull
<1>4. pull'[f].at \notin {"id", "own", "items", "answered"}
  BY <1>2, NoneAssumption
<1>5. SnapshotHeld(f)' /\ DocumentRead(f)' /\ WorkspaceRead(f)' /\ AnswerTrue(f)'
  BY <1>4 DEF SnapshotHeld, Reads, DocumentRead, WorkspaceRead, AnswerTrue
<1> QED
  BY <1>2, <1>3, <1>5 DEF PullOK, OfPast

------------------------------------------------------------------------------
(* Steps that begin a new revision.                                        *)

LEMMA RevisionOK ==
  ASSUME PullInv, LoopOK', UNCHANGED <<scope, qihe, pull, shown>>,
         snapshot' >= snapshot, readiness' >= readiness,
         snapshot' > snapshot \/ readiness' > readiness,
         NEW f \in Files,
         Reads(f) => UNCHANGED <<text, config, snapshot, phase>>
  PROVE  PullOK(f)' /\ ShownOK(f)' /\ QiheOK(f)'
<1>1. PullOK(f) /\ ShownOK(f) /\ QiheOK(f)'
  BY QiheKept DEF PullInv
<1>2. snapshot \in Nat /\ readiness \in Nat /\ snapshot' \in Nat /\ readiness' \in Nat
  BY DEF PullInv, LoopOK
<1>3. ASSUME NEW id \in Id, OfPast(f, id)
      PROVE  OfPast(f, id)' /\ id # Now(f)'
  <2>1. id # Now(f)'
    BY <1>1, <1>3, Renewed
  <2>2. CASE id = None
    BY <2>1, <2>2 DEF OfPast
  <2>3. CASE id # None
    <3>1. id \in Ids
      BY <2>3 DEF Id, Ids, Triple
    <3>2. id.fresh[1] \in Nat /\ id.fresh[3] \in Nat
      BY <3>1 DEF Ids, Triple
    <3> QED
      BY <1>2, <1>3, <2>1, <2>3, <3>2 DEF OfPast
  <2> QED
    BY <2>2, <2>3
<1>4. PullShape(f)' /\ DocumentRead(f)'
  BY <1>1 DEF PullOK, PullShape, DocumentRead
<1>5. SnapshotHeld(f)'
  BY <1>1, <1>2 DEF PullOK, SnapshotHeld, Reads, Triple
<1>6. OfPast(f, pull[f].id)' /\ AnswerTrue(f)'
  BY <1>1, <1>3 DEF PullOK, PullShape, AnswerTrue
<1>7. WorkspaceRead(f)'
  <2>1. Reads(f) => Own(f)' = Own(f) /\ (Idle' <=> Idle)
    BY DEF Own, Owner, Idle
  <2> QED
    BY <1>1, <2>1 DEF PullOK, WorkspaceRead, Reads
<1>8. ShownOK(f)'
  BY <1>1, <1>3 DEF ShownOK
<1> QED
  BY <1>1, <1>4, <1>5, <1>6, <1>7, <1>8 DEF PullOK

------------------------------------------------------------------------------
(* The steps of the loop and of the client keep the loop's part.           *)

LEMMA InitLoop ==
  ASSUME Init
  PROVE  LoopOK
<1>1. (CHOOSE t \in Texts : TRUE) \in Texts
  BY DataAssumption
<1> QED
  BY <1>1, ScopeAssumption DEF Init, LoopOK, PhaseOK, SemOK

LEMMA InitInv == Init => PullInv
<1> SUFFICES ASSUME Init
             PROVE  PullInv
  OBVIOUS
<1>1. LoopOK
  BY InitLoop
<1> SUFFICES ASSUME NEW f \in Files
             PROVE  PullOK(f) /\ ShownOK(f) /\ QiheOK(f)
  BY <1>1 DEF PullInv
<1>2. pull[f] = NoPull /\ qihe[f] = [problems |-> {}, fresh |-> <<>>, generation |-> 0]
      /\ shown[f] = [id |-> Now(f), items |-> Own(f)]
  BY DEF Init, Now
<1>3. QiheOK(f)
  BY <1>2 DEF QiheOK
<1>4. PullOK(f)
  <2>1. None \in Id
    BY DEF Id
  <2>2. /\ pull[f].at = None /\ pull[f].prev = None /\ pull[f].id = None
        /\ pull[f].fresh = <<>> /\ pull[f].items = {}
    BY <1>2 DEF NoPull
  <2>3. PullShape(f)
    BY <1>2, <2>1, <2>2 DEF PullShape, NoPull
  <2>4. pull[f].at \notin {"id", "own", "items", "answered"}
    BY <2>2, NoneAssumption
  <2>5. SnapshotHeld(f) /\ DocumentRead(f) /\ WorkspaceRead(f) /\ AnswerTrue(f)
    BY <2>4 DEF SnapshotHeld, Reads, DocumentRead, WorkspaceRead, AnswerTrue
  <2> QED
    BY <2>2, <2>3, <2>5 DEF PullOK, OfPast
<1>5. ShownOK(f)
  <2>1. Fresh = <<0, 0, 0>>
    BY DEF Init, Fresh
  <2>2. Now(f) = [fresh |-> Fresh, owner |-> Owner(f), generation |-> 0]
    BY <1>2 DEF Now, ResultId
  <2>3. Owner(f) \in SUBSET Files
    BY DataAssumption DEF Owner
  <2>4. Now(f) \in Id
    BY <2>1, <2>2, <2>3 DEF Id
  <2>5. OfPast(f, Now(f))
    BY <1>2, <2>1, <2>2 DEF OfPast, Init
  <2>6. IsTrue(f, Own(f))
    BY <1>2 DEF IsTrue, External
  <2> QED
    BY <1>2, <2>4, <2>5, <2>6 DEF ShownOK
<1> QED
  BY <1>3, <1>4, <1>5

LEMMA ScheduleOK ==
  ASSUME LoopOK, NEW files, Invalidate(files)
  PROVE  SemOK' /\ semPending' \in BOOLEAN /\ ask' \subseteq Files
<1>1. sem' = sem \/ SemOK'
  BY DEF Invalidate, Schedule, semVars, SemOK
<1>2. SemOK'
  BY <1>1 DEF LoopOK, SemOK
<1>3. semPending' \in BOOLEAN
  BY DEF Invalidate, Schedule, semVars, LoopOK
<1>4. ask' \subseteq Files
  BY DEF Invalidate, Refresh, LoopOK
<1> QED
  BY <1>2, <1>3, <1>4

\* The steps of the client and of the handlers.
Client(f) == Ask(f) \/ Receive(f) \/ Interrupt(f) \/ Work(f)

LEMMA ClientLoop ==
  ASSUME LoopOK, NEW f \in Files, Client(f) \/ ReadOwn \/ ReadNoFile
  PROVE  /\ LoopOK' /\ StandStill /\ UNCHANGED phase
         /\ Receive(f) \/ UNCHANGED shown
<1>1. UNCHANGED <<scope, docVars, readiness, target, ready, phase, qihe, semVars>>
  BY DEF Client, Ask, Receive, Interrupt, Work, ReadDocumentId, ReadDocumentItems,
         ReadExternal, ReadWorkspaceId, Handler, ReadOwn, ReadNoFile
<1>2. ask' \subseteq Files
  BY DEF Client, Ask, Receive, Interrupt, Work, ReadDocumentId, ReadDocumentItems,
         ReadExternal, ReadWorkspaceId, Handler, ReadOwn, ReadNoFile, LoopOK, Asked
<1>3. pull' = [g \in Files |-> pull'[g]]
  BY DEF Client, Ask, Receive, Interrupt, Work, ReadDocumentId, ReadDocumentItems,
         ReadExternal, ReadWorkspaceId, Handler, ReadOwn, ReadNoFile, LoopOK
<1>4. /\ Receive(f) \/ UNCHANGED shown
      /\ shown' = [g \in Files |-> shown'[g]]
  BY DEF Client, Ask, Receive, Interrupt, Work, ReadDocumentId, ReadDocumentItems,
         ReadExternal, ReadWorkspaceId, Handler, ReadOwn, ReadNoFile, LoopOK
<1>5. StandStill /\ UNCHANGED phase
  BY <1>1 DEF StandStill, docVars
<1>6. PhaseOK' /\ SemOK'
  BY <1>1 DEF LoopOK, PhaseOK, SemOK, semVars
<1> QED
  BY <1>1, <1>2, <1>3, <1>4, <1>5, <1>6 DEF LoopOK, docVars, semVars

LEMMA LoopLoop ==
  ASSUME LoopOK, Loop \/ RunSemantic
  PROVE  LoopOK'
<1>1. CASE \E f \in Files, t \in Texts : Edit(f, t)
  BY <1>1 DEF LoopOK, PhaseOK, SemOK, Edit, docVars, semVars
<1>2. CASE Configure
  BY <1>2 DEF LoopOK, PhaseOK, SemOK, Configure, docVars, semVars
<1>3. CASE RequestReload
  <2>1. /\ ready' \in BOOLEAN /\ readiness' = readiness + 1
        /\ UNCHANGED <<scope, docVars, target, phase, qihe, semVars, ask, pull, shown>>
    BY <1>3 DEF RequestReload
  <2> QED
    BY <2>1 DEF LoopOK, PhaseOK, SemOK, docVars, semVars
<1>4. CASE ChangeTargets
  BY <1>4 DEF LoopOK, PhaseOK, SemOK, ChangeTargets, Refresh, docVars, semVars
<1>5. CASE CommitQihe
  <2>1. UNCHANGED <<scope, docVars, readiness, target, ready, phase, semVars, pull, shown>>
    BY <1>5 DEF CommitQihe
  <2>2. ask' \subseteq Files
    BY <1>5 DEF CommitQihe, Refresh, LoopOK
  <2>3. qihe' = [f \in Files |-> qihe'[f]]
    BY <1>5 DEF CommitQihe
  <2>4. PhaseOK' /\ SemOK'
    BY <2>1 DEF LoopOK, PhaseOK, SemOK, semVars
  <2> QED
    BY <2>1, <2>2, <2>3, <2>4 DEF LoopOK, docVars, semVars
<1>6. CASE Switch
  BY <1>6 DEF LoopOK, PhaseOK, SemOK, Switch, docVars, semVars
<1>7. CASE FinishWrite
  <2>1. SemOK' /\ semPending' \in BOOLEAN /\ ask' \subseteq Files
    BY <1>7, ScheduleOK DEF FinishWrite
  <2>2. /\ phase' = None /\ snapshot' = snapshot + 1
        /\ UNCHANGED <<scope, readiness, target, qihe, pull, shown>>
    BY <1>7 DEF FinishWrite
  <2>3. text' \in [Files -> Texts] /\ config' \in Nat /\ ready' \in BOOLEAN
    <3>1. CASE phase.kind # "edit"
      BY <1>7, <3>1 DEF FinishWrite, LoopOK
    <3>2. CASE phase.kind = "edit"
      BY <1>7, <3>2 DEF FinishWrite, LoopOK, PhaseOK, Idle
    <3> QED
      BY <3>1, <3>2
  <2> QED
    BY <2>1, <2>2, <2>3 DEF LoopOK, PhaseOK
<1>8. CASE HandleSemantic
  <2>1. SemOK' /\ ask' \subseteq Files /\ semPending' \in BOOLEAN
    BY <1>8 DEF HandleSemantic, SemOK, Refresh, LoopOK
  <2> QED
    BY <1>8, <2>1 DEF LoopOK, PhaseOK, HandleSemantic, docVars
<1>9. CASE RunSemantic
  <2>1. SemOK'
    BY <1>9 DEF RunSemantic, LoopOK, SemOK
  <2> QED
    BY <1>9, <2>1 DEF LoopOK, PhaseOK, RunSemantic, docVars
<1> QED
  BY <1>1, <1>2, <1>3, <1>4, <1>5, <1>6, <1>7, <1>8, <1>9 DEF Loop

------------------------------------------------------------------------------
(* The pulls, one handler's step at a time.                                *)

LEMMA ReceiveOK ==
  ASSUME PullInv, StandStill, UNCHANGED phase, NEW h \in Files, Receive(h), NEW f \in Files
  PROVE  PullOK(f)' /\ ShownOK(f)'
<1>1. PullOK(f) /\ ShownOK(f) /\ Idle
  BY DEF PullInv, Receive
<1>2. CASE f \in Asked(h)
  <2>1. /\ pull'[f] = NoPull /\ pull[f].at = "answered"
        /\ shown'[f] = Report(pull[f], shown[f])
    BY <1>2 DEF Receive
  <2>2. CASE pull[f].id # None /\ pull[f].id = pull[f].prev
    BY <2>1, <2>2, NoPullOK, ShownKept DEF Report
  <2>3. CASE ~(pull[f].id # None /\ pull[f].id = pull[f].prev)
    <3>1. shown'[f].id = pull[f].id /\ shown'[f].items = pull[f].items
      BY <2>1, <2>3 DEF Report
    <3>2. /\ pull[f].id \in Id /\ OfPast(f, pull[f].id)
          /\ pull[f].id = Now(f) => IsTrue(f, pull[f].items)
      BY <1>1, <2>1 DEF PullOK, PullShape, AnswerTrue
    <3>3. ShownOK(f)'
      BY <3>1, <3>2, Still DEF ShownOK
    <3> QED
      BY <2>1, <3>3, NoPullOK
  <2> QED
    BY <2>2, <2>3
<1>3. CASE f \notin Asked(h)
  <2>1. pull'[f] = pull[f] /\ shown'[f] = shown[f]
    BY <1>3 DEF Receive
  <2>2. Idle' => Idle
    BY <1>1
  <2> QED
    BY <2>1, <2>2, PullKept, ShownKept
<1> QED
  BY <1>2, <1>3

LEMMA AskOK ==
  ASSUME PullInv, StandStill, UNCHANGED phase, NEW h \in Files, Ask(h), NEW f \in Files
  PROVE  PullOK(f)'
<1>1. CASE f \notin Asked(h)
  BY <1>1, NoPullOK DEF Ask
<1>2. CASE f \in Asked(h)
  <2> DEFINE at == IF scope = "document" THEN "id" ELSE "own"
  <2>1. pull'[f] = [at |-> at, prev |-> shown[f].id, fresh |-> Fresh, items |-> {}, id |-> None]
    BY <1>2 DEF Ask, NoPull
  <2>2. /\ pull'[f].at = at /\ pull'[f].prev = shown[f].id /\ pull'[f].fresh = Fresh
        /\ pull'[f].id = None
    BY <2>1
  <2>3. LoopOK /\ shown[f].id \in Id /\ None \in Id
    BY DEF PullInv, ShownOK, Id
  <2>4. PullShape(f)'
    BY <2>1, <2>2, <2>3 DEF PullShape
  <2>5. SnapshotHeld(f)'
    BY <2>2, <2>3, FreshType DEF SnapshotHeld, StandStill, LoopOK
  <2>6. scope' = "document" => at = "id"
    BY DEF StandStill
  <2>7. scope' = "workspace" => at = "own"
    BY DEF StandStill
  <2>8. DocumentRead(f)' /\ WorkspaceRead(f)' /\ AnswerTrue(f)'
    BY <2>2, <2>6, <2>7 DEF DocumentRead, WorkspaceRead, AnswerTrue
  <2> QED
    BY <2>2, <2>4, <2>5, <2>8 DEF PullOK, OfPast
<1> QED
  BY <1>1, <1>2

\* What a handler may find: the id of its snapshot.
LEMMA SnapshotId ==
  ASSUME PullInv, NEW f \in Files, Reads(f)
  PROVE  LET r == ResultId(f, pull[f].fresh)
         IN  r \in Id /\ r # None /\ r.fresh = pull[f].fresh /\ OfPast(f, r)
<1>1. /\ pull[f].fresh \in Triple /\ pull[f].fresh[1] = snapshot
      /\ pull[f].fresh[3] <= readiness /\ snapshot \in Nat
  BY DEF PullInv, PullOK, SnapshotHeld, LoopOK
<1>2. pull[f].fresh[1] <= snapshot
  BY <1>1
<1> QED
  BY <1>1, <1>2, IdOf

\* The step of a handler gives its pull a new place, items or id.
LEMMA HandlerOK ==
  ASSUME PullInv, StandStill, UNCHANGED phase, NEW f \in Files, Reads(f),
         NEW at \in {"id", "own", "items", "answered"}, NEW items, NEW id \in Id,
         pull'[f] = [pull[f] EXCEPT !.at = at, !.items = items, !.id = id],
         OfPast(f, id),
         scope = "document" => /\ at = "id" => id = None
                               /\ at = "items" /\ id # None => id.fresh = pull[f].fresh,
         scope = "workspace" => /\ at = "own" => id = None
                                /\ at \in {"items", "id"} /\ Idle => items = Own(f),
         at = "answered" /\ Idle /\ id = Now(f) => IsTrue(f, items)
  PROVE  PullOK(f)'
<1>1. PullOK(f)
  BY DEF PullInv
<1>2. pull'[f] = [at |-> at, prev |-> pull[f].prev, fresh |-> pull[f].fresh,
                  items |-> items, id |-> id]
  BY <1>1 DEF PullOK, PullShape
<1>3. /\ pull'[f].at = at /\ pull'[f].prev = pull[f].prev /\ pull'[f].fresh = pull[f].fresh
      /\ pull'[f].items = items /\ pull'[f].id = id
  BY <1>2
<1>4. PullShape(f)'
  BY <1>1, <1>2, <1>3 DEF PullOK, PullShape
<1>5. SnapshotHeld(f)'
  BY <1>1, <1>3 DEF PullOK, SnapshotHeld, StandStill
<1>6. OfPast(f, pull[f].id)'
  BY <1>3, Still
<1>7. DocumentRead(f)'
  BY <1>3 DEF DocumentRead, StandStill
<1>8. WorkspaceRead(f)'
  BY <1>3, Still DEF WorkspaceRead, StandStill, Idle
<1>9. AnswerTrue(f)'
  BY <1>3, Still DEF AnswerTrue, Idle
<1> QED
  BY <1>4, <1>5, <1>6, <1>7, <1>8, <1>9 DEF PullOK

\* The handlers of a document pull.
LEMMA DocumentOK ==
  ASSUME PullInv, StandStill, UNCHANGED phase, NEW f \in Files,
         ReadDocumentId(f) \/ ReadDocumentItems(f)
  PROVE  PullOK(f)'
<1> DEFINE p == pull[f]
           r == ResultId(f, p.fresh)
<1>1. PullOK(f) /\ LoopOK /\ Reads(f) /\ scope = "document" /\ scope # "workspace"
  BY DEF PullInv, ReadDocumentId, ReadDocumentItems, Reads
<1>2. /\ p.id \in Id /\ OfPast(f, p.id)
      /\ p = [at |-> p.at, prev |-> p.prev, fresh |-> p.fresh, items |-> p.items, id |-> p.id]
  BY <1>1 DEF PullOK, PullShape
<1>3. /\ r \in Id /\ OfPast(f, r) /\ r # None /\ r.fresh = p.fresh
  BY <1>1, SnapshotId
<1>4. pull' = [pull EXCEPT ![f] = pull'[f]] /\ f \in DOMAIN pull
  BY <1>1 DEF LoopOK, ReadDocumentId, ReadDocumentItems, Handler
<1> HIDE DEF r
<1>5. CASE ReadDocumentId(f)
  <2>1. CASE pull'[f] = [p EXCEPT !.at = "items", !.id = r]
    <3>1. pull'[f] = [p EXCEPT !.at = "items", !.items = p.items, !.id = r]
      BY <1>2, <2>1
    <3> QED
      BY <1>1, <1>3, <3>1, HandlerOK
  <2>2. CASE pull'[f] = [p EXCEPT !.at = "items"] /\ ~Idle
    <3>1. pull'[f] = [p EXCEPT !.at = "items", !.items = p.items, !.id = p.id]
      BY <1>2, <2>2
    <3>2. p.id = None
      BY <1>1, <1>5 DEF ReadDocumentId, PullOK, DocumentRead
    <3> QED
      BY <1>1, <1>2, <3>1, <3>2, HandlerOK
  <2> QED
    BY <1>4, <1>5, <2>1, <2>2 DEF ReadDocumentId, Handler, Absent, r
<1>6. CASE ReadDocumentItems(f)
  <2>1. p.at = "items"
    BY <1>6 DEF ReadDocumentItems
  <2>2. CASE pull'[f] = [p EXCEPT !.at = "answered", !.items = Own(f) \cup External(f, p.fresh)]
    <3> DEFINE items == Own(f) \cup External(f, p.fresh)
    <3>1. pull'[f] = [p EXCEPT !.at = "answered", !.items = items, !.id = p.id]
      BY <1>2, <2>2
    <3>2. ASSUME p.id = Now(f)
          PROVE  IsTrue(f, items)
      <4>1. Now(f) # None /\ Now(f).fresh = Fresh
        BY <1>1, IdOf, FreshType DEF Now, LoopOK
      <4>2. p.fresh = Fresh
        BY <1>1, <2>1, <3>2, <4>1 DEF PullOK, DocumentRead
      <4> QED
        BY <4>2 DEF IsTrue
    <3> HIDE DEF items
    <3> QED
      BY <1>1, <1>2, <3>1, <3>2, HandlerOK
  <2>3. CASE pull'[f] = [p EXCEPT !.at = "answered"] /\ ~Idle
    <3>1. pull'[f] = [p EXCEPT !.at = "answered", !.items = p.items, !.id = p.id]
      BY <1>2, <2>3
    <3> QED
      BY <1>1, <1>2, <2>3, <3>1, HandlerOK
  <2> QED
    BY <1>4, <1>6, <2>2, <2>3 DEF ReadDocumentItems, Handler, Absent
<1> QED
  BY <1>5, <1>6

\* The handlers of a workspace pull: a step of one file, or of all.
LEMMA WorkspaceOK ==
  ASSUME PullInv, StandStill, UNCHANGED phase, NEW f \in Files,
         ReadExternal(f) \/ ReadWorkspaceId(f) \/ ReadOwn \/ ReadNoFile
  PROVE  PullOK(f)'
<1> DEFINE p == pull[f]
           r == ResultId(f, p.fresh)
<1>1. PullOK(f) /\ LoopOK /\ Reads(f) /\ scope = "workspace" /\ scope # "document"
  BY DEF PullInv, ReadExternal, ReadWorkspaceId, ReadOwn, ReadNoFile, Reads
<1>2. /\ p.id \in Id /\ OfPast(f, p.id)
      /\ p = [at |-> p.at, prev |-> p.prev, fresh |-> p.fresh, items |-> p.items, id |-> p.id]
  BY <1>1 DEF PullOK, PullShape
<1>3. /\ r \in Id /\ OfPast(f, r) /\ r # None /\ r.fresh = p.fresh
  BY <1>1, SnapshotId
<1>4. \A fresh : External(f, fresh) = {}
  BY <1>1 DEF PullInv, QiheOK, External
<1>5. IsTrue(f, Own(f))
  BY <1>4 DEF IsTrue
<1>6. Now(f) # None
  BY <1>1, IdOf, FreshType DEF Now, LoopOK
<1>7. p.at = "own" => p.id = None
  BY <1>1 DEF PullOK, WorkspaceRead
<1>8. p.at \in {"items", "id"} /\ Idle => p.items = Own(f)
  BY <1>1 DEF PullOK, WorkspaceRead
<1>9. f \in DOMAIN pull
  BY <1>1 DEF LoopOK
<1> HIDE DEF r
<1>10. CASE ReadExternal(f)
  <2>1. /\ p.at = "items"
        /\ pull'[f] = [p EXCEPT !.at = "id", !.items = p.items \cup External(f, p.fresh)]
    BY <1>9, <1>10 DEF ReadExternal, Handler
  <2>2. pull'[f] = [p EXCEPT !.at = "id", !.items = p.items, !.id = p.id]
    BY <1>2, <1>4, <2>1
  <2> QED
    BY <1>1, <1>2, <1>8, <2>1, <2>2, HandlerOK
<1>11. CASE ReadWorkspaceId(f)
  <2>1. p.at = "id"
    BY <1>11 DEF ReadWorkspaceId
  <2>2. CASE pull'[f] = [p EXCEPT !.at = "answered", !.id = r]
    <3>1. pull'[f] = [p EXCEPT !.at = "answered", !.items = p.items, !.id = r]
      BY <1>2, <2>2
    <3> QED
      BY <1>1, <1>3, <1>5, <1>8, <2>1, <3>1, HandlerOK
  <2>3. CASE pull'[f] = [p EXCEPT !.at = "answered"] /\ ~Idle
    <3>1. pull'[f] = [p EXCEPT !.at = "answered", !.items = p.items, !.id = p.id]
      BY <1>2, <2>3
    <3> QED
      BY <1>1, <1>2, <2>3, <3>1, HandlerOK
  <2> QED
    BY <1>9, <1>11, <2>2, <2>3 DEF ReadWorkspaceId, Handler, Absent, r
<1>12. CASE ReadOwn
  <2>1. p.at = "own"
    BY <1>12 DEF ReadOwn
  <2>2. CASE pull'[f] = [p EXCEPT !.at = "items", !.items = Own(f)]
    <3>1. pull'[f] = [p EXCEPT !.at = "items", !.items = Own(f), !.id = p.id]
      BY <1>2, <2>2
    <3> QED
      BY <1>1, <1>2, <3>1, HandlerOK
  <2>3. CASE pull'[f] = [p EXCEPT !.at = "items", !.items = {}] /\ ~Idle
    <3>1. pull'[f] = [p EXCEPT !.at = "items", !.items = {}, !.id = p.id]
      BY <1>2, <2>3
    <3> QED
      BY <1>1, <1>2, <2>3, <3>1, HandlerOK
  <2> QED
    BY <1>2, <1>12, <2>2, <2>3 DEF ReadOwn, Absent
<1>13. CASE ReadNoFile
  <2>1. p.at = "own" /\ ~Idle
    BY <1>13 DEF ReadNoFile, Absent
  <2> DEFINE items == IF p.prev = None THEN shown[f].items ELSE {}
  <2>2. pull'[f] = [p EXCEPT !.at = "answered", !.items = items]
    BY <1>13 DEF ReadNoFile
  <2> HIDE DEF items
  <2>3. pull'[f] = [p EXCEPT !.at = "answered", !.items = items, !.id = p.id]
    BY <1>2, <2>2
  <2> QED
    BY <1>1, <1>2, <2>1, <2>3, HandlerOK
<1> QED
  BY <1>10, <1>11, <1>12, <1>13

------------------------------------------------------------------------------
(* The step of Qihe.                                                       *)

LEMMA CommitOK ==
  ASSUME "workspace" \notin QiheScopes, PullInv, LoopOK', CommitQihe, NEW f \in Files
  PROVE  PullOK(f)' /\ ShownOK(f)' /\ QiheOK(f)'
<1>1. PullOK(f) /\ ShownOK(f) /\ QiheOK(f) /\ LoopOK
  BY DEF PullInv
<1>2. /\ UNCHANGED <<scope, text, config, snapshot, readiness, phase, pull, shown>>
      /\ scope # "workspace" /\ Idle /\ Idle'
  BY DEF CommitQihe, docVars, Idle
<1>3. Fresh' = Fresh /\ Own(f)' = Own(f) /\ Owner(f)' = Owner(f)
  BY <1>2 DEF Fresh, Own, Owner
<1>4. \/ qihe'[f] = qihe[f]
      \/ qihe'[f].fresh = Fresh /\ qihe'[f].generation = qihe[f].generation + 1
  BY DEF CommitQihe
<1>5. qihe'[f].generation \in Nat /\ qihe'[f].generation >= qihe[f].generation
  BY <1>1, <1>4 DEF QiheOK
<1>6. QiheOK(f)'
  BY <1>2, <1>5 DEF QiheOK
<1>7. ASSUME NEW id \in Id, OfPast(f, id)
      PROVE  /\ OfPast(f, id)'
             /\ id = Now(f)' => id = Now(f) /\ qihe'[f] = qihe[f]
  <2>1. OfPast(f, id)'
    <3>1. CASE id = None
      BY <3>1 DEF OfPast
    <3>2. CASE id # None
      <4>1. id.generation \in Nat
        BY <3>2 DEF Id
      <4> QED
        BY <1>1, <1>2, <1>5, <1>7, <3>2, <4>1 DEF OfPast, QiheOK
    <3> QED
      BY <3>1, <3>2
  <2>2. CASE qihe'[f] = qihe[f]
    <3>1. Now(f)' = Now(f)
      BY <1>3, <2>2 DEF Now, ResultId
    <3> QED
      BY <2>1, <2>2, <3>1
  <2>3. CASE qihe'[f].fresh = Fresh /\ qihe'[f].generation = qihe[f].generation + 1
    <3>1. Now(f)' = [fresh |-> Fresh, owner |-> Owner(f), generation |-> qihe[f].generation + 1]
      BY <1>3, <2>3 DEF Now, ResultId
    <3>2. Now(f)' \in Ids /\ Now(f)' # None
      <4>1. Owner(f) \in SUBSET Files
        BY DataAssumption DEF Owner
      <4>2. Now(f)' \in Ids
        BY <1>1, <3>1, <4>1, FreshType DEF Ids, QiheOK
      <4> QED
        BY <4>2, NoneAssumption DEF Ids, Triple
    <3>3. Now(f)'.generation = qihe[f].generation + 1
      BY <3>1
    <3>4. id # Now(f)'
      BY <1>1, <1>7, <3>2, <3>3 DEF OfPast, QiheOK
    <3> QED
      BY <2>1, <3>4
  <2> QED
    BY <1>4, <2>2, <2>3
<1>8. ASSUME qihe'[f] = qihe[f], NEW items, IsTrue(f, items)
      PROVE  IsTrue(f, items)'
  BY <1>3, <1>8 DEF IsTrue, External
<1>9. PullShape(f)' /\ SnapshotHeld(f)' /\ DocumentRead(f)' /\ WorkspaceRead(f)'
  BY <1>1, <1>2 DEF PullOK, PullShape, SnapshotHeld, Reads, DocumentRead, WorkspaceRead
<1>10. OfPast(f, pull[f].id)' /\ AnswerTrue(f)'
  BY <1>1, <1>2, <1>7, <1>8 DEF PullOK, PullShape, AnswerTrue
<1>11. ShownOK(f)'
  BY <1>1, <1>2, <1>7, <1>8 DEF ShownOK
<1> QED
  BY <1>6, <1>9, <1>10, <1>11 DEF PullOK

------------------------------------------------------------------------------
(* All steps.                                                              *)

LEMMA StepInv ==
  ASSUME "workspace" \notin QiheScopes, PullInv, Next
  PROVE  PullInv'
<1>1. LoopOK
  BY DEF PullInv
<1>2. ASSUME NEW h \in Files, Client(h) \/ ReadOwn \/ ReadNoFile
      PROVE  PullInv'
  <2>1. LoopOK' /\ StandStill /\ UNCHANGED phase /\ (Receive(h) \/ UNCHANGED shown)
    BY <1>1, <1>2, ClientLoop
  <2>2. Idle' => Idle
    BY <2>1 DEF Idle
  <2> SUFFICES ASSUME NEW f \in Files
               PROVE  PullOK(f)' /\ ShownOK(f)' /\ QiheOK(f)'
    BY <2>1 DEF PullInv
  <2>3. QiheOK(f)'
    BY <2>1, QiheKept DEF StandStill
  <2>4. CASE Receive(h)
    BY <2>1, <2>3, <2>4, ReceiveOK
  <2>5. CASE UNCHANGED shown /\ ~Receive(h)
    <3>1. ShownOK(f)'
      BY <2>1, <2>5, ShownKept
    <3>2. PullOK(f)'
      <4>1. CASE Ask(h)
        BY <2>1, <4>1, AskOK
      <4>2. CASE Interrupt(h)
        BY <4>2, NoPullOK DEF Interrupt
      <4>3. CASE Work(h) /\ f = h
        BY <2>1, <4>3, DocumentOK, WorkspaceOK DEF Work
      <4>4. CASE Work(h) /\ f # h
        <5>1. pull'[f] = pull[f]
          BY <1>1, <4>4 DEF Work, ReadDocumentId, ReadDocumentItems, ReadExternal,
             ReadWorkspaceId, Handler, LoopOK
        <5> QED
          BY <2>1, <2>2, <5>1, PullKept
      <4>5. CASE ReadOwn \/ ReadNoFile
        BY <2>1, <4>5, WorkspaceOK
      <4> QED
        BY <1>2, <2>5, <4>1, <4>2, <4>3, <4>4, <4>5 DEF Client
    <3> QED
      BY <2>3, <3>1, <3>2
  <2> QED
    BY <2>1, <2>4, <2>5
<1>3. CASE FinishWrite \/ RequestReload
  <2>1. LoopOK'
    BY <1>1, <1>3, LoopLoop DEF Loop
  <2>2. snapshot \in Nat /\ readiness \in Nat
    BY <1>1 DEF LoopOK
  <2>3. UNCHANGED <<scope, qihe, pull, shown>>
    BY <1>3 DEF FinishWrite, RequestReload
  <2>4. CASE FinishWrite
    <3>1. snapshot' > snapshot /\ snapshot' >= snapshot /\ readiness' >= readiness
      BY <2>2, <2>4 DEF FinishWrite
    <3>2. \A f \in Files : ~Reads(f)
      BY <2>4 DEF FinishWrite, HasSnapshot, Reads
    <3> QED
      BY <2>1, <2>3, <3>1, <3>2, RevisionOK DEF PullInv
  <2>5. CASE RequestReload
    <3>1. readiness' > readiness /\ snapshot' >= snapshot /\ readiness' >= readiness
      BY <2>2, <2>5 DEF RequestReload, docVars
    <3>2. UNCHANGED <<text, config, snapshot, phase>>
      BY <2>5 DEF RequestReload, docVars
    <3> QED
      BY <2>1, <2>3, <3>1, <3>2, RevisionOK DEF PullInv
  <2> QED
    BY <1>3, <2>4, <2>5
<1>4. CASE CommitQihe
  <2>1. LoopOK'
    BY <1>1, <1>4, LoopLoop DEF Loop
  <2> QED
    BY <1>4, <2>1, CommitOK DEF PullInv
<1>5. CASE \/ \E f \in Files, t \in Texts : Edit(f, t)
           \/ Configure \/ Switch \/ ChangeTargets \/ HandleSemantic \/ RunSemantic
  <2>1. LoopOK'
    BY <1>1, <1>5, LoopLoop DEF Loop
  <2>2. StandStill /\ UNCHANGED <<pull, shown>> /\ (Idle' => Idle)
    BY <1>5 DEF Edit, Configure, Switch, ChangeTargets, HandleSemantic, RunSemantic, Move,
       StandStill, docVars, Idle
  <2>3. ASSUME NEW f \in Files
        PROVE  PullOK(f)' /\ ShownOK(f)' /\ QiheOK(f)'
    BY <2>2, PullKept, ShownKept, QiheKept DEF StandStill
  <2> QED
    BY <2>1, <2>3 DEF PullInv
<1>6. CASE ReadOwn \/ ReadNoFile
  <2>1. CASE Files = {}
    <3>1. LoopOK'
      BY <1>1, <1>6 DEF LoopOK, PhaseOK, SemOK, ReadOwn, ReadNoFile, docVars, semVars
    <3> QED
      BY <2>1, <3>1 DEF PullInv
  <2> QED
    BY <1>2, <1>6, <2>1
<1> QED
  BY <1>2, <1>3, <1>4, <1>5, <1>6 DEF Next, Loop, Client

LEMMA StutterInv ==
  ASSUME PullInv, UNCHANGED vars
  PROVE  PullInv'
<1>1. LoopOK'
  BY DEF PullInv, LoopOK, PhaseOK, SemOK, vars, docVars, semVars
<1>2. StandStill /\ UNCHANGED <<pull, shown>> /\ (Idle' => Idle)
  BY DEF vars, docVars, StandStill, Idle
<1>3. ASSUME NEW f \in Files
      PROVE  PullOK(f)' /\ ShownOK(f)' /\ QiheOK(f)'
  BY <1>2, PullKept, ShownKept, QiheKept DEF StandStill
<1> QED
  BY <1>1, <1>3 DEF PullInv

\* The inductive invariant: what the steps of a handler, the answers on their way and
\* the client's ids have to do with the revisions of the analysis.
THEOREM PullInvHolds ==
  ASSUME "workspace" \notin QiheScopes
  PROVE  Spec => []PullInv
<1>1. PullInv /\ [Next]_vars => PullInv'
  BY StepInv, StutterInv
<1> QED
  BY <1>1, InitInv, PTL DEF Spec

\* The variables keep their types, and a handler that reads has the snapshot of the
\* analysis as it is: apply_change waits for it.
THEOREM TypeOKHolds ==
  ASSUME "workspace" \notin QiheScopes
  PROVE  Spec => []TypeOK
<1>1. ASSUME PullInv
      PROVE  TypeOK
  <2>1. LoopOK /\ \A f \in Files : PullOK(f) /\ ShownOK(f) /\ QiheOK(f)
    BY <1>1 DEF PullInv
  <2>2. ASSUME NEW f \in Files
        PROVE  /\ pull[f].at \in {None, "id", "own", "items", "answered"}
               /\ pull[f].at \in {"id", "own", "items"} => pull[f].fresh[1] = snapshot
               /\ {pull[f].id, pull[f].prev, shown[f].id} \subseteq Id
               /\ qihe[f].generation \in Nat
    BY <2>1 DEF PullOK, PullShape, SnapshotHeld, Reads, ShownOK, QiheOK
  <2> QED
    BY <2>1, <2>2 DEF TypeOK, LoopOK, SemOK
<1> QED
  BY <1>1, PullInvHolds, PTL

\* "Unchanged" is never a lie, for any files, profiles, texts, numbers of moves and of
\* results of Qihe, where Qihe does not run beside workspace pulls: the id the client
\* will name is the current one only if it shows what a report would say.
THEOREM UnchangedIsTrueHolds ==
  ASSUME "workspace" \notin QiheScopes
  PROVE  Spec => []UnchangedIsTrue
<1>1. PullInv => UnchangedIsTrue
  BY DEF PullInv, ShownOK, UnchangedIsTrue, Now, IsTrue
<1> QED
  BY <1>1, PullInvHolds, PTL
==============================================================================
