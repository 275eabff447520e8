-------------------------- MODULE FileContentsProofs --------------------------
(***************************************************************************)
(* Proofs about FileContents, for every set of files and of contents, and  *)
(* for both kinds of watcher.                                              *)
(*                                                                         *)
(* The change log of the VFS accounts for the difference between the VFS   *)
(* and the analysis: a file without a change has the same text in both, or *)
(* the analysis lacks it, and a change carries the text the VFS has,       *)
(* however many changes were merged into it.  So applying the log leaves   *)
(* no text the VFS has not, and open buffers, which only the editor's      *)
(* notifications write, reach the analysis unharmed.                       *)
(***************************************************************************)
EXTENDS FileContents, TLAPS

LogIsDiff ==
  \A f \in Files : IF changes[f] = None THEN dbText[f] \in {vfs[f], None}
                                        ELSE changes[f].text = vfs[f]

BuffersInVfs == \A f \in Files : memDocs[f] # None => vfs[f] = memDocs[f]

NoChanges == \A f \in Files : changes[f] = None

FilesInv ==
  /\ TypeOK
  /\ LogIsDiff
  /\ BuffersInVfs
  /\ AtRest => NoChanges

LEMMA MergeType ==
  ASSUME NEW prev \in ChangeRec \cup {None}, NEW new \in ChangeRec
  PROVE  Merge(prev, new) \in ChangeRec /\ Merge(prev, new).text = new.text
BY NoneAssumption DEF Merge, ChangeRec

\* Every write to the VFS keeps the log a difference.
LEMMA SetKeepsDiff ==
  ASSUME memDocs \in [Files -> Text], vfs \in [Files -> Text],
         changes \in [Files -> ChangeRec \cup {None}], LogIsDiff,
         NEW f \in Files, NEW text \in Text,
         SetFileContents(f, text), dbText' = dbText
  PROVE  /\ vfs' = [vfs EXCEPT ![f] = text]
         /\ changes' \in [Files -> ChangeRec \cup {None}]
         /\ LogIsDiff'
<1>1. CASE text = vfs[f]
  BY <1>1 DEF SetFileContents, vfsVars, LogIsDiff
<1>2. CASE text # vfs[f]
  <2> DEFINE c == Merge(changes[f], NewChange(vfs[f], text))
  <2>1. NewChange(vfs[f], text) \in ChangeRec /\ NewChange(vfs[f], text).text = text
    BY DEF NewChange, ChangeRec
  <2>2. c \in ChangeRec /\ c.text = text
    BY <2>1, MergeType
  <2>3. vfs' = [vfs EXCEPT ![f] = text] /\ changes' = [changes EXCEPT ![f] = c]
    BY <1>2 DEF SetFileContents
  <2> HIDE DEF c
  <2>4. c # None
    BY <2>2, NoneAssumption
  <2>5. QED
    BY <2>2, <2>3, <2>4 DEF LogIsDiff
<1>3. QED
  BY <1>1, <1>2

\* So does every write on behalf of a client: it also sets the open buffer.
LEMMA HandlerKeepsInv ==
  ASSUME FilesInv, NEW f \in Files, NEW text \in Text, dbText' = dbText,
         DidOpen(f, text) \/ DidChange(f, text) \/ DidClose(f) \/ DidChangeWatchedFile(f)
  PROVE  /\ memDocs' \in [Files -> Text] /\ vfs' \in [Files -> Text]
         /\ changes' \in [Files -> ChangeRec \cup {None}]
         /\ loaderInbox' \in Seq(LoaderMsg)
         /\ LogIsDiff' /\ BuffersInVfs'
<1>1. CASE /\ SetFileContents(f, text)
           /\ memDocs' = [memDocs EXCEPT ![f] = text]
           /\ UNCHANGED loaderInbox
  <2>1. /\ vfs' = [vfs EXCEPT ![f] = text]
        /\ changes' \in [Files -> ChangeRec \cup {None}] /\ LogIsDiff'
    BY <1>1, SetKeepsDiff DEF FilesInv, TypeOK
  <2>2. QED
    BY <1>1, <2>1 DEF FilesInv, TypeOK, BuffersInVfs
<1>2. CASE UNCHANGED <<vfs, changes, memDocs, loaderInbox>>
  BY <1>2 DEF FilesInv, TypeOK, BuffersInVfs, LogIsDiff
<1>3. CASE DidClose(f) \/ DidChangeWatchedFile(f)
  <2> DEFINE msg == [kind |-> "invalidate", file |-> f]
  <2>1. msg \in LoaderMsg
    BY DEF LoaderMsg
  <2>2. /\ loaderInbox' = Append(loaderInbox, msg)
        /\ vfs' = vfs /\ changes' = changes
        /\ memDocs' = memDocs \/ memDocs' = [memDocs EXCEPT ![f] = None]
    BY <1>3 DEF DidClose, DidChangeWatchedFile, vfsVars
  <2> HIDE DEF msg
  <2>3. loaderInbox' \in Seq(LoaderMsg)
    BY <2>1, <2>2 DEF FilesInv, TypeOK
  <2>4. QED
    BY <2>2, <2>3 DEF FilesInv, TypeOK, BuffersInVfs, LogIsDiff, Text
<1>4. QED
  BY <1>1, <1>2, <1>3 DEF DidOpen, DidChange, vfsVars

LEMMA SelectClientKeepsInv == FilesInv /\ SelectClient => FilesInv'
<1> SUFFICES ASSUME FilesInv, SelectClient PROVE FilesInv'
  OBVIOUS
<1> DEFINE n == Head(clientInbox)
<1>1. n \in Notice /\ clientInbox' \in Seq(Notice)
  BY DEF FilesInv, TypeOK, SelectClient
<1>2. n.file \in Files
  BY <1>1 DEF Notice
<1>3. n.kind # "watched" => n.text \in Text
  BY <1>1 DEF Notice
<1>4. /\ watcher' = watcher /\ listed' = listed
      /\ disk' = disk /\ edited' = edited /\ unreported' = unreported /\ moves' = moves
      /\ dbText' = dbText /\ rootIds' = rootIds /\ fileSet' = fileSet
      /\ scanning' = scanning /\ scanStage' = scanStage /\ scanRead' = scanRead
      /\ watched' = watched /\ watchQueue' = watchQueue /\ vfsQueue' = vfsQueue
      /\ phase' = "turn"
  BY DEF SelectClient, dbVars, scanVars, watchVars
<1>5. \E text \in Text :
         DidOpen(n.file, text) \/ DidChange(n.file, text)
         \/ DidClose(n.file) \/ DidChangeWatchedFile(n.file)
  <2>1. CASE n.kind = "open" /\ DidOpen(n.file, n.text)
    BY <1>3, <2>1
  <2>2. CASE n.kind = "change" /\ DidChange(n.file, n.text)
    BY <1>3, <2>2
  <2>3. CASE DidClose(n.file) \/ DidChangeWatchedFile(n.file)
    BY <2>3 DEF Text
  <2>4. QED
    BY <2>1, <2>2, <2>3 DEF SelectClient
<1> HIDE DEF n
<1>6. /\ memDocs' \in [Files -> Text] /\ vfs' \in [Files -> Text]
      /\ changes' \in [Files -> ChangeRec \cup {None}]
      /\ loaderInbox' \in Seq(LoaderMsg)
      /\ LogIsDiff' /\ BuffersInVfs'
  BY <1>2, <1>4, <1>5, HandlerKeepsInv
<1>7. ~AtRest'
  BY <1>4 DEF AtRest
<1>8. QED
  BY <1>1, <1>4, <1>6, <1>7 DEF FilesInv, TypeOK

\* What the loader read never reaches an open buffer.
LEMMA VfsMsgKeepsInv ==
  ASSUME FilesInv, ProcessVfsMsg, phase' = "vfs"
  PROVE  FilesInv'
<1> DEFINE m == Head(vfsQueue)
<1>1. m \in FileText /\ vfsQueue' \in Seq(FileText)
  BY DEF FilesInv, TypeOK, ProcessVfsMsg
<1>2. m.file \in Files /\ m.text \in Text
  BY <1>1 DEF FileText
<1>3. /\ watcher' = watcher /\ listed' = listed
      /\ disk' = disk /\ edited' = edited /\ clientInbox' = clientInbox
      /\ unreported' = unreported /\ moves' = moves /\ memDocs' = memDocs
      /\ dbText' = dbText /\ rootIds' = rootIds /\ fileSet' = fileSet
      /\ loaderInbox' = loaderInbox
      /\ scanning' = scanning /\ scanStage' = scanStage /\ scanRead' = scanRead
      /\ watched' = watched /\ watchQueue' = watchQueue
      /\ ProcessVfsFile(m.file, m.text)
  BY DEF ProcessVfsMsg, worldVars, dbVars, scanVars, watchVars
<1> HIDE DEF m
<1>4. /\ vfs' \in [Files -> Text] /\ changes' \in [Files -> ChangeRec \cup {None}]
      /\ LogIsDiff' /\ BuffersInVfs'
  <2>1. CASE memDocs[m.file] # None
    BY <1>3, <2>1 DEF ProcessVfsFile, vfsVars, FilesInv, TypeOK, LogIsDiff, BuffersInVfs
  <2>2. CASE memDocs[m.file] = None
    <3>1. SetFileContents(m.file, m.text)
      BY <1>3, <2>2 DEF ProcessVfsFile
    <3>2. /\ vfs' = [vfs EXCEPT ![m.file] = m.text]
          /\ changes' \in [Files -> ChangeRec \cup {None}] /\ LogIsDiff'
      BY <1>2, <1>3, <3>1, SetKeepsDiff DEF FilesInv, TypeOK
    <3>3. QED
      BY <1>2, <1>3, <2>2, <3>2 DEF FilesInv, TypeOK, BuffersInVfs
  <2>3. QED
    BY <2>1, <2>2
<1>5. ~AtRest'
  BY DEF AtRest
<1>6. QED
  BY <1>1, <1>3, <1>4, <1>5 DEF FilesInv, TypeOK

\* Applying the log leaves no text the VFS has not.
LEMMA EndTurnKeepsInv == FilesInv /\ EndTurn => FilesInv'
<1> SUFFICES ASSUME FilesInv, EndTurn PROVE FilesInv'
  OBVIOUS
<1>1. /\ watcher' = watcher /\ listed' = listed
      /\ disk' = disk /\ edited' = edited /\ clientInbox' = clientInbox
      /\ unreported' = unreported /\ moves' = moves /\ memDocs' = memDocs
      /\ vfs' = vfs /\ loaderInbox' = loaderInbox
      /\ scanning' = scanning /\ scanStage' = scanStage /\ scanRead' = scanRead
      /\ watched' = watched /\ watchQueue' = watchQueue /\ vfsQueue' = vfsQueue
  BY DEF EndTurn, worldVars, loaderVars, scanVars, watchVars
<1>2. CASE Changed \subseteq RootIdsAfter
  <2>1. /\ dbText' = [f \in Files |-> AppliedText(f)]
        /\ rootIds' = RootIdsAfter /\ fileSet' = FileSetAfter
        /\ changes' = [f \in Files |-> None] /\ phase' = "poll"
    BY <1>2 DEF EndTurn
  <2>2. \A f \in Files : AppliedText(f) \in {vfs[f], None}
    BY DEF AppliedText, FilesInv, LogIsDiff
  <2>3. rootIds' \subseteq Files /\ fileSet' \subseteq Files
    BY <2>1 DEF RootIdsAfter, FileSetAfter, Existing, FilesInv, TypeOK
  <2>4. dbText' \in [Files -> Text] /\ LogIsDiff' /\ NoChanges'
    BY <1>1, <2>1, <2>2 DEF FilesInv, TypeOK, LogIsDiff, NoChanges, Text
  <2>5. changes' \in [Files -> ChangeRec \cup {None}]
    BY <2>1
  <2>6. QED
    BY <1>1, <2>1, <2>3, <2>4, <2>5 DEF FilesInv, TypeOK, BuffersInVfs
<1>3. CASE ~(Changed \subseteq RootIdsAfter)
  <2>1. /\ phase' = "panicked" /\ changes' = changes
        /\ dbText' = dbText /\ rootIds' = rootIds /\ fileSet' = fileSet
    BY <1>3 DEF EndTurn, dbVars
  <2>2. QED
    BY <1>1, <2>1 DEF FilesInv, TypeOK, LogIsDiff, BuffersInVfs, AtRest
<1>4. QED
  BY <1>2, <1>3

\* FilesInv beyond the types speaks of the main loop's variables only.
LEMMA MainVarsKeepInv ==
  ASSUME FilesInv, TypeOK', UNCHANGED mainVars
  PROVE  FilesInv'
BY DEF FilesInv, mainVars, vfsVars, dbVars, LogIsDiff, BuffersInVfs, AtRest, NoChanges

LEMMA LoaderKeepsInv == FilesInv /\ Loader => FilesInv'
<1> SUFFICES ASSUME FilesInv, Loader PROVE FilesInv'
  OBVIOUS
<1> USE DEF FilesInv
<1>1. CASE TakeInvalidate
  <2> DEFINE m == Head(loaderInbox)
             r == [file |-> m.file, text |-> disk[m.file]]
  <2>1. m \in LoaderMsg /\ m.kind = "invalidate" /\ loaderInbox' \in Seq(LoaderMsg)
    BY <1>1 DEF TakeInvalidate, TypeOK
  <2>2. m.file \in Files
    BY <2>1 DEF LoaderMsg
  <2>3. r \in FileText
    BY <2>2 DEF FileText, TypeOK
  <2>4. vfsQueue' = Append(vfsQueue, r)
    BY <1>1 DEF TakeInvalidate
  <2> HIDE DEF m, r
  <2>5. vfsQueue' \in Seq(FileText)
    BY <2>3, <2>4 DEF TypeOK
  <2>6. QED
    BY <1>1, <2>1, <2>5, MainVarsKeepInv
       DEF TakeInvalidate, TypeOK, worldVars, mainVars, vfsVars, dbVars, scanVars, watchVars
<1>2. CASE TakeConfig
  <2>1. /\ loaderInbox' \in Seq(LoaderMsg) /\ watched' \subseteq Files
        /\ watchQueue' \in Seq(WatchMsg)
        /\ scanning' \in BOOLEAN
        /\ scanStage' \in [Files -> {"read", "send", "done"}]
        /\ scanRead' \in [Files -> Text]
    BY <1>2 DEF TakeConfig, TypeOK, Text
  <2>2. QED
    BY <1>2, <2>1, MainVarsKeepInv
       DEF TakeConfig, TypeOK, worldVars, mainVars, vfsVars, dbVars
<1>3. CASE ScanFinish
  <2>1. scanning' \in BOOLEAN /\ watched' \subseteq Files
    BY <1>3 DEF ScanFinish
  <2>2. QED
    BY <1>3, <2>1, MainVarsKeepInv
       DEF ScanFinish, TypeOK, worldVars, mainVars, vfsVars, dbVars
<1>4. CASE TakeWatchEvent
  <2> DEFINE e == Head(watchQueue)
  <2>0. e \in WatchMsg /\ watchQueue' \in Seq(WatchMsg)
    BY <1>4 DEF TakeWatchEvent, TypeOK
  <2>1. e.file \in Files
    BY <2>0 DEF WatchMsg
  <2>2. /\ [file |-> e.file, text |-> None] \in FileText
        /\ [file |-> e.file, text |-> disk[e.file]] \in FileText
    BY <2>1 DEF FileText, TypeOK, Text
  <2>3. \/ vfsQueue' = Append(vfsQueue, [file |-> e.file, text |-> None])
        \/ vfsQueue' = Append(vfsQueue, [file |-> e.file, text |-> disk[e.file]])
        \/ vfsQueue' = vfsQueue
    BY <1>4 DEF TakeWatchEvent
  <2>4. vfsQueue' \in Seq(FileText)
    <3> HIDE DEF e
    <3>1. \A r \in FileText : Append(vfsQueue, r) \in Seq(FileText)
      BY DEF TypeOK
    <3>2. QED
      BY <2>2, <2>3, <3>1 DEF TypeOK
  <2> HIDE DEF e
  <2>5. QED
    BY <1>4, <2>0, <2>4, MainVarsKeepInv
       DEF TakeWatchEvent, TypeOK, worldVars, mainVars, vfsVars, dbVars, scanVars
<1>5. CASE \E f \in Files : ScanReadFile(f)
  <2>1. /\ scanRead' \in [Files -> Text]
        /\ scanStage' \in [Files -> {"read", "send", "done"}]
    BY <1>5 DEF ScanReadFile, TypeOK
  <2>2. QED
    BY <1>5, <2>1, MainVarsKeepInv
       DEF ScanReadFile, TypeOK, worldVars, mainVars, vfsVars, dbVars, watchVars
<1>6. CASE \E f \in Files : ScanSendFile(f)
  <2> PICK f \in Files : ScanSendFile(f)
    BY <1>6
  <2> DEFINE r == [file |-> f, text |-> scanRead[f]]
  <2>1. r \in FileText
    BY DEF FileText, TypeOK
  <2>2. vfsQueue' = Append(vfsQueue, r) \/ vfsQueue' = vfsQueue
    BY DEF ScanSendFile
  <2> HIDE DEF r
  <2>3. vfsQueue' \in Seq(FileText)
    <3>1. Append(vfsQueue, r) \in Seq(FileText)
      BY <2>1 DEF TypeOK
    <3>2. QED
      BY <2>2, <3>1 DEF TypeOK
  <2>4. scanStage' \in [Files -> {"read", "send", "done"}]
    <3>1. scanStage' = [scanStage EXCEPT ![f] = "done"]
      BY DEF ScanSendFile
    <3>2. QED
      BY <3>1 DEF TypeOK
  <2>5. QED
    BY <2>3, <2>4, MainVarsKeepInv
       DEF ScanSendFile, TypeOK, worldVars, mainVars, vfsVars, dbVars, watchVars
<1>7. QED
  BY <1>1, <1>2, <1>3, <1>4, <1>5, <1>6 DEF Loader, ScanThread

LEMMA WriteType ==
  ASSUME TypeOK, NEW f \in Files, NEW text \in Text, Write(f, text)
  PROVE  /\ disk' \in [Files -> Text] /\ unreported' \subseteq Files
         /\ watchQueue' \in Seq(WatchMsg)
<1> DEFINE e == [file |-> f, removed |-> text = None]
<1>1. e \in WatchMsg
  BY DEF WatchMsg
<1>2. watchQueue' = Append(watchQueue, e) \/ watchQueue' = watchQueue
  BY DEF Write
<1> HIDE DEF e
<1>3. watchQueue' \in Seq(WatchMsg)
  <2>1. Append(watchQueue, e) \in Seq(WatchMsg)
    BY <1>1 DEF TypeOK
  <2>2. QED
    BY <1>2, <2>1 DEF TypeOK
<1>4. QED
  BY <1>3 DEF Write, TypeOK

LEMMA NotifyType ==
  ASSUME TypeOK, NEW kind \in {"open", "change", "close"}, NEW f \in Files,
         NEW text \in Text, Notify(kind, f, text)
  PROVE  edited' \in [Files -> Text] /\ clientInbox' \in Seq(Notice)
<1> DEFINE n == [kind |-> kind, file |-> f, text |-> text]
<1>1. n \in Notice
  BY DEF Notice
<1>2. clientInbox' = Append(clientInbox, n)
  BY DEF Notify
<1> HIDE DEF n
<1>3. QED
  BY <1>1, <1>2 DEF Notify, TypeOK

LEMMA WorldKeepsInv == FilesInv /\ World => FilesInv'
<1> SUFFICES ASSUME FilesInv, NEW f \in Files, NEW text \in Text,
                    \/ ClientReport(f) \/ ClientClose(f) \/ ClientSave(f)
                    \/ DiskWrite(f, text) \/ ClientOpen(f, text) \/ ClientEdit(f, text)
             PROVE  FilesInv'
  BY DEF World, Text
<1> USE DEF FilesInv
<1>1. CASE ClientReport(f)
  <2> DEFINE n == [kind |-> "watched", file |-> f]
  <2>1. n \in Notice
    BY DEF Notice
  <2>2. clientInbox' = Append(clientInbox, n)
    BY <1>1 DEF ClientReport
  <2> HIDE DEF n
  <2>3. clientInbox' \in Seq(Notice)
    BY <2>1, <2>2 DEF TypeOK
  <2>4. QED
    BY <1>1, <2>3, MainVarsKeepInv
       DEF ClientReport, TypeOK, mainVars, vfsVars, dbVars, loaderVars, scanVars, watchVars
<1>2. CASE ClientClose(f) \/ ClientOpen(f, text) \/ ClientEdit(f, text)
  <2>1. PICK kind \in {"open", "change", "close"}, t \in Text : Notify(kind, f, t) /\ Move
    BY <1>2 DEF ClientClose, ClientOpen, ClientEdit, Text
  <2>2. edited' \in [Files -> Text] /\ clientInbox' \in Seq(Notice)
    BY <2>1, NotifyType
  <2>3. moves' \in Nat
    BY <2>1 DEF Move, TypeOK
  <2>4. QED
    BY <2>1, <2>2, <2>3, MainVarsKeepInv
       DEF Notify, TypeOK, mainVars, vfsVars, dbVars, loaderVars, scanVars, watchVars
<1>3. CASE ClientSave(f) \/ DiskWrite(f, text)
  <2>1. PICK t \in Text : Write(f, t)
    BY <1>3 DEF ClientSave, DiskWrite, TypeOK
  <2>2. /\ disk' \in [Files -> Text] /\ unreported' \subseteq Files
        /\ watchQueue' \in Seq(WatchMsg)
    BY <2>1, WriteType
  <2>3. /\ UNCHANGED <<watcher, listed, edited, clientInbox, mainVars, loaderInbox,
                     scanVars, watched, vfsQueue>>
        /\ moves' \in Nat
    BY <1>3 DEF ClientSave, DiskWrite, Move, TypeOK
  <2>4. QED
    BY <2>2, <2>3, MainVarsKeepInv DEF TypeOK, mainVars, vfsVars, dbVars, scanVars
<1>4. QED
  BY <1>1, <1>2, <1>3

LEMMA SwitchKeepsInv == FilesInv /\ SwitchWorkspaces => FilesInv'
<1> SUFFICES ASSUME FilesInv, SwitchWorkspaces PROVE FilesInv'
  OBVIOUS
<1> DEFINE c == [kind |-> "config"]
<1>1. c \in LoaderMsg
  BY DEF LoaderMsg
<1>2. loaderInbox' = Append(loaderInbox, c)
  BY DEF SwitchWorkspaces
<1> HIDE DEF c
<1>3. loaderInbox' \in Seq(LoaderMsg)
  BY <1>1, <1>2 DEF FilesInv, TypeOK
<1>4. /\ moves' \in Nat /\ rootIds' \subseteq Files /\ fileSet' \subseteq Files
      /\ phase' = "turn"
  BY DEF SwitchWorkspaces, FilesInv, TypeOK, Existing
<1>5. QED
  BY <1>3, <1>4
     DEF SwitchWorkspaces, FilesInv, TypeOK, vfsVars, scanVars, watchVars,
         LogIsDiff, BuffersInVfs, AtRest

LEMMA IdleKeepsInv ==
  ASSUME FilesInv, phase = "poll", phase' = "select",
         UNCHANGED <<worldVars, memDocs, vfsVars, dbVars, loaderVars>>
  PROVE  FilesInv'
BY DEF FilesInv, TypeOK, worldVars, vfsVars, dbVars, loaderVars, scanVars, watchVars,
       LogIsDiff, BuffersInVfs, AtRest, NoChanges

LEMMA InitFilesInv == Init => FilesInv
<1> SUFFICES ASSUME Init PROVE FilesInv
  OBVIOUS
<1> DEFINE c == [kind |-> "config"]
<1>1. c \in LoaderMsg /\ loaderInbox = <<c>>
  BY DEF LoaderMsg, Init
<1> HIDE DEF c
<1>2. loaderInbox \in Seq(LoaderMsg)
  BY <1>1
<1>3. /\ clientInbox \in Seq(Notice) /\ watchQueue \in Seq(WatchMsg)
      /\ vfsQueue \in Seq(FileText)
  BY DEF Init
<1>4. TypeOK
  BY <1>2, <1>3 DEF Init, TypeOK, Text
<1>5. QED
  BY <1>4 DEF Init, FilesInv, LogIsDiff, BuffersInVfs, NoChanges

LEMMA FilesInvStep == FilesInv /\ [Next]_vars => FilesInv'
<1> SUFFICES ASSUME FilesInv, [Next]_vars PROVE FilesInv'
  OBVIOUS
<1>1. CASE MainLoop
  <2>1. CASE SelectClient
    BY <2>1, SelectClientKeepsInv
  <2>2. CASE PollVfs
    BY <2>2, VfsMsgKeepsInv, IdleKeepsInv DEF PollVfs
  <2>3. CASE SelectVfs
    BY <2>3, VfsMsgKeepsInv DEF SelectVfs
  <2>4. CASE DrainVfs
    BY <2>4, VfsMsgKeepsInv DEF DrainVfs
  <2>5. CASE SwitchWorkspaces
    BY <2>5, SwitchKeepsInv
  <2>6. CASE EndTurn
    BY <2>6, EndTurnKeepsInv
  <2>7. QED
    BY <1>1, <2>1, <2>2, <2>3, <2>4, <2>5, <2>6 DEF MainLoop
<1>2. CASE Loader
  BY <1>2, LoaderKeepsInv
<1>3. CASE World
  BY <1>3, WorldKeepsInv
<1>4. CASE UNCHANGED vars
  <2>1. UNCHANGED mainVars /\ UNCHANGED worldVars /\ UNCHANGED loaderVars
    BY <1>4 DEF vars
  <2>2. TypeOK'
    BY <2>1 DEF FilesInv, TypeOK, mainVars, vfsVars, dbVars, worldVars, loaderVars,
                scanVars, watchVars
  <2>3. QED
    BY <2>1, <2>2, MainVarsKeepInv
<1>5. QED
  BY <1>1, <1>2, <1>3, <1>4 DEF Next

\* The inductive invariant holds: the types of all channels and tables, the log
\* as a difference, and open buffers in the VFS.
THEOREM FilesInvHolds == Spec => []FilesInv
BY InitFilesInv, FilesInvStep, PTL DEF Spec

\* Every variable keeps its type, for every set of files and texts.
THEOREM TypeOKHolds == Spec => []TypeOK
<1>1. FilesInv => TypeOK
  BY DEF FilesInv
<1>2. QED
  BY <1>1, FilesInvHolds, PTL

\* Whatever changes one turn merged, after it the analysis has no text that the
\* VFS has not (Vfs::set_file_contents, Change::apply).
THEOREM NoStaleTextHolds == Spec => []NoStaleText
<1>1. FilesInv => NoStaleText
  BY DEF FilesInv, LogIsDiff, NoChanges, NoStaleText
<1>2. QED
  BY <1>1, FilesInvHolds, PTL

\* Between turns the analysis of an open document is of the editor's buffer,
\* whatever the loader read and however late it arrives (process_vfs_files).
THEOREM OpenBufferWinsHolds == Spec => []OpenBufferWins
<1>1. FilesInv => OpenBufferWins
  BY DEF FilesInv, LogIsDiff, BuffersInVfs, NoChanges, OpenBufferWins, Has
<1>2. QED
  BY <1>1, FilesInvHolds, PTL
==============================================================================
