----------------------------- MODULE FileContents -----------------------------
(***************************************************************************)
(* How the text of a file reaches the analysis.                            *)
(*                                                                         *)
(* A file has two writers.  While the editor has it open, its text is the  *)
(* open buffer (MemDocs); otherwise it is what the VFS loader thread last  *)
(* read from disk, in a scan, after an Invalidate, or because its watcher  *)
(* saw an event.  Both write into the VFS, whose change log merges the     *)
(* changes of one turn of the main loop; process_changes gives the merged  *)
(* changes, and new source roots if files came or went, to the analysis.   *)
(*                                                                         *)
(* Client, main loop and loader interleave over FIFO channels.             *)
(***************************************************************************)
EXTENDS Naturals, Sequences, FiniteSets

CONSTANTS
  Files,     \* paths inside the load entries
  Contents,  \* texts, told apart by their hash
  MaxMoves,  \* bound: how often client, disk and workspace change
  None       \* no file, no text, no change

Text      == Contents \cup {None}
ChangeRec == [kind : {"create", "modify", "delete"}, text : Text]

ASSUME NoneAssumption    == None \notin Contents \cup ChangeRec

(* The world outside the server. *)
VARIABLES
  watcher,     \* FilesWatcher, a setting: who watches the disk
  listed,      \* files an Entry::Files names; a walk of directories finds the others
  disk,        \* text of each file on disk
  edited,      \* text of each document open in the editor
  clientInbox, \* notifications the main loop has not read
  unreported,  \* files whose change on disk the client has yet to report
  moves        \* how many of the bounded moves were made

(* The main loop. *)
VARIABLES
  phase,       \* where the loop is inside a turn
  memDocs,     \* MemDocs.buffers
  vfs,         \* Vfs.data: text of each file, None if Deleted
  changes,     \* Vfs.changes: kind and text of each changed file
  dbText,      \* SourceFiles: text of the files the analysis has
  rootIds,     \* files SourceRoots.file_root_ids has an entry for
  fileSet      \* files in the file set of some source root

(* The loader thread (NotifyActor). *)
VARIABLES
  loaderInbox, \* Config and Invalidate messages not yet taken
  scanning,    \* is a config being loaded?
  scanStage,   \* of each file during a scan
  scanRead,    \* what the scan read of it
  watched,     \* files the watcher is registered for
  watchQueue,  \* the watcher's events
  vfsQueue     \* vfs_loader channel: Loaded and Changed

worldVars  == <<watcher, listed, disk, edited, clientInbox, unreported, moves>>
vfsVars    == <<vfs, changes>>
dbVars     == <<dbText, rootIds, fileSet>>
mainVars   == <<phase, memDocs, vfsVars, dbVars>>
scanVars   == <<scanning, scanStage, scanRead>>
watchVars  == <<watched, watchQueue>>
loaderVars == <<loaderInbox, scanVars, watchVars, vfsQueue>>
vars       == <<worldVars, mainVars, loaderVars>>

------------------------------------------------------------------------------
(* Vfs::set_file_contents.                                                 *)

NewChange(old, new) ==
  [kind |-> IF new = None THEN "delete" ELSE IF old = None THEN "create" ELSE "modify",
   text |-> new]

\* Bug: a second modification leaves the text of the first in the log.
Merge_KeepsFirst(prev, new) ==
  IF prev # None /\ prev.kind = "modify" /\ new.kind = "modify" THEN prev ELSE new

\* Two changes of one file in one turn.  The newest text always wins.
Merge(prev, new) ==
  LET kind == IF prev = None \/ new.kind = "delete" THEN new.kind
              ELSE CASE prev.kind = "create" -> "create"
                     [] prev.kind = "modify" -> new.kind
                     [] prev.kind = "delete" /\ new.kind = "create" -> "modify"
                     [] prev.kind = "delete" /\ new.kind = "modify" -> "create"
  IN [kind |-> kind, text |-> new.text]

SetFileContents(f, text) ==
  IF text = vfs[f]
  THEN UNCHANGED vfsVars
  ELSE /\ vfs' = [vfs EXCEPT ![f] = text]
       /\ changes' = [changes EXCEPT ![f] = Merge(@, NewChange(vfs[f], text))]

Existing == {f \in Files : vfs[f] # None}

------------------------------------------------------------------------------
(* Notifications of the client (handlers/notification).                    *)

\* handle_did_open_text_document.  A document that is open keeps its buffer.
DidOpen(f, text) ==
  /\ IF memDocs[f] = None
     THEN /\ SetFileContents(f, text)
          /\ memDocs' = [memDocs EXCEPT ![f] = text]
     ELSE UNCHANGED <<vfsVars, memDocs>>
  /\ UNCHANGED loaderInbox

\* handle_did_change_text_document.
DidChange(f, text) ==
  /\ IF memDocs[f] # None
     THEN /\ SetFileContents(f, text)
          /\ memDocs' = [memDocs EXCEPT ![f] = text]
     ELSE UNCHANGED <<vfsVars, memDocs>>
  /\ UNCHANGED loaderInbox

\* Bugs: the buffer is emptied, not removed; the text of a closed document is
\* left as the editor had it.
DidClose_Emptied(f) ==
  /\ memDocs' = [memDocs EXCEPT ![f] = ""]
  /\ loaderInbox' = Append(loaderInbox, [kind |-> "invalidate", file |-> f])
  /\ UNCHANGED vfsVars
DidClose_Kept(f) ==
  /\ memDocs' = [memDocs EXCEPT ![f] = None]
  /\ UNCHANGED <<vfsVars, loaderInbox>>

\* handle_did_close_text_document: the loader has to read the file again.
DidClose(f) ==
  /\ memDocs' = [memDocs EXCEPT ![f] = None]
  /\ loaderInbox' = Append(loaderInbox, [kind |-> "invalidate", file |-> f])
  /\ UNCHANGED vfsVars

\* handle_did_change_watched_files, of a source file.
DidChangeWatchedFile(f) ==
  /\ loaderInbox' = Append(loaderInbox, [kind |-> "invalidate", file |-> f])
  /\ UNCHANGED <<vfsVars, memDocs>>

\* next_event gives a client message only after it found the loader's channel
\* empty (a message may have arrived since).
SelectClient ==
  LET n == Head(clientInbox) IN
  /\ phase = "select"
  /\ clientInbox # <<>>
  /\ clientInbox' = Tail(clientInbox)
  /\ \/ n.kind = "open"    /\ DidOpen(n.file, n.text)
     \/ n.kind = "change"  /\ DidChange(n.file, n.text)
     \/ n.kind = "close"   /\ DidClose(n.file)
     \/ n.kind = "watched" /\ DidChangeWatchedFile(n.file)
  /\ phase' = "turn"
  /\ UNCHANGED <<watcher, listed, disk, edited, unreported, moves, dbVars, scanVars, watchVars, vfsQueue>>

------------------------------------------------------------------------------
(* Messages of the loader (handle_vfs_msg), and the end of a turn.         *)

\* Bug: what was read from disk replaces an open buffer's text.
ProcessVfsFile_OverEditor(f, text) == SetFileContents(f, text)

\* process_vfs_files: a file open in the editor is not touched.
ProcessVfsFile(f, text) ==
  IF memDocs[f] # None THEN UNCHANGED vfsVars ELSE SetFileContents(f, text)

ProcessVfsMsg ==
  /\ vfsQueue # <<>>
  /\ ProcessVfsFile(Head(vfsQueue).file, Head(vfsQueue).text)
  /\ vfsQueue' = Tail(vfsQueue)
  /\ UNCHANGED <<worldVars, memDocs, dbVars, loaderInbox, scanVars, watchVars>>

PollVfs ==
  /\ phase = "poll"
  /\ \/ ProcessVfsMsg /\ phase' = "vfs"
     \/ /\ vfsQueue = <<>>
        /\ phase' = "select"
        /\ UNCHANGED <<worldVars, memDocs, vfsVars, dbVars, loaderVars>>

SelectVfs == phase = "select" /\ ProcessVfsMsg /\ phase' = "vfs"
DrainVfs  == phase = "vfs" /\ ProcessVfsMsg /\ UNCHANGED phase

\* switch_workspaces, in a turn that handles a fetched workspace.
SwitchWorkspaces ==
  /\ phase = "select"
  /\ moves < MaxMoves
  /\ moves' = moves + 1
  /\ fileSet' = Existing
  /\ rootIds' = rootIds \cup Existing
  /\ loaderInbox' = Append(loaderInbox, [kind |-> "config"])
  /\ phase' = "turn"
  /\ UNCHANGED <<watcher, listed, disk, edited, clientInbox, unreported, memDocs, vfsVars, dbText,
                 scanVars, watchVars, vfsQueue>>

Changed == {f \in Files : changes[f] # None}

\* has_structure_changes.
StructureChanged == \E f \in Changed : changes[f].kind \in {"create", "delete"}

\* The source roots after the partition process_changes makes.
RootIdsAfter == IF StructureChanged THEN rootIds \cup Existing ELSE rootIds
FileSetAfter == IF StructureChanged THEN Existing ELSE fileSet

Has(f) == dbText[f] # None

\* files_changed, and the files kept if it is set: a modified file the analysis
\* did not have is not among them.
FilesChanged ==
  \E f \in Changed : changes[f].kind = "delete" \/ (changes[f].kind = "create" /\ ~Has(f))
Kept(f) == Has(f) \/ changes[f].kind = "create"

\* Change::apply, of one file.
AppliedText(f) ==
  IF changes[f] = None THEN dbText[f]
  ELSE IF FilesChanged /\ ~Kept(f) THEN None ELSE changes[f].text

\* process_changes and apply_change.  Applying looks up the source root of
\* every changed file and panics when it has none.
EndTurn ==
  /\ phase = "turn" \/ (phase = "vfs" /\ vfsQueue = <<>>)
  /\ IF Changed \subseteq RootIdsAfter
     THEN /\ dbText' = [f \in Files |-> AppliedText(f)]
          /\ rootIds' = RootIdsAfter
          /\ fileSet' = FileSetAfter
          /\ changes' = [f \in Files |-> None]
          /\ phase' = "poll"
     ELSE /\ phase' = "panicked"
          /\ UNCHANGED <<changes, dbVars>>
  /\ UNCHANGED <<worldVars, memDocs, vfs, loaderVars>>

MainLoop ==
  SelectClient \/ PollVfs \/ SelectVfs \/ DrainVfs \/ SwitchWorkspaces \/ EndTurn

------------------------------------------------------------------------------
(* The loader thread (NotifyActor::run).                                   *)

\* Invalidate rereads the file; what it finds is sent even when unchanged.
TakeInvalidate ==
  /\ ~scanning
  /\ loaderInbox # <<>>
  /\ Head(loaderInbox).kind = "invalidate"
  /\ vfsQueue' = Append(vfsQueue, [file |-> Head(loaderInbox).file,
                                   text |-> disk[Head(loaderInbox).file]])
  /\ loaderInbox' = Tail(loaderInbox)
  /\ UNCHANGED <<worldVars, mainVars, scanVars, watchVars>>

\* Config drops the old watcher and the events it still had.
TakeConfig ==
  /\ ~scanning
  /\ loaderInbox # <<>>
  /\ Head(loaderInbox).kind = "config"
  /\ loaderInbox' = Tail(loaderInbox)
  /\ watched' = {}
  /\ watchQueue' = <<>>
  /\ scanning' = TRUE
  /\ scanStage' = [f \in Files |-> "read"]
  /\ scanRead' = [f \in Files |-> None]
  /\ UNCHANGED <<worldVars, mainVars, vfsQueue>>

\* load_entry, in a scan thread: read a file, and later send it.  A walk of
\* directories does not report a file that is not there.
ScanReadFile(f) ==
  /\ scanning
  /\ scanStage[f] = "read"
  /\ scanRead' = [scanRead EXCEPT ![f] = disk[f]]
  /\ scanStage' = [scanStage EXCEPT ![f] = "send"]
  /\ UNCHANGED <<worldVars, mainVars, loaderInbox, scanning, watchVars, vfsQueue>>

ScanSendFile(f) ==
  /\ scanning
  /\ scanStage[f] = "send"
  /\ vfsQueue' = IF f \in listed \/ scanRead[f] # None
                 THEN Append(vfsQueue, [file |-> f, text |-> scanRead[f]])
                 ELSE vfsQueue
  /\ scanStage' = [scanStage EXCEPT ![f] = "done"]
  /\ UNCHANGED <<worldVars, mainVars, loaderInbox, scanning, scanRead, watchVars>>

\* Once every entry is loaded the paths are registered with the watcher.
ScanFinish ==
  /\ scanning
  /\ \A f \in Files : scanStage[f] = "done"
  /\ scanning' = FALSE
  /\ watched' = IF watcher = "server" THEN Files ELSE {}
  /\ UNCHANGED <<worldVars, mainVars, loaderInbox, scanStage, scanRead, watchQueue, vfsQueue>>

\* A watcher event: the file is read when the event is handled; one that is
\* gone by then is left to its own Remove event.
TakeWatchEvent ==
  LET e == Head(watchQueue) IN
  /\ ~scanning
  /\ watchQueue # <<>>
  /\ watchQueue' = Tail(watchQueue)
  /\ vfsQueue' = CASE e.removed -> Append(vfsQueue, [file |-> e.file, text |-> None])
                   [] ~e.removed /\ disk[e.file] # None
                        -> Append(vfsQueue, [file |-> e.file, text |-> disk[e.file]])
                   [] OTHER -> vfsQueue
  /\ UNCHANGED <<worldVars, mainVars, loaderInbox, scanVars, watched>>

ScanThread(f) == ScanReadFile(f) \/ ScanSendFile(f)
Loader ==
  \/ TakeInvalidate \/ TakeConfig \/ ScanFinish \/ TakeWatchEvent
  \/ \E f \in Files : ScanThread(f)

------------------------------------------------------------------------------
(* The client and the disk.                                                *)

Move == moves < MaxMoves /\ moves' = moves + 1

\* A file gets a text or goes, and its watcher is told: the client's, or an
\* ideal backend of the server's.
Write(f, text) ==
  /\ disk' = [disk EXCEPT ![f] = text]
  /\ unreported' = IF watcher = "client" THEN unreported \cup {f} ELSE unreported
  /\ watchQueue' = IF f \in watched
                   THEN Append(watchQueue, [file |-> f, removed |-> text = None])
                   ELSE watchQueue

DiskWrite(f, text) ==
  /\ Move
  /\ text # disk[f]
  /\ Write(f, text)
  /\ UNCHANGED <<watcher, listed, edited, clientInbox, mainVars, loaderInbox, scanVars, watched, vfsQueue>>

ClientReport(f) ==
  /\ f \in unreported
  /\ unreported' = unreported \ {f}
  /\ clientInbox' = Append(clientInbox, [kind |-> "watched", file |-> f])
  /\ UNCHANGED <<watcher, listed, disk, edited, moves, mainVars, loaderVars>>

Notify(kind, f, text) ==
  /\ edited' = [edited EXCEPT ![f] = text]
  /\ clientInbox' = Append(clientInbox, [kind |-> kind, file |-> f, text |-> text])
  /\ UNCHANGED <<watcher, listed, disk, unreported, mainVars, loaderVars>>

\* The editor may restore a buffer that differs from the file on disk.
ClientOpen(f, text)  == Move /\ edited[f] = None /\ text # None /\ Notify("open", f, text)
ClientEdit(f, text)  == Move /\ edited[f] \notin {None, text} /\ text # None /\ Notify("change", f, text)
ClientClose(f)       == Move /\ edited[f] # None /\ Notify("close", f, None)
ClientSave(f) ==
  /\ Move
  /\ edited[f] \notin {None, disk[f]}
  /\ Write(f, edited[f])
  /\ UNCHANGED <<watcher, listed, edited, clientInbox, mainVars, loaderInbox, scanVars, watched, vfsQueue>>

World ==
  \E f \in Files :
    \/ ClientReport(f) \/ ClientClose(f) \/ ClientSave(f)
    \/ \E text \in Text : DiskWrite(f, text) \/ ClientOpen(f, text) \/ ClientEdit(f, text)

------------------------------------------------------------------------------
\* The first workspace has been fetched, its config is on its way.
Init ==
  /\ watcher \in {"client", "server"} /\ listed \in SUBSET Files
  /\ disk \in [Files -> Text]
  /\ edited = [f \in Files |-> None] /\ memDocs = [f \in Files |-> None]
  /\ clientInbox = <<>> /\ unreported = {} /\ moves = 0
  /\ phase = "poll"
  /\ vfs = [f \in Files |-> None] /\ changes = [f \in Files |-> None]
  /\ dbText = [f \in Files |-> None] /\ rootIds = {} /\ fileSet = {}
  /\ loaderInbox = <<[kind |-> "config"]>>
  /\ scanning = FALSE /\ scanStage = [f \in Files |-> "done"]
  /\ scanRead = [f \in Files |-> None]
  /\ watched = {} /\ watchQueue = <<>> /\ vfsQueue = <<>>

Next == MainLoop \/ Loader \/ World

Spec == Init /\ [][Next]_vars

\* The loop handles what it finds in its channels, and the client's channel is
\* not passed over for ever; the loader thread and its scan threads run; the
\* client reports the changes on disk it was asked to watch.
Fairness ==
  /\ WF_vars(PollVfs) /\ SF_vars(SelectClient) /\ WF_vars(SelectVfs)
  /\ WF_vars(DrainVfs) /\ WF_vars(EndTurn)
  /\ WF_vars(TakeInvalidate) /\ WF_vars(TakeConfig) /\ WF_vars(ScanFinish)
  /\ SF_vars(TakeWatchEvent)
  /\ \A f \in Files : WF_vars(ScanThread(f)) /\ WF_vars(ClientReport(f))

FairSpec == Spec /\ Fairness

------------------------------------------------------------------------------
(* Properties.                                                             *)

Notice    == [kind : {"open", "change", "close"}, file : Files, text : Text]
               \cup [kind : {"watched"}, file : Files]
LoaderMsg == [kind : {"config"}] \cup [kind : {"invalidate"}, file : Files]
FileText  == [file : Files, text : Text]
WatchMsg  == [file : Files, removed : BOOLEAN]

\* Every variable has the type its Rust counterpart has.
TypeOK ==
  /\ watcher \in {"client", "server"} /\ listed \subseteq Files
  /\ disk \in [Files -> Text] /\ edited \in [Files -> Text]
  /\ clientInbox \in Seq(Notice) /\ unreported \subseteq Files /\ moves \in Nat
  /\ phase \in {"poll", "select", "turn", "vfs", "panicked"}
  /\ memDocs \in [Files -> Text] /\ vfs \in [Files -> Text]
  /\ changes \in [Files -> ChangeRec \cup {None}]
  /\ dbText \in [Files -> Text] /\ rootIds \subseteq Files /\ fileSet \subseteq Files
  /\ loaderInbox \in Seq(LoaderMsg) /\ scanning \in BOOLEAN
  /\ scanStage \in [Files -> {"read", "send", "done"}] /\ scanRead \in [Files -> Text]
  /\ watched \subseteq Files
  /\ watchQueue \in Seq(WatchMsg)
  /\ vfsQueue \in Seq(FileText)

\* Between two turns of the main loop.
AtRest == phase \in {"poll", "select"}

\* Whatever a turn merged into one change per file, after it the analysis has
\* no text the VFS has not: it has the VFS's text of a file or lacks the file.
NoStaleText == AtRest => \A f \in Files : dbText[f] \in {vfs[f], None}

\* Between turns the analysis of an open document is of the editor's buffer:
\* no scan, Invalidate or watcher event that was read before the document was
\* opened, or arrives while it is open, replaces it.
OpenBufferWins ==
  AtRest => \A f \in Files : memDocs[f] # None /\ Has(f) => dbText[f] = memDocs[f]

Synced ==
  \A f \in Files : vfs[f] = IF edited[f] # None THEN edited[f] ELSE disk[f]

\* Without further changes the VFS comes to have each open document as the editor
\* shows it and every other file as it is on disk, in whatever order scans, saves,
\* closes and reports of the client overtook each other; unless a turn panicked.
EventuallySynced == watcher = "client" => <>[](Synced \/ phase = "panicked")

\* "two changes to the same file in one cycle, merge them appropriately"
\* (crates/vfs/src/lib.rs): the merged change can be applied, its file has a
\* source root.
NeverPanics == phase # "panicked"
==============================================================================
