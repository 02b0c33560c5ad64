--------------------------- MODULE WorkspaceScan ---------------------------
(***************************************************************************)
(* Which index a file belongs to while workspace folders come and go:      *)
(* index_workspace (scan.rs), did_change_workspace_folders (text_sync.rs), *)
(* the reindexing did_change_configuration (lifecycle.rs), and             *)
(* reindex_open_documents with route_document_to_index                     *)
(* (open_documents.rs).                                                    *)
(*                                                                         *)
(* A scan is a spawned task.  It reads the roots, the disk and the set of  *)
(* open documents at three different moments and publishes at two later    *)
(* ones, while the main loop opens and closes documents and applies file   *)
(* events, and the edit writer publishes edits.  The edit queue itself is  *)
(* modelled in TextSync; here an edit is the writer's read of the scope    *)
(* and its publish.  A text is an opaque value; files are neither          *)
(* excluded nor under a legacy or base script directory, and the disk can  *)
(* be read.                                                                *)
(***************************************************************************)
EXTENDS Naturals, FiniteSets

CONSTANTS
  Files,        \* script files
  Folders,      \* directories a workspace folder can be
  Home,         \* Home[f]: the folder f is in
  Texts,        \* texts a buffer or a file can hold
  NoText,       \* not open, not indexed, no such file
  Tasks,        \* concurrent scans
  Initial,      \* the scan of the initialized handler, a member of Tasks
  MaxScans      \* bound on scans

ASSUME FilesAssumption == Home \in [Files -> Folders] /\ NoText \notin Texts
ASSUME TasksAssumption == Initial \in Tasks /\ MaxScans \in Nat \ {0}

VARIABLES
  roots,      \* workspace_roots
  disk,       \* the files
  events,     \* events[f]: the file event of f not yet delivered
  docs,       \* documents, the open overlay
  cached,     \* workspace_documents
  wsIndex,    \* workspace_index: the text whose symbols it holds for a file
  looseIndex, \* loose_index
  task,       \* task[k]: what scan k is in the middle of
  main,       \* what the main loop is in the middle of
  edit,       \* what the edit writer is in the middle of
  scans,      \* scans so far
  raced       \* history: files whose state changed under a step that had read it

indexes == <<docs, cached, wsIndex, looseIndex>>
world   == <<disk, events>>
vars    == <<roots, disk, events, docs, cached, wsIndex, looseIndex, task, main, edit, scans,
             raced>>

MaybeText == Texts \cup {NoText}
TextOf    == [Files -> MaybeText]
Nothing   == [f \in Files |-> NoText]
Idle      == [pc |-> "idle"]

(* classify_file_scope: in a workspace folder, or loose.                   *)
InProject(f) == Home[f] \in roots

Scope(f) == IF InProject(f) THEN "project" ELSE "loose"

(* The three handlers that scan.                                           *)
Origins == {"initialized", "folders", "settings"}

TaskState ==
  {Idle}
  \cup [pc : {"drop"}, removed : SUBSET Folders, from : {"folders"}]
  \cup [pc : {"load"}, from : Origins]
  \cup [pc : {"read"}, roots : (SUBSET Folders) \ {{}}, from : Origins]
  \cup [pc : {"filter", "publish"}, parsed : TextOf, from : Origins]
  \cup [pc : {"scopes"}, from : Origins \ {"initialized"}]
  \cup [pc : {"route"}, scopes : [Files -> {"project", "loose", "closed"}],
        from : Origins \ {"initialized"}]

(* The main loop and the edit writer between two steps.                    *)
MainState ==
  {Idle}
  \cup [pc : {"scope", "reuse", "closeUnedited", "closeReindex", "upsert", "remove"},
        file : Files, text : MaybeText]
  \cup [pc : {"publish"}, file : Files, text : MaybeText, scope : {"project", "loose"}]
  \cup [pc : {"close"}, file : Files, prior : MaybeText]
  \cup [pc : {"dropLoose"}, file : Files]

EditState == {Idle} \cup [pc : {"publish"}, file : Files, text : Texts,
                          scope : {"project", "loose"}]

\* Types; a scan that finds no workspace folder never gets to the disk.
TypeOK ==
  /\ roots \subseteq Folders
  /\ {disk, docs, cached, wsIndex, looseIndex} \subseteq TextOf
  /\ events \in [Files -> {"none", "changed", "deleted"}]
  /\ task \in [Tasks -> TaskState]
  /\ main \in MainState
  /\ edit \in EditState
  /\ scans \in 0 .. MaxScans
  /\ raced \subseteq Files

(* The initialized handler starts the first scan; documents can be opened  *)
(* from then on.                                                           *)
Init ==
  /\ roots \in SUBSET Folders
  /\ disk \in TextOf
  /\ events = [f \in Files |-> "none"]
  /\ docs = Nothing
  /\ cached = Nothing
  /\ wsIndex = Nothing
  /\ looseIndex = Nothing
  /\ task = [k \in Tasks |-> IF k = Initial THEN [pc |-> "load", from |-> "initialized"] ELSE Idle]
  /\ main = Idle
  /\ edit = Idle
  /\ scans = 1
  /\ raced = {}

Scanning    == \E k \in Tasks : task[k] # Idle
From(h)     == \E k \in Tasks : task[k] # Idle /\ task[k].from = h
InitialDone == ~From("initialized")
On(who, f)  == who # Idle /\ who.file = f
Quiet       == ~Scanning /\ main = Idle /\ edit = Idle

MainOn(pcs, f) == main.pc \in pcs /\ main.file = f

(* What scan k has read of f and not yet acted on: its text; or that it is *)
(* in a folder to look through, or its scope.                              *)
HoldsText(k, f) == task[k].pc \in {"filter", "publish"} /\ task[k].parsed[f] # NoText

Holds(k, f) == \/ HoldsText(k, f)
               \/ task[k].pc = "read" /\ Home[f] \in task[k].roots
               \/ task[k].pc = "route" /\ task[k].scopes[f] # "closed"

(* A scan will route f again, if f is open then.                           *)
Routing(f) == \E k \in Tasks :
  /\ task[k] # Idle
  /\ task[k].from # "initialized"
  /\ task[k].pc = "route" => task[k].scopes[f] # "closed"

(* f is indexed as its buffer is, in its scope and in no other.            *)
Routed(f) ==
  IF InProject(f) THEN wsIndex[f] = docs[f] /\ looseIndex[f] = NoText
  ELSE looseIndex[f] = docs[f] /\ wsIndex[f] = NoText

(* The history variable.  One step reads a file's state and another acts   *)
(* on what was read, with any other in between.  A step races the file     *)
(* when it changes                                                         *)
(*   - its text on disk, that a scan has read and not published;           *)
(*   - whether it is in a workspace folder, which a scan, the main loop or *)
(*     the edit writer has read and not acted on;                          *)
(*   - its buffer, to a text other than the one the initial scan, which    *)
(*     routes no document afterwards, is about to publish for it;          *)
(*   - its cached parse, which didOpen has found to be the text opened;    *)
(*   - the document to a closed one, before a scan that is to route it     *)
(*     again after a folder change has done so.                            *)
Race(S) == raced' = raced \cup S

Overwritten(f, t) == \E k \in Tasks :
  /\ task[k].pc = "publish"
  /\ task[k].from = "initialized"
  /\ task[k].parsed[f] \notin {NoText, t}

Moving(f, to) == /\ InProject(f) # (Home[f] \in to)
                 /\ On(main, f) \/ On(edit, f) \/ \E k \in Tasks : Holds(k, f)

Unrouted(f) == Routing(f) /\ ~Routed(f)

-----------------------------------------------------------------------------
(* Scans.                                                                  *)

(* did_change_workspace_folders up to its first await.                     *)
ChangeFolders(k, added, removed) ==
  /\ scans < MaxScans
  /\ task[k] = Idle
  /\ roots' = (roots \ removed) \cup added
  /\ events' = [f \in Files |-> IF Home[f] \in removed THEN "none" ELSE events[f]]
  /\ task' = [task EXCEPT ![k] = IF removed = {} THEN [pc |-> "load", from |-> "folders"]
                                 ELSE [pc |-> "drop", removed |-> removed, from |-> "folders"]]
  /\ scans' = scans + 1
  /\ Race({f \in Files : Moving(f, roots')})
  /\ UNCHANGED <<disk, indexes, main, edit>>

(* did_change_configuration with a setting that needs a reindex; before    *)
(* initial_index_done it is an echo of the startup and does nothing.       *)
Reindex(k) ==
  /\ InitialDone
  /\ scans < MaxScans
  /\ task[k] = Idle
  /\ task' = [task EXCEPT ![k] = [pc |-> "load", from |-> "settings"]]
  /\ scans' = scans + 1
  /\ UNCHANGED <<roots, world, indexes, main, edit, raced>>

\* Variant: nothing is dropped.
DroppedNone(k) == {}

(* The removed folders' scripts, as far as they are cached.                *)
Dropped(k) == {f \in Files : cached[f] # NoText /\ Home[f] \in task[k].removed}

TaskDrop(k) ==
  /\ task[k].pc = "drop"
  /\ cached' = [f \in Files |-> IF f \in Dropped(k) THEN NoText ELSE cached[f]]
  /\ wsIndex' = [f \in Files |-> IF f \in Dropped(k) THEN NoText ELSE wsIndex[f]]
  /\ task' = [task EXCEPT ![k] = [pc |-> "load", from |-> "folders"]]
  /\ Race({f \in Files : MainOn({"reuse"}, f) /\ cached'[f] # cached[f]})
  /\ UNCHANGED <<roots, world, docs, looseIndex, main, edit, scans>>

\* Variant: the open documents are not routed again.
AfterIndexDone(k) == Idle

(* index_workspace is over; reindex_open_documents follows, except in the  *)
(* initialized handler.                                                    *)
AfterIndex(k) == IF task[k].from = "initialized" THEN Idle
                 ELSE [pc |-> "scopes", from |-> task[k].from]

TaskLoad(k) ==
  /\ task[k].pc = "load"
  /\ task' = [task EXCEPT ![k] =
       IF roots = {} THEN AfterIndex(k)
       ELSE [pc |-> "read", roots |-> roots, from |-> task[k].from]]
  /\ UNCHANGED <<roots, world, indexes, main, edit, scans, raced>>

(* The blocking part: collect, read and parse.                             *)
TaskRead(k) ==
  /\ task[k].pc = "read"
  /\ task' = [task EXCEPT ![k] =
       [pc |-> "filter", from |-> task[k].from,
        parsed |-> [f \in Files |-> IF Home[f] \in task[k].roots THEN disk[f] ELSE NoText]]]
  /\ UNCHANGED <<roots, world, indexes, main, edit, scans, raced>>

(* Files the editor has open by now are left out.                          *)
TaskFilter(k) ==
  /\ task[k].pc = "filter"
  /\ task' = [task EXCEPT ![k].pc = "publish",
                          ![k].parsed = [f \in Files |-> IF docs[f] # NoText THEN NoText
                                                         ELSE task[k].parsed[f]]]
  /\ UNCHANGED <<roots, world, indexes, main, edit, scans, raced>>

(* Files are added and replaced, never removed.                            *)
TaskPublish(k) ==
  /\ task[k].pc = "publish"
  /\ LET found(old) == [f \in Files |-> IF task[k].parsed[f] # NoText THEN task[k].parsed[f]
                                        ELSE old[f]]
     IN wsIndex' = found(wsIndex) /\ cached' = found(cached)
  /\ task' = [task EXCEPT ![k] = AfterIndex(k)]
  /\ Race({f \in Files : MainOn({"reuse"}, f) /\ cached'[f] # cached[f]})
  /\ UNCHANGED <<roots, world, docs, looseIndex, main, edit, scans>>

(* reindex_open_documents: the scopes of the open documents, and then      *)
(* route_document_to_index for those that are still open.                  *)
TaskScopes(k) ==
  /\ task[k].pc = "scopes"
  /\ task' = [task EXCEPT ![k] =
       IF docs = Nothing THEN Idle
       ELSE [pc |-> "route", from |-> task[k].from,
             scopes |-> [f \in Files |-> IF docs[f] = NoText THEN "closed" ELSE Scope(f)]]]
  /\ UNCHANGED <<roots, world, indexes, main, edit, scans, raced>>

TaskRoute(k) ==
  /\ task[k].pc = "route"
  /\ LET routed(f)    == task[k].scopes[f] # "closed" /\ docs[f] # NoText
         to(s, index) == [f \in Files |-> IF ~routed(f) THEN index[f]
                                          ELSE IF task[k].scopes[f] = s THEN docs[f] ELSE NoText]
     IN wsIndex' = to("project", wsIndex) /\ looseIndex' = to("loose", looseIndex)
  /\ task' = [task EXCEPT ![k] = Idle]
  /\ UNCHANGED <<roots, world, docs, cached, main, edit, scans, raced>>

-----------------------------------------------------------------------------
(* The main loop and the edit writer.                                      *)

(* route_document_to_index and the overlay, in one publish.                *)
Route(f, text, scope) ==
  /\ docs' = [docs EXCEPT ![f] = text]
  /\ wsIndex' = [wsIndex EXCEPT ![f] = IF scope = "project" THEN text ELSE NoText]
  /\ looseIndex' = [looseIndex EXCEPT ![f] = IF scope = "loose" THEN text ELSE NoText]

DidOpen(f, t) ==
  /\ main = Idle
  /\ docs[f] = NoText
  /\ main' = IF cached[f] = t THEN [pc |-> "reuse", file |-> f, text |-> t]
             ELSE [pc |-> "scope", file |-> f, text |-> t]
  /\ UNCHANGED <<roots, world, indexes, task, edit, scans, raced>>

OpenReuse ==
  /\ main.pc = "reuse"
  /\ docs' = [docs EXCEPT ![main.file] = main.text]
  /\ main' = Idle
  /\ Race({f \in {main.file} : Overwritten(f, main.text)})
  /\ UNCHANGED <<roots, world, cached, wsIndex, looseIndex, task, edit, scans>>

(* publish_open_document_indices reads the scope before writer_lock.       *)
OpenScope ==
  /\ main.pc = "scope"
  /\ main' = [pc |-> "publish", file |-> main.file, text |-> main.text,
              scope |-> Scope(main.file)]
  /\ UNCHANGED <<roots, world, indexes, task, edit, scans, raced>>

OpenPublish ==
  /\ main.pc = "publish"
  /\ Route(main.file, main.text, main.scope)
  /\ main' = Idle
  /\ Race({f \in {main.file} : Overwritten(f, main.text)})
  /\ UNCHANGED <<roots, world, cached, task, edit, scans>>

EditScope(f, t) ==
  /\ edit = Idle
  /\ docs[f] \notin {NoText, t}
  /\ ~On(main, f)
  /\ edit' = [pc |-> "publish", file |-> f, text |-> t, scope |-> Scope(f)]
  /\ UNCHANGED <<roots, world, indexes, task, main, scans, raced>>

EditPublish ==
  /\ edit.pc = "publish"
  /\ Route(edit.file, edit.text, edit.scope)
  /\ edit' = Idle
  /\ Race({f \in {edit.file} : Overwritten(f, edit.text)})
  /\ UNCHANGED <<roots, world, cached, task, main, scans>>

(* Closed after its last edit was published; the scope decides.            *)
DidClose(f) ==
  /\ main = Idle
  /\ docs[f] # NoText
  /\ ~On(edit, f)
  /\ main' = IF InProject(f) THEN [pc |-> "close", file |-> f, prior |-> docs[f]]
             ELSE [pc |-> "dropLoose", file |-> f]
  /\ UNCHANGED <<roots, world, indexes, task, edit, scans, raced>>

CloseLoose ==
  /\ main.pc = "dropLoose"
  /\ docs' = [docs EXCEPT ![main.file] = NoText]
  /\ looseIndex' = [looseIndex EXCEPT ![main.file] = NoText]
  /\ main' = Idle
  /\ Race({f \in {main.file} : Unrouted(f)})
  /\ UNCHANGED <<roots, world, cached, wsIndex, task, edit, scans>>

CloseRead ==
  /\ main.pc = "close"
  /\ LET f == main.file IN
     main' = IF main.prior = disk[f]
             THEN [pc |-> "closeUnedited", file |-> f,
                   text |-> IF docs[f] # cached[f] THEN docs[f] ELSE cached[f]]
             ELSE [pc |-> "closeReindex", file |-> f, text |-> disk[f]]
  /\ UNCHANGED <<roots, world, indexes, task, edit, scans, raced>>

(* A cached parse older than the buffer is replaced by the buffer's.       *)
CloseUnedited ==
  /\ main.pc = "closeUnedited"
  /\ docs' = [docs EXCEPT ![main.file] = NoText]
  /\ cached' = [cached EXCEPT ![main.file] = main.text]
  /\ main' = Idle
  /\ Race({f \in {main.file} : Unrouted(f)})
  /\ UNCHANGED <<roots, world, wsIndex, looseIndex, task, edit, scans>>

CloseReindex ==
  /\ main.pc = "closeReindex"
  /\ docs' = [docs EXCEPT ![main.file] = NoText]
  /\ wsIndex' = [wsIndex EXCEPT ![main.file] = main.text]
  /\ cached' = [cached EXCEPT ![main.file] = main.text]
  /\ main' = Idle
  /\ Race({f \in {main.file} : Unrouted(f)})
  /\ UNCHANGED <<roots, world, looseIndex, task, edit, scans>>

(* apply_watched_file_events on one event: read now, publish later.        *)
Watched(f) ==
  /\ main = Idle
  /\ events[f] # "none"
  /\ events' = [events EXCEPT ![f] = "none"]
  /\ main' = IF docs[f] # NoText THEN Idle
             ELSE IF events[f] = "deleted" THEN [pc |-> "remove", file |-> f, text |-> NoText]
             ELSE IF disk[f] = NoText THEN Idle
             ELSE [pc |-> "upsert", file |-> f, text |-> disk[f]]
  /\ UNCHANGED <<roots, disk, indexes, task, edit, scans, raced>>

PublishWatched ==
  /\ main.pc \in {"upsert", "remove"}
  /\ wsIndex' = [wsIndex EXCEPT ![main.file] = main.text]
  /\ cached' = [cached EXCEPT ![main.file] = main.text]
  /\ main' = Idle
  /\ UNCHANGED <<roots, world, docs, looseIndex, task, edit, scans, raced>>

(* The editor saves, other programs write and delete.  The client reports  *)
(* on the workspace folders and coalesces the events of a file.            *)
FileChange(f, t) ==
  /\ disk[f] # t
  /\ disk' = [disk EXCEPT ![f] = t]
  /\ events' = IF InProject(f)
               THEN [events EXCEPT ![f] = IF t = NoText THEN "deleted" ELSE "changed"]
               ELSE events
  /\ Race({g \in {f} : \E k \in Tasks : HoldsText(k, g)})
  /\ UNCHANGED <<roots, indexes, task, main, edit, scans>>

-----------------------------------------------------------------------------
Scan(k) == \/ Reindex(k)
           \/ \E added, removed \in SUBSET Folders :
                added \cap removed = {} /\ added \cup removed # {}
                /\ ChangeFolders(k, added, removed)
           \/ TaskDrop(k) \/ TaskLoad(k) \/ TaskRead(k) \/ TaskFilter(k)
           \/ TaskPublish(k) \/ TaskScopes(k) \/ TaskRoute(k)

MainLoop == \/ OpenReuse \/ OpenScope \/ OpenPublish \/ CloseLoose \/ CloseRead
            \/ CloseUnedited \/ CloseReindex \/ PublishWatched
            \/ \E f \in Files : DidClose(f) \/ Watched(f) \/ \E t \in Texts : DidOpen(f, t)

Next == \/ \E k \in Tasks : Scan(k)
        \/ MainLoop
        \/ EditPublish
        \/ \E f \in Files, t \in Texts : EditScope(f, t)
        \/ \E f \in Files, t \in MaybeText : FileChange(f, t)

Spec == Init /\ [][Next]_vars

-----------------------------------------------------------------------------
(* Properties.                                                             *)

\* Once nobody is at work, the symbols of an open document are those of its
\* buffer, in the index of the scope it has now and in no other, whatever ran
\* beside what, unless something a step had read of it changed under the step
\* (route_document_to_index, index_workspace, reindex_open_documents).
OpenRouted == Quiet => \A f \in Files \ raced : docs[f] # NoText => Routed(f)

\* Once nobody is at work and its events are delivered, a closed file is
\* indexed and cached as the disk has it if it is in a workspace folder, and
\* nowhere otherwise: a removed folder leaves nothing behind; with the same
\* exception (did_change_workspace_folders, reindex_closed_file).
ClosedIndexed ==
  Quiet => \A f \in Files \ raced : docs[f] = NoText /\ events[f] = "none" =>
    LET text == IF InProject(f) THEN disk[f] ELSE NoText IN
    wsIndex[f] = text /\ cached[f] = text /\ looseIndex[f] = NoText
=============================================================================
