------------------------------ MODULE TextSync ------------------------------
(***************************************************************************)
(* Text synchronisation of the language server: the document lifecycle of  *)
(* text_sync.rs, the edit queue of edit_queue.rs, the open-document        *)
(* publishing of indexing/open_documents.rs and the script events of       *)
(* watcher.rs.                                                             *)
(*                                                                         *)
(* Three parties run concurrently:                                         *)
(*  - the main loop handles did_open, did_change, did_close and watched    *)
(*    file notifications one at a time, in the order they arrive;          *)
(*  - the edit writer, a background task, parses queued edits and          *)
(*    publishes them;                                                      *)
(*  - the world: the editor saves buffers, other programs write files.     *)
(* A handler is split where another party can see the difference: at a     *)
(* snapshot that is used later, at a disk read and at a publish.           *)
(*                                                                         *)
(* A text is an opaque value.  An incremental change is the pair of texts  *)
(* the editor went between; applied to any other text it yields Garbled or *)
(* is out of range.  Uris holds documents that are neither built in nor    *)
(* excluded, whose scope does not change (Loose or not).                   *)
(***************************************************************************)
EXTENDS Naturals, Sequences, FiniteSets

CONSTANTS
  Uris,              \* documents
  Loose,             \* documents outside every workspace folder
  Texts,             \* texts the editor or the disk can hold
  Garbled,           \* a text nobody wrote
  NoText,            \* absent: not open, not indexed, no such file
  FullReplace,       \* the editor may send changes without a range
  CloseWhilePending, \* the editor may close a document with a queued edit
  ParseMayFail,      \* a parse may return no tree
  MaxVersion,        \* bound on allocated parse versions
  MaxEvents,         \* bound on undelivered file events
  MaxBatch           \* bound on file events delivered together

ASSUME SetAssumption ==
  /\ Loose \subseteq Uris
  /\ NoText \notin Texts
  /\ Garbled \notin Texts
  /\ Garbled # NoText
ASSUME FlagAssumption ==
  /\ FullReplace \in BOOLEAN
  /\ CloseWhilePending \in BOOLEAN
  /\ ParseMayFail \in BOOLEAN
ASSUME BoundAssumption ==
  /\ MaxVersion \in Nat \ {0}
  /\ MaxEvents \in Nat
  /\ MaxBatch \in Nat

VARIABLES
  client,      \* client[u]: the editor's text of u as of the last notification
  disk,        \* disk[u]: the text of the file, NoText when it cannot be read
  documents,   \* open overlay of the published Compilation
  wsDocs,      \* workspace_documents: parses of files as read from disk
  index,       \* index[u]: the text whose symbols the index holds for u
  pending,     \* pending_edits: the queued edit of u
  nextVersion, \* PARSE_VERSION
  spawned,     \* edit_writer_spawned
  notify,      \* the permit of edit_notify
  tree,        \* who holds tree_pipeline: "free", "main" or "writer"
  main,        \* what the main loop is in the middle of
  wpc,         \* where the edit writer is
  todo,        \* the uris of the writer's current round not yet visited
  job,         \* the edit the writer has cloned
  events       \* file events not yet delivered

editor == <<client, disk, events>>
store  == <<documents, wsDocs, index>>
queue  == <<pending, nextVersion, spawned, notify, tree>>
writer == <<wpc, todo, job>>
vars   == <<client, disk, documents, wsDocs, index, pending, nextVersion,
            spawned, notify, tree, main, wpc, todo, job, events>>

-----------------------------------------------------------------------------
(* A parsed document: its text and its parse version.                      *)
AnyText == Texts \cup {Garbled, NoText}
Doc     == [text : AnyText, version : 0 .. MaxVersion]
Absent  == [text |-> NoText, version |-> 0]
Present(d) == d.text # NoText

Ready == [op |-> "ready"]
NoJob == [uri |-> NoText, edit |-> Absent]
Event == [uri : Uris, kind : {"changed", "deleted"}]

MainState ==
  {Ready}
  \cup [op : {"reuse", "publish"}, uri : Uris, doc : Doc]
  \cup [op : {"enqueue", "close", "closeReindex"}, uri : Uris, text : AnyText]
  \cup [op : {"closeUnedited"}, uri : Uris, doc : Doc, stale : BOOLEAN]
  \cup [op : {"dropLoose"}, uri : Uris]
  \cup [op : {"watched"}, updates : [Uris -> AnyText], removals : SUBSET Uris]

\* Types, and who holds what: the writer has an edit in hand exactly between
\* cloning it and removing it, and tree_pipeline exactly while it processes it.
TypeOK ==
  /\ client \in [Uris -> Texts \cup {NoText}]
  /\ disk \in [Uris -> Texts \cup {NoText}]
  /\ documents \in [Uris -> Doc]
  /\ wsDocs \in [Uris -> Doc]
  /\ index \in [Uris -> AnyText]
  /\ pending \in [Uris -> Doc]
  /\ nextVersion \in 1 .. MaxVersion + 1
  /\ spawned \in BOOLEAN
  /\ notify \in BOOLEAN
  /\ tree \in {"free", "main", "writer"}
  /\ main \in MainState
  /\ wpc \in {"wait", "collect", "take", "publish", "remove"}
  /\ todo \subseteq Uris
  /\ job \in {NoJob} \cup [uri : Uris, edit : Doc]
  /\ events \in Seq(Event)
  /\ job = NoJob <=> wpc \notin {"publish", "remove"}
  /\ tree = "writer" <=> wpc = "publish"

-----------------------------------------------------------------------------
(* Without a workspace folder every file is loose, nothing is indexed and  *)
(* the writer is not yet running.  With one, the initial index has run.    *)
Init ==
  /\ client = [u \in Uris |-> NoText]
  /\ disk \in [Uris -> Texts \cup {NoText}]
  /\ documents = [u \in Uris |-> Absent]
  /\ wsDocs = [u \in Uris |-> IF u \in Loose \/ disk[u] = NoText THEN Absent
                              ELSE [text |-> disk[u], version |-> 1]]
  /\ index = [u \in Uris |-> wsDocs[u].text]
  /\ pending = [u \in Uris |-> Absent]
  /\ nextVersion = 2
  /\ spawned = (Loose # Uris)
  /\ notify = FALSE
  /\ tree = "free"
  /\ main = Ready
  /\ wpc = "wait"
  /\ todo = {}
  /\ job = NoJob
  /\ events = <<>>

CanAllocate == nextVersion <= MaxVersion

\* Variant: the queue is not consulted.
LatestPublished(u) == documents[u].text

(* latest_edit_state: the queued edit if there is one, else the overlay.   *)
Latest(u) == IF Present(pending[u]) THEN pending[u].text ELSE documents[u].text

(* apply_content_change of the editor's step from one text to another.     *)
Applied(base, from, to) ==
  CASE base = NoText -> {NoText}           \* did_change before did_open
    [] base = from   -> {to}
    [] OTHER         -> {Garbled, NoText}  \* NoText: out of range, dropped

(* publish_open_document_indices: the document enters the overlay and the  *)
(* index its scope routes it to, in one swap of the Compilation.           *)
PublishOpen(u, doc) ==
  /\ documents' = [documents EXCEPT ![u] = doc]
  /\ index' = [index EXCEPT ![u] = doc.text]
  /\ UNCHANGED wsDocs

ReleaseTree == tree' = IF tree = "main" THEN "free" ELSE tree

(* update_open_document up to its publish.  Bytes the server already has   *)
(* parsed are reused; anything else is parsed again.                       *)
KnownCopy(u) == IF Present(documents[u]) THEN documents[u] ELSE wsDocs[u]

UpdateOpenDocument(u, t) ==
  \/ /\ KnownCopy(u).text = t
     /\ main' = IF Present(documents[u]) THEN Ready
                ELSE [op |-> "reuse", uri |-> u, doc |-> KnownCopy(u)]
     /\ UNCHANGED nextVersion
  \/ /\ KnownCopy(u).text # t
     /\ ParseMayFail
     /\ main' = Ready
     /\ UNCHANGED nextVersion
  \/ /\ KnownCopy(u).text # t
     /\ CanAllocate
     /\ main' = [op  |-> "publish", uri |-> u,
                 doc |-> [text |-> t, version |-> nextVersion]]
     /\ nextVersion' = nextVersion + 1

-----------------------------------------------------------------------------
(* The main loop.                                                          *)

DidOpen(u, t) ==
  /\ main = Ready
  /\ client[u] = NoText
  /\ client' = [client EXCEPT ![u] = t]
  /\ UpdateOpenDocument(u, t)
  /\ UNCHANGED <<disk, events, store, pending, spawned, notify, tree, writer>>

(* did_change with ranges: applied to the latest known text, then queued.  *)
(* tree_pipeline is held from before the read until after the enqueue.     *)
DidChange(u, t) ==
  /\ main = Ready
  /\ client[u] \notin {NoText, t}
  /\ tree = "free"
  /\ CanAllocate
  /\ client' = [client EXCEPT ![u] = t]
  /\ \E next \in Applied(Latest(u), client[u], t) :
       IF next = NoText
       THEN UNCHANGED <<main, tree>>
       ELSE /\ main' = [op |-> "enqueue", uri |-> u, text |-> next]
            /\ tree' = "main"
  /\ UNCHANGED <<disk, events, store, pending, nextVersion, spawned, notify, writer>>

(* did_change without a range: the queue is bypassed.                      *)
DidChangeFull(u, t) ==
  /\ FullReplace
  /\ main = Ready
  /\ client[u] \notin {NoText, t}
  /\ tree = "free"
  /\ client' = [client EXCEPT ![u] = t]
  /\ IF Latest(u) = NoText
     THEN UNCHANGED <<main, nextVersion, tree>>
     ELSE /\ UpdateOpenDocument(u, t)
          /\ tree' = IF main' = Ready THEN "free" ELSE "main"
  /\ UNCHANGED <<disk, events, store, pending, spawned, notify, writer>>

(* The overlay-only publish of reuse_unchanged_open_document.              *)
ReuseDocument ==
  /\ main.op = "reuse"
  /\ documents' = [documents EXCEPT ![main.uri] = main.doc]
  /\ main' = Ready
  /\ ReleaseTree
  /\ UNCHANGED <<editor, wsDocs, index, pending, nextVersion, spawned, notify, writer>>

PublishDocument ==
  /\ main.op = "publish"
  /\ PublishOpen(main.uri, main.doc)
  /\ main' = Ready
  /\ ReleaseTree
  /\ UNCHANGED <<editor, pending, nextVersion, spawned, notify, writer>>

\* Variant: the writer is not woken.
EnqueueEditSilently ==
  /\ main.op = "enqueue"
  /\ pending' = [pending EXCEPT ![main.uri] = [text |-> main.text, version |-> nextVersion]]
  /\ nextVersion' = nextVersion + 1
  /\ main' = Ready
  /\ tree' = "free"
  /\ UNCHANGED <<editor, store, spawned, notify, writer>>

\* Variant: the edit keeps the version of the text it was applied to.
EnqueueEditSameVersion ==
  /\ main.op = "enqueue"
  /\ pending' = [pending EXCEPT ![main.uri] =
                   [text |-> main.text, version |-> documents[main.uri].version]]
  /\ notify' = TRUE
  /\ main' = Ready
  /\ tree' = "free"
  /\ UNCHANGED <<editor, store, nextVersion, spawned, writer>>

(* enqueue_edit: until the writer runs, the edit is processed on the spot; *)
(* afterwards it replaces the queued edit, if any, and wakes the writer.   *)
EnqueueEdit ==
  /\ main.op = "enqueue"
  /\ LET edit == [text |-> main.text, version |-> nextVersion] IN
     IF spawned
     THEN /\ pending' = [pending EXCEPT ![main.uri] = edit]
          /\ notify' = TRUE
          /\ UNCHANGED store
     ELSE /\ \/ PublishOpen(main.uri, edit)
             \/ ParseMayFail /\ UNCHANGED store
          /\ UNCHANGED <<pending, notify>>
  /\ nextVersion' = nextVersion + 1
  /\ main' = Ready
  /\ tree' = "free"
  /\ UNCHANGED <<editor, spawned, writer>>

(* did_close takes no part in tree_pipeline and leaves pending_edits alone.*)
(* An in-scope file is compared with the overlay text of this snapshot.    *)
DidClose(u) ==
  /\ main = Ready
  /\ client[u] # NoText
  /\ CanAllocate
  /\ CloseWhilePending \/ ~Present(pending[u])
  /\ client' = [client EXCEPT ![u] = NoText]
  /\ main' = IF u \in Loose
             THEN [op |-> "dropLoose", uri |-> u]
             ELSE [op |-> "close", uri |-> u, text |-> documents[u].text]
  /\ UNCHANGED <<disk, events, store, queue, writer>>

(* A loose file leaves the overlay and the loose index; disk is not read.  *)
DropLoose ==
  /\ main.op = "dropLoose"
  /\ documents' = [documents EXCEPT ![main.uri] = Absent]
  /\ index' = [index EXCEPT ![main.uri] = NoText]
  /\ main' = Ready
  /\ UNCHANGED <<editor, wsDocs, queue, writer>>

\* Variant: the cached parse is never refreshed.
StaleCacheNever(u) == FALSE

(* reindex_closed_file: read the disk and compare.  An unedited buffer     *)
(* takes a second snapshot to see whether the cached parse is older than   *)
(* the buffer; an edited one parses what the disk holds.                   *)
StaleCache(u) == Present(documents[u]) /\ wsDocs[u].text # documents[u].text

CloseRead ==
  /\ main.op = "close"
  /\ LET u == main.uri IN
     IF main.text = disk[u] /\ disk[u] # NoText
     THEN main' = [op |-> "closeUnedited", uri |-> u, doc |-> documents[u],
                   stale |-> StaleCache(u)]
     ELSE \E parsed \in {disk[u]} \cup (IF ParseMayFail THEN {NoText} ELSE {}) :
            main' = [op |-> "closeReindex", uri |-> u, text |-> parsed]
  /\ UNCHANGED <<editor, store, queue, writer>>

CloseUnedited ==
  /\ main.op = "closeUnedited"
  /\ documents' = [documents EXCEPT ![main.uri] = Absent]
  /\ wsDocs' = IF main.stale THEN [wsDocs EXCEPT ![main.uri] = main.doc] ELSE wsDocs
  /\ main' = Ready
  /\ UNCHANGED <<editor, index, queue, writer>>

\* Variant: the cached parse is reverted, the index is not.
CloseReindexDocs ==
  /\ main.op = "closeReindex"
  /\ documents' = [documents EXCEPT ![main.uri] = Absent]
  /\ wsDocs' = [wsDocs EXCEPT ![main.uri] = [text |-> main.text, version |-> nextVersion]]
  /\ nextVersion' = nextVersion + 1
  /\ main' = Ready
  /\ UNCHANGED <<editor, index, pending, spawned, notify, tree, writer>>

(* reindex_into: the file's own content, or nothing, replaces the buffer's.*)
CloseReindex ==
  /\ main.op = "closeReindex"
  /\ documents' = [documents EXCEPT ![main.uri] = Absent]
  /\ index' = [index EXCEPT ![main.uri] = main.text]
  /\ wsDocs' = [wsDocs EXCEPT ![main.uri] =
                  IF main.text = NoText THEN Absent
                  ELSE [text |-> main.text, version |-> nextVersion]]
  /\ nextVersion' = nextVersion + 1
  /\ main' = Ready
  /\ UNCHANGED <<editor, pending, spawned, notify, tree, writer>>

(* apply_watched_file_events on the first n undelivered events: files open *)
(* in the overlay are skipped, changed ones are read and parsed now, and   *)
(* the updates of a batch are published before its removals.               *)
Delivered(n, kind) ==
  {u \in Uris : /\ ~Present(documents[u])
                /\ \E i \in 1 .. n : events[i] = [uri |-> u, kind |-> kind]}

WatchedEvents(n) ==
  /\ main = Ready
  /\ CanAllocate
  /\ n <= Len(events)
  /\ events' = SubSeq(events, n + 1, Len(events))
  /\ \E unparsed \in IF ParseMayFail THEN SUBSET Uris ELSE {{}} :
     LET updates  == [u \in Uris |-> IF u \in Delivered(n, "changed") \ unparsed
                                     THEN disk[u] ELSE NoText]
         removals == Delivered(n, "deleted")
     IN main' = IF removals = {} /\ \A u \in Uris : updates[u] = NoText
                THEN Ready
                ELSE [op |-> "watched", updates |-> updates, removals |-> removals]
  /\ UNCHANGED <<client, disk, store, queue, writer>>

PublishWatched ==
  /\ main.op = "watched"
  /\ wsDocs' = [u \in Uris |->
       IF u \in main.removals THEN Absent
       ELSE IF main.updates[u] # NoText
            THEN [text |-> main.updates[u], version |-> nextVersion]
            ELSE wsDocs[u]]
  /\ index' = [u \in Uris |->
       IF u \in main.removals THEN NoText
       ELSE IF main.updates[u] # NoText THEN main.updates[u] ELSE index[u]]
  /\ nextVersion' = nextVersion + 1
  /\ main' = Ready
  /\ UNCHANGED <<editor, documents, pending, spawned, notify, tree, writer>>

-----------------------------------------------------------------------------
(* The edit writer.                                                        *)

SpawnEditWriter ==
  /\ ~spawned
  /\ spawned' = TRUE
  /\ UNCHANGED <<editor, store, pending, nextVersion, notify, tree, main, writer>>

WriterWake ==
  /\ spawned
  /\ wpc = "wait"
  /\ notify
  /\ notify' = FALSE
  /\ wpc' = "collect"
  /\ UNCHANGED <<editor, store, pending, nextVersion, spawned, tree, main, todo, job>>

WriterCollect ==
  /\ wpc = "collect"
  /\ todo' = {u \in Uris : Present(pending[u])}
  /\ wpc' = IF todo' = {} THEN "wait" ELSE "take"
  /\ UNCHANGED <<editor, store, queue, main, job>>

Visited(u) ==
  /\ todo' = todo \ {u}
  /\ wpc' = IF todo' = {} THEN "collect" ELSE "take"

(* The entry stays queued while it is processed, so that a did_change in   *)
(* between still starts from it.                                           *)
WriterTake(u) ==
  /\ wpc = "take"
  /\ u \in todo
  /\ tree = "free"
  /\ IF Present(pending[u])
     THEN /\ job' = [uri |-> u, edit |-> pending[u]]
          /\ tree' = "writer"
          /\ wpc' = "publish"
          /\ UNCHANGED todo
     ELSE /\ Visited(u)
          /\ UNCHANGED <<job, tree>>
  /\ UNCHANGED <<editor, store, pending, nextVersion, spawned, notify, main>>

\* Variant: the tree guard lives to the end of the loop body.
WriterPublishHoldsGuard ==
  /\ wpc = "publish"
  /\ PublishOpen(job.uri, job.edit)
  /\ wpc' = "remove"
  /\ UNCHANGED <<editor, pending, nextVersion, spawned, notify, tree, main, todo, job>>

\* Variant: the document keeps the version its parse allocated.
WriterPublishOwnVersion ==
  /\ wpc = "publish"
  /\ CanAllocate
  /\ PublishOpen(job.uri, [job.edit EXCEPT !.version = nextVersion])
  /\ nextVersion' = nextVersion + 1
  /\ tree' = "free"
  /\ wpc' = "remove"
  /\ UNCHANGED <<editor, pending, spawned, notify, main, todo, job>>

(* process_pending_edit: parsed, stamped with the version reserved when it *)
(* was queued, published; without a parse it is given up.                  *)
WriterPublish ==
  /\ wpc = "publish"
  /\ \/ PublishOpen(job.uri, job.edit)
     \/ ParseMayFail /\ UNCHANGED store
  /\ tree' = "free"
  /\ wpc' = "remove"
  /\ UNCHANGED <<editor, pending, nextVersion, spawned, notify, main, todo, job>>

\* Variant: the entry goes whatever it holds by now.
WriterRemoveAny ==
  /\ wpc = "remove"
  /\ pending' = [pending EXCEPT ![job.uri] = Absent]
  /\ Visited(job.uri)
  /\ job' = NoJob
  /\ UNCHANGED <<editor, store, nextVersion, spawned, notify, tree, main>>

\* Variant: the comparison is inverted.
WriterRemoveInverted ==
  /\ wpc = "remove"
  /\ pending' = IF pending[job.uri].version # job.edit.version
                THEN [pending EXCEPT ![job.uri] = Absent]
                ELSE pending
  /\ Visited(job.uri)
  /\ job' = NoJob
  /\ UNCHANGED <<editor, store, nextVersion, spawned, notify, tree, main>>

(* The entry goes unless a newer edit has replaced it meanwhile.           *)
WriterRemove ==
  /\ wpc = "remove"
  /\ pending' = IF pending[job.uri].version = job.edit.version
                THEN [pending EXCEPT ![job.uri] = Absent]
                ELSE pending
  /\ Visited(job.uri)
  /\ job' = NoJob
  /\ UNCHANGED <<editor, store, nextVersion, spawned, notify, tree, main>>

-----------------------------------------------------------------------------
(* The world outside the server.  File events cover workspace folders.     *)

Notice(u, kind) ==
  IF u \in Loose THEN UNCHANGED events
  ELSE /\ Len(events) < MaxEvents
       /\ events' = Append(events, [uri |-> u, kind |-> kind])

Save(u) ==
  /\ client[u] \notin {NoText, disk[u]}
  /\ disk' = [disk EXCEPT ![u] = client[u]]
  /\ Notice(u, "changed")
  /\ UNCHANGED <<client, store, queue, main, writer>>

ExternalWrite(u, t) ==
  /\ disk[u] # t
  /\ disk' = [disk EXCEPT ![u] = t]
  /\ Notice(u, "changed")
  /\ UNCHANGED <<client, store, queue, main, writer>>

ExternalDelete(u) ==
  /\ disk[u] # NoText
  /\ disk' = [disk EXCEPT ![u] = NoText]
  /\ Notice(u, "deleted")
  /\ UNCHANGED <<client, store, queue, main, writer>>

-----------------------------------------------------------------------------
Handler == \/ ReuseDocument \/ PublishDocument \/ EnqueueEdit
           \/ DropLoose \/ CloseRead \/ CloseUnedited \/ CloseReindex
           \/ PublishWatched

Notification == \/ \E u \in Uris, t \in Texts : \/ DidOpen(u, t)
                                                \/ DidChange(u, t)
                                                \/ DidChangeFull(u, t)
                \/ \E u \in Uris : DidClose(u)
                \/ \E n \in 1 .. MaxBatch : WatchedEvents(n)

Writer == \/ WriterWake \/ WriterCollect \/ WriterPublish \/ WriterRemove
          \/ \E u \in Uris : WriterTake(u)

World == \/ \E u \in Uris : Save(u) \/ ExternalDelete(u)
         \/ \E u \in Uris, t \in Texts : ExternalWrite(u, t)

Next == Handler \/ Notification \/ Writer \/ SpawnEditWriter \/ World

Spec == Init /\ [][Next]_vars

(* A handler that has started runs to its end; the writer task keeps       *)
(* running, and parking_lot's fair unlocking lets it get tree_pipeline     *)
(* however often the main loop takes it.                                   *)
FairSpec == /\ Spec
            /\ WF_vars(Handler)
            /\ WF_vars(WriterWake \/ WriterCollect \/ WriterPublish \/ WriterRemove)
            /\ \A u \in Uris : SF_vars(WriterTake(u))
-----------------------------------------------------------------------------
(* Properties.                                                             *)

\* The environment in which the text the server holds is exact: the editor
\* sends ranged changes only (the server advertises incremental sync), a
\* document is closed after its last edit was published, parses succeed.
Exact == ~FullReplace /\ ~CloseWhilePending /\ ~ParseMayFail

\* The text the next did_change will be applied to (latest_edit_state) is the
\* text the editor has: ranges are never applied to another text.
LatestIsClient ==
  main = Ready => \A u \in Uris : client[u] # NoText => Latest(u) = client[u]

\* Queries resolve symbols through the index and positions through the
\* overlay: for an open document both come from the same text
\* (publish_open_document_indices, reuse_unchanged_open_document).
OpenIndexed ==
  \A u \in Uris : Present(documents[u]) => index[u] = documents[u].text

\* A closed document leaves the overlay for good, whatever the writer still
\* does, and a loose one the loose index (did_close).  Once the events of a
\* closed project file are delivered, index and cached parse hold the file's
\* content: unsaved text is reverted (reindex_closed_file) and external
\* changes are picked up (apply_watched_file_events), whichever came first.
ClosedFollowsDisk ==
  main = Ready =>
    \A u \in Uris : client[u] = NoText =>
      /\ ~Present(documents[u])
      /\ u \in Loose => index[u] = NoText
      /\ u \notin Loose /\ (\A i \in 1 .. Len(events) : events[i].uri # u)
           => index[u] = disk[u] /\ wsDocs[u].text = disk[u]

\* A queued edit whose text is not yet in the overlay has a version above the
\* overlay's: document_diagnostic relies on it to answer ContentModified.
PendingAhead ==
  \A u \in Uris : Present(pending[u]) =>
    \/ pending[u] = documents[u]
    \/ pending[u].version > documents[u].version

\* A parse version names one text of a document, wherever a copy is held:
\* result ids and the diagnostics cache compare versions, never texts.
VersionNamesText ==
  \A u \in Uris : \A d, e \in {documents[u], wsDocs[u], pending[u]} :
    d.version = e.version => d = e

\* While an edit is queued the writer is at work or has a permit to wake up:
\* notify_one after the insert, and the re-collect before each wait.
NoLostWakeup ==
  (\E u \in Uris : Present(pending[u])) => spawned /\ (notify \/ wpc # "wait")

\* Every queued edit is eventually processed (run_edit_writer).
QueueDrains ==
  \A u \in Uris : Present(pending[u]) ~> ~Present(pending[u])

\* The open overlay implements Mirror: it only ever moves to the text the
\* editor has at that moment.
Overlay == INSTANCE Mirror WITH view <- [u \in Uris |-> documents[u].text]

\* Safety part of the refinement: no publish of the main loop or of the edit
\* writer brings back an older text or a closed document.
MirrorsEditor == Overlay!Spec

\* With fairness: the overlay also catches up with the editor.
CatchesUp == Overlay!FairSpec
=============================================================================
