--------------------------- MODULE TextSyncProofs ---------------------------
(***************************************************************************)
(* Theorems about TextSync, for every set of documents and texts and every *)
(* bound.  The first part holds whatever the environment does; the second  *)
(* and the third, about the index and the parse cache, assume the          *)
(* environment Exact describes.                                            *)
(***************************************************************************)
EXTENDS TextSync, TLAPS

-----------------------------------------------------------------------------
(* The inductive invariants.                                               *)

\* A handler that will allocate a parse version still can, and the main loop
\* has tree_pipeline while it queues an edit.
Reserved ==
  /\ main.op \in {"enqueue", "close", "closeReindex", "watched"} => CanAllocate
  /\ main.op = "enqueue" => tree = "main"

\* d is a copy of document u held anywhere: in the overlay, the cache or the
\* queue, in the hands of the main loop or of the writer.
Held(u, d) ==
  \/ d = documents[u]
  \/ d = wsDocs[u]
  \/ d = pending[u]
  \/ main.op \in {"reuse", "publish", "closeUnedited"} /\ main.uri = u /\ d = main.doc
  \/ job # NoJob /\ job.uri = u /\ d = job.edit

\* All copies of a document agree on what a version stands for, no version is
\* used before it is allocated, and version 0 stands for no document.
VersionsInv ==
  \A u \in Uris : \A d, e \in Doc :
    Held(u, d) /\ Held(u, e) =>
      /\ d.version < nextVersion
      /\ d.version = 0 => d = Absent
      /\ d.version = e.version => d = e

MainOn(ops, u) == main.op \in ops /\ main.uri = u
Closing == {"close", "closeUnedited", "closeReindex", "dropLoose"}

\* What the main loop is about to publish or queue is the editor's text.
MainExact ==
  \A u \in Uris :
    /\ MainOn({"reuse", "publish"}, u) => main.doc.text = client[u] /\ ~Present(pending[u])
    /\ MainOn({"enqueue"}, u) => main.text = client[u]
    /\ MainOn({"reuse", "publish", "enqueue"}, u) => client[u] # NoText
    /\ MainOn(Closing, u) => client[u] = NoText

\* A queued edit is the editor's text unless the main loop holds a newer one,
\* and its version is above the overlay's until the overlay has it.
PendingExact ==
  \A u \in Uris : Present(pending[u]) =>
    /\ spawned
    /\ client[u] # NoText
    /\ pending[u].text = client[u] \/ MainOn({"enqueue"}, u)
    /\ pending[u] = documents[u] \/ pending[u].version > documents[u].version

\* An open document with nothing on its way to the overlay is in the overlay,
\* and a document that is neither open nor being closed is not.
OverlayExact ==
  \A u \in Uris :
    /\ client[u] # NoText /\ ~Present(pending[u]) /\ ~MainOn({"reuse", "publish", "enqueue"}, u)
         => documents[u].text = client[u]
    /\ client[u] = NoText /\ ~MainOn(Closing, u) => ~Present(documents[u])

\* The edit in the writer's hands is still the queued one until it is
\* published; while it is queued afterwards, the overlay has it.
WriterExact ==
  /\ wpc \in {"publish", "remove"} => Present(job.edit)
  /\ wpc = "publish" => pending[job.uri] = job.edit
  /\ wpc = "remove" /\ pending[job.uri] = job.edit => documents[job.uri] = job.edit

ExactInv == MainExact /\ PendingExact /\ OverlayExact /\ WriterExact

-----------------------------------------------------------------------------
(* Types.                                                                  *)

\* What the fields of the main loop's state are, by operation.
LEMMA MainShape ==
  ASSUME main \in MainState
  PROVE  /\ main = Ready <=> main.op = "ready"
         /\ main.op \in {"reuse", "publish", "closeUnedited"} =>
              main.uri \in Uris /\ main.doc \in Doc
         /\ main.op \in {"enqueue", "close", "closeReindex"} =>
              main.uri \in Uris /\ main.text \in AnyText
         /\ main.op = "dropLoose" => main.uri \in Uris
         /\ main.op = "watched" =>
              main.updates \in [Uris -> AnyText] /\ main.removals \subseteq Uris
  BY DEF MainState, Ready

\* The states the main loop is put into.
LEMMA MainMake ==
  /\ Ready \in MainState
  /\ \A u \in Uris, d \in Doc : /\ [op |-> "reuse", uri |-> u, doc |-> d] \in MainState
                                /\ [op |-> "publish", uri |-> u, doc |-> d] \in MainState
  /\ \A u \in Uris, t \in AnyText :
       /\ [op |-> "enqueue", uri |-> u, text |-> t] \in MainState
       /\ [op |-> "close", uri |-> u, text |-> t] \in MainState
       /\ [op |-> "closeReindex", uri |-> u, text |-> t] \in MainState
  /\ \A u \in Uris, d \in Doc, b \in BOOLEAN :
       [op |-> "closeUnedited", uri |-> u, doc |-> d, stale |-> b] \in MainState
  /\ \A u \in Uris : [op |-> "dropLoose", uri |-> u] \in MainState
  /\ \A m \in [Uris -> AnyText], r \in SUBSET Uris :
       [op |-> "watched", updates |-> m, removals |-> r] \in MainState
  BY DEF MainState

\* A new parse fits its type, and so does the absent document.
LEMMA DocMake ==
  ASSUME TypeOK
  PROVE  /\ Absent \in Doc
         /\ CanAllocate => \A t \in AnyText : [text |-> t, version |-> nextVersion] \in Doc
         /\ CanAllocate => nextVersion + 1 \in 1 .. MaxVersion + 1
  BY BoundAssumption DEF TypeOK, CanAllocate, Doc, Absent, AnyText

LEMMA InitTypes == Init => TypeOK /\ Reserved
  <1> SUFFICES ASSUME Init PROVE TypeOK /\ Reserved
    OBVIOUS
  <1>1. wsDocs \in [Uris -> Doc] /\ index \in [Uris -> AnyText]
    BY BoundAssumption DEF Init, Doc, Absent, AnyText
  <1>2. main \in MainState /\ main.op = "ready"
    BY DEF Init, MainState, Ready
  <1>3. events \in Seq(Event) /\ Absent \in Doc /\ nextVersion \in 1 .. MaxVersion + 1
    BY BoundAssumption DEF Init, Doc, Absent, AnyText
  <1>4. TypeOK
    BY <1>1, <1>2, <1>3 DEF Init, TypeOK
  <1> QED
    BY <1>2, <1>4 DEF Reserved

\* update_open_document leaves the main loop in a typed state.
LEMMA UpdateTypes ==
  ASSUME TypeOK, NEW u \in Uris, NEW t \in Texts, UpdateOpenDocument(u, t)
  PROVE  /\ main' \in MainState
         /\ nextVersion' \in 1 .. MaxVersion + 1
         /\ main'.op \in {"ready", "reuse", "publish"}
  <1>1. KnownCopy(u) \in Doc /\ t \in AnyText
    BY DEF TypeOK, KnownCopy, AnyText
  <1>2. nextVersion \in 1 .. MaxVersion + 1
    BY DEF TypeOK
  <1>3. CASE main' = Ready /\ UNCHANGED nextVersion
    BY <1>2, <1>3, MainMake DEF Ready
  <1>4. CASE main' = [op |-> "reuse", uri |-> u, doc |-> KnownCopy(u)] /\ UNCHANGED nextVersion
    BY <1>1, <1>2, <1>4, MainMake
  <1>5. CASE /\ CanAllocate
             /\ main' = [op  |-> "publish", uri |-> u,
                         doc |-> [text |-> t, version |-> nextVersion]]
             /\ nextVersion' = nextVersion + 1
    <2>1. [text |-> t, version |-> nextVersion] \in Doc
      BY <1>1, <1>5, DocMake
    <2> QED
      BY <1>5, <2>1, DocMake, MainMake
  <1> QED
    BY <1>3, <1>4, <1>5 DEF UpdateOpenDocument

\* So does the watcher the queue of file events.
LEMMA NoticeTypes ==
  ASSUME TypeOK, NEW u \in Uris, NEW kind \in {"changed", "deleted"}, Notice(u, kind)
  PROVE  events' \in Seq(Event)
  <1>1. [uri |-> u, kind |-> kind] \in Event
    BY DEF Event
  <1>2. events \in Seq(Event)
    BY DEF TypeOK
  <1>3. Append(events, [uri |-> u, kind |-> kind]) \in Seq(Event)
    BY <1>1, <1>2
  <1> QED
    BY <1>2, <1>3 DEF Notice

LEMMA NextTypes == TypeOK /\ Reserved /\ [Next]_vars => (TypeOK /\ Reserved)'
  <1> SUFFICES ASSUME TypeOK, Reserved, [Next]_vars
               PROVE  TypeOK' /\ Reserved'
    OBVIOUS
  <1> USE DEF TypeOK, Reserved, CanAllocate, editor, store, queue, writer
  <1>0. Ready \in MainState /\ Ready.op = "ready" /\ Absent \in Doc
    BY MainMake, DocMake DEF Ready
  <1>1. ASSUME NEW u \in Uris, NEW t \in Texts, DidOpen(u, t) PROVE TypeOK' /\ Reserved'
    <2>1. /\ main' \in MainState
          /\ nextVersion' \in 1 .. MaxVersion + 1
          /\ main'.op \in {"ready", "reuse", "publish"}
      BY <1>1, UpdateTypes DEF DidOpen
    <2> QED
      BY <1>1, <2>1 DEF DidOpen
  <1>2. ASSUME NEW u \in Uris, NEW t \in Texts, DidChange(u, t) PROVE TypeOK' /\ Reserved'
    <2>1. PICK next \in Applied(Latest(u), client[u], t) :
            IF next = NoText
            THEN UNCHANGED <<main, tree>>
            ELSE /\ main' = [op |-> "enqueue", uri |-> u, text |-> next]
                 /\ tree' = "main"
      BY <1>2 DEF DidChange
    <2>2. next \in AnyText
      BY <2>1 DEF Applied, AnyText
    <2>3. [op |-> "enqueue", uri |-> u, text |-> next] \in MainState
      BY <2>2, MainMake
    <2> QED
      BY <1>2, <2>1, <2>3 DEF DidChange
  <1>3. ASSUME NEW u \in Uris, NEW t \in Texts, DidChangeFull(u, t) PROVE TypeOK' /\ Reserved'
    <2>1. \/ UNCHANGED <<main, nextVersion>>
          \/ /\ main' \in MainState
             /\ nextVersion' \in 1 .. MaxVersion + 1
             /\ main'.op \in {"ready", "reuse", "publish"}
      BY <1>3, UpdateTypes DEF DidChangeFull
    <2> QED
      BY <1>0, <1>3, <2>1 DEF DidChangeFull
  <1>4. CASE ReuseDocument
    <2>1. main.uri \in Uris /\ main.doc \in Doc
      BY <1>4, MainShape DEF ReuseDocument
    <2> QED
      BY <1>0, <1>4, <2>1 DEF ReuseDocument, ReleaseTree
  <1>5. CASE PublishDocument
    <2>1. main.uri \in Uris /\ main.doc \in Doc
      BY <1>5, MainShape DEF PublishDocument
    <2>2. main.doc.text \in AnyText
      BY <2>1 DEF Doc
    <2> QED
      BY <1>0, <1>5, <2>1, <2>2 DEF PublishDocument, PublishOpen, ReleaseTree
  <1>6. CASE EnqueueEdit
    <2> DEFINE edit == [text |-> main.text, version |-> nextVersion]
    <2>1. main.uri \in Uris /\ main.text \in AnyText
      BY <1>6, MainShape DEF EnqueueEdit
    <2>2. edit \in Doc /\ nextVersion + 1 \in 1 .. MaxVersion + 1 /\ edit.text \in AnyText
      BY <1>6, <2>1, DocMake DEF EnqueueEdit
    <2>3. /\ documents' \in [Uris -> Doc]
          /\ wsDocs' \in [Uris -> Doc]
          /\ index' \in [Uris -> AnyText]
          /\ pending' \in [Uris -> Doc]
          /\ notify' \in BOOLEAN
      BY <1>6, <2>1, <2>2 DEF EnqueueEdit, PublishOpen
    <2>4. tree # "writer" /\ tree' = "free"
      BY <1>6 DEF EnqueueEdit
    <2> QED
      BY <1>0, <1>6, <2>2, <2>3, <2>4 DEF EnqueueEdit
  <1>7. ASSUME NEW u \in Uris, DidClose(u) PROVE TypeOK' /\ Reserved'
    <2>1. main' \in MainState
      BY <1>7, MainMake DEF DidClose, Doc
    <2> QED
      BY <1>7, <2>1 DEF DidClose
  <1>8. CASE DropLoose
    <2>1. main.uri \in Uris /\ NoText \in AnyText
      BY <1>8, MainShape DEF DropLoose, AnyText
    <2> QED
      BY <1>0, <1>8, <2>1 DEF DropLoose
  <1>9. CASE CloseRead
    <2>1. main.uri \in Uris
      BY <1>9, MainShape DEF CloseRead
    <2>2. documents[main.uri] \in Doc /\ StaleCache(main.uri) \in BOOLEAN
      BY <2>1 DEF StaleCache
    <2>3. disk[main.uri] \in AnyText /\ NoText \in AnyText
      BY <2>1 DEF AnyText
    <2>4. CASE main' = [op |-> "closeUnedited", uri |-> main.uri, doc |-> documents[main.uri],
                        stale |-> StaleCache(main.uri)]
      <3>1. main' \in MainState /\ main'.op = "closeUnedited"
        BY <2>1, <2>2, <2>4, MainMake
      <3> QED
        BY <1>9, <3>1 DEF CloseRead
    <2>5. ASSUME NEW parsed \in {disk[main.uri], NoText},
                 main' = [op |-> "closeReindex", uri |-> main.uri, text |-> parsed]
          PROVE  TypeOK' /\ Reserved'
      <3>1. main' \in MainState /\ main'.op = "closeReindex"
        BY <2>1, <2>3, <2>5, MainMake
      <3> QED
        BY <1>9, <3>1 DEF CloseRead
    <2> QED
      BY <1>9, <2>4, <2>5 DEF CloseRead
  <1>10. CASE CloseUnedited
    <2>1. main.uri \in Uris /\ main.doc \in Doc
      BY <1>10, MainShape DEF CloseUnedited
    <2> QED
      BY <1>0, <1>10, <2>1 DEF CloseUnedited
  <1>11. CASE CloseReindex
    <2>1. main.uri \in Uris /\ main.text \in AnyText
      BY <1>11, MainShape DEF CloseReindex
    <2>2. /\ [text |-> main.text, version |-> nextVersion] \in Doc
          /\ nextVersion + 1 \in 1 .. MaxVersion + 1
      BY <1>11, <2>1, DocMake DEF CloseReindex
    <2> QED
      BY <1>0, <1>11, <2>1, <2>2 DEF CloseReindex
  <1>12. ASSUME NEW n \in 1 .. MaxBatch, WatchedEvents(n) PROVE TypeOK' /\ Reserved'
    <2>1. main' \in MainState /\ nextVersion' = nextVersion
      <3>1. PICK unparsed \in IF ParseMayFail THEN SUBSET Uris ELSE {{}} :
              LET updates  == [u \in Uris |-> IF u \in Delivered(n, "changed") \ unparsed
                                              THEN disk[u] ELSE NoText]
                  removals == Delivered(n, "deleted")
              IN main' = IF removals = {} /\ \A u \in Uris : updates[u] = NoText
                         THEN Ready
                         ELSE [op |-> "watched", updates |-> updates, removals |-> removals]
        BY <1>12 DEF WatchedEvents
      <3> DEFINE updates  == [u \in Uris |-> IF u \in Delivered(n, "changed") \ unparsed
                                             THEN disk[u] ELSE NoText]
      <3>2. updates \in [Uris -> AnyText]
        BY DEF AnyText
      <3>3. Delivered(n, "deleted") \in SUBSET Uris
        BY DEF Delivered
      <3>4. main' = Ready \/ main' = [op |-> "watched", updates |-> updates,
                                      removals |-> Delivered(n, "deleted")]
        BY <3>1
      <3> HIDE DEF updates
      <3>5. main' \in MainState
        BY <1>0, <3>2, <3>3, <3>4, MainMake
      <3> QED
        BY <1>12, <3>5 DEF WatchedEvents
    <2>2. events' \in Seq(Event)
      BY <1>12 DEF WatchedEvents
    <2> QED
      BY <1>12, <2>1, <2>2 DEF WatchedEvents
  <1>13. CASE PublishWatched
    <2>1. main.updates \in [Uris -> AnyText] /\ NoText \in AnyText
      BY <1>13, MainShape DEF PublishWatched, AnyText
    <2>2. /\ \A u \in Uris : [text |-> main.updates[u], version |-> nextVersion] \in Doc
          /\ nextVersion + 1 \in 1 .. MaxVersion + 1
      BY <1>13, <2>1, DocMake DEF PublishWatched
    <2>3. wsDocs' \in [Uris -> Doc] /\ index' \in [Uris -> AnyText]
      BY <1>0, <1>13, <2>1, <2>2 DEF PublishWatched
    <2> QED
      BY <1>0, <1>13, <2>2, <2>3 DEF PublishWatched
  <1>14. CASE SpawnEditWriter
    BY <1>14 DEF SpawnEditWriter
  <1>15. CASE WriterWake
    BY <1>15 DEF WriterWake
  <1>16. CASE WriterCollect
    BY <1>16 DEF WriterCollect
  <1>17. ASSUME NEW u \in Uris, WriterTake(u) PROVE TypeOK' /\ Reserved'
    <2>1. Present(pending[u]) => [uri |-> u, edit |-> pending[u]] # NoJob
      BY DEF NoJob, Present, Absent
    <2> QED
      BY <1>17, <2>1 DEF WriterTake, Visited
  <1>18. CASE WriterPublish
    <2>1. job.uri \in Uris /\ job.edit \in Doc /\ job.edit.text \in AnyText
      BY <1>18 DEF WriterPublish, Doc
    <2> QED
      BY <1>18, <2>1 DEF WriterPublish, PublishOpen
  <1>19. CASE WriterRemove
    <2>1. job.uri \in Uris
      BY <1>19 DEF WriterRemove
    <2> QED
      BY <1>0, <1>19, <2>1 DEF WriterRemove, Visited
  <1>20. ASSUME NEW u \in Uris, Save(u) \/ ExternalDelete(u) PROVE TypeOK' /\ Reserved'
    <2>1. events' \in Seq(Event)
      BY <1>20, NoticeTypes DEF Save, ExternalDelete
    <2> QED
      BY <1>20, <2>1 DEF Save, ExternalDelete
  <1>21. ASSUME NEW u \in Uris, NEW t \in Texts, ExternalWrite(u, t) PROVE TypeOK' /\ Reserved'
    <2>1. events' \in Seq(Event)
      BY <1>21, NoticeTypes DEF ExternalWrite
    <2> QED
      BY <1>21, <2>1 DEF ExternalWrite
  <1>22. CASE UNCHANGED vars
    BY <1>22 DEF vars
  <1> QED
    BY <1>1, <1>2, <1>3, <1>4, <1>5, <1>6, <1>7, <1>8, <1>9, <1>10, <1>11, <1>12, <1>13,
       <1>14, <1>15, <1>16, <1>17, <1>18, <1>19, <1>20, <1>21, <1>22
       DEF Next, Handler, Notification, Writer, World

\* Type correctness, and who holds tree_pipeline and the writer's edit
\* (edit_queue.rs, run_edit_writer).
THEOREM TypeCorrect == Spec => []TypeOK
  <1>1. Spec => [](TypeOK /\ Reserved)
    BY InitTypes, NextTypes, PTL DEF Spec
  <1> QED
    BY <1>1, PTL

\* No wakeup of the edit writer is lost: enqueue_edit signals after it has
\* inserted, and the writer looks at the queue again before it waits.
THEOREM NeverLosesWakeup == Spec => []NoLostWakeup
  <1> USE DEF NoLostWakeup, Present, Absent, editor, store, queue, writer
  <1>1. Init => NoLostWakeup
    BY DEF Init
  <1>2. TypeOK /\ NoLostWakeup /\ [Next]_vars => NoLostWakeup'
    <2> SUFFICES ASSUME TypeOK, NoLostWakeup, [Next]_vars PROVE NoLostWakeup'
      OBVIOUS
    <2>1. CASE UNCHANGED <<pending, spawned, notify, wpc>>
      BY <2>1
    <2>2. CASE EnqueueEdit
      BY <2>2 DEF EnqueueEdit
    <2>3. CASE SpawnEditWriter
      BY <2>3 DEF SpawnEditWriter
    <2>4. CASE WriterWake
      BY <2>4 DEF WriterWake
    <2>5. CASE WriterCollect
      BY <2>5 DEF WriterCollect
    <2>6. ASSUME NEW u \in Uris, WriterTake(u) PROVE NoLostWakeup'
      BY <2>6 DEF WriterTake, Visited
    <2>7. CASE WriterPublish
      BY <2>7 DEF WriterPublish
    <2>8. CASE WriterRemove
      BY <2>8 DEF WriterRemove, Visited, TypeOK
    <2>9. CASE Notification \/ World
      BY <2>1, <2>9 DEF Notification, World, DidOpen, DidChange, DidChangeFull, DidClose,
                        WatchedEvents, Save, ExternalWrite, ExternalDelete
    <2>10. CASE ReuseDocument \/ PublishDocument \/ DropLoose \/ CloseRead
                \/ CloseUnedited \/ CloseReindex \/ PublishWatched
      BY <2>1, <2>10 DEF ReuseDocument, PublishDocument, DropLoose, CloseRead,
                         CloseUnedited, CloseReindex, PublishWatched
    <2> QED
      BY <2>1, <2>2, <2>3, <2>4, <2>5, <2>6, <2>7, <2>8, <2>9, <2>10
         DEF Next, Handler, Writer, vars
  <1> QED
    BY <1>1, <1>2, TypeCorrect, PTL DEF Spec
-----------------------------------------------------------------------------
(* Versions.  A step hands copies of a document on, drops them, or makes   *)
(* one new copy under the next version.                                    *)

Carried == \A u \in Uris : \A d \in Doc : Held(u, d)' => Held(u, d) \/ d = Absent

Added ==
  /\ nextVersion' = nextVersion + 1
  /\ \A u \in Uris : \E n \in Doc :
       /\ n.version = nextVersion
       /\ \A d \in Doc : Held(u, d)' => Held(u, d) \/ d = Absent \/ d = n

\* Such a step keeps versions unambiguous.
LEMMA VersionsKept ==
  ASSUME TypeOK, VersionsInv, (Carried /\ UNCHANGED nextVersion) \/ Added
  PROVE  VersionsInv'
  <1> SUFFICES ASSUME NEW u \in Uris, NEW d \in Doc, NEW e \in Doc, Held(u, d)', Held(u, e)'
               PROVE  /\ d.version < nextVersion'
                      /\ d.version = 0 => d = Absent
                      /\ d.version = e.version => d = e
    BY DEF VersionsInv
  <1>1. /\ nextVersion \in Nat \ {0}
        /\ Absent.version = 0
        /\ \A x \in Doc : x.version \in Nat
    BY DEF TypeOK, Absent, Doc
  <1>2. \A x, y \in Doc : Held(u, x) /\ Held(u, y) =>
          /\ x.version < nextVersion
          /\ x.version = 0 => x = Absent
          /\ x.version = y.version => x = y
    BY DEF VersionsInv
  <1> HIDE DEF Held
  <1>3. CASE Carried /\ UNCHANGED nextVersion
    BY <1>1, <1>2, <1>3 DEF Carried
  <1>4. CASE Added
    <2>1. PICK n \in Doc : /\ n.version = nextVersion
                           /\ \A x \in Doc : Held(u, x)' => Held(u, x) \/ x = Absent \/ x = n
      BY <1>4 DEF Added
    <2>2. nextVersion' = nextVersion + 1
      BY <1>4 DEF Added
    <2> QED
      BY <1>1, <1>2, <2>1, <2>2
  <1> QED
    BY <1>3, <1>4
\* update_open_document takes up a copy the server holds or makes a new one.
LEMMA UpdateVersions ==
  ASSUME TypeOK, NEW u \in Uris, NEW t \in Texts, UpdateOpenDocument(u, t),
         UNCHANGED <<documents, wsDocs, pending, job>>
  PROVE  (Carried /\ UNCHANGED nextVersion) \/ Added
  <1> USE DEF Held
  <1>1. KnownCopy(u) = documents[u] \/ KnownCopy(u) = wsDocs[u]
    BY DEF KnownCopy
  <1>2. CASE main' = Ready /\ UNCHANGED nextVersion
    BY <1>2 DEF Carried, Ready
  <1>3. CASE main' = [op |-> "reuse", uri |-> u, doc |-> KnownCopy(u)] /\ UNCHANGED nextVersion
    BY <1>1, <1>3 DEF Carried
  <1>4. CASE /\ CanAllocate
             /\ main' = [op  |-> "publish", uri |-> u,
                         doc |-> [text |-> t, version |-> nextVersion]]
             /\ nextVersion' = nextVersion + 1
    <2> DEFINE n == [text |-> t, version |-> nextVersion]
    <2>1. n \in Doc /\ n.version = nextVersion
      BY <1>4, DocMake DEF AnyText
    <2>2. main'.doc = n
      BY <1>4
    <2> HIDE DEF n
    <2>3. \A v \in Uris, d \in Doc : Held(v, d)' => Held(v, d) \/ d = Absent \/ d = n
      BY <2>2
    <2> QED
      BY <1>4, <2>1, <2>3 DEF Added
  <1> QED
    BY <1>2, <1>3, <1>4 DEF UpdateOpenDocument

LEMMA NextVersions == TypeOK /\ Reserved /\ VersionsInv /\ [Next]_vars => VersionsInv'
  <1> SUFFICES ASSUME TypeOK, Reserved, VersionsInv, [Next]_vars
               PROVE  (Carried /\ UNCHANGED nextVersion) \/ Added
    BY VersionsKept
  <1> DEFINE Goal == (Carried /\ UNCHANGED nextVersion) \/ Added
  <1> USE DEF editor, store, queue, writer
  <1>0. /\ documents \in [Uris -> Doc]
        /\ wsDocs \in [Uris -> Doc]
        /\ pending \in [Uris -> Doc]
        /\ job # NoJob => job.uri \in Uris
        /\ Ready.op = "ready"
    BY DEF TypeOK, Ready
  <1>1. ASSUME NEW u \in Uris, NEW t \in Texts, DidOpen(u, t) PROVE Goal
    BY <1>1, UpdateVersions DEF DidOpen
  <1>2. ASSUME NEW u \in Uris, NEW t \in Texts, DidChange(u, t) PROVE Goal
    BY <1>2 DEF DidChange, Carried, Held
  <1>3. ASSUME NEW u \in Uris, NEW t \in Texts, DidChangeFull(u, t) PROVE Goal
    <2>1. CASE UNCHANGED <<main, nextVersion>>
      BY <1>3, <2>1 DEF DidChangeFull, Carried, Held
    <2> QED
      BY <1>3, <2>1, UpdateVersions DEF DidChangeFull
  <1>4. CASE ReuseDocument \/ PublishDocument
    <2>1. main.uri \in Uris
      BY <1>4, MainShape DEF ReuseDocument, PublishDocument, TypeOK
    <2> QED
      BY <1>0, <1>4, <2>1 DEF ReuseDocument, PublishDocument, PublishOpen, Carried, Held
  <1>6. CASE EnqueueEdit
    <2> DEFINE n == [text |-> main.text, version |-> nextVersion]
    <2>1. main.uri \in Uris /\ main.text \in AnyText
      BY <1>6, MainShape DEF EnqueueEdit, TypeOK
    <2>2. n \in Doc /\ n.version = nextVersion
      BY <1>6, <2>1, DocMake DEF EnqueueEdit, Reserved
    <2>3. /\ \/ /\ pending' = [pending EXCEPT ![main.uri] = n]
                /\ UNCHANGED <<documents, wsDocs>>
             \/ /\ documents' = [documents EXCEPT ![main.uri] = n]
                /\ UNCHANGED <<pending, wsDocs>>
             \/ UNCHANGED <<pending, documents, wsDocs>>
          /\ main' = Ready
          /\ UNCHANGED job
          /\ nextVersion' = nextVersion + 1
      BY <1>6 DEF EnqueueEdit, PublishOpen
    <2> HIDE DEF n
    <2>4. \A v \in Uris, d \in Doc : Held(v, d)' => Held(v, d) \/ d = Absent \/ d = n
      BY <1>0, <2>1, <2>3 DEF Held
    <2> QED
      BY <2>2, <2>3, <2>4 DEF Added
  <1>7. ASSUME NEW u \in Uris, DidClose(u) PROVE Goal
    BY <1>7 DEF DidClose, Carried, Held
  <1>8. CASE DropLoose
    <2>1. main.uri \in Uris
      BY <1>8, MainShape DEF DropLoose, TypeOK
    <2> QED
      BY <1>0, <1>8, <2>1 DEF DropLoose, Carried, Held
  <1>9. CASE CloseRead
    BY <1>0, <1>9 DEF CloseRead, Carried, Held
  <1>10. CASE CloseUnedited
    <2>1. main.uri \in Uris
      BY <1>10, MainShape DEF CloseUnedited, TypeOK
    <2> QED
      BY <1>0, <1>10, <2>1 DEF CloseUnedited, Carried, Held
  <1>11. CASE CloseReindex
    <2> DEFINE n == [text |-> main.text, version |-> nextVersion]
    <2>1. main.uri \in Uris /\ main.text \in AnyText
      BY <1>11, MainShape DEF CloseReindex, TypeOK
    <2>2. n \in Doc /\ n.version = nextVersion
      BY <1>11, <2>1, DocMake DEF CloseReindex, Reserved
    <2>3. /\ documents' = [documents EXCEPT ![main.uri] = Absent]
          /\ \/ wsDocs' = [wsDocs EXCEPT ![main.uri] = Absent]
             \/ wsDocs' = [wsDocs EXCEPT ![main.uri] = n]
          /\ main' = Ready
          /\ UNCHANGED <<pending, job>>
          /\ nextVersion' = nextVersion + 1
      BY <1>11 DEF CloseReindex
    <2> HIDE DEF n
    <2>4. \A v \in Uris, d \in Doc : Held(v, d)' => Held(v, d) \/ d = Absent \/ d = n
      BY <1>0, <2>1, <2>3 DEF Held
    <2> QED
      BY <2>2, <2>3, <2>4 DEF Added
  <1>12. ASSUME NEW n \in 1 .. MaxBatch, WatchedEvents(n) PROVE Goal
    <2>1. main'.op \in {"ready", "watched"}
      BY <1>0, <1>12 DEF WatchedEvents
    <2> QED
      BY <1>12, <2>1 DEF WatchedEvents, Carried, Held
  <1>13. CASE PublishWatched
    <2>1. main.updates \in [Uris -> AnyText] /\ CanAllocate
      BY <1>13, MainShape DEF PublishWatched, TypeOK, Reserved
    <2>2. ASSUME NEW u \in Uris
          PROVE  \E n \in Doc :
                   /\ n.version = nextVersion
                   /\ \A d \in Doc : Held(u, d)' => Held(u, d) \/ d = Absent \/ d = n
      <3> DEFINE n == [text |-> main.updates[u], version |-> nextVersion]
      <3>1. n \in Doc /\ n.version = nextVersion
        BY <2>1, DocMake
      <3>2. wsDocs'[u] = Absent \/ wsDocs'[u] = n \/ wsDocs'[u] = wsDocs[u]
        BY <1>13 DEF PublishWatched
      <3> HIDE DEF n
      <3>3. \A d \in Doc : Held(u, d)' => Held(u, d) \/ d = Absent \/ d = n
        BY <1>0, <1>13, <3>2 DEF PublishWatched, Held
      <3> QED
        BY <3>1, <3>3
    <2> QED
      BY <1>13, <2>2 DEF PublishWatched, Added
  <1>14. CASE SpawnEditWriter \/ WriterWake \/ WriterCollect
    BY <1>14 DEF SpawnEditWriter, WriterWake, WriterCollect, Carried, Held
  <1>17. ASSUME NEW u \in Uris, WriterTake(u) PROVE Goal
    BY <1>0, <1>17 DEF WriterTake, Carried, Held
  <1>18. CASE WriterPublish
    <2>1. job # NoJob
      BY <1>18 DEF WriterPublish, TypeOK
    <2> QED
      BY <1>0, <1>18, <2>1 DEF WriterPublish, PublishOpen, Carried, Held
  <1>19. CASE WriterRemove
    <2>1. job # NoJob
      BY <1>19 DEF WriterRemove, TypeOK
    <2> QED
      BY <1>0, <1>19, <2>1 DEF WriterRemove, Carried, Held
  <1>20. CASE World
    BY <1>20 DEF World, Save, ExternalDelete, ExternalWrite, Carried, Held
  <1>22. CASE UNCHANGED vars
    BY <1>22 DEF vars, Carried, Held
  <1> QED
    BY <1>1, <1>2, <1>3, <1>4, <1>6, <1>7, <1>8, <1>9, <1>10, <1>11, <1>12, <1>13,
       <1>14, <1>17, <1>18, <1>19, <1>20, <1>22
       DEF Next, Handler, Notification, Writer

\* A parse version names one text of a document, wherever a copy is held and
\* whatever the environment does (allocate_parse_version in document.rs, the
\* version reserved by enqueue_edit and stamped by process_pending_edit).
THEOREM VersionsNameTexts == Spec => []VersionNamesText
  <1>1. Init => VersionsInv
    BY DEF Init, VersionsInv, Held, Absent, Ready
  <1>2. Spec => [](TypeOK /\ Reserved)
    BY InitTypes, NextTypes, PTL DEF Spec
  <1>3. Spec => [](TypeOK /\ VersionsInv)
    BY <1>1, <1>2, NextVersions, PTL DEF Spec
  <1>4. TypeOK /\ VersionsInv => VersionNamesText
    <2> SUFFICES ASSUME TypeOK, VersionsInv, NEW u \in Uris,
                        NEW d \in {documents[u], wsDocs[u], pending[u]},
                        NEW e \in {documents[u], wsDocs[u], pending[u]},
                        d.version = e.version
                 PROVE  d = e
      BY DEF VersionNamesText
    <2>1. d \in Doc /\ e \in Doc
      BY DEF TypeOK
    <2>2. Held(u, d) /\ Held(u, e)
      BY DEF Held
    <2> QED
      BY <2>1, <2>2 DEF VersionsInv
  <1> QED
    BY <1>3, <1>4, PTL
-----------------------------------------------------------------------------
(* Exactness.                                                              *)

\* Types as the proofs below use them.
LEMMA FunctionTypes ==
  ASSUME TypeOK
  PROVE  /\ client \in [Uris -> Texts \cup {NoText}]
         /\ documents \in [Uris -> Doc]
         /\ wsDocs \in [Uris -> Doc]
         /\ pending \in [Uris -> Doc]
         /\ wpc \in {"publish", "remove"} => job.uri \in Uris /\ job.edit \in Doc
         /\ \A d \in Doc : d.version \in Nat
         /\ nextVersion \in Nat
  BY DEF TypeOK, Doc

\* With the main loop between notifications, the text the next change starts
\* from is the editor's.
LEMMA LatestExact == ExactInv => LatestIsClient
  BY DEF ExactInv, PendingExact, OverlayExact, LatestIsClient, Latest, MainOn, Ready

LEMMA NextExact ==
  Exact /\ TypeOK /\ Reserved /\ VersionsInv /\ ExactInv /\ [Next]_vars => ExactInv'
  <1> SUFFICES ASSUME Exact, TypeOK, Reserved, VersionsInv, ExactInv, [Next]_vars
               PROVE  ExactInv'
    OBVIOUS
  <1> USE DEF ExactInv, MainExact, PendingExact, OverlayExact, WriterExact, MainOn, Closing,
              Present, editor, store, queue, writer
  <1>0. Ready.op = "ready" /\ Absent.text = NoText
    BY DEF Ready, Absent
  <1>1. ASSUME NEW u \in Uris, NEW t \in Texts, DidOpen(u, t) PROVE ExactInv'
    <2>1. t # NoText
      BY SetAssumption
    <2>2. \/ documents[u].text = t /\ main' = Ready
          \/ \E o \in {"reuse", "publish"}, d \in Doc :
               d.text = t /\ main' = [op |-> o, uri |-> u, doc |-> d]
      <3>1. KnownCopy(u) \in Doc
        BY FunctionTypes DEF KnownCopy
      <3>2. CanAllocate => [text |-> t, version |-> nextVersion] \in Doc
        BY DocMake DEF AnyText
      <3> QED
        BY <1>1, <2>1, <3>1, <3>2 DEF DidOpen, UpdateOpenDocument, KnownCopy, Exact
    <2>3. client' = [client EXCEPT ![u] = t] /\ main = Ready
          /\ UNCHANGED <<documents, pending, spawned, wpc, job>>
      BY <1>1 DEF DidOpen
    <2>4. ~Present(pending[u]) /\ client[u] = NoText
      BY <1>1 DEF DidOpen
    <2>5. CASE documents[u].text = t /\ main' = Ready
      BY <1>0, <2>1, <2>3, <2>4, <2>5, FunctionTypes
    <2>6. ASSUME NEW o \in {"reuse", "publish"}, NEW d \in Doc,
                 d.text = t, main' = [op |-> o, uri |-> u, doc |-> d]
          PROVE  ExactInv'
      <3>1. main'.op = o /\ main'.uri = u /\ main'.doc.text = t
        BY <2>6
      <3> QED
        BY <1>0, <2>1, <2>3, <2>4, <3>1, FunctionTypes
    <2> QED
      BY <2>2, <2>5, <2>6
  <1>2. ASSUME NEW u \in Uris, NEW t \in Texts, DidChange(u, t) PROVE ExactInv'
    <2>1. t # NoText
      BY SetAssumption
    <2>2. Latest(u) = client[u] /\ client[u] # NoText
      BY <1>2, LatestExact DEF DidChange, LatestIsClient
    <2>3. main' = [op |-> "enqueue", uri |-> u, text |-> t]
      BY <1>2, <2>1, <2>2 DEF DidChange, Applied
    <2>4. client' = [client EXCEPT ![u] = t] /\ main = Ready
          /\ UNCHANGED <<documents, pending, spawned, wpc, job>>
      BY <1>2 DEF DidChange
    <2> QED
      BY <1>0, <2>1, <2>2, <2>3, <2>4, FunctionTypes
  <1>4. CASE ReuseDocument \/ PublishDocument
    <2>1. main.uri \in Uris /\ main.doc \in Doc
      BY <1>4, MainShape DEF ReuseDocument, PublishDocument, TypeOK
    <2>2. /\ documents' = [documents EXCEPT ![main.uri] = main.doc]
          /\ main.op \in {"reuse", "publish"}
          /\ main' = Ready
          /\ UNCHANGED <<client, pending, spawned, wpc, job>>
      BY <1>4 DEF ReuseDocument, PublishDocument, PublishOpen
    <2> QED
      BY <1>0, <2>1, <2>2, FunctionTypes
  <1>6. CASE EnqueueEdit
    <2>1. main.uri \in Uris
      BY <1>6, MainShape DEF EnqueueEdit, TypeOK
    <2>2. tree = "main" /\ wpc # "publish"
      BY <1>6 DEF EnqueueEdit, Reserved, TypeOK
    <2> DEFINE n == [text |-> main.text, version |-> nextVersion]
    <2>3. n.text = client[main.uri] /\ client[main.uri] # NoText /\ n.version = nextVersion
      BY <1>6, <2>1 DEF EnqueueEdit
    <2>4. documents[main.uri].version < nextVersion
      BY <2>1, FunctionTypes DEF VersionsInv, Held
    <2>5. wpc = "remove" => job.edit.version < nextVersion
      BY FunctionTypes DEF VersionsInv, Held, TypeOK
    <2>6. /\ main.op = "enqueue"
          /\ main' = Ready
          /\ UNCHANGED <<client, spawned, wpc, job>>
          /\ \/ /\ spawned
                /\ pending' = [pending EXCEPT ![main.uri] = n]
                /\ UNCHANGED documents
             \/ /\ ~spawned
                /\ documents' = [documents EXCEPT ![main.uri] = n]
                /\ UNCHANGED pending
      BY <1>6 DEF EnqueueEdit, PublishOpen, Exact
    <2> HIDE DEF n
    <2>7. MainExact' /\ OverlayExact'
      BY <1>0, <2>1, <2>3, <2>6, FunctionTypes
    <2>8. PendingExact'
      BY <1>0, <2>1, <2>3, <2>4, <2>6, FunctionTypes
    <2>9. WriterExact'
      BY <2>1, <2>2, <2>3, <2>5, <2>6, FunctionTypes
    <2> QED
      BY <2>7, <2>8, <2>9
  <1>7. ASSUME NEW u \in Uris, DidClose(u) PROVE ExactInv'
    <2>1. /\ ~Present(pending[u])
          /\ client' = [client EXCEPT ![u] = NoText]
          /\ main = Ready
          /\ main'.op \in {"close", "dropLoose"} /\ main'.uri = u
          /\ UNCHANGED <<documents, pending, spawned, wpc, job>>
      BY <1>7 DEF DidClose, Exact
    <2> QED
      BY <1>0, <2>1, FunctionTypes
  <1>8. CASE DropLoose \/ CloseUnedited \/ CloseReindex
    <2>1. main.uri \in Uris
      BY <1>8, MainShape DEF DropLoose, CloseUnedited, CloseReindex, TypeOK
    <2>2. /\ documents' = [documents EXCEPT ![main.uri] = Absent]
          /\ main.op \in Closing
          /\ main' = Ready
          /\ UNCHANGED <<client, pending, spawned, wpc, job>>
      BY <1>8 DEF DropLoose, CloseUnedited, CloseReindex
    <2> QED
      BY <1>0, <2>1, <2>2, FunctionTypes
  <1>9. CASE CloseRead
    <2>1. /\ main.op \in Closing
          /\ main'.op \in Closing /\ main'.op # "dropLoose" /\ main'.uri = main.uri
          /\ UNCHANGED <<client, documents, pending, spawned, wpc, job>>
      BY <1>9 DEF CloseRead
    <2> QED
      BY <2>1
  <1>12. CASE PublishWatched \/ \E n \in 1 .. MaxBatch : WatchedEvents(n)
    <2>1. /\ main.op \in {"ready", "watched"}
          /\ main'.op \in {"ready", "watched"}
          /\ UNCHANGED <<client, documents, pending, spawned, wpc, job>>
      BY <1>0, <1>12 DEF WatchedEvents, PublishWatched
    <2> QED
      BY <2>1
  <1>14. CASE SpawnEditWriter \/ WriterWake \/ WriterCollect
    BY <1>14 DEF SpawnEditWriter, WriterWake, WriterCollect
  <1>17. ASSUME NEW u \in Uris, WriterTake(u) PROVE ExactInv'
    BY <1>17, FunctionTypes DEF WriterTake, Visited
  <1>18. CASE WriterPublish
    <2>1. job.uri \in Uris
      BY <1>18, FunctionTypes DEF WriterPublish
    <2>2. main.op # "enqueue"
      BY <1>18 DEF WriterPublish, Reserved, TypeOK
    <2>3. /\ wpc = "publish"
          /\ wpc' = "remove"
          /\ documents' = [documents EXCEPT ![job.uri] = job.edit]
          /\ UNCHANGED <<client, pending, spawned, main, job>>
      BY <1>18 DEF WriterPublish, PublishOpen, Exact
    <2>4. documents'[job.uri].text = client[job.uri] /\ client[job.uri] # NoText
      BY <2>1, <2>2, <2>3, FunctionTypes
    <2> QED
      BY <2>1, <2>2, <2>3, <2>4, FunctionTypes
  <1>19. CASE WriterRemove
    <2>1. job.uri \in Uris
      BY <1>19, FunctionTypes DEF WriterRemove
    <2>2. pending[job.uri].version = job.edit.version => pending[job.uri] = job.edit
      BY <1>19, <2>1, FunctionTypes DEF WriterRemove, VersionsInv, Held, TypeOK
    <2>3. /\ wpc = "remove"
          /\ wpc' \in {"take", "collect"}
          /\ pending' = IF pending[job.uri].version = job.edit.version
                        THEN [pending EXCEPT ![job.uri] = Absent] ELSE pending
          /\ UNCHANGED <<client, documents, spawned, main>>
      BY <1>19 DEF WriterRemove, Visited
    <2>4. CASE UNCHANGED pending
      BY <2>3, <2>4
    <2>5. CASE /\ pending[job.uri] = job.edit
               /\ pending' = [pending EXCEPT ![job.uri] = Absent]
      <3>1. documents[job.uri] = pending[job.uri]
        BY <2>3, <2>5
      <3> QED
        BY <1>0, <2>1, <2>3, <2>5, <3>1, FunctionTypes
    <2> QED
      BY <2>2, <2>3, <2>4, <2>5
  <1>20. CASE World \/ UNCHANGED vars
    BY <1>20 DEF World, Save, ExternalDelete, ExternalWrite, vars
  <1> QED
    BY <1>1, <1>2, <1>4, <1>6, <1>7, <1>8, <1>9, <1>12, <1>14, <1>17, <1>18, <1>19, <1>20
       DEF Next, Handler, Notification, Writer, DidChangeFull, Exact
LEMMA ExactAlways == ASSUME Exact PROVE Spec => [](TypeOK /\ Reserved /\ ExactInv)
  <1>1. Init => VersionsInv
    BY DEF Init, VersionsInv, Held, Absent, Ready
  <1>2. Init => ExactInv
    BY DEF Init, ExactInv, MainExact, PendingExact, OverlayExact, WriterExact, MainOn,
           Present, Absent, Ready
  <1>3. TypeOK /\ Reserved /\ VersionsInv /\ ExactInv /\ [Next]_vars => ExactInv'
    BY NextExact
  <1> QED
    BY <1>1, <1>2, <1>3, InitTypes, NextTypes, NextVersions, PTL DEF Spec

\* In the environment Exact describes, did_change always applies its ranges to
\* the text the editor has (latest_edit_state), for any number of documents,
\* texts and queued edits.
THEOREM ChangesStartFromClient == ASSUME Exact PROVE Spec => []LatestIsClient
  BY ExactAlways, LatestExact, PTL

\* In that environment a queued edit has a version above the overlay's until
\* the overlay has its text (enqueue_edit, process_pending_edit): comparing
\* the two tells document_diagnostic whether the overlay is behind.
THEOREM PendingIsAhead == ASSUME Exact PROVE Spec => []PendingAhead
  <1>1. ExactInv => PendingAhead
    BY DEF ExactInv, PendingExact, PendingAhead
  <1> QED
    BY <1>1, ExactAlways, PTL

\* In that environment the open overlay implements Mirror: no publish of the
\* main loop or of the edit writer brings back an older text or a closed
\* document.
THEOREM OverlayMirrorsEditor == ASSUME Exact PROVE Spec => MirrorsEditor
  <1> DEFINE view == [u \in Uris |-> documents[u].text]
  <1>1. Init => Overlay!Init
    BY DEF Init, Overlay!Init, Absent
  <1>2. TypeOK /\ Reserved /\ ExactInv /\ [Next]_vars => [Overlay!Next]_(Overlay!vars)
    <2> SUFFICES ASSUME TypeOK, Reserved, ExactInv, [Next]_vars
                 PROVE  [Overlay!Next]_(Overlay!vars)
      OBVIOUS
    <2> USE DEF editor, store, queue, writer
    <2>1. CASE UNCHANGED <<client, documents>>
      BY <2>1 DEF Overlay!vars
    <2>2. ASSUME NEW u \in Uris, NEW t \in Texts \cup {NoText},
                 client' = [client EXCEPT ![u] = t], UNCHANGED documents
          PROVE  Overlay!Next
      BY <2>2 DEF Overlay!Next, Overlay!Edit
    <2>3. ASSUME NEW u \in Uris, NEW d \in Doc, d.text = client[u],
                 documents' = [documents EXCEPT ![u] = d], UNCHANGED client
          PROVE  Overlay!Next
      <3>1. view' = [view EXCEPT ![u] = client[u]]
        BY <2>3, FunctionTypes
      <3> QED
        BY <2>3, <3>1 DEF Overlay!Next, Overlay!CatchUp
    <2>4. CASE Notification
      BY <2>1, <2>2, <2>4 DEF Notification, DidOpen, DidChange, DidChangeFull, DidClose,
                              WatchedEvents
    <2>5. CASE ReuseDocument \/ PublishDocument
      <3>1. main.uri \in Uris /\ main.doc \in Doc
        BY <2>5, MainShape DEF ReuseDocument, PublishDocument, TypeOK
      <3>2. main.doc.text = client[main.uri]
        BY <2>5, <3>1 DEF ReuseDocument, PublishDocument, ExactInv, MainExact, MainOn
      <3> QED
        BY <2>3, <2>5, <3>1, <3>2 DEF ReuseDocument, PublishDocument, PublishOpen
    <2>6. CASE EnqueueEdit
      <3> DEFINE n == [text |-> main.text, version |-> nextVersion]
      <3>1. main.uri \in Uris /\ main.text \in AnyText
        BY <2>6, MainShape DEF EnqueueEdit, TypeOK
      <3>2. n \in Doc
        BY <2>6, <3>1, DocMake DEF EnqueueEdit, Reserved
      <3>3. n.text = client[main.uri]
        BY <2>6, <3>1 DEF EnqueueEdit, ExactInv, MainExact, MainOn
      <3>4. UNCHANGED client /\ (UNCHANGED documents
                                 \/ documents' = [documents EXCEPT ![main.uri] = n])
        BY <2>6 DEF EnqueueEdit, PublishOpen
      <3> QED
        BY <2>1, <2>3, <3>1, <3>2, <3>3, <3>4
    <2>7. CASE DropLoose \/ CloseUnedited \/ CloseReindex
      <3>1. main.uri \in Uris
        BY <2>7, MainShape DEF DropLoose, CloseUnedited, CloseReindex, TypeOK
      <3>2. client[main.uri] = NoText /\ Absent.text = NoText /\ Absent \in Doc
        BY <2>7, <3>1, DocMake DEF DropLoose, CloseUnedited, CloseReindex, ExactInv, MainExact,
                                   MainOn, Closing, Absent
      <3> QED
        BY <2>3, <2>7, <3>1, <3>2 DEF DropLoose, CloseUnedited, CloseReindex
    <2>8. CASE WriterPublish
      <3>1. job.uri \in Uris /\ job.edit \in Doc
        BY <2>8, FunctionTypes DEF WriterPublish
      <3>2. main.op # "enqueue"
        BY <2>8 DEF WriterPublish, Reserved, TypeOK
      <3>3. job.edit.text = client[job.uri]
        BY <2>8, <3>1, <3>2 DEF WriterPublish, ExactInv, WriterExact, PendingExact, MainOn
      <3> QED
        BY <2>1, <2>3, <2>8, <3>1, <3>3 DEF WriterPublish, PublishOpen
    <2>9. CASE CloseRead \/ PublishWatched \/ SpawnEditWriter \/ WriterWake
               \/ WriterCollect \/ WriterRemove \/ (\E u \in Uris : WriterTake(u))
      BY <2>1, <2>9 DEF CloseRead, PublishWatched, SpawnEditWriter, WriterWake,
                        WriterCollect, WriterRemove, WriterTake
    <2>10. CASE World
      BY <2>1, <2>10 DEF World, Save, ExternalDelete, ExternalWrite
    <2> QED
      BY <2>1, <2>4, <2>5, <2>6, <2>7, <2>8, <2>9, <2>10 DEF Next, Handler, Writer, vars
  <1> QED
    BY <1>1, <1>2, ExactAlways, PTL DEF Spec, MirrorsEditor, Overlay!Spec

-----------------------------------------------------------------------------
(***************************************************************************)
(* What the index and the parse cache hold, in the environment Exact       *)
(* describes: for open documents the buffer, for closed ones the disk.     *)
(***************************************************************************)

\* The batch of file events in the main loop's hands changes u.
Touched(u) == main.op = "watched" /\ (u \in main.removals \/ main.updates[u] # NoText)

\* A document the editor has open is in the overlay as soon as did_open is
\* through, and stays there until did_close takes it out; a batch of file
\* events only touches documents outside the overlay.
OpenInv ==
  \A u \in Uris :
    /\ client[u] # NoText /\ ~MainOn({"reuse", "publish"}, u) => Present(documents[u])
    /\ MainOn(Closing, u) => Present(documents[u])
    /\ MainOn({"reuse"}, u) => main.doc.text = index[u]
    /\ Touched(u) => ~Present(documents[u])

\* Outside the workspace folders nothing is cached and no event arrives, and
\* did_close does without the disk there and only there.
LooseInv ==
  \A u \in Uris :
    /\ MainOn({"dropLoose"}, u) => u \in Loose
    /\ u \in Loose => /\ wsDocs[u].text = NoText
                      /\ ~Touched(u)
                      /\ ~MainOn({"close", "closeUnedited", "closeReindex"}, u)
                      /\ \A i \in 1 .. Len(events) : events[i].uri # u

\* The index holds the overlay's text of a document, or else the cached one,
\* and the close of an unedited buffer keeps it so.
IndexInv ==
  \A u \in Uris :
    /\ index[u] = IF Present(documents[u]) THEN documents[u].text ELSE wsDocs[u].text
    /\ MainOn({"closeUnedited"}, u) =>
         /\ main.doc = documents[u]
         /\ main.stale <=> wsDocs[u].text # documents[u].text

StoreInv == OpenInv /\ LooseInv /\ IndexInv

\* No event of u waits to be delivered.
Settled(u) == \A i \in 1 .. Len(events) : events[i].uri # u

\* The last event of a document tells whether its file is there.
EventInv ==
  \A u \in Uris : \A i \in 1 .. Len(events) :
    events[i].uri = u /\ (\A j \in 1 .. Len(events) : j > i => events[j].uri # u) =>
      (events[i].kind = "deleted" <=> disk[u] = NoText)

\* Without an event to come, the cached parse of a closed file is what the disk
\* has, or what the main loop is about to publish is.
DiskInv ==
  \A u \in Uris \ Loose :
    /\ MainOn({"close"}, u) => main.text = documents[u].text
    /\ Settled(u) =>
         /\ ~Present(documents[u]) /\ ~Touched(u) => wsDocs[u].text = disk[u]
         /\ Touched(u) => IF u \in main.removals THEN disk[u] = NoText ELSE main.updates[u] = disk[u]
         /\ MainOn({"closeUnedited"}, u) => main.doc.text = disk[u]
         /\ MainOn({"closeReindex"}, u) => main.text = disk[u]

-----------------------------------------------------------------------------
(* What the actions do to the overlay, the cache and the index.            *)

\* Nothing these invariants speak of has changed.
SameStore == documents' = documents /\ wsDocs' = wsDocs /\ index' = index

\* Document u goes into the overlay and the index.
Publishes(u, d) ==
  /\ documents' = [documents EXCEPT ![u] = d]
  /\ index' = [index EXCEPT ![u] = d.text]
  /\ wsDocs' = wsDocs

LEMMA StoreTypes ==
  ASSUME TypeOK
  PROVE  /\ client \in [Uris -> Texts \cup {NoText}] /\ disk \in [Uris -> Texts \cup {NoText}]
         /\ documents \in [Uris -> Doc] /\ wsDocs \in [Uris -> Doc]
         /\ index \in [Uris -> AnyText] /\ events \in Seq(Event)
         /\ \A d \in Doc : d.text \in AnyText
         /\ Ready.op = "ready" /\ Absent.text = NoText /\ Absent \in Doc
         /\ \A t \in Texts : t # NoText
         /\ main.op \in {"ready", "reuse", "publish", "enqueue", "close", "closeReindex",
                         "closeUnedited", "dropLoose", "watched"}
  <1>1. main.op \in {"ready", "reuse", "publish", "enqueue", "close", "closeReindex",
                     "closeUnedited", "dropLoose", "watched"}
    BY DEF TypeOK, MainState, Ready
  <1>2. Absent \in Doc
    BY DocMake
  <1> QED
    BY <1>1, <1>2, SetAssumption DEF TypeOK, Doc, Ready, Absent

\* did_open finds the document outside the overlay, and reuses the cached parse
\* or publishes a new one.
LEMMA OpenMoves ==
  ASSUME Exact, TypeOK, ExactInv, NEW u \in Uris, NEW t \in Texts, DidOpen(u, t)
  PROVE  /\ main.op = "ready" /\ ~Present(documents[u])
         /\ client' = [client EXCEPT ![u] = t] /\ disk' = disk /\ events' = events /\ SameStore
         /\ main'.uri = u
         /\ \/ main'.op = "reuse" /\ main'.doc.text = wsDocs[u].text
            \/ main'.op = "publish"
  <1>1. main = Ready /\ main.op = "ready" /\ client[u] = NoText
    BY DEF DidOpen, Ready
  <1>2. ~Present(documents[u])
    BY <1>1 DEF ExactInv, OverlayExact, MainOn, Closing
  <1>3. \/ main' = [op |-> "reuse", uri |-> u, doc |-> wsDocs[u]]
        \/ main' = [op |-> "publish", uri |-> u, doc |-> [text |-> t, version |-> nextVersion]]
    BY <1>2 DEF DidOpen, UpdateOpenDocument, KnownCopy, Exact
  <1>4. /\ main'.uri = u
        /\ \/ main'.op = "reuse" /\ main'.doc.text = wsDocs[u].text
           \/ main'.op = "publish"
    BY <1>3
  <1> QED
    BY <1>1, <1>2, <1>4 DEF DidOpen, store, SameStore

LEMMA ChangeMoves ==
  ASSUME TypeOK, NEW u \in Uris, NEW t \in Texts, DidChange(u, t)
  PROVE  /\ main.op = "ready" /\ client[u] # NoText
         /\ client' = [client EXCEPT ![u] = t] /\ disk' = disk /\ events' = events /\ SameStore
         /\ main'.op \in {"ready", "enqueue"}
  <1>1. main.op = "ready"
    BY DEF DidChange, Ready
  <1>2. main'.op \in {"ready", "enqueue"}
    BY <1>1 DEF DidChange
  <1> QED
    BY <1>1, <1>2 DEF DidChange, store, SameStore

\* The cached parse enters the overlay.
LEMMA ReuseMoves ==
  ASSUME TypeOK, ReuseDocument
  PROVE  /\ main.op = "reuse" /\ main.uri \in Uris /\ main'.op = "ready"
         /\ documents' = [documents EXCEPT ![main.uri] = main.doc]
         /\ wsDocs' = wsDocs /\ index' = index
         /\ client' = client /\ disk' = disk /\ events' = events
  <1>1. main.uri \in Uris
    BY MainShape DEF ReuseDocument, TypeOK
  <1> QED
    BY <1>1 DEF ReuseDocument, editor, Ready

\* The three publishes: of did_open, of an edit on the spot, of a queued edit.
\* Each publishes a text for a document the editor has open.
LEMMA PublishMoves ==
  ASSUME Exact, TypeOK, Reserved, ExactInv, PublishDocument \/ EnqueueEdit \/ WriterPublish
  PROVE  /\ client' = client /\ disk' = disk /\ events' = events
         /\ \/ SameStore /\ (main.op = "publish" => main' = main)
            \/ \E u \in Uris, d \in Doc :
                 /\ Present(d) /\ client[u] # NoText /\ Publishes(u, d)
                 /\ main.op = "publish" => main' = main \/ main.uri = u
                 /\ main' = main => ~MainOn({"reuse"}, u)
         /\ \/ main' = main /\ main.op # "enqueue"
            \/ main.op \in {"publish", "enqueue"} /\ main'.op = "ready"
  <1>1. CASE PublishDocument
    <2>1. main.uri \in Uris /\ main.doc \in Doc
      BY <1>1, MainShape DEF PublishDocument, TypeOK
    <2>2. client[main.uri] # NoText /\ main.doc.text = client[main.uri]
      BY <1>1, <2>1 DEF PublishDocument, ExactInv, MainExact, MainOn
    <2>3. Publishes(main.uri, main.doc) /\ ~MainOn({"reuse"}, main.uri)
      BY <1>1 DEF PublishDocument, PublishOpen, Publishes, MainOn
    <2> QED
      BY <1>1, <2>1, <2>2, <2>3 DEF PublishDocument, editor, Ready, Present
  <1>2. CASE EnqueueEdit
    <2> DEFINE n == [text |-> main.text, version |-> nextVersion]
    <2>1. main.uri \in Uris /\ main.text \in AnyText
      BY <1>2, MainShape DEF EnqueueEdit, TypeOK
    <2>2. n \in Doc
      BY <1>2, <2>1, DocMake DEF EnqueueEdit, Reserved
    <2>3. n.text = client[main.uri] /\ client[main.uri] # NoText
      BY <1>2, <2>1 DEF EnqueueEdit, ExactInv, MainExact, MainOn
    <2>4. SameStore \/ Publishes(main.uri, n)
      BY <1>2 DEF EnqueueEdit, PublishOpen, Publishes, SameStore, store
    <2>5. Present(n)
      BY <2>3 DEF Present
    <2>6. main.op = "enqueue" /\ main'.op = "ready" /\ ~MainOn({"reuse"}, main.uri)
      BY <1>2 DEF EnqueueEdit, Ready, MainOn
    <2> HIDE DEF n
    <2> QED
      BY <1>2, <2>1, <2>2, <2>3, <2>4, <2>5, <2>6 DEF EnqueueEdit, editor
  <1>3. CASE WriterPublish
    <2>1. job.uri \in Uris /\ job.edit \in Doc
      BY <1>3, FunctionTypes DEF WriterPublish
    <2>2. main.op # "enqueue"
      BY <1>3 DEF WriterPublish, Reserved, TypeOK
    <2>3. Present(job.edit) /\ client[job.uri] # NoText
      BY <1>3, <2>1 DEF WriterPublish, ExactInv, WriterExact, PendingExact
    <2>4. Publishes(job.uri, job.edit)
      BY <1>3 DEF WriterPublish, PublishOpen, Publishes, Exact
    <2>5. ~MainOn({"reuse"}, job.uri)
      BY <1>3, <2>1, <2>3 DEF WriterPublish, ExactInv, WriterExact, MainExact, MainOn
    <2> QED
      BY <1>3, <2>1, <2>2, <2>3, <2>4, <2>5 DEF WriterPublish, editor
  <1> QED
    BY <1>1, <1>2, <1>3

LEMMA CloseMoves ==
  ASSUME TypeOK, NEW u \in Uris, DidClose(u)
  PROVE  /\ main.op = "ready" /\ client[u] # NoText
         /\ client' = [client EXCEPT ![u] = NoText] /\ disk' = disk /\ events' = events /\ SameStore
         /\ main'.uri = u
         /\ u \in Loose => main'.op = "dropLoose"
         /\ u \notin Loose => main'.op = "close" /\ main'.text = documents[u].text
  <1>1. u \in Loose => main' = [op |-> "dropLoose", uri |-> u]
    BY DEF DidClose
  <1>2. u \notin Loose => main' = [op |-> "close", uri |-> u, text |-> documents[u].text]
    BY DEF DidClose
  <1>3. /\ main'.uri = u
        /\ u \in Loose => main'.op = "dropLoose"
        /\ u \notin Loose => main'.op = "close" /\ main'.text = documents[u].text
    BY <1>1, <1>2
  <1> QED
    BY <1>3 DEF DidClose, store, SameStore, Ready

LEMMA DropMoves ==
  ASSUME TypeOK, DropLoose
  PROVE  /\ main.op = "dropLoose" /\ main.uri \in Uris /\ main'.op = "ready"
         /\ documents' = [documents EXCEPT ![main.uri] = Absent]
         /\ index' = [index EXCEPT ![main.uri] = NoText]
         /\ wsDocs' = wsDocs
         /\ client' = client /\ disk' = disk /\ events' = events
  <1>1. main.uri \in Uris
    BY MainShape DEF DropLoose, TypeOK
  <1> QED
    BY <1>1 DEF DropLoose, editor, Ready

LEMMA CloseReadMoves ==
  ASSUME Exact, TypeOK, CloseRead
  PROVE  /\ main.op = "close" /\ main.uri \in Uris /\ main'.uri = main.uri
         /\ client' = client /\ disk' = disk /\ events' = events /\ SameStore
         /\ \/ /\ main'.op = "closeUnedited" /\ main'.doc = documents[main.uri]
               /\ main'.stale = StaleCache(main.uri)
               /\ main.text = disk[main.uri]
            \/ main'.op = "closeReindex" /\ main'.text = disk[main.uri]
  <1>1. main.uri \in Uris
    BY MainShape DEF CloseRead, TypeOK
  <1>2. \/ /\ main' = [op |-> "closeUnedited", uri |-> main.uri, doc |-> documents[main.uri],
                       stale |-> StaleCache(main.uri)]
           /\ main.text = disk[main.uri]
        \/ main' = [op |-> "closeReindex", uri |-> main.uri, text |-> disk[main.uri]]
    BY DEF CloseRead, Exact
  <1>3. /\ main'.uri = main.uri
        /\ \/ /\ main'.op = "closeUnedited" /\ main'.doc = documents[main.uri]
              /\ main'.stale = StaleCache(main.uri)
              /\ main.text = disk[main.uri]
           \/ main'.op = "closeReindex" /\ main'.text = disk[main.uri]
    BY <1>2
  <1> QED
    BY <1>1, <1>3 DEF CloseRead, editor, store, SameStore

LEMMA UneditedMoves ==
  ASSUME TypeOK, CloseUnedited
  PROVE  /\ main.op = "closeUnedited" /\ main.uri \in Uris /\ main.doc \in Doc /\ main'.op = "ready"
         /\ documents' = [documents EXCEPT ![main.uri] = Absent]
         /\ wsDocs' = IF main.stale THEN [wsDocs EXCEPT ![main.uri] = main.doc] ELSE wsDocs
         /\ index' = index
         /\ client' = client /\ disk' = disk /\ events' = events
  <1>1. main.uri \in Uris /\ main.doc \in Doc
    BY MainShape DEF CloseUnedited, TypeOK
  <1> QED
    BY <1>1 DEF CloseUnedited, editor, Ready

LEMMA ReindexMoves ==
  ASSUME TypeOK, CloseReindex
  PROVE  /\ main.op = "closeReindex" /\ main.uri \in Uris /\ main'.op = "ready"
         /\ documents' = [documents EXCEPT ![main.uri] = Absent]
         /\ index' = [index EXCEPT ![main.uri] = main.text]
         /\ \A v \in Uris : wsDocs'[v].text = IF v = main.uri THEN main.text ELSE wsDocs[v].text
         /\ client' = client /\ disk' = disk /\ events' = events
  <1>1. main.uri \in Uris
    BY MainShape DEF CloseReindex, TypeOK
  <1>2. wsDocs \in [Uris -> Doc]
    BY DEF TypeOK
  <1> DEFINE n == IF main.text = NoText THEN Absent ELSE [text |-> main.text, version |-> nextVersion]
  <1>3. n.text = main.text
    BY DEF Absent
  <1>4. wsDocs' = [wsDocs EXCEPT ![main.uri] = n]
    BY DEF CloseReindex
  <1> HIDE DEF n
  <1>5. \A v \in Uris : wsDocs'[v].text = IF v = main.uri THEN main.text ELSE wsDocs[v].text
    BY <1>1, <1>2, <1>3, <1>4
  <1> QED
    BY <1>1, <1>5 DEF CloseReindex, editor, Ready

LEMMA WatchedMoves ==
  ASSUME Exact, TypeOK, NEW n \in 1 .. MaxBatch, WatchedEvents(n)
  PROVE  /\ main.op = "ready" /\ main'.op \in {"ready", "watched"} /\ n <= Len(events)
         /\ client' = client /\ disk' = disk /\ SameStore
         /\ events' = SubSeq(events, n + 1, Len(events))
         /\ \A v \in Uris :
              /\ Touched(v)' <=> \/ v \in Delivered(n, "deleted")
                                 \/ v \in Delivered(n, "changed") /\ disk[v] # NoText
              /\ Touched(v)' => IF v \in main'.removals THEN v \in Delivered(n, "deleted")
                                ELSE main'.updates[v] = disk[v]
  <1> DEFINE updates  == [u \in Uris |-> IF u \in Delivered(n, "changed") THEN disk[u] ELSE NoText]
             removals == Delivered(n, "deleted")
             quiet    == removals = {} /\ \A u \in Uris : updates[u] = NoText
  <1>1. main' = IF quiet THEN Ready
                ELSE [op |-> "watched", updates |-> updates, removals |-> removals]
    <2>1. PICK unparsed \in {{}} :
            main' = IF removals = {} /\ \A u \in Uris : [v \in Uris |->
                         IF v \in Delivered(n, "changed") \ unparsed THEN disk[v] ELSE NoText][u] = NoText
                    THEN Ready
                    ELSE [op |-> "watched", removals |-> removals, updates |-> [v \in Uris |->
                         IF v \in Delivered(n, "changed") \ unparsed THEN disk[v] ELSE NoText]]
      BY DEF WatchedEvents, Exact
    <2>2. Delivered(n, "changed") \ unparsed = Delivered(n, "changed")
      BY <2>1
    <2> QED
      BY <2>1, <2>2
  <1>2. /\ \A u \in Uris : updates[u] = IF u \in Delivered(n, "changed") THEN disk[u] ELSE NoText
        /\ removals \subseteq Uris
    BY DEF Delivered
  <1> HIDE DEF updates, removals
  <1>3. CASE quiet
    <2>1. main'.op = "ready"
      BY <1>1, <1>3 DEF Ready
    <2>2. \A v \in Uris : ~Touched(v)'
      BY <2>1 DEF Touched
    <2>3. \A v \in Uris : v \notin Delivered(n, "deleted") /\ (v \in Delivered(n, "changed") => disk[v] = NoText)
      BY <1>2, <1>3 DEF removals
    <2> QED
      BY <2>1, <2>2, <2>3 DEF WatchedEvents, store, SameStore, Ready
  <1>4. CASE ~quiet
    <2>1. main'.op = "watched" /\ main'.updates = updates /\ main'.removals = removals
      BY <1>1, <1>4
    <2>2. \A v \in Uris : Touched(v)' <=> v \in removals \/ updates[v] # NoText
      BY <2>1 DEF Touched
    <2>3. \A v \in Uris :
              /\ Touched(v)' <=> \/ v \in Delivered(n, "deleted")
                                 \/ v \in Delivered(n, "changed") /\ disk[v] # NoText
              /\ Touched(v)' => IF v \in main'.removals THEN v \in Delivered(n, "deleted")
                                ELSE main'.updates[v] = disk[v]
      BY <1>2, <2>1, <2>2 DEF removals
    <2> QED
      BY <2>1, <2>3 DEF WatchedEvents, store, SameStore, Ready
  <1> QED
    BY <1>3, <1>4

LEMMA PublishWatchedMoves ==
  ASSUME TypeOK, PublishWatched
  PROVE  /\ main.op = "watched" /\ main'.op = "ready"
         /\ documents' = documents
         /\ \A v \in Uris :
              IF Touched(v)
              THEN LET t == IF v \in main.removals THEN NoText ELSE main.updates[v]
                   IN  wsDocs'[v].text = t /\ index'[v] = t
              ELSE wsDocs'[v] = wsDocs[v] /\ index'[v] = index[v]
         /\ client' = client /\ disk' = disk /\ events' = events
  <1>1. main.op = "watched"
    BY DEF PublishWatched
  <1>2. \A v \in Uris :
              IF Touched(v)
              THEN LET t == IF v \in main.removals THEN NoText ELSE main.updates[v]
                   IN  wsDocs'[v].text = t /\ index'[v] = t
              ELSE wsDocs'[v] = wsDocs[v] /\ index'[v] = index[v]
    <2> TAKE v \in Uris
    <2>1. /\ wsDocs'[v] = IF v \in main.removals THEN Absent
                          ELSE IF main.updates[v] # NoText
                               THEN [text |-> main.updates[v], version |-> nextVersion]
                               ELSE wsDocs[v]
          /\ index'[v] = IF v \in main.removals THEN NoText
                         ELSE IF main.updates[v] # NoText THEN main.updates[v] ELSE index[v]
      BY DEF PublishWatched
    <2>2. Touched(v) <=> v \in main.removals \/ main.updates[v] # NoText
      BY <1>1 DEF Touched
    <2> QED
      BY <2>1, <2>2 DEF Absent
  <1> QED
    BY <1>1, <1>2 DEF PublishWatched, editor, Ready

\* The writer's other steps, and the start of the writer.
Aside == \/ SpawnEditWriter \/ WriterWake \/ WriterCollect \/ WriterRemove
         \/ \E u \in Uris : WriterTake(u)
         \/ UNCHANGED vars

LEMMA AsideMoves ==
  ASSUME Aside
  PROVE  main' = main /\ client' = client /\ disk' = disk /\ events' = events /\ SameStore
  BY DEF Aside, SpawnEditWriter, WriterWake, WriterCollect, WriterRemove, WriterTake, vars,
         editor, store, SameStore

LEMMA WorldMoves ==
  ASSUME World
  PROVE  main' = main /\ client' = client /\ SameStore
  BY DEF World, Save, ExternalDelete, ExternalWrite, store, SameStore

LEMMA AllSteps ==
  ASSUME Exact, [Next]_vars
  PROVE  \/ \E u \in Uris, t \in Texts : DidOpen(u, t) \/ DidChange(u, t)
         \/ \E u \in Uris : DidClose(u)
         \/ \E n \in 1 .. MaxBatch : WatchedEvents(n)
         \/ ReuseDocument
         \/ PublishDocument \/ EnqueueEdit \/ WriterPublish
         \/ DropLoose \/ CloseRead \/ CloseUnedited \/ CloseReindex
         \/ PublishWatched \/ Aside \/ World
  BY DEF Next, Handler, Notification, Writer, Aside, DidChangeFull, Exact

-----------------------------------------------------------------------------
(* Who is in the overlay.                                                  *)

OpenPart(v) ==
  /\ client[v] # NoText /\ ~MainOn({"reuse", "publish"}, v) => Present(documents[v])
  /\ MainOn(Closing, v) => Present(documents[v])
  /\ MainOn({"reuse"}, v) => main.doc.text = index[v]
  /\ Touched(v) => ~Present(documents[v])

LEMMA OpenStep ==
  ASSUME Exact, TypeOK, Reserved, ExactInv, StoreInv, [Next]_vars
  PROVE  OpenInv'
  <1> SUFFICES ASSUME NEW v \in Uris PROVE OpenPart(v)'
    BY DEF OpenInv, OpenPart
  <1>0. OpenPart(v)
    BY DEF StoreInv, OpenInv, OpenPart
  <1>1. index[v] = IF Present(documents[v]) THEN documents[v].text ELSE wsDocs[v].text
    BY DEF StoreInv, IndexInv
  <1> USE DEF OpenPart, MainOn, Closing, Touched, Present, SameStore
  <1>2. ASSUME NEW u \in Uris, NEW t \in Texts, DidOpen(u, t)
        PROVE  OpenPart(v)'
    <2>1. /\ main.op = "ready" /\ documents[u].text = NoText
          /\ client' = [client EXCEPT ![u] = t] /\ SameStore
          /\ main'.uri = u
          /\ \/ main'.op = "reuse" /\ main'.doc.text = wsDocs[u].text
             \/ main'.op = "publish"
      BY <1>2, OpenMoves
    <2> QED
      BY <1>0, <1>1, <2>1, StoreTypes
  <1>3. ASSUME NEW u \in Uris, NEW t \in Texts, DidChange(u, t)
        PROVE  OpenPart(v)'
    <2>1. /\ main.op = "ready" /\ client[u] # NoText
          /\ client' = [client EXCEPT ![u] = t] /\ SameStore
          /\ main'.op \in {"ready", "enqueue"}
      BY <1>3, ChangeMoves
    <2> QED
      BY <1>0, <2>1, StoreTypes
  <1>4. ASSUME NEW u \in Uris, DidClose(u)
        PROVE  OpenPart(v)'
    <2>1. /\ main.op = "ready" /\ client[u] # NoText
          /\ client' = [client EXCEPT ![u] = NoText] /\ SameStore
          /\ main'.uri = u /\ main'.op \in {"close", "dropLoose"}
      BY <1>4, CloseMoves
    <2> QED
      BY <1>0, <2>1, StoreTypes
  <1>5. ASSUME NEW n \in 1 .. MaxBatch, WatchedEvents(n)
        PROVE  OpenPart(v)'
    <2>1. /\ main.op = "ready" /\ main'.op \in {"ready", "watched"}
          /\ client' = client /\ SameStore
          /\ Touched(v)' => v \in Delivered(n, "deleted") \/ v \in Delivered(n, "changed")
      BY <1>5, WatchedMoves
    <2>2. Touched(v)' => ~Present(documents[v])
      BY <2>1 DEF Delivered
    <2> QED
      BY <1>0, <2>1, <2>2
  <1>6. CASE ReuseDocument
    <2>1. /\ main.op = "reuse" /\ main.uri \in Uris /\ main'.op = "ready"
          /\ documents' = [documents EXCEPT ![main.uri] = main.doc]
          /\ client' = client
      BY <1>6, ReuseMoves
    <2>2. main.doc.text = client[main.uri] /\ client[main.uri] # NoText
      BY <2>1 DEF ExactInv, MainExact
    <2> QED
      BY <1>0, <2>1, <2>2, StoreTypes
  <1>7. CASE PublishDocument \/ EnqueueEdit \/ WriterPublish
    <2>1. /\ client' = client
          /\ \/ main' = main /\ main.op # "enqueue"
             \/ main.op \in {"publish", "enqueue"} /\ main'.op = "ready"
      BY <1>7, PublishMoves
    <2>2. CASE SameStore /\ (main.op = "publish" => main' = main)
      BY <1>0, <2>1, <2>2
    <2>3. ASSUME NEW u \in Uris, NEW d \in Doc, d.text # NoText, client[u] # NoText,
                 Publishes(u, d), main.op = "publish" => main' = main \/ main.uri = u,
                 main' = main => ~MainOn({"reuse"}, u)
          PROVE  OpenPart(v)'
      <3>1. /\ documents' = [documents EXCEPT ![u] = d]
            /\ index' = [index EXCEPT ![u] = d.text]
        BY <2>3 DEF Publishes
      <3>2. main.op \in {"watched"} => Present(documents[u])
        BY <2>3 DEF StoreInv, OpenInv
      <3>3. CASE v # u
        BY <1>0, <2>1, <2>3, <3>1, <3>3, StoreTypes
      <3>4. CASE v = u
        <4>1. documents'[v].text # NoText
          BY <2>3, <3>1, <3>4, StoreTypes
        <4>2. ~Touched(v)'
          BY <1>0, <2>1, <3>2, <3>4
        <4>3. MainOn({"reuse"}, v)' => main'.doc.text = index'[v]
          BY <2>1, <2>3, <3>4
        <4> QED
          BY <4>1, <4>2, <4>3
      <3> QED
        BY <3>3, <3>4
    <2> QED
      BY <1>7, <2>2, <2>3, PublishMoves
  <1>8. CASE DropLoose \/ CloseUnedited \/ CloseReindex
    <2>1. /\ main.op \in Closing /\ main.uri \in Uris /\ main'.op = "ready"
          /\ documents' = [documents EXCEPT ![main.uri] = Absent]
          /\ client' = client
      BY <1>8, DropMoves, UneditedMoves, ReindexMoves
    <2>2. client[main.uri] = NoText
      BY <2>1 DEF ExactInv, MainExact
    <2> QED
      BY <1>0, <2>1, <2>2, StoreTypes
  <1>9. CASE CloseRead
    <2>1. /\ main.op = "close" /\ main.uri \in Uris /\ main'.uri = main.uri
          /\ client' = client /\ SameStore
          /\ main'.op \in {"closeUnedited", "closeReindex"}
      BY <1>9, CloseReadMoves
    <2> QED
      BY <1>0, <2>1
  <1>10. CASE PublishWatched
    <2>1. main.op = "watched" /\ main'.op = "ready" /\ documents' = documents /\ client' = client
      BY <1>10, PublishWatchedMoves
    <2> QED
      BY <1>0, <2>1
  <1>11. CASE Aside \/ World
    <2>1. main' = main /\ client' = client /\ SameStore
      BY <1>11, AsideMoves, WorldMoves
    <2> QED
      BY <1>0, <2>1
  <1> QED
    BY <1>2, <1>3, <1>4, <1>5, <1>6, <1>7, <1>8, <1>9, <1>10, <1>11, AllSteps

-----------------------------------------------------------------------------
(* Events.                                                                 *)

\* Delivering events leaves the later ones,
LEMMA Rest ==
  ASSUME TypeOK, NEW n \in Nat, n <= Len(events), events' = SubSeq(events, n + 1, Len(events))
  PROVE  /\ Len(events') = Len(events) - n
         /\ \A i \in 1 .. Len(events') : i + n \in 1 .. Len(events) /\ events'[i] = events[i + n]
  <1>1. events \in Seq(Event) /\ Len(events) \in Nat
    BY DEF TypeOK
  <1>2. Len(events') = Len(events) - n
    BY <1>1
  <1>3. \A i \in 1 .. Len(events') : events'[i] = events[i + n]
    BY <1>1, <1>2
  <1> QED
    BY <1>1, <1>2, <1>3

\* and a change of a file in a workspace folder adds one.
LEMMA NoticeMoves ==
  ASSUME TypeOK, World
  PROVE  \E u \in Uris, k \in {"changed", "deleted"} :
           /\ \A v \in Uris : v # u => disk'[v] = disk[v]
           /\ k = "deleted" <=> disk'[u] = NoText
           /\ u \in Loose => events' = events
           /\ u \notin Loose => /\ Len(events') = Len(events) + 1
                                /\ \A i \in 1 .. Len(events) : events'[i] = events[i]
                                /\ events'[Len(events) + 1].uri = u
                                /\ events'[Len(events) + 1].kind = k
  <1>1. events \in Seq(Event) /\ Len(events) \in Nat /\ disk \in [Uris -> Texts \cup {NoText}]
    BY DEF TypeOK
  <1>2. ASSUME NEW u \in Uris, NEW k \in {"changed", "deleted"}, Notice(u, k)
        PROVE  /\ u \in Loose => events' = events
               /\ u \notin Loose => /\ Len(events') = Len(events) + 1
                                    /\ \A i \in 1 .. Len(events) : events'[i] = events[i]
                                    /\ events'[Len(events) + 1].uri = u
                                    /\ events'[Len(events) + 1].kind = k
    <2> DEFINE e == [uri |-> u, kind |-> k]
    <2>1. e \in Event /\ e.uri = u /\ e.kind = k
      BY DEF Event
    <2>2. u \notin Loose => events' = Append(events, e)
      BY <1>2 DEF Notice
    <2>3. u \in Loose => events' = events
      BY <1>2 DEF Notice
    <2> HIDE DEF e
    <2>4. u \notin Loose => /\ Len(events') = Len(events) + 1
                            /\ \A i \in 1 .. Len(events) : events'[i] = events[i]
                            /\ events'[Len(events) + 1] = e
      BY <1>1, <2>1, <2>2
    <2> QED
      BY <2>1, <2>3, <2>4
  <1>3. \E u \in Uris, k \in {"changed", "deleted"} :
          /\ \A v \in Uris : v # u => disk'[v] = disk[v]
          /\ k = "deleted" <=> disk'[u] = NoText
          /\ Notice(u, k)
    <2>1. ASSUME NEW u \in Uris, Save(u)
          PROVE  /\ \A v \in Uris : v # u => disk'[v] = disk[v]
                 /\ disk'[u] # NoText
                 /\ Notice(u, "changed")
      BY <1>1, <2>1 DEF Save
    <2>2. ASSUME NEW u \in Uris, NEW t \in Texts, ExternalWrite(u, t)
          PROVE  /\ \A v \in Uris : v # u => disk'[v] = disk[v]
                 /\ disk'[u] # NoText
                 /\ Notice(u, "changed")
      BY <1>1, <2>2, SetAssumption DEF ExternalWrite
    <2>3. ASSUME NEW u \in Uris, ExternalDelete(u)
          PROVE  /\ \A v \in Uris : v # u => disk'[v] = disk[v]
                 /\ disk'[u] = NoText
                 /\ Notice(u, "deleted")
      BY <1>1, <2>3 DEF ExternalDelete
    <2> QED
      BY <2>1, <2>2, <2>3 DEF World
  <1> QED
    BY <1>2, <1>3

-----------------------------------------------------------------------------
(* Documents outside the workspace folders.                                *)

LoosePart(v) ==
  /\ MainOn({"dropLoose"}, v) => v \in Loose
  /\ v \in Loose => /\ wsDocs[v].text = NoText
                    /\ ~Touched(v)
                    /\ ~MainOn({"close", "closeUnedited", "closeReindex"}, v)
                    /\ \A i \in 1 .. Len(events) : events[i].uri # v

LEMMA LooseStep ==
  ASSUME Exact, TypeOK, Reserved, ExactInv, StoreInv, [Next]_vars
  PROVE  LooseInv'
  <1> SUFFICES ASSUME NEW v \in Uris PROVE LoosePart(v)'
    BY DEF LooseInv, LoosePart
  <1>0. LoosePart(v)
    BY DEF StoreInv, LooseInv, LoosePart
  <1>1. ASSUME wsDocs' = wsDocs, events' = events,
               main'.op \in {"ready", "reuse", "publish", "enqueue"} \/ main' = main
        PROVE  LoosePart(v)'
    BY <1>0, <1>1 DEF LoosePart, MainOn, Touched
  <1>2. ASSUME NEW u \in Uris, NEW t \in Texts, DidOpen(u, t) \/ DidChange(u, t)
        PROVE  LoosePart(v)'
    BY <1>1, <1>2, OpenMoves, ChangeMoves DEF SameStore
  <1>4. ASSUME NEW u \in Uris, DidClose(u)
        PROVE  LoosePart(v)'
    <2>1. /\ SameStore /\ events' = events
          /\ main'.uri = u
          /\ u \in Loose => main'.op = "dropLoose"
          /\ u \notin Loose => main'.op = "close"
      BY <1>4, CloseMoves
    <2> QED
      BY <1>0, <2>1 DEF LoosePart, MainOn, Touched, SameStore
  <1>5. ASSUME NEW n \in 1 .. MaxBatch, WatchedEvents(n)
        PROVE  LoosePart(v)'
    <2>1. /\ main'.op \in {"ready", "watched"} /\ n <= Len(events) /\ SameStore
          /\ events' = SubSeq(events, n + 1, Len(events))
          /\ Touched(v)' => v \in Delivered(n, "deleted") \/ v \in Delivered(n, "changed")
      BY <1>5, WatchedMoves
    <2>2. n \in Nat /\ Len(events) \in Nat /\ 1 .. n \subseteq 1 .. Len(events)
      BY <1>5, <2>1, BoundAssumption DEF TypeOK
    <2>3. \A i \in 1 .. Len(events') : i + n \in 1 .. Len(events) /\ events'[i] = events[i + n]
      BY <2>1, <2>2, Rest
    <2>4. Touched(v)' => \E i \in 1 .. Len(events) : events[i].uri = v
      <3>1. ASSUME NEW k, v \in Delivered(n, k) PROVE \E i \in 1 .. Len(events) : events[i].uri = v
        <4>1. PICK i \in 1 .. n : events[i] = [uri |-> v, kind |-> k]
          BY <3>1 DEF Delivered
        <4>2. events[i].uri = v
          BY <4>1
        <4> QED
          BY <2>2, <4>2
      <3> QED
        BY <2>1, <3>1
    <2>5. wsDocs' = wsDocs
      BY <2>1 DEF SameStore
    <2> QED
      BY <1>0, <2>1, <2>3, <2>4, <2>5 DEF LoosePart, MainOn
  <1>6. CASE ReuseDocument \/ DropLoose
    BY <1>1, <1>6, ReuseMoves, DropMoves
  <1>7. CASE PublishDocument \/ EnqueueEdit \/ WriterPublish
    <2>1. /\ main' = main \/ main'.op = "ready"
          /\ events' = events /\ wsDocs' = wsDocs
      BY <1>7, PublishMoves DEF SameStore, Publishes
    <2> QED
      BY <1>1, <2>1
  <1>8. CASE CloseUnedited \/ CloseReindex
    <2>1. /\ main.op \in {"closeUnedited", "closeReindex"} /\ main'.op = "ready" /\ events' = events
          /\ v # main.uri => wsDocs'[v].text = wsDocs[v].text
      BY <1>8, UneditedMoves, ReindexMoves, StoreTypes
    <2> QED
      BY <1>0, <2>1 DEF LoosePart, MainOn, Touched
  <1>9. CASE CloseRead
    <2>1. /\ main.op = "close" /\ main'.uri = main.uri
          /\ SameStore /\ events' = events
          /\ main'.op \in {"closeUnedited", "closeReindex"}
      BY <1>9, CloseReadMoves
    <2> QED
      BY <1>0, <2>1 DEF LoosePart, MainOn, Touched, SameStore
  <1>10. CASE PublishWatched
    <2>1. /\ main'.op = "ready" /\ events' = events
          /\ ~Touched(v) => wsDocs'[v] = wsDocs[v]
      BY <1>10, PublishWatchedMoves
    <2> QED
      BY <1>0, <2>1 DEF LoosePart, MainOn, Touched
  <1>11. CASE Aside
    BY <1>1, <1>11, AsideMoves DEF SameStore
  <1>12. CASE World
    <2>1. main' = main /\ wsDocs' = wsDocs
      BY <1>12, WorldMoves DEF SameStore
    <2>2. v \in Loose => \A i \in 1 .. Len(events') : events'[i].uri # v
      <3>1. PICK u \in Uris :
              /\ u \in Loose => events' = events
              /\ u \notin Loose => /\ Len(events') = Len(events) + 1
                                   /\ \A i \in 1 .. Len(events) : events'[i] = events[i]
                                   /\ events'[Len(events) + 1].uri = u
        BY <1>12, NoticeMoves
      <3>2. Len(events) \in Nat
        BY DEF TypeOK
      <3> QED
        BY <1>0, <3>1, <3>2 DEF LoosePart
    <2> QED
      BY <1>0, <2>1, <2>2 DEF LoosePart, MainOn, Touched
  <1> QED
    BY <1>2, <1>4, <1>5, <1>6, <1>7, <1>8, <1>9, <1>10, <1>11, <1>12, AllSteps

-----------------------------------------------------------------------------
(* What the index holds.                                                   *)

IndexPart(v) ==
  /\ index[v] = IF Present(documents[v]) THEN documents[v].text ELSE wsDocs[v].text
  /\ MainOn({"closeUnedited"}, v) =>
       /\ main.doc = documents[v]
       /\ main.stale <=> wsDocs[v].text # documents[v].text

LEMMA IndexStep ==
  ASSUME Exact, TypeOK, Reserved, ExactInv, StoreInv, [Next]_vars
  PROVE  IndexInv'
  <1> SUFFICES ASSUME NEW v \in Uris PROVE IndexPart(v)'
    BY DEF IndexInv, IndexPart
  <1>0. IndexPart(v)
    BY DEF StoreInv, IndexInv, IndexPart
  <1>1. ASSUME SameStore, main'.op # "closeUnedited" \/ main' = main
        PROVE  IndexPart(v)'
    BY <1>0, <1>1 DEF IndexPart, MainOn, SameStore, Present
  <1>2. ASSUME NEW u \in Uris, NEW t \in Texts, DidOpen(u, t) \/ DidChange(u, t)
        PROVE  IndexPart(v)'
    BY <1>1, <1>2, OpenMoves, ChangeMoves
  <1>4. ASSUME NEW u \in Uris, DidClose(u)
        PROVE  IndexPart(v)'
    BY <1>1, <1>4, CloseMoves
  <1>5. ASSUME NEW n \in 1 .. MaxBatch, WatchedEvents(n)
        PROVE  IndexPart(v)'
    BY <1>1, <1>5, WatchedMoves
  <1>6. CASE ReuseDocument
    <2>1. /\ main.op = "reuse" /\ main.uri \in Uris /\ main'.op = "ready"
          /\ documents' = [documents EXCEPT ![main.uri] = main.doc]
          /\ wsDocs' = wsDocs /\ index' = index
      BY <1>6, ReuseMoves
    <2>2. main.doc.text # NoText
      BY <2>1 DEF ExactInv, MainExact, MainOn
    <2>3. main.doc.text = index[main.uri]
      BY <2>1 DEF StoreInv, OpenInv, MainOn
    <2> QED
      BY <1>0, <2>1, <2>2, <2>3, StoreTypes DEF IndexPart, MainOn, Present
  <1>7. CASE PublishDocument \/ EnqueueEdit \/ WriterPublish
    <2>1. main' = main \/ main'.op = "ready"
      BY <1>7, PublishMoves
    <2>2. CASE SameStore
      BY <1>1, <2>1, <2>2
    <2>3. ASSUME NEW u \in Uris, NEW d \in Doc, Present(d), client[u] # NoText, Publishes(u, d)
          PROVE  IndexPart(v)'
      <3>1. /\ documents' = [documents EXCEPT ![u] = d]
            /\ index' = [index EXCEPT ![u] = d.text]
            /\ wsDocs' = wsDocs
        BY <2>3 DEF Publishes
      <3>2. CASE v # u
        BY <1>0, <2>1, <3>1, <3>2, StoreTypes DEF IndexPart, MainOn, Present
      <3>3. CASE v = u
        <4>1. ~MainOn({"closeUnedited"}, v)
          BY <2>3, <3>3 DEF ExactInv, MainExact, MainOn, Closing
        <4>2. ~MainOn({"closeUnedited"}, v)'
          BY <2>1, <4>1 DEF MainOn
        <4>3. documents'[v] = d /\ index'[v] = d.text
          BY <3>1, <3>3, StoreTypes
        <4> QED
          BY <2>3, <4>2, <4>3 DEF IndexPart, Present
      <3> QED
        BY <3>2, <3>3
    <2> QED
      BY <1>7, <2>2, <2>3, PublishMoves
  <1>8. CASE DropLoose
    <2>1. /\ main.op = "dropLoose" /\ main.uri \in Uris /\ main'.op = "ready"
          /\ documents' = [documents EXCEPT ![main.uri] = Absent]
          /\ index' = [index EXCEPT ![main.uri] = NoText]
          /\ wsDocs' = wsDocs
      BY <1>8, DropMoves
    <2>2. wsDocs[main.uri].text = NoText
      BY <2>1 DEF StoreInv, LooseInv, MainOn
    <2> QED
      BY <1>0, <2>1, <2>2, StoreTypes DEF IndexPart, MainOn, Present
  <1>9. CASE CloseRead
    <2>1. /\ main.op = "close" /\ main.uri \in Uris /\ main'.uri = main.uri /\ SameStore
          /\ main'.op = "closeUnedited" => /\ main'.doc = documents[main.uri]
                                           /\ main'.stale = StaleCache(main.uri)
      BY <1>9, CloseReadMoves
    <2>2. Present(documents[main.uri])
      BY <2>1 DEF StoreInv, OpenInv, MainOn, Closing
    <2> QED
      BY <1>0, <2>1, <2>2 DEF IndexPart, MainOn, StaleCache, SameStore, Present
  <1>10. CASE CloseUnedited
    <2>1. /\ main.op = "closeUnedited" /\ main.uri \in Uris /\ main'.op = "ready"
          /\ documents' = [documents EXCEPT ![main.uri] = Absent]
          /\ wsDocs' = IF main.stale THEN [wsDocs EXCEPT ![main.uri] = main.doc] ELSE wsDocs
          /\ index' = index
      BY <1>10, UneditedMoves
    <2>2. CASE v # main.uri
      <3>1. wsDocs'[v] = wsDocs[v] /\ documents'[v] = documents[v]
        BY <2>1, <2>2, StoreTypes
      <3> QED
        BY <1>0, <2>1, <3>1 DEF IndexPart, MainOn, Present
    <2>3. CASE v = main.uri
      <3>1. /\ main.doc = documents[v] /\ (main.stale <=> wsDocs[v].text # documents[v].text)
            /\ Present(documents[v])
        BY <1>0, <2>1, <2>3 DEF IndexPart, MainOn, StoreInv, OpenInv, Closing
      <3>2. documents'[v] = Absent /\ wsDocs'[v].text = documents[v].text
        BY <2>1, <2>3, <3>1, StoreTypes
      <3> QED
        BY <1>0, <2>1, <3>1, <3>2, StoreTypes DEF IndexPart, MainOn, Present
    <2> QED
      BY <2>2, <2>3
  <1>11. CASE CloseReindex
    <2>1. /\ main.uri \in Uris /\ main'.op = "ready"
          /\ documents' = [documents EXCEPT ![main.uri] = Absent]
          /\ index' = [index EXCEPT ![main.uri] = main.text]
          /\ wsDocs'[v].text = IF v = main.uri THEN main.text ELSE wsDocs[v].text
      BY <1>11, ReindexMoves
    <2> QED
      BY <1>0, <2>1, StoreTypes DEF IndexPart, MainOn, Present
  <1>12. CASE PublishWatched
    <2>1. /\ main'.op = "ready" /\ documents' = documents
          /\ Touched(v) => wsDocs'[v].text = index'[v]
          /\ ~Touched(v) => wsDocs'[v] = wsDocs[v] /\ index'[v] = index[v]
      BY <1>12, PublishWatchedMoves
    <2>2. Touched(v) => ~Present(documents[v])
      BY DEF StoreInv, OpenInv
    <2> QED
      BY <1>0, <2>1, <2>2 DEF IndexPart, MainOn, Present
  <1>13. CASE Aside \/ World
    BY <1>1, <1>13, AsideMoves, WorldMoves
  <1> QED
    BY <1>2, <1>4, <1>5, <1>6, <1>7, <1>8, <1>9, <1>10, <1>11, <1>12, <1>13, AllSteps

LEMMA InitStore == Init => StoreInv
  <1> SUFFICES ASSUME Init PROVE StoreInv
    OBVIOUS
  <1>1. /\ main.op = "ready" /\ Absent.text = NoText /\ Len(events) = 0
        /\ client = [u \in Uris |-> NoText] /\ documents = [u \in Uris |-> Absent]
        /\ \A u \in Uris : index[u] = wsDocs[u].text
    BY DEF Init, Ready, Absent
  <1>2. \A u \in Loose : wsDocs[u].text = NoText
    BY SetAssumption DEF Init, Absent
  <1>3. OpenInv
    BY <1>1 DEF OpenInv, MainOn, Touched, Closing
  <1>4. LooseInv
    BY <1>1, <1>2 DEF LooseInv, MainOn, Touched
  <1>5. IndexInv
    BY <1>1 DEF IndexInv, MainOn, Present
  <1> QED
    BY <1>3, <1>4, <1>5 DEF StoreInv

LEMMA StoreAlways ==
  ASSUME Exact
  PROVE  Spec => [](TypeOK /\ Reserved /\ ExactInv /\ StoreInv)
  <1>1. TypeOK /\ Reserved /\ ExactInv /\ StoreInv /\ [Next]_vars => StoreInv'
    BY OpenStep, LooseStep, IndexStep DEF StoreInv
  <1> QED
    BY <1>1, InitStore, ExactAlways, PTL DEF Spec

\* In the environment Exact describes, whatever the order of opens, edits,
\* closes, saves, file events and the writer's publishes, an open document's
\* symbols are those of the text its positions refer to
\* (publish_open_document_indices, reuse_unchanged_open_document).
THEOREM OpenAlwaysIndexed ==
  ASSUME Exact
  PROVE  Spec => []OpenIndexed
  <1>1. StoreInv => OpenIndexed
    BY DEF StoreInv, IndexInv, OpenIndexed
  <1> QED
    BY <1>1, StoreAlways, PTL

-----------------------------------------------------------------------------
(* What the disk holds.                                                    *)

LEMMA EventStep ==
  ASSUME Exact, TypeOK, Reserved, ExactInv, StoreInv, EventInv, [Next]_vars
  PROVE  EventInv'
  <1>0. Len(events) \in Nat
    BY DEF TypeOK
  <1>1. ASSUME events' = events, disk' = disk
        PROVE  EventInv'
    BY <1>1 DEF EventInv
  <1>2. ASSUME NEW n \in 1 .. MaxBatch, WatchedEvents(n)
        PROVE  EventInv'
    <2>1. n <= Len(events) /\ disk' = disk /\ events' = SubSeq(events, n + 1, Len(events))
      BY <1>2, WatchedMoves
    <2>2. n \in Nat
      BY BoundAssumption
    <2>3. /\ Len(events') = Len(events) - n
          /\ \A i \in 1 .. Len(events') : i + n \in 1 .. Len(events) /\ events'[i] = events[i + n]
      BY <2>1, <2>2, Rest
    <2> SUFFICES ASSUME NEW u \in Uris, NEW i \in 1 .. Len(events'), events'[i].uri = u,
                        \A j \in 1 .. Len(events') : j > i => events'[j].uri # u
                 PROVE  events'[i].kind = "deleted" <=> disk'[u] = NoText
      BY DEF EventInv
    <2>4. i + n \in 1 .. Len(events) /\ events[i + n] = events'[i]
      BY <2>3
    <2>5. ASSUME NEW j \in 1 .. Len(events), j > i + n
          PROVE  events[j].uri # u
      <3>1. j - n \in 1 .. Len(events') /\ j - n > i /\ (j - n) + n = j
        BY <1>0, <2>2, <2>3, <2>5
      <3>2. events'[j - n] = events[j]
        BY <2>3, <3>1
      <3> QED
        BY <3>1, <3>2
    <2> QED
      BY <2>1, <2>4, <2>5 DEF EventInv
  <1>3. CASE World
    <2>1. PICK u \in Uris, k \in {"changed", "deleted"} :
            /\ \A v \in Uris : v # u => disk'[v] = disk[v]
            /\ k = "deleted" <=> disk'[u] = NoText
            /\ u \in Loose => events' = events
            /\ u \notin Loose => /\ Len(events') = Len(events) + 1
                                 /\ \A i \in 1 .. Len(events) : events'[i] = events[i]
                                 /\ events'[Len(events) + 1].uri = u
                                 /\ events'[Len(events) + 1].kind = k
      BY <1>3, NoticeMoves
    <2>2. u \in Loose => \A i \in 1 .. Len(events) : events[i].uri # u
      BY DEF StoreInv, LooseInv
    <2> SUFFICES ASSUME NEW v \in Uris, NEW i \in 1 .. Len(events'), events'[i].uri = v,
                        \A j \in 1 .. Len(events') : j > i => events'[j].uri # v
                 PROVE  events'[i].kind = "deleted" <=> disk'[v] = NoText
      BY DEF EventInv
    <2>3. CASE u \in Loose
      BY <2>1, <2>2, <2>3 DEF EventInv
    <2>4. CASE u \notin Loose /\ v = u
      <3>1. i = Len(events) + 1
        BY <1>0, <2>1, <2>4
      <3> QED
        BY <2>1, <2>4, <3>1
    <2>5. CASE u \notin Loose /\ v # u
      <3>1. i \in 1 .. Len(events)
        BY <1>0, <2>1, <2>5
      <3>2. \A j \in 1 .. Len(events) : j \in 1 .. Len(events') /\ events'[j] = events[j]
        BY <1>0, <2>1, <2>5
      <3>3. events[i].uri = v /\ \A j \in 1 .. Len(events) : j > i => events[j].uri # v
        BY <3>1, <3>2
      <3> QED
        BY <2>1, <2>5, <3>1, <3>2, <3>3 DEF EventInv
    <2> QED
      BY <2>3, <2>4, <2>5
  <1>4. CASE PublishDocument \/ EnqueueEdit \/ WriterPublish
    BY <1>1, <1>4, PublishMoves
  <1>5. CASE DropLoose \/ CloseRead \/ CloseUnedited \/ CloseReindex \/ PublishWatched
             \/ ReuseDocument \/ Aside
    BY <1>1, <1>5, DropMoves, CloseReadMoves, UneditedMoves, ReindexMoves, PublishWatchedMoves,
       ReuseMoves, AsideMoves
  <1>6. ASSUME NEW u \in Uris, NEW t \in Texts, DidOpen(u, t) \/ DidChange(u, t)
        PROVE  EventInv'
    BY <1>1, <1>6, OpenMoves, ChangeMoves
  <1>7. ASSUME NEW u \in Uris, DidClose(u)
        PROVE  EventInv'
    BY <1>1, <1>7, CloseMoves
  <1> QED
    BY <1>2, <1>3, <1>4, <1>5, <1>6, <1>7, AllSteps

DiskPart(v) ==
  /\ MainOn({"close"}, v) => main.text = documents[v].text
  /\ Settled(v) =>
       /\ ~Present(documents[v]) /\ ~Touched(v) => wsDocs[v].text = disk[v]
       /\ Touched(v) => IF v \in main.removals THEN disk[v] = NoText ELSE main.updates[v] = disk[v]
       /\ MainOn({"closeUnedited"}, v) => main.doc.text = disk[v]
       /\ MainOn({"closeReindex"}, v) => main.text = disk[v]

\* The events are delivered one at a time: the only one of a file that has
\* been delivered last tells whether the file is there.
LEMMA DiskWatched ==
  ASSUME Exact, MaxBatch = 1, TypeOK, EventInv, NEW v \in Uris \ Loose, DiskPart(v),
         NEW n \in 1 .. MaxBatch, WatchedEvents(n)
  PROVE  DiskPart(v)'
  <1>1. /\ main.op = "ready" /\ main'.op \in {"ready", "watched"} /\ n = 1 /\ n <= Len(events)
        /\ disk' = disk /\ SameStore
        /\ events' = SubSeq(events, n + 1, Len(events))
        /\ Touched(v)' <=> \/ v \in Delivered(n, "deleted")
                           \/ v \in Delivered(n, "changed") /\ disk[v] # NoText
        /\ Touched(v)' => IF v \in main'.removals THEN v \in Delivered(n, "deleted")
                          ELSE main'.updates[v] = disk[v]
    BY WatchedMoves
  <1>2. Len(events) \in Nat /\ events \in Seq(Event)
    BY DEF TypeOK
  <1>3. /\ Len(events') = Len(events) - 1
        /\ \A i \in 1 .. Len(events') : i + 1 \in 1 .. Len(events) /\ events'[i] = events[i + 1]
    BY <1>1, Rest
  <1>4. ~MainOn({"close", "closeUnedited", "closeReindex"}, v)'
    BY <1>1 DEF MainOn
  <1> SUFFICES ASSUME Settled(v)'
               PROVE  /\ ~Present(documents[v]) /\ ~Touched(v)' => wsDocs[v].text = disk[v]
                      /\ Touched(v)' => IF v \in main'.removals THEN disk[v] = NoText
                                        ELSE main'.updates[v] = disk[v]
    BY <1>1, <1>4 DEF DiskPart, MainOn, SameStore, Present
  <1>5. \A j \in 1 .. Len(events) : j > 1 => events[j].uri # v
    <2> SUFFICES ASSUME NEW j \in 1 .. Len(events), j > 1 PROVE events[j].uri # v
      OBVIOUS
    <2>1. j - 1 \in 1 .. Len(events') /\ (j - 1) + 1 = j
      BY <1>2, <1>3
    <2>2. events'[j - 1] = events[j]
      BY <1>3, <2>1
    <2> QED
      BY <2>1, <2>2 DEF Settled
  <1>6. 1 \in 1 .. Len(events) /\ events[1] \in Event
    BY <1>1, <1>2
  <1>7. /\ v \in Delivered(n, "deleted") <=> ~Present(documents[v]) /\ events[1] = [uri |-> v, kind |-> "deleted"]
        /\ v \in Delivered(n, "changed") <=> ~Present(documents[v]) /\ events[1] = [uri |-> v, kind |-> "changed"]
    BY <1>1 DEF Delivered
  <1>8. CASE events[1].uri # v
    <2>0. \A j \in 1 .. Len(events) : events[j].uri # v
      <3> SUFFICES ASSUME NEW j \in 1 .. Len(events) PROVE events[j].uri # v
        OBVIOUS
      <3>1. j = 1 \/ j > 1
        BY <1>2
      <3> QED
        BY <1>5, <1>8, <3>1
    <2>1. Settled(v)
      BY <2>0 DEF Settled
    <2>2. ~Touched(v) /\ ~Touched(v)'
      <3>1. v \notin Delivered(n, "deleted") /\ v \notin Delivered(n, "changed")
        BY <1>7, <1>8
      <3>2. ~Touched(v)'
        BY <1>1, <3>1
      <3>3. ~Touched(v)
        BY <1>1 DEF Touched
      <3> QED
        BY <3>2, <3>3
    <2> QED
      BY <2>1, <2>2 DEF DiskPart
  <1>9. CASE events[1].uri = v
    <2>1. events[1].kind = "deleted" <=> disk[v] = NoText
      BY <1>5, <1>6, <1>9 DEF EventInv
    <2>2. events[1] = [uri |-> v, kind |-> "deleted"] \/ events[1] = [uri |-> v, kind |-> "changed"]
      <3>1. PICK u \in Uris, k \in {"changed", "deleted"} : events[1] = [uri |-> u, kind |-> k]
        BY <1>6 DEF Event
      <3>2. u = v
        BY <1>9, <3>1
      <3> QED
        BY <3>1, <3>2
    <2>3. v \in Delivered(n, "deleted") => disk[v] = NoText
      BY <1>7, <2>1
    <2>4. ~Present(documents[v]) => Touched(v)'
      BY <1>1, <1>7, <2>1, <2>2
    <2> QED
      BY <1>1, <2>3, <2>4
  <1> QED
    BY <1>8, <1>9

LEMMA DiskStep ==
  ASSUME Exact, MaxBatch = 1, TypeOK, Reserved, ExactInv, StoreInv, EventInv, DiskInv, [Next]_vars
  PROVE  DiskInv'
  <1> SUFFICES ASSUME NEW v \in Uris \ Loose PROVE DiskPart(v)'
    BY DEF DiskInv, DiskPart
  <1>0. DiskPart(v)
    BY DEF DiskInv, DiskPart
  <1>1. ASSUME events' = events
        PROVE  Settled(v)' <=> Settled(v)
    BY <1>1 DEF Settled
  <1>2. ASSUME NEW u \in Uris, NEW t \in Texts, DidOpen(u, t) \/ DidChange(u, t)
        PROVE  DiskPart(v)'
    <2>1. /\ main.op = "ready" /\ main'.op \in {"ready", "reuse", "publish", "enqueue"}
          /\ SameStore /\ disk' = disk /\ events' = events
      BY <1>2, OpenMoves, ChangeMoves
    <2> QED
      BY <1>0, <1>1, <2>1 DEF DiskPart, MainOn, Touched, SameStore, Present
  <1>3. ASSUME NEW u \in Uris, DidClose(u)
        PROVE  DiskPart(v)'
    <2>1. /\ main.op = "ready" /\ main'.op \in {"close", "dropLoose"} /\ main'.uri = u
          /\ main'.op = "close" => main'.text = documents[u].text
          /\ SameStore /\ disk' = disk /\ events' = events
      BY <1>3, CloseMoves
    <2> QED
      BY <1>0, <1>1, <2>1 DEF DiskPart, MainOn, Touched, SameStore, Present
  <1>4. CASE ReuseDocument
    <2>1. /\ main.op = "reuse" /\ main.uri \in Uris /\ main'.op = "ready"
          /\ documents' = [documents EXCEPT ![main.uri] = main.doc]
          /\ wsDocs' = wsDocs /\ disk' = disk /\ events' = events
      BY <1>4, ReuseMoves
    <2>2. main.doc.text # NoText
      BY <2>1 DEF ExactInv, MainExact, MainOn
    <2> QED
      BY <1>0, <1>1, <2>1, <2>2, StoreTypes DEF DiskPart, MainOn, Touched, Present
  <1>5. CASE PublishDocument \/ EnqueueEdit \/ WriterPublish
    <2>1. /\ disk' = disk /\ events' = events
          /\ main' = main \/ (main.op \in {"publish", "enqueue"} /\ main'.op = "ready")
      BY <1>5, PublishMoves
    <2>2. CASE SameStore
      BY <1>0, <1>1, <2>1, <2>2 DEF DiskPart, MainOn, Touched, SameStore, Present
    <2>3. ASSUME NEW u \in Uris, NEW d \in Doc, Present(d), client[u] # NoText, Publishes(u, d)
          PROVE  DiskPart(v)'
      <3>1. documents' = [documents EXCEPT ![u] = d] /\ wsDocs' = wsDocs
        BY <2>3 DEF Publishes
      <3>2. CASE v # u
        <4>1. documents'[v] = documents[v]
          BY <3>1, <3>2, StoreTypes
        <4> QED
          BY <1>0, <1>1, <2>1, <3>1, <4>1 DEF DiskPart, MainOn, Touched, Present
      <3>3. CASE v = u
        <4>1. ~MainOn({"close"}, v)
          BY <2>3, <3>3 DEF ExactInv, MainExact, MainOn, Closing
        <4>2. ~MainOn({"close"}, v)'
          BY <2>1, <4>1 DEF MainOn
        <4>3. documents'[v].text # NoText
          BY <2>3, <3>1, <3>3, StoreTypes DEF Present
        <4> QED
          BY <1>0, <1>1, <2>1, <4>2, <4>3 DEF DiskPart, MainOn, Touched, Present
      <3> QED
        BY <3>2, <3>3
    <2> QED
      BY <1>5, <2>2, <2>3, PublishMoves
  <1>6. CASE DropLoose
    <2>1. /\ main.op = "dropLoose" /\ main.uri \in Uris /\ main'.op = "ready"
          /\ documents' = [documents EXCEPT ![main.uri] = Absent]
          /\ wsDocs' = wsDocs /\ disk' = disk /\ events' = events
      BY <1>6, DropMoves
    <2>2. v # main.uri
      BY <2>1 DEF StoreInv, LooseInv, MainOn
    <2>3. documents'[v] = documents[v]
      BY <2>1, <2>2, StoreTypes
    <2> QED
      BY <1>0, <1>1, <2>1, <2>3 DEF DiskPart, MainOn, Touched, Present
  <1>7. CASE CloseRead
    <2>1. /\ main.op = "close" /\ main.uri \in Uris /\ main'.uri = main.uri
          /\ disk' = disk /\ events' = events /\ SameStore
          /\ \/ /\ main'.op = "closeUnedited" /\ main'.doc = documents[main.uri]
                /\ main.text = disk[main.uri]
             \/ main'.op = "closeReindex" /\ main'.text = disk[main.uri]
      BY <1>7, CloseReadMoves
    <2> QED
      BY <1>0, <1>1, <2>1 DEF DiskPart, MainOn, Touched, SameStore, Present
  <1>8. CASE CloseUnedited
    <2>1. /\ main.op = "closeUnedited" /\ main.uri \in Uris /\ main'.op = "ready"
          /\ documents' = [documents EXCEPT ![main.uri] = Absent]
          /\ wsDocs' = IF main.stale THEN [wsDocs EXCEPT ![main.uri] = main.doc] ELSE wsDocs
          /\ disk' = disk /\ events' = events
      BY <1>8, UneditedMoves
    <2>2. CASE v # main.uri
      <3>1. wsDocs'[v] = wsDocs[v] /\ documents'[v] = documents[v]
        BY <2>1, <2>2, StoreTypes
      <3> QED
        BY <1>0, <1>1, <2>1, <3>1 DEF DiskPart, MainOn, Touched, Present
    <2>3. CASE v = main.uri
      <3>1. main.doc = documents[v] /\ (main.stale <=> wsDocs[v].text # documents[v].text)
        BY <2>1, <2>3 DEF StoreInv, IndexInv, MainOn
      <3>2. wsDocs'[v].text = main.doc.text
        BY <2>1, <2>3, <3>1, StoreTypes
      <3>3. Settled(v) => main.doc.text = disk[v]
        BY <1>0, <2>1, <2>3 DEF DiskPart, MainOn
      <3> QED
        BY <1>1, <2>1, <3>2, <3>3 DEF DiskPart, MainOn, Touched
    <2> QED
      BY <2>2, <2>3
  <1>9. CASE CloseReindex
    <2>1. /\ main.op = "closeReindex" /\ main.uri \in Uris /\ main'.op = "ready"
          /\ documents' = [documents EXCEPT ![main.uri] = Absent]
          /\ wsDocs'[v].text = IF v = main.uri THEN main.text ELSE wsDocs[v].text
          /\ disk' = disk /\ events' = events
      BY <1>9, ReindexMoves
    <2>2. v # main.uri => documents'[v] = documents[v]
      BY <2>1, StoreTypes
    <2> QED
      BY <1>0, <1>1, <2>1, <2>2 DEF DiskPart, MainOn, Touched, Present
  <1>10. CASE PublishWatched
    <2>1. /\ main.op = "watched" /\ main'.op = "ready" /\ documents' = documents
          /\ Touched(v) => wsDocs'[v].text = IF v \in main.removals THEN NoText ELSE main.updates[v]
          /\ ~Touched(v) => wsDocs'[v] = wsDocs[v]
          /\ disk' = disk /\ events' = events
      BY <1>10, PublishWatchedMoves
    <2>2. ~Touched(v)' /\ ~MainOn({"close", "closeUnedited", "closeReindex"}, v)'
      BY <2>1 DEF Touched, MainOn
    <2>3. Settled(v) /\ ~Present(documents[v]) => wsDocs'[v].text = disk[v]
      BY <1>0, <2>1 DEF DiskPart
    <2> QED
      BY <1>1, <2>1, <2>2, <2>3 DEF DiskPart, MainOn, Present
  <1>11. CASE Aside
    <2>1. main' = main /\ disk' = disk /\ events' = events /\ SameStore
      BY <1>11, AsideMoves
    <2> QED
      BY <1>0, <1>1, <2>1 DEF DiskPart, MainOn, Touched, SameStore, Present
  <1>12. CASE World
    <2>1. main' = main /\ SameStore
      BY <1>12, WorldMoves
    <2>2. Settled(v)' => Settled(v) /\ disk'[v] = disk[v]
      <3>1. PICK u \in Uris :
              /\ \A w \in Uris : w # u => disk'[w] = disk[w]
              /\ u \in Loose => events' = events
              /\ u \notin Loose => /\ Len(events') = Len(events) + 1
                                   /\ \A i \in 1 .. Len(events) : events'[i] = events[i]
                                   /\ events'[Len(events) + 1].uri = u
        BY <1>12, NoticeMoves
      <3>2. Len(events) \in Nat
        BY DEF TypeOK
      <3>3. CASE u \in Loose
        BY <3>1, <3>3 DEF Settled
      <3>4. CASE u \notin Loose
        <4>1. Len(events) + 1 \in 1 .. Len(events') /\ 1 .. Len(events) \subseteq 1 .. Len(events')
          BY <3>1, <3>2, <3>4
        <4> QED
          BY <3>1, <3>4, <4>1 DEF Settled
      <3> QED
        BY <3>3, <3>4
    <2> QED
      BY <1>0, <2>1, <2>2 DEF DiskPart, MainOn, Touched, SameStore, Present
  <1> QED
    BY <1>0, <1>2, <1>3, <1>4, <1>5, <1>6, <1>7, <1>8, <1>9, <1>10, <1>11, <1>12, DiskWatched, AllSteps

LEMMA InitDisk == Init => EventInv /\ DiskInv
  <1> SUFFICES ASSUME Init PROVE EventInv /\ DiskInv
    OBVIOUS
  <1>1. main.op = "ready" /\ Len(events) = 0
    BY DEF Init, Ready
  <1>2. \A u \in Uris \ Loose : wsDocs[u].text = disk[u]
    BY DEF Init, Absent
  <1> QED
    BY <1>1, <1>2 DEF EventInv, DiskInv, MainOn, Touched

\* In the environment Exact describes, with file events handled one at a time, a
\* closed document is out of the overlay for good, a loose one out of the index,
\* and a project file is indexed and cached as it is on disk once its events are
\* delivered, whatever edit, save, close or external change came first
\* (did_close, reindex_closed_file, apply_watched_file_events).
THEOREM ClosedAlwaysFollowsDisk ==
  ASSUME Exact, MaxBatch = 1
  PROVE  Spec => []ClosedFollowsDisk
  <1>1. TypeOK /\ Reserved /\ ExactInv /\ StoreInv /\ EventInv /\ DiskInv /\ [Next]_vars
          => (EventInv /\ DiskInv)'
    BY EventStep, DiskStep
  <1>2. Spec => [](TypeOK /\ Reserved /\ ExactInv /\ StoreInv /\ EventInv /\ DiskInv)
    BY <1>1, InitDisk, StoreAlways, PTL DEF Spec
  <1>3. ExactInv /\ StoreInv /\ DiskInv => ClosedFollowsDisk
    <2> SUFFICES ASSUME ExactInv, StoreInv, DiskInv, main = Ready, NEW u \in Uris, client[u] = NoText
                 PROVE  /\ ~Present(documents[u])
                        /\ u \in Loose => index[u] = NoText
                        /\ u \notin Loose /\ Settled(u) => index[u] = disk[u] /\ wsDocs[u].text = disk[u]
      BY DEF ClosedFollowsDisk, Settled
    <2>1. main.op = "ready"
      BY DEF Ready
    <2>2. ~Present(documents[u])
      BY <2>1 DEF ExactInv, OverlayExact, MainOn, Closing
    <2>3. index[u] = wsDocs[u].text
      BY <2>2 DEF StoreInv, IndexInv
    <2>4. u \in Loose => wsDocs[u].text = NoText
      BY DEF StoreInv, LooseInv
    <2>5. u \notin Loose /\ Settled(u) => wsDocs[u].text = disk[u]
      BY <2>1, <2>2 DEF DiskInv, Touched
    <2> QED
      BY <2>2, <2>3, <2>4, <2>5
  <1> QED
    BY <1>2, <1>3, PTL
=============================================================================
