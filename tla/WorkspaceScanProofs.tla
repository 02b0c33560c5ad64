------------------------ MODULE WorkspaceScanProofs ------------------------
(***************************************************************************)
(* Theorems about WorkspaceScan, for every set of files, folders, texts    *)
(* and scans, and every overlap of scans, handlers, edits and changes on   *)
(* disk.                                                                   *)
(***************************************************************************)
EXTENDS WorkspaceScan, TLAPS

-----------------------------------------------------------------------------
(* The inductive invariant.                                                *)

\* Only files of workspace folders have events, and the pending event of a
\* file tells whether it is there.
EventInv ==
  \A f \in Files :
    /\ ~InProject(f) => events[f] = "none"
    /\ events[f] = "deleted" => disk[f] = NoText
    /\ events[f] = "changed" => disk[f] # NoText

\* What the main loop and the edit writer are at work on is open or closed as
\* they found it: nobody else opens or closes a document, and they are not at
\* work on the same one.
DocsInv ==
  /\ \A f \in Files :
       /\ MainOn({"reuse", "scope", "publish"}, f) => docs[f] = NoText /\ main.text # NoText
       /\ MainOn({"close", "dropLoose", "closeUnedited", "closeReindex"}, f) => docs[f] # NoText
       /\ MainOn({"close"}, f) => main.prior = docs[f]
       /\ MainOn({"closeUnedited"}, f) => main.text = docs[f]
       /\ MainOn({"upsert", "remove"}, f) => docs[f] = NoText
  /\ edit # Idle => docs[edit.file] # NoText /\ ~On(main, edit.file)

\* What a scan has read of a file that is not raced is still so.
ScanPart(f) ==
  \A k \in Tasks :
    /\ Holds(k, f) /\ task[k].pc # "route" => InProject(f)
    /\ HoldsText(k, f) =>
         /\ task[k].parsed[f] = disk[f]
         /\ task[k].pc = "publish" /\ task[k].from = "initialized" /\ docs[f] # NoText =>
              task[k].parsed[f] = docs[f]
    /\ Holds(k, f) /\ task[k].pc = "route" => task[k].scopes[f] = Scope(f)

\* So is what the main loop and the edit writer have read.
MainPart(f) ==
  /\ MainOn({"reuse"}, f) => main.text = cached[f]
  /\ MainOn({"publish"}, f) => main.scope = Scope(f)
  /\ MainOn({"close", "closeUnedited", "closeReindex", "upsert", "remove"}, f) => InProject(f)
  /\ MainOn({"dropLoose"}, f) => ~InProject(f)
  /\ MainOn({"closeUnedited", "closeReindex", "upsert", "remove"}, f) /\ events[f] = "none" =>
       main.text = disk[f]
  /\ On(edit, f) => edit.scope = Scope(f)

\* A scan will bring in f as it is on disk.
AwaitedBy(k, f) ==
  \/ task[k].pc \in {"drop", "load"}
  \/ task[k].pc = "read" /\ Home[f] \in task[k].roots
  \/ task[k].pc \in {"filter", "publish"} /\ task[k].parsed[f] = disk[f]

Awaited(f) == \E k \in Tasks : AwaitedBy(k, f)

\* A scan is about to drop f.
DroppingBy(k, f) == task[k].pc = "drop" /\ Home[f] \in task[k].removed

Dropping(f) == \E k \in Tasks : DroppingBy(k, f)

\* A closed file is cached as it is indexed, and in a workspace folder as it is
\* on disk, unless an event or a scan will see to it.
ClosedPart(f) ==
  /\ docs[f] = NoText =>
       /\ looseIndex[f] = NoText
       /\ wsIndex[f] = cached[f] \/ (cached[f] # NoText /\ Dropping(f))
       /\ InProject(f) /\ events[f] = "none" /\ ~MainOn({"upsert", "remove"}, f) =>
            wsIndex[f] = disk[f] \/ (wsIndex[f] = NoText /\ Awaited(f)) \/ Dropping(f)
  /\ ~InProject(f) => cached[f] = NoText \/ Dropping(f)

\* An open document is indexed as it is, in its scope, unless a scan will see to
\* it.
OpenPart(f) == docs[f] # NoText => Routed(f) \/ Routing(f)

FilePart(f) == ScanPart(f) /\ MainPart(f) /\ ClosedPart(f) /\ OpenPart(f)

FilesInv == EventInv /\ DocsInv /\ \A f \in Files \ raced : FilePart(f)

-----------------------------------------------------------------------------
(* Types.                                                                  *)

\* The fields a scan has, by stage.
LEMMA TaskShape ==
  ASSUME TypeOK, NEW k \in Tasks
  PROVE  /\ task[k] = Idle <=> task[k].pc = "idle"
         /\ task[k] # Idle => task[k].from \in Origins
         /\ task[k].pc = "drop" => task[k].removed \subseteq Folders /\ task[k].from = "folders"
         /\ task[k].pc \in {"filter", "publish"} => task[k].parsed \in TextOf
         /\ task[k].pc \in {"scopes", "route"} => task[k].from # "initialized"
         /\ task[k].pc \in {"idle", "drop", "load", "read", "filter", "publish", "scopes", "route"}
  <1>1. task[k] \in TaskState
    BY DEF TypeOK
  <1> QED
    BY <1>1 DEF TaskState, Idle, Origins

\* The stages a scan goes through.
LEMMA TaskMake ==
  /\ Idle \in TaskState
  /\ \A r \in SUBSET Folders : [pc |-> "drop", removed |-> r, from |-> "folders"] \in TaskState
  /\ \A h \in Origins : [pc |-> "load", from |-> h] \in TaskState
  /\ \A h \in Origins, r \in (SUBSET Folders) \ {{}} :
       [pc |-> "read", roots |-> r, from |-> h] \in TaskState
  /\ \A h \in Origins, m \in TextOf :
       /\ [pc |-> "filter", from |-> h, parsed |-> m] \in TaskState
       /\ [pc |-> "publish", from |-> h, parsed |-> m] \in TaskState
  /\ \A h \in Origins \ {"initialized"} : [pc |-> "scopes", from |-> h] \in TaskState
  /\ \A h \in Origins \ {"initialized"}, m \in [Files -> {"project", "loose", "closed"}] :
       [pc |-> "route", from |-> h, scopes |-> m] \in TaskState
  BY DEF TaskState

\* The fields the main loop and the edit writer have.
LEMMA MainShape ==
  ASSUME TypeOK
  PROVE  /\ main = Idle <=> main.pc = "idle"
         /\ main # Idle => main.file \in Files
         /\ main.pc \in {"scope", "reuse", "closeUnedited", "closeReindex", "upsert", "remove",
                         "publish"} => main.text \in MaybeText
         /\ edit = Idle <=> edit.pc = "idle"
         /\ edit # Idle => edit.file \in Files /\ edit.text \in Texts
         /\ main.pc \in {"idle", "scope", "reuse", "publish", "close", "dropLoose",
                         "closeUnedited", "closeReindex", "upsert", "remove"}
         /\ edit.pc \in {"idle", "publish"}
  <1>1. main \in MainState /\ edit \in EditState
    BY DEF TypeOK
  <1>2. main \in MainState => (main = Idle <=> main.pc = "idle")
    BY DEF MainState, Idle
  <1>4. main \in MainState /\ main # Idle => main.file \in Files
    BY DEF MainState, Idle
  <1>5. main \in MainState =>
          /\ main.pc \in {"scope", "reuse", "closeUnedited", "closeReindex", "upsert", "remove",
                          "publish"} => main.text \in MaybeText
          /\ main.pc \in {"idle", "scope", "reuse", "publish", "close", "dropLoose",
                          "closeUnedited", "closeReindex", "upsert", "remove"}
    BY DEF MainState, Idle
  <1>3. edit \in EditState =>
          /\ edit = Idle <=> edit.pc = "idle"
          /\ edit # Idle => edit.file \in Files /\ edit.text \in Texts
          /\ edit.pc \in {"idle", "publish"}
    BY DEF EditState, Idle
  <1> QED
    BY <1>1, <1>2, <1>3, <1>4, <1>5

LEMMA MainMake ==
  /\ Idle \in MainState
  /\ \A f \in Files, t \in MaybeText :
       /\ [pc |-> "scope", file |-> f, text |-> t] \in MainState
       /\ [pc |-> "reuse", file |-> f, text |-> t] \in MainState
       /\ [pc |-> "closeUnedited", file |-> f, text |-> t] \in MainState
       /\ [pc |-> "closeReindex", file |-> f, text |-> t] \in MainState
       /\ [pc |-> "upsert", file |-> f, text |-> t] \in MainState
       /\ [pc |-> "remove", file |-> f, text |-> t] \in MainState
       /\ [pc |-> "close", file |-> f, prior |-> t] \in MainState
  /\ \A f \in Files, t \in MaybeText, s \in {"project", "loose"} :
       [pc |-> "publish", file |-> f, text |-> t, scope |-> s] \in MainState
  /\ \A f \in Files : [pc |-> "dropLoose", file |-> f] \in MainState
  BY DEF MainState

LEMMA InitTypes == Init => TypeOK
  <1> SUFFICES ASSUME Init PROVE TypeOK
    OBVIOUS
  <1>1. Nothing \in TextOf
    BY DEF Nothing, TextOf, MaybeText
  <1>2. task \in [Tasks -> TaskState]
    <2>1. [pc |-> "load", from |-> "initialized"] \in TaskState /\ Idle \in TaskState
      BY TaskMake DEF Origins
    <2> QED
      BY <2>1 DEF Init
  <1>3. main \in MainState /\ edit \in EditState
    BY DEF Init, MainState, EditState
  <1>4. scans \in 0 .. MaxScans
    BY TasksAssumption DEF Init
  <1> QED
    BY <1>1, <1>2, <1>3, <1>4 DEF Init, TypeOK

\* What a file is looked up as, and how one entry or all of them are replaced.
LEMMA Lookups ==
  /\ NoText \in MaybeText
  /\ \A t \in Texts : t \in MaybeText /\ t # NoText
  /\ \A m \in TextOf, f \in Files : m[f] \in MaybeText
  /\ \A m \in TextOf, f \in Files, t \in MaybeText : [m EXCEPT ![f] = t] \in TextOf
  /\ Nothing \in TextOf
  BY FilesAssumption DEF TextOf, MaybeText, Nothing

LEMMA ScopeType == \A f \in Files : Scope(f) \in {"project", "loose"}
  BY DEF Scope

\* Files are only added to the raced ones.
LEMMA RacedGrows ==
  ASSUME TypeOK, [Next]_vars
  PROVE  raced \subseteq raced' /\ raced' \subseteq Files
  <1>1. main.pc # "idle" => main.file \in Files
    BY MainShape
  <1>2. edit.pc # "idle" => edit.file \in Files
    BY MainShape
  <1>3. raced \subseteq Files
    BY DEF TypeOK
  <1>4. ASSUME NEW k \in Tasks, Scan(k) PROVE raced \subseteq raced' /\ raced' \subseteq Files
    BY <1>3, <1>4 DEF Scan, Reindex, ChangeFolders, TaskDrop, TaskLoad, TaskRead, TaskFilter,
       TaskPublish, TaskScopes, TaskRoute, Race
  <1>5. CASE MainLoop
    BY <1>1, <1>3, <1>5 DEF MainLoop, OpenReuse, OpenScope, OpenPublish, CloseLoose, CloseRead,
       CloseUnedited, CloseReindex, PublishWatched, DidClose, Watched, DidOpen, Race
  <1>6. CASE EditPublish
    BY <1>2, <1>3, <1>6 DEF EditPublish, Race
  <1>7. CASE \E f \in Files, t \in Texts : EditScope(f, t)
    BY <1>3, <1>7 DEF EditScope
  <1>8. CASE \E f \in Files, t \in MaybeText : FileChange(f, t)
    BY <1>3, <1>8 DEF FileChange, Race
  <1>9. CASE UNCHANGED vars
    BY <1>3, <1>9 DEF vars
  <1> QED
    BY <1>4, <1>5, <1>6, <1>7, <1>8, <1>9 DEF Next

\* Every action of a scan keeps the types.
LEMMA ScanTypes ==
  ASSUME TypeOK, NEW k \in Tasks, Scan(k)
  PROVE  TypeOK'
  <1>1. /\ roots \subseteq Folders
        /\ disk \in TextOf /\ docs \in TextOf /\ cached \in TextOf
        /\ wsIndex \in TextOf /\ looseIndex \in TextOf
        /\ events \in [Files -> {"none", "changed", "deleted"}]
        /\ task \in [Tasks -> TaskState]
        /\ main \in MainState /\ edit \in EditState
        /\ scans \in 0 .. MaxScans /\ raced' \subseteq Files
    BY RacedGrows DEF TypeOK, Next
  <1>2. \A x \in TaskState : [task EXCEPT ![k] = x] \in [Tasks -> TaskState]
    BY <1>1
  <1>3. task[k] # Idle => AfterIndex(k) \in TaskState
    BY TaskShape, TaskMake DEF AfterIndex, Origins
  <1>4. scans < MaxScans => scans + 1 \in 0 .. MaxScans
    BY <1>1, TasksAssumption
  <1>5. CASE Reindex(k)
    <2>1. [pc |-> "load", from |-> "settings"] \in TaskState
      BY TaskMake DEF Origins
    <2>2. task' \in [Tasks -> TaskState]
      BY <2>1, <1>2, <1>5 DEF Reindex
    <2> QED
      BY <1>1, <1>4, <1>5, <2>2 DEF Reindex, TypeOK, world, indexes
  <1>6. CASE \E added, removed \in SUBSET Folders :
               added \cap removed = {} /\ added \cup removed # {} /\ ChangeFolders(k, added, removed)
    <2>1. PICK added \in SUBSET Folders, removed \in SUBSET Folders : ChangeFolders(k, added, removed)
      BY <1>6
    <2>2. /\ [pc |-> "load", from |-> "folders"] \in TaskState
          /\ [pc |-> "drop", removed |-> removed, from |-> "folders"] \in TaskState
      BY TaskMake DEF Origins
    <2>3. task' \in [Tasks -> TaskState]
      BY <2>1, <2>2, <1>2 DEF ChangeFolders
    <2>4. events' \in [Files -> {"none", "changed", "deleted"}]
      BY <2>1, <1>1 DEF ChangeFolders
    <2> QED
      BY <1>1, <1>4, <2>1, <2>3, <2>4 DEF ChangeFolders, TypeOK, indexes
  <1>7. CASE TaskDrop(k)
    <2>1. [pc |-> "load", from |-> "folders"] \in TaskState
      BY TaskMake DEF Origins
    <2>2. task' \in [Tasks -> TaskState]
      BY <2>1, <1>2, <1>7 DEF TaskDrop
    <2>3. cached' \in TextOf /\ wsIndex' \in TextOf
      BY <1>1, <1>7 DEF TaskDrop, TextOf, MaybeText
    <2> QED
      BY <1>1, <1>7, <2>2, <2>3 DEF TaskDrop, TypeOK, world
  <1>8. CASE TaskLoad(k)
    <2>1. task[k] # Idle /\ task[k].from \in Origins
      BY <1>8, TaskShape DEF TaskLoad
    <2>2. roots # {} => [pc |-> "read", roots |-> roots, from |-> task[k].from] \in TaskState
      <3>1. roots # {} => roots \in (SUBSET Folders) \ {{}}
        BY <1>1
      <3> QED
        BY <3>1, <2>1, TaskMake
    <2>3. task' \in [Tasks -> TaskState]
      BY <2>1, <2>2, <1>2, <1>3, <1>8 DEF TaskLoad
    <2> QED
      BY <1>1, <1>8, <2>3 DEF TaskLoad, TypeOK, world, indexes
  <1>9. CASE TaskRead(k)
    <2>1. task[k] # Idle /\ task[k].from \in Origins
      BY <1>9, TaskShape DEF TaskRead
    <2> DEFINE m == [f \in Files |-> IF Home[f] \in task[k].roots THEN disk[f] ELSE NoText]
    <2>2. m \in TextOf
      BY <1>1 DEF TextOf, MaybeText
    <2>3. [pc |-> "filter", from |-> task[k].from, parsed |-> m] \in TaskState
      BY <2>1, <2>2, TaskMake
    <2>4. task' \in [Tasks -> TaskState]
      BY <2>3, <1>2, <1>9 DEF TaskRead
    <2> QED
      BY <1>1, <1>9, <2>4 DEF TaskRead, TypeOK, world, indexes
  <1>10. CASE TaskFilter(k)
    <2> DEFINE m == [f \in Files |-> IF docs[f] # NoText THEN NoText ELSE task[k].parsed[f]]
               x == [task[k] EXCEPT !.pc = "publish", !.parsed = m]
    <2>1. task[k].parsed \in TextOf /\ task[k].pc = "filter"
      BY <1>10, TaskShape DEF TaskFilter
    <2>2. m \in TextOf
      BY <1>1, <2>1 DEF TextOf, MaybeText
    <2>3. task[k] \in [pc : {"filter", "publish"}, parsed : TextOf, from : Origins]
      BY <1>1, <2>1 DEF TaskState, Idle
    <2>4. task' = [task EXCEPT ![k] = x]
      BY <1>1, <1>10 DEF TaskFilter
    <2>5. x \in [pc : {"filter", "publish"}, parsed : TextOf, from : Origins]
      <3> HIDE DEF m
      <3> QED
        BY <2>2, <2>3
    <2>6. x \in TaskState
      BY <2>5 DEF TaskState
    <2>7. task' \in [Tasks -> TaskState]
      BY <2>4, <2>6, <1>2
    <2> QED
      BY <1>1, <1>10, <2>7 DEF TaskFilter, TypeOK, world, indexes
  <1>11. CASE TaskPublish(k)
    <2>1. task[k] # Idle /\ task[k].parsed \in TextOf
      BY <1>11, TaskShape DEF TaskPublish
    <2>2. cached' \in TextOf /\ wsIndex' \in TextOf
      BY <1>1, <2>1, <1>11 DEF TaskPublish, TextOf, MaybeText
    <2>3. task' \in [Tasks -> TaskState]
      BY <2>1, <1>2, <1>3, <1>11 DEF TaskPublish
    <2> QED
      BY <1>1, <1>11, <2>2, <2>3 DEF TaskPublish, TypeOK, world
  <1>12. CASE TaskScopes(k)
    <2> DEFINE m == [f \in Files |-> IF docs[f] = NoText THEN "closed" ELSE Scope(f)]
    <2>1. task[k].from \in Origins \ {"initialized"}
      BY <1>12, TaskShape DEF TaskScopes
    <2>2. m \in [Files -> {"project", "loose", "closed"}]
      BY ScopeType
    <2>3. [pc |-> "route", from |-> task[k].from, scopes |-> m] \in TaskState
      BY <2>1, <2>2, TaskMake
    <2>4. task' \in [Tasks -> TaskState]
      BY <2>3, <1>2, <1>12, TaskMake DEF TaskScopes
    <2> QED
      BY <1>1, <1>12, <2>4 DEF TaskScopes, TypeOK, world, indexes
  <1>13. CASE TaskRoute(k)
    <2>1. wsIndex' \in TextOf /\ looseIndex' \in TextOf
      BY <1>1, <1>13 DEF TaskRoute, TextOf, MaybeText
    <2>2. task' \in [Tasks -> TaskState]
      BY <1>2, <1>13, TaskMake DEF TaskRoute
    <2> QED
      BY <1>1, <1>13, <2>1, <2>2 DEF TaskRoute, TypeOK, world
  <1> QED
    BY <1>5, <1>6, <1>7, <1>8, <1>9, <1>10, <1>11, <1>12, <1>13 DEF Scan

\* So do those of the main loop,
LEMMA MainTypes ==
  ASSUME TypeOK, MainLoop
  PROVE  TypeOK'
  <1>1. /\ roots \subseteq Folders
        /\ disk \in TextOf /\ docs \in TextOf /\ cached \in TextOf
        /\ wsIndex \in TextOf /\ looseIndex \in TextOf
        /\ events \in [Files -> {"none", "changed", "deleted"}]
        /\ task \in [Tasks -> TaskState]
        /\ main \in MainState /\ edit \in EditState
        /\ scans \in 0 .. MaxScans /\ raced' \subseteq Files
    BY RacedGrows DEF TypeOK, Next
  <1>2. main.pc # "idle" => main # Idle /\ main.file \in Files
    BY MainShape
  <1>3. main.pc \in {"scope", "reuse", "closeUnedited", "closeReindex", "upsert", "remove",
                     "publish"} => main.text \in MaybeText
    BY MainShape
  <1>4. CASE OpenReuse
    <2>1. docs' \in TextOf
      BY <1>1, <1>2, <1>3, <1>4, Lookups DEF OpenReuse
    <2> QED
      BY <1>1, <1>4, <2>1, MainMake DEF OpenReuse, TypeOK, world
  <1>5. CASE OpenScope
    <2>1. main' \in MainState
      BY <1>2, <1>3, <1>5, MainMake, ScopeType DEF OpenScope
    <2> QED
      BY <1>1, <1>5, <2>1 DEF OpenScope, TypeOK, world, indexes
  <1>6. CASE OpenPublish
    <2>1. docs' \in TextOf /\ wsIndex' \in TextOf /\ looseIndex' \in TextOf
      BY <1>1, <1>2, <1>3, <1>6, Lookups DEF OpenPublish, Route
    <2> QED
      BY <1>1, <1>6, <2>1, MainMake DEF OpenPublish, TypeOK, world
  <1>7. CASE CloseLoose
    <2>1. docs' \in TextOf /\ looseIndex' \in TextOf
      BY <1>1, <1>2, <1>7, Lookups DEF CloseLoose
    <2> QED
      BY <1>1, <1>7, <2>1, MainMake DEF CloseLoose, TypeOK, world
  <1>8. CASE CloseRead
    <2>1. main.file \in Files
      BY <1>2, <1>8 DEF CloseRead
    <2>2. /\ disk[main.file] \in MaybeText /\ docs[main.file] \in MaybeText
          /\ cached[main.file] \in MaybeText
      BY <1>1, <2>1, Lookups
    <2>3. main' \in MainState
      BY <1>8, <2>1, <2>2, MainMake DEF CloseRead
    <2> QED
      BY <1>1, <1>8, <2>3 DEF CloseRead, TypeOK, world, indexes
  <1>9. CASE CloseUnedited
    <2>1. docs' \in TextOf /\ cached' \in TextOf
      BY <1>1, <1>2, <1>3, <1>9, Lookups DEF CloseUnedited
    <2> QED
      BY <1>1, <1>9, <2>1, MainMake DEF CloseUnedited, TypeOK, world
  <1>10. CASE CloseReindex
    <2>1. docs' \in TextOf /\ cached' \in TextOf /\ wsIndex' \in TextOf
      BY <1>1, <1>2, <1>3, <1>10, Lookups DEF CloseReindex
    <2> QED
      BY <1>1, <1>10, <2>1, MainMake DEF CloseReindex, TypeOK, world
  <1>11. CASE PublishWatched
    <2>1. cached' \in TextOf /\ wsIndex' \in TextOf
      BY <1>1, <1>2, <1>3, <1>11, Lookups DEF PublishWatched
    <2> QED
      BY <1>1, <1>11, <2>1, MainMake DEF PublishWatched, TypeOK, world
  <1>12. ASSUME NEW f \in Files, DidClose(f)
         PROVE  TypeOK'
    <2>1. main' \in MainState
      BY <1>1, <1>12, Lookups, MainMake DEF DidClose
    <2> QED
      BY <1>1, <1>12, <2>1 DEF DidClose, TypeOK, world, indexes
  <1>13. ASSUME NEW f \in Files, Watched(f)
         PROVE  TypeOK'
    <2>1. main' \in MainState
      BY <1>1, <1>13, Lookups, MainMake DEF Watched
    <2>2. events' \in [Files -> {"none", "changed", "deleted"}]
      BY <1>1, <1>13 DEF Watched
    <2> QED
      BY <1>1, <1>13, <2>1, <2>2 DEF Watched, TypeOK, indexes
  <1>14. ASSUME NEW f \in Files, NEW t \in Texts, DidOpen(f, t)
         PROVE  TypeOK'
    <2>1. main' \in MainState
      BY <1>1, <1>14, Lookups, MainMake DEF DidOpen
    <2> QED
      BY <1>1, <1>14, <2>1 DEF DidOpen, TypeOK, world, indexes
  <1> QED
    BY <1>4, <1>5, <1>6, <1>7, <1>8, <1>9, <1>10, <1>11, <1>12, <1>13, <1>14 DEF MainLoop

\* and every other step.
LEMMA NextTypes == TypeOK /\ [Next]_vars => TypeOK'
  <1> SUFFICES ASSUME TypeOK, [Next]_vars PROVE TypeOK'
    OBVIOUS
  <1>1. /\ roots \subseteq Folders
        /\ disk \in TextOf /\ docs \in TextOf /\ cached \in TextOf
        /\ wsIndex \in TextOf /\ looseIndex \in TextOf
        /\ events \in [Files -> {"none", "changed", "deleted"}]
        /\ task \in [Tasks -> TaskState]
        /\ main \in MainState /\ edit \in EditState
        /\ scans \in 0 .. MaxScans /\ raced' \subseteq Files
    BY RacedGrows DEF TypeOK, Next
  <1>2. CASE EditPublish
    <2>1. edit.file \in Files /\ edit.text \in MaybeText
      BY <1>2, MainShape, Lookups DEF EditPublish
    <2>2. docs' \in TextOf /\ wsIndex' \in TextOf /\ looseIndex' \in TextOf
      BY <1>1, <1>2, <2>1, Lookups DEF EditPublish, Route
    <2> QED
      BY <1>1, <1>2, <2>2 DEF EditPublish, TypeOK, EditState, world
  <1>3. ASSUME NEW f \in Files, NEW t \in Texts, EditScope(f, t)
        PROVE  TypeOK'
    <2>1. edit' \in EditState
      BY <1>3, ScopeType DEF EditScope, EditState
    <2> QED
      BY <1>1, <1>3, <2>1 DEF EditScope, TypeOK, world, indexes
  <1>4. ASSUME NEW f \in Files, NEW t \in MaybeText, FileChange(f, t)
        PROVE  TypeOK'
    <2>1. disk' \in TextOf
      BY <1>1, <1>4, Lookups DEF FileChange
    <2>2. events' \in [Files -> {"none", "changed", "deleted"}]
      BY <1>1, <1>4 DEF FileChange
    <2> QED
      BY <1>1, <1>4, <2>1, <2>2 DEF FileChange, TypeOK, indexes
  <1>5. CASE UNCHANGED vars
    BY <1>5 DEF vars, TypeOK
  <1> QED
    BY <1>2, <1>3, <1>4, <1>5, ScanTypes, MainTypes DEF Next

\* The types hold in every state: each step of a scan or of a handler has the
\* data its stage needs.
THEOREM TypeCorrect == Spec => []TypeOK
  BY InitTypes, NextTypes, PTL DEF Spec

-----------------------------------------------------------------------------
(* What the actions leave alone.                                           *)

TaskStep(k) == \/ TaskDrop(k) \/ TaskLoad(k) \/ TaskRead(k) \/ TaskFilter(k)
               \/ TaskPublish(k) \/ TaskScopes(k) \/ TaskRoute(k)

Starting(k) == \/ Reindex(k)
               \/ \E added, removed \in SUBSET Folders :
                    added \cap removed = {} /\ ChangeFolders(k, added, removed)

EditStep == EditPublish \/ \E f \in Files, t \in Texts : EditScope(f, t)

DiskStep == \E f \in Files, t \in MaybeText : FileChange(f, t)

\* Every step starts a scan, moves one, or is the main loop's, the edit
\* writer's or the disk's.
LEMMA NextSteps ==
  ASSUME [Next]_vars
  PROVE  \/ \E k \in Tasks : Starting(k) \/ TaskStep(k)
         \/ MainLoop \/ EditStep \/ DiskStep
         \/ UNCHANGED vars
  BY DEF Next, Scan, Starting, TaskStep, EditStep, DiskStep

\* A scan's step moves that scan on or ends it, and touches nothing but the
\* indexes and the parse cache.
LEMMA TaskFrame ==
  ASSUME TypeOK, NEW k \in Tasks, TaskStep(k)
  PROVE  /\ roots' = roots /\ disk' = disk /\ events' = events /\ docs' = docs
         /\ main' = main /\ edit' = edit
         /\ \A j \in Tasks : j # k => task'[j] = task[j]
         /\ task[k] # Idle
         /\ task'[k] = Idle \/ task'[k].from = task[k].from
  <1>1. task \in [Tasks -> TaskState]
    BY DEF TypeOK
  <1>2. task[k].pc # "idle"
    BY DEF TaskStep, TaskDrop, TaskLoad, TaskRead, TaskFilter, TaskPublish, TaskScopes, TaskRoute
  <1>3. /\ roots' = roots /\ disk' = disk /\ events' = events /\ docs' = docs
        /\ main' = main /\ edit' = edit
    BY DEF TaskStep, TaskDrop, TaskLoad, TaskRead, TaskFilter, TaskPublish, TaskScopes, TaskRoute,
           world, indexes
  <1>4. ASSUME NEW x, task' = [task EXCEPT ![k] = x], x = Idle \/ x.from = task[k].from
        PROVE  /\ \A j \in Tasks : j # k => task'[j] = task[j]
               /\ task'[k] = Idle \/ task'[k].from = task[k].from
    BY <1>1, <1>4
  <1>5. AfterIndex(k) = Idle \/ AfterIndex(k).from = task[k].from
    BY DEF AfterIndex
  <1>6. /\ \A j \in Tasks : j # k => task'[j] = task[j]
        /\ task'[k] = Idle \/ task'[k].from = task[k].from
    <2>1. CASE TaskDrop(k)
      <3>1. task[k].from = "folders"
        BY <2>1, TaskShape DEF TaskDrop
      <3> QED
        BY <2>1, <3>1, <1>4 DEF TaskDrop
    <2>2. CASE TaskLoad(k)
      BY <2>2, <1>1, <1>5 DEF TaskLoad
    <2>3. CASE TaskRead(k)
      BY <2>3, <1>4 DEF TaskRead
    <2>4. CASE TaskFilter(k)
      <3> DEFINE m == [f \in Files |-> IF docs[f] # NoText THEN NoText ELSE task[k].parsed[f]]
                 x == [task[k] EXCEPT !.pc = "publish", !.parsed = m]
      <3>1. task' = [task EXCEPT ![k] = x]
        BY <1>1, <2>4 DEF TaskFilter
      <3>2. task[k] \in [pc : {"filter", "publish"}, parsed : TextOf, from : Origins]
        BY <1>1, <2>4 DEF TaskFilter, TaskState, Idle
      <3>3. x.from = task[k].from
        <4> HIDE DEF m
        <4> QED
          BY <3>2
      <3> QED
        BY <3>1, <3>3, <1>4
    <2>5. CASE TaskPublish(k)
      BY <2>5, <1>4, <1>5 DEF TaskPublish
    <2>6. CASE TaskScopes(k)
      BY <2>6, <1>1 DEF TaskScopes
    <2>7. CASE TaskRoute(k)
      BY <2>7, <1>4 DEF TaskRoute
    <2> QED
      BY <2>1, <2>2, <2>3, <2>4, <2>5, <2>6, <2>7 DEF TaskStep
  <1> QED
    BY <1>2, <1>3, <1>6, TaskShape

\* The others leave the scans and the folders alone, and only the disk's
\* changes a file.
LEMMA MainFrame ==
  ASSUME MainLoop
  PROVE  task' = task /\ roots' = roots /\ disk' = disk /\ edit' = edit
  BY DEF MainLoop, OpenReuse, OpenScope, OpenPublish, CloseLoose, CloseRead, CloseUnedited,
         CloseReindex, PublishWatched, DidClose, Watched, DidOpen, world

LEMMA EditFrame ==
  ASSUME EditStep
  PROVE  /\ task' = task /\ roots' = roots /\ disk' = disk
         /\ events' = events /\ main' = main /\ cached' = cached
  BY DEF EditStep, EditPublish, EditScope, world, indexes

LEMMA DiskFrame ==
  ASSUME DiskStep
  PROVE  /\ task' = task /\ roots' = roots /\ main' = main /\ edit' = edit
         /\ docs' = docs /\ cached' = cached /\ wsIndex' = wsIndex /\ looseIndex' = looseIndex
  BY DEF DiskStep, FileChange, indexes

\* A scan begins.
LEMMA ReindexFrame ==
  ASSUME TypeOK, NEW k \in Tasks, Reindex(k)
  PROVE  /\ main' = main /\ edit' = edit
         /\ roots' = roots /\ disk' = disk /\ events' = events /\ docs' = docs
         /\ cached' = cached /\ wsIndex' = wsIndex /\ looseIndex' = looseIndex
         /\ task[k] = Idle /\ task[k].pc = "idle"
         /\ \A j \in Tasks : j # k => task'[j] = task[j]
         /\ task'[k].pc = "load" /\ task'[k].from = "settings"
  <1>1. task \in [Tasks -> TaskState]
    BY DEF TypeOK
  <1>2. /\ main' = main /\ edit' = edit
        /\ roots' = roots /\ disk' = disk /\ events' = events /\ docs' = docs
        /\ cached' = cached /\ wsIndex' = wsIndex /\ looseIndex' = looseIndex
        /\ task[k] = Idle
        /\ task' = [task EXCEPT ![k] = [pc |-> "load", from |-> "settings"]]
    BY DEF Reindex, world, indexes
  <1>3. task'[k] = [pc |-> "load", from |-> "settings"] /\ \A j \in Tasks : j # k => task'[j] = task[j]
    BY <1>1, <1>2
  <1> QED
    BY <1>2, <1>3, TaskShape

\* The folders change.
LEMMA FoldersFrame ==
  ASSUME TypeOK, NEW k \in Tasks, NEW added \in SUBSET Folders,
         NEW removed \in SUBSET Folders, ChangeFolders(k, added, removed)
  PROVE  /\ main' = main /\ edit' = edit
         /\ disk' = disk /\ docs' = docs /\ cached' = cached
         /\ wsIndex' = wsIndex /\ looseIndex' = looseIndex
         /\ roots' = (roots \ removed) \cup added
         /\ \A f \in Files : events'[f] = IF Home[f] \in removed THEN "none" ELSE events[f]
         /\ task[k] = Idle /\ task[k].pc = "idle"
         /\ \A j \in Tasks : j # k => task'[j] = task[j]
         /\ task'[k] # Idle /\ task'[k].from = "folders"
         /\ task'[k].pc \in {"drop", "load"}
         /\ removed # {} => task'[k].pc = "drop" /\ task'[k].removed = removed
         /\ \A f \in Files : f \notin raced' => ~Moving(f, roots')
  <1>1. task \in [Tasks -> TaskState]
    BY DEF TypeOK
  <1> DEFINE x == IF removed = {} THEN [pc |-> "load", from |-> "folders"]
                  ELSE [pc |-> "drop", removed |-> removed, from |-> "folders"]
  <1>2. /\ main' = main /\ edit' = edit
        /\ disk' = disk /\ docs' = docs
        /\ cached' = cached /\ wsIndex' = wsIndex /\ looseIndex' = looseIndex
        /\ roots' = (roots \ removed) \cup added
        /\ events' = [f \in Files |-> IF Home[f] \in removed THEN "none" ELSE events[f]]
        /\ task[k] = Idle
        /\ task' = [task EXCEPT ![k] = x]
    BY DEF ChangeFolders, indexes
  <1>3. task'[k] = x /\ \A j \in Tasks : j # k => task'[j] = task[j]
    BY <1>1, <1>2
  <1>4. /\ x.from = "folders"
        /\ x.pc \in {"drop", "load"}
        /\ x # Idle
        /\ removed # {} => x.pc = "drop" /\ x.removed = removed
    BY DEF Idle
  <1>5. \A f \in Files : f \notin raced' => ~Moving(f, roots')
    BY DEF ChangeFolders, Race
  <1> HIDE DEF x
  <1> QED
    BY <1>2, <1>3, <1>4, <1>5, TaskShape

-----------------------------------------------------------------------------
(* Pending events.                                                         *)

LEMMA EventStep ==
  ASSUME TypeOK, EventInv, [Next]_vars
  PROVE  EventInv'
  <1>1. ASSUME NEW k \in Tasks, Reindex(k)
        PROVE  EventInv'
    BY <1>1, ReindexFrame DEF EventInv, InProject
  <1>2. ASSUME NEW k \in Tasks, NEW added \in SUBSET Folders, NEW removed \in SUBSET Folders,
               ChangeFolders(k, added, removed)
        PROVE  EventInv'
    <2>1. /\ disk' = disk /\ roots' = (roots \ removed) \cup added
          /\ \A f \in Files : events'[f] = IF Home[f] \in removed THEN "none" ELSE events[f]
      BY <1>2, FoldersFrame
    <2> QED
      BY <2>1 DEF EventInv, InProject
  <1>3. ASSUME NEW k \in Tasks, TaskStep(k)
        PROVE  EventInv'
    BY <1>3, TaskFrame DEF EventInv, InProject
  <1>4. CASE MainLoop
    <2>1. \A f \in Files : events'[f] \in {"none", events[f]}
      BY <1>4 DEF MainLoop, OpenReuse, OpenScope, OpenPublish, CloseLoose, CloseRead, CloseUnedited,
             CloseReindex, PublishWatched, DidClose, Watched, DidOpen, world, TypeOK
    <2> QED
      BY <1>4, <2>1, MainFrame DEF EventInv, InProject
  <1>5. CASE EditStep
    BY <1>5, EditFrame DEF EventInv, InProject
  <1>6. CASE DiskStep
    <2>1. PICK f \in Files, t \in MaybeText : FileChange(f, t)
      BY <1>6 DEF DiskStep
    <2>2. disk \in [Files -> MaybeText] /\ events \in [Files -> {"none", "changed", "deleted"}]
      BY DEF TypeOK, TextOf
    <2> QED
      BY <2>1, <2>2 DEF FileChange, EventInv, InProject
  <1>7. CASE UNCHANGED vars
    BY <1>7 DEF vars, EventInv, InProject
  <1> QED
    BY <1>1, <1>2, <1>3, <1>4, <1>5, <1>6, <1>7, NextSteps DEF Starting

-----------------------------------------------------------------------------
(* What a scan does at each stage.                                         *)

LEMMA EndOfIndex ==
  ASSUME TypeOK, NEW k \in Tasks, task[k] # Idle, task'[k] = AfterIndex(k)
  PROVE  IF task[k].from = "initialized" THEN task'[k] = Idle
         ELSE task'[k].pc = "scopes" /\ task'[k].from = task[k].from /\ task'[k] # Idle
  BY DEF AfterIndex, Idle

LEMMA DropMoves ==
  ASSUME TypeOK, NEW k \in Tasks, TaskDrop(k)
  PROVE  /\ task[k].pc = "drop" /\ task[k].from = "folders"
         /\ task'[k].pc = "load" /\ task'[k].from = "folders" /\ task'[k] # Idle
         /\ \A f \in Files :
              IF cached[f] # NoText /\ Home[f] \in task[k].removed
              THEN cached'[f] = NoText /\ wsIndex'[f] = NoText
              ELSE cached'[f] = cached[f] /\ wsIndex'[f] = wsIndex[f]
         /\ looseIndex' = looseIndex
         /\ \A f \in Files : f \notin raced' => ~(MainOn({"reuse"}, f) /\ cached'[f] # cached[f])
  <1>1. task \in [Tasks -> TaskState]
    BY DEF TypeOK
  <1>2. task[k].pc = "drop" /\ task[k].from = "folders"
    BY TaskShape DEF TaskDrop
  <1>3. task'[k] = [pc |-> "load", from |-> "folders"]
    BY <1>1 DEF TaskDrop
  <1>4. task'[k].pc = "load" /\ task'[k].from = "folders" /\ task'[k] # Idle
    BY <1>3 DEF Idle
  <1> QED
    BY <1>2, <1>4 DEF TaskDrop, Dropped, Race

LEMMA LoadMoves ==
  ASSUME TypeOK, NEW k \in Tasks, TaskLoad(k)
  PROVE  /\ task[k].pc = "load" /\ task[k] # Idle
         /\ roots # {} => /\ task'[k].pc = "read" /\ task'[k].roots = roots
                          /\ task'[k].from = task[k].from /\ task'[k] # Idle
         /\ roots = {} => task'[k] = AfterIndex(k)
         /\ cached' = cached /\ wsIndex' = wsIndex /\ looseIndex' = looseIndex
  <1>1. task \in [Tasks -> TaskState]
    BY DEF TypeOK
  <1>2. task[k].pc = "load" /\ task[k] # Idle
    BY TaskShape DEF TaskLoad
  <1>3. roots # {} => task'[k] = [pc |-> "read", roots |-> roots, from |-> task[k].from]
    BY <1>1 DEF TaskLoad
  <1>4. roots = {} => task'[k] = AfterIndex(k)
    BY <1>1 DEF TaskLoad
  <1>5. roots # {} => /\ task'[k].pc = "read" /\ task'[k].roots = roots
                      /\ task'[k].from = task[k].from /\ task'[k] # Idle
    BY <1>3 DEF Idle
  <1> QED
    BY <1>2, <1>4, <1>5 DEF TaskLoad, indexes

LEMMA ReadMoves ==
  ASSUME TypeOK, NEW k \in Tasks, TaskRead(k)
  PROVE  /\ task[k].pc = "read" /\ task[k] # Idle
         /\ task'[k].pc = "filter" /\ task'[k].from = task[k].from /\ task'[k] # Idle
         /\ \A f \in Files : task'[k].parsed[f] = IF Home[f] \in task[k].roots THEN disk[f] ELSE NoText
         /\ cached' = cached /\ wsIndex' = wsIndex /\ looseIndex' = looseIndex
  <1>1. task \in [Tasks -> TaskState]
    BY DEF TypeOK
  <1>2. task[k].pc = "read" /\ task[k] # Idle
    BY TaskShape DEF TaskRead
  <1> DEFINE m == [f \in Files |-> IF Home[f] \in task[k].roots THEN disk[f] ELSE NoText]
  <1>3. task'[k] = [pc |-> "filter", from |-> task[k].from, parsed |-> m]
    BY <1>1 DEF TaskRead
  <1>4. task'[k].pc = "filter" /\ task'[k].from = task[k].from /\ task'[k].parsed = m /\ task'[k] # Idle
    <2> HIDE DEF m
    <2> QED
      BY <1>3 DEF Idle
  <1> QED
    BY <1>2, <1>4 DEF TaskRead, indexes

LEMMA FilterMoves ==
  ASSUME TypeOK, NEW k \in Tasks, TaskFilter(k)
  PROVE  /\ task[k].pc = "filter" /\ task[k] # Idle
         /\ task'[k].pc = "publish" /\ task'[k].from = task[k].from /\ task'[k] # Idle
         /\ \A f \in Files : task'[k].parsed[f] = IF docs[f] # NoText THEN NoText ELSE task[k].parsed[f]
         /\ cached' = cached /\ wsIndex' = wsIndex /\ looseIndex' = looseIndex
  <1>1. task \in [Tasks -> TaskState]
    BY DEF TypeOK
  <1>2. task[k].pc = "filter" /\ task[k] # Idle
    BY TaskShape DEF TaskFilter
  <1> DEFINE m == [f \in Files |-> IF docs[f] # NoText THEN NoText ELSE task[k].parsed[f]]
             x == [task[k] EXCEPT !.pc = "publish", !.parsed = m]
  <1>3. task'[k] = x
    BY <1>1 DEF TaskFilter
  <1>4. task[k] \in [pc : {"filter", "publish"}, parsed : TextOf, from : Origins]
    BY <1>1, <1>2 DEF TaskState, Idle
  <1>5. x.pc = "publish" /\ x.from = task[k].from /\ x.parsed = m /\ x # Idle
    <2> HIDE DEF m
    <2> QED
      BY <1>4 DEF Idle
  <1>6. task'[k].pc = "publish" /\ task'[k].from = task[k].from /\ task'[k].parsed = m /\ task'[k] # Idle
    BY <1>3, <1>5
  <1> QED
    BY <1>2, <1>6 DEF TaskFilter, indexes

LEMMA PublishMoves ==
  ASSUME TypeOK, NEW k \in Tasks, TaskPublish(k)
  PROVE  /\ task[k].pc = "publish" /\ task[k] # Idle /\ task'[k] = AfterIndex(k)
         /\ \A f \in Files :
              IF task[k].parsed[f] # NoText
              THEN cached'[f] = task[k].parsed[f] /\ wsIndex'[f] = task[k].parsed[f]
              ELSE cached'[f] = cached[f] /\ wsIndex'[f] = wsIndex[f]
         /\ looseIndex' = looseIndex
         /\ \A f \in Files : f \notin raced' => ~(MainOn({"reuse"}, f) /\ cached'[f] # cached[f])
  <1>1. task \in [Tasks -> TaskState]
    BY DEF TypeOK
  <1>2. task[k].pc = "publish" /\ task[k] # Idle
    BY TaskShape DEF TaskPublish
  <1>3. task'[k] = AfterIndex(k)
    BY <1>1 DEF TaskPublish
  <1> QED
    BY <1>2, <1>3 DEF TaskPublish, Race

LEMMA ScopesMoves ==
  ASSUME TypeOK, NEW k \in Tasks, TaskScopes(k)
  PROVE  /\ task[k].pc = "scopes" /\ task[k] # Idle
         /\ docs = Nothing => task'[k] = Idle
         /\ docs # Nothing =>
              /\ task'[k].pc = "route" /\ task'[k].from = task[k].from /\ task'[k] # Idle
              /\ \A f \in Files : task'[k].scopes[f] = IF docs[f] = NoText THEN "closed" ELSE Scope(f)
         /\ cached' = cached /\ wsIndex' = wsIndex /\ looseIndex' = looseIndex
  <1>1. task \in [Tasks -> TaskState]
    BY DEF TypeOK
  <1>2. task[k].pc = "scopes" /\ task[k] # Idle
    BY TaskShape DEF TaskScopes
  <1> DEFINE m == [f \in Files |-> IF docs[f] = NoText THEN "closed" ELSE Scope(f)]
  <1>3. docs = Nothing => task'[k] = Idle
    BY <1>1 DEF TaskScopes
  <1>4. docs # Nothing => task'[k] = [pc |-> "route", from |-> task[k].from, scopes |-> m]
    BY <1>1 DEF TaskScopes
  <1>5. docs # Nothing => /\ task'[k].pc = "route" /\ task'[k].from = task[k].from
                          /\ task'[k].scopes = m /\ task'[k] # Idle
    <2> HIDE DEF m
    <2> QED
      BY <1>4 DEF Idle
  <1> QED
    BY <1>2, <1>3, <1>5 DEF TaskScopes, indexes

LEMMA RouteMoves ==
  ASSUME TypeOK, NEW k \in Tasks, TaskRoute(k)
  PROVE  /\ task[k].pc = "route" /\ task[k] # Idle /\ task'[k] = Idle
         /\ \A f \in Files :
              IF task[k].scopes[f] # "closed" /\ docs[f] # NoText
              THEN /\ wsIndex'[f] = IF task[k].scopes[f] = "project" THEN docs[f] ELSE NoText
                   /\ looseIndex'[f] = IF task[k].scopes[f] = "loose" THEN docs[f] ELSE NoText
              ELSE wsIndex'[f] = wsIndex[f] /\ looseIndex'[f] = looseIndex[f]
         /\ cached' = cached
  <1>1. task \in [Tasks -> TaskState]
    BY DEF TypeOK
  <1>2. task[k].pc = "route" /\ task[k] # Idle
    BY TaskShape DEF TaskRoute
  <1>3. task'[k] = Idle
    BY <1>1 DEF TaskRoute
  <1> QED
    BY <1>2, <1>3 DEF TaskRoute

-----------------------------------------------------------------------------
(* What the main loop, the edit writer and the disk do.                    *)

LEMMA OpenReuseMoves ==
  ASSUME TypeOK, OpenReuse
  PROVE  /\ main.pc = "reuse" /\ main # Idle /\ main.file \in Files /\ main' = Idle
         /\ \A f \in Files : docs'[f] = IF f = main.file THEN main.text ELSE docs[f]
         /\ events' = events /\ cached' = cached /\ wsIndex' = wsIndex /\ looseIndex' = looseIndex
         /\ main.file \notin raced' => ~Overwritten(main.file, main.text)
  <1>1. /\ docs \in [Files -> MaybeText] /\ cached \in [Files -> MaybeText]
        /\ wsIndex \in [Files -> MaybeText] /\ looseIndex \in [Files -> MaybeText]
    BY DEF TypeOK, TextOf
  <1>2. main # Idle /\ main.file \in Files
    BY MainShape DEF OpenReuse
  <1> QED
    BY <1>1, <1>2 DEF OpenReuse, world, Race

LEMMA OpenPublishMoves ==
  ASSUME TypeOK, OpenPublish
  PROVE  /\ main.pc = "publish" /\ main # Idle /\ main.file \in Files /\ main' = Idle
         /\ \A f \in Files : docs'[f] = IF f = main.file THEN main.text ELSE docs[f]
         /\ \A f \in Files : wsIndex'[f] = IF f = main.file THEN (IF main.scope = "project" THEN main.text ELSE NoText) ELSE wsIndex[f]
         /\ \A f \in Files : looseIndex'[f] = IF f = main.file THEN (IF main.scope = "loose" THEN main.text ELSE NoText) ELSE looseIndex[f]
         /\ events' = events /\ cached' = cached
         /\ main.file \notin raced' => ~Overwritten(main.file, main.text)
  <1>1. /\ docs \in [Files -> MaybeText] /\ cached \in [Files -> MaybeText]
        /\ wsIndex \in [Files -> MaybeText] /\ looseIndex \in [Files -> MaybeText]
    BY DEF TypeOK, TextOf
  <1>2. main # Idle /\ main.file \in Files
    BY MainShape DEF OpenPublish
  <1> QED
    BY <1>1, <1>2 DEF OpenPublish, Route, world, Race

LEMMA CloseLooseMoves ==
  ASSUME TypeOK, CloseLoose
  PROVE  /\ main.pc = "dropLoose" /\ main # Idle /\ main.file \in Files /\ main' = Idle
         /\ \A f \in Files : docs'[f] = IF f = main.file THEN NoText ELSE docs[f]
         /\ \A f \in Files : looseIndex'[f] = IF f = main.file THEN NoText ELSE looseIndex[f]
         /\ events' = events /\ cached' = cached /\ wsIndex' = wsIndex
         /\ main.file \notin raced' => ~Unrouted(main.file)
  <1>1. /\ docs \in [Files -> MaybeText] /\ cached \in [Files -> MaybeText]
        /\ wsIndex \in [Files -> MaybeText] /\ looseIndex \in [Files -> MaybeText]
    BY DEF TypeOK, TextOf
  <1>2. main # Idle /\ main.file \in Files
    BY MainShape DEF CloseLoose
  <1> QED
    BY <1>1, <1>2 DEF CloseLoose, world, Race

LEMMA CloseUneditedMoves ==
  ASSUME TypeOK, CloseUnedited
  PROVE  /\ main.pc = "closeUnedited" /\ main # Idle /\ main.file \in Files /\ main' = Idle
         /\ \A f \in Files : docs'[f] = IF f = main.file THEN NoText ELSE docs[f]
         /\ \A f \in Files : cached'[f] = IF f = main.file THEN main.text ELSE cached[f]
         /\ events' = events /\ wsIndex' = wsIndex /\ looseIndex' = looseIndex
         /\ main.file \notin raced' => ~Unrouted(main.file)
  <1>1. /\ docs \in [Files -> MaybeText] /\ cached \in [Files -> MaybeText]
        /\ wsIndex \in [Files -> MaybeText] /\ looseIndex \in [Files -> MaybeText]
    BY DEF TypeOK, TextOf
  <1>2. main # Idle /\ main.file \in Files
    BY MainShape DEF CloseUnedited
  <1> QED
    BY <1>1, <1>2 DEF CloseUnedited, world, Race

LEMMA CloseReindexMoves ==
  ASSUME TypeOK, CloseReindex
  PROVE  /\ main.pc = "closeReindex" /\ main # Idle /\ main.file \in Files /\ main' = Idle
         /\ \A f \in Files : docs'[f] = IF f = main.file THEN NoText ELSE docs[f]
         /\ \A f \in Files : wsIndex'[f] = IF f = main.file THEN main.text ELSE wsIndex[f]
         /\ \A f \in Files : cached'[f] = IF f = main.file THEN main.text ELSE cached[f]
         /\ events' = events /\ looseIndex' = looseIndex
         /\ main.file \notin raced' => ~Unrouted(main.file)
  <1>1. /\ docs \in [Files -> MaybeText] /\ cached \in [Files -> MaybeText]
        /\ wsIndex \in [Files -> MaybeText] /\ looseIndex \in [Files -> MaybeText]
    BY DEF TypeOK, TextOf
  <1>2. main # Idle /\ main.file \in Files
    BY MainShape DEF CloseReindex
  <1> QED
    BY <1>1, <1>2 DEF CloseReindex, world, Race

LEMMA PublishWatchedMoves ==
  ASSUME TypeOK, PublishWatched
  PROVE  /\ main.pc \in {"upsert", "remove"} /\ main # Idle /\ main.file \in Files /\ main' = Idle
         /\ \A f \in Files : wsIndex'[f] = IF f = main.file THEN main.text ELSE wsIndex[f]
         /\ \A f \in Files : cached'[f] = IF f = main.file THEN main.text ELSE cached[f]
         /\ events' = events /\ docs' = docs /\ looseIndex' = looseIndex
  <1>1. /\ docs \in [Files -> MaybeText] /\ cached \in [Files -> MaybeText]
        /\ wsIndex \in [Files -> MaybeText] /\ looseIndex \in [Files -> MaybeText]
    BY DEF TypeOK, TextOf
  <1>2. main # Idle /\ main.file \in Files
    BY MainShape DEF PublishWatched
  <1> QED
    BY <1>1, <1>2 DEF PublishWatched, world

LEMMA OpenScopeMoves ==
  ASSUME TypeOK, OpenScope
  PROVE  /\ main.pc = "scope" /\ main # Idle /\ main.file \in Files
         /\ main'.pc = "publish" /\ main'.file = main.file /\ main'.text = main.text
         /\ main'.scope = Scope(main.file)
         /\ events' = events /\ docs' = docs /\ cached' = cached /\ wsIndex' = wsIndex /\ looseIndex' = looseIndex
  <1>1. main # Idle /\ main.file \in Files
    BY MainShape DEF OpenScope
  <1>2. main' = [pc |-> "publish", file |-> main.file, text |-> main.text, scope |-> Scope(main.file)]
    BY DEF OpenScope
  <1>3. /\ main'.pc = "publish" /\ main'.file = main.file /\ main'.text = main.text
        /\ main'.scope = Scope(main.file)
    BY <1>2
  <1> QED
    BY <1>1, <1>3 DEF OpenScope, world, indexes

LEMMA CloseReadMoves ==
  ASSUME TypeOK, CloseRead
  PROVE  /\ main.pc = "close" /\ main # Idle /\ main.file \in Files
         /\ main'.file = main.file
         /\ main.prior = disk[main.file] => main'.pc = "closeUnedited" /\ main'.text = docs[main.file]
         /\ main.prior # disk[main.file] => main'.pc = "closeReindex" /\ main'.text = disk[main.file]
         /\ events' = events /\ docs' = docs /\ cached' = cached /\ wsIndex' = wsIndex /\ looseIndex' = looseIndex
  <1>1. main # Idle /\ main.file \in Files
    BY MainShape DEF CloseRead
  <1>2. main.prior = disk[main.file] =>
          main' = [pc |-> "closeUnedited", file |-> main.file, text |-> docs[main.file]]
    BY DEF CloseRead
  <1>3. main.prior # disk[main.file] =>
          main' = [pc |-> "closeReindex", file |-> main.file, text |-> disk[main.file]]
    BY DEF CloseRead
  <1>4. /\ main'.file = main.file
        /\ main.prior = disk[main.file] => main'.pc = "closeUnedited" /\ main'.text = docs[main.file]
        /\ main.prior # disk[main.file] => main'.pc = "closeReindex" /\ main'.text = disk[main.file]
    BY <1>2, <1>3
  <1> QED
    BY <1>1, <1>4 DEF CloseRead, world, indexes

LEMMA DidCloseMoves ==
  ASSUME TypeOK, NEW g \in Files, DidClose(g)
  PROVE  /\ main = Idle /\ docs[g] # NoText /\ ~On(edit, g)
         /\ main'.file = g
         /\ InProject(g) => main'.pc = "close" /\ main'.prior = docs[g]
         /\ ~InProject(g) => main'.pc = "dropLoose"
         /\ events' = events /\ docs' = docs /\ cached' = cached /\ wsIndex' = wsIndex /\ looseIndex' = looseIndex
  <1>1. InProject(g) => main' = [pc |-> "close", file |-> g, prior |-> docs[g]]
    BY DEF DidClose
  <1>2. ~InProject(g) => main' = [pc |-> "dropLoose", file |-> g]
    BY DEF DidClose
  <1>3. /\ main'.file = g
        /\ InProject(g) => main'.pc = "close" /\ main'.prior = docs[g]
        /\ ~InProject(g) => main'.pc = "dropLoose"
    BY <1>1, <1>2
  <1> QED
    BY <1>3 DEF DidClose, world, indexes

LEMMA DidOpenMoves ==
  ASSUME TypeOK, NEW g \in Files, NEW t \in Texts, DidOpen(g, t)
  PROVE  /\ main = Idle /\ docs[g] = NoText /\ t # NoText
         /\ main'.file = g /\ main'.text = t
         /\ cached[g] = t => main'.pc = "reuse"
         /\ cached[g] # t => main'.pc = "scope"
         /\ events' = events /\ docs' = docs /\ cached' = cached /\ wsIndex' = wsIndex /\ looseIndex' = looseIndex
  <1>1. cached[g] = t => main' = [pc |-> "reuse", file |-> g, text |-> t]
    BY DEF DidOpen
  <1>2. cached[g] # t => main' = [pc |-> "scope", file |-> g, text |-> t]
    BY DEF DidOpen
  <1>3. /\ main'.file = g /\ main'.text = t
        /\ cached[g] = t => main'.pc = "reuse"
        /\ cached[g] # t => main'.pc = "scope"
    BY <1>1, <1>2
  <1> QED
    BY <1>3, Lookups DEF DidOpen, world, indexes

LEMMA WatchedMoves ==
  ASSUME TypeOK, EventInv, NEW g \in Files, Watched(g)
  PROVE  /\ main = Idle /\ events[g] # "none" /\ InProject(g)
         /\ docs[g] # NoText => main' = Idle
         /\ docs[g] = NoText => /\ main'.pc \in {"upsert", "remove"}
                                /\ main'.file = g /\ main'.text = disk[g]
         /\ \A f \in Files : events'[f] = IF f = g THEN "none" ELSE events[f]
         /\ docs' = docs /\ cached' = cached /\ wsIndex' = wsIndex /\ looseIndex' = looseIndex
  <1>1. events \in [Files -> {"none", "changed", "deleted"}]
    BY DEF TypeOK
  <1>2. main = Idle /\ events[g] # "none"
    BY DEF Watched
  <1>3. InProject(g)
    BY <1>2 DEF EventInv
  <1>4. docs[g] # NoText => main' = Idle
    BY DEF Watched
  <1>5. docs[g] = NoText => \/ main' = [pc |-> "remove", file |-> g, text |-> disk[g]]
                            \/ main' = [pc |-> "upsert", file |-> g, text |-> disk[g]]
    BY <1>1, <1>2 DEF Watched, EventInv
  <1>6. docs[g] = NoText => /\ main'.pc \in {"upsert", "remove"}
                            /\ main'.file = g /\ main'.text = disk[g]
    BY <1>5
  <1> QED
    BY <1>1, <1>2, <1>3, <1>4, <1>6 DEF Watched, indexes

LEMMA EditPublishMoves ==
  ASSUME TypeOK, EditPublish
  PROVE  /\ edit # Idle /\ edit.file \in Files /\ edit.text # NoText /\ edit' = Idle
         /\ \A f \in Files : docs'[f] = IF f = edit.file THEN edit.text ELSE docs[f]
         /\ \A f \in Files :
              wsIndex'[f] = IF f = edit.file THEN (IF edit.scope = "project" THEN edit.text ELSE NoText)
                            ELSE wsIndex[f]
         /\ \A f \in Files :
              looseIndex'[f] = IF f = edit.file THEN (IF edit.scope = "loose" THEN edit.text ELSE NoText)
                               ELSE looseIndex[f]
         /\ edit.file \notin raced' => ~Overwritten(edit.file, edit.text)
  <1>1. /\ docs \in [Files -> MaybeText] /\ cached \in [Files -> MaybeText]
        /\ wsIndex \in [Files -> MaybeText] /\ looseIndex \in [Files -> MaybeText]
    BY DEF TypeOK, TextOf
  <1>2. edit # Idle /\ edit.file \in Files /\ edit.text # NoText
    BY MainShape, Lookups DEF EditPublish
  <1> QED
    BY <1>1, <1>2 DEF EditPublish, Route, Race

LEMMA EditScopeMoves ==
  ASSUME TypeOK, NEW g \in Files, NEW t \in Texts, EditScope(g, t)
  PROVE  /\ docs[g] # NoText /\ ~On(main, g)
         /\ edit'.file = g /\ edit'.scope = Scope(g)
         /\ docs' = docs /\ cached' = cached /\ wsIndex' = wsIndex /\ looseIndex' = looseIndex
  <1>1. edit' = [pc |-> "publish", file |-> g, text |-> t, scope |-> Scope(g)]
    BY DEF EditScope
  <1>2. edit'.file = g /\ edit'.scope = Scope(g)
    BY <1>1
  <1> QED
    BY <1>2 DEF EditScope, indexes

LEMMA DiskMoves ==
  ASSUME TypeOK, DiskStep, NEW f \in Files
  PROVE  \/ disk'[f] = disk[f] /\ events'[f] = events[f]
         \/ /\ InProject(f) => events'[f] # "none"
            /\ f \notin raced' => \A k \in Tasks : ~HoldsText(k, f)
  <1>1. disk \in [Files -> MaybeText] /\ events \in [Files -> {"none", "changed", "deleted"}]
    BY DEF TypeOK, TextOf
  <1>2. PICK g \in Files, t \in MaybeText : FileChange(g, t)
    BY DEF DiskStep
  <1>3. CASE f # g
    BY <1>1, <1>2, <1>3 DEF FileChange
  <1>4. CASE f = g
    BY <1>1, <1>2, <1>4 DEF FileChange, Race
  <1> QED
    BY <1>3, <1>4

-----------------------------------------------------------------------------
(* Documents under the main loop and the edit writer.                      *)

LEMMA DocsStep ==
  ASSUME TypeOK, EventInv, DocsInv, [Next]_vars
  PROVE  DocsInv'
  <1>1. ASSUME docs' = docs, main' = main, edit' = edit
        PROVE  DocsInv'
    BY <1>1 DEF DocsInv, MainOn, On
  <1>2. ASSUME NEW k \in Tasks, Starting(k) \/ TaskStep(k)
        PROVE  DocsInv'
    <2>1. docs' = docs /\ main' = main /\ edit' = edit
      BY <1>2, ReindexFrame, FoldersFrame, TaskFrame DEF Starting
    <2> QED
      BY <1>1, <2>1
  <1>3. main = Idle => main.pc = "idle"
    BY MainShape
  <1>4. CASE MainLoop
    <2>1. edit' = edit
      BY <1>4, MainFrame
    <2>2. CASE \/ OpenReuse \/ OpenPublish \/ CloseLoose \/ CloseUnedited \/ CloseReindex
               \/ PublishWatched
      <3>1. /\ main # Idle /\ main.file \in Files /\ main' = Idle
            /\ \A f \in Files : f # main.file => docs'[f] = docs[f]
        BY <2>2, OpenReuseMoves, OpenPublishMoves, CloseLooseMoves, CloseUneditedMoves,
           CloseReindexMoves, PublishWatchedMoves
      <3>2. main'.pc = "idle"
        BY <3>1 DEF Idle
      <3>3. edit # Idle => edit.file \in Files /\ edit.file # main.file
        BY <3>1, MainShape DEF DocsInv, On
      <3> QED
        BY <2>1, <3>1, <3>2, <3>3 DEF DocsInv, MainOn, On
    <2>3. CASE OpenScope
      <3>1. /\ main.pc = "scope" /\ main # Idle /\ main.file \in Files /\ docs' = docs
            /\ main'.pc = "publish" /\ main'.file = main.file /\ main'.text = main.text
        BY <2>3, OpenScopeMoves
      <3> QED
        BY <2>1, <3>1 DEF DocsInv, MainOn, On
    <2>4. CASE CloseRead
      <3>1. /\ main.pc = "close" /\ main # Idle /\ main.file \in Files /\ docs' = docs
            /\ main'.pc \in {"closeUnedited", "closeReindex"} /\ main'.file = main.file
            /\ main'.pc = "closeUnedited" => main'.text = docs[main.file]
        BY <2>4, CloseReadMoves
      <3> QED
        BY <2>1, <3>1 DEF DocsInv, MainOn, On
    <2>5. ASSUME NEW g \in Files, DidClose(g)
          PROVE  DocsInv'
      <3>1. /\ docs[g] # NoText /\ ~On(edit, g) /\ docs' = docs
            /\ main'.file = g
            /\ main'.pc \in {"close", "dropLoose"}
            /\ main'.pc = "close" => main'.prior = docs[g]
        BY <2>5, DidCloseMoves
      <3> QED
        BY <2>1, <3>1 DEF DocsInv, MainOn, On
    <2>6. ASSUME NEW g \in Files, Watched(g)
          PROVE  DocsInv'
      <3>1. /\ docs' = docs
            /\ docs[g] # NoText => main' = Idle
            /\ docs[g] = NoText => main'.pc \in {"upsert", "remove"} /\ main'.file = g
        BY <2>6, WatchedMoves
      <3>2. main' = Idle => main'.pc = "idle"
        BY DEF Idle
      <3> QED
        BY <2>1, <3>1, <3>2 DEF DocsInv, MainOn, On
    <2>7. ASSUME NEW g \in Files, NEW t \in Texts, DidOpen(g, t)
          PROVE  DocsInv'
      <3>1. /\ docs[g] = NoText /\ t # NoText /\ docs' = docs
            /\ main'.pc \in {"reuse", "scope"} /\ main'.file = g /\ main'.text = t
        BY <2>7, DidOpenMoves
      <3> QED
        BY <2>1, <3>1 DEF DocsInv, MainOn, On
    <2> QED
      BY <1>4, <2>2, <2>3, <2>4, <2>5, <2>6, <2>7 DEF MainLoop
  <1>5. CASE EditStep
    <2>1. main' = main
      BY <1>5, EditFrame
    <2>2. CASE EditPublish
      <3>1. /\ edit # Idle /\ edit.file \in Files /\ edit' = Idle
            /\ \A f \in Files : f # edit.file => docs'[f] = docs[f]
        BY <2>2, EditPublishMoves
      <3>2. main # Idle => main.file # edit.file
        BY <3>1 DEF DocsInv, On
      <3>3. \A f \in Files : MainOn({"reuse", "scope", "publish", "close", "dropLoose",
                             "closeUnedited", "closeReindex", "upsert", "remove"}, f) =>
                               docs'[f] = docs[f]
        BY <1>3, <3>1, <3>2 DEF MainOn
      <3> QED
        BY <2>1, <3>1, <3>3 DEF DocsInv, MainOn
    <2>3. ASSUME NEW g \in Files, NEW t \in Texts, EditScope(g, t)
          PROVE  DocsInv'
      <3>1. docs[g] # NoText /\ ~On(main, g) /\ edit'.file = g /\ docs' = docs
        BY <2>3, EditScopeMoves
      <3> QED
        BY <2>1, <3>1 DEF DocsInv, MainOn, On
    <2> QED
      BY <1>5, <2>2, <2>3 DEF EditStep
  <1>6. CASE DiskStep
    BY <1>1, <1>6, DiskFrame
  <1>7. CASE UNCHANGED vars
    BY <1>1, <1>7 DEF vars
  <1> QED
    BY <1>2, <1>4, <1>5, <1>6, <1>7, NextSteps

-----------------------------------------------------------------------------
(* What a scan holds is still so.                                          *)

\* A scan that stays as it is keeps what it holds of a file, and one at another
\* stage holds nothing.
LEMMA HoldsKept ==
  ASSUME NEW j \in Tasks, NEW f \in Files
  PROVE  /\ task'[j] = task[j] => (Holds(j, f)' <=> Holds(j, f)) /\ (HoldsText(j, f)' <=> HoldsText(j, f))
         /\ task'[j].pc \in {"idle", "drop", "load", "scopes"} => ~Holds(j, f)' /\ ~HoldsText(j, f)'
         /\ HoldsText(j, f) => Holds(j, f)
         /\ Holds(j, f) => task[j].pc \in {"read", "filter", "publish", "route"}
  BY DEF Holds, HoldsText

\* Whether a file that is not raced is in a workspace folder changes only when
\* no step has read that it is.
LEMMA ScopeKept ==
  ASSUME TypeOK, NEW k \in Tasks, Starting(k), NEW f \in Files, f \notin raced'
  PROVE  \/ InProject(f)' = InProject(f) /\ Scope(f)' = Scope(f)
         \/ ~On(main, f) /\ ~On(edit, f) /\ \A j \in Tasks : ~Holds(j, f)
  <1>1. CASE Reindex(k)
    BY <1>1, ReindexFrame DEF InProject, Scope
  <1>2. ASSUME NEW added \in SUBSET Folders, NEW removed \in SUBSET Folders,
               ChangeFolders(k, added, removed)
        PROVE  \/ InProject(f)' = InProject(f) /\ Scope(f)' = Scope(f)
               \/ ~On(main, f) /\ ~On(edit, f) /\ \A j \in Tasks : ~Holds(j, f)
    <2>1. ~Moving(f, roots')
      BY <1>2, FoldersFrame
    <2> QED
      BY <2>1 DEF Moving, InProject, Scope
  <1> QED
    BY <1>1, <1>2 DEF Starting

\* What scan j holds of f.
ScanOne(j, f) ==
  /\ Holds(j, f) /\ task[j].pc # "route" => InProject(f)
  /\ HoldsText(j, f) =>
       /\ task[j].parsed[f] = disk[f]
       /\ task[j].pc = "publish" /\ task[j].from = "initialized" /\ docs[f] # NoText =>
            task[j].parsed[f] = docs[f]
  /\ Holds(j, f) /\ task[j].pc = "route" => task[j].scopes[f] = Scope(f)

LEMMA ScanOneKept ==
  ASSUME NEW j \in Tasks, NEW f \in Files, ScanOne(j, f), task'[j] = task[j],
         roots' = roots, disk'[f] = disk[f] \/ ~HoldsText(j, f),
         \/ docs'[f] \in {docs[f], NoText}
         \/ ~(/\ task[j].pc = "publish" /\ task[j].from = "initialized"
              /\ task[j].parsed[f] \notin {NoText, docs'[f]})
  PROVE  ScanOne(j, f)'
  <1>1. (Holds(j, f)' <=> Holds(j, f)) /\ (HoldsText(j, f)' <=> HoldsText(j, f))
    BY HoldsKept
  <1>2. InProject(f)' = InProject(f) /\ Scope(f)' = Scope(f)
    BY DEF InProject, Scope
  <1>3. HoldsText(j, f) => task[j].parsed[f] # NoText
    BY DEF HoldsText
  <1> QED
    BY <1>1, <1>2, <1>3 DEF ScanOne

LEMMA ScanStart ==
  ASSUME TypeOK, NEW k \in Tasks, Starting(k), NEW f \in Files, f \notin raced',
         NEW j \in Tasks, ScanOne(j, f)
  PROVE  ScanOne(j, f)'
  <1>1. /\ disk' = disk /\ docs' = docs
        /\ j # k => task'[j] = task[j]
        /\ task'[k].pc \in {"drop", "load"}
    BY ReindexFrame, FoldersFrame DEF Starting
  <1>2. CASE j = k
    <2>1. ~Holds(j, f)' /\ ~HoldsText(j, f)'
      BY <1>1, <1>2, HoldsKept
    <2> QED
      BY <2>1 DEF ScanOne
  <1>3. CASE j # k
    <2>1. (Holds(j, f)' <=> Holds(j, f)) /\ (HoldsText(j, f)' <=> HoldsText(j, f))
      BY <1>1, <1>3, HoldsKept
    <2>2. CASE InProject(f)' = InProject(f) /\ Scope(f)' = Scope(f)
      BY <1>1, <1>3, <2>1, <2>2 DEF ScanOne
    <2>3. CASE ~Holds(j, f)
      BY <1>1, <1>3, <2>1, <2>3, HoldsKept DEF ScanOne
    <2> QED
      BY <2>2, <2>3, ScopeKept
  <1> QED
    BY <1>2, <1>3

LEMMA ScanSteps ==
  ASSUME TypeOK, NEW k \in Tasks, TaskStep(k), NEW f \in Files, NEW j \in Tasks, ScanOne(j, f)
  PROVE  ScanOne(j, f)'
  <1>1. /\ roots' = roots /\ disk' = disk /\ docs' = docs
        /\ j # k => task'[j] = task[j]
    BY TaskFrame
  <1>2. CASE j # k
    BY <1>1, <1>2, ScanOneKept
  <1>3. ASSUME j = k, task'[k].pc \in {"idle", "drop", "load", "scopes"}
        PROVE  ScanOne(j, f)'
    <2>1. ~Holds(j, f)' /\ ~HoldsText(j, f)'
      BY <1>3, HoldsKept
    <2> QED
      BY <2>1 DEF ScanOne
  <1>4. ASSUME j = k, task[k] # Idle, task'[k] = AfterIndex(k)
        PROVE  ScanOne(j, f)'
    <2>1. task'[k].pc \in {"idle", "scopes"}
      BY <1>4, EndOfIndex DEF Idle
    <2> QED
      BY <1>3, <1>4, <2>1
  <1>5. InProject(f)' = InProject(f) /\ Scope(f)' = Scope(f)
    BY <1>1 DEF InProject, Scope
  <1>6. CASE j = k
    <2>1. CASE TaskDrop(k)
      BY <1>3, <1>6, <2>1, DropMoves
    <2>2. CASE TaskLoad(k)
      <3>1. CASE roots = {}
        BY <1>4, <1>6, <2>2, <3>1, LoadMoves
      <3>2. CASE roots # {}
        <4>1. task'[j].pc = "read" /\ task'[j].roots = roots
          BY <1>6, <2>2, <3>2, LoadMoves
        <4>2. ~HoldsText(j, f)' /\ (Holds(j, f)' => Home[f] \in roots)
          BY <4>1 DEF Holds, HoldsText
        <4> QED
          BY <1>1, <4>1, <4>2 DEF ScanOne, InProject
      <3> QED
        BY <3>1, <3>2
    <2>3. CASE TaskRead(k)
      <3>1. /\ task[j].pc = "read" /\ task'[j].pc = "filter"
            /\ task'[j].parsed[f] = IF Home[f] \in task[j].roots THEN disk[f] ELSE NoText
        BY <1>6, <2>3, ReadMoves
      <3>2. Holds(j, f)' \/ HoldsText(j, f)' => Home[f] \in task[j].roots
        BY <3>1 DEF Holds, HoldsText
      <3>3. Home[f] \in task[j].roots => InProject(f)
        BY <3>1 DEF ScanOne, Holds
      <3> QED
        BY <1>1, <1>5, <3>1, <3>2, <3>3 DEF ScanOne
    <2>4. CASE TaskFilter(k)
      <3>1. /\ task[j].pc = "filter" /\ task'[j].pc = "publish"
            /\ task'[j].parsed[f] = IF docs[f] # NoText THEN NoText ELSE task[j].parsed[f]
        BY <1>6, <2>4, FilterMoves
      <3>2. Holds(j, f)' \/ HoldsText(j, f)' => docs[f] = NoText /\ HoldsText(j, f) /\ Holds(j, f)
        BY <3>1 DEF Holds, HoldsText
      <3> QED
        BY <1>1, <1>5, <3>1, <3>2 DEF ScanOne
    <2>5. CASE TaskPublish(k)
      BY <1>4, <1>6, <2>5, PublishMoves
    <2>6. CASE TaskScopes(k)
      <3>1. CASE docs = Nothing
        <4>1. task'[k].pc = "idle"
          BY <2>6, <3>1, ScopesMoves DEF Idle
        <4> QED
          BY <1>3, <1>6, <4>1
      <3>2. CASE docs # Nothing
        <4>1. /\ task'[j].pc = "route"
              /\ task'[j].scopes[f] = IF docs[f] = NoText THEN "closed" ELSE Scope(f)
          BY <1>6, <2>6, <3>2, ScopesMoves
        <4>2. ~HoldsText(j, f)' /\ (Holds(j, f)' => task'[j].scopes[f] # "closed")
          BY <4>1 DEF Holds, HoldsText
        <4> QED
          BY <1>5, <4>1, <4>2 DEF ScanOne
      <3> QED
        BY <3>1, <3>2
    <2>7. CASE TaskRoute(k)
      <3>1. task'[k].pc = "idle"
        BY <2>7, RouteMoves DEF Idle
      <3> QED
        BY <1>3, <1>6, <3>1
    <2> QED
      BY <2>1, <2>2, <2>3, <2>4, <2>5, <2>6, <2>7 DEF TaskStep
  <1> QED
    BY <1>2, <1>6

LEMMA ScanStep ==
  ASSUME TypeOK, EventInv, NEW f \in Files, f \notin raced', ScanPart(f), [Next]_vars
  PROVE  ScanPart(f)'
  <1>0. \A j \in Tasks : ScanOne(j, f)
    BY DEF ScanPart, ScanOne
  <1> SUFFICES ASSUME NEW j \in Tasks PROVE ScanOne(j, f)'
    BY DEF ScanPart, ScanOne
  <1>1. ASSUME NEW k \in Tasks, Starting(k)
        PROVE  ScanOne(j, f)'
    BY <1>0, <1>1, ScanStart
  <1>2. ASSUME NEW k \in Tasks, TaskStep(k)
        PROVE  ScanOne(j, f)'
    BY <1>0, <1>2, ScanSteps
  <1>3. CASE MainLoop
    <2>1. task' = task /\ roots' = roots /\ disk' = disk
      BY <1>3, MainFrame
    <2>2. CASE docs'[f] \in {docs[f], NoText}
      BY <1>0, <2>1, <2>2, ScanOneKept
    <2>3. CASE OpenReuse \/ OpenPublish
      <3>1. /\ docs'[f] = IF f = main.file THEN main.text ELSE docs[f]
            /\ f = main.file => ~Overwritten(f, main.text)
        BY <2>3, OpenReuseMoves, OpenPublishMoves
      <3>2. f = main.file => ~(/\ task[j].pc = "publish" /\ task[j].from = "initialized"
                               /\ task[j].parsed[f] \notin {NoText, docs'[f]})
        BY <3>1 DEF Overwritten
      <3> QED
        BY <1>0, <2>1, <3>1, <3>2, ScanOneKept
    <2>4. CASE CloseLoose \/ CloseUnedited \/ CloseReindex \/ PublishWatched \/ OpenScope \/ CloseRead
      BY <2>2, <2>4, CloseLooseMoves, CloseUneditedMoves, CloseReindexMoves, PublishWatchedMoves,
         OpenScopeMoves, CloseReadMoves
    <2>5. CASE \E g \in Files : DidClose(g) \/ Watched(g) \/ \E t \in Texts : DidOpen(g, t)
      BY <2>2, <2>5, DidCloseMoves, WatchedMoves, DidOpenMoves
    <2> QED
      BY <1>3, <2>3, <2>4, <2>5 DEF MainLoop
  <1>4. CASE EditStep
    <2>1. task' = task /\ roots' = roots /\ disk' = disk
      BY <1>4, EditFrame
    <2>2. CASE EditPublish
      <3>1. /\ docs'[f] = IF f = edit.file THEN edit.text ELSE docs[f]
            /\ f = edit.file => ~Overwritten(f, edit.text)
        BY <2>2, EditPublishMoves
      <3>2. f = edit.file => ~(/\ task[j].pc = "publish" /\ task[j].from = "initialized"
                               /\ task[j].parsed[f] \notin {NoText, docs'[f]})
        BY <3>1 DEF Overwritten
      <3> QED
        BY <1>0, <2>1, <3>1, <3>2, ScanOneKept
    <2>3. CASE docs' = docs
      BY <1>0, <2>1, <2>3, ScanOneKept
    <2> QED
      BY <1>4, <2>2, <2>3, EditScopeMoves DEF EditStep
  <1>5. CASE DiskStep
    <2>1. task' = task /\ roots' = roots /\ docs' = docs
      BY <1>5, DiskFrame
    <2>2. disk'[f] = disk[f] \/ ~HoldsText(j, f)
      BY <1>5, DiskMoves
    <2> QED
      BY <1>0, <2>1, <2>2, ScanOneKept
  <1>6. CASE UNCHANGED vars
    BY <1>0, <1>6, ScanOneKept DEF vars
  <1> QED
    BY <1>1, <1>2, <1>3, <1>4, <1>5, <1>6, NextSteps

-----------------------------------------------------------------------------
(* What the main loop and the edit writer hold is still so.                *)

\* With nothing it speaks of changed.
LEMMA MainKept ==
  ASSUME NEW f \in Files, MainPart(f), main' = main, edit' = edit,
         InProject(f)' = InProject(f), Scope(f)' = Scope(f),
         MainOn({"reuse"}, f) => cached'[f] = cached[f],
         \/ disk'[f] = disk[f] /\ events'[f] = events[f]
         \/ InProject(f) => events'[f] # "none"
  PROVE  MainPart(f)'
  <1>1. \A pcs : MainOn(pcs, f)' <=> MainOn(pcs, f)
    BY DEF MainOn
  <1>2. On(edit, f)' <=> On(edit, f)
    BY DEF On
  <1> QED
    BY <1>1, <1>2 DEF MainPart, MainOn

\* With neither at work on f.
LEMMA MainAway ==
  ASSUME NEW f \in Files, main' = Idle \/ main'.file # f, edit' = Idle \/ edit'.file # f
  PROVE  MainPart(f)'
  <1>1. main' = Idle => main'.pc = "idle"
    BY DEF Idle
  <1> QED
    BY <1>1 DEF MainPart, MainOn, On

LEMMA MainTakes ==
  ASSUME TypeOK, EventInv, DocsInv, NEW f \in Files, MainPart(f), MainLoop
  PROVE  MainPart(f)'
  <1>1. roots' = roots /\ disk' = disk /\ edit' = edit
    BY MainFrame
  <1>2. InProject(f)' = InProject(f) /\ Scope(f)' = Scope(f) /\ (On(edit, f)' <=> On(edit, f))
    BY <1>1 DEF InProject, Scope, On
  <1>3. On(edit, f)' => edit'.scope = Scope(f)'
    BY <1>1, <1>2 DEF MainPart
  <1>4. ASSUME main' = Idle \/ main'.file # f
        PROVE  MainPart(f)'
    <2>1. main' = Idle => main'.pc = "idle"
      BY DEF Idle
    <2> QED
      BY <1>3, <1>4, <2>1 DEF MainPart, MainOn
  <1>5. CASE OpenReuse \/ OpenPublish \/ CloseLoose \/ CloseUnedited \/ CloseReindex \/ PublishWatched
    BY <1>4, <1>5, OpenReuseMoves, OpenPublishMoves, CloseLooseMoves, CloseUneditedMoves,
       CloseReindexMoves, PublishWatchedMoves
  <1>6. CASE OpenScope
    <2>1. main'.pc = "publish" /\ main'.file = main.file /\ main'.scope = Scope(main.file)
      BY <1>6, OpenScopeMoves
    <2> QED
      BY <1>2, <1>3, <1>4, <2>1 DEF MainPart, MainOn
  <1>7. CASE CloseRead
    <2>1. /\ main.pc = "close" /\ main'.file = main.file /\ events' = events
          /\ main'.pc \in {"closeUnedited", "closeReindex"}
          /\ main.prior = disk[main.file] => main'.text = docs[main.file]
          /\ main.prior # disk[main.file] => main'.text = disk[main.file]
      BY <1>7, CloseReadMoves
    <2>2. main.file = f => InProject(f) /\ main.prior = docs[f]
      BY <2>1 DEF MainPart, DocsInv, MainOn
    <2> QED
      BY <1>1, <1>2, <1>3, <1>4, <2>1, <2>2 DEF MainPart, MainOn
  <1>8. ASSUME NEW g \in Files, DidClose(g)
        PROVE  MainPart(f)'
    <2>1. /\ main'.file = g
          /\ InProject(g) => main'.pc = "close"
          /\ ~InProject(g) => main'.pc = "dropLoose"
      BY <1>8, DidCloseMoves
    <2> QED
      BY <1>2, <1>3, <1>4, <2>1 DEF MainPart, MainOn
  <1>9. ASSUME NEW g \in Files, Watched(g)
        PROVE  MainPart(f)'
    <2>1. /\ InProject(g)
          /\ docs[g] # NoText => main' = Idle
          /\ docs[g] = NoText => /\ main'.pc \in {"upsert", "remove"}
                                 /\ main'.file = g /\ main'.text = disk[g]
      BY <1>9, WatchedMoves
    <2> QED
      BY <1>1, <1>2, <1>3, <1>4, <2>1 DEF MainPart, MainOn
  <1>10. ASSUME NEW g \in Files, NEW t \in Texts, DidOpen(g, t)
         PROVE  MainPart(f)'
    <2>1. /\ main'.file = g /\ main'.text = t /\ cached' = cached
          /\ cached[g] = t => main'.pc = "reuse"
          /\ cached[g] # t => main'.pc = "scope"
      BY <1>10, DidOpenMoves
    <2> QED
      BY <1>2, <1>3, <1>4, <2>1 DEF MainPart, MainOn
  <1> QED
    BY <1>5, <1>6, <1>7, <1>8, <1>9, <1>10 DEF MainLoop

LEMMA MainStep ==
  ASSUME TypeOK, EventInv, DocsInv, NEW f \in Files, f \notin raced', MainPart(f), [Next]_vars
  PROVE  MainPart(f)'
  <1>1. ASSUME NEW k \in Tasks, Starting(k)
        PROVE  MainPart(f)'
    <2>1. main' = main /\ edit' = edit /\ disk' = disk /\ cached' = cached
      BY <1>1, ReindexFrame, FoldersFrame DEF Starting
    <2>2. CASE InProject(f)' = InProject(f) /\ Scope(f)' = Scope(f)
      <3>1. events'[f] = events[f]
        <4>1. CASE Reindex(k)
          BY <4>1, ReindexFrame
        <4>2. ASSUME NEW added \in SUBSET Folders, NEW removed \in SUBSET Folders,
                     added \cap removed = {}, ChangeFolders(k, added, removed)
              PROVE  events'[f] = events[f]
          <5>1. /\ roots' = (roots \ removed) \cup added
                /\ events'[f] = IF Home[f] \in removed THEN "none" ELSE events[f]
            BY <4>2, FoldersFrame
          <5> QED
            BY <2>2, <4>2, <5>1 DEF InProject, EventInv
        <4> QED
          BY <1>1, <4>1, <4>2 DEF Starting
      <3> QED
        BY <2>1, <2>2, <3>1, MainKept
    <2>3. CASE ~On(main, f) /\ ~On(edit, f)
      BY <2>1, <2>3, MainAway DEF On
    <2> QED
      BY <1>1, <2>2, <2>3, ScopeKept
  <1>2. ASSUME NEW k \in Tasks, TaskStep(k)
        PROVE  MainPart(f)'
    <2>1. /\ roots' = roots /\ disk' = disk /\ events' = events /\ main' = main /\ edit' = edit
      BY <1>2, TaskFrame
    <2>2. MainOn({"reuse"}, f) => cached'[f] = cached[f]
      <3>1. CASE TaskDrop(k) \/ TaskPublish(k)
        BY <3>1, DropMoves, PublishMoves
      <3>2. CASE TaskLoad(k) \/ TaskRead(k) \/ TaskFilter(k) \/ TaskScopes(k) \/ TaskRoute(k)
        BY <3>2, LoadMoves, ReadMoves, FilterMoves, ScopesMoves, RouteMoves
      <3> QED
        BY <1>2, <3>1, <3>2 DEF TaskStep
    <2>3. InProject(f)' = InProject(f) /\ Scope(f)' = Scope(f)
      BY <2>1 DEF InProject, Scope
    <2> QED
      BY <2>1, <2>2, <2>3, MainKept
  <1>3. CASE MainLoop
    BY <1>3, MainTakes
  <1>4. CASE EditStep
    <2>1. /\ roots' = roots /\ disk' = disk /\ events' = events /\ main' = main /\ cached' = cached
      BY <1>4, EditFrame
    <2>2. InProject(f)' = InProject(f) /\ Scope(f)' = Scope(f)
      BY <2>1 DEF InProject, Scope
    <2>3. On(edit, f)' => edit'.scope = Scope(f)
      <3>1. CASE EditPublish
        BY <3>1, EditPublishMoves DEF On
      <3>2. ASSUME NEW g \in Files, NEW t \in Texts, EditScope(g, t)
            PROVE  On(edit, f)' => edit'.scope = Scope(f)
        BY <3>2, EditScopeMoves DEF On
      <3> QED
        BY <1>4, <3>1, <3>2 DEF EditStep
    <2> QED
      BY <2>1, <2>2, <2>3 DEF MainPart, MainOn
  <1>5. CASE DiskStep
    <2>1. roots' = roots /\ main' = main /\ edit' = edit /\ cached' = cached
      BY <1>5, DiskFrame
    <2>2. InProject(f)' = InProject(f) /\ Scope(f)' = Scope(f)
      BY <2>1 DEF InProject, Scope
    <2>3. \/ disk'[f] = disk[f] /\ events'[f] = events[f]
          \/ InProject(f) => events'[f] # "none"
      BY <1>5, DiskMoves
    <2> QED
      BY <2>1, <2>2, <2>3, MainKept
  <1>6. CASE UNCHANGED vars
    BY <1>6, MainKept DEF vars, InProject, Scope
  <1> QED
    BY <1>1, <1>2, <1>3, <1>4, <1>5, <1>6, NextSteps

-----------------------------------------------------------------------------
(* Closed files.                                                           *)

\* Nothing that concerns f has changed.
SameFile(f) ==
  /\ docs'[f] = docs[f] /\ cached'[f] = cached[f]
  /\ wsIndex'[f] = wsIndex[f] /\ looseIndex'[f] = looseIndex[f]
  /\ disk'[f] = disk[f] /\ events'[f] = events[f] /\ roots' = roots

LEMMA ClosedKept ==
  ASSUME NEW f \in Files, ClosedPart(f), SameFile(f),
         Awaited(f) => Awaited(f)', Dropping(f) => Dropping(f)',
         MainOn({"upsert", "remove"}, f) => MainOn({"upsert", "remove"}, f)'
  PROVE  ClosedPart(f)'
  BY DEF ClosedPart, SameFile, InProject

LEMMA AwaitedKept ==
  ASSUME task' = task, NEW f \in Files, disk'[f] = disk[f]
  PROVE  (Awaited(f)' <=> Awaited(f)) /\ (Dropping(f)' <=> Dropping(f))
  BY DEF Awaited, AwaitedBy, Dropping, DroppingBy

\* A step of scan k leaves what the others will bring in or drop.
LEMMA AwaitedOthers ==
  ASSUME NEW k \in Tasks, NEW f \in Files, disk'[f] = disk[f],
         \A j \in Tasks : j # k => task'[j] = task[j]
  PROVE  /\ Awaited(f) => Awaited(f)' \/ AwaitedBy(k, f)
         /\ Dropping(f) => Dropping(f)' \/ DroppingBy(k, f)
         /\ AwaitedBy(k, f)' => Awaited(f)'
         /\ DroppingBy(k, f)' => Dropping(f)'
  BY DEF Awaited, AwaitedBy, Dropping, DroppingBy

LEMMA ClosedStart ==
  ASSUME TypeOK, EventInv, NEW k \in Tasks, Starting(k), NEW f \in Files, f \notin raced',
         ClosedPart(f)
  PROVE  ClosedPart(f)'
  <1>1. ASSUME task[k].pc = "idle"
        PROVE  ~AwaitedBy(k, f) /\ ~DroppingBy(k, f)
    BY <1>1 DEF AwaitedBy, DroppingBy
  <1>2. CASE Reindex(k)
    <2>1. /\ SameFile(f) /\ main' = main /\ disk'[f] = disk[f] /\ task[k].pc = "idle"
          /\ \A j \in Tasks : j # k => task'[j] = task[j]
      BY <1>2, ReindexFrame DEF SameFile
    <2>2. (Awaited(f) => Awaited(f)') /\ (Dropping(f) => Dropping(f)')
      BY <1>1, <2>1, AwaitedOthers
    <2>3. MainOn({"upsert", "remove"}, f) => MainOn({"upsert", "remove"}, f)'
      BY <2>1 DEF MainOn
    <2> QED
      BY <2>1, <2>2, <2>3, ClosedKept
  <1>3. ASSUME NEW added \in SUBSET Folders, NEW removed \in SUBSET Folders,
               added \cap removed = {}, ChangeFolders(k, added, removed)
        PROVE  ClosedPart(f)'
    <2>0. /\ main' = main /\ disk' = disk /\ docs' = docs /\ cached' = cached
          /\ wsIndex' = wsIndex /\ looseIndex' = looseIndex
          /\ roots' = (roots \ removed) \cup added
          /\ events'[f] = IF Home[f] \in removed THEN "none" ELSE events[f]
      BY <1>3, FoldersFrame
    <2>1. /\ \A j \in Tasks : j # k => task'[j] = task[j]
          /\ task[k].pc = "idle"
          /\ task'[k].pc \in {"drop", "load"}
          /\ removed # {} => task'[k].pc = "drop" /\ task'[k].removed = removed
      <3>1. \A j \in Tasks : j # k => task'[j] = task[j]
        BY <1>3, FoldersFrame
      <3>2. task[k].pc = "idle" /\ task'[k].pc \in {"drop", "load"}
        BY <1>3, FoldersFrame
      <3>3. removed # {} => task'[k].pc = "drop" /\ task'[k].removed = removed
        BY <1>3, FoldersFrame
      <3> QED
        BY <3>1, <3>2, <3>3
    <2>2. MainOn({"upsert", "remove"}, f)' <=> MainOn({"upsert", "remove"}, f)
      BY <2>0 DEF MainOn
    <2>3. Awaited(f)' /\ (Dropping(f) => Dropping(f)')
      <3>1. AwaitedBy(k, f)'
        BY <2>1 DEF AwaitedBy
      <3> QED
        BY <1>1, <2>0, <2>1, <3>1, AwaitedOthers
    <2>4. Home[f] \in removed => Dropping(f)'
      BY <2>1 DEF Dropping, DroppingBy
    <2>5. CASE InProject(f)' = InProject(f)
      <3>1. InProject(f) => events'[f] = events[f]
        BY <1>3, <2>0, <2>5 DEF InProject
      <3> QED
        BY <2>0, <2>2, <2>3, <2>4, <2>5, <3>1 DEF ClosedPart
    <2>6. CASE InProject(f) /\ ~InProject(f)'
      BY <2>0, <2>3, <2>4, <2>6 DEF ClosedPart, InProject
    <2>7. CASE ~InProject(f) /\ InProject(f)'
      BY <2>0, <2>3, <2>4, <2>7 DEF ClosedPart
    <2> QED
      BY <2>5, <2>6, <2>7 DEF InProject
  <1> QED
    BY <1>2, <1>3 DEF Starting

LEMMA ClosedScan ==
  ASSUME TypeOK, NEW k \in Tasks, TaskStep(k), NEW f \in Files, ScanPart(f), ClosedPart(f)
  PROVE  ClosedPart(f)'
  <1>1. /\ roots' = roots /\ disk' = disk /\ events' = events /\ docs' = docs /\ main' = main
        /\ \A j \in Tasks : j # k => task'[j] = task[j]
    BY TaskFrame
  <1>2. (MainOn({"upsert", "remove"}, f)' <=> MainOn({"upsert", "remove"}, f)) /\ (InProject(f)' <=> InProject(f))
    BY <1>1 DEF MainOn, InProject
  <1>3. ASSUME cached'[f] = cached[f], wsIndex'[f] = wsIndex[f], looseIndex'[f] = looseIndex[f],
               docs[f] = NoText /\ InProject(f) /\ Awaited(f) => Awaited(f)',
               Dropping(f) => Dropping(f)'
        PROVE  ClosedPart(f)'
    BY <1>1, <1>2, <1>3 DEF ClosedPart
  <1>4. /\ task[k].pc # "drop" => (Dropping(f) => Dropping(f)')
        /\ task[k].pc \in {"scopes", "route"} => (Awaited(f) => Awaited(f)')
    BY <1>1, AwaitedOthers DEF AwaitedBy, DroppingBy
  <1>5. Awaited(f) => Awaited(f)' \/ AwaitedBy(k, f)
    BY <1>1, AwaitedOthers
  <1>6. AwaitedBy(k, f)' => Awaited(f)'
    BY DEF Awaited
  <1>7. CASE TaskDrop(k)
    <2>1. /\ task'[k].pc = "load" /\ looseIndex' = looseIndex
          /\ IF cached[f] # NoText /\ Home[f] \in task[k].removed
             THEN cached'[f] = NoText /\ wsIndex'[f] = NoText
             ELSE cached'[f] = cached[f] /\ wsIndex'[f] = wsIndex[f]
      BY <1>7, DropMoves
    <2>2. Awaited(f)'
      BY <1>6, <2>1 DEF AwaitedBy
    <2>3. Dropping(f) => Dropping(f)' \/ Home[f] \in task[k].removed
      BY <1>1, AwaitedOthers DEF DroppingBy
    <2> QED
      BY <1>1, <1>2, <2>1, <2>2, <2>3 DEF ClosedPart
  <1>8. CASE TaskLoad(k)
    <2>1. /\ task[k].pc = "load" /\ cached' = cached /\ wsIndex' = wsIndex /\ looseIndex' = looseIndex
          /\ roots # {} => task'[k].pc = "read" /\ task'[k].roots = roots
      BY <1>8, LoadMoves
    <2>2. InProject(f) => AwaitedBy(k, f)'
      BY <1>1, <2>1 DEF AwaitedBy, InProject
    <2> QED
      BY <1>3, <1>4, <1>6, <2>1, <2>2
  <1>9. CASE TaskRead(k)
    <2>1. /\ task[k].pc = "read" /\ cached' = cached /\ wsIndex' = wsIndex /\ looseIndex' = looseIndex
          /\ task'[k].pc = "filter"
          /\ task'[k].parsed[f] = IF Home[f] \in task[k].roots THEN disk[f] ELSE NoText
      BY <1>9, ReadMoves
    <2>2. AwaitedBy(k, f) => AwaitedBy(k, f)'
      BY <1>1, <2>1 DEF AwaitedBy
    <2> QED
      BY <1>3, <1>4, <1>5, <1>6, <2>1, <2>2
  <1>10. CASE TaskFilter(k)
    <2>1. /\ task[k].pc = "filter" /\ cached' = cached /\ wsIndex' = wsIndex /\ looseIndex' = looseIndex
          /\ task'[k].pc = "publish"
          /\ task'[k].parsed[f] = IF docs[f] # NoText THEN NoText ELSE task[k].parsed[f]
      BY <1>10, FilterMoves
    <2>2. docs[f] = NoText /\ AwaitedBy(k, f) => AwaitedBy(k, f)'
      BY <1>1, <2>1 DEF AwaitedBy
    <2> QED
      BY <1>3, <1>4, <1>5, <1>6, <2>1, <2>2
  <1>11. CASE TaskPublish(k)
    <2>1. /\ task[k].pc = "publish" /\ looseIndex' = looseIndex
          /\ IF task[k].parsed[f] # NoText
             THEN cached'[f] = task[k].parsed[f] /\ wsIndex'[f] = task[k].parsed[f]
             ELSE cached'[f] = cached[f] /\ wsIndex'[f] = wsIndex[f]
      BY <1>11, PublishMoves
    <2>2. CASE task[k].parsed[f] # NoText
      <3>1. HoldsText(k, f) /\ Holds(k, f)
        BY <2>1, <2>2 DEF HoldsText, Holds
      <3>2. InProject(f) /\ task[k].parsed[f] = disk[f]
        BY <2>1, <3>1 DEF ScanPart
      <3> QED
        BY <1>1, <1>2, <2>1, <2>2, <3>2 DEF ClosedPart
    <2>3. CASE task[k].parsed[f] = NoText
      <3>1. AwaitedBy(k, f) => disk[f] = NoText
        BY <2>1, <2>3 DEF AwaitedBy
      <3> QED
        BY <1>1, <1>2, <1>4, <1>5, <2>1, <2>3, <3>1 DEF ClosedPart
    <2> QED
      BY <2>2, <2>3
  <1>12. CASE TaskScopes(k)
    BY <1>3, <1>4, <1>12, ScopesMoves
  <1>13. CASE TaskRoute(k)
    <2>1. /\ task[k].pc = "route" /\ cached' = cached
          /\ docs[f] = NoText => wsIndex'[f] = wsIndex[f] /\ looseIndex'[f] = looseIndex[f]
      BY <1>13, RouteMoves
    <2> QED
      BY <1>1, <1>2, <1>4, <2>1 DEF ClosedPart
  <1> QED
    BY <1>7, <1>8, <1>9, <1>10, <1>11, <1>12, <1>13 DEF TaskStep

LEMMA ClosedMain ==
  ASSUME TypeOK, EventInv, DocsInv, MainLoop, NEW f \in Files, f \notin raced',
         MainPart(f), ClosedPart(f), OpenPart(f)
  PROVE  ClosedPart(f)'
  <1>1. task' = task /\ roots' = roots /\ disk' = disk
    BY MainFrame
  <1>2. (Awaited(f)' <=> Awaited(f)) /\ (Dropping(f)' <=> Dropping(f)) /\ (InProject(f)' <=> InProject(f))
    BY <1>1, AwaitedKept DEF InProject
  <1>3. main = Idle => main.pc = "idle"
    BY MainShape
  <1>4. ASSUME SameFile(f), MainOn({"upsert", "remove"}, f) => MainOn({"upsert", "remove"}, f)'
        PROVE  ClosedPart(f)'
    BY <1>2, <1>4, ClosedKept
  <1>5. ASSUME docs'[f] # NoText, cached'[f] = cached[f]
        PROVE  ClosedPart(f)'
    BY <1>2, <1>5 DEF ClosedPart
  <1>6. ASSUME docs[f] # NoText, ~Unrouted(f) PROVE Routed(f)
    BY <1>6 DEF OpenPart, Unrouted
  <1>7. CASE OpenReuse \/ OpenPublish
    <2>1. f = main.file => docs'[f] # NoText /\ cached'[f] = cached[f]
      <3>1. f = main.file => main.text # NoText
        BY <1>7, OpenReuseMoves, OpenPublishMoves DEF DocsInv, MainOn
      <3> QED
        BY <1>7, <3>1, OpenReuseMoves, OpenPublishMoves
    <2>2. f # main.file => SameFile(f) /\ ~MainOn({"upsert", "remove"}, f)
      BY <1>1, <1>7, OpenReuseMoves, OpenPublishMoves DEF SameFile, MainOn
    <2> QED
      BY <1>4, <1>5, <2>1, <2>2
  <1>8. CASE CloseLoose
    <2>1. CASE f = main.file
      <3>1. /\ main.pc = "dropLoose" /\ ~Unrouted(f)
            /\ docs'[f] = NoText /\ looseIndex'[f] = NoText
            /\ wsIndex' = wsIndex /\ cached' = cached
        BY <1>8, <2>1, CloseLooseMoves
      <3>2. docs[f] # NoText /\ ~InProject(f)
        BY <2>1, <3>1 DEF MainPart, DocsInv, MainOn
      <3>3. wsIndex[f] = NoText
        BY <1>6, <3>1, <3>2 DEF Routed
      <3> QED
        BY <1>2, <3>1, <3>2, <3>3 DEF ClosedPart
    <2>2. f # main.file => SameFile(f) /\ ~MainOn({"upsert", "remove"}, f)
      BY <1>1, <1>8, CloseLooseMoves DEF SameFile, MainOn
    <2> QED
      BY <1>4, <2>1, <2>2
  <1>9. CASE CloseUnedited \/ CloseReindex
    <2>1. CASE f = main.file
      <3>1. /\ main.pc \in {"closeUnedited", "closeReindex"} /\ ~Unrouted(f)
            /\ events' = events /\ looseIndex' = looseIndex
            /\ cached'[f] = main.text /\ docs'[f] = NoText
            /\ wsIndex'[f] = main.text \/ (main.pc = "closeUnedited" /\ wsIndex'[f] = wsIndex[f])
        BY <1>9, <2>1, CloseUneditedMoves, CloseReindexMoves
      <3>2. /\ docs[f] # NoText /\ InProject(f)
            /\ main.pc = "closeUnedited" => main.text = docs[f]
            /\ events[f] = "none" => main.text = disk[f]
        BY <2>1, <3>1 DEF MainPart, DocsInv, MainOn
      <3>3. wsIndex[f] = docs[f] /\ looseIndex[f] = NoText
        BY <1>6, <3>1, <3>2 DEF Routed
      <3> QED
        BY <1>1, <1>2, <3>1, <3>2, <3>3 DEF ClosedPart
    <2>2. f # main.file => SameFile(f) /\ ~MainOn({"upsert", "remove"}, f)
      BY <1>1, <1>9, CloseUneditedMoves, CloseReindexMoves DEF SameFile, MainOn
    <2> QED
      BY <1>4, <2>1, <2>2
  <1>10. CASE PublishWatched
    <2>1. CASE f = main.file
      <3>1. /\ main.pc \in {"upsert", "remove"}
            /\ events' = events /\ looseIndex' = looseIndex /\ docs' = docs
            /\ cached'[f] = main.text /\ wsIndex'[f] = main.text
        BY <1>10, <2>1, PublishWatchedMoves
      <3>2. /\ docs[f] = NoText /\ InProject(f)
            /\ events[f] = "none" => main.text = disk[f]
        BY <2>1, <3>1 DEF MainPart, DocsInv, MainOn
      <3> QED
        BY <1>1, <1>2, <3>1, <3>2 DEF ClosedPart
    <2>2. f # main.file => SameFile(f) /\ ~MainOn({"upsert", "remove"}, f)
      BY <1>1, <1>10, PublishWatchedMoves DEF SameFile, MainOn
    <2> QED
      BY <1>4, <2>1, <2>2
  <1>11. CASE OpenScope \/ CloseRead
    BY <1>1, <1>4, <1>11, OpenScopeMoves, CloseReadMoves DEF SameFile, MainOn
  <1>12. ASSUME NEW g \in Files, DidClose(g) \/ \E t \in Texts : DidOpen(g, t)
         PROVE  ClosedPart(f)'
    BY <1>1, <1>3, <1>4, <1>12, DidCloseMoves, DidOpenMoves DEF SameFile, MainOn
  <1>13. ASSUME NEW g \in Files, Watched(g)
         PROVE  ClosedPart(f)'
    <2>1. /\ main = Idle /\ InProject(g)
          /\ docs[g] = NoText => main'.pc \in {"upsert", "remove"} /\ main'.file = g
          /\ f # g => events'[f] = events[f]
          /\ docs' = docs /\ cached' = cached /\ wsIndex' = wsIndex /\ looseIndex' = looseIndex
      BY <1>13, WatchedMoves
    <2>2. CASE f # g
      BY <1>1, <1>3, <1>4, <2>1, <2>2 DEF SameFile, MainOn
    <2>3. CASE f = g
      <3>1. docs[f] = NoText => MainOn({"upsert", "remove"}, f)'
        BY <2>1, <2>3 DEF MainOn
      <3> QED
        BY <1>2, <2>1, <2>3, <3>1 DEF ClosedPart
    <2> QED
      BY <2>2, <2>3
  <1> QED
    BY <1>7, <1>8, <1>9, <1>10, <1>11, <1>12, <1>13 DEF MainLoop

LEMMA ClosedStep ==
  ASSUME TypeOK, EventInv, DocsInv, [Next]_vars, NEW f \in Files, f \notin raced', FilePart(f)
  PROVE  ClosedPart(f)'
  <1>0. ScanPart(f) /\ MainPart(f) /\ ClosedPart(f) /\ OpenPart(f)
    BY DEF FilePart
  <1>1. CASE EditStep
    <2>1. /\ task' = task /\ roots' = roots /\ disk' = disk /\ events' = events /\ main' = main
          /\ cached' = cached
      BY <1>1, EditFrame
    <2>2. (Awaited(f)' <=> Awaited(f)) /\ (Dropping(f)' <=> Dropping(f)) /\ (InProject(f)' <=> InProject(f))
      BY <2>1, AwaitedKept DEF InProject
    <2>3. MainOn({"upsert", "remove"}, f)' <=> MainOn({"upsert", "remove"}, f)
      BY <2>1 DEF MainOn
    <2>4. SameFile(f) \/ docs'[f] # NoText
      BY <1>1, <2>1, EditPublishMoves, EditScopeMoves DEF EditStep, SameFile
    <2>5. CASE SameFile(f)
      BY <1>0, <2>2, <2>3, <2>5, ClosedKept
    <2>6. CASE docs'[f] # NoText
      BY <1>0, <2>1, <2>2, <2>6 DEF ClosedPart
    <2> QED
      BY <2>4, <2>5, <2>6
  <1>2. CASE DiskStep
    <2>1. /\ task' = task /\ roots' = roots /\ main' = main
          /\ docs' = docs /\ cached' = cached /\ wsIndex' = wsIndex /\ looseIndex' = looseIndex
      BY <1>2, DiskFrame
    <2>2. \/ disk'[f] = disk[f] /\ events'[f] = events[f]
          \/ InProject(f) => events'[f] # "none"
      BY <1>2, DiskMoves
    <2>3. /\ Dropping(f)' <=> Dropping(f)
          /\ InProject(f)' <=> InProject(f)
          /\ MainOn({"upsert", "remove"}, f)' <=> MainOn({"upsert", "remove"}, f)
          /\ disk'[f] = disk[f] => (Awaited(f) => Awaited(f)')
      BY <2>1, AwaitedKept DEF Dropping, DroppingBy, InProject, MainOn
    <2> QED
      BY <1>0, <2>1, <2>2, <2>3 DEF ClosedPart
  <1>3. CASE UNCHANGED vars
    BY <1>0, <1>3, AwaitedKept, ClosedKept DEF vars, SameFile, MainOn
  <1> QED
    BY <1>0, <1>1, <1>2, <1>3, ClosedStart, ClosedScan, ClosedMain, NextSteps

-----------------------------------------------------------------------------
(* Open documents.                                                         *)

\* Scan k will route f again.
RoutingBy(k, f) == /\ task[k] # Idle
                   /\ task[k].from # "initialized"
                   /\ task[k].pc = "route" => task[k].scopes[f] # "closed"

LEMMA RoutingOthers ==
  ASSUME NEW k \in Tasks, NEW f \in Files, \A j \in Tasks : j # k => task'[j] = task[j]
  PROVE  /\ Routing(f) => Routing(f)' \/ RoutingBy(k, f)
         /\ RoutingBy(k, f)' => Routing(f)'
  BY DEF Routing, RoutingBy

LEMMA OpenKept ==
  ASSUME NEW f \in Files, OpenPart(f), InProject(f)' = InProject(f), Routing(f) => Routing(f)',
         docs'[f] = docs[f], wsIndex'[f] = wsIndex[f], looseIndex'[f] = looseIndex[f]
  PROVE  OpenPart(f)'
  <1>1. Routed(f) => Routed(f)'
    BY DEF Routed
  <1> QED
    BY <1>1 DEF OpenPart

LEMMA OpenStart ==
  ASSUME TypeOK, NEW k \in Tasks, Starting(k), NEW f \in Files
  PROVE  Routing(f)'
  <1>1. task'[k] # Idle /\ task'[k].from # "initialized" /\ task'[k].pc # "route"
    <2>1. CASE Reindex(k)
      BY <2>1, ReindexFrame DEF Idle
    <2>2. CASE ~Reindex(k)
      BY <2>2, FoldersFrame DEF Starting
    <2> QED
      BY <2>1, <2>2
  <1> QED
    BY <1>1 DEF Routing

LEMMA OpenScan ==
  ASSUME TypeOK, NEW k \in Tasks, TaskStep(k), NEW f \in Files, ScanPart(f), OpenPart(f)
  PROVE  OpenPart(f)'
  <1>1. /\ roots' = roots /\ docs' = docs
        /\ \A j \in Tasks : j # k => task'[j] = task[j]
        /\ task[k] # Idle
    BY TaskFrame
  <1>2. InProject(f)' = InProject(f)
    BY <1>1 DEF InProject
  <1>3. ASSUME task'[k] # Idle, task[k].from # "initialized", task'[k].from = task[k].from,
               task'[k].pc # "route"
        PROVE  OpenPart(f)'
    BY <1>1, <1>3, RoutingOthers DEF RoutingBy, OpenPart
  <1>4. ASSUME wsIndex'[f] = wsIndex[f], looseIndex'[f] = looseIndex[f],
               task[k].from = "initialized"
        PROVE  OpenPart(f)'
    <2>1. Routing(f) => Routing(f)'
      BY <1>1, <1>4, RoutingOthers DEF RoutingBy
    <2> QED
      BY <1>1, <1>2, <1>4, <2>1, OpenKept
  <1>5. ASSUME task'[k] = AfterIndex(k), task[k].from # "initialized"
        PROVE  OpenPart(f)'
    BY <1>1, <1>3, <1>5, EndOfIndex
  <1>6. CASE TaskDrop(k)
    BY <1>3, <1>6, DropMoves
  <1>7. CASE TaskLoad(k)
    <2>1. roots # {} => task'[k] # Idle /\ task'[k].from = task[k].from /\ task'[k].pc = "read"
      BY <1>7, LoadMoves
    <2>2. roots = {} => task'[k] = AfterIndex(k)
      BY <1>7, LoadMoves
    <2>3. wsIndex' = wsIndex /\ looseIndex' = looseIndex
      BY <1>7, LoadMoves
    <2> QED
      BY <1>3, <1>4, <1>5, <2>1, <2>2, <2>3
  <1>8. CASE TaskRead(k)
    BY <1>3, <1>4, <1>8, ReadMoves
  <1>9. CASE TaskFilter(k)
    BY <1>3, <1>4, <1>9, FilterMoves
  <1>10. CASE TaskPublish(k)
    <2>1. /\ task[k].pc = "publish" /\ task'[k] = AfterIndex(k) /\ looseIndex' = looseIndex
          /\ IF task[k].parsed[f] # NoText THEN wsIndex'[f] = task[k].parsed[f]
             ELSE wsIndex'[f] = wsIndex[f]
      BY <1>10, PublishMoves
    <2>2. CASE task[k].from = "initialized" /\ task[k].parsed[f] # NoText /\ docs[f] # NoText
      <3>1. HoldsText(k, f) /\ Holds(k, f)
        BY <2>1, <2>2 DEF HoldsText, Holds
      <3>2. InProject(f) /\ wsIndex'[f] = docs[f]
        BY <2>1, <2>2, <3>1 DEF ScanPart
      <3>3. Routing(f) => Routing(f)'
        BY <1>1, <2>2, RoutingOthers DEF RoutingBy
      <3>4. Routed(f) => Routed(f)'
        BY <1>1, <1>2, <2>1, <3>2 DEF Routed
      <3> QED
        BY <1>1, <3>3, <3>4 DEF OpenPart
    <2>3. CASE docs[f] = NoText
      BY <1>1, <2>3 DEF OpenPart
    <2> QED
      BY <1>4, <1>5, <2>1, <2>2, <2>3
  <1>11. CASE TaskScopes(k)
    <2>1. /\ docs = Nothing => task'[k] = Idle
          /\ docs # Nothing =>
               /\ task'[k].pc = "route" /\ task'[k].from = task[k].from /\ task'[k] # Idle
               /\ task'[k].scopes[f] = IF docs[f] = NoText THEN "closed" ELSE Scope(f)
          /\ task[k].from # "initialized"
      BY <1>11, ScopesMoves, TaskShape
    <2>2. CASE docs[f] = NoText
      BY <1>1, <2>2 DEF OpenPart
    <2>3. CASE docs[f] # NoText
      <3>1. docs # Nothing
        BY <2>3 DEF Nothing
      <3>2. RoutingBy(k, f)'
        BY <2>1, <2>3, <3>1 DEF RoutingBy, Scope
      <3> QED
        BY <1>1, <3>2, RoutingOthers DEF OpenPart
    <2> QED
      BY <2>2, <2>3
  <1>12. CASE TaskRoute(k)
    <2>1. /\ task[k].pc = "route"
          /\ IF task[k].scopes[f] # "closed" /\ docs[f] # NoText
             THEN /\ wsIndex'[f] = IF task[k].scopes[f] = "project" THEN docs[f] ELSE NoText
                  /\ looseIndex'[f] = IF task[k].scopes[f] = "loose" THEN docs[f] ELSE NoText
             ELSE wsIndex'[f] = wsIndex[f] /\ looseIndex'[f] = looseIndex[f]
      BY <1>12, RouteMoves
    <2>2. task[k].scopes[f] # "closed" => task[k].scopes[f] = Scope(f)
      BY <2>1 DEF ScanPart, Holds
    <2>3. CASE docs[f] # NoText /\ task[k].scopes[f] # "closed"
      <3>1. Routed(f)'
        BY <1>1, <1>2, <2>1, <2>2, <2>3 DEF Routed, Scope
      <3> QED
        BY <3>1 DEF OpenPart
    <2>4. CASE docs[f] # NoText /\ task[k].scopes[f] = "closed"
      <3>1. Routing(f) => Routing(f)'
        BY <1>1, <2>1, <2>4, RoutingOthers DEF RoutingBy
      <3> QED
        BY <1>1, <1>2, <2>1, <2>4, <3>1, OpenKept
    <2>5. CASE docs[f] = NoText
      BY <1>1, <2>5 DEF OpenPart
    <2> QED
      BY <2>3, <2>4, <2>5
  <1> QED
    BY <1>6, <1>7, <1>8, <1>9, <1>10, <1>11, <1>12 DEF TaskStep

LEMMA OpenMain ==
  ASSUME TypeOK, EventInv, DocsInv, MainLoop, NEW f \in Files,
         MainPart(f), ClosedPart(f), OpenPart(f)
  PROVE  OpenPart(f)'
  <1>1. task' = task /\ roots' = roots
    BY MainFrame
  <1>2. InProject(f)' = InProject(f) /\ (Routing(f)' <=> Routing(f))
    BY <1>1 DEF InProject, Routing
  <1>3. ASSUME docs'[f] = docs[f], wsIndex'[f] = wsIndex[f], looseIndex'[f] = looseIndex[f]
        PROVE  OpenPart(f)'
    BY <1>2, <1>3, OpenKept
  <1>4. ASSUME docs'[f] = NoText
        PROVE  OpenPart(f)'
    BY <1>4 DEF OpenPart
  <1>5. Dropping(f) => Routing(f)
    <2>1. \A k \in Tasks : task[k].pc = "drop" => task[k].from = "folders" /\ task[k] # Idle
      BY TaskShape
    <2> QED
      BY <2>1 DEF Dropping, DroppingBy, Routing
  <1>6. CASE OpenReuse
    <2>1. CASE f = main.file
      <3>1. /\ main.pc = "reuse" /\ docs'[f] = main.text
            /\ wsIndex' = wsIndex /\ looseIndex' = looseIndex
        BY <1>6, <2>1, OpenReuseMoves
      <3>2. docs[f] = NoText /\ main.text # NoText /\ main.text = cached[f]
        BY <2>1, <3>1 DEF DocsInv, MainPart, MainOn
      <3>3. CASE Dropping(f)
        BY <1>2, <1>5, <3>3 DEF OpenPart
      <3>4. CASE ~Dropping(f)
        <4>1. InProject(f) /\ wsIndex[f] = main.text /\ looseIndex[f] = NoText
          BY <3>2, <3>4 DEF ClosedPart
        <4>2. Routed(f)'
          BY <1>2, <3>1, <4>1 DEF Routed
        <4> QED
          BY <4>2 DEF OpenPart
      <3> QED
        BY <3>3, <3>4
    <2>2. CASE f # main.file
      BY <1>3, <1>6, <2>2, OpenReuseMoves
    <2> QED
      BY <2>1, <2>2
  <1>7. CASE OpenPublish
    <2>1. CASE f = main.file
      <3>1. /\ main.pc = "publish" /\ docs'[f] = main.text
            /\ wsIndex'[f] = IF main.scope = "project" THEN main.text ELSE NoText
            /\ looseIndex'[f] = IF main.scope = "loose" THEN main.text ELSE NoText
        BY <1>7, <2>1, OpenPublishMoves
      <3>2. main.scope = Scope(f)
        BY <2>1, <3>1 DEF MainPart, MainOn
      <3>3. Routed(f)'
        BY <1>2, <3>1, <3>2 DEF Routed, Scope
      <3> QED
        BY <3>3 DEF OpenPart
    <2>2. CASE f # main.file
      BY <1>3, <1>7, <2>2, OpenPublishMoves
    <2> QED
      BY <2>1, <2>2
  <1>8. CASE CloseLoose \/ CloseUnedited \/ CloseReindex
    BY <1>3, <1>4, <1>8, CloseLooseMoves, CloseUneditedMoves, CloseReindexMoves
  <1>9. CASE PublishWatched
    <2>1. f = main.file => docs'[f] = NoText
      BY <1>9, PublishWatchedMoves DEF DocsInv, MainOn
    <2> QED
      BY <1>3, <1>4, <1>9, <2>1, PublishWatchedMoves
  <1>10. CASE OpenScope \/ CloseRead
    BY <1>3, <1>10, OpenScopeMoves, CloseReadMoves
  <1>11. CASE \E g \in Files : DidClose(g) \/ Watched(g) \/ \E t \in Texts : DidOpen(g, t)
    BY <1>3, <1>11, DidCloseMoves, WatchedMoves, DidOpenMoves
  <1> QED
    BY <1>6, <1>7, <1>8, <1>9, <1>10, <1>11 DEF MainLoop

LEMMA OpenStep ==
  ASSUME TypeOK, EventInv, DocsInv, [Next]_vars, NEW f \in Files, FilePart(f)
  PROVE  OpenPart(f)'
  <1>0. ScanPart(f) /\ MainPart(f) /\ ClosedPart(f) /\ OpenPart(f)
    BY DEF FilePart
  <1>1. ASSUME NEW k \in Tasks, Starting(k)
        PROVE  OpenPart(f)'
    BY <1>1, OpenStart DEF OpenPart
  <1>2. ASSUME NEW k \in Tasks, TaskStep(k)
        PROVE  OpenPart(f)'
    BY <1>0, <1>2, OpenScan
  <1>3. CASE EditStep
    <2>1. InProject(f)' = InProject(f) /\ (Routing(f)' <=> Routing(f))
      BY <1>3, EditFrame DEF InProject, Routing
    <2>2. CASE EditPublish
      <3>1. /\ edit # Idle
            /\ docs'[f] = IF f = edit.file THEN edit.text ELSE docs[f]
            /\ wsIndex'[f] = IF f = edit.file THEN (IF edit.scope = "project" THEN edit.text ELSE NoText)
                             ELSE wsIndex[f]
            /\ looseIndex'[f] = IF f = edit.file THEN (IF edit.scope = "loose" THEN edit.text ELSE NoText)
                                ELSE looseIndex[f]
        BY <2>2, EditPublishMoves
      <3>2. CASE f = edit.file
        <4>1. edit.scope = Scope(f)
          BY <1>0, <3>1, <3>2 DEF MainPart, On
        <4>2. Routed(f)'
          BY <2>1, <3>1, <3>2, <4>1 DEF Routed, Scope
        <4> QED
          BY <4>2 DEF OpenPart
      <3>3. CASE f # edit.file
        BY <1>0, <2>1, <3>1, <3>3, OpenKept
      <3> QED
        BY <3>2, <3>3
    <2>3. CASE docs' = docs /\ wsIndex' = wsIndex /\ looseIndex' = looseIndex
      BY <1>0, <2>1, <2>3, OpenKept
    <2> QED
      BY <1>3, <2>2, <2>3, EditScopeMoves DEF EditStep
  <1>4. CASE DiskStep
    BY <1>0, <1>4, DiskFrame, OpenKept DEF InProject, Routing
  <1>5. CASE UNCHANGED vars
    BY <1>0, <1>5, OpenKept DEF vars, InProject, Routing
  <1> QED
    BY <1>0, <1>1, <1>2, <1>3, <1>4, <1>5, OpenMain, NextSteps

-----------------------------------------------------------------------------
(* The theorems.                                                           *)

LEMMA InitFiles == Init => FilesInv
  <1> SUFFICES ASSUME Init PROVE FilesInv
    OBVIOUS
  <1>1. /\ main = Idle /\ edit = Idle /\ docs = Nothing /\ cached = Nothing
        /\ wsIndex = Nothing /\ looseIndex = Nothing
        /\ events = [f \in Files |-> "none"]
        /\ Initial \in Tasks
        /\ task = [k \in Tasks |-> IF k = Initial THEN [pc |-> "load", from |-> "initialized"] ELSE Idle]
    BY TasksAssumption DEF Init
  <1>2. main.pc = "idle"
    BY <1>1 DEF Idle
  <1>3. task[Initial].pc = "load" /\ \A k \in Tasks : task[k].pc \in {"idle", "load"}
    BY <1>1 DEF Idle
  <1>4. EventInv
    BY <1>1 DEF EventInv
  <1>5. DocsInv
    BY <1>1, <1>2 DEF DocsInv, MainOn
  <1>6. ASSUME NEW f \in Files PROVE FilePart(f)
    <2>1. ScanPart(f)
      BY <1>3 DEF ScanPart, Holds, HoldsText
    <2>2. MainPart(f)
      BY <1>1, <1>2 DEF MainPart, MainOn, On
    <2>3. Awaited(f)
      BY <1>1, <1>3 DEF Awaited, AwaitedBy
    <2>4. ClosedPart(f) /\ OpenPart(f)
      BY <1>1, <2>3 DEF ClosedPart, OpenPart, Nothing
    <2> QED
      BY <2>1, <2>2, <2>4 DEF FilePart
  <1> QED
    BY <1>4, <1>5, <1>6 DEF FilesInv

LEMMA NextFiles == TypeOK /\ FilesInv /\ [Next]_vars => FilesInv'
  <1> SUFFICES ASSUME TypeOK, FilesInv, [Next]_vars PROVE FilesInv'
    OBVIOUS
  <1>1. EventInv /\ DocsInv
    BY DEF FilesInv
  <1>2. EventInv' /\ DocsInv'
    BY <1>1, EventStep, DocsStep
  <1>3. ASSUME NEW f \in Files, f \notin raced'
        PROVE  FilePart(f)'
    <2>1. FilePart(f)
      BY <1>3, RacedGrows DEF FilesInv
    <2>2. ScanPart(f) /\ MainPart(f)
      BY <2>1 DEF FilePart
    <2>3. ScanPart(f)' /\ MainPart(f)'
      BY <1>1, <1>3, <2>2, ScanStep, MainStep
    <2>4. ClosedPart(f)' /\ OpenPart(f)'
      BY <1>1, <1>3, <2>1, ClosedStep, OpenStep
    <2> QED
      BY <2>3, <2>4 DEF FilePart
  <1> QED
    BY <1>2, <1>3 DEF FilesInv

LEMMA FilesAlways == Spec => [](TypeOK /\ FilesInv)
  <1>1. Init => TypeOK /\ FilesInv
    BY InitTypes, InitFiles
  <1>2. (TypeOK /\ FilesInv) /\ [Next]_vars => (TypeOK /\ FilesInv)'
    BY NextTypes, NextFiles
  <1> QED
    BY <1>1, <1>2, PTL DEF Spec

\* Once the scans, the main loop and the edit writer are done, every open
\* document is indexed as its buffer is, in the scope its folder now gives it
\* and in no other, whatever overlapped, unless something that a step had read
\* of the file changed before the step published it (index_workspace,
\* reindex_open_documents, route_document_to_index).
THEOREM OpenAlwaysRouted == Spec => []OpenRouted
  <1>1. Quiet => \A f \in Files : ~Routing(f)
    BY DEF Quiet, Scanning, Routing
  <1>2. TypeOK /\ FilesInv => OpenRouted
    BY <1>1 DEF FilesInv, FilePart, OpenPart, OpenRouted
  <1> QED
    BY <1>2, FilesAlways, PTL

\* Once they are done and the file's events are delivered, every closed file is
\* indexed and cached as it is on disk in a workspace folder, and nowhere
\* outside, whatever overlapped and with the same exception
\* (did_change_workspace_folders, reindex_closed_file,
\* apply_watched_file_events).
THEOREM ClosedAlwaysIndexed == Spec => []ClosedIndexed
  <1>1. ASSUME TypeOK, Quiet, NEW f \in Files
        PROVE  ~Awaited(f) /\ ~Dropping(f) /\ ~MainOn({"upsert", "remove"}, f)
    <2>1. /\ \A k \in Tasks : task[k].pc = "idle"
          /\ main.pc = "idle"
      BY <1>1, TaskShape, MainShape DEF Quiet, Scanning
    <2> QED
      BY <2>1 DEF Awaited, AwaitedBy, Dropping, DroppingBy, MainOn
  <1>2. TypeOK /\ FilesInv => ClosedIndexed
    BY <1>1 DEF FilesInv, FilePart, ClosedPart, ClosedIndexed
  <1> QED
    BY <1>2, FilesAlways, PTL
=============================================================================
