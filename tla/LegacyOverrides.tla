-------------------------- MODULE LegacyOverrides --------------------------
(***************************************************************************)
(* Base scripts and the legacy scripts that replace them: fetch_config     *)
(* (config.rs), did_change_configuration (lifecycle.rs), the project       *)
(* manifests, index_base_scripts (scan.rs), refresh_legacy_override_maps   *)
(* (legacy.rs), the routing of open, closed and watched files, the two     *)
(* status notifications and the merged completion cache.                   *)
(*                                                                         *)
(* The texts of files are left out: an index is the set of files it holds  *)
(* symbols of, and where the code compares bytes either outcome is         *)
(* possible.  TextSync follows the texts, WorkspaceScan several folders.   *)
(*                                                                         *)
(* A handler is a list of steps still to do: each step reads what a later  *)
(* one uses, or publishes, stores or sends once.  Whatever the code reads  *)
(* before it takes a lock is a step of its own; loads that follow one      *)
(* another with nothing between them are one step.  The handlers of the    *)
(* main loop run one after the other, the tasks and the completion         *)
(* requests beside them.                                                   *)
(***************************************************************************)
EXTENDS Naturals, Sequences, FiniteSets

CONSTANTS
  Files,       \* script files
  Dir,         \* Dir[f]: the directory f is in
  Rel,         \* Rel[f]: the path of f below its scripts directory
  GameDir,     \* the scripts directory of the game
  SetDirs,     \* directories legacyScriptDirectories can name
  ProjectDir,  \* the directory in the workspace folder
  Unset,       \* no value, or one of the wrong type
  Settings,    \* what the client can answer to workspace/configuration
  Tasks,       \* tasks beside the main loop
  Startup,     \* the initialized handler, a member of Tasks
  Requests,    \* completion requests served at the same time
  Races,       \* settings and files change while a task runs
  Unsaved,     \* an open file can be missing on disk
  MaxInputs    \* bound on notifications and changes on disk

ASSUME DirsAssumption ==
  /\ Dir \in [Files -> SetDirs \cup {GameDir, ProjectDir}]
  /\ Settings \subseteq [game : {GameDir, Unset}, legacy : {Unset} \cup SUBSET SetDirs,
                         detect : {FALSE, Unset}]
  /\ Startup \in Tasks
  /\ Races \in BOOLEAN /\ Unsaved \in BOOLEAN /\ MaxInputs \in Nat

VARIABLES
  client,    \* the settings, the disk and the file events on their way
  server,    \* what the Backend keeps beside the compilation
  db,        \* the compilation, with the set of files each part is about
  sent,      \* sent[f]: the two statuses recorded as sent for f
  shown,     \* shown[f]: the two statuses the editor shows for f
  todo,      \* todo[a]: the steps actor a has left
  has,       \* has[a]: what it has read so far
  doc,       \* the document a handler of the main loop is about
  requests,  \* requests[r]: the snapshot completion request r works from
  slips,     \* history: what was overtaken, see Slips below
  inputs     \* notifications and changes so far

vars == <<client, server, db, sent, shown, todo, has, doc, requests, slips, inputs>>

Main   == "main"
Actors == Tasks \cup {Main}
Toml   == "witcherscript.toml"
Cache  == "cache"
Kinds  == {"legacy", "scope"}

(* A directory the settings name is neither the game's nor the workspace   *)
(* folder, and no script is the manifest.                                  *)
ASSUME DistinctAssumption ==
  /\ GameDir \notin SetDirs /\ ProjectDir \notin SetDirs /\ GameDir # ProjectDir
  /\ Main \notin Tasks /\ Toml \notin Files /\ Cache \notin Requests

In(dirs) == {f \in Files : Dir[f] \in dirs}

-----------------------------------------------------------------------------
(* Directories, scopes and pairing.                                        *)

(* effective_legacy_dirs; modSharedImports counts as one of the settings.  *)
EffectiveLegacyDirs == server.config.legacy \cup server.manifests

(* base_scripts_dir.                                                       *)
BaseDirs == {server.config.game} \ {Unset}

Scopes == {"inProject", "legacyOverride", "legacyNew", "additionalBase", "outOfScope"}

(* classify_file_scope: the workspace folder first, legacy before base.    *)
FileScope(f) ==
  IF Dir[f] = ProjectDir THEN "inProject"
  ELSE IF Dir[f] \in EffectiveLegacyDirs
       THEN IF f \in server.replacements THEN "legacyOverride" ELSE "legacyNew"
  ELSE IF Dir[f] \in BaseDirs THEN "additionalBase"
  ELSE "outOfScope"

IsLoose(f) == FileScope(f) = "outOfScope"
IsBase(f)  == FileScope(f) = "additionalBase"

(* The index route_document_to_index puts a document of that scope in.     *)
Index(scope) == CASE scope = "additionalBase" -> "base"
                  [] scope = "outOfScope" -> "loose"
                  [] OTHER -> "ws"

(* legacy_base_replacements: both halves of the pairing.                   *)
Replaced(base, legacy)  == {b \in base : \E l \in legacy : Rel[l] = Rel[b]}
Replacing(base, legacy) == {l \in legacy : \E b \in base : Rel[l] = Rel[b]}

-----------------------------------------------------------------------------
(* The lists of steps.                                                     *)

RefreshMaps == <<"pair", "suppress", "replace", "catalogs", "forget">>

ScopeStatus == <<"scope", "record", "notify">>

\* Variant: the scope status is forgotten.
StatusesLegacy == <<"legacy", "record", "notify">>

Statuses == <<"legacy", "record", "notify">> \o ScopeStatus
IndexBase  == <<"plan", "read", "publish", "replace", "openBase", "merge", "catalogs",
                "forget", "open", "sync", "stale", "prune">> \o Statuses
NoBase     == <<"publish", "replace", "catalogs", "forget", "stale", "prune">> \o Statuses
Reindex    == <<"walk", "filter", "index", "discover", "manifests">> \o IndexBase
Fetch      == <<"ask", "answer", "store">>
OnStartup  == Fetch \o Reindex \o <<"ready">>
OnSettings == Reindex \o <<"scopes", "reroute">> \o ScopeStatus

(* An answer Unset leaves the game directory, and resets the other two.    *)
Parsed(prev, answer) ==
  [game   |-> IF answer.game = Unset THEN prev.game ELSE answer.game,
   legacy |-> IF answer.legacy = Unset THEN {} ELSE answer.legacy,
   detect |-> answer.detect # FALSE]

NoConfig == [game |-> Unset, legacy |-> {}, detect |-> TRUE]

NoStatus == [kind \in Kinds |-> Unset]

(* What an actor can have read: configurations, directories, files, and    *)
(* for some documents a scope or a status.                                 *)
Blank == [prev |-> NoConfig, next |-> Unset, ready |-> FALSE, dirs |-> {}, baseDirs |-> {},
          base |-> {}, legacy |-> {}, files |-> {}, index |-> "ws", kind |-> "scope",
          of |-> [f \in {} |-> "inProject"]]

(* Slips: what another actor overtook.  No step depends on it.             *)
(*   late      requests whose snapshot is older than the catalogs, and the *)
(*             completion cache once such a request has filled it          *)
(*   passed    status senders that looked before another one recorded      *)
(*   astray    statuses last recorded or sent by such a sender             *)
(*   outdated  documents put in an index their scope had left              *)
(*   crossed   the maps were last refreshed by two actors at once          *)
NoSlips == [late |-> {}, passed |-> {}, astray |-> {}, outdated |-> {}, crossed |-> FALSE]

(* initialize takes the settings from initializationOptions.               *)
Init ==
  /\ client \in [settings : Settings, toml : BOOLEAN, events : {{}},
                 disk : {fs \in SUBSET Files : Files \ In({ProjectDir}) \subseteq fs}]
  /\ server = [config |-> Parsed(NoConfig, client.settings), manifests |-> {},
               replacements |-> {}, cache |-> Unset, ready |-> FALSE]
  /\ db = [docs |-> {}, ws |-> {}, wsDocs |-> {}, base |-> {}, baseDocs |-> {}, loose |-> {},
           suppressed |-> {}, catalogs |-> {}]
  /\ sent = [f \in Files |-> NoStatus]
  /\ shown = [f \in Files |-> NoStatus]
  /\ todo = [a \in Actors |-> IF a = Startup THEN OnStartup ELSE <<>>]
  /\ has = [a \in Actors |-> Blank]
  /\ doc = Unset
  /\ requests = [r \in Requests |-> Unset]
  /\ slips = NoSlips
  /\ inputs = 0

Busy(a) == todo[a] # <<>>
Quiet   == \A a \in Actors : ~Busy(a)

(* One more notification, request or change.  Without races, settings and  *)
(* files change and legacy scripts are opened and closed only between      *)
(* tasks; other documents are opened and closed, and completion requests   *)
(* take their snapshots, at any time.                                      *)
Input     == inputs < MaxInputs /\ inputs' = inputs + 1
Change    == Input /\ (Races \/ Quiet)
Handle(f) == Input /\ ~Busy(Main) /\ (Races \/ Quiet \/ Dir[f] \notin EffectiveLegacyDirs)

(* The next step of a, and what it may do: keep something, change the      *)
(* server's own state, publish a compilation.                              *)
At(a, step)     == Busy(a) /\ Head(todo[a]) = step
Goto(a, steps)  == todo' = [todo EXCEPT ![a] = steps]
Done(a)         == Goto(a, Tail(todo[a]))
Keep(a, data)   == has' = [has EXCEPT ![a] = data] /\ UNCHANGED <<server, db, sent, shown, doc, slips>>
Assign(s)       == server' = s /\ UNCHANGED <<db, sent, shown, has, doc, slips>>
PublishDb(next) == db' = next /\ UNCHANGED <<server, sent, shown, has, doc, slips>>

-----------------------------------------------------------------------------
(* Settings.                                                               *)

(* fetch_config reads the configuration it compares with before it asks,   *)
(* did_change_configuration initial_index_done.                            *)
Ask(a) ==
  /\ At(a, "ask") /\ Done(a)
  /\ Keep(a, [Blank EXCEPT !.prev = server.config, !.ready = server.ready])

(* The client answers with its settings, or the request fails.             *)
Answer(a) ==
  /\ At(a, "answer") /\ Done(a)
  /\ \E next \in {Unset, Parsed(has[a].prev, client.settings)} : Keep(a, [has[a] EXCEPT !.next = next])

(* What follows.  Before initial_index_done a change is an echo of the     *)
(* startup.                                                                *)
Fetched(read) ==
  IF ~read.ready THEN <<>> ELSE IF read.next \in {Unset, read.prev} THEN ScopeStatus ELSE OnSettings

Store(a) ==
  /\ At(a, "store")
  /\ Goto(a, Fetched(has[a]) \o Tail(todo[a]))
  /\ server' = IF has[a].next = Unset THEN server ELSE [server EXCEPT !.config = has[a].next]
  /\ has' = [has EXCEPT ![a] = Blank]
  /\ UNCHANGED <<db, sent, shown, doc, slips>>

-----------------------------------------------------------------------------
(* Indexing.                                                               *)

(* index_workspace: the walk, what of it is not open, and the publish.     *)
Walk(a) ==
  /\ At(a, "walk") /\ Done(a)
  /\ Keep(a, [Blank EXCEPT !.files = client.disk \cap In({ProjectDir})])

Filter(a) ==
  /\ At(a, "filter") /\ Done(a)
  /\ Keep(a, [Blank EXCEPT !.files = has[a].files \ db.docs])

IndexFound(a) ==
  /\ At(a, "index") /\ Done(a)
  /\ PublishDb([db EXCEPT !.ws = @ \cup has[a].files, !.wsDocs = @ \cup has[a].files])

(* discover_manifests and parse_manifest, and the map stored.              *)
Discovered == IF server.config.detect /\ client.toml THEN {ProjectDir} ELSE {}

Discover(a) ==
  /\ At(a, "discover") /\ Done(a)
  /\ Keep(a, [Blank EXCEPT !.dirs = Discovered])

StoreManifests(a) ==
  /\ At(a, "manifests") /\ Done(a)
  /\ Assign([server EXCEPT !.manifests = has[a].dirs])

(* Between the first read of a refresh of the maps and its last publish.   *)
Refreshing(a) ==
  Busy(a) /\ Head(todo[a]) \in {"read", "publish", "openBase", "merge", "open", "sync", "stale", "prune",
                                "suppress", "replace", "catalogs", "forget"}

StartRefresh(a, data) ==
  /\ has' = [has EXCEPT ![a] = data]
  /\ slips' = [slips EXCEPT !.crossed = \E b \in Actors \ {a} : Refreshing(b)]
  /\ UNCHANGED <<server, db, sent, shown, doc>>

(* index_base_scripts up to the blocking task; without directories there   *)
(* is nothing to read.                                                     *)
Plan(a) ==
  /\ At(a, "plan")
  /\ IF BaseDirs \cup EffectiveLegacyDirs = {}
     THEN Goto(a, NoBase \o SubSeq(todo[a], Len(IndexBase) + 1, Len(todo[a])))
     ELSE Done(a)
  /\ StartRefresh(a, [Blank EXCEPT !.baseDirs = BaseDirs, !.dirs = EffectiveLegacyDirs])

Read(a) ==
  /\ At(a, "read") /\ Done(a)
  /\ Keep(a, [Blank EXCEPT !.base = client.disk \cap In(has[a].baseDirs),
                            !.legacy = client.disk \cap In(has[a].dirs)])

Publish(a) ==
  /\ At(a, "publish") /\ Done(a)
  /\ PublishDb([db EXCEPT !.base = has[a].base, !.baseDocs = has[a].base,
                          !.suppressed = Replaced(has[a].base, has[a].legacy)])

Replace(a) ==
  /\ At(a, "replace") /\ Done(a)
  /\ Assign([server EXCEPT !.replacements = Replacing(has[a].base, has[a].legacy)])

(* merge_open_base_documents: the open base scripts go back in.            *)
OpenBase(a) ==
  /\ At(a, "openBase") /\ Done(a)
  /\ Keep(a, [Blank EXCEPT !.legacy = has[a].legacy, !.files = {f \in db.docs : IsBase(f)}])

Merge(a) ==
  /\ At(a, "merge") /\ Done(a)
  /\ PublishDb([db EXCEPT !.base = @ \cup has[a].files])

(* sync_legacy_workspace_from_parsed: what is open is left alone.          *)
Open(a) ==
  /\ At(a, "open") /\ Done(a)
  /\ Keep(a, [Blank EXCEPT !.legacy = has[a].legacy, !.files = db.docs])

\* Variant: legacy scripts stay in the base index only.
SyncNothing(a) ==
  /\ At(a, "sync") /\ Done(a)
  /\ PublishDb(db)

Sync(a) ==
  /\ At(a, "sync") /\ Done(a)
  /\ LET found == has[a].legacy \ has[a].files
     IN PublishDb([db EXCEPT !.ws = @ \cup found, !.wsDocs = @ \cup found])

(* prune_stale_legacy_workspace_files, of the directories that are legacy  *)
(* now.                                                                    *)
Stale(a) ==
  /\ At(a, "stale") /\ Done(a)
  /\ Keep(a, [Blank EXCEPT !.files = (db.wsDocs \cap In(EffectiveLegacyDirs)) \ (db.docs \cup has[a].legacy)])

Prune(a) ==
  /\ At(a, "prune") /\ Done(a)
  /\ PublishDb([db EXCEPT !.ws = @ \ has[a].files, !.wsDocs = @ \ has[a].files])

(* route_document_to_index: every document of scopes to the index of its   *)
(* scope.                                                                  *)
Put(scopes, index) == {f \in DOMAIN scopes : Index(scopes[f]) = index}

Routed(scopes) ==
  LET fs == DOMAIN scopes
  IN [db EXCEPT !.base  = (@ \ fs) \cup Put(scopes, "base"),
                !.loose = (@ \ fs) \cup Put(scopes, "loose"),
                !.ws    = (@ \ fs) \cup Put(scopes, "ws")]

ScopesOf(fs) == [f \in fs |-> FileScope(f)]

Outdated(scopes) ==
  (slips.outdated \ DOMAIN scopes) \cup {f \in DOMAIN scopes : Index(scopes[f]) # Index(FileScope(f))}

(* reindex_open_documents routes the documents still open.                 *)
ReadScopes(a) ==
  /\ At(a, "scopes") /\ Done(a)
  /\ Keep(a, [Blank EXCEPT !.of = ScopesOf(db.docs)])

Reroute(a) ==
  /\ At(a, "reroute") /\ Done(a)
  /\ LET scopes == [f \in DOMAIN has[a].of \cap db.docs |-> has[a].of[f]]
     IN db' = Routed(scopes) /\ slips' = [slips EXCEPT !.outdated = Outdated(scopes)]
  /\ UNCHANGED <<server, sent, shown, has, doc>>

Ready(a) ==
  /\ At(a, "ready") /\ Done(a)
  /\ Assign([server EXCEPT !.ready = TRUE])

-----------------------------------------------------------------------------
(* The override maps, the catalogs and the completion cache.               *)

(* Open legacy files count: they are in workspace_index.                   *)
Pair(a) ==
  /\ At(a, "pair") /\ Done(a)
  /\ StartRefresh(a, [Blank EXCEPT !.base = db.baseDocs, !.legacy = db.ws \cap In(EffectiveLegacyDirs)])

Suppress(a) ==
  /\ At(a, "suppress") /\ Done(a)
  /\ PublishDb([db EXCEPT !.suppressed = Replaced(has[a].base, has[a].legacy)])

(* rebuild_filtered_base_catalogs publishes, and then drops the completion *)
(* caches.                                                                 *)
Catalogs(a) ==
  /\ At(a, "catalogs") /\ Done(a)
  /\ PublishDb([db EXCEPT !.catalogs = db.suppressed])

\* Variant: the completion cache is kept.
ForgetNothing(a) ==
  /\ At(a, "forget") /\ Done(a)
  /\ Assign(server)

Waiting == {r \in Requests : requests[r] # Unset}

Forget(a) ==
  /\ At(a, "forget") /\ Done(a)
  /\ server' = [server EXCEPT !.cache = Unset]
  /\ slips' = [slips EXCEPT !.late = Waiting]
  /\ UNCHANGED <<db, sent, shown, has, doc>>

(* A completion request takes its handles from the snapshot at hand, on a  *)
(* blocking thread beside everything else.                                 *)
Handles == [ws |-> db.ws, base |-> db.base, suppressed |-> db.suppressed, catalogs |-> db.catalogs]

TakeHandles(r) ==
  /\ Input /\ requests[r] = Unset
  /\ requests' = [requests EXCEPT ![r] = Handles]
  /\ slips' = [slips EXCEPT !.late = @ \ {r}]
  /\ UNCHANGED <<client, server, db, sent, shown, todo, has, doc>>

(* merged_completion_cache, under the lock of the slot: the cached list is *)
(* taken when it is of the same two index surfaces, else built and kept.   *)
Hits(handles) == server.cache # Unset /\ server.cache.ws = handles.ws /\ server.cache.base = handles.base

Complete(r) ==
  /\ requests[r] # Unset
  /\ requests' = [requests EXCEPT ![r] = Unset]
  /\ IF Hits(requests[r])
     THEN /\ slips' = [slips EXCEPT !.late = @ \ {r}]
          /\ UNCHANGED server
     ELSE /\ server' = [server EXCEPT !.cache = requests[r]]
          /\ slips' = [slips EXCEPT !.late = IF r \in @ THEN (@ \ {r}) \cup {Cache} ELSE @ \ {Cache}]
  /\ UNCHANGED <<client, db, sent, shown, todo, has, doc, inputs>>

-----------------------------------------------------------------------------
(* Status notifications: what the senders read, what differs under the     *)
(* lock from the last one sent, and the notifications after it.            *)

StatusOf(f) == [legacy |-> f \in server.replacements, scope |-> FileScope(f)]

Look(a) ==
  /\ \E kind \in Kinds :
       /\ At(a, kind)
       /\ has' = [has EXCEPT ![a] = [Blank EXCEPT !.kind = kind, !.of = [f \in db.docs |-> StatusOf(f)[kind]]]]
  /\ Done(a)
  /\ slips' = [slips EXCEPT !.passed = @ \ {a}]
  /\ UNCHANGED <<server, db, sent, shown, doc>>

Sending == {a \in Actors : Busy(a) /\ Head(todo[a]) \in {"record", "notify"}}

With(statuses, a) ==
  [f \in Files |-> IF f \in DOMAIN has[a].of THEN [statuses[f] EXCEPT ![has[a].kind] = has[a].of[f]]
                   ELSE statuses[f]]

Astray(a, fs) ==
  LET those == fs \X {has[a].kind}
  IN IF a \in slips.passed THEN slips.astray \cup those ELSE slips.astray \ those

Record(a) ==
  /\ At(a, "record") /\ Done(a)
  /\ LET kind == has[a].kind
         new  == {f \in DOMAIN has[a].of : sent[f][kind] # has[a].of[f]}
     IN /\ sent' = With(sent, a)
        /\ has' = [has EXCEPT ![a].of = [f \in new |-> @[f]]]
        /\ slips' = [slips EXCEPT !.astray = Astray(a, new),
                                  !.passed = @ \cup {b \in Sending \ {a} : has[b].kind = kind}]
  /\ UNCHANGED <<server, db, shown, doc>>

Notify(a) ==
  /\ At(a, "notify") /\ Done(a)
  /\ shown' = With(shown, a)
  /\ slips' = [slips EXCEPT !.astray = Astray(a, DOMAIN has[a].of), !.passed = @ \ {a}]
  /\ has' = [has EXCEPT ![a] = Blank]
  /\ UNCHANGED <<server, db, sent, doc>>

-----------------------------------------------------------------------------
(* The main loop.                                                          *)

IfLegacy(f, steps) == IF Dir[f] \in EffectiveLegacyDirs THEN steps ELSE <<>>

(* did_open forgets the statuses sent before.  The bytes are those of a    *)
(* parse at hand, or the document is parsed and routed.                    *)
DidOpen(f) ==
  /\ Handle(f) /\ f \notin db.docs
  /\ f \in client.disk \/ Unsaved
  /\ sent' = [sent EXCEPT ![f] = NoStatus]
  /\ doc' = f
  /\ \/ f \in db.wsDocs \cup db.baseDocs /\ Goto(Main, <<"reuse">> \o Statuses)
     \/ Goto(Main, <<"scopeOf", "route">> \o IfLegacy(f, RefreshMaps) \o Statuses)
  /\ UNCHANGED <<client, server, db, shown, has, requests, slips>>

Reuse(a) ==
  /\ At(a, "reuse") /\ Done(a)
  /\ PublishDb([db EXCEPT !.docs = @ \cup {doc}])

(* publish_open_document_indices reads the scope before the writer lock.   *)
ScopeOf(a) ==
  /\ At(a, "scopeOf") /\ Done(a)
  /\ Keep(a, [Blank EXCEPT !.of = ScopesOf({doc})])

Route(a) ==
  /\ At(a, "route") /\ Done(a)
  /\ db' = [Routed(has[a].of) EXCEPT !.docs = @ \cup {doc}]
  /\ slips' = [slips EXCEPT !.outdated = Outdated(has[a].of)]
  /\ has' = [has EXCEPT ![a] = Blank]
  /\ UNCHANGED <<server, sent, shown, doc>>

AfterClose == ScopeStatus \o <<"closed">>

(* did_close: a loose file is dropped; one as the disk has it leaves its   *)
(* parse behind; another is read again, and a legacy one then refreshes    *)
(* the maps.                                                               *)
DidClose(f) ==
  /\ Handle(f) /\ f \in db.docs
  /\ Goto(Main, (IF IsLoose(f) THEN <<"dropLoose">> ELSE <<"readClosed">>) \o AfterClose)
  /\ shown' = [shown EXCEPT ![f] = NoStatus]
  /\ doc' = f
  /\ UNCHANGED <<client, server, db, sent, has, requests, slips>>

LeftIn(index) ==
  slips' = [slips EXCEPT !.outdated = IF Index(FileScope(doc)) = index THEN @ ELSE @ \cup {doc}]

DropLoose(a) ==
  /\ At(a, "dropLoose") /\ Done(a)
  /\ db' = [db EXCEPT !.docs = @ \ {doc}, !.loose = @ \ {doc}]
  /\ LeftIn("loose")
  /\ UNCHANGED <<server, sent, shown, has, doc>>

DocsOf(index) == IF index = "base" THEN "baseDocs" ELSE "wsDocs"

(* reindex_closed_file up to its publish: the index, the disk, and for an  *)
(* unedited buffer whether the parse kept is older.                        *)
ReadClosed(a) ==
  /\ At(a, "readClosed")
  /\ LET index == IF IsBase(doc) THEN "base" ELSE "ws"
     IN \/ /\ doc \in client.disk
           /\ Goto(a, <<"keepParse">> \o Tail(todo[a]))
           /\ \E kept \in {{doc}} \cup {{} : f \in {doc} \cap db[DocsOf(index)]} :
                Keep(a, [Blank EXCEPT !.index = index, !.files = kept])
        \/ /\ Goto(a, <<"reindexClosed", "ifLegacy">> \o Tail(todo[a]))
           /\ Keep(a, [Blank EXCEPT !.index = index, !.files = {doc} \cap client.disk])

KeepParse(a) ==
  /\ At(a, "keepParse") /\ Done(a)
  /\ db' = [db EXCEPT !.docs = @ \ {doc}, ![DocsOf(has[a].index)] = @ \cup has[a].files]
  /\ LeftIn(has[a].index)
  /\ UNCHANGED <<server, sent, shown, has, doc>>

ReindexClosed(a) ==
  /\ At(a, "reindexClosed") /\ Done(a)
  /\ db' = [db EXCEPT !.docs = @ \ {doc},
                      ![has[a].index] = (@ \ {doc}) \cup has[a].files,
                      ![DocsOf(has[a].index)] = (@ \ {doc}) \cup has[a].files]
  /\ LeftIn(has[a].index)
  /\ UNCHANGED <<server, sent, shown, has, doc>>

RefreshIfLegacy(a) ==
  /\ At(a, "ifLegacy")
  /\ Goto(a, IfLegacy(doc, RefreshMaps) \o Tail(todo[a]))
  /\ UNCHANGED <<server, db, sent, shown, has, doc, slips>>

Closed(a) ==
  /\ At(a, "closed") /\ Done(a)
  /\ sent' = [sent EXCEPT ![doc].scope = Unset]
  /\ UNCHANGED <<server, db, shown, has, doc, slips>>

(* apply_watched_file_events on a script of the workspace folder: what is  *)
(* open is left alone, the rest is read from disk and published.           *)
WatchedScript(f) ==
  /\ ~Busy(Main) /\ (Races \/ Quiet)
  /\ f \in client.events
  /\ client' = [client EXCEPT !.events = @ \ {f}]
  /\ IF f \in db.docs THEN UNCHANGED <<todo, has, doc>>
     ELSE /\ Goto(Main, <<"watched">> \o IfLegacy(f, RefreshMaps \o Statuses))
          /\ has' = [has EXCEPT ![Main] = [Blank EXCEPT !.files = {f} \cap client.disk]]
          /\ doc' = f
  /\ UNCHANGED <<server, db, sent, shown, requests, slips, inputs>>

PublishWatched(a) ==
  /\ At(a, "watched") /\ Done(a)
  /\ PublishDb([db EXCEPT !.ws = (@ \ {doc}) \cup has[a].files, !.wsDocs = (@ \ {doc}) \cup has[a].files])

\* Variant: the maps are left to the reindexing task, which is not started.
AfterManifestNothing == <<>>

(* A changed set of directories refreshes the maps at once, and starts     *)
(* index_base_scripts.                                                     *)
AfterManifest == RefreshMaps \o Statuses \o <<"spawn">>

WatchedManifest ==
  /\ ~Busy(Main) /\ (Races \/ Quiet)
  /\ Toml \in client.events
  /\ client' = [client EXCEPT !.events = @ \ {Toml}]
  /\ has' = [has EXCEPT ![Main] = [Blank EXCEPT !.baseDirs = server.manifests, !.dirs = Discovered]]
  /\ Goto(Main, <<"manifest">>)
  /\ UNCHANGED <<server, db, sent, shown, doc, requests, slips, inputs>>

(* apply_manifest_event stores what it parsed, and compares with what it   *)
(* read before.                                                            *)
StoreManifest(a) ==
  /\ At(a, "manifest")
  /\ Goto(a, (IF has[a].baseDirs = has[a].dirs THEN <<>> ELSE AfterManifest) \o Tail(todo[a]))
  /\ Assign([server EXCEPT !.manifests = has[a].dirs])

Spawn(k) ==
  /\ At(Main, "spawn") /\ ~Busy(k)
  /\ todo' = [todo EXCEPT ![Main] = Tail(@), ![k] = IndexBase]
  /\ UNCHANGED <<client, server, db, sent, shown, has, doc, requests, slips, inputs>>

-----------------------------------------------------------------------------
(* The client: settings, and scripts and a manifest that appear and go.    *)

ChangeSettings(k, s) ==
  /\ Change /\ ~Busy(k)
  /\ client.settings # s
  /\ client' = [client EXCEPT !.settings = s]
  /\ Goto(k, Fetch)
  /\ UNCHANGED <<server, db, sent, shown, has, doc, requests, slips>>

FileChange(f) ==
  /\ Change /\ Dir[f] = ProjectDir
  /\ f \notin db.docs \/ Unsaved
  /\ client' = [client EXCEPT !.disk = (@ \ {f}) \cup ({f} \ @), !.events = @ \cup {f}]
  /\ UNCHANGED <<server, db, sent, shown, todo, has, doc, requests, slips>>

ManifestChange ==
  /\ Change
  /\ client' = [client EXCEPT !.toml = ~@, !.events = @ \cup {Toml}]
  /\ UNCHANGED <<server, db, sent, shown, todo, has, doc, requests, slips>>

-----------------------------------------------------------------------------
Step(a) ==
  /\ \/ Ask(a) \/ Answer(a) \/ Store(a)
     \/ Walk(a) \/ Filter(a) \/ IndexFound(a) \/ Discover(a) \/ StoreManifests(a)
     \/ Plan(a) \/ Read(a) \/ Publish(a) \/ Replace(a) \/ OpenBase(a) \/ Merge(a)
     \/ Open(a) \/ Sync(a) \/ Stale(a) \/ Prune(a) \/ ReadScopes(a) \/ Reroute(a) \/ Ready(a)
     \/ Pair(a) \/ Suppress(a) \/ Catalogs(a) \/ Forget(a)
     \/ Look(a) \/ Record(a) \/ Notify(a)
     \/ Reuse(a) \/ ScopeOf(a) \/ Route(a)
     \/ DropLoose(a) \/ ReadClosed(a) \/ KeepParse(a) \/ ReindexClosed(a) \/ RefreshIfLegacy(a)
     \/ Closed(a) \/ PublishWatched(a) \/ StoreManifest(a)
  /\ UNCHANGED <<client, requests, inputs>>

MainLoop == WatchedManifest \/ \E f \in Files : DidOpen(f) \/ DidClose(f) \/ WatchedScript(f)

World == ManifestChange \/ \E f \in Files : FileChange(f)

Next == \/ \E a \in Actors : Step(a)
        \/ \E k \in Tasks : Spawn(k) \/ \E s \in Settings : ChangeSettings(k, s)
        \/ \E r \in Requests : TakeHandles(r) \/ Complete(r)
        \/ MainLoop
        \/ World

Spec == Init /\ [][Next]_vars

-----------------------------------------------------------------------------
(* Properties.                                                             *)

Dirs    == SetDirs \cup {GameDir, ProjectDir}
Configs == [game : {GameDir, Unset}, legacy : SUBSET SetDirs, detect : BOOLEAN]
Lists   == [ws : SUBSET Files, base : SUBSET Files, suppressed : SUBSET Files, catalogs : SUBSET Files]
Shown   == [legacy : BOOLEAN \cup {Unset}, scope : Scopes \cup {Unset}]

StepNames ==
  {"ask", "answer", "store", "walk", "filter", "index", "discover", "manifests",
   "plan", "read", "publish", "replace", "openBase", "merge", "catalogs", "forget",
   "open", "sync", "stale", "prune", "scopes", "reroute", "ready", "pair", "suppress",
   "legacy", "scope", "record", "notify", "reuse", "scopeOf", "route", "dropLoose",
   "readClosed", "keepParse", "reindexClosed", "ifLegacy", "closed", "watched",
   "manifest", "spawn"}

Maps(values) == UNION {[fs -> values] : fs \in SUBSET Files}
Reads(kind, values) ==
  [prev : Configs, next : Configs \cup {Unset}, ready : BOOLEAN,
   dirs : SUBSET Dirs, baseDirs : SUBSET Dirs,
   base : SUBSET Files, legacy : SUBSET Files, files : SUBSET Files,
   index : {"ws", "base"}, kind : {kind}, of : Maps(values)]
Memory == Reads("legacy", BOOLEAN) \cup Reads("scope", Scopes)

Servers == [config : Configs, manifests : SUBSET Dirs, replacements : SUBSET Files,
            cache : Lists \cup {Unset}, ready : BOOLEAN]
Dbs     == [docs : SUBSET Files, ws : SUBSET Files, wsDocs : SUBSET Files, base : SUBSET Files,
            baseDocs : SUBSET Files, loose : SUBSET Files, suppressed : SUBSET Files,
            catalogs : SUBSET Files]
History == [late : SUBSET (Requests \cup {Cache}), passed : SUBSET Actors,
            astray : SUBSET (Files \X Kinds), outdated : SUBSET Files, crossed : BOOLEAN]

\* Types: what an actor has read is of the kind its steps use, and a
\* completion list is a list or there is none.
TypeOK ==
  /\ client \in [settings : Settings, toml : BOOLEAN, events : SUBSET (Files \cup {Toml}),
                 disk : SUBSET Files]
  /\ server \in Servers /\ db \in Dbs
  /\ sent \in [Files -> Shown] /\ shown \in [Files -> Shown]
  /\ todo \in [Actors -> Seq(StepNames)] /\ has \in [Actors -> Memory] /\ doc \in Files \cup {Unset}
  /\ requests \in [Requests -> Lists \cup {Unset}]
  /\ slips \in History
  /\ inputs \in 0 .. MaxInputs

Settled == Quiet /\ client.events = {}

\* Once the server is at rest, a base script is suppressed exactly when a
\* legacy script of the same relative path is indexed from a directory that
\* is a legacy one now, and the replacements are those legacy scripts
\* (index_base_scripts, refresh_legacy_override_maps).
Paired ==
  Settled /\ ~slips.crossed /\ slips.outdated = {} => LET legacy == db.ws \cap In(EffectiveLegacyDirs)
             IN /\ db.suppressed = Replaced(db.baseDocs, legacy)
                /\ server.replacements = Replacing(db.baseDocs, legacy)
                /\ db.catalogs = db.suppressed

\* At rest, the editor shows of every open file the status it has, unless
\* the sender that sent it last had been overtaken by another one
\* (publish_legacy_script_status, publish_file_scope_status).
StatusCurrent ==
  Settled => \A f \in db.docs, kind \in Kinds :
               <<f, kind>> \in slips.astray \/ shown[f][kind] = StatusOf(f)[kind]

\* At rest, the base scripts are those of the configured directory, the
\* open ones included, and every legacy script on disk is in the workspace
\* index (index_base_scripts, sync_legacy_workspace_from_parsed); a
\* document routed by a scope that had changed meanwhile is left out.
BaseFollows ==
  Settled /\ server.ready =>
    /\ db.base \ slips.outdated = In(BaseDirs) \ slips.outdated
    /\ client.disk \cap In(EffectiveLegacyDirs) \subseteq db.ws \cup slips.outdated

\* At rest, the completion list a request would take from the cache hides
\* the base scripts that are suppressed now, unless a request that took its
\* snapshot before the catalogs changed has filled it since
\* (rebuild_filtered_base_catalogs, merged_completion_cache).
CompletionCurrent == Settled /\ Hits(Handles) /\ Cache \notin slips.late => server.cache = Handles

=============================================================================
