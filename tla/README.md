# A TLA+ verification of the WitcherScript language server

The repository is a Rust library and LSP server for WitcherScript. The library
parses documents, indexes symbols, resolves names, formats and refactors; the
server (`src/bin/witcherscript-lsp`) keeps the library's data in step with an
editor, a file system and a client that pulls diagnostics. The modules model
the server's concurrent core and, over abstract syntax trees, what the library
computes: symbols, indexes, name resolution, diagnostics, references, renames
and refactorings. Paths below are relative to `src/src/`; `lsp/` stands for
`bin/witcherscript-lsp/`.

## 1. Inventory

### 1.1 Who runs

| Party | Code | What it does |
|---|---|---|
| main loop | `lsp/main.rs`, `lsp/text_sync.rs`, `lsp/watcher.rs` | handles did_open, did_change, did_close and watched-file notifications one at a time, in order |
| edit writer | `lsp/edit_queue.rs` `run_edit_writer` | parses queued edits and publishes them |
| scan tasks | `lsp/indexing/scan.rs`, `_initialized`, `_did_change_configuration`, `_did_change_workspace_folders` | read folders and publish indexes; spawned, so they overlap everything |
| pulls | `lsp/queries/diagnostics.rs`, `lsp/diagnostics_publish.rs` | compute diagnostics on blocking threads against a snapshot |
| view refresher | `lsp/view_refresh.rs` | turns a changed `state_version` into refresh requests |
| symbol queries | `lsp/edit_queue.rs` `await_initial_index` | wait for the initial index |
| the world | external | the editor saves, other programs write and delete files, the client watches them and pulls |

### 1.2 Components, state, operations, correctness

| Component | State | Operations | What makes it correct |
|---|---|---|---|
| Text synchronisation | open overlay `documents`, `workspace_documents`, the indexes | did_open / did_change / did_close, watched files | ranges are applied to the text the editor has; overlay and index of an open document agree; a closed file goes back to its disk content and stays closed |
| Edit queue | `pending_edits`, `edit_notify`, `edit_writer_spawned`, `tree_pipeline` | enqueue, wake, collect, take, publish, remove | nothing lost, nothing applied out of order, the queue drains, versions name texts |
| Compilation | one `ArcSwap`, `writer_lock`, `state_version`, `views_dirty` | `publish_compilation`, `rebuild_filtered_base_catalogs`, `mark_state_changed` | readers see whole states; every view-relevant change is signalled |
| Diagnostics pulls | `cst_diag_cache`, subscriptions, the client's result ids | document and workspace pull, commit, register, evict | a cache hit and an `Unchanged` answer are right |
| View refresher, startup | `last_emitted`, `initial_index_done`, `index_ready_notify` | wake, emit; set flag, notify waiters | no bump is slept through, no query hangs, the client ends up with the published state |
| Workspace indexing | `workspace_roots`, `workspace_index`, `loose_index` | scan, folder change, settings change, reroute open documents | a file is in the index of its scope, with its current text, and in no other |
| Symbol index, subscriptions | a dozen maps per layer, contributions per file, observed keys | update / remove document, bulk load, `subscribers_of` | no map keeps anything of an earlier text; changed keys reach every observer |
| Legacy overrides, base scripts | suppressed set, replacements, filtered catalogs, manifests | `index_base_scripts`, `refresh_legacy_override_maps`, manifest events | an overridden base script is hidden everywhere, and nothing else is |
| Completion cache, semantic tokens cache | merged catalog; last tokens per document | fill, clear; full, delta | a cached answer equals a computed one; a delta applied to the old tokens gives the new ones |
| Positions | line starts | offset/position conversion, `apply_content_change` | UTF-16 columns and byte offsets are inverse where defined |
| Resolution, inference, references, rename | none (functions of trees and layers) | definition, type definition, references, highlights, rename | they agree with each other at every use of a name; a rename changes no meaning |
| Diagnostic rules, quick fixes | none | the rules, remove unused | kept diagnostics are the ones the rules give; a removal breaks nothing |
| Refactorings | none | inline, join, split; reaching definitions | a verified edit changes nothing a run of the body shows |
| Formatter | none | | layout is preserved (not modelled) |
| Configuration, status notifications | `config`, what was last sent | fetch, compare, notify | a notification is sent when and only when its content changes |

`PROJECT.json` lists every component with its files and what of it is modelled.

### 1.3 How they interact, and what is hard about it

The main loop, the writer and the scan tasks all publish through
`publish_compilation`, which swaps the Compilation under `writer_lock`, bumps
`state_version` and signals `views_dirty`. What they base a publish on (the
overlay, the roots, the set of open documents, a file's content) is read
*before* the lock. Cached diagnostics are evicted *after* it. The main loop
and the writer share the queue under two locks, neither held throughout. Pulls
read `state_version`, two snapshots, the queue and the cache one after the
other. Signals coalesce (`notify_one`) or store nothing (`notify_waiters`).
So the hard questions are interleavings, stale reads, lost wakeups, and
sequences of legal notifications; they are the `hazards` of `PROJECT.json`,
each at its line.

## 2. Modules

| Module | Models | Uses |
|---|---|---|
| `Mirror` | abstract: a view of the editor's text that may lag but only ever moves to the text the editor has | |
| `TextSync` | text_sync.rs, edit_queue.rs, open_documents.rs, script events of watcher.rs | refines `Mirror` |
| `TextSyncProofs` | theorems about `TextSync` | |
| `DiagPull` | publish_compilation, diagnostics_publish.rs, cst_cache.rs, the pull handlers, subscriptions | |
| `DiagPullProofs` | theorems about `DiagPull` | |
| `ViewRefresh` | publish_compilation's signal, view_refresh.rs, the initialized handler, await_initial_index | |
| `ViewRefreshProofs` | theorems about `ViewRefresh` | |
| `WorkspaceScan` | scan.rs, folder and settings changes, routing by scope | |
| `WorkspaceScanProofs` | theorems about `WorkspaceScan` | |
| `LegacyOverrides` | config.rs, lifecycle.rs, project_manifest.rs, legacy.rs, index_base_scripts, file scopes, status notifications, merged completion cache | |
| `LegacyOverridesProofs` | theorems about `LegacyOverrides` | |
| `LineIndex` | line_index.rs, `apply_content_change`, the batches of did_change | |
| `LineIndexProofs` | theorems about `LineIndex` | `NumberLemmas` |
| `SemanticTokens` | queries/semantic_tokens.rs, semantic_tokens_cache.rs, the encoding | |
| `SemanticTokensProofs` | theorems about `SemanticTokens` | `NumberLemmas` |
| `NumberLemmas` | least and greatest numbers of a set, induction over an interval | |
| `Syntax` | the tree as the code sees it; symbols/extract.rs, symbols/types.rs, cst/ | |
| `SymbolIndex` | resolve/workspace_index/, symbol_db/, shadowed_base.rs, completion_catalog.rs, builtins, script_env.rs | `Syntax` |
| `Resolve` | name_context.rs, inference.rs, definition.rs, references.rs, document_highlight.rs, references_rename.rs | `SymbolIndex` |
| `Rules` | diagnostics/, assignability.rs | `Resolve` |
| `Bodies` | body_model/, writes.rs, reaching_defs.rs, inline_var.rs, join_split_decl.rs | `Resolve` |
| `Running` | external: what running a body shows | `Bodies` |
| `Semantics` | a workspace over time: index, kept diagnostics, edits the server makes | `Rules`, `Running` |
| `MC*` | the same modules for TLC: functions as constant values, symmetry of texts, small projects | |

### TextSync

A text is an opaque value. A ranged change is the pair of texts the editor went
between: applied to the first it gives the second; applied to anything else it
gives `Garbled` or is out of range and dropped (`Applied`). Parse versions are
allocated as the code does, per parse and when an edit is queued. A handler is
split exactly where another party can see the difference: a snapshot that is
used later, a disk read, a publish. `main` is the handler in progress with its
local variables, `wpc`/`todo`/`job` the writer's loop. `tree` is
`tree_pipeline`; `pending_edits` is locked only within a step.

| Action | Code |
|---|---|
| `DidOpen`, `ReuseDocument`, `PublishDocument` | `_did_open`, `update_open_document`, `reuse_unchanged_open_document` |
| `DidChange`, `EnqueueEdit` | `_did_change` with ranges, `enqueue_edit` |
| `DidChangeFull` | `_did_change` with a change without a range |
| `DidClose`, `DropLoose`, `CloseRead`, `CloseUnedited`, `CloseReindex` | `_did_close`, `reindex_closed_file` |
| `WatchedEvents`, `PublishWatched` | `apply_watched_file_events` |
| `SpawnEditWriter`, `WriterWake`, `WriterCollect`, `WriterTake`, `WriterPublish`, `WriterRemove` | `spawn_edit_writer`, `run_edit_writer`, `process_pending_edit` |
| `Save`, `ExternalWrite`, `ExternalDelete` | the world (external) |

Three constants say what the environment does: `FullReplace` (changes without
a range), `CloseWhilePending` (a document is closed over a queued edit) and
`ParseMayFail`. `Exact` is the environment with none of them.

### DiagPull

The diagnostics of a file are the inputs they were computed from (`Truth`): its
own parse version, the outward symbols of the files it observes, the base
surface and the suppressed set. Stale diagnostics are then outdated inputs.
`Store*`, `Bump`, `Rebuild`, `NextGeneration`, `Lookup`, `Evict` and
`RemovePending` are the steps of a publisher; `PullStart` .. `PullReply` those
of a pull. Nothing keeps them apart: a publisher, main loop, writer or task, may
be between any two of its steps while pulls take theirs.

`slips` is a history variable: no step depends on it, and it names what was
overtaken on its way. A file is `missed` when symbols its cache entry was
computed from change and nothing will evict it: in a scan, or before the pull
that made the entry has registered its subscriptions. A report is `misled` when
it was made of such an entry, of one a publisher is about to evict, or of one
that is not of the pull's snapshot. These are the cases the code does not
handle (section 4); the properties say that there are no others.

### ViewRefresh

A tokio `Notify` is a permit plus the set of registered waiters. `content`
counts view-relevant publishes. The initialized handler's order (spawn the
refresher, index, set the flag, notify waiters, `mark_state_changed`) is one
action per statement.

### WorkspaceScan

A scan reads the roots (`TaskLoad`), the disk (`TaskRead`) and the open
documents (`TaskFilter`) at three moments and publishes at two later ones
(`TaskPublish`, `TaskRoute`). `task[k].from` is the handler that started it.
An edit is the writer's read of the scope and its publish; the queue is
`TextSync`'s. Folders are disjoint: with nested roots, removing the parent also
drops the nested root (`lsp/text_sync.rs:210`). Nothing is kept apart: folders
come and go, and files are changed, opened, edited and closed, at any moment of
any number of scans.

`raced` is a history variable with the files whose state changed under a step
that had read it: the text on disk, or the folder, of a file of which a scan
still holds what it read (the folder also under the main loop and the edit
writer); the buffer of a file the initial scan is about to publish; the cached
parse that did_open found to be the text opened; an open document that a scan
was still to route and that was closed first. Section 4 says what then goes
wrong. All other files end up right.

### LegacyOverrides

A handler is a list of steps: `todo[a]` is what actor `a` (the main loop or a
task) has left, `has[a]` what it has read for later steps. A step reads, stores,
publishes or sends once. Whatever the code reads before it takes a lock is a
step of its own, and so is whatever it does after it has released one.

| Steps | Code |
|---|---|
| `Ask`, `Answer`, `Store` | `fetch_config`: the configuration to compare with, the answer or the failure, the store |
| `Walk`, `Filter`, `IndexFound` | `index_workspace` |
| `Discover`, `StoreManifests`, `StoreManifest` | `discover_manifests`, `apply_manifest_event` |
| `Plan` .. `Merge`, `Open` .. `Prune` | `index_base_scripts`, `merge_open_base_documents`, `sync_legacy_workspace_from_parsed`, `prune_stale_legacy_workspace_files` |
| `Pair`, `Suppress`, `Replace` | `refresh_legacy_override_maps` |
| `Catalogs`, `Forget` | `rebuild_filtered_base_catalogs`: its publish, and the caches it drops |
| `Look`, `Record`, `Notify` | `publish_legacy_script_status`, `publish_file_scope_status`: reads before the lock on `sent`, comparison under it, notification after it |
| `DidOpen`, `Reuse`, `ScopeOf`, `Route` | did_open; `publish_open_document_indices` reads the scope before `writer_lock` |
| `DidClose`, `DropLoose`, `ReadClosed`, `KeepParse`, `ReindexClosed`, `RefreshIfLegacy`, `Closed` | did_close, `reindex_closed_file` |
| `WatchedScript`, `PublishWatched`, `WatchedManifest`, `Spawn` | `apply_watched_file_events` |
| `ReadScopes`, `Reroute` | `reindex_open_documents` |
| `TakeHandles`, `Complete` | a completion request, on a blocking thread at any time: the handles of the snapshot, then the cache slot |

`server` is what the Backend keeps (settings, manifests, replacements, the
completion cache), `db` holds, for each part of the Compilation, the set of
files it has, `client` the settings, the disk and the events on their way,
`sent` the statuses recorded and `shown` those the editor has. A file is named by
its directory and the path below it; two files of one path in a base and a
legacy directory are the pair the code looks for.

`slips` is a history variable: `late` completion requests, whose snapshot is
older than the catalogs, and the cache once one of them filled it; status
senders another one has `passed`, and the statuses recorded or sent `astray` by
them; documents routed by an `outdated` scope; refreshes of the override maps
that `crossed`. `Races` lets settings and files change, and legacy scripts be
opened and closed, while a task runs, `Unsaved` lets an open file be missing on
disk. Documents that are not legacy ones open and close, statuses are sent and
completions are served at any time in either case.

### LineIndex

A character is its number of bytes and of UTF-16 units and whether it ends a
line. The editor types (`Type`, `Replace`) and fills a batch; `DidChange`
translates its positions one change after the other and edits the tree;
`Reparse` is the writer's parse. `tree` is the set of boundaries a tree keeps,
each with byte, row and column. The alphabet has a character of one byte, one
of two bytes and one unit, one of four bytes and two units, and the line end.

### SemanticTokens

One action per read and store of a request (`Snapshot`, `Queue`,
`LoadVersion`, `Walk`, `Store`, `Reply`); several requests run at once and one
the client has abandoned runs on. `issued` remembers what each result id was
given for.

### Syntax, SymbolIndex, Resolve, Rules

A tree is the sequence of its nodes in walk order; an index stands for a byte
offset, so containment of ranges is containment of indices. Names are strings,
compared and never taken apart, except the class name of a state, which is the
owner's and its own (`TypeName`). The maps of a layer are one sequence of
entries `[slot, uri, sym]`: the order inside a slot is that of the code's
vector, because `first()` and `last()` decide between duplicates. Lookups go
workspace, base, built-ins, with hidden base files filtered where the code
filters them, and up the inheritance chain to `MaxDepth`
(`MAX_INHERITANCE_DEPTH`). `Observed` collects the keys the lookups of the
rules record, those and no others. A diagnostic is its rule and its node.

### Bodies and Running

`Bodies` follows the code: writes and their kinds, the abstract evaluation of
statements with break, continue, return and the two passes over a loop body,
at most `MaxDefs` definitions (`MAX_DEFS`), and the edit plans of the three
refactorings with their confidence. `Running` is the reference it is compared
with: all runs of a body in which each condition goes either way and a loop
turns up to `Rounds` times, with symbolic values; a run is the calls with their
arguments, the conditions, the value returned and the fields left.

### Semantics

| Action | Code |
|---|---|
| `Update`, `Drop` | `update_open_document`, `remove_document`, eviction by changed keys |
| `IndexWorkspace` | the bulk load of `index_workspace` |
| `IndexBase`, `Hide`, `ReadEnvironment` | what the workspace stands on changes |
| `Pull` | `cst_diagnostics_with_cache` and the registration of observed keys |
| `RenameAt` | prepare, rename and the client applying the edit |
| `RemoveUnused` | the quick fix of `unused_symbol` |
| `Inline`, `Join`, `Split` | the refactorings, each at every place where it is offered |

A step is atomic here: the queue between an edit and the index is TextSync's,
the race of a pull with a publish is DiagPull's. What the server asks of the
language library (the definition at a place, the diagnostics of a file, the
refactorings offered) are constant operators of the module; MCSemantics binds
each to the operator of `Syntax`, `Resolve`, `Rules`, `Bodies` or `Running`
that models the answer. `ProjectTable` gives the files, each in a few versions;
`focus` in MCSemantics says which group of actions a behaviour is about.

## 3. Runs

| Run | Expected | Checks | Instance |
|---|---|---|---|
| TextSyncExact | pass | TypeOK, LatestIsClient, OpenIndexed, ClosedFollowsDisk, PendingAhead | a project file and a loose one, 3 texts, 5 versions |
| TextSyncMirror | pass | MirrorsEditor, CatchesUp | two loose documents, the writer started at any moment, 3 texts, 5 versions |
| TextSyncFaults | pass | VersionNamesText, NoLostWakeup, QueueDrains | full replacements, closes over a queued edit, failing parses, batches of two events |
| DiagPullEdits | pass | UnchangedIsSound, PullSeesEdits | a file and its observer, a publisher and a pull at once; 2 edits or reindexed files, 2 publishes of every kind, 2 pulls |
| DiagPullOverlap | pass | CacheIsSound, OwnPartIsSound | the same two files, a publisher and two pulls at once; 1 version, 1 publish, 2 pulls |
| ViewRefresh | pass | TypeOK, NoMissedRefresh, NoStrandedQuery, ClientCatchesUp, QueriesAnswered | two publishers, one query, 2 view-changing publishes |
| WorkspaceScan | pass | OpenRouted, ClosedIndexed | a file, its folder and another, 2 texts, 3 scans, two at a time, main loop and edit writer beside them |
| LegacyOverrides | pass | Paired, StatusCurrent, BaseFollows, CompletionCurrent | a base script, scripts of the same path in a configured legacy directory and in the project, a task beside the main loop, a completion request, 3 inputs |
| Requests | pass | BufferMirrored, TreeFollows, PositionsRoundTrip, DeltaFits, Settled | texts of up to 3 characters, batches of 2; 2 requests at once, 2 texts, 2 edits |
| Semantics | pass | IndexExact, CatalogFresh, DependentsCurrent, HiddenSilent, CompletionResolves, RenameFollows, RemovalIsSafe, Navigation, ReachingSound, RefactorsKeepRuns | seven projects of two files in up to two versions; 675 method bodies |
| StaleDependents | violation | DependentsCurrent | a method and its override in two files |
| VerifiedEdits | violation | VerifiedIsFree | the 675 bodies |

Why the bounds are enough for what they are for. Texts: an edit race needs the
text before, the text in the queue and the text after, hence three. Versions:
each notification allocates at most one, so five or six allow open, three edits
and a close with its reparse. Files: one per scope or one observed and one
observer; no property relates three files. WorkspaceScan treats every file by
itself but for the moments at which main loop and writer are busy, so one file
is enough there, and its theorems cover the others; with three scans at once the
same properties were checked (9.8 million states), and two at a time with
`MaxScans` = 4 (4.5 million). Publishes and pulls: a stale report
needs a pull that fills the cache, a publish, and a second pull. Scans: the
initial one, a folder removed, and the same folder added back, any two of which
overlap.
Texts and symbols are interchangeable (only equality is asked of them), so they
are symmetry sets in the runs without liveness.

LegacyOverrides: three inputs are a settings or manifest change, a file that
appears or goes, and an open, a close or a completion request; a base script has at most two
competitors, one per kind of legacy directory. Requests: three characters are
enough for a wide character before, at and behind a change and for a line end
on either side of it; two requests for one that overtakes another. Semantics:
histories of two steps for index and edits (a version replaced, then replaced
or removed) and four for kept diagnostics (pull, change, change back, pull);
the projects hold one instance of each construct whose lookups differ: access
levels, inheritance, generic containers, structs and enums, environment
globals, states with owners and bases, the three annotations, a hidden base
file, imports, defaults and hints, events. `MaxDepth` is 4, above every chain
in them. Bodies: a declaration (bare, with a value, with a call), two
statements out of fifteen (every kind of write, branch, loop and switch with
breaks and continues) and a read; `Rounds` = 2 is the least number of turns
that takes a definition over the back edge of a loop and reads it there.
`MaxDefs` is 128, the `MAX_DEFS` of the code, which no body of the run gets near:
each is followed to its end.

The TextSync, DiagPull, LegacyOverrides, Requests and Semantics runs do not
check for deadlock: their bounds on versions, publishes, inputs and steps stop
them. ViewRefresh and WorkspaceScan do.

### Fairness

- A handler that has begun runs to its end (`WF(Handler)`): handlers contain no
  wait the model leaves out.
- The writer task is scheduled (`WF` on its steps). `WriterTake` needs
  `tree_pipeline`, which the main loop takes and releases again and again;
  parking_lot's mutexes hand over fairly once a waiter has waited, hence `SF`.
- Nothing is assumed of the editor: notifications, closes and saves are never
  forced, and the writer need not be spawned.
- In ViewRefresh publishers, refresher, startup and pulls keep running, and the
  client answers a refresh request by pulling, as LSP asks of it. A cancelled
  pull is *not* retried by fairness: what makes the client pull again is the
  refresh of the change that cancelled it.
- In SemanticTokens the writer and the requests are scheduled, and the client
  asks again when it is told to refresh. An abandoned request is never forced
  to lose or win a race.

## 4. Findings

1. **Diagnostics of an override outlive a change of what it overrides**
   (StaleDependents, `resolve/symbol_db/lookup.rs:246`).
   `find_class_body_member` records no observed key, so the file with the
   override does not subscribe to the overridden method. Drop a parameter of
   the method: the override's file keeps its diagnostics, although
   `resolve/workspace_index/subscribers.rs:23` says that dependents must see
   parameter-list changes.
2. **A verified inline can change what a branch governs** (VerifiedEdits,
   `resolve/inline_var.rs:125`). In
   `var a : int; if (k) a = 1; a = k; Foo(a);` the dead assignments are deleted
   as statements and `if (k) Foo(k);` is left. The plan is verified, which
   `resolve/edit_plan.rs:10` defines as provably free of runtime change.

### Observations

Properties the runs check under a restriction, and what TLC shows without it:

- `LatestIsClient` with `FullReplace = TRUE` in TextSyncExact: a full
  replacement is published directly while `pending_edits` still holds an
  earlier edit (`lsp/text_sync.rs:106`); the next ranged change starts from
  that edit, and the writer publishes it afterwards. `lsp/edit_queue.rs:24`
  promises the latest known text.
- `ClosedFollowsDisk` with `CloseWhilePending = TRUE`: a close does not
  withdraw a queued edit (`lsp/text_sync.rs:151`), and the writer brings the
  closed document and its unsaved text back into overlay and index.
- `UnchangedIsSound` without the exception of `slips.misled`, in either DiagPull
  run: a pull between publish and eviction reports stale diagnostics under the
  new result_id (`lsp/backend.rs:283`); the version it took is current, so
  nothing cancels it, and later pulls answer `Unchanged`.
- `CacheIsSound` without that of `slips.missed`: a publish between a pull's
  commit and its `register_cst_subscriptions` evicts nothing of what was just
  committed (`lsp/cst_cache.rs:142`), and `index_workspace` drops the changed
  keys it is given (`lsp/indexing/scan.rs:150`), so observers of a re-scanned
  file keep their cached diagnostics.
- `UnchangedIsSound` stated of loose files too, with `Loose` = both files: result
  ids of loose files ignore the loose index (`lsp/diagnostics_publish.rs:346`).
- `OpenRouted` for raced files in WorkspaceScan: a document opened with
  unsaved text between a scan's look at the open documents
  (`lsp/indexing/scan.rs:123`) and its publish is indexed with the text on
  disk; one opened unchanged while a folder is being removed keeps the index
  entry of its old scope.
- `ClosedFollowsDisk` with `MaxBatch = 2`: a batch with the deletion and then
  the re-creation of one file drops the file, because all updates are applied
  before all removals (`lsp/watcher.rs:238`). Clients usually coalesce such
  events.
- `ClosedIndexed` for raced files: a scan that loaded the roots before a
  folder was removed puts the folder's files back (`lsp/text_sync.rs:219` says
  they must be dropped), and a scan that read a file before a watched change
  publishes the older text after it.
- `LatestIsClient` with `ParseMayFail = TRUE`: an edit whose parse fails leaves
  the queue without reaching the overlay, and the next range is applied to the
  older text. tree-sitter returns no tree only when it is cancelled or has no
  language.
- `Paired` with `Unsaved = TRUE` in LegacyOverrides: `index_base_scripts` pairs
  the files it parsed from disk (`lsp/indexing/scan.rs:299`), so an open legacy
  script without a file is not paired, while `lsp/indexing/legacy.rs:101` says
  that pairing must see open overrides. `StatusCurrent` fails for the
  same reason: did_close of another legacy file pairs it after all, and sends
  no legacy statuses.
- `Paired`, `BaseFollows` and `StatusCurrent` with `Races = TRUE`: a settings
  change that is read while the startup or another change is indexing can be
  stored behind the step that would have used it, and nothing indexes again
  (`lsp/lifecycle.rs:322`, `lsp/config.rs:121`).
- What `slips` names in LegacyOverrides: of two status senders the one that
  looked first can notify last, or record last what the other then finds
  unchanged (`lsp/diagnostics_publish.rs:463`, `:486`); a document opened over a
  settings change goes to the index of its old scope
  (`lsp/indexing/open_documents.rs:299`) until it is routed again; two refreshes
  of the override maps read the base documents before `writer_lock`
  (`lsp/indexing/legacy.rs:116`) and the later publish wins; a completion
  request that took its handles before `rebuild_filtered_base_catalogs` puts the
  old merge back (`lsp/backend.rs:450`), whose key lacks the suppressed set.

Read in the code, outside the models:

- Scripts of a legacy directory taken out of the settings stay in the workspace
  index (the prune at `lsp/indexing/scan.rs:185` finds nothing); an empty
  `gameDirectory` keeps the previous one.
- A position one past the end of a line is the start of the next, one further
  past it drops the whole batch; inside a surrogate pair it is refused.
- Other lookups without an observed key: `states_named`, overrides through
  `virtual_parent`, annotated members, the natives. A state is keyed by its
  short name and looked up by its class name.
- Left out of `RenameFollows`, where the code is known to miss: the owner of a
  state (the spellings of the state's class are not renamed), imports (the
  engine keeps the old name). Absent from the projects: a private member used
  bare in a subclass in another file, a wrapper reached through a subclass.
- `RemovalIsSafe` leaves out parameters: removing one changes the signature
  and its callers are not edited.
- `RefactorsKeepRuns` leaves out (`Unseen`) inlined values with a field or a
  call, which the code moves past writes and calls without looking, and
  deleted statements that are all of a branch (finding 2).

## 5. Proofs

All theorems hold for every set of documents, texts, publishers, pulls, scans
and queries and every bound, from the named assumptions on the constants and
from what is said below.

`TextSyncProofs`, in any environment:

- `TypeCorrect`. `TypeOK` alone is not inductive: a handler that allocates a
  version in a later step needs one to be left, and the enqueue step frees
  `tree_pipeline`, so it must have held it. `Reserved` says both.
- `NeverLosesWakeup` (`NoLostWakeup`). Inductive with the types: an enqueue sets
  the permit after the insert, the writer waits only after it saw an empty queue.
- `VersionsNameTexts` (`VersionNamesText`). The copies of a document that a
  version can be read from include those in the hands of the main loop and of
  the writer (`Held`); `VersionsInv` says of all of them that versions are below
  the next one and that equal versions mean equal documents. Every step either
  only carries copies around or adds one with a fresh version (`Carried`,
  `Added`, `VersionsKept`).

Under `Exact`:

- `ChangesStartFromClient` (`LatestIsClient`), `PendingIsAhead`
  (`PendingAhead`) and `OverlayMirrorsEditor` (`MirrorsEditor`, the safety part
  of the refinement of `Mirror`). The inductive invariant `ExactInv` has one
  part per place a text can be: `MainExact` (what a handler is about to publish
  is the editor's text), `PendingExact` (so is a queued edit, unless a newer
  one is about to replace it, and its version is ahead), `OverlayExact` (an open
  document with nothing on its way is in the overlay; a closed one is not) and
  `WriterExact` (the writer's edit is still the queued one until published, and
  once published the overlay has it as long as it stays queued). The last one
  is where `tree_pipeline` matters: without it a newer edit could be published
  between the writer's clone and its publish.

On top of `ExactInv`, about what the index and the cache hold:

- `OpenAlwaysIndexed` (`OpenIndexed`). `OpenIndexed` speaks of states at rest;
  what is inductive speaks of all of them. `StoreInv` has three parts:
  `OpenInv` (an open document is in the overlay from the publish of did_open to
  that of did_close, and a batch of file events touches only others),
  `LooseInv` (outside the workspace folders nothing is cached) and `IndexInv`
  (the index holds the overlay's text, or else the cached one, through the
  steps of closing an unedited buffer too).
- `ClosedAlwaysFollowsDisk` (`ClosedFollowsDisk`), also from `MaxBatch = 1`:
  file events arrive one at a time; section 4 says what a larger batch does.
  `EventInv` says that the last event on its way tells whether the file is
  there, `DiskInv` that without one the cache, or what is about to be
  published, is the disk's.

`ViewRefreshProofs`: `TypeCorrect`; `NeverMissesRefresh` (with `RefreshInv`,
which adds that the refresher does not exist before it is spawned);
`NeverStrandsQuery` (with `ReadyInv`: the flag is set before the waiters are
notified, so a query that saw it unset registered in time).

`DiagPullProofs`, under any overlap of publishers and pulls:

- `TypeCorrect`, `PullsSeeEdits` (`PullSeesEdits`) and `OwnPartAlwaysSound`
  (`OwnPartIsSound`) from `AnyOrder`. `PubInv` follows publishers past their
  swap, `PullInv` the order of a pull's reads; `QueueInv` says that an edit
  leaves the queue only when the Compilation has it. `AskedInv` is the heart
  of `PullSeesEdits`: a pull that read an older version than it was asked about
  still finds the edit queued or finds `state_version` moved, so it cannot get
  to its reply. `OwnInv` says that every report in a cache, in a pull's hands
  or at the client is filed under the version and base generation it was
  computed for.

- `CacheAlwaysSound` (`CacheIsSound`) and `UnchangedAlwaysSound`
  (`UnchangedIsSound`) from `CurrentInv`, whose parts follow one result on its
  way. `SnapInv`: the snapshot of a pull that was not overtaken is current in
  what a file looks up, and the generation the pull read covers the overridden
  base scripts (the generation moves last, so one still current was read after
  them: `Filtered`). `SubsInv`: a file with an entry is subscribed to what its
  diagnostics look up, unless its pull has not got that far. `EntryInv`: an
  entry that is not missed is current, or a publisher still has it to evict
  (`Owes`). `OutInv`: an answer that is not doomed is the one for the snapshot of
  its pull. `ReportInv`: a report that is not misled was right for the symbols
  its result id names. No assumption but those on the constants: what the two
  theorems leave out is named by the history variable, file by file.

`WorkspaceScanProofs`, for any number of files, folders, scans and overlaps,
again without further assumptions:

- `TypeCorrect`.
- `OpenAlwaysRouted` (`OpenRouted`) and `ClosedAlwaysIndexed` (`ClosedIndexed`)
  from `FilesInv`: `EventInv` and `DocsInv` (nobody but the main loop opens and
  closes documents, and it and the writer are not at work on the same one), and
  of each file that is not raced `FilePart`. Its parts say that what a scan
  (`ScanPart`), the main loop or the writer (`MainPart`) has read of the file
  still holds, and where the file is (`ClosedPart`, `OpenPart`) unless a scan
  will bring it in (`Awaited`), is about to drop it (`Dropping`) or will route it
  (`Routing`). A step that would make one of them false races the file.

`LegacyOverridesProofs`, for any files, directories, tasks and settings, where a
legacy directory the settings name is neither the game's nor the workspace
folder (`DistinctAssumption`: a file of the model lies in one directory. The
program accepts other settings; they are not modelled):

- `TypeCorrect`, with any `Races` and `Unsaved`. `TypeOK` is not inductive:
  `TodoInv` adds that a list with a step about a document belongs to a handler
  that has one, and that behind every step that changes what is suppressed, or
  the catalogs, the completion cache is still to be dropped (`Settles`).
- `CompletionCurrentHolds` (`CompletionCurrent`), likewise, from `CacheInv`:
  while somebody still has to drop the cache (`Owed`), it may hold anything;
  otherwise it is current unless it is known to be late, and so is what every
  completion request has in its hands that is not late.

`LineIndexProofs`, for every alphabet with positive widths, one of its
characters the line end, and all texts:

- `BufferAlwaysMirrored`, `TreeAlwaysFollows`, `PositionsAlwaysRoundTrip`. The
  inductive invariant `MirrorInv` replays the changes not sent yet: whatever
  boundaries of the text the tree knows when they arrive (the writer may parse
  in between), the loop of did_change over them ends with the editor's text,
  its line index, and a tree that knows boundaries of that text (`ReplayInv`).
  `FullTurn` and `RangeTurn` are the two kinds of change. The second rests on:
  widths of a text depend only on its characters, wherever they are
  (`SumsShift`), so boundaries before a change keep their point and those behind
  it move with its end (`EditedPoints`); the line index finds the line of each
  boundary (`LineFound`) and positions lead there and back (`PositionOfByte`,
  `ByteOfPosition`); byte_point and byte_point_in agree (`PointFound`);
  Tree::edit with the resulting InputEdit keeps what the tree knows right
  (`MarksFollow`).

`SemanticTokensProofs`:

- `DeltasAlwaysFit` (`DeltaFits`), for all texts, tokens and interleavings of
  requests. `DeltaApplies` (applying the edits of semantic_token_edits to the
  old data gives the new) and `DecodeEncode` (the relative encoding can be read
  back) are lemmas about all sequences; `TokensInv` says that an id names what
  some walk collected and that cache, client and replies on their way hold
  what their id was given for.

Induction over numbers is done with `NumberLemmas`, by the least
counterexample: `IntervalInduction` takes the set of numbers that satisfy a
property instead of the property. The folds in LineIndex and SemanticTokens
are recursive functions for that reason; `SumsExist` and `TurnsExist` prove that
they satisfy their equations.

Only model-checked: `Paired`, `StatusCurrent` and `BaseFollows` of
LegacyOverrides, which need an invariant over the remaining steps of every
handler; the liveness properties (`CatchesUp`, `QueueDrains`,
`ClientCatchesUp`, `QueriesAnswered`, `Settled` of MCRequests), which are out of the
prover's reach, and everything in Semantics (`IndexExact`, `CatalogFresh`,
`DependentsCurrent`, `HiddenSilent`, `CompletionResolves`, `RenameFollows`,
`RemovalIsSafe`, `Navigation`, `ReachingSound`, `RefactorsKeepRuns`): they
compare what walks over trees compute, the walks are RECURSIVE operators, and
what a recursive definition computes for every tree needs induction over data.

## 6. Plan

1. Extract variable and extract callable over the bodies of MCSemantics, with
   their captures and return values, against `Running`.
2. The data invariant behind `Paired`, `StatusCurrent` and `BaseFollows` over
   the lists of steps, for any overlap that `slips` does not name.

## 7. What is not modelled

- The parser: tree-sitter and the grammar are external. In the server's modules
  a parse is a version and a text, or a failure; in Syntax it is a tree.
- Byte-level content beyond LineIndex: encodings, wording of messages, logging,
  the transport and its concurrency limit (async-lsp).
- The formatter: it prints text, and its properties are about layout.
- Two spellings of one URI are one document (`canonical_uri`).
- Excluded files, built-in documents opened by the client, deleted directory
  trees, the contents of a manifest.
- Extract variable, extract callable and the small syntactic code actions.
- Hover, signature help, inlay hints, snippets, ranking of completion items,
  code lenses: presentation of what Resolve computes.
- Copy-on-write inside a publish: a publish is atomic because the swap is.
- Command line tools, code generation, builtin data, benchmarks, tests.
