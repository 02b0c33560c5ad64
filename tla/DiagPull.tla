------------------------------ MODULE DiagPull ------------------------------
(***************************************************************************)
(* Pull diagnostics: publishers swap the Compilation, bump state_version   *)
(* and evict cached results of files that observed a changed symbol, while *)
(* pulls compute on blocking threads against the snapshot they took.       *)
(* Models publish_compilation, the CST diagnostics cache of cst_cache.rs,  *)
(* the subscription registry and the two pull handlers.                    *)
(*                                                                         *)
(* The Compilation is reduced to what diagnostics depend on: the parse     *)
(* version of each file, its outward symbols (one opaque value per file),  *)
(* the base-script surface and the set of overridden base scripts.  The    *)
(* diagnostics of a file are the inputs they were computed from, so stale  *)
(* diagnostics are visible as outdated inputs.                             *)
(***************************************************************************)
EXTENDS Naturals, FiniteSets

CONSTANTS
  Uris,        \* files with diagnostics
  Loose,       \* the ones outside every workspace folder
  Observes,    \* Observes[u]: the files whose symbols the diagnostics of u look up
  Syms,        \* outward symbols of a file, as one value
  Publishers,  \* threads that publish: main loop, edit writer, tasks
  Pulls,       \* blocking threads that answer pulls
  None,        \* nobody, nothing
  MaxVersion,  \* bound on parse versions
  MaxPublish,  \* bound on publishes
  MaxPulls     \* bound on pulls

ASSUME ScopeAssumption ==
  /\ Loose \subseteq Uris
  /\ Observes \in [Uris -> SUBSET Uris]
  /\ \A u \in Uris : \A k \in Observes[u] : k \in Loose <=> u \in Loose
ASSUME NoneAssumption == None \notin Publishers \cup Uris
ASSUME BoundsAssumption == MaxVersion \in Nat /\ MaxPublish \in Nat /\ MaxPulls \in Nat

VARIABLES
  comp,         \* the published Compilation
  stateVersion, \* state_version
  gen,          \* legacy_db_generation
  lock,         \* holder of writer_lock
  cache,        \* cst_diag_cache
  subs,         \* subscriptions: the files each file's cached result observed
  next,         \* next parse version
  received,     \* received[u]: version reserved by the last edit of u received
  pending,      \* pending_edits: version reserved by the queued edit, 0 if none
  pub,          \* pub[p]: what publisher p is in the middle of
  pull,         \* pull[q]: what pull q is in the middle of
  got,          \* got[u]: the report the client holds for u
  slips,        \* history: what was overtaken, see Slips below
  published,    \* publishes so far
  pulled        \* pulls so far

edits == <<next, received, pending>>
vars  == <<comp, stateVersion, gen, lock, cache, subs, next, received, pending,
           pub, pull, got, slips, published, pulled>>

-----------------------------------------------------------------------------
Compilation == [ver  : [Uris -> 0 .. MaxVersion], sym : [Uris -> Syms],
                base : 0 .. 1, sup : 0 .. 1]

(* Diagnostics of u for its parse version and a snapshot.                  *)
Truth(u, ver, snap) ==
  [own |-> ver, seen |-> [k \in Observes[u] |-> snap.sym[k]],
   base |-> snap.base, sup |-> snap.sup]

(* Diagnostics of any file, and a cached result.                           *)
Diag == [own : 0 .. MaxVersion, seen : UNION {[keys -> Syms] : keys \in SUBSET Uris},
         base : 0 .. 1, sup : 0 .. 1]
CacheEntry == [ver : 0 .. MaxVersion, base : 0 .. 1, gen : 0 .. MaxPublish, diag : Diag]

(* result_id_for: the workspace surface stands in for loose files too.     *)
ResultId(ver, snap, g) ==
  <<ver, [k \in Uris \ Loose |-> snap.sym[k]], snap.base, g>>

Entry(ver, snap, g, diag) == [ver |-> ver, base |-> snap.base, gen |-> g, diag |-> diag]

(* Slips: what was overtaken on its way.  No step depends on it.           *)
(*   overtaken     overtaken[q]: files that look up a symbol changed since *)
(*                 pull q took its snapshot                                *)
(*   doomed        doomed[q]: files q answers from an entry that was to be *)
(*                 evicted, should have been, or is not of q's snapshot    *)
(*   unsubscribed  files whose entry comes from a pull that has not        *)
(*                 registered its subscriptions yet, or gave up before     *)
(*   missed        files whose entry a change of symbols will not evict    *)
(*   misled        files whose report was made of a doomed entry           *)
Slips == [overtaken : [Pulls -> SUBSET Uris], doomed : [Pulls -> SUBSET Uris],
          unsubscribed : SUBSET Uris, missed : SUBSET Uris, misled : SUBSET Uris]

NoSlips == [overtaken |-> [q \in Pulls |-> {}], doomed |-> [q \in Pulls |-> {}],
            unsubscribed |-> {}, missed |-> {}, misled |-> {}]

IdlePub  == [pc |-> "idle"]
IdlePull == [pc |-> "idle"]

(* A publisher between two of its steps: what it publishes, and the files  *)
(* it is about to evict.                                                   *)
PubState ==
  [pc : {"stored", "rebuild", "generation", "lookup", "evict", "remove"},
   kind : {"edit", "file", "folder", "base"}, uri : Uris \cup {None},
   target : 0 .. MaxVersion, keys : SUBSET Uris, inval : SUBSET Uris]

(* A pull between two of its steps; out[u] is None until u is answered.    *)
PullState(docs) ==
  [pc : {"doc", "pending", "snap", "lookup", "compute", "reply"},
   kind : {"document", "workspace"}, docs : {docs}, version : 0 .. stateVersion,
   asked : [docs -> 0 .. MaxVersion], ver : [docs -> 0 .. MaxVersion],
   snap : Compilation \cup {None}, gen : 0 .. gen, todo : SUBSET docs,
   fresh : SUBSET docs, cancelled : BOOLEAN, out : [docs -> Diag \cup {None}]]

\* The shape of the shared state and of what every thread is in the middle of,
\* and that a publisher holds writer_lock exactly from its swap to its bump.
TypeOK ==
  /\ comp \in Compilation
  /\ stateVersion \in Nat
  /\ gen \in 0 .. MaxPublish
  /\ lock \in Publishers \cup {None}
  /\ cache \in [Uris -> CacheEntry \cup {None}]
  /\ subs \in [Uris -> SUBSET Uris]
  /\ next \in 1 .. MaxVersion + 1
  /\ received \in [Uris -> 0 .. next - 1]
  /\ pending \in [Uris -> 0 .. next - 1]
  /\ pub \in [Publishers -> PubState \cup {IdlePub}]
  /\ \A p \in Publishers : pub[p].pc = "stored" <=> lock = p
  /\ DOMAIN pull = Pulls
  /\ \A q \in Pulls : \/ pull[q] = IdlePull
                      \/ pull[q].docs \subseteq Uris /\ pull[q] \in PullState(pull[q].docs)
  /\ slips \in Slips
  /\ published \in 0 .. MaxPublish
  /\ pulled \in 0 .. MaxPulls

Init ==
  /\ \E s \in Syms : comp = [ver |-> [u \in Uris |-> 0], sym |-> [u \in Uris |-> s],
                             base |-> 0, sup |-> 0]
  /\ stateVersion = 0
  /\ gen = 0
  /\ lock = None
  /\ cache = [u \in Uris |-> None]
  /\ subs = [u \in Uris |-> {}]
  /\ next = 1
  /\ received = [u \in Uris |-> 0]
  /\ pending = [u \in Uris |-> 0]
  /\ pub = [p \in Publishers |-> IdlePub]
  /\ pull = [q \in Pulls |-> IdlePull]
  /\ got = [u \in Uris |-> None]
  /\ slips = NoSlips
  /\ published = 0
  /\ pulled = 0

Quiet == \A p \in Publishers : pub[p] = IdlePub

-----------------------------------------------------------------------------
(* Publishers.                                                             *)

(* enqueue_edit reserves the version the edit will be published under.     *)
Enqueue(u) ==
  /\ next <= MaxVersion
  /\ pending' = [pending EXCEPT ![u] = next]
  /\ received' = [received EXCEPT ![u] = next]
  /\ next' = next + 1
  /\ UNCHANGED <<comp, stateVersion, gen, lock, cache, subs, pub, pull, got, slips, published, pulled>>

Snapped(q) == pull[q].pc \in {"lookup", "compute", "reply"}

(* Files whose diagnostics look up one of the keys.                        *)
Lookers(keys) == {u \in Uris : Observes[u] \cap keys # {}}

Overtakes(c, kind) ==
  LET changed == Lookers({k \in Uris : c.sym[k] # comp.sym[k]}) IN
  slips' = [slips EXCEPT
    !.overtaken = [q \in Pulls |-> IF Snapped(q) THEN @[q] \cup changed ELSE {}],
    !.missed    = @ \cup (IF kind = "folder" THEN changed ELSE changed \cap slips.unsubscribed)]

(* publish_compilation under writer_lock: the new Compilation is visible   *)
(* before state_version moves.                                             *)
Store(p, c, kind, u, keys) ==
  /\ pub[p] = IdlePub
  /\ lock = None
  /\ published < MaxPublish
  /\ comp' = c
  /\ lock' = p
  /\ published' = published + 1
  /\ pub' = [pub EXCEPT ![p] = [pc |-> "stored", kind |-> kind, uri |-> u,
                                target |-> IF u = None THEN 0 ELSE c.ver[u], keys |-> keys, inval |-> {}]]
  /\ Overtakes(c, kind)
  /\ UNCHANGED <<stateVersion, gen, cache, subs, received, pending, pull, got, pulled>>

(* diff_outward_keys: a file whose outward symbols stay the same changes   *)
(* no key.                                                                 *)
ChangedKeys(u, s) == IF comp.sym[u] = s THEN {} ELSE {u}

(* A queued edit of u is published with new outward symbols s, under       *)
(* tree_pipeline, which admits one such publisher at a time.               *)
StoreEdit(p, u, s) ==
  /\ pending[u] # 0
  /\ \A o \in Publishers : pub[o] # IdlePub => pub[o].kind # "edit"
  /\ Store(p, [comp EXCEPT !.ver[u] = pending[u], !.sym[u] = s], "edit", u, ChangedKeys(u, s))
  /\ UNCHANGED next

(* A file is reindexed from disk or from an opened buffer.                 *)
StoreFile(p, u, s) ==
  /\ next <= MaxVersion
  /\ pending[u] = 0
  /\ Store(p, [comp EXCEPT !.ver[u] = next, !.sym[u] = s], "file", u, ChangedKeys(u, s))
  /\ next' = next + 1

(* index_workspace drops the keys apply_contribution returns.              *)
StoreFolder(p, u, s) ==
  /\ next <= MaxVersion
  /\ pending[u] = 0
  /\ Store(p, [comp EXCEPT !.ver[u] = next, !.sym[u] = s], "folder", u, {})
  /\ next' = next + 1

(* index_base_scripts and refresh_legacy_override_maps; both end in        *)
(* rebuild_filtered_base_catalogs.                                         *)
StoreBase(p) ==
  /\ \/ Store(p, [comp EXCEPT !.base = 1 - comp.base], "base", None, {})
     \/ Store(p, [comp EXCEPT !.sup = 1 - comp.sup], "base", None, {})
  /\ UNCHANGED next

Bump(p) ==
  /\ pub[p].pc = "stored"
  /\ stateVersion' = stateVersion + 1
  /\ lock' = None
  /\ pub' = [pub EXCEPT ![p] =
       CASE pub[p].kind = "folder" -> IdlePub
         [] pub[p].kind = "base"   -> [pub[p] EXCEPT !.pc = "rebuild"]
         [] OTHER                  -> [pub[p] EXCEPT !.pc = "lookup"]]
  /\ UNCHANGED <<comp, gen, cache, subs, edits, pull, got, slips, published, pulled>>

(* The publish of rebuild_filtered_base_catalogs, and its last statement.  *)
Rebuild(p) ==
  /\ pub[p].pc = "rebuild"
  /\ lock = None
  /\ stateVersion' = stateVersion + 1
  /\ pub' = [pub EXCEPT ![p].pc = "generation"]
  /\ UNCHANGED <<comp, gen, lock, cache, subs, edits, pull, got, slips, published, pulled>>

\* Variant: the generation is not moved.
NextGenerationForgotten(p) ==
  /\ pub[p].pc = "generation"
  /\ pub' = [pub EXCEPT ![p] = IdlePub]
  /\ UNCHANGED <<comp, stateVersion, gen, lock, cache, subs, edits, pull, got, slips, published, pulled>>

NextGeneration(p) ==
  /\ pub[p].pc = "generation"
  /\ gen' = gen + 1
  /\ pub' = [pub EXCEPT ![p] = IdlePub]
  /\ UNCHANGED <<comp, stateVersion, lock, cache, subs, edits, pull, got, slips, published, pulled>>

(* invalidated_workspace / invalidated_loose: subscribers_of the keys.     *)
Lookup(p) ==
  /\ pub[p].pc = "lookup"
  /\ pub' = [pub EXCEPT ![p].pc = "evict",
                        ![p].inval = {u \in Uris : subs[u] \cap pub[p].keys # {}}]
  /\ UNCHANGED <<comp, stateVersion, gen, lock, cache, subs, edits, pull, got, slips, published, pulled>>

(* evict_cache_entries.                                                    *)
Evict(p) ==
  /\ pub[p].pc = "evict"
  /\ cache' = [u \in Uris |-> IF u \in pub[p].inval THEN None ELSE cache[u]]
  /\ pub' = [pub EXCEPT ![p] = IF pub[p].kind = "edit" THEN [pub[p] EXCEPT !.pc = "remove"]
                               ELSE IdlePub]
  /\ UNCHANGED <<comp, stateVersion, gen, lock, subs, edits, pull, got, slips, published, pulled>>

(* run_edit_writer drops the entry unless a newer edit replaced it.        *)
RemovePending(p) ==
  /\ pub[p].pc = "remove"
  /\ pending' = IF pending[pub[p].uri] = pub[p].target
                THEN [pending EXCEPT ![pub[p].uri] = 0] ELSE pending
  /\ pub' = [pub EXCEPT ![p] = IdlePub]
  /\ UNCHANGED <<comp, stateVersion, gen, lock, cache, subs, next, received, pull, got, slips, published, pulled>>

-----------------------------------------------------------------------------
(* Pulls.  A document pull is about one file, a workspace pull about all.  *)

Fail(q) == pull' = [pull EXCEPT ![q] = IdlePull]
Current(q) == stateVersion = pull[q].version
shared == <<comp, stateVersion, gen, lock, edits, pub, published>>

PullStart(q, kind, docs) ==
  /\ pull[q] = IdlePull
  /\ pulled < MaxPulls
  /\ pulled' = pulled + 1
  /\ pull' = [pull EXCEPT ![q] =
       [pc |-> "doc", kind |-> kind, docs |-> docs, version |-> stateVersion,
        asked |-> [u \in docs |-> received[u]], ver |-> [u \in docs |-> 0],
        snap |-> None, gen |-> 0, todo |-> {}, fresh |-> {}, cancelled |-> FALSE,
        out |-> [u \in docs |-> None]]]
  /\ UNCHANGED <<shared, cache, subs, got, slips>>

(* The snapshot the documents come from.                                   *)
PullDoc(q) ==
  /\ pull[q].pc = "doc"
  /\ pull' = [pull EXCEPT ![q].ver = [u \in pull[q].docs |-> comp.ver[u]],
                          ![q].pc = IF pull[q].kind = "document" THEN "pending" ELSE "snap"]
  /\ UNCHANGED <<shared, pulled, cache, subs, got, slips>>

\* Variant: queued edits are not looked at.
PullPendingIgnored(q) ==
  /\ pull[q].pc = "pending"
  /\ pull' = [pull EXCEPT ![q].pc = "snap"]
  /\ UNCHANGED <<shared, pulled, cache, subs, got, slips>>

(* document_diagnostic answers ContentModified while a newer edit queues.  *)
PullPending(q) ==
  /\ pull[q].pc = "pending"
  /\ IF \E u \in pull[q].docs : pending[u] > pull[q].ver[u]
     THEN Fail(q)
     ELSE pull' = [pull EXCEPT ![q].pc = "snap"]
  /\ UNCHANGED <<shared, pulled, cache, subs, got, slips>>

(* run_pull_compute: a second snapshot, the version check, the generation. *)
PullSnap(q) ==
  /\ pull[q].pc = "snap"
  /\ IF Current(q) THEN pull' = [pull EXCEPT ![q].snap = comp, ![q].gen = gen, ![q].pc = "lookup"]
                   ELSE Fail(q)
  /\ slips' = [slips EXCEPT !.overtaken[q] = {}, !.doomed[q] = {}]
  /\ UNCHANGED <<shared, pulled, cache, subs, got>>

\* Variant: entries of another parse version count as hits.
HitAnyVersion(q, u) ==
  /\ cache[u] # None
  /\ cache[u].base = pull[q].snap.base
  /\ cache[u].gen = pull[q].gen

(* An entry is a hit when parse version and DbFingerprint match.  The      *)
(* version is checked once more before anything is computed.               *)
Hit(q, u) ==
  /\ cache[u] # None
  /\ cache[u].ver = pull[q].ver[u]
  /\ cache[u].base = pull[q].snap.base
  /\ cache[u].gen = pull[q].gen

(* No publisher still has to evict u.                                      *)
Settled(u) ==
  \A p \in Publishers :
    /\ pub[p].pc \in {"stored", "lookup"} => Observes[u] \cap pub[p].keys = {}
    /\ pub[p].pc = "evict" => u \notin pub[p].inval

PullLookup(q) ==
  /\ pull[q].pc = "lookup"
  /\ LET hits == {u \in pull[q].docs : Hit(q, u)}
     IN /\ IF Current(q)
           THEN pull' = [pull EXCEPT
                  ![q].todo = pull[q].docs \ hits,
                  ![q].out  = [u \in pull[q].docs |-> IF u \in hits THEN cache[u].diag ELSE None],
                  ![q].pc   = "compute"]
           ELSE Fail(q)
        /\ slips' = [slips EXCEPT !.doomed[q] =
              {u \in hits : u \in slips.missed \cup slips.overtaken[q] \/ ~Settled(u)}]
  /\ UNCHANGED <<shared, pulled, cache, subs, got>>

(* compute_one, off-lock: a worker that sees the version move gives up.    *)
PullCompute(q, u) ==
  /\ pull[q].pc = "compute"
  /\ u \in pull[q].todo
  /\ pull' = [pull EXCEPT
       ![q].todo      = pull[q].todo \ {u},
       ![q].cancelled = pull[q].cancelled \/ ~Current(q),
       ![q].fresh     = IF Current(q) THEN pull[q].fresh \cup {u} ELSE pull[q].fresh,
       ![q].out[u]    = IF Current(q) THEN Truth(u, pull[q].ver[u], pull[q].snap) ELSE None]
  /\ UNCHANGED <<shared, pulled, cache, subs, got, slips>>

(* What was computed enters the cache, even when the pull is cancelled.    *)
PullCommit(q) ==
  /\ pull[q].pc = "compute"
  /\ pull[q].todo = {}
  /\ cache' = [u \in Uris |->
       IF u \in pull[q].fresh
       THEN Entry(pull[q].ver[u], pull[q].snap, pull[q].gen, pull[q].out[u])
       ELSE cache[u]]
  /\ slips' = [slips EXCEPT
       !.unsubscribed = @ \cup pull[q].fresh,
       !.missed       = (@ \ pull[q].fresh) \cup (pull[q].fresh \cap slips.overtaken[q])]
  /\ IF pull[q].cancelled THEN Fail(q) ELSE pull' = [pull EXCEPT ![q].pc = "reply"]
  /\ UNCHANGED <<shared, pulled, subs, got>>

\* Variant: the subscriptions are not registered.
SubscribeNothing(q) == subs

(* register_cst_subscriptions replaces the registration of each file that  *)
(* was computed.                                                           *)
Subscribe(q) ==
  [u \in Uris |-> IF u \in pull[q].fresh THEN Observes[u] ELSE subs[u]]

(* A report whose result_id the client already has is sent as Unchanged,   *)
(* and the client keeps the diagnostics it has.                            *)
PullReply(q) ==
  /\ pull[q].pc = "reply"
  /\ subs' = Subscribe(q)
  /\ LET id(u) == ResultId(pull[q].ver[u], pull[q].snap, pull[q].gen)
         new   == {u \in pull[q].docs : got[u] = None \/ got[u].id # id(u)}
     IN /\ got' = [u \in Uris |-> IF u \in new THEN [id |-> id(u), diag |-> pull[q].out[u]] ELSE got[u]]
        /\ slips' = [slips EXCEPT
             !.unsubscribed = @ \ pull[q].fresh,
             !.misled       = (@ \ new) \cup (new \cap slips.doomed[q])]
  /\ Fail(q)
  /\ UNCHANGED <<shared, pulled, cache>>

-----------------------------------------------------------------------------
Publish(p) ==
  \/ \E u \in Uris, s \in Syms : StoreEdit(p, u, s) \/ StoreFile(p, u, s) \/ StoreFolder(p, u, s)
  \/ StoreBase(p)

PublishStep(p) == Bump(p) \/ Rebuild(p) \/ NextGeneration(p) \/ Lookup(p) \/ Evict(p)
                  \/ RemovePending(p)

PullStep(q) == \/ PullDoc(q) \/ PullPending(q) \/ PullSnap(q) \/ PullLookup(q)
               \/ (\E u \in Uris : PullCompute(q, u)) \/ PullCommit(q) \/ PullReply(q)

Pulling(q) == \/ \E u \in Uris : PullStart(q, "document", {u})
              \/ PullStart(q, "workspace", Uris)

Next == \/ \E u \in Uris : Enqueue(u)
        \/ \E p \in Publishers : Publish(p) \/ PublishStep(p)
        \/ \E q \in Pulls : Pulling(q) \/ PullStep(q)

Spec == Init /\ [][Next]_vars

-----------------------------------------------------------------------------
(* Properties.                                                             *)

CurrentId(u) == ResultId(comp.ver[u], comp, gen)

\* With no publisher at work, a client that holds the current result_id of a
\* workspace file holds its current diagnostics, and answering Unchanged is
\* right (document_diagnostic, compute_workspace_diagnostic_report): however
\* pulls and publishers overlap, only a report that was made of a cache entry
\* of another snapshot can be wrong.
UnchangedIsSound ==
  Quiet => \A u \in (Uris \ Loose) \ slips.misled :
             got[u] # None /\ got[u].id = CurrentId(u) => got[u].diag = Truth(u, comp.ver[u], comp)

\* With no publisher at work, an entry the next pull would hit holds what that
\* pull would compute: every file that observed a changed symbol was evicted
\* (cst_diagnostics_with_cache, evict_cache_entries), unless its symbols
\* changed before its pull had committed the entry and subscribed it, or in a
\* scan, which evicts nothing.
CacheIsSound ==
  Quiet => \A u \in Uris \ slips.missed :
             /\ cache[u] # None
             /\ cache[u].ver = comp.ver[u] /\ cache[u].base = comp.base /\ cache[u].gen = gen
             => cache[u].diag = Truth(u, comp.ver[u], comp)

\* Under any interleaving, the part of a report that depends on the file's own
\* text and on the base scripts belongs to the report's result_id: those two
\* are keys of the cache, read from the same snapshot.
OwnPartIsSound ==
  \A u \in Uris : got[u] # None =>
    got[u].diag.own = got[u].id[1] /\ got[u].diag.base = got[u].id[3]

\* A document pull that succeeds reports on every edit received before it was
\* asked for, though it reads the snapshot, the queue and state_version one
\* after the other while the writer publishes (document_diagnostic).
PullSeesEdits ==
  \A q \in Pulls :
    pull[q].pc = "reply" /\ pull[q].kind = "document" =>
      \A u \in pull[q].docs : pull[q].ver[u] >= pull[q].asked[u]
=============================================================================
