----------------------------- MODULE Semantics -----------------------------
(***************************************************************************)
(* The scripts of a workspace as the server knows them, over time: files   *)
(* change, appear and go, the base scripts and the script environment are  *)
(* read again, base files are hidden by legacy overrides, diagnostics are  *)
(* computed and kept, names are renamed and unused declarations removed.   *)
(* Edits are taken as indexed at once: the queue between an edit and the   *)
(* index is TextSync's, the races of a pull with it are DiagPull's.        *)
(***************************************************************************)
EXTENDS Rules, Running

CONSTANTS ProjectTable, \* what may be opened: [files, base, legacy] under a name
          Builtins,     \* the built-in declarations
          Fresh         \* names that no project uses

\* What the server asks of the language library, each bound to the operator
\* of Syntax, Resolve, Rules, Bodies and Running that models the answer.
CONSTANTS Parsed(_),                   \* Document
          DefinitionAt(_, _, _, _),    \* ResolveDefinition
          DefinitionsAt(_, _, _, _),   \* ResolveAllDefinitions
          TypeAt(_, _, _, _),          \* ResolveTypeDefinition
          ReferencesTo(_, _, _, _),    \* FindReferences
          HighlightsAt(_, _, _, _),    \* DocumentHighlights
          Renamed(_, _, _, _),         \* Rename
          DiagnosticsOf(_, _, _),      \* Diagnostics
          LookupsOf(_, _, _),          \* Observed
          UnusedIn(_, _, _),           \* UnusedSymbol
          BodyAt(_, _, _, _),          \* BodyModel
          Offers(_, _, _),             \* InlineVariable, JoinDeclaration, SplitDeclaration
          RunsOf(_),                   \* Runs
          SoleDefs(_),                 \* SoleReaching
          DefsMet(_)                   \* ReallyReaching

VARIABLES project,      \* the name of the project at hand
          docs,         \* the parsed files of the workspace
          scripts,      \* the parsed base scripts
          wsIndex,      \* the index of the workspace
          baseIndex,    \* the index of the base scripts
          hidden,       \* the base files that legacy overrides replace
          globals,      \* the script environment
          stamps,       \* the versions: of each parse, of the environment, of the hidden files
          cache, subs,  \* kept diagnostics, and the keys they were computed from
          did           \* the last step, for the properties

vars == <<project, docs, scripts, wsIndex, baseIndex, hidden, globals, stamps, cache, subs, did>>

Projects == ProjectTable

LayerOf(files) ==
    FreshLayer(SetToSeq(DOMAIN files), [u \in DOMAIN files |-> files[u].syms])

\* The index of the built-in declarations, which never changes.
builtin == LayerOf(Builtins)

DB == [ws      |-> wsIndex,
       base    |-> baseIndex,
       builtin |-> builtin,
       hidden  |-> hidden,
       globals |-> globals,
       idents  |-> [u \in DOMAIN docs |-> [i \in DOMAIN docs[u].cst |->
                        IF docs[u].cst[i].kind = "ident" THEN docs[u].cst[i].text ELSE ""]]]

Nothing == [tag |-> "other"]

-----------------------------------------------------------------------------
(* The index of the workspace. *)

\* Files entering the index one after the other, and the keys that changed.
Indexed(layer, uris, new) ==
    FoldLeft(LAMBDA acc, u : [layer |-> ApplyContribution(acc.layer, u, new[u].syms),
                              keys  |-> acc.keys \cup KeysOfApply(acc.layer, u, new[u].syms)],
             [layer |-> layer, keys |-> {}], uris)

SubscribersOf(keys) == {u \in DOMAIN subs : subs[u] \cap keys # {}}

Evicted(keys) == [u \in DOMAIN cache \ SubscribersOf(keys) |-> cache[u]]

Bumped(uris) == [stamps EXCEPT !.parse = [u \in DOMAIN @ |-> IF u \in uris THEN @[u] + 1 ELSE @[u]]]

\* The texts of some files become `new`.
SetTexts(new) ==
    LET uris    == {u \in DOMAIN new : u \notin DOMAIN docs \/ docs[u] # new[u]}
        indexed == Indexed(wsIndex, SetToSeq(uris), new)
    IN  /\ docs' = [u \in DOMAIN docs \cup uris |-> IF u \in uris THEN new[u] ELSE docs[u]]
        /\ wsIndex' = indexed.layer
        /\ cache' = Evicted(indexed.keys)
        /\ stamps' = Bumped(uris)
        /\ UNCHANGED <<project, scripts, baseIndex, hidden, globals, subs>>

\* update_open_document, and a file found by the scan or the watcher.
Update(u, doc) ==
    /\ u \in DOMAIN docs => docs[u] # doc
    /\ SetTexts([x \in {u} |-> doc])
    /\ did' = Nothing

\* A file that is gone, or excluded.
Drop(u) ==
    /\ u \in DOMAIN docs
    /\ docs' = Without(docs, u)
    /\ wsIndex' = RemoveDocument(wsIndex, u)
    /\ cache' = Evicted(KeysOfRemove(wsIndex, u))
    /\ subs' = subs
    /\ did' = Nothing
    /\ UNCHANGED <<project, scripts, baseIndex, hidden, globals, stamps>>

\* The scan puts all files it found in at once and builds the catalogs at its
\* end; what the files changed for others is not looked at.
IndexWorkspace(new) ==
    /\ docs' = [u \in DOMAIN docs \cup DOMAIN new |-> IF u \in DOMAIN new THEN new[u] ELSE docs[u]]
    /\ docs' # docs
    /\ wsIndex' = EndBulk(Indexed(BeginBulk(wsIndex), SetToSeq(DOMAIN new), new).layer)
    /\ stamps' = Bumped(DOMAIN new)
    /\ did' = Nothing
    /\ UNCHANGED <<project, scripts, baseIndex, hidden, globals, cache, subs>>

-----------------------------------------------------------------------------
(* What the workspace stands on. *)

\* The base scripts are read again, into a new index.
IndexBase(files) ==
    /\ scripts' = files
    /\ baseIndex' = LayerOf(files)
    /\ baseIndex' # baseIndex
    /\ did' = Nothing
    /\ UNCHANGED <<project, docs, wsIndex, hidden, globals, stamps, cache, subs>>

\* A legacy override appears or goes.
Hide(uris) ==
    /\ hidden' = uris
    /\ hidden' # hidden
    /\ stamps' = [stamps EXCEPT !.legacy = @ + 1]
    /\ did' = Nothing
    /\ UNCHANGED <<project, docs, scripts, wsIndex, baseIndex, globals, cache, subs>>

ReadEnvironment(ini) ==
    /\ globals' = ParseScriptEnvironment(ini)
    /\ globals' # globals
    /\ stamps' = [stamps EXCEPT !.env = @ + 1]
    /\ did' = Nothing
    /\ UNCHANGED <<project, docs, scripts, wsIndex, baseIndex, hidden, cache, subs>>

-----------------------------------------------------------------------------
(* Diagnostics. *)

\* Variant: the legacy overrides are not part of it.
DbFingerprintBase == <<Surface(baseIndex), stamps.env>>

DbFingerprint == <<Surface(baseIndex), stamps.env, stamps.legacy>>

\* cst_diagnostics_with_cache reuses an entry of this parse and this database.
Usable(u) ==
    /\ u \in DOMAIN cache \cap DOMAIN docs
    /\ cache[u].parse = stamps.parse[u]
    /\ cache[u].fingerprint = DbFingerprint

Pull(u) ==
    /\ u \in DOMAIN docs
    /\ ~Usable(u)
    /\ cache' = With(cache, u, [parse |-> stamps.parse[u], fingerprint |-> DbFingerprint,
                                diagnostics |-> DiagnosticsOf(DB, u, docs[u])])
    /\ subs' = With(subs, u, LookupsOf(DB, u, docs[u]))
    /\ did' = Nothing
    /\ UNCHANGED <<project, docs, scripts, wsIndex, baseIndex, hidden, globals, stamps>>

-----------------------------------------------------------------------------
(* Edits the server makes. *)

\* What every name of the workspace means, and what is wrong with it.
Meaning ==
    [u \in DOMAIN docs |->
        [i \in Idents(docs[u].cst) |->
            LET def == DefinitionAt(DB, u, docs[u], i) IN IF def = <<>> THEN <<>> ELSE Key(def[1])]]

Problems(u) ==
    UNION {DiagnosticsOf(DB, u, docs[u]), SyntaxRules(docs[u]), DuplicateLocals(docs[u]), Shadowing(DB, docs[u])}

Reading ==
    [meaning    |-> Meaning,
     problems   |-> [u \in DOMAIN docs |-> Problems(u)],
     duplicates |-> DuplicateSymbols(wsIndex)]

\* The name is part of another: of a state's class, or of the engine's table.
Bound(s) ==
    \/ \E e \in Range(wsIndex.slots) : e.slot[1] = "state" /\ e.slot[2] = TypeName(s)
    \/ IsScriptImport(s)

RenameAt(u, i, new) ==
    /\ u \in DOMAIN docs
    /\ i \in Idents(docs[u].cst)
    /\ LET def   == DefinitionAt(DB, u, docs[u], i)
           texts == Renamed(DB, docs, def[1], new)
       IN  /\ def # <<>>
           /\ CanRename(DB, def[1])
           /\ def[1].uri \in DOMAIN docs
           /\ SetTexts([x \in DOMAIN docs |-> Parsed(texts[x])])
           /\ did' = [tag |-> "rename", bound |-> Bound(def[1].sym), before |-> Reading]

\* The tree without some subtrees.
Prune(cst, roots) ==
    LET gone == UNION {Below(cst, r) : r \in roots}
        kept == Ordered(DOMAIN cst \ gone)
        at(i) == i - Cardinality({g \in gone : g < i})
    IN  [k \in DOMAIN kept |->
            [cst[kept[k]] EXCEPT !.up   = IF @ = 0 THEN 0 ELSE at(@),
                                 !.last = @ - Cardinality({g \in gone : g <= @})]]

\* The quick fix "Remove unused" of a diagnostic.
RemoveUnused(u, i) ==
    /\ u \in DOMAIN docs
    /\ <<"unused_symbol", i>> \in UnusedIn(DB, u, docs[u])
    /\ SetTexts([x \in {u} |-> Parsed(Prune(docs[u].cst, Removal(docs[u], i)))])
    /\ did' = [tag |-> "remove", uri |-> u, before |-> Reading,
               gone |-> UNION {Below(docs[u].cst, r) : r \in Removal(docs[u], i)},
               parameter |-> "func_param_group" \in {Kind(docs[u], i), Kind(docs[u], Up(docs[u], i))}]

BodyOfCallable(u, callable) == BodyAt(DB, u, docs[u], docs[u].syms[callable].sel)

\* What the code does not look at: an inlined value may hold a field or a
\* call, and the statement deleted may be all there is to a branch.
Unseen(b, plan) ==
    \/ \E r \in DOMAIN plan.replace : \E n \in Range(plan.replace[r]) :
          n.kind = "func_call_expr" \/ (n.kind = "ident" /\ n.text \in FieldsOf(b))
    \/ \E g \in plan.gone : Swallowed(b.doc, g, plan.gone) >= 0

\* A refactoring that is offered somewhere in a callable is applied.
Refactor(u, callable, b, plans) ==
    \E plan \in plans :
        /\ \E doc \in {Parsed(Rebuilt(docs[u], 1, plan))} : SetTexts([x \in {u} |-> doc])
        /\ did' = [tag |-> "refactor", uri |-> u, callable |-> callable, verified |-> plan.verified,
                   unseen |-> Unseen(b, plan), runs |-> RunsOf(b)]

Inline(u, callable) ==
    \E b \in Range(BodyOfCallable(u, callable)) :
        Refactor(u, callable, b, UNION {Range(Offers("inline", b, i)) : i \in Below(docs[u].cst, b.node)})

Join(u, callable) ==
    \E b \in Range(BodyOfCallable(u, callable)) :
        Refactor(u, callable, b, UNION {Range(Offers("join", b, i)) : i \in Below(docs[u].cst, b.node)})

Split(u, callable) ==
    \E b \in Range(BodyOfCallable(u, callable)) :
        Refactor(u, callable, b, UNION {Range(Offers("split", b, i)) : i \in Below(docs[u].cst, b.node)})

-----------------------------------------------------------------------------

Init ==
    /\ project \in DOMAIN Projects
    /\ docs = Projects[project].start
    /\ wsIndex = LayerOf(docs)
    /\ scripts = Projects[project].base
    /\ baseIndex = LayerOf(scripts)
    /\ hidden = Projects[project].legacy
    /\ globals = ParseScriptEnvironment(<<>>)
    /\ stamps = [parse |-> [u \in DOMAIN Projects[project].files |-> 0], env |-> 0, legacy |-> 0]
    /\ cache = [u \in {} |-> 0]
    /\ subs = [u \in {} |-> {}]
    /\ did = Nothing

-----------------------------------------------------------------------------
(* Properties. *)

BagOf(seq) == [e \in Range(seq) |-> Cardinality({k \in DOMAIN seq : seq[k] = e})]

Catalog(layer) ==
    [types     |-> {<<d.uri, TypeName(d.sym), d.sym.kind>> : d \in layer.catalog.types},
     callables |-> {<<d.uri, d.sym.name>> : d \in layer.catalog.callables},
     members   |-> {d.sym.name : d \in layer.catalog.members}]

\* Whatever came and went before, the maps of the workspace index hold what
\* the files that are there declare, each entry once: nothing is left of a
\* file's earlier text (indices.rs, remove_from_indices undoes what
\* insert_into_indices did).
IndexExact ==
    BagOf(wsIndex.slots) = BagOf(FlattenSeq([k \in 1 .. Cardinality(DOMAIN docs) |->
                              LET u == SetToSeq(DOMAIN docs)[k] IN Entries(u, docs[u].syms)]))

\* The completion catalogs list what the index holds, although they are only
\* built again when a key of theirs changed.  (Which of two enum members of
\* one name is listed depends on which came last.)
CatalogFresh ==
    Catalog(wsIndex) = Catalog([catalog |-> BuildCatalog(wsIndex)])

\* Diagnostics that would be reused are the diagnostics the rules give now,
\* whatever changed in other files, in the base scripts, in the environment
\* or in the legacy overrides since they were computed.
DependentsCurrent ==
    \A u \in DOMAIN cache : Usable(u) => cache[u].diagnostics = DiagnosticsOf(DB, u, docs[u])

\* No definition that is shown lies in a base file a legacy override replaces.
HiddenSilent ==
    hidden # {} => \A u \in DOMAIN docs : \A i \in Idents(docs[u].cst) :
        LET def == DefinitionAt(DB, u, docs[u], i) IN def = <<>> \/ def[1].uri \notin hidden

ClassNames == {TypeName(e.sym) : e \in {x \in Range(TopLevels(wsIndex)) \cup Range(TopLevels(baseIndex)) :
                                           x.sym.kind \in Instantiable}}

MemberNamesAnywhere ==
    {e.sym.name : e \in {x \in Range(wsIndex.slots) \cup Range(baseIndex.slots) \cup Range(builtin.slots) :
                            x.slot[1] \in {"member", "annotated"}}}

TypesOffered ==
    LET visible == {d \in baseIndex.catalog.types : d.uri \notin hidden}
    IN  {TypeName(d.sym) : d \in MergeCatalogs(wsIndex.catalog.types, visible, TypesCompletionCatalog(builtin))}

TypesFound ==
    {n \in {TypeName(e.sym) : e \in Range(TopLevels(wsIndex)) \cup Range(TopLevels(baseIndex))
                                      \cup Range(TopLevels(builtin))} :
        LET def == FindTopLevelOfKind(DB, n, TypeKinds) IN def # <<>> /\ def[1].sym.origin # "builtin"}

\* Completion offers after a dot exactly the members that a name written
\* there would mean, at each level of access, and as types exactly the names
\* that mean one: the two walks over the layers agree.
CompletionAgrees ==
    /\ TypesOffered = TypesFound
    /\ \A c \in ClassNames, min \in {"private", "protected", "public"} :
          MembersOf(DB, <<c>>, min) = {n \in MemberNamesAnywhere : FindMember(DB, <<c>>, n, min) # <<>>}

AllDocs == [u \in DOMAIN docs \cup DOMAIN scripts |-> IF u \in DOMAIN docs THEN docs[u] ELSE scripts[u]]

\* What the server answers for the name at a place, <<>> when it has no
\* definition here or is not spelled as its definition (a global, wrappedMethod).
Asked(u, i) ==
    LET def == DefinitionAt(DB, u, docs[u], i)
    IN  IF def = <<>> THEN <<>>
        ELSE IF def[1].uri \notin DOMAIN AllDocs \/ Name(docs[u], i) \notin {def[1].sym.name, TypeName(def[1].sym)}
        THEN <<>>
        ELSE <<[refs  |-> ReferencesTo(DB, AllDocs, def[1], AllDocs[def[1].uri]),
                marks |-> {h[1] : h \in HighlightsAt(DB, u, docs[u], i)},
                defs  |-> DefinitionsAt(DB, u, docs[u], i),
                type  |-> TypeAt(DB, u, docs[u], i)]>>

\* The references of a name hold the name itself, and asked at any of them
\* there are no others: none is missed (a member added to a class may count
\* the one it replaces in a base class as its own, not the reverse).  The
\* highlights are the references of the file; going to the definition goes
\* to references or to the engine, and the definition of the type is a type.
NavigationAgrees ==
    LET asked == [u \in DOMAIN docs |-> [i \in Idents(docs[u].cst) |-> Asked(u, i)]]
    IN  \A u \in DOMAIN docs : \A i \in DOMAIN asked[u] :
          asked[u][i] # <<>> =>
            LET it == asked[u][i][1]
            IN  /\ <<u, i>> \in it.refs
                /\ it.marks = {r[2] : r \in {x \in it.refs : x[1] = u}}
                /\ \A d \in it.defs : d \in it.refs \/ d[1] \in DOMAIN builtin.docs
                /\ it.type = <<>> \/ it.type[1].sym.kind \in TypeKinds
                /\ \A r \in it.refs : r[1] \in DOMAIN docs =>
                      asked[r[1]][r[2]] # <<>> /\ asked[r[1]][r[2]][1].refs \subseteq it.refs

Places(problems) == {p[2] : p \in problems}

\* A rename to a name nobody uses changes what no name means and leaves no
\* place with a diagnostic that had none: every use of the declaration is
\* found, in every file, and nothing else is touched.  (It may end one:
\* overrides are not renamed.  Two kinds of name are left out: the owner of
\* a state, whose name is part of the state's class name, and what is
\* imported from the engine.)
RenameFollows ==
    did.tag = "rename" /\ ~did.bound =>
        /\ Meaning = did.before.meaning
        /\ \A u \in DOMAIN docs : Places(Problems(u)) \subseteq Places(did.before.problems[u])
        /\ DuplicateSymbols(wsIndex) \subseteq did.before.duplicates

\* Removing an unused local or field breaks nothing: no other diagnostic
\* appears anywhere, except that more may be unused.
RemovalIsSafe ==
    did.tag = "remove" /\ ~did.parameter =>
        LET at(u, i) == IF u = did.uri THEN i - Cardinality({g \in did.gone : g < i}) ELSE i
        IN  \A u \in DOMAIN docs :
               {p \in Problems(u) : p[1] # "unused_symbol"}
                   \subseteq {<<p[1], at(u, p[2])>> : p \in did.before.problems[u]}

SameRuns == \A b \in Range(BodyOfCallable(did.uri, did.callable)) : RunsOf(b) = did.runs

\* A refactoring that is offered as verified leaves alone what a callable
\* does, however it branches and loops, where the code has looked: moving a
\* value, it looks for writes to the locals the value names (body_model,
\* value_stability and value_hoistability; inline_var.rs; join_split_decl.rs).
RefactorsKeepRuns ==
    did.tag = "refactor" /\ did.verified /\ ~did.unseen => SameRuns

\* Every refactoring that is offered as verified leaves alone what a callable
\* does (edit_plan.rs, Confidence).
VerifiedIsFree ==
    did.tag = "refactor" /\ did.verified => SameRuns

CallablesOf(doc) == {s \in DOMAIN doc.syms : doc.syms[s].kind \in Callables}

\* Where one definition of a local is found to reach a read, no run of the
\* callable comes to that read with another: not over the back edge of a
\* loop, by break and continue, or falling through a switch
\* (reaching_defs.rs).
ReachingSound ==
    \A u \in DOMAIN docs : \A c \in CallablesOf(docs[u]) : \A b \in Range(BodyOfCallable(u, c)) :
        \A sole \in SoleDefs(b), met \in DefsMet(b) : sole[1] = met[1] => sole[2] = met[2]

=============================================================================
