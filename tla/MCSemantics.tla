---------------------------- MODULE MCSemantics ----------------------------
(* Small projects for Semantics: classes, enums and structs, states,       *)
(* annotations, a legacy override and the bodies of a method; each file in *)
(* a few versions.                                                         *)
EXTENDS Semantics

CONSTANTS Opened,      \* the projects opened, each with what is looked at there
          MaxSteps     \* the longest history, for each

VARIABLES focus, steps

-----------------------------------------------------------------------------
(* Scripts. *)

Id(n)   == N("ident", n, <<>>)
Ty(n)   == N("type_annot", "", <<As("type_name", Id(n))>>)
ArrayOf(n) == N("type_annot", "", <<As("type_name", Id("array")), Ty(n)>>)
Words(words) == [k \in DOMAIN words |-> N("specifier", words[k], <<>>)]
Note(name, arg) == <<As("annotation", N("annotation", "", <<N("annotation_ident", name, <<>>), As("arg", Id(arg))>>))>>

Class(words, name, ext, body) ==
    N("class_decl", "", Words(words) \o <<As("name", Id(name))>>
        \o (IF ext = "" THEN <<>> ELSE <<As("base", Id(ext))>>) \o <<N("class_def", "", body)>>)
Struct(name, body) == N("struct_decl", "", <<As("name", Id(name)), N("struct_def", "", body)>>)
Enum(name, members) ==
    N("enum_decl", "", <<As("name", Id(name)),
        N("enum_def", "", [k \in DOMAIN members |-> N("enum_member_decl", "", <<As("name", Id(members[k]))>>)])>>)
State(name, owner, ext, body) ==
    N("state_decl", "", <<As("name", Id(name)), As("parent", Id(owner))>>
        \o (IF ext = "" THEN <<>> ELSE <<As("base", Id(ext))>>) \o <<N("class_def", "", body)>>)
Var(before, names, type) ==
    N("member_var_decl", "", before \o [k \in DOMAIN names |-> As("names", Id(names[k]))] \o <<Ty(type)>>)
Default(member, value) == N("member_default_val", "", <<As("member", Id(member)), As("value", value)>>)
Param(words, name, type) == N("func_param_group", "", Words(words) \o <<As("names", Id(name)), Ty(type)>>)
Fun(before, name, params, type, body) ==
    N("func_decl", "", before \o <<As("name", Id(name)), As("params", N("func_params", "", params))>>
        \o (IF type = "" THEN <<>> ELSE <<Ty(type)>>) \o <<As("definition", N("func_block", "", body))>>)
LocalIs(name, type, value) ==
    N("local_var_decl_stmt", "", <<As("names", Id(name)), As("var_type", type), As("init_value", value)>>)
Local(name, type) == N("local_var_decl_stmt", "", <<As("names", Id(name)), As("var_type", type)>>)

Num       == N("literal_int", "1", <<>>)
This      == N("this_expr", "", <<>>)
Super     == N("super_expr", "", <<>>)
Parent    == N("parent_expr", "", <<>>)
Dot(a, n) == N("member_access_expr", "", <<As("accessor", a), As("member", Id(n))>>)
Call(f, args) ==
    N("func_call_expr", "", <<As("func", f)>>
        \o (IF args = <<>> THEN <<>>
            ELSE <<As("args", N("func_call_args", "", FlattenSeq([k \in DOMAIN args |->
                       IF k = 1 THEN <<args[k]>> ELSE <<N(",", "", <<>>), args[k]>>])))>>)
        \o <<N(")", "", <<>>)>>)
New(class) == N("new_expr", "", <<As("class", Id(class))>>)
At(a)      == N("array_expr", "", <<As("accessor", a), As("index", Num)>>)
To(l, kind, op, r) == N("assign_op_expr", "", <<As("left", l), As("op", N(kind, op, <<>>)), As("right", r)>>)
Gets(l, r) == To(l, "assign_op_direct", "=", r)
Do(e)      == N("expr_stmt", "", <<e>>)
Set(l, r)  == Do(Gets(l, r))
Add(l, r)  == Do(To(l, "assign_op_sum", "+=", r))
Return(e)  == N("return_stmt", "", <<e>>)
Event(name, params, type, body) ==
    N("event_decl", "", <<As("name", Id(name)), As("params", N("func_params", "", params)),
        As("return_type", N("type_annot", type, <<As("type_name", Id(type))>>)),
        As("definition", N("func_block", "", body))>>)
Binary(op, l, r) == N("binary_op_expr", "", <<As("left", l), As("op", N("op", op, <<>>)), As("right", r)>>)
Cast(class, e)   == N("cast_expr", "", <<As("type", Id(class)), As("value", e)>>)
Block(stmts)     == N("func_block", "", stmts)
If(c, s)         == N("if_stmt", "", <<As("cond", c), As("body", s)>>)
IfElse(c, s, t)  == N("if_stmt", "", <<As("cond", c), As("body", s), As("else", t)>>)
While(c, s)      == N("while_stmt", "", <<As("cond", c), As("body", s)>>)
DoWhile(s, c)    == N("do_while_stmt", "", <<As("body", s), As("cond", c)>>)
For(init, c, iter, s) == N("for_stmt", "", <<As("init", init), As("cond", c), As("iter", iter), As("body", s)>>)
Switch(c, sections) == N("switch_stmt", "", <<As("cond", c), As("body", N("switch_block", "", sections))>>)
Case(v)          == N("switch_case_label", "", <<As("value", v)>>)
Break            == N("break_stmt", "", <<>>)
Continue         == N("continue_stmt", "", <<>>)
Script(decls) == Document(N("script", "", decls))

-----------------------------------------------------------------------------
(* Projects. *)

ClassA1 == Script(<<Class(<<>>, "C", "", <<
    Var(Words(<<"private">>), <<"p">>, "int"), Default("p", Num), Var(<<>>, <<"x">>, "int"),
    Fun(<<>>, "m", <<Param(<<>>, "k", "int")>>, "int", <<Local("l", Ty("int")), Local("n", Ty("int")),
        Set(Id("l"), Id("k")), Return(Id("x"))>>)>>)>>)
ClassA2 == Script(<<Class(<<"abstract">>, "C", "", <<
    Var(<<>>, <<"x">>, "name"),
    Fun(<<>>, "m", <<Param(<<>>, "k", "int"), Param(<<"optional">>, "j", "C")>>, "C", <<Return(Id("x"))>>)>>)>>)
ClassB1 == Script(<<Class(<<>>, "D", "C", <<
    Fun(<<>>, "go", <<Param(<<>>, "o", "C")>>, "", <<
        Set(Dot(Id("o"), "x"), Call(Dot(This, "m"), <<Id("x")>>)), Do(Call(Dot(Super, "m"), <<Num, New("C")>>)),
        Set(Id("o"), This)>>)>>)>>)
ClassB2 == Script(<<Class(<<>>, "D", "", <<
    Var(<<>>, <<"x">>, "C"), Fun(<<>>, "go", <<>>, "", <<Do(Call(Dot(Id("x"), "m"), <<>>))>>)>>)>>)

EnumA1 == Script(<<Enum("E", <<"e1", "e2">>), Struct("V", <<Var(<<>>, <<"w">>, "int")>>),
    Fun(<<>>, "mk", <<Param(<<>>, "v", "V")>>, "V", <<Return(Id("v"))>>)>>)
EnumA2 == Script(<<Enum("E", <<"e1">>), Class(<<>>, "V", "", <<Var(<<>>, <<"w">>, "E")>>),
    Fun(<<>>, "mk", <<>>, "E", <<Return(Id("e1"))>>)>>)
EnumB1 == Script(<<Fun(<<>>, "f", <<>>, "", <<
    Local("a", ArrayOf("V")), Local("s", Ty("string")), Local("i", Ty("int")),
    Do(Call(Dot(Id("a"), "PushBack"), <<Call(Id("mk"), <<At(Id("a"))>>)>>)),
    Set(Id("s"), Id("e2")), Set(Id("i"), Dot(Call(Id("mk"), <<At(Id("a"))>>), "w")),
    Set(Id("i"), Dot(Id("theGame"), "x"))>>)>>)
EnumB2 == Script(<<Enum("F", <<"e2">>), Fun(<<>>, "f", <<>>, "", <<Do(Id("theGame")), Do(Call(Id("V"), <<>>))>>)>>)
GameBase1 == Script(<<Class(<<>>, "CR4Game", "", <<Var(<<>>, <<"x">>, "int")>>)>>)
GameBase2 == Script(<<Class(<<>>, "CR4Game", "", <<Var(Words(<<"private">>), <<"x">>, "int")>>), Class(<<>>, "V", "", <<>>)>>)

StateA1 == Script(<<Class(<<"statemachine">>, "S", "", <<Var(<<>>, <<"f">>, "int")>>),
    State("Idle", "S", "", <<Fun(<<>>, "g", <<>>, "int", <<Return(Dot(Parent, "f"))>>)>>)>>)
StateB1 == Script(<<State("Run", "S", "Idle", <<Fun(<<>>, "h", <<>>, "int", <<Return(Call(Id("g"), <<>>))>>)>>),
    Fun(<<>>, "use", <<Param(<<>>, "s", "SStateIdle"), Param(<<>>, "r", "SStateRun")>>, "int", <<
        Do(Call(Dot(Id("r"), "h"), <<>>)), Return(Call(Dot(Id("s"), "g"), <<>>))>>)>>)
StateB2 == Script(<<State("Idle", "T", "", <<>>), Class(<<>>, "T", "S", <<Fun(<<>>, "g", <<>>, "", <<>>)>>)>>)

NoteA1 == Script(<<Class(<<>>, "C", "", <<
    Fun(<<>>, "m", <<Param(<<>>, "k", "int")>>, "int", <<Return(Id("k"))>>)>>)>>)
NoteB1 == Script(<<
    Fun(Note("addMethod", "C"), "am", <<>>, "", <<Do(Call(Id("m"), <<Id("af")>>))>>),
    Fun(Note("wrapMethod", "C"), "m", <<Param(<<>>, "k", "int")>>, "int", <<
        Do(Call(Id("am"), <<>>)), Return(Call(Id("wrappedMethod"), <<Id("k")>>))>>),
    Var(Note("addField", "C"), <<"af">>, "int"),
    Fun(<<>>, "t", <<Param(<<>>, "c", "C")>>, "", <<
        Do(Call(Dot(Id("c"), "am"), <<>>)), Set(Dot(Id("c"), "af"), Call(Dot(Id("c"), "m"), <<Num>>))>>)>>)
NoteB2 == Script(<<Fun(Note("addMethod", "D"), "m", <<>>, "", <<>>), Class(<<>>, "D", "C", <<>>)>>)

LegacyBase == Script(<<Class(<<>>, "C", "", <<Var(<<>>, <<"x">>, "int"), Var(<<>>, <<"old">>, "int")>>),
                       Class(<<>>, "B", "C", <<>>)>>)
LegacyA1 == Script(<<Class(<<>>, "C", "", <<Var(<<>>, <<"x", "y">>, "int")>>)>>)
LegacyA2 == Script(<<Class(<<>>, "B", "", <<Var(<<>>, <<"x">>, "name")>>)>>)
LegacyB1 == Script(<<Class(<<>>, "D", "C", <<Fun(<<>>, "f", <<Param(<<>>, "b", "B")>>, "", <<
    Set(Id("y"), Dot(Id("b"), "x")), Set(Id("old"), Id("x"))>>)>>)>>)

OverrideA1 == Script(<<Class(<<>>, "C", "", <<Fun(<<>>, "m", <<Param(<<>>, "k", "int")>>, "", <<>>)>>)>>)
OverrideA2 == Script(<<Class(<<>>, "C", "", <<Fun(<<>>, "m", <<>>, "", <<>>)>>)>>)
OverrideB1 == Script(<<Class(<<>>, "D", "C", <<Fun(<<>>, "m", <<Param(<<>>, "k", "int")>>, "", <<>>)>>)>>)

EventA1 == Script(<<Class(<<>>, "H", "", <<
    Var(Words(<<"private">>), <<"q", "r">>, "int"), Default("q", N("literal_hex", "0x1", <<>>)),
    N("member_hint", "", <<As("member", Id("r"))>>),
    N("member_default_val_block", "", <<N("member_default_val_block_assign", "", <<As("member", Id("r")),
        As("value", New("H"))>>)>>),
    N("autobind_decl", "", <<As("name", Id("ab")), Ty("H")>>),
    Event("OnE", <<Param(<<>>, "k", "int")>>, "int", <<
        N("return_stmt", "", <<>>),
        N("local_var_decl_stmt", "", <<As("names", Id("late")), As("var_type", Ty("H")),
                                       As("init_value", Cast("H", Id("ab")))>>),
        Set(Id("k"), Binary("+", Binary("&&", Num, Num), Id("q"))), N("ERROR", "", <<Id("lost")>>)>>)>>),
    Struct("V", <<Var(Words(<<"private">>), <<"f">>, "int")>>)>>)
EventB1 == Script(<<
    Fun(Words(<<"import">>), "Log", <<>>, "", <<>>), Fun(Words(<<"import">>), "Lag", <<>>, "", <<>>),
    Fun(<<>>, "u", <<Param(<<>>, "h", "H")>>, "", <<Do(Call(Dot(Id("h"), "OnE"), <<Num>>)), Do(Call(Id("Log"), <<>>)),
        Set(Dot(Id("h"), "q"), Dot(Id("h"), "ab"))>>)>>)
EventB2 == Script(<<Fun(<<>>, "u", <<Param(<<>>, "h", "H")>>, "", <<
    Do(Call(Id("Log"), <<>>)), Do(Call(Dot(Id("h"), "nm"), <<>>)), Do(Call(Dot(Id("theGame"), "nm"), <<>>))>>)>>)

\* A method over a local, a parameter and a field: every sequence of two of
\* these statements behind each of these declarations.
A == Id("a")
K == Id("k")
Use(e) == Do(Call(Id("Foo"), <<e>>))

Statements ==
    {Set(A, K), Set(K, Num), Use(A), Set(A, Binary("+", K, Id("h"))), Set(Id("h"), A), Add(A, Num),
     Do(Call(Id("Get"), <<A>>)), Return(A), LocalIs("c", Ty("int"), A),
     If(K, Set(A, Num)),
     IfElse(K, Block(<<Set(A, K)>>), Block(<<Use(A), Return(K)>>)),
     While(K, Block(<<Use(A), If(A, Block(<<Continue>>)), Set(A, K)>>)),
     DoWhile(Block(<<Set(A, K), If(K, Block(<<Break>>)), Set(K, A)>>), A),
     For(Gets(A, Num), A, Gets(A, K), Block(<<If(K, Block(<<Set(K, A), Break>>))>>)),
     Switch(A, <<Case(Num), Set(A, Num), Break, Case(K), Set(K, Num), N("switch_default_label", "", <<>>), Set(A, K)>>)}

Declarations == {Local("a", Ty("int")), LocalIs("a", Ty("int"), K), LocalIs("a", Ty("int"), Call(Id("Foo"), <<Num>>))}

BodyOf(stmts) ==
    Script(<<Class(<<>>, "C", "", <<Var(<<>>, <<"h">>, "int"),
                 Fun(<<>>, "f", <<Param(<<>>, "k", "int")>>, "int", stmts)>>),
             Fun(<<>>, "Foo", <<Param(<<>>, "v", "int")>>, "int", <<>>),
             Fun(<<>>, "Get", <<Param(<<"out">>, "v", "int")>>, "", <<>>)>>)

BodyTexts == {BodyOf(<<d, s, t, Use(A)>>) : d \in Declarations, s \in Statements, t \in Statements}

MCProjects ==
  LET Two(a, b)   == "a.ws" :> a @@ "b.ws" :> b
      One(u, doc) == u :> doc
  IN
    [classes  |-> [files |-> Two({ClassA1, ClassA2}, {ClassB1, ClassB2}), start |-> Two(ClassA1, ClassB1),
                   base |-> <<>>, bases |-> {}, legacy |-> {}],
     enums    |-> [files |-> Two({EnumA1, EnumA2}, {EnumB1, EnumB2}), start |-> Two(EnumA1, EnumB1),
                   base |-> One("game.ws", GameBase1), bases |-> {One("game.ws", GameBase1), One("game.ws", GameBase2)},
                   legacy |-> {}],
     states   |-> [files |-> Two({StateA1}, {StateB1, StateB2}), start |-> Two(StateA1, StateB1),
                   base |-> <<>>, bases |-> {}, legacy |-> {}],
     notes    |-> [files |-> Two({NoteA1, ClassA1}, {NoteB1, NoteB2}), start |-> Two(NoteA1, NoteB1),
                   base |-> <<>>, bases |-> {}, legacy |-> {}],
     legacy   |-> [files |-> Two({LegacyA1, LegacyA2}, {LegacyB1}), start |-> Two(LegacyA1, LegacyB1),
                   base |-> One("base.ws", LegacyBase), bases |-> {}, legacy |-> {"base.ws"}],
     events   |-> [files |-> Two({EventA1}, {EventB1, EventB2}), start |-> Two(EventA1, EventB1),
                   base |-> <<>>, bases |-> {}, legacy |-> {}],
     bodies   |-> [files |-> One("a.ws", BodyTexts), start |-> One("a.ws", BodyOf(<<>>)),
                   base |-> <<>>, bases |-> {}, legacy |-> {}],
     override |-> [files |-> Two({OverrideA1, OverrideA2}, {OverrideB1}), start |-> Two(OverrideA1, OverrideB1),
                   base |-> <<>>, bases |-> {}, legacy |-> {}]]

MCBuiltins ==
  LET Natives(syms) == [cst |-> <<>>, syms |-> syms] IN
    [u \in {"array.ws", "CObject.ws", "state.ws", "IScriptable.ws", "game.native", "globals.ws"} |->
        CASE u = "array.ws" -> GenericDocument(Script(<<Class(<<"import">>, "array", "", <<
                                   Fun(<<>>, "PushBack", <<Param(<<>>, "e", "T")>>, "", <<>>)>>)>>))
          [] u = "CObject.ws"     -> Natives(TypeSymbols("class", "CObject", "IScriptable", <<>>))
          [] u = "state.ws"       -> Natives(TypeSymbols("class", "CScriptableState", "IScriptable", <<>>))
          [] u = "IScriptable.ws" -> Natives(TypeSymbols("class", "IScriptable", "", <<<<"method", "nm", <<>>>>>>))
          [] u = "game.native"    -> Natives(TypeSymbols("class", "CR4Game", "CObject", <<
                                        <<"field", "x", <<"int">>>>, <<"method", "nm", <<>>>>>>))
          [] u = "globals.ws"     -> Natives(GlobalSymbols(<<"Log">>))]

Inis == {<<>>, <<[tag |-> "section", name |-> "globals", type |-> ""],
                 [tag |-> "entry", name |-> "theGame", type |-> "V"]>>}

-----------------------------------------------------------------------------
(* The library that answers. *)

MCParsed(cst) == LET doc == Document(cst) IN doc
MCDefinitionAt(db, uri, doc, i) == LET def == ResolveDefinition(db, uri, doc, i) IN def
MCDefinitionsAt(db, uri, doc, i) == LET defs == ResolveAllDefinitions(db, uri, doc, i) IN defs
MCTypeAt(db, uri, doc, i) == LET def == ResolveTypeDefinition(db, uri, doc, i) IN def
MCReferencesTo(db, files, def, home) == LET refs == FindReferences(db, files, def, home) IN refs
MCHighlightsAt(db, uri, doc, i) == LET marks == DocumentHighlights(db, uri, doc, i) IN marks
MCRenamed(db, files, def, new) == LET texts == Rename(db, files, def, new) IN texts
MCDiagnosticsOf(db, uri, doc) == LET found == Diagnostics(db, uri, doc) IN found
MCLookupsOf(db, uri, doc) == LET keys == Observed(db, uri, doc) IN keys
MCUnusedIn(db, uri, doc) == LET found == UnusedSymbol(db, uri, doc) IN found
MCBodyAt(db, uri, doc, at) == LET body == BodyModel(db, uri, doc, at) IN body
MCOffers(kind, b, at) ==
    LET plan == CASE kind = "inline" -> InlineVariable(b, at)
                  [] kind = "join"   -> JoinDeclaration(b, at)
                  [] kind = "split"  -> SplitDeclaration(b, at)
    IN  plan
MCRunsOf(b) == LET runs == Runs(b) IN runs
MCSoleDefs(b) == LET sole == SoleReaching(b) IN sole
MCDefsMet(b) == LET met == ReallyReaching(b) IN met

-----------------------------------------------------------------------------

allVars == <<vars, focus, steps>>

\* What a scan may find: a version of each file.
Scans(p) ==
    {new \in [DOMAIN Projects[p].files -> UNION {Projects[p].files[u] : u \in DOMAIN Projects[p].files}] :
        \A u \in DOMAIN new : new[u] \in Projects[p].files[u]}

Used == UNION {{docs[u].cst[i].text : i \in DOMAIN docs[u].cst} : u \in DOMAIN docs}

IndexNext ==
    \/ \E u \in DOMAIN Projects[project].files : \E doc \in Projects[project].files[u] : Update(u, doc)
    \/ \E u \in DOMAIN docs : Drop(u)

MCNext ==
    /\ steps < MaxSteps[focus]
    /\ steps' = steps + 1
    /\ UNCHANGED focus
    /\ \/ focus # "bodies" /\ IndexNext
       \/ /\ focus = "bodies"
          /\ \/ steps = 0 /\ \E doc \in Projects[project].files["a.ws"] : Update("a.ws", doc)
             \/ steps > 0 /\ \E u \in DOMAIN docs : \E c \in CallablesOf(docs[u]) :
                                  Inline(u, c) \/ Join(u, c) \/ Split(u, c)
       \/ /\ focus = "index"
          /\ \E new \in Scans(project) : IndexWorkspace(new)
       \/ /\ focus = "cache"
          /\ \/ \E u \in DOMAIN docs : Pull(u)
             \/ \E files \in Projects[project].bases : IndexBase(files)
             \/ \E uris \in SUBSET Projects[project].legacy : Hide(uris)
             \/ \E ini \in Inis : ReadEnvironment(ini)
       \/ /\ focus = "edits"
          /\ did.tag = "other"
          /\ \/ \E u \in DOMAIN docs, new \in Fresh \ Used : \E i \in Idents(docs[u].cst) : RenameAt(u, i, new)
             \/ \E u \in DOMAIN docs : \E i \in DOMAIN docs[u].cst : RemoveUnused(u, i)

MCMaxSteps == [bodies |-> 2, index |-> 2, edits |-> 2, cache |-> 4]

MCInit == Init /\ focus \in {o[1] : o \in Opened} /\ <<focus, project>> \in Opened /\ steps = 0

\* The bodies of a method.
BodiesOpened == {<<"bodies", "bodies">>}

\* The kept diagnostics are followed in all but "override", where a rule makes
\* a lookup that is not written down.
AllOpened ==
    BodiesOpened \cup ({"index", "edits"} \X (DOMAIN Projects \ {"bodies"}))
                 \cup ({"cache"} \X (DOMAIN Projects \ {"bodies", "override"}))

\* A method and its override.
OverrideOpened == {<<"cache", "override">>}

\* NavigationAgrees, looked at where nothing but the index changes: the
\* references of every name, asked at each of its uses (definition.rs,
\* references.rs, document_highlight.rs).
Navigation == focus = "index" => NavigationAgrees

\* CompletionAgrees, looked at where no diagnostics are kept (they change
\* nothing in the index) and the declarations vary: completion offers what a
\* name written there would mean (completion.rs, completion_catalog.rs).
CompletionResolves == focus # "bodies" /\ DOMAIN cache = {} => CompletionAgrees

MCSpec == MCInit /\ [][MCNext]_allVars
=============================================================================
