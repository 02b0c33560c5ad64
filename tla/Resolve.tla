------------------------------- MODULE Resolve -------------------------------
(***************************************************************************)
(* What a name in a script means: the context of an identifier, the types  *)
(* of expressions, definitions, references, highlights and renaming.       *)
(* `doc` is the document of `uri`, `i` a node of its tree and `at` a place *)
(* in it.                                                                  *)
(***************************************************************************)
EXTENDS SymbolIndex

-----------------------------------------------------------------------------
(* The grammar's accessors. *)

Kind(doc, i) == IF i = 0 THEN "" ELSE doc.cst[i].kind
Up(doc, i)   == doc.cst[i].up
Name(doc, i) == doc.cst[i].text
Part(doc, i, field) == Field(doc.cst, i, field)

\* Fields can be lost in error recovery; the position of the child remains.
CallCallee(doc, i) ==
    IF Part(doc, i, "func") # 0 THEN Part(doc, i, "func") ELSE NthNamed(doc.cst, i, 1)

MemberAccessMember(doc, i) ==
    IF Part(doc, i, "member") # 0 THEN Part(doc, i, "member") ELSE NthNamed(doc.cst, i, 2)

Receiver(doc, i) == NthNamed(doc.cst, i, 1)

CalleeIdent(doc, i) ==
    LET member == MemberAccessMember(doc, i)
    IN  CASE Kind(doc, i) = "ident" -> i
          [] Kind(doc, i) \in {"member_access_expr", "incomplete_member_access_expr"}
                /\ Kind(doc, member) = "ident" -> member
          [] OTHER -> 0

\* One slot per argument position; 0 where nothing is written.
ArgSlots(doc, call) ==
    LET args  == Part(doc, call, "args")
        kids  == Ordered(Kids(doc.cst, args))
        close == SelectSeq(kids \o <<0>>, LAMBDA j : j = 0 \/ Kind(doc, j) = ",")
        slot(k) == LET from == IF k = 1 THEN args ELSE close[k - 1]
                       in   == {j \in Range(kids) : /\ j > from /\ (close[k] = 0 \/ j < close[k])
                                                    /\ Kind(doc, j) \notin {",", "comment"}}
                   IN  IF in = {} THEN 0 ELSE Max(in)
    IN  IF args = 0 THEN <<>> ELSE [k \in DOMAIN close |-> slot(k)]

RECURSIVE WriteTarget(_, _)
WriteTarget(doc, i) ==
    CASE Kind(doc, i) = "ident"              -> i
      [] Kind(doc, i) = "member_access_expr" -> WriteTarget(doc, MemberAccessMember(doc, i))
      [] Kind(doc, i) = "nested_expr"        -> WriteTarget(doc, NthNamed(doc.cst, i, 1))
      [] Kind(doc, i) = "array_expr"         -> WriteTarget(doc, Part(doc, i, "accessor"))
      [] OTHER -> 0

IsAssignmentTarget(doc, i) ==
    LET assign == FindAncestor(doc.cst, i, {"assign_op_expr"})
        left   == IF assign = 0 THEN 0 ELSE Part(doc, assign, "left")
    IN  left # 0 /\ WriteTarget(doc, left) = i

DefaultKinds == {"member_default_val", "member_default_val_block_assign"}

DefaultOrHint(doc, i) ==
    LET up == Up(doc, i)
    IN  CASE doc.cst[i].field # "member" -> ""
          [] Kind(doc, up) \in DefaultKinds  -> "default"
          [] Kind(doc, up) = "member_hint"   -> "hint"
          [] OTHER -> ""

-----------------------------------------------------------------------------
(* The context of an identifier: which kinds of symbol it may mean. *)

AllKinds == TypeKinds \cup Callables \cup Locals \cup {"field", "enum_member"}

Context(tag, owner) == [tag |-> tag, owner |-> owner]
NoContext == Context("none", "")

Accepts(ctx) ==
    CASE ctx.tag = "type"     -> TypeKinds
      [] ctx.tag = "state"    -> {"state"}
      [] ctx.tag = "callable" -> {"function", "event", "struct"}
      [] ctx.tag = "value"    -> AllKinds

IsNamedBinding(doc, i) ==
    /\ Kind(doc, Up(doc, i)) \in {"local_var_decl_stmt", "member_var_decl", "func_param_group"}
    /\ doc.cst[i].field = "names"

IsDeclaration(doc, i) ==
    \/ IsNamedBinding(doc, i)
    \/ /\ Kind(doc, Up(doc, i)) \in {"class_decl", "struct_decl", "enum_decl", "state_decl", "func_decl",
                                     "event_decl", "autobind_decl", "enum_member_decl"}
       /\ doc.cst[i].field = "name"

TypeReference(doc, i) ==
    LET up   == Up(doc, i)
        is(kind, field) == Kind(doc, up) = kind /\ doc.cst[i].field = field
    IN  CASE is("state_decl", "base") ->
                Context("state", TextAt(doc.cst, NthKind(doc.cst, up, "ident", 2)))
          [] \/ is("state_decl", "parent")    \/ is("class_decl", "base")
             \/ is("type_annot", "type_name") \/ is("new_expr", "class")
             \/ is("annotation", "arg")       \/ is("cast_expr", "type") -> Context("type", "")
          [] OTHER -> NoContext

ClassifyIdent(doc, i) ==
    LET up == Up(doc, i)
    IN  CASE IsDeclaration(doc, i) -> NoContext
          [] ~IsDeclaration(doc, i) /\ TypeReference(doc, i) # NoContext -> TypeReference(doc, i)
          [] \/ DefaultOrHint(doc, i) # ""
             \/ Kind(doc, up) = "member_access_expr" /\ Part(doc, up, "member") = i -> NoContext
          [] Kind(doc, up) = "func_call_expr" /\ Part(doc, up, "func") = i -> Context("callable", "")
          [] OTHER -> Context("value", "")

-----------------------------------------------------------------------------
(* The class a place is in. *)

TypeContext(db, doc, at) ==
    LET type     == EnclosingSymbolAt(doc, at, Instantiable)
        callable == EnclosingSymbolAt(doc, at, Callables)
        none     == [name |-> "", base |-> "", owner |-> ""]
    IN  IF type # 0
        THEN LET s == doc.syms[type]
             IN  [name |-> TypeName(s), base |-> SuperclassOf(db, TypeName(s)), owner |-> s.owner]
        ELSE IF callable = 0 THEN none
        ELSE LET s      == doc.syms[callable]
                 target == TargetClass(s)
                 def    == FindTopLevel(db, target)
             IN  IF s.up # 0 \/ s.kind # "function" \/ target = "" THEN none
                 ELSE [name |-> target, base |-> SuperclassOf(db, target),
                       owner |-> IF def = <<>> THEN "" ELSE def[1].sym.owner]

-----------------------------------------------------------------------------
(* Names. *)

Here(uri, doc, id) ==
    IF id = 0 THEN <<>> ELSE <<[slot |-> <<"document">>, uri |-> uri, sym |-> doc.syms[id]]>>

LocalOrParameter(uri, doc, at, name) ==
    LET callable == EnclosingSymbolAt(doc, at, Callables)
    IN  IF callable = 0 THEN <<>> ELSE Here(uri, doc, LocalAtByte(doc, callable, name, at))

\* Members of a type of the same document come first.
DocumentMember(uri, doc, container, name, min) ==
    LET type == TypeByName(doc, Head(container))
        own  == IF Len(container) > 1 \/ type = 0 THEN <<>>
                ELSE SelectSeq(MembersNamed(doc, type, name), LAMBDA s : Rank(s.access) >= Rank(min))
    IN  Here(uri, doc, FirstOf(own))

MemberOf(db, uri, doc, container, name, min) ==
    OrElse(DocumentMember(uri, doc, container, name, min), FindMember(db, container, name, min))

CurrentTypeMember(db, uri, doc, at, name) ==
    LET type == TypeContext(db, doc, at).name
    IN  IF type = "" THEN <<>> ELSE MemberOf(db, uri, doc, <<type>>, name, "private")

ResolveName(db, uri, doc, at, name) ==
    OrElse(LocalOrParameter(uri, doc, at, name),
    OrElse(CurrentTypeMember(db, uri, doc, at, name),
    OrElse(Here(uri, doc, TopLevelByName(doc, name)),
    OrElse(FindTopLevel(db, name),
    OrElse(FindEnumMember(db, name), FindScriptGlobal(db, name))))))

ResolveInContext(db, uri, doc, at, name, ctx) ==
    LET inner == OrElse(LocalOrParameter(uri, doc, at, name), CurrentTypeMember(db, uri, doc, at, name))
        top   == OrElse(Here(uri, doc, TopLevelOfKind(doc, name, Accepts(ctx))),
                        FindTopLevelOfKind(db, name, Accepts(ctx)))
    IN  CASE ctx.tag = "type"     -> top
          [] ctx.tag = "state"    -> FindStateInOwnerChain(db, ctx.owner, name)
          [] ctx.tag = "callable" -> OrElse(inner, OrElse(top, FindScriptGlobal(db, name)))
          [] ctx.tag = "value"    ->
                OrElse(inner, OrElse(top, OrElse(FindEnumMember(db, name), FindScriptGlobal(db, name))))

-----------------------------------------------------------------------------
(* Types of expressions. *)

NamedOrUnknown(name) == IF name = "" THEN Unknown ELSE FromAnnotation(<<name>>)

DefinitionType(def) ==
    IF def.sym.type # <<>> THEN def.sym.type
    ELSE IF def.sym.kind = "enum_member" THEN FromAnnotation(<<def.sym.of>>)
    ELSE <<>>

\* <<>> when the name has no type.
NameType(db, uri, doc, at, name) ==
    LET def == ResolveInContext(db, uri, doc, at, name, Context("value", ""))
    IN  IF def # <<>> /\ DefinitionType(def[1]) # <<>> THEN DefinitionType(def[1])
        ELSE IF name \in DOMAIN db.globals THEN FromAnnotation(<<db.globals[name]>>)
        ELSE <<>>

Numeric == {"byte", "int", "Int16", "Int8", "Uint16", "Uint32", "Uint64", "float"}

NumericWiden(l, r) ==
    CASE l \notin Numeric \/ r \notin Numeric -> Unknown
      [] l = r                                -> <<l>>
      [] "float" \in {l, r}                   -> <<"float">>
      [] {l, r} \subseteq {"int", "byte"}     -> <<"int">>
      [] OTHER                                -> Unknown

IsKind(db, name, kinds) ==
    LET def == FindTopLevel(db, name) IN def # <<>> /\ def[1].sym.kind \in kinds

ArithmeticJoin(db, l, r) ==
    LET struct(t) == IsNamed(t) /\ IsKind(db, t[1], {"struct"})
        number(t) == Len(t) = 1 /\ t[1] \in Numeric
    IN  CASE IsPrimitive(l) /\ IsPrimitive(r) -> NumericWiden(l[1], r[1])
          [] IsNamed(l) /\ l = r /\ struct(l) -> l
          [] struct(l) /\ number(r)           -> l
          [] number(l) /\ struct(r)           -> r
          [] OTHER                            -> Unknown

LiteralType(kind) ==
    CASE kind \in {"literal_int", "literal_hex"} -> <<"int">>
      [] kind = "literal_float"  -> <<"float">>
      [] kind = "literal_bool"   -> <<"bool">>
      [] kind = "literal_string" -> <<"string">>
      [] kind = "literal_name"   -> <<"name">>
      [] kind = "literal_null"   -> Null

BoolOps == {"&&", "||", "==", "!=", "<", "<=", ">", ">="}
BitOps  == {"|", "&", "^"}

RECURSIVE InferType(_, _, _, _, _), ResolveMemberAccess(_, _, _, _)
InferType(db, uri, doc, i, at) ==
    LET kind    == Kind(doc, i)
        infer(j) == IF j = 0 THEN Unknown ELSE InferType(db, uri, doc, j, at)
        op      == TextAt(doc.cst, Part(doc, i, "op"))
        left    == infer(Part(doc, i, "left"))
        right   == infer(Part(doc, i, "right"))
        known(t) == IF t = <<>> THEN Unknown ELSE t
        named(j) == IF Kind(doc, j) = "ident" THEN NamedOrUnknown(Name(doc, j)) ELSE Unknown
    IN  CASE kind = "ident"              -> known(NameType(db, uri, doc, at, Name(doc, i)))
          [] kind = "func_call_expr"     -> infer(CallCallee(doc, i))
          [] kind = "member_access_expr" ->
                LET member == MemberAccessMember(doc, i)
                    def    == IF Kind(doc, member) = "ident"
                              THEN ResolveMemberAccess(db, uri, doc, member) ELSE <<>>
                IN  IF def = <<>> THEN Unknown ELSE known(def[1].sym.type)
          [] kind = "this_expr"          -> NamedOrUnknown(TypeContext(db, doc, at).name)
          [] kind = "super_expr"         -> NamedOrUnknown(TypeContext(db, doc, at).base)
          [] kind \in {"parent_expr", "virtual_parent_expr"} -> NamedOrUnknown(TypeContext(db, doc, at).owner)
          [] kind = "new_expr"           -> named(Part(doc, i, "class"))
          [] kind = "cast_expr"          -> named(Part(doc, i, "type"))
          [] kind = "nested_expr"        -> infer(NthNamed(doc.cst, i, 1))
          [] kind = "array_expr"         ->
                LET type == infer(Part(doc, i, "accessor"))
                IN  IF type[1] \in {"array", "map"} THEN Element(type) ELSE Unknown
          [] kind = "binary_op_expr"     ->
                CASE op \in BoolOps -> <<"bool">>
                  [] op \in BitOps  -> <<"int">>
                  [] op = "+" /\ (left \in {<<"string">>, <<"name">>} \/ right \in {<<"string">>, <<"name">>})
                        -> <<"string">>
                  [] OTHER -> ArithmeticJoin(db, left, right)
          [] kind = "unary_op_expr"      ->
                CASE op = "!" -> <<"bool">> [] op = "~" -> <<"int">> [] OTHER -> right
          [] kind \in {"literal_int", "literal_hex", "literal_float", "literal_bool",
                       "literal_string", "literal_name", "literal_null"} -> LiteralType(kind)
          [] OTHER -> Unknown

\* A member after a dot, by the type of what is before it.
ResolveMemberAccess(db, uri, doc, i) ==
    LET receiver == Receiver(doc, Up(doc, i))
        kind     == Kind(doc, receiver)
        ctx      == TypeContext(db, doc, i)
        name     == Name(doc, i)
        in(type, min) == IF LookupCtor(type) = "" THEN <<>> ELSE MemberOf(db, uri, doc, type, name, min)
        found(class, min) == IF class = "" THEN <<>> ELSE FindMember(db, <<class>>, name, min)
    IN  CASE Kind(doc, Up(doc, i)) # "member_access_expr" -> <<>>
          [] kind = "this_expr" -> IF ctx.name = "" THEN <<>> ELSE in(<<ctx.name>>, "private")
          [] kind = "super_expr" -> found(ctx.base, "protected")
          [] kind \in {"parent_expr", "virtual_parent_expr"} -> found(ctx.owner, "public")
          [] kind = "ident" -> in(NameType(db, uri, doc, i, Name(doc, receiver)), "public")
          [] kind \in {"func_call_expr", "member_access_expr", "array_expr"} ->
                in(InferType(db, uri, doc, receiver, i), "public")
          [] OTHER -> <<>>

-----------------------------------------------------------------------------
(* Definitions. *)

Key(def) == <<def.uri, def.sym.sel>>

IsWrappedMethodMacro(doc, i) ==
    Name(doc, i) = "wrappedMethod" /\ Kind(doc, Up(doc, i)) # "member_access_expr"

WrapTarget(s) ==
    LET wraps == SelectSeq(s.notes, LAMBDA n : n.name = "wrapMethod")
    IN  IF wraps = <<>> THEN "" ELSE Head(wraps).argument

ResolveWrappedMethod(db, doc, i) ==
    LET callable == EnclosingSymbolAt(doc, i, {"function"})
    IN  IF ~IsWrappedMethodMacro(doc, i) \/ callable = 0 THEN <<>>
        ELSE IF WrapTarget(doc.syms[callable]) = "" THEN <<>>
        ELSE FindClassBodyMember(db, WrapTarget(doc.syms[callable]), doc.syms[callable].name)

AtDefinitionSite(uri, doc, i) ==
    Here(uri, doc, FirstOf(SelectSeq(doc.syms, LAMBDA s : s.sel = i)))

ClassifyDefinition(db, uri, doc, i) ==
    LET up  == Up(doc, i)
        ctx == ClassifyIdent(doc, i)
    IN  IF Kind(doc, up) = "member_access_expr" /\ Receiver(doc, up) # i
        THEN ResolveMemberAccess(db, uri, doc, i)
        ELSE IF ctx # NoContext THEN ResolveInContext(db, uri, doc, i, Name(doc, i), ctx)
        ELSE ResolveName(db, uri, doc, i, Name(doc, i))

ResolveIdent(db, uri, doc, i) ==
    OrElse(ResolveWrappedMethod(db, doc, i),
           OrElse(AtDefinitionSite(uri, doc, i), ClassifyDefinition(db, uri, doc, i)))

SelfKinds == {"this_expr", "super_expr", "parent_expr", "virtual_parent_expr"}

ResolveSelfKeyword(db, uri, doc, i) ==
    LET ctx  == TypeContext(db, doc, i)
        name == CASE Kind(doc, i) = "this_expr"  -> ctx.name
                  [] Kind(doc, i) = "super_expr" -> ctx.base
                  [] OTHER                       -> ctx.owner
    IN  IF name = "" THEN <<>>
        ELSE OrElse(Here(uri, doc, TopLevelByName(doc, name)), FindTopLevel(db, name))

ResolveDefinition(db, uri, doc, i) ==
    IF Kind(doc, i) \in SelfKinds THEN ResolveSelfKeyword(db, uri, doc, i)
    ELSE ResolveIdent(db, uri, doc, i)

\* The class and the name that all declarations of a member share.
LogicalMember(s) ==
    CASE s.kind \in {"field", "function"} /\ s.up = 0 -> TargetClass(s)
      [] s.kind \in {"method", "field"}               -> s.of
      [] OTHER                                        -> ""

AllDeclarationsOf(db, def) ==
    LET container == LogicalMember(def.sym)
    IN  IF container = "" THEN {Key(def)}
        ELSE {Key(d) : d \in Range(AllMemberDeclarations(db, container, def.sym.name))} \cup {Key(def)}

OverridesAt(db, doc, i) ==
    LET up    == Up(doc, i)
        owner == TypeContext(db, doc, i).owner
    IN  IF Kind(doc, up) # "member_access_expr" \/ Kind(doc, Receiver(doc, up)) # "virtual_parent_expr"
           \/ owner = "" THEN {}
        ELSE {Key(d) : d \in VirtualParentOverrides(db, owner, Name(doc, i))}

ResolveAllDefinitions(db, uri, doc, i) ==
    LET def    == ResolveDefinition(db, uri, doc, i)
        native == IF def = <<>> \/ Key(def[1]) # <<uri, i>> \/ ~IsScriptImport(def[1].sym) THEN <<>>
                  ELSE NativeCounterpart(db, def[1].sym)
    IN  CASE def = <<>> -> {}
          [] def # <<>> /\ Kind(doc, i) \in SelfKinds -> AllDeclarationsOf(db, def[1])
          [] def # <<>> /\ native # <<>> -> {Key(native[1])}
          [] def # <<>> /\ IsWrappedMethodMacro(doc, i) -> {Key(def[1])}
          [] OTHER -> AllDeclarationsOf(db, def[1]) \cup OverridesAt(db, doc, i)

ResolveTypeDefinition(db, uri, doc, i) ==
    LET def  == ResolveDefinition(db, uri, doc, i)
        type == IF def = <<>> THEN <<>> ELSE DefinitionType(def[1])
    IN  IF def = <<>> THEN <<>>
        ELSE IF def[1].sym.kind \in TypeKinds THEN def
        ELSE IF LookupCtor(type) = "" THEN <<>> ELSE FindTopLevel(db, LookupCtor(type))

CalleeParams(db, uri, doc, call) ==
    LET ident == IF CallCallee(doc, call) = 0 THEN 0 ELSE CalleeIdent(doc, CallCallee(doc, call))
        def   == IF ident = 0 THEN <<>> ELSE ResolveDefinition(db, uri, doc, ident)
    IN  IF def = <<>> THEN <<>>
        ELSE IF def[1].sym.kind \notin Callables THEN <<>>
        ELSE <<ParametersOf(db, def[1])>>

-----------------------------------------------------------------------------
(* References. `docs` is the documents that are searched. *)

\* Variant: members are looked for in their class only.
SearchScopeClass(def, doc) ==
    IF def.sym.kind \in Locals \cup {"method", "field"} /\ def.sym.up \in DOMAIN doc.syms
    THEN doc.syms[def.sym.up].node .. doc.syms[def.sym.up].last ELSE {}

\* Locals and private members are only looked for where they can be used.
SearchScope(def, doc) ==
    IF \/ def.sym.kind \in Locals
       \/ def.sym.kind \in {"method", "field"} /\ def.sym.access = "private"
    THEN IF def.sym.up \notin DOMAIN doc.syms THEN 1 .. Len(doc.cst)
         ELSE doc.syms[def.sym.up].node .. doc.syms[def.sym.up].last
    ELSE {}

PairedBase(db, def) ==
    LET name == TypeName(def.sym)
        base == TopIn(db.base, name)
        ws   == TopIn(db.ws, name)
    IN  IF /\ def.sym.up = 0
           /\ base # <<>> /\ base[1].uri \in db.hidden
           /\ ws # <<>> /\ ws[1].uri = def.uri
        THEN base ELSE <<>>

\* A document of the index is searched through the index.
Candidates(db, uri, doc, name, scope) ==
    IF scope = {} /\ uri \in DOMAIN db.idents
    THEN {i \in 1 .. Len(db.idents[uri]) : db.idents[uri][i] = name}
    ELSE {i \in Idents(doc.cst) : Name(doc, i) = name /\ (scope = {} \/ i \in scope)}

PairedMatches(db, uri, doc, i, keys, top) ==
    \/ Key(top) = <<uri, i>>
    \/ /\ LocalOrParameter(uri, doc, i, Name(doc, i)) = <<>>
       /\ \A s \in DOMAIN doc.syms : doc.syms[s].kind = "variable" => doc.syms[s].sel # i
       /\ LET def == ResolveName(db, uri, doc, i, Name(doc, i)) IN def # <<>> /\ Key(def[1]) \in keys

\* Every place that means the definition, its declarations included; `home`
\* is the document the definition is taken to be in.
FindReferences(db, docs, def, home) ==
    LET keys   == AllDeclarationsOf(db, def)
        scope  == IF Cardinality(keys) > 1 THEN {} ELSE SearchScope(def, home)
        names  == {def.sym.name, TypeName(def.sym)}
        paired == PairedBase(db, def)
        inPaired(u) == paired # <<>> /\ paired[1].uri = u
        means(u, i) ==
            IF inPaired(u) THEN PairedMatches(db, u, docs[u], i, keys, paired[1])
            ELSE /\ Kind(docs[u], i) = "ident"
                 /\ LET r == ResolveDefinition(db, u, docs[u], i) IN r # <<>> /\ Key(r[1]) \in keys
        found(u) == IF scope # {} /\ u # def.uri /\ ~inPaired(u) THEN {}
                    ELSE {i \in UNION {Candidates(db, u, docs[u], n, IF inPaired(u) THEN {} ELSE scope) :
                                         n \in IF inPaired(u) THEN {def.sym.name} ELSE names} :
                            i <= Len(docs[u].cst) /\ means(u, i)}
    IN  UNION {{u} \X found(u) : u \in DOMAIN docs} \cup keys

DocumentHighlights(db, uri, doc, i) ==
    LET def   == ResolveDefinition(db, uri, doc, i)
        write(j) == IsNamedBinding(doc, j) \/ DefaultOrHint(doc, j) = "default" \/ IsAssignmentTarget(doc, j)
    IN  IF def = <<>> THEN {}
        ELSE {<<r[2], IF write(r[2]) THEN "write" ELSE "read">> :
                 r \in {x \in FindReferences(db, [u \in {uri} |-> doc], def[1], doc) : x[1] = uri}}

-----------------------------------------------------------------------------
(* Renaming. *)

\* Variant: a state named in full is spelled like its declaration.
NewTextShort(def, text, new) == new

\* Only the last part of a state's class name is replaced.
NewText(def, text, new) ==
    IF TypeName(def.sym) # def.sym.name /\ text = TypeName(def.sym)
    THEN StateClassName(def.sym.owner, new) ELSE new

CanRename(db, def) == def.uri \notin DOMAIN db.base.docs \cup DOMAIN db.builtin.docs

\* The texts after a rename; base scripts and built-in files are never edited.
Rename(db, docs, def, new) ==
    LET refs == FindReferences(db, docs, def, docs[def.uri])
    IN  [u \in DOMAIN docs |->
            IF u \in DOMAIN db.base.docs \cup DOMAIN db.builtin.docs THEN docs[u].cst
            ELSE [i \in DOMAIN docs[u].cst |->
                    IF <<u, i>> \in refs
                    THEN [docs[u].cst[i] EXCEPT !.text = NewText(def, @, ShortName(def.sym, new))]
                    ELSE docs[u].cst[i]]]

=============================================================================
