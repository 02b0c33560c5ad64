------------------------------- MODULE Rules -------------------------------
(***************************************************************************)
(* The diagnostics of a document.  A diagnostic is <<rule, node>>: what is *)
(* wrong and the node it is shown at; the words of its message are left    *)
(* out.  A rule is one definition, the set of what it reports.             *)
(***************************************************************************)
EXTENDS Resolve

-----------------------------------------------------------------------------
(* What the rules share. *)

Nodes(doc, kinds) == {i \in DOMAIN doc.cst : doc.cst[i].kind \in kinds}

ErrorKinds == {"ERROR", "MISSING", "incomplete_member_access_expr"}

\* Most rules are silent inside what the parser could not read.
InErrorSubtree(doc, i) ==
    \E j \in {i} \cup Range(Above(doc.cst, i)) : doc.cst[j].kind \in ErrorKinds

Sound(doc, kinds) == {i \in Nodes(doc, kinds) : ~InErrorSubtree(doc, i)}

SymbolAt(doc, i, kinds) ==
    LET id == EnclosingSymbolAt(doc, i, kinds) IN IF id = 0 THEN <<>> ELSE <<doc.syms[id]>>

HasNote(s, names) == \E k \in DOMAIN s.notes : s.notes[k].name \in names

InsideDeclaringClass(doc, i, s) ==
    LET declarer == IF s.of # "" THEN s.of ELSE TargetClass(s)
        type     == SymbolAt(doc, i, Instantiable)
        callable == SymbolAt(doc, i, Callables)
    IN  /\ declarer # ""
        /\ IF type # <<>> THEN TypeName(type[1]) = declarer
           ELSE callable # <<>> /\ TargetClass(callable[1]) = declarer

\* What is wrong with the use of a member of a class, "" when nothing is.
MemberProblem(db, doc, i, type, unknown) ==
    LET def == FindMember(db, type, Name(doc, i), "private")
    IN  IF def # <<>>
        THEN IF def[1].sym.access = "private" /\ ~InsideDeclaringClass(doc, i, def[1].sym)
             THEN "private_member_access" ELSE ""
        ELSE IF FindNativeMember(db, Head(type), Name(doc, i)) # <<>> THEN "native_not_imported"
        ELSE unknown

InstantiableType(db, type) == LookupCtor(type) # "" /\ IsKind(db, LookupCtor(type), Instantiable)

-----------------------------------------------------------------------------
(* Assignability of types. *)

PrimitiveCasts ==
    ({"byte", "int", "float", "string"} \X {"bool"}) \cup ({"byte", "int"} \X {"float"})
    \cup ({"bool", "byte", "int", "float", "name"} \X {"string"})
    \cup {<<"int", "byte">>, <<"byte", "int">>}

RECURSIVE IdenticalTypes(_, _, _)
IdenticalTypes(db, from, to) ==
    \/ from = to
    \/ IsNamed(from) /\ IsNamed(to) /\ InheritsFrom(db, from[1], to[1])
    \/ /\ Len(from) > 1 /\ Len(to) > 1 /\ Head(from) = "array" /\ Head(to) = "array"
       /\ IdenticalTypes(db, Tail(from), Tail(to))

Assignable(db, from, to) ==
    LET of(type, kinds) == IsNamed(type) /\ IsKind(db, type[1], kinds)
    IN  \/ IdenticalTypes(db, from, to)
        \/ from = Null /\ of(to, ClassLike)
        \/ of(from, {"enum"}) /\ to = <<"int">>
        \/ from = <<"int">> /\ of(to, {"enum"})
        \/ of(from, ClassLike \cup {"enum"}) /\ to = <<"string">>
        \/ of(from, ClassLike) /\ to = <<"bool">>
        \/ Len(from) = 1 /\ Len(to) = 1 /\ <<from[1], to[1]>> \in PrimitiveCasts

\* Only types that are known are judged.
IsConcrete(db, type) ==
    \A k \in DOMAIN type :
        \/ type[k] \in Primitives \cup {"NULL"}
        \/ type[k] \in {"array", "map"} /\ Len(type) > 1
        \/ IsNamed(<<type[k]>>) /\ FindTopLevel(db, type[k]) # <<>>

Incompatible(db, from, to) == IsConcrete(db, from) /\ IsConcrete(db, to) /\ ~Assignable(db, from, to)

-----------------------------------------------------------------------------
(* Names that mean nothing. *)

IdentRole(doc, i) ==
    LET up  == Up(doc, i)
        top == Up(doc, up)
        ctx == ClassifyIdent(doc, i)
    IN  CASE Kind(doc, up) = "member_access_expr" /\ Part(doc, up, "member") = i ->
                IF \/ Kind(doc, top) = "func_call_expr" /\ Part(doc, top, "func") = up
                   \/ Part(doc, up, "accessor") = 0
                THEN "none" ELSE "member"
          [] DefaultOrHint(doc, i) # "" -> "initialiser"
          [] ctx.tag \in {"type", "state"} -> "type"
          [] ctx.tag = "callable"          -> "call"
          [] ctx.tag = "value"             -> "bare"
          [] OTHER                         -> "none"

ShortStateName(db, doc, i) ==
    /\ Kind(doc, Up(doc, i)) = "annotation" /\ StatesNamed(db, Name(doc, i)) # {}
    /\ FirstKind(doc.cst, Up(doc, i), "annotation_ident") # 0

TypeProblem(db, uri, doc, i) ==
    CASE IsBuiltinTypeName(Name(doc, i)) \/ ResolveIdent(db, uri, doc, i) # <<>> -> ""
      [] ShortStateName(db, doc, i) -> "short_state_name"
      [] OTHER -> "unknown_type"

AccessProblem(db, uri, doc, i) ==
    LET type == InferType(db, uri, doc, Part(doc, Up(doc, i), "accessor"), i)
    IN  IF Len(type) > 1 \/ ~InstantiableType(db, type) THEN ""
        ELSE MemberProblem(db, doc, i, type, "unknown_member")

InitialiserProblem(db, doc, i) ==
    LET type == SymbolAt(doc, i, Instantiable)
    IN  IF \/ type = <<>>
           \/ Name(doc, i) = "autoState" /\ "statemachine" \in type[1].spec
           \/ FindMember(db, <<TypeName(type[1])>>, Name(doc, i), "private") # <<>>
        THEN "" ELSE "unknown_member"

CallProblem(db, uri, doc, i) ==
    CASE ResolveIdent(db, uri, doc, i) # <<>>            -> ""
      [] IsKind(db, Name(doc, i), {"class", "enum"})     -> "type_used_as_value"
      [] FindNativeTopLevel(db, Name(doc, i)) # <<>>     -> "native_not_imported"
      [] OTHER                                           -> "unknown_function"

BareProblem(db, uri, doc, i) ==
    LET def == ResolveIdent(db, uri, doc, i)
    IN  CASE LocalOrParameter(uri, doc, i, Name(doc, i)) # <<>> -> ""
          [] def = <<>> -> "unknown_identifier"
          [] OTHER -> IF def[1].sym.kind \in TypeKinds /\ TypeName(def[1].sym) = Name(doc, i)
                      THEN "type_used_as_value" ELSE ""

IsInsideWrapMethod(doc, i) ==
    LET callable == SymbolAt(doc, i, {"function", "method"})
    IN  callable # <<>> /\ HasNote(callable[1], {"wrapMethod"})

UnknownSymbol(db, uri, doc) ==
    LET problem(i) ==
            CASE Name(doc, i) = "wrappedMethod" /\ IsInsideWrapMethod(doc, i) -> ""
              [] IdentRole(doc, i) = "type"        -> TypeProblem(db, uri, doc, i)
              [] IdentRole(doc, i) = "member"      -> AccessProblem(db, uri, doc, i)
              [] IdentRole(doc, i) = "initialiser" -> InitialiserProblem(db, doc, i)
              [] IdentRole(doc, i) = "call"        -> CallProblem(db, uri, doc, i)
              [] IdentRole(doc, i) = "bare"        -> BareProblem(db, uri, doc, i)
              [] OTHER -> ""
    IN  {p \in {<<problem(i), i>> : i \in Sound(doc, {"ident"})} : p[1] # ""}

UnknownMethod(db, uri, doc) ==
    LET method(call) == MemberAccessMember(doc, CallCallee(doc, call))
        calls == {c \in Nodes(doc, {"func_call_expr"}) :
                    /\ Kind(doc, CallCallee(doc, c)) = "member_access_expr"
                    /\ Kind(doc, method(c)) = "ident"}
        type(c) == InferType(db, uri, doc, Receiver(doc, CallCallee(doc, c)), method(c))
    IN  {p \in {<<MemberProblem(db, doc, method(c), type(c), "unknown_method"), method(c)>> :
                    c \in {x \in calls : InstantiableType(db, type(x))}} : p[1] # ""}

-----------------------------------------------------------------------------
(* Values of the wrong type, calls with the wrong arguments. *)

DefaultProblem(db, doc, i, target, type) ==
    LET value == Part(doc, i, "value")
    IN  CASE Kind(doc, value) = "literal_string" /\ target = <<"name">> -> "string_as_name_default"
          [] type = <<"float">> /\ target = <<"int">>                   -> "float_as_int_default"
          [] IsNamed(target) /\ DefaultCoercion(target[1]) # {} ->
                IF type = Unknown \/ (IsPrimitive(type) /\ type[1] \in DefaultCoercion(target[1]))
                THEN "" ELSE "native_default_coercion"
          [] OTHER -> IF Incompatible(db, type, target) THEN "type_mismatch" ELSE ""

SpelledType(doc, i) ==
    LET names == Ordered(Below(doc.cst, i) \cap Idents(doc.cst))
    IN  FromAnnotation([k \in DOMAIN names |-> Name(doc, names[k])])

InitCompared(doc, i) ==
    IF Part(doc, i, "init_value") = 0 \/ Part(doc, i, "var_type") = 0 THEN {}
    ELSE {<<Part(doc, i, "init_value"), SpelledType(doc, Part(doc, i, "var_type"))>>}

\* An assignment with an operator is judged only for primitive targets.
AssignCompared(db, uri, doc, i) ==
    LET left   == Part(doc, i, "left")
        target == InferType(db, uri, doc, left, left)
    IN  IF Name(doc, Part(doc, i, "op")) # "=" /\ ~IsPrimitive(target) THEN {}
        ELSE {<<Part(doc, i, "right"), target>>}

ArgsCompared(db, uri, doc, i) ==
    LET slots  == ArgSlots(doc, i)
        params == CalleeParams(db, uri, doc, i)
    IN  IF params = <<>> \/ Contains(slots, 0) THEN {}
        ELSE IF Len(slots) > Len(Head(params)) THEN {}
        ELSE {<<slots[k], Head(params)[k].type>> : k \in DOMAIN slots}

ReturnCompared(doc, i) ==
    LET callable == SymbolAt(doc, i, Callables)
    IN  IF callable = <<>> \/ NthNamed(doc.cst, i, 1) = 0 THEN {}
        ELSE {<<NthNamed(doc.cst, i, 1), callable[1].type>>}

\* The values that must fit a type: <<node, type>>.
Compared(db, uri, doc) ==
    {c \in UNION ({InitCompared(doc, i) : i \in Sound(doc, {"local_var_decl_stmt"})}
                  \cup {AssignCompared(db, uri, doc, i) : i \in Sound(doc, {"assign_op_expr"})}
                  \cup {ArgsCompared(db, uri, doc, i) : i \in Sound(doc, {"func_call_expr"})}
                  \cup {ReturnCompared(doc, i) : i \in Sound(doc, {"return_stmt"})}) : c[2] # <<>>}

DefaultMismatch(db, uri, doc, i) ==
    LET value == Part(doc, i, "value")
        def   == IF Part(doc, i, "member") = 0 \/ value = 0 THEN <<>>
                 ELSE ResolveDefinition(db, uri, doc, Part(doc, i, "member"))
    IN  IF def = <<>> THEN {}
        ELSE IF def[1].sym.kind # "field" \/ def[1].sym.type = <<>> THEN {}
        ELSE {<<DefaultProblem(db, doc, i, def[1].sym.type, InferType(db, uri, doc, value, value)), value>>}

TypeMismatch(db, uri, doc) ==
    {<<"type_mismatch", c[1]>> : c \in
        {x \in Compared(db, uri, doc) : Incompatible(db, InferType(db, uri, doc, x[1], x[1]), x[2])}}
    \cup {p \in UNION {DefaultMismatch(db, uri, doc, i) : i \in Sound(doc, DefaultKinds)} : p[1] # ""}

\* A gap and a missing argument are shown at the call.
ArgCount(db, uri, doc) ==
    LET wrong(c) ==
            LET params == CalleeParams(db, uri, doc, c)
                slots  == ArgSlots(doc, c)
            IN  IF params = <<>> THEN FALSE
                ELSE \/ Len(slots) > Len(Head(params))
                     \/ \E k \in DOMAIN Head(params) :
                            /\ "optional" \notin Head(params)[k].spec
                            /\ IF k \in DOMAIN slots THEN slots[k] = 0 ELSE FirstKind(doc.cst, c, ")") # 0
    IN  {<<"arg_count_mismatch", c>> : c \in {x \in Sound(doc, {"func_call_expr"}) : wrong(x)}}

-----------------------------------------------------------------------------
(* Declarations. *)

AbstractInstantiation(db, doc) ==
    LET class(i) == Part(doc, i, "class")
        def(i)   == IF Kind(doc, class(i)) # "ident" THEN <<>> ELSE FindTopLevel(db, Name(doc, class(i)))
        news     == {i \in Sound(doc, {"new_expr"}) : def(i) # <<>>}
    IN  {<<"native_instantiation", class(i)>> : i \in {x \in news : def(x)[1].sym.kind = "nativetype"}}
        \cup {<<"abstract_instantiation", class(i)>> :
                i \in {x \in news : def(x)[1].sym.kind = "class" /\ "abstract" \in def(x)[1].sym.spec}}

StateOwner(db, doc) ==
    LET owner(i) == Part(doc, i, "parent")
        states   == {i \in Sound(doc, {"state_decl"}) : owner(i) # 0}
        def(i)   == FindTopLevel(db, Name(doc, owner(i)))
        found    == {i \in states : def(i) # <<>>}
        class(i) == def(i)[1].sym.kind = "class"
    IN  {<<"state_owner_not_statemachine", owner(i)>> :
            i \in {x \in found : class(x) /\ "statemachine" \notin def(x)[1].sym.spec}}
        \cup {<<"state_owner_not_class", owner(i)>> : i \in {x \in found : ~class(x)}}

DeclaredNames(doc, i) == {j \in Kids(doc.cst, i) : doc.cst[j].field = "names" /\ Kind(doc, j) = "ident"}

\* The class or state a declaration is in, and the name of what it extends.
Extending(db, doc, i) ==
    LET type == SymbolAt(doc, i, ClassLike)
    IN  IF Part(doc, i, "annotation") # 0 \/ type = <<>> THEN "" ELSE SuperclassOf(db, TypeName(type[1]))

InheritedField(db, doc) ==
    LET clash(i, j) ==
            LET def == IF Extending(db, doc, i) = "" THEN <<>>
                       ELSE FindMember(db, <<Extending(db, doc, i)>>, Name(doc, j), "private")
            IN  def # <<>> /\ def[1].sym.kind = "field"
    IN  UNION {{<<"duplicate_inherited_field", j>> : j \in {x \in DeclaredNames(doc, i) : clash(i, x)}} :
                  i \in Sound(doc, {"member_var_decl"})}

DeclaredParamCount(doc, i) ==
    IF Part(doc, i, "params") = 0 THEN 0
    ELSE Cardinality(UNION {DeclaredNames(doc, g) : g \in
            {k \in Kids(doc.cst, Part(doc, i, "params")) : Kind(doc, k) = "func_param_group"}})

OverrideConsistency(db, doc) ==
    LET name(i) == Part(doc, i, "name")
        found(i) == IF name(i) = 0 \/ Extending(db, doc, i) = "" THEN <<>>
                    ELSE SelectSeq(FindClassBodyMember(db, Extending(db, doc, i), Name(doc, name(i))),
                                   LAMBDA d : d.sym.kind = "method")
        funcs == {i \in Sound(doc, {"func_decl"}) :
                    found(i) # <<>> /\ SymbolAt(doc, name(i), {"method"}) # <<>>}
        own(i) == SymbolAt(doc, name(i), {"method"})[1]
        place(i) == IF Part(doc, i, "params") = 0 THEN i ELSE Part(doc, i, "params")
    IN  {<<"override_weaker_access", name(i)>> :
            i \in {x \in funcs : Rank(own(x).access) > Rank(found(x)[1].sym.access)}}
        \cup {<<"override_param_count", place(i)>> :
                i \in {x \in funcs : DeclaredParamCount(doc, x) # Len(ParametersOf(db, found(x)[1]))}}

ParentOutsideState(db, doc) ==
    {<<"parent_outside_state", i>> : i \in {x \in Sound(doc, {"parent_expr", "virtual_parent_expr"}) :
                                               TypeContext(db, doc, x).owner = ""}}

SuperFieldAccess(doc) ==
    LET called(i) == Kind(doc, Up(doc, i)) = "func_call_expr" /\ CallCallee(doc, Up(doc, i)) = i
    IN  {<<"super_field_access", i>> :
            i \in {x \in Sound(doc, {"member_access_expr"}) :
                     /\ Kind(doc, Receiver(doc, x)) = "super_expr"
                     /\ Kind(doc, MemberAccessMember(doc, x)) = "ident" /\ ~called(x)}}

\* A property of what a call returns cannot be read or written.
StructTempMember(db, uri, doc) ==
    LET member(i) == MemberAccessMember(doc, i)
        type(i)   == InferType(db, uri, doc, Receiver(doc, i), member(i))
    IN  {<<"struct_property_on_temporary", member(i)>> :
            i \in {x \in Sound(doc, {"member_access_expr"}) :
                     /\ Kind(doc, Receiver(doc, x)) = "func_call_expr" /\ Kind(doc, member(x)) = "ident"
                     /\ Len(type(x)) = 1 /\ LookupCtor(type(x)) # "" /\ IsKind(db, type(x)[1], {"struct"})
                     /\ FindMember(db, type(x), Name(doc, member(x)), "private") # <<>>}}

WrappedMethod(doc) ==
    LET wraps == {i \in Nodes(doc, {"func_decl"}) : IsInsideWrapMethod(doc, i)}
        modifiers(i) == {j \in Kids(doc.cst, i) : Kind(doc, j) \in {"specifier", "func_flavour"}}
        body(i)  == FirstKind(doc.cst, i, "func_block")
        calls(i) == {CallCallee(doc, c) : c \in
                        {x \in Below(doc.cst, body(i)) :
                            /\ Kind(doc, x) = "func_call_expr" /\ Kind(doc, CallCallee(doc, x)) = "ident"
                            /\ Name(doc, CallCallee(doc, x)) = "wrappedMethod"}}
        with     == {i \in wraps : body(i) # 0}
    IN  UNION {{<<"wrapped_method_modifier", j>> : j \in modifiers(i)} : i \in wraps}
        \cup {<<"missing_wrapped_method", Part(doc, i, "name")>> : i \in {x \in with : calls(x) = {}}}
        \cup UNION {{<<"duplicate_wrapped_method", j>> : j \in calls(i) \ {Min(calls(i))}} :
                       i \in {x \in with : calls(x) # {}}}

NativeImport(db, doc) ==
    IF db.builtin.docs = <<>> THEN {}
    ELSE {<<"unknown_native_import", doc.syms[k].sel>> :
             k \in {n \in DOMAIN doc.syms : /\ IsScriptImport(doc.syms[n])
                                            /\ NativeCounterpart(db, doc.syms[n]) = <<>>}}

-----------------------------------------------------------------------------
(* Names nobody uses, and what removing one takes out. *)

DeclaredSymbol(doc, i, ident) ==
    IF Kind(doc, i) = "member_var_decl"
    THEN LET class == EnclosingSymbolAt(doc, i, Instantiable)
         IN  IF class = 0 THEN <<>>
             ELSE SelectSeq(MembersNamed(doc, class, Name(doc, ident)), LAMBDA s : s.sel = ident)
    ELSE LET callable == EnclosingSymbolAt(doc, i, Callables)
             id       == IF callable = 0 THEN 0 ELSE LocalAtByte(doc, callable, Name(doc, ident), ident)
         IN  IF id = 0 THEN <<>> ELSE <<doc.syms[id]>>

\* A default or a hint initialises a field; it does not use it.
Initialisers(doc, i) ==
    UNION {Below(doc.cst, j) : j \in {k \in Kids(doc.cst, Up(doc, i)) :
              Kind(doc, k) \in DefaultKinds \cup {"member_default_val_block", "member_hint"}}}

IsReferenced(db, uri, doc, i, s) ==
    \E r \in FindReferences(db, [u \in {uri} |-> doc], [slot |-> <<"document">>, uri |-> uri, sym |-> s], doc) :
        /\ r \notin AllDeclarationsOf(db, [uri |-> uri, sym |-> s])
        /\ r[1] = uri
        /\ Kind(doc, i) = "member_var_decl" => r[2] \notin Initialisers(doc, i)

Unused(db, uri, doc, i) ==
    LET private(s) == s.kind = "field" => s.access = "private"
        dead(j) == \E s \in Range(DeclaredSymbol(doc, i, j)) : private(s) /\ ~IsReferenced(db, uri, doc, i, s)
    IN  IF Part(doc, i, "annotation") # 0 THEN {} ELSE {j \in DeclaredNames(doc, i) : dead(j)}

IsBodyless(doc, i) == Kind(doc, Part(doc, Up(doc, Up(doc, i)), "definition")) = "nop"

UnusedSymbol(db, uri, doc) ==
    UNION {LET unused == Unused(db, uri, doc, i)
           IN  IF Kind(doc, i) = "func_param_group" /\ IsBodyless(doc, i) THEN {}
               ELSE IF unused = DeclaredNames(doc, i) /\ unused # {} THEN {<<"unused_symbol", i>>}
               ELSE {<<"unused_symbol", j>> : j \in unused}
           : i \in Sound(doc, {"func_param_group", "local_var_decl_stmt", "member_var_decl"})}

\* Variant: the defaults of a field stay behind.
FieldDefaultsNone(doc, i, names) == {}

\* The defaults and hints of a removed field go with it.
FieldDefaults(doc, i, names) ==
    LET targeted(kinds, up) == {j \in Kids(doc.cst, up) : /\ Kind(doc, j) \in kinds
                                                         /\ Part(doc, j, "member") # 0
                                                         /\ Name(doc, Part(doc, j, "member")) \in names}
        blocks == {j \in Kids(doc.cst, Up(doc, i)) : Kind(doc, j) = "member_default_val_block"}
    IN  targeted({"member_default_val", "member_hint"}, Up(doc, i))
        \cup UNION {targeted({"member_default_val_block_assign"}, b) : b \in blocks}

\* The nodes the quick fix of an unused symbol takes out.
Removal(doc, i) ==
    LET decl  == IF Kind(doc, i) = "ident" THEN Up(doc, i) ELSE i
        names == IF decl = i THEN DeclaredNames(doc, i) ELSE {i}
    IN  {i} \cup (IF Kind(doc, decl) = "member_var_decl"
                  THEN FieldDefaults(doc, decl, {Name(doc, j) : j \in names}) ELSE {})

-----------------------------------------------------------------------------
(* Syntax. *)

SyntaxRules(doc) ==
    LET text(i)  == Name(doc, i)
        has(i, field, kinds) == Kind(doc, Part(doc, i, field)) \in kinds
        event(i) == Kind(doc, FindAncestor(doc.cst, i, {"event_decl", "func_decl"})) = "event_decl"
        late(i)  == \E j \in Kids(doc.cst, Up(doc, i)) :
                        j < i /\ Named(doc.cst, j) /\ Kind(doc, j) \notin {"comment", "nop", "local_var_decl_stmt"}
        init(i)  == \E j \in Nodes(doc, {"local_var_decl_stmt"}) :
                        Part(doc, j, "init_value") # 0 /\ i \in Below(doc.cst, Part(doc, j, "init_value"))
        at(rule, nodes) == {<<rule, i>> : i \in nodes}
    IN  at("syntax_error", Nodes(doc, {"ERROR", "MISSING"}))
        \cup at("incomplete_member_access_expr", Nodes(doc, {"incomplete_member_access_expr"}))
        \cup at("event_return_not_void",
                {Part(doc, i, "return_type") : i \in {x \in Nodes(doc, {"event_decl"}) :
                    Part(doc, x, "return_type") # 0 /\ text(Part(doc, x, "return_type")) # "void"}})
        \cup at("event_bare_return", {i \in Nodes(doc, {"return_stmt"}) :
                    event(i) /\ \A j \in Kids(doc.cst, i) : Named(doc.cst, j) => Kind(doc, j) = "comment"})
        \cup at("non_constant_default", {Part(doc, i, "value") : i \in {x \in Nodes(doc, DefaultKinds) :
                    has(x, "value", {"func_call_expr", "new_expr"})}})
        \cup at("hex_default_zero", {Part(doc, i, "value") : i \in {x \in Nodes(doc, DefaultKinds) :
                    has(x, "value", {"literal_hex"}) /\ text(Part(doc, x, "value")) # "0x0"}})
        \cup at("late_local_var_decl", {i \in Nodes(doc, {"local_var_decl_stmt"}) :
                    Kind(doc, Up(doc, i)) = "func_block" /\ late(i)})
        \cup at("cast_in_var_init", {i \in Nodes(doc, {"cast_expr"}) :
                    init(i) /\ TextAt(doc.cst, Part(doc, i, "type"))
                                 \notin {"bool", "byte", "int", "float", "name", "string"}})
        \cup at("struct_property_access_modifier", {i \in Nodes(doc, {"specifier"}) :
                    /\ Kind(doc, Up(doc, i)) = "member_var_decl"
                    /\ Kind(doc, Up(doc, Up(doc, i))) = "struct_def"
                    /\ text(i) \in {"private", "protected", "public"}})

-----------------------------------------------------------------------------
(* All rules of one document, and the rules over a whole index. *)

Diagnostics(db, uri, doc) ==
    UNION {UnknownSymbol(db, uri, doc), UnknownMethod(db, uri, doc), TypeMismatch(db, uri, doc),
           ArgCount(db, uri, doc), AbstractInstantiation(db, doc), StateOwner(db, doc),
           InheritedField(db, doc), OverrideConsistency(db, doc), ParentOutsideState(db, doc),
           SuperFieldAccess(doc), StructTempMember(db, uri, doc), WrappedMethod(doc),
           NativeImport(db, doc), UnusedSymbol(db, uri, doc)}

DeclarationKinds == {"class", "struct", "enum", "state", "function", "event"}

OwnerForState(s) == IF s.kind = "state" THEN s.owner ELSE ""

DuplicateSymbols(layer) ==
    LET decls == {e \in Range(TopLevels(layer)) : e.sym.kind \in DeclarationKinds /\ e.sym.notes = <<>>}
        twin(a, b) == a # b /\ a.sym.name = b.sym.name /\ OwnerForState(a.sym) = OwnerForState(b.sym)
    IN  {<<"duplicate_symbol", Key(a)>> : a \in {x \in decls : \E b \in decls : twin(x, b)}}

Exempt(doc, id) ==
    \E c \in Range(Containers(doc, doc.syms[id].up)) :
        doc.syms[c].kind \in Callables /\ HasNote(doc.syms[c], {"wrapMethod", "replaceMethod"})

DuplicateLocals(doc) ==
    LET locals == {k \in DOMAIN doc.syms : doc.syms[k].kind \in Locals /\ EnclosingCallable(doc, k) # 0}
        counted == {k \in locals : ~HasNote(doc.syms[EnclosingCallable(doc, k)], {"wrapMethod", "replaceMethod"})}
    IN  {<<"duplicate_local", doc.syms[k].sel>> : k \in {x \in counted : \E y \in counted \ {x} :
            /\ doc.syms[x].name = doc.syms[y].name
            /\ EnclosingCallable(doc, x) = EnclosingCallable(doc, y)}}

Shadowing(db, doc) ==
    LET open    == {k \in DOMAIN doc.syms : ~Exempt(doc, k)}
        class(k) == LET callable == EnclosingCallable(doc, k)
                    IN  IF callable = 0 THEN 0 ELSE doc.syms[callable].up
        hides(k) == LET field == DirectMemberIn(db.ws, TypeName(doc.syms[class(k)]), doc.syms[k].name)
                    IN  field # <<>> /\ field[1].sym.kind = "field"
    IN  {<<"shadows_script_global", doc.syms[k].sel>> :
            k \in {x \in open : /\ doc.syms[x].kind \in Locals \cup {"field"}
                                /\ doc.syms[x].name \in DOMAIN db.globals}}
        \cup {<<"shadows_class_field", doc.syms[k].sel>> :
                k \in {x \in open : /\ doc.syms[x].kind = "variable" /\ class(x) # 0
                                    /\ doc.syms[class(x)].kind \in Instantiable /\ hides(x)}}

-----------------------------------------------------------------------------
(* What the rules look up and write down as observed. *)

SeenName(db, uri, doc, i, ctx) ==
    LET name   == Name(doc, i)
        type   == TypeContext(db, doc, i).name
        inner  == OrElse(LocalOrParameter(uri, doc, i, name), CurrentTypeMember(db, uri, doc, i, name))
        member == IF type = "" THEN {}
                  ELSE SeenSuper(db, type) \cup
                       (IF DocumentMember(uri, doc, <<type>>, name, "private") # <<>> THEN {}
                        ELSE SeenMember(db, type, name))
        top    == IF TopLevelOfKind(doc, name, Accepts(ctx)) # 0 THEN {}
                  ELSE {Top(name)} \cup
                       (IF ctx.tag = "value" /\ FindTopLevelOfKind(db, name, Accepts(ctx)) = <<>>
                        THEN {<<"enum member", name>>} ELSE {})
    IN  CASE ctx.tag = "type"  -> top
          [] ctx.tag = "state" -> SeenState(db, ctx.owner, name, 0)
          [] OTHER -> IF LocalOrParameter(uri, doc, i, name) # <<>> THEN {}
                      ELSE IF inner # <<>> THEN member ELSE member \cup top

SeenAccess(db, uri, doc, i) ==
    LET type == InferType(db, uri, doc, Receiver(doc, Up(doc, i)), i)
    IN  IF LookupCtor(type) = "" THEN {}
        ELSE {Top(LookupCtor(type))} \cup
             (IF InstantiableType(db, type) THEN SeenMember(db, LookupCtor(type), Name(doc, i)) ELSE {})

SeenIdent(db, uri, doc, i) ==
    LET ctx    == ClassifyIdent(doc, i)
        global == IF Name(doc, i) \in DOMAIN db.globals THEN {Top(db.globals[Name(doc, i)])} ELSE {}
    IN  IF Kind(doc, Up(doc, i)) = "member_access_expr" /\ Receiver(doc, Up(doc, i)) # i
        THEN SeenAccess(db, uri, doc, i)
        ELSE IF ctx # NoContext THEN SeenName(db, uri, doc, i, ctx) \cup global
        ELSE IF DefaultOrHint(doc, i) = "" \/ SymbolAt(doc, i, Instantiable) = <<>> THEN {}
        ELSE SeenMember(db, TypeName(SymbolAt(doc, i, Instantiable)[1]), Name(doc, i))

SeenTypes(db, type) ==
    UNION {{Top(type[k])} \cup SeenChain(db, Chain(db, type[k])) :
              k \in {n \in DOMAIN type : IsNamed(<<type[n]>>)}}

\* The fields of a class are looked for in the classes it extends.
SeenField(db, doc, i) ==
    IF Extending(db, doc, i) = "" THEN {}
    ELSE UNION {SeenMember(db, Extending(db, doc, i), Name(doc, j)) : j \in DeclaredNames(doc, i)}

Observed(db, uri, doc) ==
    UNION ({SeenIdent(db, uri, doc, i) : i \in Sound(doc, {"ident"})}
           \cup {SeenTypes(db, c[2]) \cup SeenTypes(db, InferType(db, uri, doc, c[1], c[1])) :
                     c \in Compared(db, uri, doc)}
           \cup {SeenField(db, doc, i) : i \in Sound(doc, {"member_var_decl"})}
           \cup {{Top(Name(doc, Part(doc, i, "parent")))} : i \in
                     {x \in Sound(doc, {"state_decl"}) : Part(doc, x, "parent") # 0}})

=============================================================================
