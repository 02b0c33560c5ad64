------------------------------- MODULE Syntax -------------------------------
(***************************************************************************)
(* The syntax tree of a script and the symbols extracted from it.          *)
(*                                                                         *)
(* A tree is the sequence of its nodes in the order the walk enters them:  *)
(* a node knows its parent (up) and the last node below it (last), and its *)
(* index stands for its byte offset, so that a range of bytes is a range   *)
(* of indices.  A name is a string, 0 is "no node" or "no symbol", "" is   *)
(* "no name" and <<>> is "no type".                                        *)
(***************************************************************************)
EXTENDS Integers, Sequences, FiniteSets, SequencesExt, FiniteSetsExt

-----------------------------------------------------------------------------
(* The parser, as far as the code sees it. *)

\* A node over the trees of its children, which move behind it.
N(kind, text, kids) ==
    LET moved(tree, by) ==
            [k \in DOMAIN tree |-> [tree[k] EXCEPT !.up = IF @ = 0 THEN 1 ELSE @ + by, !.last = @ + by]]
        below == FoldLeft(LAMBDA nodes, kid : nodes \o moved(kid, Len(nodes) + 1), <<>>, kids)
    IN  <<[kind |-> kind, text |-> text, field |-> "", up |-> 0, last |-> Len(below) + 1]>> \o below

As(field, tree) == [tree EXCEPT ![1].field = field]

\* Punctuation is unnamed; it is in the tree only where the code looks at it.
Named(cst, i) == cst[i].kind \notin {",", ")"}

-----------------------------------------------------------------------------
(* Moving about in the tree. *)

Ordered(nodes) ==
    IF nodes = {} THEN <<>> ELSE SelectSeq([i \in 1 .. Max(nodes) |-> i], LAMBDA i : i \in nodes)

Below(cst, i) == i .. cst[i].last

Kids(cst, i) == {j \in Below(cst, i) : cst[j].up = i}

NthKind(cst, i, kind, n) ==
    LET found == Ordered({j \in Kids(cst, i) : cst[j].kind = kind})
    IN  IF n <= Len(found) THEN found[n] ELSE 0

FirstKind(cst, i, kind) == NthKind(cst, i, kind, 1)

Field(cst, i, field) ==
    LET found == {j \in Kids(cst, i) : cst[j].field = field}
    IN  IF found = {} THEN 0 ELSE Min(found)

NthNamed(cst, i, n) ==
    LET found == Ordered({j \in Kids(cst, i) : Named(cst, j)})
    IN  IF n <= Len(found) THEN found[n] ELSE 0

RECURSIVE Above(_, _)
Above(cst, i) == IF cst[i].up = 0 THEN <<>> ELSE <<cst[i].up>> \o Above(cst, cst[i].up)

FindAncestor(cst, i, kinds) ==
    LET found == SelectSeq(Above(cst, i), LAMBDA j : cst[j].kind \in kinds)
    IN  IF found = <<>> THEN 0 ELSE Head(found)

TextAt(cst, i) == IF i = 0 THEN "" ELSE cst[i].text

Idents(cst) == {i \in 1 .. Len(cst) : cst[i].kind = "ident"}

-----------------------------------------------------------------------------
(* Types: <<"int">>, <<"array", "int">>, <<"map", "name", "C">>, ... *)

Aliases ==
    [t \in {"Bool", "Uint8", "Int32", "Float", "CName", "String"} |->
        CASE t = "Bool" -> "bool" [] t = "Uint8" -> "byte" [] t = "Int32" -> "int"
          [] t = "Float" -> "float" [] t = "CName" -> "name" [] t = "String" -> "string"]

Primitives ==
    {"bool", "byte", "int", "Int16", "Int8", "Uint16", "Uint32", "Uint64",
     "float", "name", "string", "StringAnsi"}

Unknown == <<"?">>
Null    == <<"NULL">>
Void    == <<"void">>

FromAnnotation(spelled) ==
    [k \in DOMAIN spelled |->
        IF spelled[k] \in DOMAIN Aliases THEN Aliases[spelled[k]] ELSE spelled[k]]

IsBuiltinTypeName(name) == name \in Primitives \cup DOMAIN Aliases \cup {"void"}

IsPrimitive(type) == Len(type) = 1 /\ type[1] \in Primitives

IsNamed(type) ==
    Len(type) = 1 /\ type[1] \notin Primitives \cup {"void", "NULL", "?"}

\* The key of a type in the symbol tables, "" when it has none.
LookupCtor(type) ==
    IF type = <<>> \/ \E k \in DOMAIN type : type[k] \in {"NULL", "?"} THEN "" ELSE Head(type)

DefaultCoercion(name) ==
    CASE name = "CBehTreeValBool"   -> {"bool"}
      [] name = "CBehTreeValInt"    -> {"int"}
      [] name = "CBehTreeValFloat"  -> {"int", "float"}
      [] name = "CBehTreeValString" -> {"string"}
      [] name = "CBehTreeValCName"  -> {"name"}
      [] OTHER -> {}

-----------------------------------------------------------------------------
(* Symbols. *)

TypeKinds        == {"class", "nativetype", "struct", "state", "enum"}
ObjectTypes      == TypeKinds \ {"enum"}
ExtendsByName    == {"class", "nativetype", "struct"}
ClassLike        == {"class", "state"}
Callables        == {"function", "event", "method"}
Locals           == {"variable", "parameter"}
Instantiable     == {"class", "struct", "state"}

StateClassName(owner, state) == owner \o "State" \o state

TypeName(s) == IF s.state # "" THEN s.state ELSE s.name

RequiresImport(s) == s.origin = "native" /\ s.kind \in {"function", "method", "field"}

Injecting == {"addMethod", "wrapMethod", "replaceMethod", "addField"}

InjectingNotes(s) == SelectSeq(s.notes, LAMBDA n : n.name \in Injecting)

InjectingName(s) == IF InjectingNotes(s) = <<>> THEN "" ELSE Head(InjectingNotes(s)).name

TargetClass(s) == IF InjectingNotes(s) = <<>> THEN "" ELSE Head(InjectingNotes(s)).argument

TargetClassSafe(s) == IF s.kind \in {"function", "field"} THEN TargetClass(s) ELSE ""

IsScriptImport(s) ==
    /\ s.origin = "script"
    /\ "import" \in s.spec
    /\ TargetClassSafe(s) = ""
    /\ s.kind \in {"class", "struct", "enum", "function", "method", "field"}

\* `name` with the owner and "State" taken off, for a state named in full.
ShortName(s, name) ==
    IF s.kind = "state" /\ name = StateClassName(s.owner, s.name) THEN s.name ELSE name

-----------------------------------------------------------------------------
(* Extraction: one walk, one frame per node that is descended into.  A     *)
(* frame is [tag, of, pend]: what its children are taken for, the symbol   *)
(* they belong to, and the annotations it opened with.                     *)

Annotation(cst, i) ==
    IF FirstKind(cst, i, "annotation_ident") = 0
    THEN <<>>
    ELSE <<[name     |-> TextAt(cst, FirstKind(cst, i, "annotation_ident")),
            argument |-> TextAt(cst, FirstKind(cst, i, "ident"))]>>

Annotations(cst, nodes) ==
    FlattenSeq([k \in 1 .. Cardinality(nodes) |-> Annotation(cst, Ordered(nodes)[k])])

DirectAnnotations(cst, i) ==
    Annotations(cst, {j \in Kids(cst, i) : cst[j].kind = "annotation"})

\* Annotations wait for the next sibling that is a node of another kind.
Pending(cst, frames, i) ==
    LET up    == cst[i].up
        older == {j \in Kids(cst, up) : j < i /\ Named(cst, j)}
        cut   == Max({0} \cup {j \in older : cst[j].kind # "annotation"})
    IN  (IF cut = 0 THEN frames[up].pend ELSE <<>>)
        \o Annotations(cst, {j \in older : j > cut})

Specifiers(cst, i) ==
    {cst[j].text : j \in {k \in Kids(cst, i) : cst[k].kind = "specifier"}}

\* The last access specifier counts.
Access(cst, i) ==
    LET found == {j \in Kids(cst, i) : /\ cst[j].kind = "specifier"
                                       /\ cst[j].text \in {"private", "protected", "public"}}
    IN  IF found = {} THEN "public" ELSE cst[Max(found)].text

\* The names spelled in the first type annotation of a node, in order.
TypeAnnotation(cst, i) ==
    LET annot == FirstKind(cst, i, "type_annot")
        names == IF annot = 0 THEN <<>>
                 ELSE Ordered({j \in Below(cst, annot) : cst[j].kind = "ident"})
    IN  FromAnnotation([k \in DOMAIN names |-> cst[names[k]].text])

NewSymbol(cst, syms, i, sel, kind, up, notes) ==
    LET second == TextAt(cst, NthKind(cst, i, "ident", 2))
        typed  == kind \in Callables \cup Locals \cup {"field"}
        owner  == IF kind = "state" THEN second ELSE ""
    IN  [id      |-> Len(syms) + 1,
         name    |-> cst[sel].text,
         kind    |-> kind,
         node    |-> i,
         last    |-> cst[i].last,
         sel     |-> sel,
         up      |-> up,
         of      |-> IF up = 0 THEN "" ELSE TypeName(syms[up]),
         type    |-> IF typed THEN TypeAnnotation(cst, i) ELSE <<>>,
         base    |-> CASE kind \in {"class", "struct"} -> second
                       [] kind = "state" -> TextAt(cst, Field(cst, i, "base"))
                       [] OTHER -> "",
         owner   |-> owner,
         state   |-> IF owner = "" THEN "" ELSE StateClassName(owner, cst[sel].text),
         flavour |-> IF kind \in Callables THEN TextAt(cst, FirstKind(cst, i, "func_flavour"))
                     ELSE "",
         notes   |-> notes,
         access  |-> IF typed THEN Access(cst, i) ELSE "public",
         spec    |-> IF kind \in {"enum", "enum_member"} THEN {}
                     ELSE Specifiers(cst, i) \ {"private", "protected", "public"},
         origin  |-> "script"]

\* One symbol per name of a declaration of variables.
VarDecl(cst, syms, i, kind, up, notes) ==
    LET field == IF cst[i].kind = "autobind_decl" THEN "name" ELSE "names"
        names == Ordered({j \in Kids(cst, i) : /\ cst[j].field = field
                                                    /\ cst[j].kind = "ident"})
    IN  FoldLeft(LAMBDA acc, sel :
                    Append(acc, NewSymbol(cst, acc, i, sel, kind, up,
                                          notes \o DirectAnnotations(cst, i))),
                 syms, names)

\* Parameters come before the locals of the block.
Params(cst, syms, i, callable) ==
    LET list   == FirstKind(cst, i, "func_params")
        groups == IF list = 0 THEN {}
                  ELSE {j \in Kids(cst, list) : cst[j].kind = "func_param_group"}
    IN  FoldLeft(LAMBDA acc, g : VarDecl(cst, acc, g, "parameter", callable, <<>>),
                 syms, Ordered(groups))

DeclKind(kind, up) ==
    CASE kind = "class_decl"  -> "class"
      [] kind = "struct_decl" -> "struct"
      [] kind = "enum_decl"   -> "enum"
      [] kind = "state_decl"  -> "state"
      [] kind = "event_decl"  -> "event"
      [] kind = "func_decl"   -> IF up = 0 THEN "function" ELSE "method"

Frame(tag, of, pend) == [tag |-> tag, of |-> of, pend |-> pend]
Skip == Frame("skip", 0, <<>>)

EnterDecl(cst, st, i, up, pending) ==
    LET notes == pending \o DirectAnnotations(cst, i)
        sel   == FirstKind(cst, i, "ident")
        kind  == DeclKind(cst[i].kind, up)
        syms  == Append(st.syms, NewSymbol(cst, st.syms, i, sel, kind, up, notes))
        id    == Len(syms)
    IN  IF sel = 0
        THEN [syms |-> st.syms, frames |-> Append(st.frames, Frame("body", up, notes))]
        ELSE IF kind \in Callables
        THEN [syms |-> Params(cst, syms, i, id), frames |-> Append(st.frames, Frame("callable", id, <<>>))]
        ELSE [syms |-> syms,
              frames |-> Append(st.frames, Frame(IF kind = "enum" THEN "enum" ELSE "body", id, <<>>))]

EnterInBody(cst, st, i, up) ==
    LET kind    == cst[i].kind
        pending == Pending(cst, st.frames, i)
    IN  CASE kind = "annotation" -> [st EXCEPT !.frames = Append(@, Skip)]
          [] kind \in {"class_decl", "struct_decl", "enum_decl", "state_decl",
                       "func_decl", "event_decl"} -> EnterDecl(cst, st, i, up, pending)
          [] kind \in {"member_var_decl", "autobind_decl"} ->
                [syms   |-> VarDecl(cst, st.syms, i, "field", up, pending),
                 frames |-> Append(st.frames, Skip)]
          [] kind = "local_var_decl_stmt" ->
                [syms   |-> VarDecl(cst, st.syms, i, "variable", up, pending),
                 frames |-> Append(st.frames, Skip)]
          [] OTHER -> [st EXCEPT !.frames = Append(@, Frame("body", up, pending))]

EnterInEnum(cst, st, i, enum) ==
    LET sel == FirstKind(cst, i, "ident")
    IN  IF cst[i].kind # "enum_member_decl"
        THEN [st EXCEPT !.frames = Append(@, Frame("enum", enum, <<>>))]
        ELSE [syms |-> IF sel = 0 THEN st.syms
                       ELSE Append(st.syms, NewSymbol(cst, st.syms, i, sel, "enum_member", enum, <<>>)),
              frames |-> Append(st.frames, Skip)]

\* Only the first block of a callable is its body.
EnterInCallable(cst, st, i, callable) ==
    [st EXCEPT !.frames =
        Append(@, IF i = FirstKind(cst, cst[i].up, "func_block")
                  THEN Frame("body", callable, <<>>) ELSE Skip)]

Enter(cst, st, i) ==
    IF i = 1 THEN [st EXCEPT !.frames = <<Frame("body", 0, <<>>)>>]
    ELSE LET frame == st.frames[cst[i].up]
         IN  CASE frame.tag = "skip" \/ ~Named(cst, i) -> [st EXCEPT !.frames = Append(@, Skip)]
               [] frame.tag = "body"     -> EnterInBody(cst, st, i, frame.of)
               [] frame.tag = "enum"     -> EnterInEnum(cst, st, i, frame.of)
               [] frame.tag = "callable" -> EnterInCallable(cst, st, i, frame.of)

\* Every node entered has its frame, so the frames tell which one is next.
RECURSIVE Walked(_, _)
Walked(cst, st) ==
    IF Len(st.frames) = Len(cst) THEN st ELSE Walked(cst, Enter(cst, st, Len(st.frames) + 1))

ExtractSymbols(cst) == Walked(cst, [syms |-> <<>>, frames |-> <<>>]).syms

\* A parsed document.
Document(cst) == [cst |-> cst, syms |-> ExtractSymbols(cst)]

-----------------------------------------------------------------------------
(* What a document answers about its own symbols. *)

FirstOf(syms) == IF syms = <<>> THEN 0 ELSE Head(syms).id

\* A state is the answer only when nothing else is.
StateLast(syms) ==
    LET others == SelectSeq(syms, LAMBDA s : s.kind # "state")
    IN  IF others # <<>> THEN Head(others).id ELSE FirstOf(syms)

TopLevelsNamed(doc, name) ==
    SelectSeq(doc.syms, LAMBDA s : s.up = 0 /\ TargetClassSafe(s) = "" /\ TypeName(s) = name)

TopLevelByName(doc, name) == StateLast(TopLevelsNamed(doc, name))

TopLevelOfKind(doc, name, kinds) ==
    FirstOf(SelectSeq(TopLevelsNamed(doc, name), LAMBDA s : s.kind \in kinds))

TypesNamed(doc, name) ==
    SelectSeq(doc.syms, LAMBDA s : s.kind \in ObjectTypes /\ TypeName(s) = name)

TypeByName(doc, name) == StateLast(TypesNamed(doc, name))

MembersNamed(doc, container, name) ==
    SelectSeq(doc.syms, LAMBDA s : s.up = container /\ s.name = name)

RECURSIVE Containers(_, _)
Containers(doc, id) == IF id = 0 THEN <<>> ELSE <<id>> \o Containers(doc, doc.syms[id].up)

\* The innermost symbol of one of the kinds around a place.
EnclosingSymbolAt(doc, at, kinds) ==
    LET before == {s \in DOMAIN doc.syms : doc.syms[s].node <= at}
        near   == {s \in before : \A t \in before : doc.syms[t].node <= doc.syms[s].node}
        around == SelectSeq(IF near = {} THEN <<>> ELSE Containers(doc, Max(near)),
                            LAMBDA s : at <= doc.syms[s].last /\ doc.syms[s].kind \in kinds)
    IN  IF around = <<>> THEN 0 ELSE Head(around)

EnclosingCallable(doc, id) ==
    LET found == SelectSeq(Containers(doc, doc.syms[id].up),
                           LAMBDA c : doc.syms[c].kind \in Callables)
    IN  IF found = <<>> THEN 0 ELSE Head(found)

\* The last local of that name declared at or before a place.
LocalAtByte(doc, callable, name, at) ==
    LET found == {s \in DOMAIN doc.syms :
                    /\ doc.syms[s].kind \in Locals /\ doc.syms[s].name = name
                    /\ doc.syms[s].sel <= at /\ EnclosingCallable(doc, s) = callable}
    IN  IF found = {} THEN 0 ELSE CHOOSE s \in found : \A t \in found : doc.syms[t].sel <= doc.syms[s].sel

=============================================================================
