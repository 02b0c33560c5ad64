----------------------------- MODULE SymbolIndex -----------------------------
(***************************************************************************)
(* The symbol tables: the index of one layer (the workspace, the base      *)
(* scripts, the built-in declarations), how documents enter and leave it,  *)
(* the keys a change of a document touches, the completion catalogs, and   *)
(* the lookups over the three layers with the base files that a workspace  *)
(* file replaces hidden.                                                   *)
(*                                                                         *)
(* The maps of an index are one sequence of entries [slot, uri, sym]: the  *)
(* slot is the map and its keys, and the entries of a slot are in the      *)
(* order of the vector the code keeps there.  An optional definition is a  *)
(* sequence of at most one entry.                                          *)
(***************************************************************************)
EXTENDS Syntax

CONSTANT MaxDepth      \* MAX_INHERITANCE_DEPTH

-----------------------------------------------------------------------------
(* Which slots a symbol goes to, and which it is taken from. *)

NativeSlots(s) ==
    {IF s.of = "" THEN <<"native", s.name>> ELSE <<"native member", s.of, s.name>>}

EnumSlots(s) == IF s.kind = "enum_member" THEN {<<"enum member", s.name>>} ELSE {}

StateSlots(s) ==
    IF s.kind = "state" /\ s.owner # "" THEN {<<"state", s.owner, s.name>>} ELSE {}

BaseSlots(s) ==
    IF s.kind \in ExtendsByName /\ s.base # ""
    THEN {<<"superclass", s.name>>, <<"subclasses", s.base>>} ELSE {}

InsertSlots(s) ==
    CASE RequiresImport(s)       -> NativeSlots(s)
      [] TargetClassSafe(s) # "" -> {<<"annotated", TargetClassSafe(s), s.name>>}
      [] s.up = 0 -> {<<"top level", TypeName(s)>>} \cup BaseSlots(s) \cup StateSlots(s)
      [] OTHER    -> {<<"member", s.of, s.name>>} \cup EnumSlots(s)

\* Variant: the states of an owner are forgotten.
RemoveSlotsNoState(s) ==
    CASE RequiresImport(s) -> NativeSlots(s)
      [] s.up = 0 -> {<<"top level", TypeName(s)>>, <<"superclass", s.name>>} \cup BaseSlots(s)
      [] OTHER    -> {<<"member", s.of, s.name>>} \cup EnumSlots(s)

RemoveSlots(s) ==
    CASE RequiresImport(s) -> NativeSlots(s)
      [] s.up = 0 ->
            {<<"top level", TypeName(s)>>} \cup StateSlots(s)
            \cup (IF s.kind \in ExtendsByName
                  THEN {<<"superclass", s.name>>} \cup BaseSlots(s) ELSE {})
            \cup (IF TargetClassSafe(s) # ""
                  THEN {<<"annotated", TargetClassSafe(s), s.name>>} ELSE {})
      [] OTHER -> {<<"member", s.of, s.name>>} \cup EnumSlots(s)

Entries(uri, syms) ==
    FlattenSeq([k \in DOMAIN syms |->
        LET slots == SetToSeq(InsertSlots(syms[k]))
        IN  [n \in DOMAIN slots |-> [slot |-> slots[n], uri |-> uri, sym |-> syms[k]]]])

Symbols(layer, uri) == IF uri \in DOMAIN layer.docs THEN layer.docs[uri] ELSE <<>>

\* A derived class leaves the list of its base only under its own name.
Removed(layer, uri) ==
    LET old  == Symbols(layer, uri)
        gone(e) == /\ e.uri = uri
                   /\ \E k \in DOMAIN old :
                        /\ e.slot \in RemoveSlots(old[k])
                        /\ e.slot[1] = "subclasses" => e.sym.name = old[k].name
    IN  SelectSeq(layer.slots, LAMBDA e : ~gone(e))

-----------------------------------------------------------------------------
(* What dependents see of a document. *)

OutwardKey(s) ==
    CASE s.up = 0               -> <<"top level", s.name>>
      [] s.kind = "enum_member" -> <<"enum member", s.name>>
      [] OTHER                  -> <<"member", s.of, s.name>>

HashedFields(s) ==
    <<s.name, s.kind, s.of, s.type, s.base, s.owner, s.flavour, s.notes, s.access, s.spec>>

\* A parameter is hashed with its position, into its callable's entry.
Ordinal(syms, s) ==
    Cardinality({k \in DOMAIN syms : /\ syms[k].kind = "parameter" /\ syms[k].up = s.up
                                     /\ syms[k].id < s.id})

Hashed(syms) ==
    {<<OutwardKey(syms[k]), <<0, HashedFields(syms[k])>>, k>> :
        k \in {n \in DOMAIN syms : syms[n].kind \notin Locals}}
    \cup {<<OutwardKey(syms[syms[k].up]), <<Ordinal(syms, syms[k]) + 1, HashedFields(syms[k])>>, k>> :
            k \in {n \in DOMAIN syms : syms[n].kind = "parameter"}}

\* Hashes of one key are folded with exclusive or: equal ones cancel in pairs.
Outward(syms) ==
    LET hashed == Hashed(syms)
    IN  [key \in {h[1] : h \in hashed} |->
            {v \in {h[2] : h \in {x \in hashed : x[1] = key}} :
                Cardinality({x \in hashed : x[1] = key /\ x[2] = v}) % 2 = 1}]

ChangedKeys(old, new) ==
    {key \in DOMAIN new : key \notin DOMAIN old \/ old[key] # new[key]}
    \cup (DOMAIN old \ DOMAIN new)

NoKeys == [key \in {} |-> {}]

OutwardOf(layer, uri) == IF uri \in DOMAIN layer.outward THEN layer.outward[uri] ELSE NoKeys

\* The surface of a layer decides whether work done over it is still good.
Surface(layer) ==
    [u \in DOMAIN layer.docs |->
        LET seen == SelectSeq(layer.docs[u], LAMBDA s : s.kind # "variable")
        IN  [k \in DOMAIN seen |-> HashedFields(seen[k])]]

-----------------------------------------------------------------------------
(* The catalogs of completion. *)

Bucket(layer, slot) == SelectSeq(layer.slots, LAMBDA e : e.slot = slot)

FirstOpt(defs) == IF defs = <<>> THEN <<>> ELSE <<Head(defs)>>
LastOpt(defs)  == IF defs = <<>> THEN <<>> ELSE <<Last(defs)>>

TopLevels(layer) == SelectSeq(layer.slots, LAMBDA e : e.slot[1] = "top level")

BuildCatalog(layer) ==
    [callables |-> Range(SelectSeq(TopLevels(layer),
                        LAMBDA e : e.sym.kind = "function" /\ e.sym.flavour \notin {"exec", "quest"})),
     types     |-> Range(SelectSeq(TopLevels(layer), LAMBDA e : e.sym.kind \in TypeKinds)),
     members   |-> {Last(Bucket(layer, slot)) :
                        slot \in {e.slot : e \in {x \in Range(layer.slots) : x.slot[1] = "enum member"}}}]

GlobalCatalogChanged(keys) == \E key \in keys : key[1] \in {"top level", "enum member"}

MaybeRebuild(layer) ==
    IF layer.dirty /\ layer.held = 0
    THEN [layer EXCEPT !.catalog = BuildCatalog(layer), !.dirty = FALSE]
    ELSE layer

Touched(layer, keys) ==
    IF GlobalCatalogChanged(keys) THEN MaybeRebuild([layer EXCEPT !.dirty = TRUE]) ELSE layer

BeginBulk(layer) == [layer EXCEPT !.held = @ + 1]

\* Variant: the catalogs put off are not built.
EndBulkOnly(layer) == [layer EXCEPT !.held = IF @ = 0 THEN 0 ELSE @ - 1]

EndBulk(layer) == MaybeRebuild([layer EXCEPT !.held = IF @ = 0 THEN 0 ELSE @ - 1])

\* What the workspace declares hides what the layers below declare.
MergeCatalogs(ws, base, builtins) ==
    LET named(defs) == {TypeName(d.sym) : d \in defs}
        below       == {d \in base : TypeName(d.sym) \notin named(ws)}
    IN  ws \cup below
        \cup {d \in builtins : TypeName(d.sym) \notin named(ws) \cup named(below)}

-----------------------------------------------------------------------------
(* Documents entering and leaving a layer. *)

EmptyLayer ==
    [docs |-> [u \in {} |-> <<>>], slots |-> <<>>, outward |-> [u \in {} |-> NoKeys],
     catalog |-> [callables |-> {}, types |-> {}, members |-> {}], dirty |-> FALSE, held |-> 0]

With(f, x, v) == [y \in DOMAIN f \cup {x} |-> IF y = x THEN v ELSE f[y]]
Without(f, x) == [y \in DOMAIN f \ {x} |-> f[y]]

KeysOfApply(layer, uri, syms) == ChangedKeys(OutwardOf(layer, uri), Outward(syms))

ApplyContribution(layer, uri, syms) ==
    Touched([layer EXCEPT !.slots   = Removed(layer, uri) \o Entries(uri, syms),
                          !.outward = With(@, uri, Outward(syms)),
                          !.docs    = With(@, uri, syms)],
            KeysOfApply(layer, uri, syms))

KeysOfRemove(layer, uri) == DOMAIN OutwardOf(layer, uri)

RemoveDocument(layer, uri) ==
    Touched([layer EXCEPT !.slots   = Removed(layer, uri),
                          !.outward = Without(@, uri),
                          !.docs    = Without(@, uri)],
            KeysOfRemove(layer, uri))

\* A layer that has only ever seen these documents, in this order.
FreshLayer(uris, symbols) ==
    FoldLeft(LAMBDA layer, u : ApplyContribution(layer, u, symbols[u]), EmptyLayer, uris)

-----------------------------------------------------------------------------
(* The built-in declarations: array and map are parsed from scripts of the *)
(* server's own, the native types and functions come from a table.         *)

GenericDocument(doc) == [doc EXCEPT !.syms = [k \in DOMAIN @ |-> [@[k] EXCEPT !.origin = "builtin"]]]

NativeSymbol(id, kind, name, of, type, base) ==
    [id |-> id, name |-> name, kind |-> kind, node |-> id, last |-> id, sel |-> id,
     up |-> IF of = "" THEN 0 ELSE 1, of |-> of, type |-> type, base |-> base, owner |-> "", state |-> "",
     flavour |-> "", notes |-> <<>>, access |-> "public",
     spec |-> IF kind = "enum_member" THEN {} ELSE {"import"}, origin |-> "native"]

\* A native type with its members <<kind, name, type>>.
TypeSymbols(kind, name, base, members) ==
    <<NativeSymbol(1, kind, name, "", <<>>, base)>>
    \o [k \in DOMAIN members |->
            NativeSymbol(k + 1, members[k][1], members[k][2], name, members[k][3], "")]

GlobalSymbols(names) == [k \in DOMAIN names |-> NativeSymbol(k, "function", names[k], "", <<>>, "")]

\* array and map can only be written with arguments: completion leaves them out.
TypesCompletionCatalog(builtin) == {d \in builtin.catalog.types : d.sym.origin # "builtin"}

-----------------------------------------------------------------------------
(* The script environment.  redscripts.ini is a sequence of lines, each a  *)
(* section, an entry or something else; <<>> is a file that cannot be read.*)

FallbackGlobals ==
    <<<<"theGame", "CR4Game">>, <<"theServer", "CServerInterface">>, <<"thePlayer", "CR4Player">>,
      <<"theCamera", "CCamera">>, <<"theUI", "CGuiWitcher">>, <<"theSound", "CScriptSoundSystem">>,
      <<"theDebug", "CDebugAttributesManager">>, <<"theTimer", "CTimerScriptKeyword">>,
      <<"theInput", "CInputManager">>>>

ParseGlobals(ini) ==
    LET section(k) == Max({0} \cup {j \in 1 .. k : ini[j].tag = "section"})
        in(k)      == /\ ini[k].tag = "entry" /\ section(k) # 0
                      /\ ini[section(k)].name = "globals"
                      /\ "" \notin {ini[k].name, ini[k].type}
        entries    == Ordered({k \in DOMAIN ini : in(k)})
    IN  [k \in DOMAIN entries |-> <<ini[entries[k]].name, ini[entries[k]].type>>]

\* The engine's own globals, unless the file says otherwise.
ApplyEngineOverrides(globals) ==
    LET names    == {globals[k][1] : k \in DOMAIN globals}
        camera   == Min({k \in DOMAIN globals : globals[k][1] = "theCamera"} \cup {Len(globals) + 1})
        director == <<"theCamera", "CCameraDirector">>
        retyped  == IF "theCamera" \notin names THEN Append(globals, director)
                    ELSE IF globals[camera][2] = "CCamera" THEN [globals EXCEPT ![camera] = director]
                    ELSE globals
    IN  IF "theTelemetry" \in names THEN retyped
        ELSE Append(retyped, <<"theTelemetry", "CR4TelemetryScriptProxy">>)

\* The first entry of a name counts.
ParseScriptEnvironment(ini) ==
    LET globals == ApplyEngineOverrides(IF ini = <<>> THEN FallbackGlobals ELSE ParseGlobals(ini))
    IN  [n \in {globals[k][1] : k \in DOMAIN globals} |->
            globals[Min({k \in DOMAIN globals : globals[k][1] = n})][2]]

GlobalSymbol(name, class) ==
    [id |-> 0, name |-> name, kind |-> "variable", node |-> 0, last |-> 0, sel |-> 0, up |-> 0,
     of |-> "", type |-> FromAnnotation(<<class>>), base |-> "", owner |-> "", state |-> "",
     flavour |-> "", notes |-> <<>>, access |-> "public", spec |-> {}, origin |-> "script"]

-----------------------------------------------------------------------------
(* Lookups.  A database is [ws, base, builtin, hidden, globals].           *)

OrElse(a, b) == IF a # <<>> THEN a ELSE b

Rank(access) == CASE access = "private" -> 0 [] access = "protected" -> 1 [] access = "public" -> 2

\* Variant: the base files replaced are looked at like the others.
VisibleAll(db, defs) == defs

Visible(db, defs) == SelectSeq(defs, LAMBDA d : d.uri \notin db.hidden)

Layered(db, Find(_)) ==
    OrElse(Find(db.ws), OrElse(Visible(db, Find(db.base)), Find(db.builtin)))

TopIn(layer, name) ==
    LET defs   == Bucket(layer, <<"top level", name>>)
        others == SelectSeq(defs, LAMBDA d : d.sym.kind # "state")
    IN  FirstOpt(IF others # <<>> THEN others ELSE defs)

FindTopLevel(db, name) == Layered(db, LAMBDA layer : TopIn(layer, name))

FindTopLevelOfKind(db, name, kinds) ==
    LET ok(defs)    == FirstOpt(SelectSeq(defs, LAMBDA d : d.sym.kind \in kinds))
        bucket(layer) == Bucket(layer, <<"top level", name>>)
    IN  OrElse(ok(bucket(db.ws)),
               OrElse(ok(Visible(db, bucket(db.base))), ok(bucket(db.builtin))))

FindStateInOwner(db, owner, name) ==
    Layered(db, LAMBDA layer : LastOpt(Bucket(layer, <<"state", owner, name>>)))

FindEnumMember(db, name) ==
    Layered(db, LAMBDA layer : LastOpt(Bucket(layer, <<"enum member", name>>)))

\* A global of the script environment is its class, when there is one.
FindScriptGlobal(db, name) ==
    LET class == IF name \in DOMAIN db.globals THEN FindTopLevel(db, db.globals[name]) ELSE <<>>
    IN  IF name \notin DOMAIN db.globals THEN <<>>
        ELSE OrElse(class, <<[slot |-> <<"global">>, uri |-> "redscripts.ini",
                              sym |-> GlobalSymbol(name, db.globals[name])]>>)

SuperIn(layer, name) ==
    LET defs == Bucket(layer, <<"superclass", name>>)
    IN  IF defs = <<>> THEN "" ELSE Last(defs).sym.base

RECURSIVE SuperclassOf(_, _), StateSuperclass(_, _), StateInChain(_, _, _, _)
SuperclassOf(db, name) ==
    LET hidden == Visible(db, TopIn(db.base, name)) = <<>>
        top    == FindTopLevel(db, name)
    IN  CASE SuperIn(db.ws, name) # "" -> SuperIn(db.ws, name)
          [] SuperIn(db.ws, name) = "" /\ ~hidden /\ SuperIn(db.base, name) # "" -> SuperIn(db.base, name)
          [] OTHER ->
                IF SuperIn(db.builtin, name) # "" THEN SuperIn(db.builtin, name)
                ELSE IF top = <<>> THEN ""
                ELSE IF top[1].sym.kind = "state" THEN StateSuperclass(db, top[1].sym)
                ELSE IF top[1].sym.kind = "class"
                        /\ name \notin {"CObject", "IScriptable", "ISerializable"} THEN "CObject"
                ELSE ""

StateSuperclass(db, s) ==
    LET base == IF s.owner = "" \/ s.base = "" THEN <<>> ELSE StateInChain(db, s.owner, s.base, 0)
    IN  IF base = <<>> THEN "CScriptableState" ELSE TypeName(base[1].sym)

StateInChain(db, owner, name, depth) ==
    IF depth > MaxDepth \/ owner = "" THEN <<>>
    ELSE OrElse(FindStateInOwner(db, owner, name),
                StateInChain(db, SuperclassOf(db, owner), name, depth + 1))

FindStateInOwnerChain(db, owner, name) == StateInChain(db, owner, name, 0)

\* Every state of that name; the hidden base files are not looked at.
StatesNamed(db, name) ==
    {e \in Range(db.ws.slots) \cup Range(db.base.slots) : e.slot[1] = "state" /\ e.slot[3] = name}

\* A class, the class it extends, and so on, as far as the code looks.
RECURSIVE ChainFrom(_, _, _)
ChainFrom(db, name, depth) ==
    IF depth > MaxDepth \/ name = "" THEN <<>>
    ELSE <<name>> \o ChainFrom(db, SuperclassOf(db, name), depth + 1)

Chain(db, name) == ChainFrom(db, name, 0)

InheritsFrom(db, name, ancestor) == Contains(Chain(db, name), ancestor)

DirectMemberIn(layer, container, name) ==
    OrElse(LastOpt(Bucket(layer, <<"member", container, name>>)),
           FirstOpt(Bucket(layer, <<"annotated", container, name>>)))

DirectMember(db, container, name) ==
    Layered(db, LAMBDA layer : DirectMemberIn(layer, container, name))

DirectPublicMember(db, container, name) ==
    Layered(db, LAMBDA layer : SelectSeq(DirectMemberIn(layer, container, name),
                                         LAMBDA d : d.sym.access = "public"))

ClassBodyMember(db, container, name) ==
    Layered(db, LAMBDA layer : LastOpt(Bucket(layer, <<"member", container, name>>)))

\* The first class of the chain that has an answer gives it.
InChain(db, container, Find(_)) ==
    FirstOpt(FlattenSeq([k \in DOMAIN Chain(db, container) |-> Find(Chain(db, container)[k])]))

\* The length of the type a prefix of `type` spells.
RECURSIVE Extent(_)
Extent(type) ==
    CASE type = <<>> -> 0
      [] type # <<>> /\ Head(type) = "array" -> 1 + Extent(Tail(type))
      [] type # <<>> /\ Head(type) = "map" ->
            LET key == Extent(Tail(type)) IN 1 + key + Extent(SubSeq(type, key + 2, Len(type)))
      [] OTHER -> 1

Element(type) == IF Head(type) = "map" THEN SubSeq(type, Extent(Tail(type)) + 2, Len(type))
                 ELSE Tail(type)

\* The placeholders of a built-in container stand for its arguments.
Substitute(type, container) ==
    LET key == Extent(Tail(container))
        binding(t) ==
            CASE Head(container) = "array" /\ t = "T" -> Tail(container)
              [] Head(container) = "map" /\ t = "K"   -> SubSeq(container, 2, key + 1)
              [] Head(container) = "map" /\ t = "V"   -> Element(container)
              [] OTHER -> <<t>>
    IN  FlattenSeq([k \in DOMAIN type |-> binding(type[k])])

SubstituteIn(def, container) ==
    IF Len(container) > 1 THEN [def EXCEPT !.sym.type = Substitute(@, container)] ELSE def

FindMember(db, container, name, min) ==
    LET def == InChain(db, Head(container), LAMBDA c : DirectMember(db, c, name))
    IN  IF def = <<>> THEN <<>>
        ELSE IF Rank(def[1].sym.access) < Rank(min) THEN <<>>
        ELSE <<SubstituteIn(def[1], container)>>

FindClassBodyMember(db, container, name) ==
    InChain(db, container, LAMBDA c : ClassBodyMember(db, c, name))

AnnotatedMembers(db, container, name) ==
    LET found(layer) == Bucket(layer, <<"annotated", container, name>>)
    IN  found(db.ws) \o Visible(db, found(db.base)) \o found(db.builtin)

AllMemberDeclarations(db, container, name) ==
    FindClassBodyMember(db, container, name) \o AnnotatedMembers(db, container, name)

RECURSIVE Subclasses(_, _)
Subclasses(db, found) ==
    LET more == {e.sym.name : e \in {x \in Range(db.ws.slots) \cup Range(db.base.slots)
                                            \cup Range(db.builtin.slots) :
                                     x.slot[1] = "subclasses" /\ x.slot[2] \in found}}
    IN  IF more \subseteq found THEN found ELSE Subclasses(db, found \cup more)

VirtualParentOverrides(db, owner, name) ==
    UNION {Range(DirectPublicMember(db, c, name)) : c \in Subclasses(db, {owner}) \ {owner}}

MemberList(layer, container, name) ==
    LastOpt(Bucket(layer, <<"member", container, name>>))
    \o Bucket(layer, <<"annotated", container, name>>)

\* Variant: what annotations add is not listed.
MemberNamesOwn(layer, container) ==
    {e.slot[3] : e \in {x \in Range(layer.slots) : x.slot[1] = "member" /\ x.slot[2] = container}}

MemberNames(layer, container) ==
    {e.slot[3] : e \in {x \in Range(layer.slots) : /\ x.slot[1] \in {"member", "annotated"}
                                                  /\ x.slot[2] = container}}

\* The members a completion offers on a receiver.
MembersOf(db, container, min) ==
    LET chain    == Chain(db, Head(container))
        first(c, n) == FirstOpt(MemberList(db.ws, c, n) \o Visible(db, MemberList(db.base, c, n))
                                \o MemberList(db.builtin, c, n))
        names    == UNION {MemberNames(layer, chain[k]) :
                              layer \in {db.ws, db.base, db.builtin}, k \in DOMAIN chain}
        found(n) == InChain(db, Head(container), LAMBDA c : first(c, n))
    IN  {n \in names : found(n) # <<>> /\ Rank(found(n)[1].sym.access) >= Rank(min)}

FindNativeTopLevel(db, name) ==
    OrElse(LastOpt(Bucket(db.builtin, <<"native", name>>)),
           FirstOpt(SelectSeq(Bucket(db.builtin, <<"top level", name>>),
                              LAMBDA d : d.sym.origin = "native")))

FindNativeMember(db, container, name) ==
    InChain(db, container, LAMBDA c : LastOpt(Bucket(db.builtin, <<"native member", c, name>>)))

NativeCounterpart(db, s) ==
    IF s.of = ""
    THEN SelectSeq(FindNativeTopLevel(db, s.name),
                   LAMBDA d : (d.sym.kind \in TypeKinds) = (s.kind \in TypeKinds))
    ELSE FindNativeMember(db, s.of, s.name)

ParametersOf(db, def) ==
    LET own(layer) == SelectSeq(Symbols(layer, def.uri),
                                LAMBDA s : s.kind = "parameter" /\ s.up = def.sym.id)
    IN  IF own(db.ws) # <<>> THEN own(db.ws)
        ELSE IF def.uri \notin db.hidden /\ own(db.base) # <<>> THEN own(db.base)
        ELSE own(db.builtin)

-----------------------------------------------------------------------------
(* What a lookup writes down as observed. *)

Top(name) == <<"top level", name>>

\* superclass_of observes the class; a state's, the owners it searches too.
RECURSIVE SeenSuper(_, _), SeenState(_, _, _, _)
SeenSuper(db, name) ==
    LET top == FindTopLevel(db, name)
    IN  {Top(name)} \cup
        (IF top # <<>> /\ top[1].sym.kind = "state" /\ top[1].sym.owner # "" /\ top[1].sym.base # ""
         THEN SeenState(db, top[1].sym.owner, top[1].sym.base, 0) ELSE {})

SeenState(db, owner, name, depth) ==
    IF depth > MaxDepth \/ owner = "" THEN {}
    ELSE {Top(owner), Top(StateClassName(owner, name))} \cup
         (IF FindStateInOwner(db, owner, name) # <<>> THEN {}
          ELSE SeenSuper(db, owner) \cup SeenState(db, SuperclassOf(db, owner), name, depth + 1))

SeenChain(db, chain) == UNION {SeenSuper(db, chain[k]) : k \in DOMAIN chain}

\* find_member stops at the class that answers.
SeenMember(db, container, name) ==
    LET chain == Chain(db, container)
        hit   == {k \in DOMAIN chain : DirectMember(db, chain[k], name) # <<>>}
        upto  == IF hit = {} THEN Len(chain) ELSE Min(hit)
    IN  {<<"member", chain[k], name>> : k \in 1 .. upto}
        \cup SeenChain(db, SubSeq(chain, 1, IF hit = {} THEN upto ELSE upto - 1))
        \cup {Top(chain[k]) : k \in 1 .. upto}

=============================================================================
