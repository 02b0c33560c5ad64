------------------------------- MODULE Bodies -------------------------------
(***************************************************************************)
(* The body of one function as the refactorings see it: who reads and who  *)
(* writes a local, which of its definitions reach a read, and what the     *)
(* refactorings "Inline variable", "Join declaration and assignment" and   *)
(* "Split declaration and initializer" make of it.                         *)
(*                                                                         *)
(* A body b is [db, uri, doc, callable, node, writes]; a local is the      *)
(* index of its symbol.  A plan is the reads it replaces with the tree put *)
(* there, the nodes it deletes, the trees it inserts behind a node, and    *)
(* whether the code calls it verified.                                     *)
(***************************************************************************)
EXTENDS Resolve

CONSTANT MaxDefs    \* MAX_DEFS: the most definitions of a local that are followed

-----------------------------------------------------------------------------
(* Writes. *)

RECURSIVE LvalueBase(_, _)
LvalueBase(doc, i) ==
    CASE Kind(doc, i) = "ident" -> i
      [] Kind(doc, i) = "member_access_expr" ->
            IF Kind(doc, NthNamed(doc.cst, i, 1)) = "this_expr" THEN MemberAccessMember(doc, i)
            ELSE LvalueBase(doc, NthNamed(doc.cst, i, 1))
      [] Kind(doc, i) = "nested_expr" -> LvalueBase(doc, NthNamed(doc.cst, i, 1))
      [] Kind(doc, i) = "array_expr"  -> LvalueBase(doc, Part(doc, i, "accessor"))
      [] OTHER -> 0

\* Nothing is known of a call with an empty slot.
OutArgs(db, uri, doc, call) ==
    LET slots  == ArgSlots(doc, call)
        params == CalleeParams(db, uri, doc, call)
    IN  IF slots = <<>> \/ 0 \in Range(slots) \/ params = <<>> THEN {}
        ELSE {slots[k] : k \in {n \in DOMAIN slots \cap DOMAIN params[1] : "out" \in params[1][n].spec}}

ReceiverBase(doc, call) ==
    LET callee == CallCallee(doc, call)
    IN  IF Kind(doc, callee) # "member_access_expr" THEN 0
        ELSE LvalueBase(doc, NthNamed(doc.cst, callee, 1))

WriteSites(db, uri, doc, root) ==
    LET of(kind) == {i \in Below(doc.cst, root) : doc.cst[i].kind = kind}
        left(i)  == Part(doc, i, "left")
        site(tag, node) == IF node = 0 THEN {} ELSE {[tag |-> tag, node |-> node]}
    IN  UNION {site("target", WriteTarget(doc, left(i)))
                 \cup (IF WriteTarget(doc, left(i)) \in {0, LvalueBase(doc, left(i))} THEN {}
                       ELSE site("base", LvalueBase(doc, left(i)))) : i \in of("assign_op_expr")}
        \cup UNION {site("receiver", ReceiverBase(doc, i))
                      \cup UNION {site("out", WriteTarget(doc, a)) : a \in OutArgs(db, uri, doc, i)} :
                    i \in of("func_call_expr")}

KeyAt(b, i) ==
    LET def == ResolveDefinition(b.db, b.uri, b.doc, i) IN IF def = <<>> THEN <<>> ELSE Key(def[1])

-----------------------------------------------------------------------------
(* The model of a body. *)

BodyModel(db, uri, doc, at) ==
    LET callable == EnclosingSymbolAt(doc, at, Callables)
        decl == IF callable = 0 THEN 0
                ELSE FindAncestor(doc.cst, doc.syms[callable].sel, {"func_decl", "event_decl"})
        node == IF decl = 0 THEN 0 ELSE Part(doc, decl, "definition")
        b    == [db |-> db, uri |-> uri, doc |-> doc]
    IN  IF Kind(doc, node) # "func_block" THEN <<>>
        ELSE <<[db |-> db, uri |-> uri, doc |-> doc, callable |-> callable, node |-> node,
                writes |-> {[tag |-> w.tag, node |-> w.node, key |-> KeyAt(b, w.node)] :
                              w \in {x \in WriteSites(db, uri, doc, node) : KeyAt(b, x.node) # <<>>}}]>>

LocalsOf(b) == {s \in DOMAIN b.doc.syms : b.doc.syms[s].up = b.callable /\ b.doc.syms[s].kind \in Locals}

LocalKey(b, x) == <<b.uri, b.doc.syms[x].sel>>

RECURSIVE UnwrapNested(_, _)
UnwrapNested(doc, i) ==
    IF Kind(doc, i) = "nested_expr" THEN UnwrapNested(doc, NthNamed(doc.cst, i, 1)) ELSE i

\* x = ..., with x the whole left-hand side.
IsWholeValueWrite(doc, i) ==
    LET assign == FindAncestor(doc.cst, i, {"assign_op_expr"})
        left   == IF assign = 0 THEN 0 ELSE Part(doc, assign, "left")
    IN  /\ left # 0
        /\ WriteTarget(doc, left) = i /\ UnwrapNested(doc, left) = i
        /\ Kind(doc, Part(doc, assign, "op")) = "assign_op_direct"

Reads(b, x) ==
    {i \in Idents(b.doc.cst) \cap Below(b.doc.cst, b.node) :
        /\ ClassifyIdent(b.doc, i).tag = "value"
        /\ ~IsWholeValueWrite(b.doc, i)
        /\ LocalAtByte(b.doc, b.callable, Name(b.doc, i), i) = x}

\* The declaration of a local, 0 for a parameter.
DeclNode(b, x) ==
    IF b.doc.syms[x].sel \notin Below(b.doc.cst, b.node) THEN 0
    ELSE FindAncestor(b.doc.cst, b.doc.syms[x].sel, {"local_var_decl_stmt"})

DeclNames(b, decl) == {i \in Kids(b.doc.cst, decl) : b.doc.cst[i].field = "names"}

\* The variable at the cursor: one that is read there, or declared there by
\* name or by the keyword in front of a single name.
VariableAt(b, at) ==
    LET reading  == {x \in LocalsOf(b) : at \in Reads(b, x)}
        declared == {x \in LocalsOf(b) : b.doc.syms[x].sel = at}
        keyword  == {x \in LocalsOf(b) : /\ DeclNode(b, x) # 0
                                         /\ Cardinality(DeclNames(b, DeclNode(b, x))) = 1
                                         /\ at \in DeclNode(b, x) .. b.doc.syms[x].sel}
        found == IF reading # {} THEN reading ELSE IF declared # {} THEN declared ELSE keyword
    IN  IF found = {} THEN 0
        ELSE IF b.doc.syms[Min(found)].kind = "variable" THEN Min(found) ELSE 0

LocalAtDeclaration(b, at) ==
    LET found == {x \in LocalsOf(b) : DeclNode(b, x) # 0 /\ at \in Below(b.doc.cst, DeclNode(b, x))}
    IN  IF found = {} THEN 0 ELSE Min(found)

-----------------------------------------------------------------------------
(* Reaching definitions: a walk over the statements, which hands on the    *)
(* definitions that may hold at each exit.  An exit is <<>> when control   *)
(* cannot get there; seen pairs reads with definitions that reach them.    *)

UnionOf(e1, e2) == IF e1 = <<>> THEN e2 ELSE IF e2 = <<>> THEN e1 ELSE <<e1[1] \cup e2[1]>>

Flow(normal, breaks, continues, seen) ==
    [normal |-> normal, breaks |-> breaks, continues |-> continues, seen |-> seen]

Recorded(a, region, state) == (a.reads \cap Below(a.doc.cst, region)) \X state

\* Only the last definition in the region is left.
GenIn(a, region, state) ==
    LET in == {d \in a.defs : d.owner \in Below(a.doc.cst, region)}
    IN  IF in = {} THEN state ELSE {CHOOSE d \in in : \A e \in in : e.owner <= d.owner}

EvalLeaf(a, i, state) == Flow(<<GenIn(a, i, state)>>, <<>>, <<>>, Recorded(a, i, state))

Seen(a, i, field, state) ==
    IF Part(a.doc, i, field) = 0 THEN {} ELSE Recorded(a, Part(a.doc, i, field), state)

NamedKids(doc, i) == Ordered({j \in Kids(doc.cst, i) : Named(doc.cst, j)})

OrState(exit, state) == IF exit = <<>> THEN state ELSE exit[1]

RECURSIVE EvalStmt(_, _, _), EvalBlock(_, _, _), EvalSections(_, _, _, _, _)

EvalBlock(a, stmts, flow) ==
    IF stmts = <<>> \/ flow.normal = <<>> THEN flow
    ELSE LET next == EvalStmt(a, Head(stmts), flow.normal[1])
         IN  EvalBlock(a, Tail(stmts),
                       Flow(next.normal, UnionOf(flow.breaks, next.breaks),
                            UnionOf(flow.continues, next.continues), flow.seen \cup next.seen))

EvalBody(a, i, field, state) ==
    IF Part(a.doc, i, field) = 0 THEN Flow(<<state>>, <<>>, <<>>, {})
    ELSE EvalStmt(a, Part(a.doc, i, field), state)

EvalIf(a, i, state) ==
    LET then  == EvalBody(a, i, "body", state)
        other == EvalBody(a, i, "else", state)
    IN  Flow(UnionOf(then.normal, other.normal), UnionOf(then.breaks, other.breaks),
             UnionOf(then.continues, other.continues),
             UNION {Seen(a, i, "cond", state), then.seen, other.seen})

\* Variant: the loop is taken to run once.
EvalWhileOnce(a, i, state) ==
    LET body == EvalBody(a, i, "body", state)
    IN  Flow(UnionOf(UnionOf(<<state>>, body.normal), body.breaks), <<>>, <<>>,
             Seen(a, i, "cond", state) \cup body.seen)

\* What the body carries back to the head of the loop is learnt first.
EvalWhile(a, i, state) ==
    LET learnt == EvalBody(a, i, "body", state)
        header == UnionOf(<<state>>, UnionOf(learnt.normal, learnt.continues))[1]
        body   == EvalBody(a, i, "body", header)
    IN  Flow(UnionOf(<<header>>, body.breaks), <<>>, <<>>, Seen(a, i, "cond", header) \cup body.seen)

EvalDoWhile(a, i, state) ==
    LET learnt == EvalBody(a, i, "body", state)
        entry  == UnionOf(<<state>>, UnionOf(learnt.normal, learnt.continues))[1]
        body   == EvalBody(a, i, "body", entry)
    IN  Flow(UnionOf(body.normal, body.breaks), <<>>, <<>>,
             Seen(a, i, "cond", OrState(UnionOf(body.normal, body.continues), entry)) \cup body.seen)

EvalFor(a, i, state) ==
    LET init   == Part(a.doc, i, "init")
        iter   == Part(a.doc, i, "iter")
        entry  == IF init = 0 THEN state ELSE GenIn(a, init, state)
        learnt == EvalBody(a, i, "body", entry)
        after  == OrState(UnionOf(learnt.normal, learnt.continues), entry)
        header == entry \cup (IF iter = 0 THEN after ELSE GenIn(a, iter, after))
        body   == EvalBody(a, i, "body", header)
    IN  Flow(UnionOf(<<header>>, body.breaks), <<>>, <<>>,
             UNION {Seen(a, i, "init", state), Seen(a, i, "cond", header), body.seen,
                    Seen(a, i, "iter", OrState(UnionOf(body.normal, body.continues), header))})

\* The sections of a switch; cur is what falls through from above.
EvalSections(a, sections, entry, cur, flow) ==
    IF sections = <<>> THEN [flow EXCEPT !.normal = UnionOf(flow.breaks, cur), !.breaks = <<>>]
    ELSE LET s    == Head(sections)
             next == EvalStmt(a, s, OrState(cur, entry))
         IN  IF Kind(a.doc, s) \in {"switch_case_label", "switch_default_label"}
             THEN EvalSections(a, Tail(sections), entry, UnionOf(cur, <<entry>>),
                               [flow EXCEPT !.seen = @ \cup Seen(a, s, "value", entry)])
             ELSE EvalSections(a, Tail(sections), entry, next.normal,
                               Flow(<<>>, UnionOf(flow.breaks, next.breaks),
                                    UnionOf(flow.continues, next.continues), flow.seen \cup next.seen))

EvalSwitch(a, i, state) ==
    LET block    == Part(a.doc, i, "body")
        sections == NamedKids(a.doc, block)
        flow     == EvalSections(a, sections, state, <<>>, Flow(<<>>, <<>>, <<>>, Seen(a, i, "cond", state)))
    IN  IF block = 0 THEN Flow(<<state>>, <<>>, <<>>, Seen(a, i, "cond", state))
        ELSE IF \E k \in DOMAIN sections : Kind(a.doc, sections[k]) = "switch_default_label" THEN flow
        ELSE [flow EXCEPT !.normal = UnionOf(@, <<state>>)]

\* A statement that is not understood takes the answer from the reads in it.
Poisoned(a, i, state) == Flow(<<state>>, <<>>, <<>>, Recorded(a, i, a.defs \cup {[owner |-> 0], [owner |-> -1]}))

EvalStmt(a, i, state) ==
    LET kind == Kind(a.doc, i)
    IN  CASE kind = "func_block"    -> EvalBlock(a, NamedKids(a.doc, i), Flow(<<state>>, <<>>, <<>>, {}))
          [] kind \in {"local_var_decl_stmt", "expr_stmt", "delete_stmt"} -> EvalLeaf(a, i, state)
          [] kind = "return_stmt"   -> [EvalLeaf(a, i, state) EXCEPT !.normal = <<>>]
          [] kind = "break_stmt"    -> Flow(<<>>, <<state>>, <<>>, {})
          [] kind = "continue_stmt" -> Flow(<<>>, <<>>, <<state>>, {})
          [] kind = "if_stmt"       -> EvalIf(a, i, state)
          [] kind = "while_stmt"    -> EvalWhile(a, i, state)
          [] kind = "do_while_stmt" -> EvalDoWhile(a, i, state)
          [] kind = "for_stmt"      -> EvalFor(a, i, state)
          [] kind = "switch_stmt"   -> EvalSwitch(a, i, state)
          [] kind = "nop"           -> Flow(<<state>>, <<>>, <<>>, {})
          [] OTHER                  -> Poisoned(a, i, state)

-----------------------------------------------------------------------------
(* Definitions of a local, and the only one that reaches a read. *)

DirectAssignValue(doc, target) ==
    LET assign == FindAncestor(doc.cst, target, {"assign_op_expr"})
    IN  IF assign = 0 THEN 0
        ELSE IF Kind(doc, Part(doc, assign, "op")) # "assign_op_direct" THEN 0
        ELSE Part(doc, assign, "right")

Mutations(b, x) == {w \in b.writes : w.key = LocalKey(b, x)}

BuildDefs(b, x) ==
    LET decl == DeclNode(b, x)
    IN  {[owner |-> decl, decl |-> TRUE, stmt |-> 0,
          value |-> IF Cardinality(DeclNames(b, decl)) = 1 THEN Part(b.doc, decl, "init_value") ELSE 0]}
        \cup {[owner |-> w.node, decl |-> FALSE, stmt |-> FindAncestor(b.doc.cst, w.node, {"expr_stmt"}),
               value |-> IF w.tag = "target" THEN DirectAssignValue(b.doc, w.node) ELSE 0] : w \in Mutations(b, x)}

\* A read that is a write as well cannot take a value.
ReadsToInline(b, x) == Reads(b, x) \ {w.node : w \in Mutations(b, x)}

\* For each read the definitions that reach it.
Reaching(b, x) ==
    LET a    == [doc |-> b.doc, defs |-> BuildDefs(b, x), reads |-> ReadsToInline(b, x)]
        seen == IF Cardinality(a.defs) > MaxDefs THEN {} ELSE EvalStmt(a, b.node, {}).seen
    IN  [r \in a.reads |-> {s[2] : s \in {y \in seen : y[1] = r}}]

\* <<>> unless it is one.
SoleDef(defs) == IF Cardinality(defs) = 1 THEN <<CHOOSE d \in defs : TRUE>> ELSE <<>>

\* The reads of the locals that one definition reaches, with where it is.
SoleReaching(b) ==
    UNION {LET reaching == Reaching(b, x)
           IN  {<<r, SoleDef(reaching[r])[1].owner>> : r \in {y \in DOMAIN reaching : SoleDef(reaching[y]) # <<>>}}
               : x \in {l \in LocalsOf(b) : DeclNode(b, l) # 0}}

-----------------------------------------------------------------------------
(* Whether a value may move. *)

HasCall(b, i) == \E j \in Below(b.doc.cst, i) : Kind(b.doc, j) = "func_call_expr"

CallsOrConstructs(b, i) == \E j \in Below(b.doc.cst, i) : Kind(b.doc, j) \in {"func_call_expr", "new_expr"}

\* The locals, parameters and fields a value names.
ReferencedDefs(b, value) ==
    {Key(def[1]) : def \in {d \in {ResolveDefinition(b.db, b.uri, b.doc, i) :
                                      i \in Idents(b.doc.cst) \cap Below(b.doc.cst, value)} :
                              d # <<>> /\ d[1].sym.kind \in Locals \cup {"field"}}}

\* Variant: only what a call writes counts.
OperandPassedIn(b, value, window) ==
    \E w \in b.writes : w.tag = "out" /\ w.node \in window /\ w.key \in ReferencedDefs(b, value)

OperandWrittenIn(b, value, window) ==
    \E w \in b.writes : w.node \in window /\ w.key \in ReferencedDefs(b, value)

EnclosingLoop(b, i) ==
    \E j \in Range(Above(b.doc.cst, i)) :
        j > b.node /\ Kind(b.doc, j) \in {"for_stmt", "while_stmt", "do_while_stmt"}

IfBranch(doc, stmt, i) ==
    LET within(field) == Part(doc, stmt, field) # 0 /\ i \in Below(doc.cst, Part(doc, stmt, field))
    IN  IF within("body") THEN "body" ELSE IF within("else") THEN "else" ELSE ""

MutuallyExclusive(doc, i, j) ==
    \E s \in Range(Above(doc.cst, i)) :
        Kind(doc, s) = "if_stmt" /\ {IfBranch(doc, s, i), IfBranch(doc, s, j)} = {"body", "else"}

CallInWindow(b, value, window) ==
    \E j \in window \cap Below(b.doc.cst, b.node) :
        /\ Kind(b.doc, j) = "func_call_expr"
        /\ EnclosingLoop(b, value) \/ ~MutuallyExclusive(b.doc, j, value)

\* What Join and Split ask: "" when the value must not move over the window.
ValueHoistability(b, value, window, x, block) ==
    LET operands == ReferencedDefs(b, value)
        between  == {j \in Kids(b.doc.cst, block) : Below(b.doc.cst, j) \subseteq window}
    IN  CASE \/ LocalKey(b, x) \in operands
             \/ \E k \in operands : k[1] = b.uri /\ k[2] \in window
             \/ OperandWrittenIn(b, value, window) -> ""
          [] OTHER ->
                IF HasCall(b, value) THEN IF between # {} THEN "unverified" ELSE "verified"
                ELSE IF ~CallInWindow(b, value, window) \/ operands = {} THEN "verified"
                ELSE "unverified"

\* What Inline asks: is the value, captured at a place, the same later?  Only
\* locals and parameters are looked at.
ValueStability(b, value, captured, x) ==
    LET named == {i \in Idents(b.doc.cst) \cap Below(b.doc.cst, value) : ClassifyIdent(b.doc, i).tag = "value"}
        def(i) == ResolveDefinition(b.db, b.uri, b.doc, i)
        local(i) == def(i) # <<>> /\ def(i)[1].sym.kind \in Locals
        clobbered(i) == \E w \in b.writes : /\ w.key = Key(def(i)[1])
                                            /\ w.node >= captured /\ w.node \notin Below(b.doc.cst, value)
    IN  CASE \E i \in named : local(i) /\ Key(def(i)[1]) = LocalKey(b, x) -> "references_target"
          [] OTHER -> IF \A i \in named : def(i) # <<>> /\ (local(i) => ~clobbered(i))
                      THEN "stable" ELSE "may_change"

-----------------------------------------------------------------------------
(* The refactorings. *)

Plan(replace, gone, insert, verified) ==
    [replace |-> replace, gone |-> gone, insert |-> insert, verified |-> verified]

AtomicKinds ==
    {"ident", "literal_int", "literal_hex", "literal_float", "literal_bool", "literal_string", "literal_name",
     "literal_null", "func_call_expr", "member_access_expr", "array_expr", "nested_expr", "new_expr",
     "this_expr", "parent_expr", "super_expr", "virtual_parent_expr"}

WholeOperand ==
    {"return_stmt", "expr_stmt", "func_call_args", "nested_expr", "local_var_decl_stmt", "assign_op_expr",
     "switch_case_label", "delete_stmt", "sequence_expression"}

NeedsParentheses(b, value, read) ==
    Kind(b.doc, value) \notin AtomicKinds /\ Kind(b.doc, Up(b.doc, read)) \notin WholeOperand

\* The node i alone, with all below it.
Subtree(doc, i) ==
    [k \in 1 .. doc.cst[i].last - i + 1 |->
        [doc.cst[i + k - 1] EXCEPT !.up   = IF k = 1 THEN 0 ELSE @ - i + 1,
                                   !.last = @ - i + 1]]

SubstitutedText(b, value, read) ==
    IF NeedsParentheses(b, value, read) THEN N("nested_expr", "", <<Subtree(b.doc, value)>>)
    ELSE Subtree(b.doc, value)

\* The declaration, or the name in its list, and every assignment.
Teardown(b, x) ==
    (IF Cardinality(DeclNames(b, DeclNode(b, x))) = 1 THEN {DeclNode(b, x)} ELSE {b.doc.syms[x].sel})
    \cup ({d.stmt : d \in BuildDefs(b, x)} \ {0})

InlineVariable(b, at) ==
    LET x     == VariableAt(b, at)
        decl  == DeclNode(b, x)
        defs  == BuildDefs(b, x)
        sole  == [r \in ReadsToInline(b, x) |-> SoleDef(Reaching(b, x)[r])]
        valued == {r \in DOMAIN sole : sole[r] # <<>> /\ sole[r][1].value # 0}
        captured(d) == IF d.stmt = 0 THEN decl ELSE d.stmt
        stability(r) == ValueStability(b, sole[r][1].value, captured(sole[r][1]), x)
        eligible == {r \in valued : stability(r) # "references_target"}
        used     == {sole[r][1] : r \in eligible}
        possible == \A d \in defs : d.decl \/ d.stmt # 0
        clean    == \A d \in defs \ used :
                       LET s == IF d.decl THEN decl ELSE d.stmt IN s = 0 \/ ~HasCall(b, s)
        twice    == \E r, s \in eligible : r # s /\ sole[r] = sole[s] /\ CallsOrConstructs(b, sole[r][1].value)
        stable(reads) == \A r \in reads : stability(r) = "stable"
        puts(reads)   == [r \in reads |-> SubstitutedText(b, sole[r][1].value, r)]
        all    == Plan(puts(eligible), Teardown(b, x), <<>>, clean /\ stable(eligible) /\ ~twice)
        last   == Plan(puts({at}), Teardown(b, x), <<>>, clean /\ stable({at}))
        single == Plan(puts({at}), {}, <<>>, stable({at}) /\ ~CallsOrConstructs(b, sole[at][1].value))
    IN  IF x = 0 \/ decl = 0 THEN <<>>
        ELSE IF DOMAIN sole = {} THEN <<>>
        ELSE IF at \notin Reads(b, x)
             THEN IF eligible = DOMAIN sole /\ possible THEN <<all>> ELSE <<>>
        ELSE IF at \notin eligible THEN <<>>
        ELSE IF DOMAIN sole # {at} THEN <<single>>
        ELSE IF possible THEN <<last>> ELSE <<>>

\* The local of the assignment around a place.
WriteAt(b, at) ==
    {<<x, s>> \in LocalsOf(b) \X {i \in Below(b.doc.cst, b.node) : Kind(b.doc, i) = "expr_stmt"} :
        /\ at \in Below(b.doc.cst, s)
        /\ \E w \in Mutations(b, x) : w.tag = "target" /\ FindAncestor(b.doc.cst, w.node, {"expr_stmt"}) = s}

JoinableAssignment(b, x) ==
    LET decl   == DeclNode(b, x)
        later  == {d \in BuildDefs(b, x) : ~d.decl}
        placed == {d \in later : d.stmt # 0}
        first  == IF placed # {} THEN CHOOSE d \in placed : \A e \in placed :
                                               d.stmt < e.stmt \/ (d.stmt = e.stmt /\ d.owner <= e.owner)
                  ELSE CHOOSE d \in later : TRUE
        block  == Up(b.doc, first.stmt)
        window == b.doc.cst[decl].last + 1 .. first.stmt - 1
        may    == ValueHoistability(b, first.value, window, x, block)
    IN  IF decl = 0 THEN <<>>
        ELSE IF Cardinality(DeclNames(b, decl)) # 1 \/ Part(b.doc, decl, "init_value") # 0 \/ later = {} THEN <<>>
        ELSE IF first.value = 0 \/ first.stmt = 0 THEN <<>>
        ELSE IF Kind(b.doc, block) # "func_block" \/ Up(b.doc, decl) # block \/ first.stmt <= decl THEN <<>>
        ELSE IF Reads(b, x) \cap window # {} \/ may = "" THEN <<>>
        ELSE <<[def |-> first, verified |-> may = "verified"]>>

JoinDeclaration(b, at) ==
    LET here   == LocalAtDeclaration(b, at)
        writes == WriteAt(b, at)
        x      == IF here # 0 THEN here ELSE IF writes = {} THEN 0 ELSE (CHOOSE w \in writes : TRUE)[1]
        join   == IF x = 0 THEN <<>> ELSE JoinableAssignment(b, x)
        type   == Part(b.doc, DeclNode(b, x), "var_type")
    IN  IF join = <<>> THEN <<>>
        ELSE IF here = 0 /\ <<x, join[1].def.stmt>> \notin writes THEN <<>>
        ELSE <<Plan(<<>>, {join[1].def.stmt},
                    [i \in {type} |-> <<As("init_value", Subtree(b.doc, join[1].def.value))>>], join[1].verified)>>

\* The end of the declarations a block starts with.
DeclarationRunEnd(b, block) ==
    LET kids == NamedKids(b.doc, block)
        run  == {k \in DOMAIN kids : \A n \in 1 .. k : Kind(b.doc, kids[n]) = "local_var_decl_stmt"}
    IN  IF run = {} THEN 0 ELSE kids[Max(run)]

SplitDeclaration(b, at) ==
    LET x     == LocalAtDeclaration(b, at)
        decl  == DeclNode(b, x)
        block == Up(b.doc, decl)
        value == Part(b.doc, decl, "init_value")
        after == IF DeclarationRunEnd(b, block) > decl THEN DeclarationRunEnd(b, block) ELSE decl
        may   == ValueHoistability(b, value, b.doc.cst[decl].last + 1 .. b.doc.cst[after].last, x, block)
        assign == N("expr_stmt", "", <<N("assign_op_expr", "", <<As("left", N("ident", b.doc.syms[x].name, <<>>)),
                      As("op", N("assign_op_direct", "=", <<>>)), As("right", Subtree(b.doc, value))>>)>>)
    IN  IF x = 0 THEN <<>>
        ELSE IF Kind(b.doc, block) # "func_block" \/ Cardinality(DeclNames(b, decl)) # 1 \/ value = 0 THEN <<>>
        ELSE IF may = "" THEN <<>>
        ELSE <<Plan(<<>>, {value}, [i \in {after} |-> <<assign>>], may = "verified")>>

-----------------------------------------------------------------------------
(* The tree of the text after the edits of a plan.  A statement deleted    *)
(* where one must stand leaves the place to the next one.                  *)

Blocks == {"func_block", "switch_block", "local_var_decl_stmt"}

RECURSIVE Host(_, _)
Host(doc, i) == IF Kind(doc, Up(doc, i)) \in Blocks THEN i ELSE Host(doc, Up(doc, i))

Swallowed(doc, i, gone) ==
    LET host == Host(doc, i)
        next == {j \in Kids(doc.cst, Up(doc, host)) \ gone : j > host}
    IN  IF host = i \/ Kind(doc, i) # "expr_stmt" THEN -1
        ELSE IF next = {} \/ Part(doc, Up(doc, i), "else") > i THEN 0
        ELSE Min(next)

RECURSIVE Rebuilt(_, _, _)
Rebuilt(doc, i, plan) ==
    LET kids  == Ordered(Kids(doc.cst, i))
        moved == {Swallowed(doc, g, plan.gone) : g \in plan.gone}
        kid(j) == IF j \in DOMAIN plan.replace THEN <<As(doc.cst[j].field, plan.replace[j])>>
                  ELSE IF j \in plan.gone
                  THEN LET next == Swallowed(doc, j, plan.gone)
                       IN  CASE next > 0 -> <<As(doc.cst[j].field, Rebuilt(doc, next, plan))>>
                             [] next = 0 -> <<N("ERROR", "", <<>>)>>
                             [] OTHER    -> <<>>
                  ELSE IF j \in moved THEN <<>>
                  ELSE <<As(doc.cst[j].field, Rebuilt(doc, j, plan))>>
        more(j) == IF j \in DOMAIN plan.insert THEN plan.insert[j] ELSE <<>>
    IN  N(doc.cst[i].kind, doc.cst[i].text, FoldLeft(LAMBDA trees, j : trees \o kid(j) \o more(j), <<>>, kids))

=============================================================================
