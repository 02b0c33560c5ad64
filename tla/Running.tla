------------------------------ MODULE Running -------------------------------
(***************************************************************************)
(* What running a function body does, as far as anybody can tell: the calls *)
(* it makes with their arguments and the fields as they are then, the       *)
(* values it decides on, what it returns and the fields it leaves.          *)
(* The engine that runs scripts is not part of the server; this is the      *)
(* language its refactorings assume.                                        *)
(*                                                                          *)
(* Values are terms over the unknown: what a variable holds at the start,   *)
(* the result of the n-th event.  A condition may come out either way, a    *)
(* loop turns at most Rounds times.  A state s has the cells with their     *)
(* value and the node that set it, the trace, and the reads made, each with *)
(* that node.                                                               *)
(***************************************************************************)
EXTENDS Bodies

CONSTANT Rounds

Cell(s, name) ==
    IF name \in DOMAIN s.cells THEN s.cells[name] ELSE [val |-> <<"start", name>>, by |-> 0]

SetCell(s, name, val, by) ==
    [s EXCEPT !.cells = [n \in DOMAIN @ \cup {name} |-> IF n = name THEN [val |-> val, by |-> by] ELSE @[n]]]

FieldsOf(b) == {b.doc.syms[k].name : k \in {n \in DOMAIN b.doc.syms : b.doc.syms[n].kind = "field"}}

FieldValues(b, s) == [f \in FieldsOf(b) |-> Cell(s, f).val]

Happens(s, event) == [s EXCEPT !.trace = Append(@, event)]

Value(val, s) == [val |-> val, s |-> s]

RECURSIVE Ev(_, _, _), EvArgs(_, _, _), Assign(_, _, _, _, _)

EvArgs(b, args, s) ==
    IF args = <<>> THEN Value(<<>>, s)
    ELSE LET first == Ev(b, Head(args), s)
             rest  == EvArgs(b, Tail(args), first.s)
         IN  Value(<<first.val>> \o rest.val, rest.s)

\* The place on the left takes a value; a part of a value is an update of it.
Assign(b, i, val, by, s) ==
    CASE Kind(b.doc, i) = "ident"       -> SetCell(s, Name(b.doc, i), val, by)
      [] Kind(b.doc, i) = "nested_expr" -> Assign(b, NthNamed(b.doc.cst, i, 1), val, by, s)
      [] Kind(b.doc, i) = "array_expr" ->
            LET array == Part(b.doc, i, "accessor")
                index == Ev(b, Part(b.doc, i, "index"), s)
            IN  Assign(b, array, <<"element", Ev(b, array, s).val, index.val, val>>, by, index.s)
      [] Kind(b.doc, i) = "member_access_expr" ->
            LET object == NthNamed(b.doc.cst, i, 1)
                field  == Name(b.doc, MemberAccessMember(b.doc, i))
                set    == SetCell(s, field, <<"field", Cell(s, field).val, Ev(b, object, s).val, val>>, by)
            IN  IF Kind(b.doc, object) # "ident" THEN set
                ELSE SetCell(set, Name(b.doc, object), Cell(set, Name(b.doc, object)).val, object)

\* A call may read and change any field, its out arguments and its receiver.
CallOf(b, i, s) ==
    LET callee == CallCallee(b.doc, i)
        object == IF Kind(b.doc, callee) = "ident" THEN 0 ELSE NthNamed(b.doc.cst, callee, 1)
        on     == IF object = 0 THEN Value(<<>>, s) ELSE Ev(b, object, s)
        args   == EvArgs(b, ArgSlots(b.doc, i), on.s)
        n      == Len(args.s.trace) + 1
        name   == Name(b.doc, CalleeIdent(b.doc, callee))
        done   == Happens(args.s, <<"call", name, on.val, args.val, FieldValues(b, args.s)>>)
        after  == [done EXCEPT !.cells =
                      [c \in DOMAIN @ \cup FieldsOf(b) |->
                          IF c \in FieldsOf(b) THEN [val |-> <<"after", n, c>>, by |-> i] ELSE @[c]]]
        outs   == Ordered(OutArgs(b.db, b.uri, b.doc, i))
        given  == FoldLeft(LAMBDA t, k : Assign(b, outs[k], <<"out", n, k>>, outs[k], t),
                           after, [k \in DOMAIN outs |-> k])
    IN  Value(<<"result", n>>,
              IF Kind(b.doc, object) # "ident" THEN given
              ELSE SetCell(given, Name(b.doc, object), <<"self", n, Cell(given, Name(b.doc, object)).val>>, object))

Ev(b, i, s) ==
    LET kind == Kind(b.doc, i)
    IN  CASE kind = "ident" ->
                Value(Cell(s, Name(b.doc, i)).val, [s EXCEPT !.used = @ \cup {<<i, Cell(s, Name(b.doc, i)).by>>}])
          [] kind = "nested_expr" -> Ev(b, NthNamed(b.doc.cst, i, 1), s)
          [] kind = "func_call_expr" -> CallOf(b, i, s)
          [] kind = "binary_op_expr" ->
                LET both == EvArgs(b, <<Part(b.doc, i, "left"), Part(b.doc, i, "right")>>, s)
                IN  Value(<<Name(b.doc, Part(b.doc, i, "op"))>> \o both.val, both.s)
          [] kind = "array_expr" ->
                LET both == EvArgs(b, <<Part(b.doc, i, "accessor"), Part(b.doc, i, "index")>>, s)
                IN  Value(<<"at">> \o both.val, both.s)
          [] kind = "member_access_expr" ->
                LET object == Ev(b, NthNamed(b.doc.cst, i, 1), s)
                IN  Value(<<"of", object.val, Cell(object.s, Name(b.doc, MemberAccessMember(b.doc, i))).val>>, object.s)
          [] kind = "assign_op_expr" ->
                LET left  == Part(b.doc, i, "left")
                    right == Ev(b, Part(b.doc, i, "right"), s)
                    op    == Part(b.doc, i, "op")
                    val   == IF Kind(b.doc, op) = "assign_op_direct" THEN right.val
                             ELSE <<Name(b.doc, op), Ev(b, left, s).val, right.val>>
                IN  Value(val, Assign(b, left, val, WriteTarget(b.doc, left), right.s))
          [] OTHER -> Value(<<"constant", Name(b.doc, i)>>, s)

-----------------------------------------------------------------------------
(* Statements: a set of [how, s], how the statement ends in which state. *)

End(how, s) == [how |-> how, s |-> s]

\* The two ways a condition may come out, with what is then the case.
Decided(b, i, field, s) ==
    IF Part(b.doc, i, field) = 0 THEN [yes |-> s, no |-> s]
    ELSE LET cond == Ev(b, Part(b.doc, i, field), s)
         IN  [yes |-> Happens(cond.s, <<"if", cond.val, TRUE>>), no |-> Happens(cond.s, <<"if", cond.val, FALSE>>)]

RECURSIVE Run(_, _, _), RunAll(_, _, _), Turn(_, _, _, _)

RunAll(b, stmts, s) ==
    IF stmts = <<>> THEN {End("normal", s)}
    ELSE UNION {IF e.how = "normal" THEN RunAll(b, Tail(stmts), e.s) ELSE {e} : e \in Run(b, Head(stmts), s)}

Part0(b, i, field, s) ==
    IF Part(b.doc, i, field) = 0 THEN {End("normal", s)} ELSE Run(b, Part(b.doc, i, field), s)

\* A loop from its condition on.
Turn(b, i, n, s) ==
    LET cond  == Decided(b, i, "cond", s)
        iter  == Part(b.doc, i, "iter")
        next(t) == IF iter = 0 THEN t ELSE Ev(b, iter, t).s
    IN  {End("normal", cond.no)}
        \cup (IF n = 0 THEN {}
              ELSE UNION {CASE e.how = "break"  -> {End("normal", e.s)}
                            [] e.how = "return" -> {e}
                            [] OTHER -> Turn(b, i, n - 1, next(e.s)) : e \in Part0(b, i, "body", cond.yes)})

RunSwitch(b, i, s) ==
    LET on       == Ev(b, Part(b.doc, i, "cond"), s)
        sections == NamedKids(b.doc, Part(b.doc, i, "body"))
        labels   == {k \in DOMAIN sections :
                        Kind(b.doc, sections[k]) \in {"switch_case_label", "switch_default_label"}}
        stmts(k) == SelectSeq(SubSeq(sections, k, Len(sections)), LAMBDA j : j \notin {sections[l] : l \in labels})
        default  == \E k \in labels : Kind(b.doc, sections[k]) = "switch_default_label"
        at(l, t) == Happens(t, <<"case", on.val, l>>)
        label(k) == Cardinality({l \in labels : l <= k})
    IN  (IF default THEN {} ELSE {End("normal", at(0, on.s))})
        \cup UNION {{IF e.how = "break" THEN End("normal", e.s) ELSE e : e \in RunAll(b, stmts(k), at(label(k), on.s))} :
                    k \in labels}

Run(b, i, s) ==
    LET kind == Kind(b.doc, i)
        child == NthNamed(b.doc.cst, i, 1)
    IN  CASE kind = "func_block" -> RunAll(b, NamedKids(b.doc, i), s)
          [] kind = "expr_stmt"  -> {End("normal", Ev(b, child, s).s)}
          [] kind = "local_var_decl_stmt" ->
                LET value == Part(b.doc, i, "init_value")
                    init  == IF value = 0 THEN Value(<<"default">>, s) ELSE Ev(b, value, s)
                IN  {End("normal", FoldLeft(LAMBDA t, n : SetCell(t, Name(b.doc, n), init.val, i), init.s,
                                            Ordered(DeclNames(b, i))))}
          [] kind = "return_stmt" ->
                LET result == IF child = 0 THEN Value(<<>>, s) ELSE Ev(b, child, s)
                IN  {End("return", Happens(result.s, <<"return", result.val>>))}
          [] kind = "break_stmt"    -> {End("break", s)}
          [] kind = "continue_stmt" -> {End("continue", s)}
          [] kind = "if_stmt" ->
                LET cond == Decided(b, i, "cond", s)
                IN  Part0(b, i, "body", cond.yes) \cup Part0(b, i, "else", cond.no)
          [] kind = "while_stmt" -> Turn(b, i, Rounds, s)
          [] kind = "for_stmt" ->
                Turn(b, i, Rounds, IF Part(b.doc, i, "init") = 0 THEN s ELSE Ev(b, Part(b.doc, i, "init"), s).s)
          [] kind = "do_while_stmt" ->
                UNION {CASE e.how = "break"  -> {End("normal", e.s)}
                         [] e.how = "return" -> {e}
                         [] OTHER -> Turn(b, i, Rounds - 1, e.s) : e \in Part0(b, i, "body", s)}
          [] kind = "switch_stmt" -> RunSwitch(b, i, s)
          [] OTHER -> {End("normal", Happens(s, <<"unknown", kind>>))}

Ends(b) == Run(b, b.node, [cells |-> [n \in {} |-> 0], trace |-> <<>>, used |-> {}])

\* What can be told of the runs of a body.
Runs(b) == {Append(e.s.trace, <<"end", FieldValues(b, e.s)>>) : e \in Ends(b)}

\* The reads, each with a definition that it meets in a run.
ReallyReaching(b) == UNION {e.s.used : e \in Ends(b)}

=============================================================================
