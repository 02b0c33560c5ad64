----------------------------- MODULE MCRequests -----------------------------
(* The text of a document as the client and the server hold it, and the    *)
(* semantic tokens of it, each on an instance of its own.                  *)
EXTENDS SemanticTokens, LineIndex

VARIABLE focus

MCBytes == [c \in Chars |-> CASE c = "a" -> 1 [] c = "nl" -> 1 [] c = "wide" -> 2 [] c = "astral" -> 4]
MCUnits == [c \in Chars |-> IF c = "astral" THEN 2 ELSE 1]
MCInserts == {<<>>, <<"a">>, <<"wide">>, <<"astral", "nl">>}

MCRaw ==
  [t1 |-> [w1 |-> <<<<0, 3, 2, "type">>, <<1, 1, 1, "type">>, <<1, 3, 1, "type">>>>,
           w2 |-> <<<<0, 3, 2, "type">>, <<1, 1, 1, "type">>, <<1, 3, 1, "type">>, <<1, 5, 1, "type">>>>],
   t2 |-> [w1 |-> <<<<0, 3, 2, "type">>, <<1, 3, 1, "type">>, <<1, 5, 1, "type">>, <<1, 7, 1, "type">>>>,
           w2 |-> <<>>]]

tokensFrozen == UNCHANGED <<tokenVars, focus>>
textFrozen   == UNCHANGED <<textVars, focus>>

vars == <<tokenVars, textVars, focus>>

Init ==
  /\ focus \in {"text", "tokens"}
  /\ TokenInit /\ TextInit
  /\ doc.text = "t1" /\ world = "w1"
  /\ focus = "tokens" => buffer = <<>>

Next ==
  \/ focus = "text" /\ TextNext /\ tokensFrozen
  \/ focus = "tokens" /\ TokenNext /\ textFrozen

Spec == Init /\ [][Next]_vars /\ (focus = "tokens" => TokenFairness)

\* TokensCatchUp, where the tokens are what changes.
Settled == focus = "tokens" => TokensCatchUp
=============================================================================
