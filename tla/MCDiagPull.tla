----------------------------- MODULE MCDiagPull -----------------------------
(* DiagPull for TLC: file "a" looks up the symbols of file "b".            *)
EXTENDS DiagPull, TLC

MCUris     == {"a", "b"}
MCObserves == [u \in MCUris |-> IF u = "a" THEN {"b"} ELSE {}]
SymSymmetry == Permutations(Syms) \cup Permutations(Pulls)
=============================================================================
