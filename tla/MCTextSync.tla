----------------------------- MODULE MCTextSync -----------------------------
(* TextSync for TLC.                                                       *)
EXTENDS TextSync, TLC

(* Texts are interchangeable: nothing but equality is asked of them.       *)
TextSymmetry == Permutations(Texts)
=============================================================================
