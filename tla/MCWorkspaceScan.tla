-------------------------- MODULE MCWorkspaceScan --------------------------
(* WorkspaceScan for TLC: one file, in a folder of its own, and a second   *)
(* folder beside it, so that scans find it, find nothing, or have nothing  *)
(* to look through.                                                        *)
EXTENDS WorkspaceScan, TLC

MCFiles   == {"a"}
MCFolders == {"A", "B"}
MCHome    == [f \in MCFiles |-> "A"]
TextSymmetry == Permutations(Texts)
=============================================================================
