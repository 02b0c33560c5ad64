------------------------- MODULE MCLegacyOverrides -------------------------
(* LegacyOverrides for TLC: a base script, and two legacy scripts that     *)
(* replace it, one in a configured directory and one in the project.       *)
EXTENDS LegacyOverrides

MCFiles == {"base", "set", "mod"}
MCDir   == [f \in MCFiles |-> CASE f = "base" -> "G" [] f = "set" -> "S" [] f = "mod" -> "P"]
MCRel   == [f \in MCFiles |-> "r4game.ws"]
MCSettings == {[game |-> Unset, legacy |-> Unset, detect |-> Unset],
               [game |-> "G", legacy |-> {"S"}, detect |-> Unset]}
=============================================================================
