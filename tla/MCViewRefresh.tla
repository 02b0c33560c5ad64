--------------------------- MODULE MCViewRefresh ---------------------------
(* ViewRefresh for TLC.                                                    *)
EXTENDS ViewRefresh
=============================================================================
