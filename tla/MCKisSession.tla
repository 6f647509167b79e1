---------------------------- MODULE MCKisSession ----------------------------
(***************************************************************************)
(* Two callers, whose calls overlap in every way, tokens enough for each   *)
(* to hold one in use and one refused, and more pages than the limit.      *)
(***************************************************************************)
EXTENDS KisSession

CONSTANTS c1, c2

MCCallers == {c1, c2}
MCTokens == 1 .. 5
=============================================================================
