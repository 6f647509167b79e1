-------------------------- MODULE MCKisMarketData --------------------------
(***************************************************************************)
(* Constants for model checking KisMarketData: two symbols, so that a     *)
(* replay can end half done, and three delays, so that the cap is reached *)
(* and held.                                                               *)
(***************************************************************************)
EXTENDS KisMarketData

CONSTANTS s1, s2

MCSymbols == {s1, s2}
=============================================================================
