--------------------------- MODULE MCMarketHistory ---------------------------
(* MarketHistory over three days for one symbol and one day for two, with    *)
(* pages shorter than their windows.                                         *)
EXTENDS MarketHistory
CONSTANTS s1, s2

MCHorizon(w) == IF w = {s1} THEN 3 ELSE 1
=============================================================================
