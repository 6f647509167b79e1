---------------------------- MODULE MCWebControl ----------------------------
(***************************************************************************)
(* Constants for model checking WebControl: two requests for any kinds, so *)
(* that two jobs of one kind overlap; two symbols, of which the venue      *)
(* ranks up to one, and commands of the operator or a seeding in the       *)
(* middle of a pass.  WebControlProofs has any number of requests.         *)
(***************************************************************************)
EXTENDS WebControl

CONSTANTS r1, r2, s1, s2

MCRequests == {r1, r2}
MCKinds == {"backtest", "screener", "optimize", "backfill"}
MCSymbols == {s1, s2}
=============================================================================
