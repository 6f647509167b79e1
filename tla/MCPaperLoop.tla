---------------------------- MODULE MCPaperLoop ----------------------------
(***************************************************************************)
(* Two symbols, two order ids, a restart and one storage error of the      *)
(* database's own: a pass of two orders can fail between them, the next    *)
(* cycle then fails on the missing row, a symbol is bought twice, and a    *)
(* second process meets the rows of the first.                             *)
(***************************************************************************)
EXTENDS PaperLoop

CONSTANTS s1, s2

MCSymbols == {s1, s2}
MCQuantities == {1}
MCLives == {0, 1}
=============================================================================
