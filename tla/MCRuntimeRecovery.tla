------------------------- MODULE MCRuntimeRecovery -------------------------
(***************************************************************************)
(* Constants for model checking RuntimeRecovery: two processes, one symbol,*)
(* two orders of two shares in each.  Broker ids are interchangeable and   *)
(* no liveness is checked, so their symmetry is sound.                     *)
(***************************************************************************)
EXTENDS RuntimeRecovery, TLC

CONSTANTS b1, b2, s1

MCSymbols == {s1}
MCQuantities == {2}
MCBrokerIds == {b1, b2}
MCLives == {0, 1}
MCSymmetry == Permutations(MCBrokerIds)
=============================================================================
