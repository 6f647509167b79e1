-------------------------- MODULE MCTradingRuntime --------------------------
(***************************************************************************)
(* Constants for model checking TradingRuntime: one symbol, two orders of *)
(* one or two shares, as many broker ids, a venue that does not recognise  *)
(* a client id it has seen (KisBroker's).                                  *)
(***************************************************************************)
EXTENDS TradingRuntime

CONSTANTS b1, b2, s1

MCSymbols == {s1}
MCQuantities == {1, 2}
MCBrokerIds == {b1, b2}
MCLives == {0}
=============================================================================
