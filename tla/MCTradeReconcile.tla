---------------------------- MODULE MCTradeReconcile ----------------------------
(***************************************************************************)
(* TradeReconcile for TLC: tickets and synchronisations are model values.  *)
(* The run that checks a liveness property uses no symmetry.               *)
(***************************************************************************)
EXTENDS TradeReconcile, TLC
=============================================================================
