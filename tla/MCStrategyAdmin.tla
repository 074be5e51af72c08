-------------------------- MODULE MCStrategyAdmin --------------------------
(***************************************************************************)
(* StrategyAdmin for TLC.                                                  *)
(***************************************************************************)
EXTENDS StrategyAdmin, TLC
=============================================================================
