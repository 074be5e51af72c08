---------------------------- MODULE MCMT5Session ----------------------------
(***************************************************************************)
(* MT5Session for TLC: tasks, accounts and symbols are model values.       *)
(***************************************************************************)
EXTENDS MT5Session, TLC

Symmetry == Permutations(Accounts) \cup Permutations(Callers)
=============================================================================
