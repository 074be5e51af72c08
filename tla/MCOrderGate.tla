----------------------------- MODULE MCOrderGate -----------------------------
(***************************************************************************)
(* OrderGate for TLC: workers, operators, accounts and symbols are model   *)
(* values.  Workers are interchangeable where none is secondary.           *)
(***************************************************************************)
EXTENDS OrderGate, TLC

Symmetry == Permutations(Workers \ Secondary) \cup Permutations(TradingAccounts \ Paper)
=============================================================================
