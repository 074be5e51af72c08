---------------------------- MODULE MCLivePoller ----------------------------
(***************************************************************************)
(* LivePoller for TLC: accounts, clients and tasks are model values.       *)
(***************************************************************************)
EXTENDS LivePoller, TLC

Symmetry ==
  Permutations(Accounts) \cup Permutations(Clients \ Faulty)
    \cup Permutations(TaskIds)
=============================================================================
