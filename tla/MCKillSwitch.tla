---------------------------- MODULE MCKillSwitch ----------------------------
(***************************************************************************)
(* KillSwitch with the page that works it, for TLC: the operators are      *)
(* model values.                                                           *)
(***************************************************************************)
EXTENDS KillSwitchPage, TLC
=============================================================================
