---------------------------- MODULE MCStreamBus ----------------------------
(***************************************************************************)
(* Instances of StreamBus for TLC.                                         *)
(***************************************************************************)
EXTENDS StreamBus, TLC

CONSTANTS c1, c2

ClientSymmetry == Permutations({c1, c2})
=============================================================================
