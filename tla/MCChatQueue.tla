----------------------------- MODULE MCChatQueue -----------------------------
(***************************************************************************)
(* Instances of ChatQueue for TLC.                                         *)
(***************************************************************************)
EXTENDS ChatQueue, TLC

CONSTANTS m1, m2
=============================================================================
