---------------------------- MODULE MCChatMemory ----------------------------
(* Instances of ChatMemory small enough for TLC.                            *)
EXTENDS ChatMemory
=============================================================================
