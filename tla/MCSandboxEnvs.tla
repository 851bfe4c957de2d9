---------------------------- MODULE MCSandboxEnvs ----------------------------
(* Instances of SandboxEnvs small enough for TLC.                          *)
EXTENDS SandboxEnvs

CONSTANTS o1, d1, d2, c1, c2
=============================================================================
