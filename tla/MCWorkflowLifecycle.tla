------------------------ MODULE MCWorkflowLifecycle ------------------------
(***************************************************************************)
(* Instances of WorkflowLifecycle for TLC.                                 *)
(***************************************************************************)
EXTENDS WorkflowLifecycle, TLC

CONSTANTS w1, t1, t2

FirstTrigger == [w \in Workflows |-> {t1}]
=============================================================================
