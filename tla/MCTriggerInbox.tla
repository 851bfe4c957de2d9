--------------------------- MODULE MCTriggerInbox ---------------------------
(***************************************************************************)
(* Instances of TriggerInbox for TLC.                                      *)
(***************************************************************************)
EXTENDS TriggerInbox, TLC

CONSTANTS w1, t1, t2

BothTriggers == [w \in Workflows |-> {t1, t2}]
AnyPolicy == [Workflows -> Policies]
Disturbed == [e \in Events |-> IF e = "report" THEN 2 ELSE 1]
=============================================================================
