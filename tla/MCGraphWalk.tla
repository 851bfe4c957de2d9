---------------------------- MODULE MCGraphWalk ----------------------------
(***************************************************************************)
(* Instances of GraphWalk for TLC.                                         *)
(***************************************************************************)
EXTENDS GraphWalk, TLC

Ids == {"t", "b", "c", "x"}
WithApproval == "t" :> "trigger" @@ "b" :> "action" @@ "c" :> "approval" @@ "x" :> "control"
WithAgent == [WithApproval EXCEPT !["c"] = "agent"]
BothKinds == {WithApproval, WithAgent}

Edge(from, port, to) == [from |-> from, port |-> port, to |-> to]
PortsOf(kind, n) ==
    CASE kind[n] = "control"  -> {"l", "r"}
      [] kind[n] = "approval" -> Approvals
      [] OTHER                -> {NoPort}

\* Every well-ported edge but those that lead into the trigger.
Downstream ==
    {Edge(n, p, m) : n \in Ids, p \in {NoPort, "l", "r", "yes", "no"}, m \in Ids \ {"t"}}
WellPorted ==
    [kind \in BothKinds |->
        {e \in Downstream : e.from # e.to /\ e.port \in PortsOf(kind, e.from)}]

TriggerFirst == {<<"t", "b", "c", "x">>, <<"t", "x", "c", "b">>}
ASSUME Premises == TriggersFirst /\ NoEdgeToTrigger
=============================================================================
