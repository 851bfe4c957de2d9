------------------------------ MODULE MCFlowRun ------------------------------
(***************************************************************************)
(* Instances of FlowRun for TLC: graphs, approval timeouts and the budgets  *)
(* of faults that the .cfg files pick by name.                             *)
(***************************************************************************)
EXTENDS FlowRun, TLC

Edge(from, port, to) == [from |-> from, port |-> port, to |-> to]

\* t -> a -yes-> c: an approval gates an activity.
GateGraph ==
    [nodes |-> <<"t", "a", "c">>,
     kind  |-> ("t" :> "trigger" @@ "a" :> "approval" @@ "c" :> "action"),
     edges |-> <<Edge("t", "", "a"), Edge("a", "yes", "c")>>]

\* t forks into an approval that gates c, and an activity b.
ForkGraph ==
    [nodes |-> <<"t", "a", "b", "c">>,
     kind  |-> ("t" :> "trigger" @@ "a" :> "approval" @@ "b" :> "action" @@ "c" :> "action"),
     edges |-> <<Edge("t", "", "a"), Edge("t", "", "b"), Edge("a", "yes", "c")>>]

\* t -> b -> a, a "no" sends back to b, a "yes" ends: a structured loop.
LoopGraph ==
    [nodes |-> <<"t", "b", "a">>,
     kind  |-> ("t" :> "trigger" @@ "b" :> "action" @@ "a" :> "approval"),
     edges |-> <<Edge("t", "", "b"), Edge("b", "", "a"), Edge("a", "no", "b")>>]

Reject  == [n \in {"a"} |-> "reject"]
Fail    == [n \in {"a"} |-> "fail"]

Faultless == [f \in Faults |-> 0]
With(f, n) == [Faultless EXCEPT ![f] = n]
StopAndReplay == [With("stop", 1) EXCEPT !["replay"] = 1]
OneOfEach == [f \in Faults |-> 1]

\* What the proof that FlowRun implements RunLedger assumes of the graph.
ASSUME LoopsAssumption == LoopsTakeTurns(G)

ProcSymmetry == Permutations(Workers) \cup Permutations(Callers)
=============================================================================
