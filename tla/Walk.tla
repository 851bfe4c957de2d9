-------------------------------- MODULE Walk --------------------------------
(***************************************************************************)
(* app/scheduler/walk.go: the pure view an Advance turn derives from the   *)
(* frozen graph and a run's memoized rows. A key <<n, i>> is a node at a   *)
(* loop iteration; rows maps every key to its row, NoRow where the table   *)
(* holds none. Result data is abstracted to the port a control or approval *)
(* row selected.                                                           *)
(***************************************************************************)
EXTENDS Graph

CONSTANT MaxIterations   \* walk.go computeReady: cap on back-edge turns
ASSUME MaxIterationsAssumption == MaxIterations \in Nat

Iterations == 0 .. MaxIterations
Keys(g) == NodeIds(g) \X Iterations

Row(st, port) == [status |-> st, port |-> port]
NoRow == Row("none", NoPort)

\* A control branch no edge of the graph is wired to.
Unwired == "unwired"

\* Every port a row of g can carry.
Ports(g) == {NoPort, Unwired} \cup Approvals \cup {g.edges[e].port : e \in EdgeIds(g)}
Rows(g) == [status : {"none", "completed", "failed", "parked"}, port : Ports(g)]

\* The row a dispatched node may write: a control takes the port of one of its
\* branches, an approval parks, any other activity completes with no port.
DispatchRows(g, n) ==
    CASE g.kind[n] = "control" ->
            {Row("completed", x) :
                x \in {Unwired} \cup {g.edges[e].port :
                                        e \in {d \in EdgeIds(g) : g.edges[d].from = n}}}
      [] g.kind[n] = "approval" -> {Row("parked", NoPort)}
      [] OTHER -> {Row("completed", NoPort)}

Completed(rows, k) == rows[k].status = "completed"
HasRow(rows, k) == rows[k].status # "none"

\* An edge whose completed control/approval source chose another port is dead.
EdgePruned(g, rows, e, i) ==
    LET src == <<g.edges[e].from, i>>
    IN  /\ g.kind[src[1]] \in Routing
        /\ Completed(rows, src)
        /\ rows[src].port # g.edges[e].port

\* A back edge is traversed only once its source completed and selected it.
BackEdgeTaken(g, rows, e, i) ==
    Completed(rows, <<g.edges[e].from, i>>) /\ ~EdgePruned(g, rows, e, i)

\* The keys reached from k in one step. Forward edges of an unresolved routing
\* node stay tentatively open. The iteration may exceed MaxIterations by one.
Successors(g, back, rows, k) ==
    LET out == {e \in EdgeIds(g) : g.edges[e].from = k[1]}
    IN  {<<g.edges[e].to, k[2] + 1>> :
            e \in {d \in out \cap back : BackEdgeTaken(g, rows, d, k[2])}}
        \cup
        {<<g.edges[e].to, k[2]>> :
            e \in {d \in out \ back : ~EdgePruned(g, rows, d, k[2])}}

\* The breadth-first search of computeReady, as the closure it computes.
Reached(g, back, rows) ==
    LET grow[T \in SUBSET Keys(g)] ==
            LET U == T \cup (Keys(g) \cap UNION {Successors(g, back, rows, k) : k \in T})
            IN  IF U = T THEN T ELSE grow[U]
    IN  grow[{k \in Keys(g) : k[2] = 0 /\ g.kind[k[1]] = "trigger" /\ HasRow(rows, k)}]

\* A further turn would start iteration MaxIterations + 1.
Overflow(g, back, rows) ==
    \E k \in Reached(g, back, rows) :
        \E s \in Successors(g, back, rows, k) : s[2] > MaxIterations

\* Mutant: a source that is not in play still counts.
LiveIncomingAll(g, back, rows, reached, k) ==
    LET srcIter(e) == IF e \in back THEN k[2] - 1 ELSE k[2]
    IN  {<<g.edges[e].from, srcIter(e)>> :
            e \in {d \in EdgeIds(g) :
                      /\ g.edges[d].to = k[1]
                      /\ <<g.edges[d].from, srcIter(d)>> \in Keys(g)
                      /\ ~EdgePruned(g, rows, d, srcIter(d))}}

\* The live incoming edges of k: source in play at the right iteration, not pruned.
LiveIncoming(g, back, rows, reached, k) ==
    LET srcIter(e) == IF e \in back THEN k[2] - 1 ELSE k[2]
    IN  {<<g.edges[e].from, srcIter(e)>> :
            e \in {d \in EdgeIds(g) :
                      /\ g.edges[d].to = k[1]
                      /\ <<g.edges[d].from, srcIter(d)>> \in reached
                      /\ ~EdgePruned(g, rows, d, srcIter(d))}}

\* Mutant: the first live predecessor to complete is enough.
PredecessorsSatisfiedAny(g, back, rows, reached, k) ==
    \E s \in LiveIncoming(g, back, rows, reached, k) : Completed(rows, s)

PredecessorsSatisfied(g, back, rows, reached, k) ==
    LET live == LiveIncoming(g, back, rows, reached, k)
    IN  live # {} /\ \A s \in live : Completed(rows, s)

\* computeReady: reached, not a trigger, no row yet, every live predecessor done.
Ready(g, back, rows) ==
    LET reached == Reached(g, back, rows)
    IN  {k \in Keys(g) :
            /\ k \in reached
            /\ g.kind[k[1]] # "trigger"
            /\ ~HasRow(rows, k)
            /\ PredecessorsSatisfied(g, back, rows, reached, k)}

\* The branches the decisions of an iteration choose, and the edges they keep.
Decisions(g) == [{n \in NodeIds(g) : g.kind[n] \in Routing} -> Ports(g)]
KeptEdges(g, choice) ==
    {e \in EdgeIds(g) : g.edges[e].from \in DOMAIN choice => g.edges[e].port = choice[g.edges[e].from]}

\* Loops take turns: whatever node an iteration starts from, and whatever its
\* decisions choose, the back edges it comes to lead to one node. Loops inside one
\* another, one after the other and several branches back to one head do; loops
\* that turn side by side do not.
LoopsTakeTurns(g) ==
    LET closing == BackEdges(g)
    IN  \A n \in NodeIds(g), choice \in Decisions(g) :
            LET kept == KeptEdges(g, choice)
                seen == ReachFrom(g, kept \ closing, {n})
            IN  \A d, e \in kept \cap closing :
                    {g.edges[d].from, g.edges[e].from} \subseteq seen => g.edges[d].to = g.edges[e].to

\* Declaration index then iteration: the order a batch is run in.
DeclAt(g, n) == CHOOSE i \in DOMAIN g.nodes : g.nodes[i] = n
Before(g, k, j) ==
    \/ DeclAt(g, k[1]) < DeclAt(g, j[1])
    \/ DeclAt(g, k[1]) = DeclAt(g, j[1]) /\ k[2] <= j[2]
First(g, batch) == CHOOSE k \in batch : \A j \in batch : Before(g, k, j)
=============================================================================
