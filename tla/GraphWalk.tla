----------------------------- MODULE GraphWalk -----------------------------
(***************************************************************************)
(* Author-time and run-time views of one graph: add_edge ops build it      *)
(* (domain/workflow/ops.go), ValidateGraph admits it, and a single driver  *)
(* walks it as Advance does, batch by batch, while approvals are answered  *)
(* and the driver may die and start over from the recorded rows.           *)
(***************************************************************************)
EXTENDS Walk

CONSTANTS
    Orders,    \* the declaration orders of the node ids
    Kind,      \* the assignments of kinds to node ids
    Choices,   \* for each of them, the edges an author may add
    MaxEdges   \* bound on the edges of a graph

ASSUME GraphsAssumption ==
    \A order \in Orders :
        LET ids == {order[i] : i \in DOMAIN order}
        IN  order \in Seq(ids) /\ \A kind \in Kind : ids \subseteq DOMAIN kind

\* No edge leads into a trigger (it could be reached and would never be ready).
NoEdgeToTrigger == \A k \in Kind : \A e \in Choices[k] : e.to \in DOMAIN k => k[e.to] # "trigger"

\* The triggers of a graph are declared before its other nodes.
TriggersFirst ==
    \A order \in Orders, k \in Kind : \A i, j \in DOMAIN order :
        i < j /\ k[order[j]] = "trigger" => k[order[i]] = "trigger"

VARIABLES g, rows, batch, stage

graphVars == <<g, rows, batch, stage>>
back == BackEdges(g)
NoRowsOf(h) == [k \in Keys(h) |-> NoRow]

GraphInit ==
    /\ g \in {[nodes |-> d, kind |-> k, edges |-> << >>] : d \in Orders, k \in Kind}
    /\ rows = NoRowsOf(g)
    /\ batch = {}
    /\ stage = "edit"

\* One add_edge op. Only the order of the edges that leave one node matters to
\* the graph functions, so edges are added source by source.
AddEdge(e) ==
    /\ stage = "edit"
    /\ Len(g.edges) < MaxEdges
    /\ \A i \in EdgeIds(g) : g.edges[i] # e /\ DeclAt(g, g.edges[i].from) <= DeclAt(g, e.from)
    /\ g' = [g EXCEPT !.edges = Append(@, e)]
    /\ UNCHANGED <<rows, batch, stage>>

\* A run of a valid graph is seeded with its entry trigger's row.
BeginRun(entry) ==
    /\ stage = "edit"
    /\ ValidateGraph(g)
    /\ g.kind[entry] = "trigger"
    /\ stage' = "run"
    /\ rows' = [rows EXCEPT ![<<entry, 0>>] = Row("completed", NoPort)]
    /\ UNCHANGED <<g, batch>>

\* A turn of Advance takes the whole ready set as its batch.
Turn ==
    /\ stage = "run"
    /\ batch = {}
    /\ ~Overflow(g, back, rows)
    /\ batch' = Ready(g, back, rows)
    /\ batch' # {}
    /\ UNCHANGED <<g, rows, stage>>

RunNode ==
    LET k == First(g, batch)
    IN  /\ batch # {}
        /\ \E row \in DispatchRows(g, k[1]) : rows' = [rows EXCEPT ![k] = row]
        /\ batch' = batch \ {k}
        /\ UNCHANGED <<g, stage>>

\* An answer to a parked approval, and the drive that follows it.
Answer(k, decision) ==
    /\ batch = {}
    /\ rows[k].status = "parked"
    /\ rows' = [rows EXCEPT ![k] = Row("completed", decision)]
    /\ UNCHANGED <<g, batch, stage>>

\* The driver dies inside a batch; the next one derives its batch anew.
Redrive ==
    /\ batch # {}
    /\ batch' = {}
    /\ UNCHANGED <<g, rows, stage>>

GraphNext ==
    \/ \E e \in Choices[g.kind] : AddEdge(e)
    \/ \E n \in NodeIds(g) : BeginRun(n)
    \/ Turn
    \/ RunNode
    \/ \E k \in Keys(g), d \in Approvals : Answer(k, d)
    \/ Redrive

GraphSpec == GraphInit /\ [][GraphNext]_graphVars

-----------------------------------------------------------------------------
(***************************************************************************)
(* What the depth-first search finds.                                      *)
(***************************************************************************)
\* The nodes a path of at least one edge of F leads to from n.
After(F, n) == ReachFrom(g, F, NodeIds(g) \cap {g.edges[e].to : e \in {d \in F : g.edges[d].from = n}})
OnCycle(n) == n \in After(EdgeIds(g), n)

\* The back edges cut the loops of a graph and nothing else: without them there is
\* no cycle, so what the walk follows within one iteration ends, and each of them
\* closes one, so an edge that merely joins two branches is never taken for one
\* (graph.go BackEdges). If the graph validates, the cut is at a control or an
\* approval: no loop turns without a decision (graph.go ValidateGraph).
BackEdgesCutLoops ==
    LET closing == back
        forward == EdgeIds(g) \ closing
    IN  /\ \A n \in NodeIds(g) : n \notin After(forward, n)
        /\ \A e \in closing : g.edges[e].from \in ReachFrom(g, forward, {g.edges[e].to})
        /\ ValidateGraph(g) =>
               LET plain == {e \in EdgeIds(g) : g.kind[g.edges[e].from] \notin Routing}
               IN  \A n \in NodeIds(g) : n \notin After(plain, n)

Triggers == {n \in NodeIds(g) : g.kind[n] = "trigger"}

\* Every path from a trigger to n passes h.
Dominates(h, n) ==
    h \in Triggers \/ n \notin ReachFrom(g, {e \in EdgeIds(g) : g.edges[e].to # h}, Triggers)

\* e is a branch of a decision back to the head of its loop, and the only cycles
\* of the graph are those it closes.
StructuredLoop(e) ==
    LET edge == g.edges[e]
    IN  /\ g.kind[edge.from] \in Routing
        /\ edge.to # edge.from
        /\ Dominates(edge.to, edge.from)
        /\ OnCycle(edge.from)
        /\ \A n \in NodeIds(g) : n \notin After(EdgeIds(g) \ {e}, n)

\* Such a loop has that one back edge, so that the graph validates and the walk
\* turns where its author closed it (graph.go BackEdges: "a structured loop
\* closed by a control/approval branch yields exactly that closing edge").
StructuredLoopsClose ==
    HasTrigger(g) /\ EdgesResolve(g) /\ ValidateReachability(g) =>
        \A e \in EdgeIds(g) : StructuredLoop(e) => back = {e}

-----------------------------------------------------------------------------
(***************************************************************************)
(* What the walk does with it.                                             *)
(***************************************************************************)
Quiet ==
    /\ stage = "run"
    /\ batch = {}
    /\ LET closing == back
        IN  ~Overflow(g, closing, rows) /\ Ready(g, closing, rows) = {}
    /\ \A k \in Keys(g) : rows[k].status # "parked"

\* When nothing is ready and nothing is parked, every reached node has run: no
\* join waits for a branch that was not taken (walk.go predecessorsSatisfied).
NothingStranded ==
    Quiet => \A k \in Reached(g, back, rows) : HasRow(rows, k)

\* A node that has run keeps all its live predecessors completed: none becomes
\* live after the join went ahead without it (walk.go computeReady, AND-join).
\* Not so for every graph: two loops that overlap, or stand side by side before
\* one join, need seven edges, which is beyond the bound of the run.
JoinsWaitForAll ==
    stage = "run" =>
        LET closing == back
            reached == Reached(g, closing, rows)
        IN  \A k \in Keys(g) :
               HasRow(rows, k) /\ g.kind[k[1]] # "trigger"
               => \A s \in LiveIncoming(g, closing, rows, reached, k) : Completed(rows, s)
=============================================================================
