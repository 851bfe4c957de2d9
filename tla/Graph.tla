------------------------------- MODULE Graph -------------------------------
(***************************************************************************)
(* The pure graph functions of domain/workflow/graph.go: the structural    *)
(* validator and the back-edge classification that the author-time check   *)
(* and the run-time interpreter share.                                     *)
(*                                                                         *)
(* A graph g is a record                                                   *)
(*   nodes  the node ids in declaration order (Graph.Nodes)                *)
(*   kind   the kind of each node id (Node.Kind)                           *)
(*   edges  the edges in declaration order, [from, port, to] records       *)
(*          (Edge.From, FromPort, To); an edge's id is its index           *)
(* Node refs and input wiring are not represented: no property is about    *)
(* them.                                                                   *)
(***************************************************************************)
EXTENDS Integers, Sequences, FiniteSets

NoPort == ""
Approvals == {"yes", "no"}
Kinds == {"trigger", "action", "agent", "control", "approval"}

\* Node kinds whose completed row selects an outgoing port (walk.isCtlApf).
Routing == {"control", "approval"}

NodeIds(g) == {g.nodes[i] : i \in DOMAIN g.nodes}
EdgeIds(g) == DOMAIN g.edges

\* The edges leaving n whose other end exists too.
OutEdges(g, n) ==
    {e \in EdgeIds(g) : g.edges[e].from = n /\ g.edges[e].to \in NodeIds(g)}

-----------------------------------------------------------------------------
(***************************************************************************)
(* BackEdges: depth-first search from every node in declaration order with *)
(* an explicit frame stack. An edge whose target is gray (on the stack) is *)
(* a back edge. A search state is [next, stack, color, back]: next is the  *)
(* declaration index of the next root, a frame is [node, left] with left   *)
(* the edges of the node that are yet to be followed, the first of them    *)
(* next.                                                                   *)
(***************************************************************************)
SearchStates(g) ==
    [next  : Nat \ {0},
     stack : Seq([node : NodeIds(g), left : SUBSET UNION {OutEdges(g, n) : n \in NodeIds(g)}]),
     color : [NodeIds(g) -> {"white", "gray", "black"}],
     back  : SUBSET EdgeIds(g)]

FirstEdge(E) == CHOOSE e \in E : \A d \in E : e <= d

Visit(g, s, n) ==
    [s EXCEPT !.color[n] = "gray",
              !.stack = Append(@, [node |-> n, left |-> OutEdges(g, n)])]

\* Mutant: the roots are taken against the declaration order.
NextRootReversed(g, s) ==
    LET n == g.nodes[Len(g.nodes) + 1 - s.next]
        t == [s EXCEPT !.next = @ + 1]
    IN  IF s.color[n] = "white" THEN Visit(g, t, n) ELSE t

NextRoot(g, s) ==
    LET n == g.nodes[s.next]
        t == [s EXCEPT !.next = @ + 1]
    IN  IF s.color[n] = "white" THEN Visit(g, t, n) ELSE t

\* Mutant: an edge to any node seen before is taken for a back edge.
FollowEdgeSeen(g, s) ==
    LET top == Len(s.stack)
        f   == s.stack[top]
    IN  IF f.left = {}
        THEN [s EXCEPT !.color[f.node] = "black",
                       !.stack = SubSeq(@, 1, top - 1)]
        ELSE LET e  == FirstEdge(f.left)
                 to == g.edges[e].to
                 t  == [s EXCEPT !.stack[top].left = @ \ {e}]
             IN  IF s.color[to] = "white"
                 THEN Visit(g, t, to)
                 ELSE [t EXCEPT !.back = @ \cup {e}]

FollowEdge(g, s) ==
    LET top == Len(s.stack)
        f   == s.stack[top]
    IN  IF f.left = {}
        THEN [s EXCEPT !.color[f.node] = "black",
                       !.stack = SubSeq(@, 1, top - 1)]
        ELSE LET e  == FirstEdge(f.left)
                 to == g.edges[e].to
                 t  == [s EXCEPT !.stack[top].left = @ \ {e}]
             IN  CASE s.color[to] = "gray"  -> [t EXCEPT !.back = @ \cup {e}]
                   [] s.color[to] = "white" -> Visit(g, t, to)
                   [] OTHER                 -> t

SearchStart(g) ==
    [next  |-> 1,
     stack |-> << >>,
     color |-> [n \in NodeIds(g) |-> "white"],
     back  |-> {}]

Searched(g, s) == s.stack = << >> /\ s.next > Len(g.nodes)

SearchStep(g, s) == IF s.stack # << >> THEN FollowEdge(g, s) ELSE NextRoot(g, s)

BackEdges(g) ==
    LET search[s \in SearchStates(g)] ==
            IF Searched(g, s) THEN s ELSE search[SearchStep(g, s)]
    IN  search[SearchStart(g)].back

-----------------------------------------------------------------------------
(***************************************************************************)
(* ValidateGraph, one conjunct per family of error returns.                *)
(***************************************************************************)
UniqueIds(g) == Cardinality(NodeIds(g)) = Len(g.nodes)

HasTrigger(g) == \E n \in NodeIds(g) : g.kind[n] = "trigger"

ValidateEdgePort(g, e) ==
    LET edge == g.edges[e]
    IN  CASE g.kind[edge.from] = "approval" -> edge.port \in Approvals
          [] g.kind[edge.from] = "control"  -> edge.port # NoPort
          [] OTHER                          -> edge.port = NoPort

EdgesResolve(g) ==
    \A e \in EdgeIds(g) :
        /\ {g.edges[e].from, g.edges[e].to} \subseteq NodeIds(g)
        /\ g.edges[e].from # g.edges[e].to
        /\ ValidateEdgePort(g, e)

\* The nodes reachable from S along edges in F (S included).
ReachFrom(g, F, S) ==
    LET grow[T \in SUBSET NodeIds(g)] ==
            LET U == T \cup (NodeIds(g) \cap {g.edges[e].to : e \in {d \in F : g.edges[d].from \in T}})
            IN  IF U = T THEN T ELSE grow[U]
    IN  grow[S]

ValidateReachability(g) ==
    ReachFrom(g, EdgeIds(g), {n \in NodeIds(g) : g.kind[n] = "trigger"}) = NodeIds(g)

\* The cycle discipline: only a branch of a control or an approval closes a loop.
LoopsCloseOnRouting(g) ==
    \A e \in BackEdges(g) : g.kind[g.edges[e].from] \in Routing

ValidateGraph(g) ==
    /\ UniqueIds(g)
    /\ HasTrigger(g)
    /\ EdgesResolve(g)
    /\ ValidateReachability(g)
    /\ LoopsCloseOnRouting(g)
=============================================================================
