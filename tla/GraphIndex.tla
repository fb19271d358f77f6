------------------------------ MODULE GraphIndex ------------------------------
(***************************************************************************)
(* The in-memory graph of one user (graph_index.py, behind                 *)
(* plugins_default/in_memory_lru_graph.py): memory and entity nodes, the   *)
(* MENTIONS edges between them, the adjacency that speeds up traversal,    *)
(* and least-recently-used caps on nodes and edges.  `nodes` and `edges`   *)
(* are in LRU order, oldest first.  Users have graphs of their own.        *)
(***************************************************************************)
EXTENDS Naturals, FiniteSets, SequencesExt

CONSTANTS
  Cells,     \* memory nodes, by their mem_cell_id
  Entities,  \* entity nodes
  MaxNodes,  \* max_nodes_per_user
  MaxEdges   \* max_edges_per_user

ASSUME CapsAssumption == MaxNodes \in Nat \ {0} /\ MaxEdges \in Nat \ {0}
ASSUME NodesAssumption == Cells \cap Entities = {}

Nodes == Cells \cup Entities
Edges == Cells \X Entities       \* <<source, target>> of a MENTIONS edge

EmptyGraph == [nodes |-> <<>>, edges |-> <<>>, adj |-> [n \in Nodes |-> {}]]

\* s without the elements of a set: the k-th element that stays is the one with
\* k elements that stay up to its place.
Without(s, gone) ==
  LET kept == {i \in 1..Len(s) : s[i] \notin gone}
      Rank(i) == Cardinality({j \in kept : j <= i})
  IN [k \in 1..Cardinality(kept) |-> s[CHOOSE i \in kept : Rank(i) = k]]

MoveToEnd(s, x) == Append(Without(s, {x}), x)
\* The other end of an edge.
Other(e, n) == IF e[1] = n THEN e[2] ELSE e[1]

\* Mutant: the evicted node's edges stay.
EvictAlone(g, n) == [g EXCEPT !.adj[n] = {}]

\* The evicted node takes its edges along, also out of the adjacency of
\* their other ends.
EvictNode(g, n) ==
  LET gone == g.adj[n] \cap ToSet(g.edges)
  IN [g EXCEPT !.edges = Without(@, gone),
               !.adj = [m \in Nodes |-> IF m = n THEN {} ELSE @[m] \ gone]]

UpsertNode(g, n) ==
  LET nodes == MoveToEnd(g.nodes, n)
  IN IF Len(nodes) <= MaxNodes
     THEN [g EXCEPT !.nodes = nodes]
     ELSE EvictNode([g EXCEPT !.nodes = Tail(nodes)], Head(nodes))

EvictEdge(g) ==
  LET e == Head(g.edges)
  IN [g EXCEPT !.edges = Tail(@), !.adj[e[1]] = @ \ {e}, !.adj[e[2]] = @ \ {e}]

\* An edge that exists is merged (its strength grows) and becomes the newest;
\* nothing checks that its nodes are there.
UpsertEdge(g, e) ==
  IF Contains(g.edges, e)
  THEN [g EXCEPT !.edges = MoveToEnd(@, e)]
  ELSE LET h == [g EXCEPT !.edges = Append(@, e),
                          !.adj[e[1]] = @ \cup {e}, !.adj[e[2]] = @ \cup {e}]
       IN IF Len(h.edges) <= MaxEdges THEN h ELSE EvictEdge(h)

\* add_memory_node() as the calls it makes on the store, in their order.
CallsFor(c, ents) ==
  [i \in 1..(2 * Len(ents) + 1) |->
     IF i = 1 THEN [kind |-> "node", node |-> c]
     ELSE IF i % 2 = 0 THEN [kind |-> "node", node |-> ents[i \div 2]]
     ELSE [kind |-> "edge", edge |-> <<c, ents[i \div 2]>>]]

Apply(g, call) ==
  IF call.kind = "node" THEN UpsertNode(g, call.node) ELSE UpsertEdge(g, call.edge)

-----------------------------------------------------------------------------
\* traverse(): breadth first over a snapshot, at most three hops; it passes
\* through nodes that are missing but returns only those that exist.
Traverse(g, seeds, hops) ==
  LET Hop(last) ==
        LET reached == {Other(x[2], x[1]) : x \in
                          {y \in last.frontier \X ToSet(g.edges) : y[2] \in g.adj[y[1]]}}
        IN [seen |-> last.seen \cup reached, frontier |-> reached \ last.seen]
      start == [seen |-> seeds, frontier |-> seeds]
      end == CASE hops = 0 -> start
               [] hops = 1 -> Hop(start)
               [] hops = 2 -> Hop(Hop(start))
               [] OTHER -> Hop(Hop(Hop(start)))
  IN end.seen \cap ToSet(g.nodes)

\* find_related_memories(): the memories around an entity.
Related(g, e, depth) == Traverse(g, {e}, depth) \cap Cells

-----------------------------------------------------------------------------
\* What every snapshot must satisfy: `adj` is exactly the incidence of `edges`,
\* no id occurs twice, and the caps hold.
Consistent(g) ==
  /\ \A n \in Nodes : g.adj[n] = {e \in ToSet(g.edges) : n \in {e[1], e[2]}}
  /\ IsInjective(g.nodes) /\ IsInjective(g.edges)
  /\ Len(g.nodes) <= MaxNodes /\ Len(g.edges) <= MaxEdges

Dangling(g) == {e \in ToSet(g.edges) : ~ ({e[1], e[2]} \subseteq ToSet(g.nodes))}

Mentioning(g, e) == {c \in Cells : <<c, e>> \in ToSet(g.edges)}
=============================================================================
