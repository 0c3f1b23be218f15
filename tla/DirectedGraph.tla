--------------------------- MODULE DirectedGraph ---------------------------
(* The directed weighted graph of src/graph.c over the priority queue of Containers.  rep is      *)
(* the table of nodes (ids are positions, from 1) with its free list; fed is the graph its user      *)
(* built, as a set of nodes and a function from edges to weights.  A node's value and a visitor       *)
(* that stops early (it sees a prefix) are left out; op_deque is a sequence, as Containers shows.      *)
EXTENDS Containers

CONSTANTS
    Weights,    \* weights of edges: non-negative, as op_graph_shortest_path asks
    MaxNodes,   \* bound: nodes alive at once
    MaxEdges    \* bound: edges at once

(* What the constants have to satisfy.                                      *)
GraphAssumption == Weights \subseteq Nat /\ MaxNodes \in Nat /\ MaxEdges \in Nat /\ DefCap \in Nat \ {0}

Unreachable == -1     \* INT64_MAX
NoId == 0             \* OP_GRAPH_INVALID_ID

valid(g, id) == id \in DOMAIN g.nodes /\ g.nodes[id].alive
NewNode == [alive |-> TRUE, in_deg |-> 0, edges |-> <<>>]
Targets(g, id) == [i \in DOMAIN g.nodes[id].edges |-> g.nodes[id].edges[i].to]
edge_find(g, id, to) == SelectInSeq(g.nodes[id].edges, LAMBDA e : e.to = to)

(* The last edge takes the place of the one removed.                           *)
edge_remove(g, id, to) ==
    LET i == edge_find(g, id, to)
        es == g.nodes[id].edges
    IN  IF i = 0 THEN g ELSE [g EXCEPT !.nodes[id].edges = Front([es EXCEPT ![i] = Last(es)])]

op_graph_create == [nodes |-> <<>>, free |-> <<>>, n_alive |-> 0, n_edges |-> 0]

op_graph_add_node(g) ==
    IF g.free # <<>>
    THEN [g EXCEPT !.nodes[Last(g.free)] = NewNode, !.free = Front(@), !.n_alive = @ + 1]
    ELSE [g EXCEPT !.nodes = Append(@, NewNode), !.n_alive = @ + 1]

op_graph_del_node(g, id) ==
    LET to == Range(Targets(g, id))
        from == {i \in DOMAIN g.nodes : i # id /\ valid(g, i) /\ edge_find(g, i, id) # 0}
        down == [g EXCEPT !.nodes = [i \in DOMAIN @ |->
                                         [@[i] EXCEPT !.in_deg = IF i \in to /\ valid(g, i) THEN @ - 1 ELSE @]]]
        cut == [i \in DOMAIN g.nodes |-> IF i \in from THEN edge_remove(down, i, id).nodes[i] ELSE down.nodes[i]]
    IN  IF ~valid(g, id) THEN g
        ELSE [nodes |-> [cut EXCEPT ![id].alive = FALSE, ![id].edges = <<>>],
              free |-> Append(g.free, id),
              n_alive |-> g.n_alive - 1,
              n_edges |-> g.n_edges - Len(g.nodes[id].edges) - Cardinality(from)]

op_graph_add_edge(g, from, to, w) ==
    LET i == edge_find(g, from, to)
    IN  IF ~valid(g, from) \/ ~valid(g, to) THEN [g |-> g, answer |-> -1]
        ELSE IF i # 0 THEN [g |-> [g EXCEPT !.nodes[from].edges[i].weight = w], answer |-> 0]
        ELSE LET pushed == [g EXCEPT !.nodes[from].edges = Append(@, [to |-> to, weight |-> w])]
             IN  [g |-> [pushed EXCEPT !.nodes[to].in_deg = @ + 1, !.n_edges = @ + 1], answer |-> 1]

op_graph_del_edge(g, from, to) ==
    IF ~valid(g, from) \/ ~valid(g, to) \/ edge_find(g, from, to) = 0 THEN [g |-> g, answer |-> 0]
    ELSE LET cut == edge_remove(g, from, to)
         IN  [g |-> [cut EXCEPT !.nodes[to].in_deg = @ - 1, !.n_edges = @ - 1], answer |-> 1]

op_graph_has_edge(g, from, to) == valid(g, from) /\ valid(g, to) /\ edge_find(g, from, to) # 0

op_graph_edge_weight(g, from, to) ==
    IF ~valid(g, from) \/ edge_find(g, from, to) = 0 THEN 0
    ELSE g.nodes[from].edges[edge_find(g, from, to)].weight

-----------------------------------------------------------------------------
(* Traversals: the nodes in the order in which the visitor is called.                  *)

RECURSIVE Bfs(_, _, _, _)
Bfs(g, q, visited, seen) ==
    IF q = <<>> THEN seen
    ELSE LET nb == SelectSeq(Targets(g, Head(q)), LAMBDA t : valid(g, t) /\ t \notin visited)
         IN  Bfs(g, Tail(q) \o nb, visited \cup Range(nb), Append(seen, Head(q)))
op_graph_bfs(g, start) == IF valid(g, start) THEN Bfs(g, <<start>>, {start}, <<>>) ELSE <<>>

RECURSIVE Dfs(_, _, _)
Dfs(g, stack, seen) ==
    IF stack = <<>> THEN seen
    ELSE LET cur == Last(stack)
             visited == Range(seen) \cup {cur}
             nb == SelectSeq(Targets(g, cur), LAMBDA t : valid(g, t) /\ t \notin visited)
         IN  IF cur \in Range(seen) THEN Dfs(g, Front(stack), seen)
             ELSE Dfs(g, Front(stack) \o nb, Append(seen, cur))
op_graph_dfs(g, start) == IF valid(g, start) THEN Dfs(g, <<start>>, <<>>) ELSE <<>>

RECURSIVE Kahn(_, _, _, _)
Kahn(g, q, indeg, order) ==
    IF q = <<>> THEN order
    ELSE LET ts == SelectSeq(Targets(g, Head(q)), LAMBDA t : valid(g, t))
             left == [i \in DOMAIN indeg |-> IF i \in Range(ts) THEN indeg[i] - 1 ELSE indeg[i]]
         IN  Kahn(g, Tail(q) \o SelectSeq(ts, LAMBDA t : left[t] = 0), left, Append(order, Head(q)))

op_graph_topo_sort(g, cap) ==
    LET indeg == [i \in DOMAIN g.nodes |-> IF g.nodes[i].alive THEN g.nodes[i].in_deg ELSE 0]
        ready == SelectSeq([i \in DOMAIN g.nodes |-> i], LAMBDA i : valid(g, i) /\ indeg[i] = 0)
        order == Kahn(g, ready, indeg, <<>>)
    IN  [written |-> IF Len(order) = g.n_alive THEN Len(order) ELSE -1,
         order |-> SubSeq(order, 1, Min({cap, Len(order)}))]

op_graph_has_cycle(g) == g.n_alive # 0 /\ op_graph_topo_sort(g, g.n_alive).written = -1

-----------------------------------------------------------------------------
(* Dijkstra's algorithm; entries of the queue are <<distance, node>>, compared by distance.     *)

RECURSIVE Relaxed(_, _, _)
Relaxed(run, d, es) ==
    IF es = <<>> THEN run
    ELSE LET e == Head(es)
             nd == d + e.weight
             better == e.to \notin run.done /\ (run.dist[e.to] = Unreachable \/ nd < run.dist[e.to])
         IN  Relaxed(IF better
                     THEN [run EXCEPT !.dist[e.to] = nd, !.prev[e.to] = run.cur,
                                      !.pq = op_pqueue_push(@, <<nd, e.to>>)]
                     ELSE run,
                     d, Tail(es))

RECURSIVE Dijkstra(_, _, _)
Dijkstra(g, run, to) ==
    LET p == op_pqueue_pop(run.pq)
        cur == p.top[2]
        popped == [run EXCEPT !.pq = p.q, !.cur = cur, !.done = @ \cup {cur}]
    IN  IF p.top = None THEN run
        ELSE IF cur \in run.done THEN Dijkstra(g, [run EXCEPT !.pq = p.q], to)
        ELSE IF cur = to THEN [popped EXCEPT !.result = p.top[1]]
        ELSE Dijkstra(g, Relaxed(popped, p.top[1], SelectSeq(g.nodes[cur].edges, LAMBDA e : valid(g, e.to))), to)

RECURSIVE Traced(_, _)
Traced(prev, cur) == IF cur = NoId THEN <<>> ELSE Append(Traced(prev, prev[cur]), cur)

(* The last cap nodes of the path are written.                                *)
Answered(run, to, cap) ==
    LET trace == Traced(run.prev, to)
    IN  [dist |-> run.result,
         path |-> IF run.result = Unreachable THEN <<>>
                  ELSE SubSeq(trace, Len(trace) - Min({cap, Len(trace)}) + 1, Len(trace))]

op_graph_shortest_path(g, from, to, cap) ==
    LET ids == DOMAIN g.nodes
    IN  IF ~valid(g, from) \/ ~valid(g, to) THEN [dist |-> Unreachable, path |-> <<>>]
        ELSE Answered(Dijkstra(g, [dist |-> [i \in ids |-> IF i = from THEN 0 ELSE Unreachable],
                                   prev |-> [i \in ids |-> NoId], done |-> {}, cur |-> NoId,
                                   pq |-> op_pqueue_push(op_pqueue_create(g.n_alive), <<0, from>>),
                                   result |-> Unreachable], to), to, cap)

op_graph_foreach_node(g) == SelectSeq([i \in DOMAIN g.nodes |-> i], LAMBDA i : valid(g, i))

op_graph_foreach_edge(g) ==
    FlattenSeq([i \in DOMAIN g.nodes |-> [j \in DOMAIN g.nodes[i].edges |->
        <<i, g.nodes[i].edges[j].to, g.nodes[i].edges[j].weight>>]])

-----------------------------------------------------------------------------
Cut(id) == {e \in DOMAIN fed.edges : id \notin {e[1], e[2]}}
Held(i) == i \in fed.nodes

Silent == <<0, 0>>

GraphInit == rep = op_graph_create /\ fed = [nodes |-> {}, edges |-> <<>>] /\ out = Silent

GraphNext ==
    \/ /\ Cardinality(fed.nodes) < MaxNodes
       /\ rep' = op_graph_add_node(rep) /\ out' = Silent
       /\ fed' = [fed EXCEPT !.nodes = @ \cup {i \in DOMAIN rep'.nodes : valid(rep', i)}]
    \/ \E id \in DOMAIN rep.nodes :
           /\ rep' = op_graph_del_node(rep, id) /\ out' = Silent
           /\ fed' = IF Held(id) THEN [nodes |-> fed.nodes \ {id}, edges |-> Restrict(fed.edges, Cut(id))] ELSE fed
    \/ \E f, t \in DOMAIN rep.nodes, w \in Weights :
           LET r == op_graph_add_edge(rep, f, t, w)
               new == <<f, t>> \notin DOMAIN fed.edges
           IN  /\ new => Cardinality(DOMAIN fed.edges) < MaxEdges
               /\ rep' = r.g
               /\ IF Held(f) /\ Held(t)
                  THEN /\ fed' = [fed EXCEPT !.edges = [e \in DOMAIN @ \cup {<<f, t>>} |->
                                                            IF e = <<f, t>> THEN w ELSE @[e]]]
                       /\ out' = <<r.answer, IF new THEN 1 ELSE 0>>
                  ELSE fed' = fed /\ out' = <<r.answer, -1>>
    \/ \E f, t \in DOMAIN rep.nodes :
           LET r == op_graph_del_edge(rep, f, t)
           IN  /\ rep' = r.g /\ fed' = [fed EXCEPT !.edges = Restrict(@, DOMAIN @ \ {<<f, t>>})]
               /\ out' = <<r.answer, IF <<f, t>> \in DOMAIN fed.edges THEN 1 ELSE 0>>

GraphSpec == GraphInit /\ [][GraphNext]_vars

-----------------------------------------------------------------------------
(* Properties.                                                              *)

(* Distances[s][v]: the least weight of a path from s to v, in n rounds of relaxation.           *)
Distances(cost(_)) ==
    LET D[n \in 0..Cardinality(fed.nodes)] ==
            IF n = 0 THEN [s \in fed.nodes |-> [v \in fed.nodes |-> IF v = s THEN 0 ELSE Unreachable]]
            ELSE [s \in fed.nodes |-> [v \in fed.nodes |->
                     LET via == {D[n - 1][s][e[1]] + cost(e) : e \in {x \in DOMAIN fed.edges :
                                                                 x[2] = v /\ D[n - 1][s][x[1]] # Unreachable}}
                         all == via \cup ({D[n - 1][s][v]} \ {Unreachable})
                     IN  IF all = {} THEN Unreachable ELSE Min(all)]]
    IN  D[Cardinality(fed.nodes)]

OnceEach(seq, set) == Range(seq) = set /\ Len(seq) = Cardinality(set)
PathWeight(p) == FoldFunction(+, 0, [i \in 1..Len(p) - 1 |-> fed.edges[<<p[i], p[i + 1]>>]])

(* The table is the user's graph, whichever ids were recycled: its nodes, edges, weights,         *)
(* degrees and counts.                                                                   *)
TableExact ==
    /\ OnceEach(op_graph_foreach_node(rep), fed.nodes) /\ rep.n_alive = Cardinality(fed.nodes)
    /\ OnceEach(op_graph_foreach_edge(rep), {<<e[1], e[2], fed.edges[e]>> : e \in DOMAIN fed.edges})
    /\ rep.n_edges = Cardinality(DOMAIN fed.edges)
    /\ \A i \in fed.nodes : rep.nodes[i].in_deg = Cardinality({e \in DOMAIN fed.edges : e[2] = i})
    /\ \A f, t \in DOMAIN rep.nodes :
          /\ op_graph_has_edge(rep, f, t) = (<<f, t>> \in DOMAIN fed.edges)
          /\ <<f, t>> \in DOMAIN fed.edges => op_graph_edge_weight(rep, f, t) = fed.edges[<<f, t>>]

(* A breadth-first search visits each reachable node once, nearer ones first; a depth-first        *)
(* search visits the same nodes.                                                          *)
SearchesExact ==
    LET hops == Distances(LAMBDA e : 1)
    IN  \A s \in fed.nodes :
            LET bfs == op_graph_bfs(rep, s)
                reach == {v \in fed.nodes : hops[s][v] # Unreachable}
            IN  /\ OnceEach(bfs, reach) /\ OnceEach(op_graph_dfs(rep, s), reach)
                /\ \A i \in 1..Len(bfs) - 1 : hops[s][bfs[i]] <= hops[s][bfs[i + 1]]

(* The topological sort answers -1 exactly when some node reaches itself, and otherwise puts       *)
(* every edge's source first.                                                             *)
SortExact ==
    LET hops == Distances(LAMBDA e : 1)
        cyclic == \E e \in DOMAIN fed.edges : hops[e[2]][e[1]] # Unreachable
        sort == op_graph_topo_sort(rep, rep.n_alive)
        pos(v) == CHOOSE i \in DOMAIN sort.order : sort.order[i] = v
    IN  /\ op_graph_has_cycle(rep) = cyclic
        /\ ~cyclic => /\ OnceEach(sort.order, fed.nodes)
                      /\ \A e \in DOMAIN fed.edges : pos(e[1]) < pos(e[2])

(* The shortest path has the least weight of all, and the nodes written are a path of it.         *)
PathExact ==
    LET least == Distances(LAMBDA e : fed.edges[e])
    IN  \A s, t \in fed.nodes :
            \A r \in {op_graph_shortest_path(rep, s, t, MaxNodes)} :
                /\ r.dist = least[s][t]
                /\ r.dist # Unreachable =>
                       /\ r.path[1] = s /\ Last(r.path) = t /\ PathWeight(r.path) = r.dist
                       /\ \A i \in 1..Len(r.path) - 1 : <<r.path[i], r.path[i + 1]>> \in DOMAIN fed.edges

(* The graph answers as the graph its user built.                              *)
GraphExact == out[1] = out[2] /\ TableExact /\ SearchesExact /\ SortExact /\ PathExact
=============================================================================
