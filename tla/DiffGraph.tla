------------------------------ MODULE DiffGraph ------------------------------
(***************************************************************************)
(* gsgdt's DiffGraph::new (gsgdt-0.1.2/src/diff/diff_graph.rs) with the    *)
(* adjacency lists of Graph (graph.rs) it is built from: the two runs of   *)
(* bfs_shortest_dist, one action per iteration of its queue loop and of    *)
(* its neighbour loop (the graphs and adjacency lists are in GsgdtGraph). *)
(*                                                                         *)
(* A map being filled (`dist`) is a function whose domain grows.  HashMap  *)
(* iteration order is unspecified, so get_source_labels yields its labels *)
(* in any order.                                                           *)
(***************************************************************************)
EXTENDS Naturals, Sequences, SequencesExt, GsgdtGraph

CONSTANT Graphs  \* the graphs DiffGraph::new is applied to

VARIABLES
  graph,      \* the Graph
  phase,      \* which call of bfs_shortest_dist runs: "start" or "end"
  dist,       \* its `dist` map
  visited,    \* its `visited` set
  queue,      \* its queue
  curDist,    \* curr_dist of the node being expanded
  nbrs,       \* the neighbours of that node still to go through
  distStart,  \* the finished dist_start ...
  distEnd,    \* ... and dist_end maps
  pc          \* "begin", "loop", "nbrs", "done"

vars == <<graph, phase, dist, visited, queue, curDist, nbrs, distStart, distEnd, pc>>

(* DiffGraph::new calls bfs_shortest_dist(rev_adj_list, start_nodes) for *)
(* dist_start, start_nodes being the sinks of adj_list, then              *)
(* bfs_shortest_dist(adj_list, end_nodes) for dist_end, end_nodes being   *)
(* the sinks of rev_adj_list.                                              *)
BfsAdj(g, ph) == IF ph = "start" THEN RevAdjList(g) ELSE AdjList(g)
BfsSources(g, ph) == IF ph = "start" THEN SourceLabels(AdjList(g)) ELSE SourceLabels(RevAdjList(g))

Adj == BfsAdj(graph, phase)

Init ==
  /\ graph \in Graphs
  /\ phase = "start"
  /\ dist = <<>> /\ visited = {} /\ queue = <<>> /\ curDist = 0 /\ nbrs = <<>>
  /\ distStart = <<>> /\ distEnd = <<>>
  /\ pc = "begin"

(* The sources at distance 0, the queue holding them, `visited` empty.   *)
BeginBfs ==
  /\ pc = "begin"
  /\ \E order \in SetToSeqs(BfsSources(graph, phase)) :
       /\ queue' = order
       /\ dist' = [k \in BfsSources(graph, phase) |-> 0]
  /\ visited' = {}
  /\ pc' = "loop"
  /\ UNCHANGED <<graph, phase, curDist, nbrs, distStart, distEnd>>

(* The loop written with `queue.pop_back()`: a depth-first order.        *)
PopBack ==
  /\ pc = "loop" /\ queue # <<>>
  /\ nbrs' = Adj[Last(queue)]
  /\ curDist' = dist[Last(queue)]
  /\ queue' = Front(queue)
  /\ pc' = "nbrs"
  /\ UNCHANGED <<graph, phase, dist, visited, distStart, distEnd>>

(* `while let Some(node) = queue.pop_front()`: its neighbours and its    *)
(* distance.                                                               *)
Pop ==
  /\ pc = "loop" /\ queue # <<>>
  /\ nbrs' = Adj[Head(queue)]
  /\ curDist' = dist[Head(queue)]
  /\ queue' = Tail(queue)
  /\ pc' = "nbrs"
  /\ UNCHANGED <<graph, phase, dist, visited, distStart, distEnd>>

(* A neighbour queued and marked visited without its dist entry.        *)
VisitNoDist ==
  /\ pc = "nbrs" /\ nbrs # <<>> /\ Head(nbrs) \notin visited
  /\ queue' = Append(queue, Head(nbrs))
  /\ visited' = visited \cup {Head(nbrs)}
  /\ nbrs' = Tail(nbrs)
  /\ UNCHANGED <<graph, phase, dist, curDist, distStart, distEnd, pc>>

(* An unvisited neighbour gets curr_dist + 1 and joins the queue.         *)
VisitNew ==
  /\ pc = "nbrs" /\ nbrs # <<>> /\ Head(nbrs) \notin visited
  /\ dist' = (Head(nbrs) :> curDist + 1) @@ dist
  /\ queue' = Append(queue, Head(nbrs))
  /\ visited' = visited \cup {Head(nbrs)}
  /\ nbrs' = Tail(nbrs)
  /\ UNCHANGED <<graph, phase, curDist, distStart, distEnd, pc>>

VisitSeen ==
  /\ pc = "nbrs" /\ nbrs # <<>> /\ Head(nbrs) \in visited
  /\ nbrs' = Tail(nbrs)
  /\ UNCHANGED <<graph, phase, dist, visited, queue, curDist, distStart, distEnd, pc>>

NbrsDone ==
  /\ pc = "nbrs" /\ nbrs = <<>>
  /\ pc' = "loop"
  /\ UNCHANGED <<graph, phase, dist, visited, queue, curDist, nbrs, distStart, distEnd>>

(* The queue ran empty: the call returns `dist`.                          *)
BfsDone ==
  /\ pc = "loop" /\ queue = <<>>
  /\ IF phase = "start"
     THEN distStart' = dist /\ phase' = "end" /\ pc' = "begin" /\ UNCHANGED distEnd
     ELSE distEnd' = dist /\ pc' = "done" /\ UNCHANGED <<phase, distStart>>
  /\ UNCHANGED <<graph, dist, visited, queue, curDist, nbrs>>

Next == BeginBfs \/ Pop \/ VisitNew \/ VisitSeen \/ NbrsDone \/ BfsDone

Spec == Init /\ [][Next]_vars /\ WF_vars(Next)

=============================================================================
