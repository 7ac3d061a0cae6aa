----------------------------- MODULE MCDiffGraph -----------------------------
(***************************************************************************)
(* Model checking of DiffGraph::new on every graph over a few nodes, and   *)
(* of match_graphs and visualize_diff, which compare the DiffGraph it      *)
(* builds with a second one: the same graph (a graph diffed with itself),  *)
(* the same graph with edited statements, and a chain of the same nodes.   *)
(***************************************************************************)
EXTENDS DiffGraph

CONSTANTS
  Labels,     \* the node labels
  SelfLoops   \* whether a node may have an edge to itself

VARIABLES
  md1, md2, mtodo, mmapping, mreverse, mmatches, mmatched2, mprev, mkeys,
  mparents1, mparents2, mnewMapping, mpc

mvars == <<md1, md2, mtodo, mmapping, mreverse, mmatches, mmatched2, mprev, mkeys,
           mparents1, mparents2, mnewMapping, mpc>>

(* The labels in BTreeMap (byte) order, and two sets of statements: in    *)
(* the first two blocks share theirs and one block has none.              *)
LabelOrder == <<"bb0", "bb1", "bb2", "bb3">>
MCLabelRank == [l \in Labels |-> CHOOSE p \in DOMAIN LabelOrder : LabelOrder[p] = l]
StmtTable == ("bb0" :> <<"a">>) @@ ("bb1" :> <<"a">>) @@ ("bb2" :> <<"a", "b">>) @@ ("bb3" :> <<>>)
EditTable == ("bb0" :> <<"a">>) @@ ("bb1" :> <<"b">>) @@ ("bb2" :> <<"a", "b", "b">>) @@ ("bb3" :> <<"c">>)
Stmts == [l \in Labels |-> StmtTable[l]]
EditedStmts == [l \in Labels |-> EditTable[l]]

(* The nodes in one order, and every pair of them in the matching order. *)
NodeSeq == SelectSeq(LabelOrder, LAMBDA l : l \in Labels)
AllEdges ==
  LET n == Len(NodeSeq)
  IN [k \in 1..(n * n) |-> <<NodeSeq[(k - 1) \div n + 1], NodeSeq[((k - 1) % n) + 1]>>]

(* The edges a graph may have.                                            *)
EdgeChoices == {e \in Range(AllEdges) : SelfLoops \/ e[1] # e[2]}

(* Every graph on the nodes, its edges a subsequence of AllEdges.         *)
MCGraphs ==
  {[nodes |-> NodeSeq, edges |-> SelectSeq(AllEdges, LAMBDA e : e \in E), stmts |-> Stmts] :
     E \in SUBSET EdgeChoices}

(* The DiffGraph of a graph: its distances as DiffGraph::new computes them *)
(* (ShortestDistances checks that it does).                                *)
DiffOf(g) ==
  [graph |-> g,
   dist_start |-> ShortestDist(RevAdjList(g), SourceLabels(AdjList(g))),
   dist_end |-> ShortestDist(AdjList(g), SourceLabels(RevAdjList(g)))]

Chain == [nodes |-> NodeSeq, stmts |-> Stmts,
          edges |-> [k \in 1..(Len(NodeSeq) - 1) |-> <<NodeSeq[k], NodeSeq[k + 1]>>]]
ChainDiff == DiffOf(Chain)

(* The DiffGraph built by the BFS, and the ones it is compared with.      *)
D1 == [graph |-> graph, dist_start |-> distStart, dist_end |-> distEnd]
Seconds == {D1, [D1 EXCEPT !.graph.stmts = EditedStmts], ChainDiff}

M == INSTANCE MatchGraph
       WITH LabelRank <- MCLabelRank,
            d1 <- md1, d2 <- md2, todo <- mtodo, mapping <- mmapping, reverse <- mreverse,
            matches <- mmatches, matched2 <- mmatched2, prev <- mprev, keys <- mkeys,
            parents1 <- mparents1, parents2 <- mparents2, newMapping <- mnewMapping, pc <- mpc

(* DiffGraph::new, then visualize_diff's call of match_graphs.            *)
DiffInit == Init /\ M!Init

DiffNext ==
  \/ Next /\ UNCHANGED mvars
  \/ pc = "done" /\ \E x2 \in Seconds : M!Begin(D1, x2) /\ UNCHANGED vars
  \/ M!Steps /\ UNCHANGED vars

DiffSpec == DiffInit /\ [][DiffNext]_<<vars, mvars>> /\ WF_<<vars, mvars>>(DiffNext)

TypeOK ==
  /\ graph \in MCGraphs
  /\ phase \in {"start", "end"}
  /\ pc \in {"begin", "loop", "nbrs", "done"}
  /\ mpc \in {"idle", "initial", "entry", "parents", "done", "panic"}
  /\ visited \cup Range(queue) \subseteq DOMAIN dist
  /\ \A n \in DOMAIN dist : dist[n] \in Nat

(* The two calls of bfs_shortest_dist return, for every node that can     *)
(* reach a sink (dist_start) or be reached from a node without parents    *)
(* (dist_end), the length of a shortest such path, and nothing for other *)
(* nodes.  The sources are never put in `visited`, and the queue is       *)
(* seeded in HashMap order: neither may make a node's first discovery     *)
(* come from a longer path or re-label a source.                          *)
ShortestDistances ==
  pc = "done" =>
    /\ distStart = ShortestDist(RevAdjList(graph), SourceLabels(AdjList(graph)))
    /\ distEnd = ShortestDist(AdjList(graph), SourceLabels(RevAdjList(graph)))

(* match_graphs never relates a node to two nodes of the other graph, so *)
(* visualize_diff draws each kept or changed node against one partner.    *)
(* The TODO at match_graph.rs:41 fears duplicates: get_initial_mapping    *)
(* must drop the earlier holder of a label a later node takes, and the    *)
(* loop must never hand out a label of matched_labels_in_2 again, even    *)
(* when new_mapping.insert replaces a parent's earlier label.             *)
MatchIsInjective ==
  mpc = "done" =>
    \A a, b \in mmatches : a.from = b.from \/ a.to = b.to => a = b

(* A graph diffed with itself: every block that has statements and that   *)
(* no other block resembles in dist_start, dist_end and statements is     *)
(* Full-matched to itself, so visualize_diff draws it unchanged in both.  *)
(* select must take the first label of least cost and dist_bw_nodes must  *)
(* weigh every component; the displacement rule must not let a worse     *)
(* later node take the label.                                              *)
Features(d, n) == <<d.dist_start[n], d.dist_end[n], d.graph.stmts[n]>>

SelfDiffKeepsDistinctNodes ==
  mpc = "done" /\ md2 = md1 =>
    \A n \in Range(md1.graph.nodes) :
      /\ md1.graph.stmts[n] # <<>>
      /\ \A m \in Range(md1.graph.nodes) \ {n} : Features(md1, m) # Features(md1, n)
      => /\ [kind |-> "Full", from |-> n, to |-> n] \in mmatches
         /\ M!Style1(n) = "default" /\ M!Style2(n) = "default"

(* Every Partial match (n, l) propagates a match (k, v) already made: n   *)
(* is a parent of k in graph 1 and l a parent of v in graph 2, as the     *)
(* loop compares parents_in_1 of each key of prev_mapping with            *)
(* parents_in_2 of its value.                                             *)
PartialMatchesFollowEdges ==
  mpc = "done" =>
    \A p \in {x \in mmatches : x.kind = "Partial"} :
      \E a \in mmatches :
        /\ p.from \in Range(RevAdjList(md1.graph)[a.from])
        /\ p.to \in Range(RevAdjList(md2.graph)[a.to])

(* visualize_diff never panics: match_graphs indexes dist_start[n] and    *)
(* dist_end[n] (dist_bw_nodes, match_graph.rs:124) for every node select  *)
(* weighs, and DiffGraph::new measures only the nodes that reach a block  *)
(* without children and are reached from one without parents.            *)
MatchNeverPanics == mpc # "panic"
=============================================================================
