------------------------------ MODULE GsgdtGraph ------------------------------
(***************************************************************************)
(* gsgdt's Graph (gsgdt-0.1.2/src/graph.rs, node.rs) and the adjacency     *)
(* lists the diff is computed from.                                        *)
(*                                                                         *)
(* A graph is [nodes, edges, stmts]: the node labels in Vec order, the     *)
(* edges as <<from, to>> pairs in Vec order, and each node's statements    *)
(* (Node::stmts) as a sequence, each statement one char of the text the   *)
(* diff compares.  An AdjList (a HashMap from label to a Vec of labels)    *)
(* is a function from labels to sequences.                                 *)
(***************************************************************************)
EXTENDS Naturals, Sequences, SequencesExt

(* The edges leaving, and entering, node `n`, in Vec order.              *)
Outgoing(g, n) == SelectSeq(g.edges, LAMBDA e : e[1] = n)
Incoming(g, n) == SelectSeq(g.edges, LAMBDA e : e[2] = n)

(* Graph::adj_list: every node label with an empty Vec, then each edge's  *)
(* `to` pushed onto the entry of its `from` (inserted if missing).        *)
AdjList(g) ==
  [n \in Range(g.nodes) \cup {e[1] : e \in Range(g.edges)} |->
     [k \in DOMAIN Outgoing(g, n) |-> Outgoing(g, n)[k][2]]]

(* Graph::rev_adj_list: the same with every edge reversed.                *)
RevAdjList(g) ==
  [n \in Range(g.nodes) \cup {e[2] : e \in Range(g.edges)} |->
     [k \in DOMAIN Incoming(g, n) |-> Incoming(g, n)[k][1]]]

(* get_source_labels: the labels whose list is empty, in HashMap order.  *)
SourceLabels(adj) == {k \in DOMAIN adj : adj[k] = <<>>}

(***************************************************************************)
(* The reference: the length of a shortest path to each node from a set   *)
(* of sources, by enumerating paths along an adjacency function.          *)
(***************************************************************************)
PathsFrom(adj, S) ==
  {p \in UNION {[1..n -> DOMAIN adj] : n \in 1..Cardinality(DOMAIN adj)} :
     /\ p[1] \in S
     /\ \A k \in 1..(Len(p) - 1) : \E m \in DOMAIN adj[p[k]] : adj[p[k]][m] = p[k + 1]}

ShortestDist(adj, S) ==
  LET P == PathsFrom(adj, S)
  IN [n \in {p[Len(p)] : p \in P} |->
        CHOOSE d \in {Len(p) - 1 : p \in {q \in P : q[Len(q)] = n}} :
          \A q \in P : q[Len(q)] = n => d <= Len(q) - 1]
=============================================================================
