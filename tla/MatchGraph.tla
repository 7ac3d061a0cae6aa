------------------------------ MODULE MatchGraph ------------------------------
(***************************************************************************)
(* gsgdt's match_graphs (gsgdt-0.1.2/src/diff/match_graph.rs), which       *)
(* visualize_diff (diff.rs) turns into the node styles of the diff.        *)
(*                                                                         *)
(* A DiffGraph is [graph, dist_start, dist_end], the dist maps functions   *)
(* whose domain is the nodes DiffGraph::new measured.  A BTreeMap is a     *)
(* function iterated in LabelRank order (the byte order of the labels).   *)
(* `matches` is a set: its only consumer, visualize_diff, puts it into     *)
(* HashSets.  One action per iteration of get_initial_mapping's loop, of  *)
(* the `for n in parents_in_1` loop, and of the loop's merge step.        *)
(***************************************************************************)
EXTENDS Integers, Sequences, SequencesExt, GsgdtGraph, EditDistances

CONSTANT LabelRank  \* the labels' positions in BTreeMap<&str, _> order

VARIABLES
  d1, d2,      \* the DiffGraphs compared
  todo,        \* get_initial_mapping: the nodes of d1 not yet selected for
  mapping,     \* `mapping`
  reverse,     \* get_initial_mapping's `reverse_mapping`
  matches,     \* `matches`, as records [kind, from, to]
  matched2,    \* `matched_labels_in_2`
  prev,        \* `prev_mapping`
  keys,        \* the keys of prev_mapping still to go through
  parents1,    \* the parents in 1 of the current key still to go through
  parents2,    \* the parents in 2 of the node it is mapped to
  newMapping,  \* `new_mapping`
  pc           \* "idle", "initial", "entry", "parents", then "done" or "panic"

vars == <<d1, d2, todo, mapping, reverse, matches, matched2, prev, keys,
          parents1, parents2, newMapping, pc>>

Sorted(S) == SetToSortSeq(S, LAMBDA a, b : LabelRank[a] < LabelRank[b])

Measured(d, n) == n \in DOMAIN d.dist_start /\ n \in DOMAIN d.dist_end

Abs(x) == IF x < 0 THEN -x ELSE x

(* dist_bw_nodes with the dist_end component left out.                   *)
DistBwNodesNoEnd(x1, x2, n1, n2) ==
  LET s1 == x1.graph.stmts[n1]
      s2 == x2.graph.stmts[n2]
  IN (x1.dist_start[n1] - x2.dist_start[n2])^2
       + (Len(s1) - Len(s2))^2 + EditDistance(s1, s2)

(* dist_bw_nodes: the squared differences of dist_start, dist_end and the *)
(* number of statements, plus the edit distance of the joined statements. *)
DistBwNodes(x1, x2, n1, n2) ==
  LET s1 == x1.graph.stmts[n1]
      s2 == x2.graph.stmts[n2]
  IN (x1.dist_start[n1] - x2.dist_start[n2])^2
       + (x1.dist_end[n1] - x2.dist_end[n2])^2
       + (Len(s1) - Len(s2))^2 + EditDistance(s1, s2)

(* select: the labels within two statements of n's count (and, for the     *)
(* initial mapping, within edit distance 2 * count), then the first one    *)
(* of least dist_bw_nodes; "none" if no label passes, "panic" if a         *)
(* dist_start or dist_end index misses.                                    *)
Select(x1, x2, n, labs, useTextDistFilter) ==
  LET s == x1.graph.stmts[n]
      Keep(lab) ==
        /\ Abs(Len(x2.graph.stmts[lab]) - Len(s)) <= 2
        /\ useTextDistFilter => EditDistance(s, x2.graph.stmts[lab]) < 2 * Len(s)
      cands == SelectSeq(labs, Keep)
      Cost(lab) == DistBwNodes(x1, x2, n, lab)
  IN CASE cands = <<>> -> "none"
       [] ~Measured(x1, n) \/ \E c \in Range(cands) : ~Measured(x2, c) -> "panic"
       [] OTHER ->
            cands[Min({p \in DOMAIN cands :
                         \A r \in DOMAIN cands : Cost(cands[p]) <= Cost(cands[r])})]

(* match_graphs(d1, d2) called.                                            *)
Begin(x1, x2) ==
  /\ pc = "idle"
  /\ d1' = x1 /\ d2' = x2
  /\ todo' = x1.graph.nodes
  /\ mapping' = <<>> /\ reverse' = <<>>
  /\ pc' = "initial"
  /\ UNCHANGED <<matches, matched2, prev, keys, parents1, parents2, newMapping>>

(* One node of get_initial_mapping, with the displacement skipped.        *)
InitialNodeNoRemove ==
  /\ pc = "initial" /\ todo # <<>>
  /\ LET n == Head(todo)
         lab == Select(d1, d2, n, d2.graph.nodes, TRUE)
     IN CASE lab = "panic" -> pc' = "panic" /\ UNCHANGED <<mapping, reverse>>
          [] lab = "none" -> UNCHANGED <<mapping, reverse, pc>>
          [] lab \in DOMAIN reverse
               /\ DistBwNodes(d1, d2, n, lab) > DistBwNodes(d1, d2, reverse[lab], lab) ->
               UNCHANGED <<mapping, reverse, pc>>
          [] OTHER ->
               /\ mapping' = (n :> lab) @@ mapping
               /\ reverse' = (lab :> n) @@ reverse
               /\ UNCHANGED pc
  /\ todo' = Tail(todo)
  /\ UNCHANGED <<d1, d2, matches, matched2, prev, keys, parents1, parents2, newMapping>>

(* One node of get_initial_mapping: its best label under the text filter; *)
(* a label already taken goes to whichever of the two nodes is closer,    *)
(* the later one on a tie, and the earlier one loses its mapping.         *)
InitialNode ==
  /\ pc = "initial" /\ todo # <<>>
  /\ LET n == Head(todo)
         lab == Select(d1, d2, n, d2.graph.nodes, TRUE)
     IN CASE lab = "panic" -> pc' = "panic" /\ UNCHANGED <<mapping, reverse>>
          [] lab = "none" -> UNCHANGED <<mapping, reverse, pc>>
          [] lab \in DOMAIN reverse
               /\ DistBwNodes(d1, d2, n, lab) > DistBwNodes(d1, d2, reverse[lab], lab) ->
               UNCHANGED <<mapping, reverse, pc>>
          [] OTHER ->
               /\ mapping' = (n :> lab) @@
                    [m \in DOMAIN mapping \ (IF lab \in DOMAIN reverse THEN {reverse[lab]} ELSE {})
                       |-> mapping[m]]
               /\ reverse' = (lab :> n) @@ reverse
               /\ UNCHANGED pc
  /\ todo' = Tail(todo)
  /\ UNCHANGED <<d1, d2, matches, matched2, prev, keys, parents1, parents2, newMapping>>

(* The initial mapping made: every entry a Full match, its labels in 2    *)
(* matched, and the loop started from it.                                 *)
InitialDone ==
  /\ pc = "initial" /\ todo = <<>>
  /\ matches' = {[kind |-> "Full", from |-> k, to |-> mapping[k]] : k \in DOMAIN mapping}
  /\ matched2' = Range(mapping)
  /\ prev' = mapping
  /\ keys' = Sorted(DOMAIN mapping)
  /\ newMapping' = <<>>
  /\ pc' = "entry"
  /\ UNCHANGED <<d1, d2, todo, mapping, reverse, parents1, parents2>>

(* The parents in 2 looked up by the key k instead of its value v.       *)
EntryKeyParents ==
  /\ pc = "entry" /\ keys # <<>>
  /\ parents1' = RevAdjList(d1.graph)[Head(keys)]
  /\ parents2' = RevAdjList(d2.graph)[Head(keys)]
  /\ keys' = Tail(keys)
  /\ pc' = "parents"
  /\ UNCHANGED <<d1, d2, todo, mapping, reverse, matches, matched2, prev, newMapping>>

(* `for (k, v) in prev_mapping.iter()`: the parents of k and of v.        *)
Entry ==
  /\ pc = "entry" /\ keys # <<>>
  /\ parents1' = RevAdjList(d1.graph)[Head(keys)]
  /\ parents2' = RevAdjList(d2.graph)[prev[Head(keys)]]
  /\ keys' = Tail(keys)
  /\ pc' = "parents"
  /\ UNCHANGED <<d1, d2, todo, mapping, reverse, matches, matched2, prev, newMapping>>

(* One parent n in 1: unless already mapped, its best label among the     *)
(* parents in 2 (no text filter), taken if no node of 1 has it yet; a     *)
(* later label for the same n replaces the earlier one in new_mapping.    *)
Parent ==
  /\ pc = "parents" /\ parents1 # <<>>
  /\ LET n == Head(parents1)
         lab == Select(d1, d2, n, parents2, FALSE)
     IN CASE n \in DOMAIN mapping \/ lab = "none" \/ lab \in matched2 ->
               UNCHANGED <<matched2, newMapping, pc>>
          [] n \notin DOMAIN mapping /\ lab = "panic" ->
               pc' = "panic" /\ UNCHANGED <<matched2, newMapping>>
          [] OTHER ->
               /\ matched2' = matched2 \cup {lab}
               /\ newMapping' = (n :> lab) @@ newMapping
               /\ UNCHANGED pc
  /\ parents1' = Tail(parents1)
  /\ UNCHANGED <<d1, d2, todo, mapping, reverse, matches, prev, keys, parents2>>

ParentsDone ==
  /\ pc = "parents" /\ parents1 = <<>>
  /\ pc' = "entry"
  /\ UNCHANGED <<d1, d2, todo, mapping, reverse, matches, matched2, prev, keys,
                 parents1, parents2, newMapping>>

(* get_new_matches and the merge: stop if new_mapping adds no key, else   *)
(* its new entries join mapping as Partial matches and the loop goes on  *)
(* from new_mapping.                                                       *)
Merge ==
  /\ pc = "entry" /\ keys = <<>>
  /\ LET new == DOMAIN newMapping \ DOMAIN mapping
     IN IF new = {}
        THEN pc' = "done" /\ UNCHANGED <<mapping, matches, prev, keys, newMapping>>
        ELSE /\ mapping' = mapping @@ newMapping
             /\ matches' = matches \cup
                  {[kind |-> "Partial", from |-> k, to |-> newMapping[k]] : k \in new}
             /\ prev' = newMapping
             /\ keys' = Sorted(DOMAIN newMapping)
             /\ newMapping' = <<>>
             /\ UNCHANGED pc
  /\ UNCHANGED <<d1, d2, todo, reverse, matched2, parents1, parents2>>

Init ==
  /\ d1 = <<>> /\ d2 = <<>> /\ todo = <<>>
  /\ mapping = <<>> /\ reverse = <<>> /\ matches = {} /\ matched2 = {}
  /\ prev = <<>> /\ keys = <<>> /\ parents1 = <<>> /\ parents2 = <<>>
  /\ newMapping = <<>>
  /\ pc = "idle"

Steps == InitialNode \/ InitialDone \/ Entry \/ Parent \/ ParentsDone \/ Merge

(***************************************************************************)
(* visualize_diff: the style of each node of graph 1 and of graph 2.      *)
(***************************************************************************)
FullFrom    == {m.from : m \in {x \in matches : x.kind = "Full"}}
FullTo      == {m.to : m \in {x \in matches : x.kind = "Full"}}
PartialFrom == {m.from : m \in {x \in matches : x.kind = "Partial"}}
PartialTo   == {m.to : m \in {x \in matches : x.kind = "Partial"}}

Style1(n) ==
  IF n \in FullFrom THEN "default" ELSE IF n \in PartialFrom THEN "changed" ELSE "removed"

Style2(n) ==
  IF n \in FullTo THEN "default" ELSE IF n \in PartialTo THEN "changed" ELSE "added"
=============================================================================
