---------------------------- MODULE MCLevenshtein ----------------------------
(***************************************************************************)
(* Model checking of levenshtein::distance on every pair of short strings. *)
(***************************************************************************)
EXTENDS Levenshtein

CONSTANTS
  Chars,   \* the chars strings are made of ...
  MaxLen   \* ... and their greatest length

MCStrings == UNION {[1..n -> Chars] : n \in 0..MaxLen}

TypeOK ==
  /\ {s1, s2, v1, v2} \subseteq MCStrings
  /\ pc \in {"call", "outer", "inner", "done"}
  /\ pc \in {"outer", "inner"} =>
       /\ DOMAIN col = 0..Len(v1)
       /\ i \in 1..(Len(v2) + 1)
  /\ pc = "inner" => j \in 1..(Len(v1) + 1)

(* distance returns the edit distance of its arguments, whichever of them *)
(* is longer: the single-column update (last_diag saved before col[j] is *)
(* overwritten, col[0] bumped per row) and the argument swap of the       *)
(* recursion together compute the full dynamic program.                  *)
DistanceCorrect == pc = "done" => result = EditDistance(s1, s2)
=============================================================================
