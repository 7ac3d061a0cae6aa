---------------------------- MODULE EditDistances ----------------------------
(***************************************************************************)
(* The edit distance of two sequences, by its recursive definition.  The   *)
(* Levenshtein run shows that gsgdt's levenshtein::distance computes it,   *)
(* so the modules that call `distance` use this operator.                 *)
(***************************************************************************)
EXTENDS Naturals, Sequences, FiniteSetsExt

(***************************************************************************)
(* The reference: the edit distance by its recursive definition (insert,  *)
(* delete or substitute the first char).                                  *)
(***************************************************************************)
RECURSIVE EditDistance(_, _)
EditDistance(a, b) ==
  IF a = <<>> THEN Len(b)
  ELSE IF b = <<>> THEN Len(a)
  ELSE Min({EditDistance(Tail(a), b) + 1, EditDistance(a, Tail(b)) + 1,
            EditDistance(Tail(a), Tail(b)) + (IF Head(a) = Head(b) THEN 0 ELSE 1)})
=============================================================================
