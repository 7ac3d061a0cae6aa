----------------------------- MODULE Levenshtein -----------------------------
(***************************************************************************)
(* gsgdt's levenshtein::distance (gsgdt-0.1.2/src/levenshtein.rs): the     *)
(* edit distance of two strings with a single column of the dynamic       *)
(* program, one action per iteration of its loops.  A string is the       *)
(* sequence of its chars (`s.chars().collect()`).                          *)
(***************************************************************************)
EXTENDS Naturals, Sequences, FiniteSetsExt, EditDistances

CONSTANT Strings  \* the inputs compared

VARIABLES
  s1, s2,    \* the arguments of the outermost call
  v1, v2,    \* the arguments of the running call (swapped by the recursion)
  col,       \* the column, indexed 0..l_v1
  i, j,      \* the outer and inner loop indices
  lastDiag,  \* last_diag
  result,    \* the value returned
  pc         \* "call", "outer", "inner", "done"

vars == <<s1, s2, v1, v2, col, i, j, lastDiag, result, pc>>

Init ==
  /\ s1 \in Strings /\ s2 \in Strings
  /\ v1 = s1 /\ v2 = s2
  /\ col = <<>> /\ i = 0 /\ j = 0 /\ lastDiag = 0 /\ result = 0
  /\ pc = "call"

Return(r) ==
  /\ result' = r /\ pc' = "done"
  /\ UNCHANGED <<s1, s2, v1, v2, col, i, j, lastDiag>>

(* The early returns for an empty string.                                 *)
EmptyFirst  == pc = "call" /\ Len(v1) = 0 /\ Return(Len(v2))
EmptySecond == pc = "call" /\ Len(v1) # 0 /\ Len(v2) = 0 /\ Return(Len(v1))

(* `if l_v1 > l_v2 { return distance(s2, s1); }`                          *)
Swap ==
  /\ pc = "call" /\ Len(v1) # 0 /\ Len(v2) # 0 /\ Len(v1) > Len(v2)
  /\ v1' = v2 /\ v2' = v1
  /\ UNCHANGED <<s1, s2, col, i, j, lastDiag, result, pc>>

(* The column built as `(0..l_v1)`, one cell short.                       *)
BeginShortColumn ==
  /\ pc = "call" /\ Len(v1) # 0 /\ Len(v2) # 0 /\ Len(v1) <= Len(v2)
  /\ col' = [k \in 0..(Len(v1) - 1) |-> k]
  /\ i' = 1 /\ pc' = "outer"
  /\ UNCHANGED <<s1, s2, v1, v2, j, lastDiag, result>>

(* `let mut col: Vec<usize> = (0..=l_v1).collect();`                      *)
Begin ==
  /\ pc = "call" /\ Len(v1) # 0 /\ Len(v2) # 0 /\ Len(v1) <= Len(v2)
  /\ col' = [k \in 0..Len(v1) |-> k]
  /\ i' = 1 /\ pc' = "outer"
  /\ UNCHANGED <<s1, s2, v1, v2, j, lastDiag, result>>

(* One iteration of `for i in 1..=l_v2`, up to the inner loop.           *)
Outer ==
  /\ pc = "outer" /\ i <= Len(v2)
  /\ lastDiag' = col[0]
  /\ col' = [col EXCEPT ![0] = @ + 1]
  /\ j' = 1 /\ pc' = "inner"
  /\ UNCHANGED <<s1, s2, v1, v2, i, result>>

OuterDone == pc = "outer" /\ i > Len(v2) /\ Return(col[Len(v1)])

(* The inner iteration without `last_diag = last_diag_temp`: the next    *)
(* cell reads a stale diagonal.                                             *)
InnerStaleDiag ==
  /\ pc = "inner" /\ j <= Len(v1)
  /\ col' = [col EXCEPT ![j] = IF v1[j] = v2[i] THEN lastDiag
                               ELSE Min({lastDiag, col[j - 1], col[j]}) + 1]
  /\ j' = j + 1
  /\ UNCHANGED <<s1, s2, v1, v2, i, lastDiag, result, pc>>

(* One iteration of `for j in 1..=l_v1`.                                  *)
Inner ==
  /\ pc = "inner" /\ j <= Len(v1)
  /\ col' = [col EXCEPT ![j] = IF v1[j] = v2[i] THEN lastDiag
                               ELSE Min({lastDiag, col[j - 1], col[j]}) + 1]
  /\ lastDiag' = col[j]
  /\ j' = j + 1
  /\ UNCHANGED <<s1, s2, v1, v2, i, result, pc>>

InnerDone ==
  /\ pc = "inner" /\ j > Len(v1)
  /\ i' = i + 1 /\ pc' = "outer"
  /\ UNCHANGED <<s1, s2, v1, v2, col, j, lastDiag, result>>

Next == EmptyFirst \/ EmptySecond \/ Swap \/ Begin \/ Outer \/ OuterDone \/ Inner \/ InnerDone

Spec == Init /\ [][Next]_vars /\ WF_vars(Next)

=============================================================================
