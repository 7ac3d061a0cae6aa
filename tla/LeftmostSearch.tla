---------------------------- MODULE LeftmostSearch ----------------------------
(***************************************************************************)
(* What a leftmost-first NFA search promises, as one atomic step: given    *)
(* the NFA, the haystack, the start and whether the search is anchored, it *)
(* answers with the match a priority-ordered backtracking search from      *)
(* start_anchored finds first (LeftmostFirst!NfaFind), capture slots       *)
(* included, trying each later start when it is not anchored.             *)
(***************************************************************************)
EXTENDS LeftmostFirst

CONSTANTS Nfas, Haystacks, Starts

VARIABLES
  nfa, haystack, start, anchoredCfg,  \* the search inputs
  answered,  \* has the search returned?
  result     \* what it returned ([found |-> FALSE] until then)

vars == <<nfa, haystack, start, anchoredCfg, answered, result>>

NoAnswer == [found |-> FALSE]

Answer == NfaFind(nfa, haystack, nfa.startAnchored, start, anchoredCfg)

Init ==
  /\ nfa \in Nfas /\ haystack \in Haystacks /\ anchoredCfg \in BOOLEAN
  /\ start \in Starts /\ start <= Len(haystack)
  /\ answered = FALSE
  /\ result = NoAnswer

Search ==
  /\ answered = FALSE
  /\ answered' = TRUE
  /\ result' = Answer
  /\ UNCHANGED <<nfa, haystack, start, anchoredCfg>>

SafetySpec == Init /\ [][Search]_vars

(* The search returns.  Search is enabled exactly while ~answered, so     *)
(* under SafetySpec WF_vars(Search) is equivalent to this.                 *)
Returns == <>answered

Spec == SafetySpec /\ WF_vars(Search)
=============================================================================
