----------------------------- MODULE MCCompiler -----------------------------
(***************************************************************************)
(* Model checking of the Thompson compiler: TLC picks a list of patterns   *)
(* and a compiler configuration, one step compiles them, and the           *)
(* invariants compare the NFA it built with the meaning of the patterns on *)
(* every short haystack and every search start.                            *)
(***************************************************************************)
EXTENDS LeftmostFirst, RegexPatterns

CONSTANTS
  MaxHaystackLen,  \* haystacks are every byte string up to this length ...
  HaystackBytes    \* ... over these bytes

VARIABLES
  exprs,   \* the patterns handed to Compiler::compile
  cfg,     \* the thompson::Config in force
  result   \* Pending, then the Result of compile

vars == <<exprs, cfg, result>>

Pending == [ok |-> FALSE, err |-> "pending"]

Configs ==
  [reverse : {FALSE}, utf8 : {FALSE}, captures : BOOLEAN,
   unanchoredPrefix : BOOLEAN, sizeLimit : {<<>>}]

Haystacks == UNION {[1..n -> HaystackBytes] : n \in 0..MaxHaystackLen}

(***************************************************************************)
(* The specification: choose the input, compile it once.                  *)
(***************************************************************************)
Init ==
  /\ exprs \in PatternLists
  /\ cfg \in Configs
  /\ result = Pending

CompileStep ==
  /\ result = Pending
  /\ result' = Compile(cfg, exprs)
  /\ UNCHANGED <<exprs, cfg>>

Spec == Init /\ [][CompileStep]_vars

(***************************************************************************)
(* Properties.                                                             *)
(***************************************************************************)
(* The type of the state, and of a compiled NFA: both start states and   *)
(* every transition name a state of the NFA (finish's remapping through  *)
(* the dropped Empty states leaves no dangling ID).                        *)
TypeOK ==
  /\ cfg \in Configs
  /\ result.ok \in BOOLEAN
  /\ result.ok =>
       LET n == result.nfa
       IN /\ {n.startAnchored, n.startUnanchored} \subseteq StateIds(n)
          /\ \A sid \in StateIds(n) : Successors(StateOf(n, sid)) \subseteq StateIds(n)

(* The search an NFA user runs: anchored from start_anchored, unanchored  *)
(* from start_unanchored (which with an unanchored prefix is entered once, *)
(* and without one is retried at every later position).                   *)
Search(nfa, h, start, anchored) ==
  IF anchored THEN NfaFind(nfa, h, nfa.startAnchored, start, TRUE)
  ELSE NfaFind(nfa, h, nfa.startUnanchored, start, cfg.unanchoredPrefix)

(* Compiler::compile preserves leftmost-first meaning: for every haystack, *)
(* start and anchoring, the NFA's preferred match (the first Match state a *)
(* priority-ordered search reaches) is the pattern's preferred match: the  *)
(* same pattern ID, the same end and, through capture group 0, the same    *)
(* start.  This is what the order of union alternates (c_alternation,      *)
(* add_reverse_union for lazy repetitions), the (x+)? form of c_at_least   *)
(* and the lazy (?s-u:.)*? unanchored prefix are for.  With no size limit *)
(* and StateID::LIMIT far off, compile must also succeed: an Err here (a  *)
(* patch of a Sparse state panics) is a violation, not a vacuous pass.     *)
CompiledMeaningAgrees ==
  result # Pending =>
    result.ok /\
    \A h \in Haystacks, start \in 0..MaxHaystackLen, anchored \in BOOLEAN :
      start <= Len(h) =>
        LET n == Search(result.nfa, h, start, anchored)
            r == HirFind(exprs, h, start, anchored)
        IN /\ n.found = r.found
           /\ r.found =>
                /\ n.pid = r.pid /\ n.end = r.end
                /\ GetCaptures(cfg) =>
                     /\ n.caps[result.nfa.slotBase[n.pid + 1]] = r.start
                     /\ n.caps[result.nfa.slotBase[n.pid + 1] + 1] = r.end
=============================================================================
