------------------------------- MODULE MCPikeVM -------------------------------
(***************************************************************************)
(* Model checking of PikeVM::find_leftmost_at on NFAs built by the         *)
(* compiler with its production configuration (captures and the            *)
(* unanchored prefix on), over every short haystack, start and anchoring.  *)
(***************************************************************************)
EXTENDS PikeVM, RegexPatterns

CONSTANTS
  MaxHaystackLen,  \* haystacks are every byte string up to this length ...
  HaystackBytes,   \* ... over these bytes
  MaxStart,        \* searches start at 0..MaxStart
  Captures         \* thompson::Config::captures of the NFAs searched

MCStarts == 0..MaxStart

ProdCfg == [reverse |-> FALSE, utf8 |-> FALSE, captures |-> Captures,
            unanchoredPrefix |-> TRUE, sizeLimit |-> <<>>]

(* The NFAs searched.                                                      *)
SearchNfas == {Compile(ProdCfg, ps).nfa : ps \in SearchPatternLists}

MCHaystacks == UNION {[1..n -> HaystackBytes] : n \in 0..MaxHaystackLen}

(***************************************************************************)
(* Properties.                                                             *)
(***************************************************************************)
TypeOK ==
  /\ pc \in {"top", "closure", "cstep", "steps", "advance", "done"}
  /\ at \in start..Len(haystack)
  /\ matchedPid \in {NoPid} \cup 0..(Len(nfa.slotBase) - 1)
  /\ DOMAIN slots = 0..(nfa.slotLen - 1)
  /\ \A th \in {clist, nlist} :
       /\ \A k \in DOMAIN th.set : th.set[k] \in StateIds(nfa)
       /\ DOMAIN th.caps = StateIds(nfa)
  /\ ret \in {"seed", "step"}

(* epsilon_closure scopes its capture writes: when its stack runs empty,  *)
(* the thread_caps it was handed (caps.slots for a seed, the stepping     *)
(* thread's clist.caps(sid) for a step) hold again exactly what they held *)
(* when it was called, however many Capture states and Union branches it  *)
(* went through.  Without this, a slot set on one branch leaks into the   *)
(* captures of a sibling branch or of the next thread.                     *)
ClosureRestoresCaptures ==
  pc = "closure" /\ stack = <<>> =>
    tcaps = IF ret = "seed" THEN slots ELSE clist.caps[clist.set[i]]

LS == INSTANCE LeftmostSearch
        WITH Nfas <- SearchNfas, Haystacks <- MCHaystacks, Starts <- MCStarts,
             answered <- pc = "done",
             result <- IF pc = "done" THEN Outcome ELSE [found |-> FALSE]

(* find_leftmost_at implements the leftmost-first search: when it returns *)
(* it returns the pattern, span and every capture slot of the match a    *)
(* priority-ordered backtracking search from start_anchored finds first,  *)
(* trying later starts only when the search is unanchored.  This covers   *)
(* the thread order of the closures, the cut of lower-priority threads    *)
(* at a Match, re-seeding only while nothing has matched, and the         *)
(* is_always_start_anchored shortcut.                                      *)
ImplementsLeftmostSearch == LS!SafetySpec

(* find_leftmost_at returns: the search loop ends on every input (the     *)
(* liveness half of LS!Spec; see LeftmostSearch!Returns).  The seeding    *)
(* after a match, the break conditions and the visited check of the       *)
(* epsilon closure are what stop it.                                       *)
SearchReturns == LS!Returns

(* A search never panics: the spec calls the simulation infallible given *)
(* a validly compiled automaton and a well-formed configuration, and      *)
(* thompson::Config::captures(false) is one.  find_leftmost_at reads the  *)
(* match span from caps.slots of the pattern's group 0 and unwraps it.    *)
SearchNeverPanics == pc = "done" => "panic" \notin DOMAIN Outcome
=============================================================================
