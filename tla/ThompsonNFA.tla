----------------------------- MODULE ThompsonNFA -----------------------------
(***************************************************************************)
(* The vocabulary of a compiled Thompson NFA (regex-automata 0.2.0,        *)
(* nfa/thompson): the final State variants, byte transitions, look-around  *)
(* assertions and the capture-slot layout.  The NFA type itself lives in   *)
(* nfa/thompson/mod.rs, which is not part of the source slice; the         *)
(* operators marked so below are modelled from the specification.          *)
(*                                                                         *)
(* Conventions.  State IDs are 0-based as in the code; a sequence of       *)
(* states holds state `sid` at index sid + 1.  A haystack is a sequence of *)
(* bytes (naturals below 256) and a position `at` is 0-based, so the byte  *)
(* at `at` is h[at + 1].  An unset capture slot (Rust `None`) is NoSlot.   *)
(***************************************************************************)
EXTENDS Integers, Sequences

NoSlot == -1

NewLine == 10

(* The look-around kinds the compiler emits (Look enum).  The Unicode word *)
(* boundaries need the Unicode word tables and are not modelled.          *)
LookKinds == {"StartLine", "EndLine", "StartText", "EndText",
              "WordBoundaryAscii", "WordBoundaryAsciiNegate"}

(* Look::reversed (spec-modelled): the mirror image used by a reverse NFA. *)
LookReversed(look) ==
  CASE look = "StartLine" -> "EndLine"
    [] look = "EndLine"   -> "StartLine"
    [] look = "StartText" -> "EndText"
    [] look = "EndText"   -> "StartText"
    [] OTHER              -> look

IsWordByte(b) ==
  \/ b \in 48..57 \/ b \in 65..90 \/ b \in 97..122 \/ b = 95

(* Look::matches (spec-modelled): does the assertion hold at `at`?        *)
LookMatches(look, h, at) ==
  LET before == at > 0 /\ IsWordByte(h[at])
      after  == at < Len(h) /\ IsWordByte(h[at + 1])
  IN CASE look = "StartLine" -> at = 0 \/ h[at] = NewLine
       [] look = "EndLine"   -> at = Len(h) \/ h[at + 1] = NewLine
       [] look = "StartText" -> at = 0
       [] look = "EndText"   -> at = Len(h)
       [] look = "WordBoundaryAscii"       -> before # after
       [] look = "WordBoundaryAsciiNegate" -> before = after

(* Transition::matches: the byte at `at` exists and lies in [lo, hi].     *)
RangeMatches(t, h, at) == at < Len(h) /\ t.lo <= h[at + 1] /\ h[at + 1] <= t.hi

(* SparseTransitions::matches: the target of the first range holding the  *)
(* byte at `at`, or NoState when none does.                               *)
NoState == -1
SparseNext(ranges, h, at) ==
  LET hits == {k \in 1..Len(ranges) : RangeMatches(ranges[k], h, at)}
  IN IF hits = {} THEN NoState
     ELSE ranges[CHOOSE k \in hits : \A j \in hits : k <= j].next

(* Final NFA states (the State enum).                                     *)
RangeState(lo, hi, next) == [kind |-> "Range", lo |-> lo, hi |-> hi, next |-> next]
SparseState(ranges)      == [kind |-> "Sparse", ranges |-> ranges]
LookState(look, next)    == [kind |-> "Look", look |-> look, next |-> next]
UnionState(alts)         == [kind |-> "Union", alts |-> alts]
CaptureState(slot, next) == [kind |-> "Capture", slot |-> slot, next |-> next]
MatchState(pid)          == [kind |-> "Match", pid |-> pid]
FailState                == [kind |-> "Fail"]

(* The states the transitions of `s` lead to.                            *)
Successors(s) ==
  CASE s.kind \in {"Range", "Look", "Capture"} -> {s.next}
    [] s.kind = "Sparse" -> {s.ranges[k].next : k \in DOMAIN s.ranges}
    [] s.kind = "Union"  -> {s.alts[k] : k \in DOMAIN s.alts}
    [] OTHER             -> {}

(* The state of `nfa` with ID `sid`.                                      *)
StateOf(nfa, sid) == nfa.states[sid + 1]

StateIds(nfa) == 0..(Len(nfa.states) - 1)

(* NFA::is_always_start_anchored (spec-modelled).                         *)
IsAlwaysStartAnchored(nfa) == nfa.startAnchored = nfa.startUnanchored

(* The capture-slot layout (spec-modelled): pattern `pid` owns the slots  *)
(* Base(pid) .. Base(pid) + 2 * groups - 1; group i of it records its     *)
(* start in slot Base + 2i and its end in slot Base + 2i + 1.             *)
SlotOf(nfa, pid, capi, isEnd) ==
  nfa.slotBase[pid + 1] + 2 * capi + (IF isEnd THEN 1 ELSE 0)

NoSlots(n) == [k \in 0..(n - 1) |-> NoSlot]
=============================================================================
