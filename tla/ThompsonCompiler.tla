-------------------------- MODULE ThompsonCompiler --------------------------
(***************************************************************************)
(* The Thompson compiler of regex-automata 0.2.0 (nfa/thompson/compiler.rs)*)
(* as pure operators.  The compiler is single threaded and recursive over  *)
(* the regex tree (Hir); every method that mutates the Compiler struct     *)
(* takes the struct as a record and returns the updated record:            *)
(*                                                                         *)
(*   cs = [config, states, mem, err]                                       *)
(*                                                                         *)
(* `states` is the Vec<CState> (state `sid` at index sid + 1), `mem` is    *)
(* memory_cstates.  A method returning Result<ThompsonRef> returns a       *)
(* record Ref(cs, start, end); one returning Result<StateID> returns       *)
(* [cs, id].  The `?` early return is modelled by `err`: the first error  *)
(* is recorded, and from then on add_state and patch change nothing and   *)
(* the loops stop, so the outcome of `compile` is Err(first error) exactly *)
(* as in the code; no partial NFA is ever returned.                        *)
(***************************************************************************)
EXTENDS ThompsonNFA, SequencesExt, FiniteSets

CONSTANTS
  StateIDLimit,   \* StateID::LIMIT
  PatternIDLimit  \* PatternID::LIMIT

(* mem::size_of on a 64-bit target: CState, StateID and Transition.       *)
CStateSize == 32
StateIDSize == 4
TransitionSize == 8

(***************************************************************************)
(* The Hir the compiler consumes (regex-syntax, outside the slice).  A     *)
(* CaptureName group behaves as CaptureIndex (the name is only recorded),  *)
(* so it is not a separate kind here.                                      *)
(***************************************************************************)
HEmpty == [k |-> "Empty"]
HByte(b) == [k |-> "Literal", byte |-> b]
HChar(cp) == [k |-> "Char", cp |-> cp]
HClassBytes(rs) == [k |-> "ClassBytes", ranges |-> rs]
HClassUnicode(rs) == [k |-> "ClassUnicode", ranges |-> rs]
HAnchor(look) == [k |-> "Anchor", look |-> look]
HWordBoundary(look) == [k |-> "WordBoundary", look |-> look]
HRep(kind, min, max, greedy, sub) ==
  [k |-> "Rep", rkind |-> kind, min |-> min, max |-> max, greedy |-> greedy, sub |-> sub]
HGroup(kind, index, sub) == [k |-> "Group", gkind |-> kind, index |-> index, sub |-> sub]
HConcat(subs) == [k |-> "Concat", subs |-> subs]
HAlt(subs) == [k |-> "Alt", subs |-> subs]

(* Hir::is_match_empty (regex-syntax; spec-modelled).                     *)
RECURSIVE IsMatchEmpty(_)
IsMatchEmpty(e) ==
  CASE e.k \in {"Empty", "Anchor", "WordBoundary"} -> TRUE
    [] e.k \in {"Literal", "Char", "ClassBytes", "ClassUnicode"} -> FALSE
    [] e.k = "Rep"    -> e.rkind \in {"ZeroOrOne", "ZeroOrMore"} \/ e.min = 0
                         \/ IsMatchEmpty(e.sub)
    [] e.k = "Group"  -> IsMatchEmpty(e.sub)
    [] e.k = "Concat" -> \A i \in DOMAIN e.subs : IsMatchEmpty(e.subs[i])
    [] e.k = "Alt"    -> \E i \in DOMAIN e.subs : IsMatchEmpty(e.subs[i])

(* Hir::is_anchored_start (regex-syntax; spec-modelled).                  *)
RECURSIVE IsAnchoredStart(_)
IsAnchoredStart(e) ==
  CASE e.k = "Anchor" -> e.look = "StartText"
    [] e.k = "Rep"    -> ~IsMatchEmpty(e) /\ IsAnchoredStart(e.sub)
    [] e.k = "Group"  -> IsAnchoredStart(e.sub)
    [] e.k = "Concat" -> e.subs # <<>> /\ IsAnchoredStart(e.subs[1])
    [] e.k = "Alt"    -> \A i \in DOMAIN e.subs : IsAnchoredStart(e.subs[i])
    [] OTHER          -> FALSE

(* char::encode_utf8 for the scalar value `cp`.                           *)
Utf8Encode(cp) ==
  LET cont(shift) == 128 + ((cp \div shift) % 64)
  IN CASE cp < 128   -> <<cp>>
       [] cp < 2048  -> <<192 + cp \div 64, cont(1)>>
       [] cp < 65536 -> <<224 + cp \div 4096, cont(64), cont(1)>>
       [] OTHER      -> <<240 + cp \div 262144, cont(4096), cont(64), cont(1)>>

(***************************************************************************)
(* Config getters (compiler.rs 209-238).                                   *)
(***************************************************************************)
GetCaptures(cfg) == ~cfg.reverse /\ cfg.captures

IsReverse(cs) == cs.config.reverse

(***************************************************************************)
(* State bookkeeping: CState::memory_usage, nfa_memory_usage,             *)
(* check_nfa_size_limit, add_state and the add_* constructors.             *)
(***************************************************************************)
CStateMemory(c) ==
  CASE c.kind = "Sparse" -> Len(c.ranges) * TransitionSize
    [] c.kind \in {"Union", "UnionReverse"} -> Len(c.alts) * StateIDSize
    [] OTHER -> 0

Fail(cs, e) == [cs EXCEPT !.err = e]

NfaMemoryUsage(cs) == Len(cs.states) * CStateSize + cs.mem

(* config.get_nfa_size_limit() is an Option<usize>: <<>> or <<limit>>.   *)
CheckNfaSizeLimit(cs) ==
  IF cs.config.sizeLimit # <<>> /\ NfaMemoryUsage(cs) > cs.config.sizeLimit[1]
  THEN Fail(cs, "exceeded_size_limit") ELSE cs

(* add_state refusing an ID only once it is past StateID::LIMIT.         *)
AddStateOffByOne(cs, c) ==
  LET id == Len(cs.states)
  IN CASE cs.err # "none"    -> [id |-> NoState, cs |-> cs]
       [] id > StateIDLimit  -> [id |-> NoState, cs |-> Fail(cs, "too_many_states")]
       [] OTHER -> [id |-> id,
                    cs |-> CheckNfaSizeLimit([cs EXCEPT !.mem = @ + CStateMemory(c),
                                                        !.states = Append(@, c)])]

AddState(cs, c) ==
  LET id == Len(cs.states)
  IN CASE cs.err # "none"    -> [id |-> NoState, cs |-> cs]
       [] id >= StateIDLimit -> [id |-> NoState, cs |-> Fail(cs, "too_many_states")]
       [] OTHER -> [id |-> id,
                    cs |-> CheckNfaSizeLimit([cs EXCEPT !.mem = @ + CStateMemory(c),
                                                        !.states = Append(@, c)])]

AddEmpty(cs) == AddState(cs, [kind |-> "Empty", next |-> 0])
AddCaptureStart(cs, capi) == AddState(cs, [kind |-> "CaptureStart", next |-> 0, capi |-> capi])
AddCaptureEnd(cs, capi) == AddState(cs, [kind |-> "CaptureEnd", next |-> 0, capi |-> capi])
AddRange(cs, lo, hi) == AddState(cs, [kind |-> "Range", lo |-> lo, hi |-> hi, next |-> 0])
AddSparse(cs, ranges) ==
  IF Len(ranges) = 1
  THEN AddState(cs, [kind |-> "Range", lo |-> ranges[1].lo, hi |-> ranges[1].hi,
                     next |-> ranges[1].next])
  ELSE AddState(cs, [kind |-> "Sparse", ranges |-> ranges])
AddLook(cs, look) ==
  AddState(cs, [kind |-> "Look", next |-> 0,
                look |-> IF IsReverse(cs) THEN LookReversed(look) ELSE look])
AddUnion(cs) == AddState(cs, [kind |-> "Union", alts |-> <<>>])
AddReverseUnion(cs) == AddState(cs, [kind |-> "UnionReverse", alts |-> <<>>])
AddMatch(cs, pid, startId) == AddState(cs, [kind |-> "Match", pid |-> pid, startId |-> startId])

(* `if greedy { add_union } else { add_reverse_union }`, used by every    *)
(* repetition.                                                             *)
AddUnionFor(cs, greedy) == IF greedy THEN AddUnion(cs) ELSE AddReverseUnion(cs)

(* patch growing a union without re-checking the size limit.            *)
PatchNoSizeCheck(cs, from, to) ==
  LET s == cs.states[from + 1]
  IN CASE cs.err # "none" -> cs
       [] s.kind \in {"Empty", "Range", "Look", "CaptureStart", "CaptureEnd"} ->
            [cs EXCEPT !.states[from + 1].next = to]
       [] s.kind \in {"Union", "UnionReverse"} ->
            [cs EXCEPT !.states[from + 1].alts = Append(@, to), !.mem = @ + StateIDSize]
       [] s.kind = "Sparse" -> Fail(cs, "panic")
       [] s.kind = "Match"  -> cs

(* Compiler::patch: point the dangling transition of `from` at `to`; a    *)
(* union gains an alternate (and heap, so the size limit is re-checked); *)
(* a sparse state cannot be patched (panic); a match state ignores it.    *)
Patch(cs, from, to) ==
  LET s == cs.states[from + 1]
  IN CASE cs.err # "none" -> cs
       [] s.kind \in {"Empty", "Range", "Look", "CaptureStart", "CaptureEnd"} ->
            [cs EXCEPT !.states[from + 1].next = to]
       [] s.kind \in {"Union", "UnionReverse"} ->
            CheckNfaSizeLimit([cs EXCEPT !.states[from + 1].alts = Append(@, to),
                                         !.mem = @ + StateIDSize])
       [] s.kind = "Sparse" -> Fail(cs, "panic")
       [] s.kind = "Match"  -> cs

Ref(cs, start, end) == [cs |-> cs, start |-> start, end |-> end]

(* The `?` after a call returning Result<ThompsonRef>: did it fail?  Each *)
(* operator that continues a method after such a call tests it first and  *)
(* hands the failed Ref on unchanged.                                      *)
Failed(r) == r.cs.err # "none"

(***************************************************************************)
(* The recursive lowering of a Hir, Compiler::c and the c_* methods.  The  *)
(* statement order of each method is kept: it fixes the state IDs.         *)
(***************************************************************************)
(* The c_* methods that compile sub-expressions and Compiler::c are       *)
(* mutually recursive.  What a method does after a sub-expression         *)
(* is compiled is a separate operator that receives the sub-expression's   *)
(* Ref as a parameter (ConcatLink, GroupClose, ...).                       *)
RECURSIVE C(_, _), CConcat(_, _), CExactly(_, _, _), CGroup(_, _, _, _),
          CPattern(_, _, _), CElem(_, _, _, _), CAlternation(_, _, _),
          CBounded(_, _, _, _, _), CAtLeast(_, _, _, _), CZeroOrOne(_, _, _),
          CRepetition(_, _)

CEmpty(cs) == LET s == AddEmpty(cs) IN Ref(s.cs, s.id, s.id)

CRange(cs, lo, hi) == LET s == AddRange(cs, lo, hi) IN Ref(s.cs, s.id, s.id)

(* c_anchor and c_word_boundary: one Look state.                          *)
CLook(cs, look) == LET s == AddLook(cs, look) IN Ref(s.cs, s.id, s.id)

(* c_concat: the parts in order (last to first when reversed), each end   *)
(* patched to the next part's start.                                       *)
ConcatLink(r, n) == IF Failed(n) THEN n ELSE Ref(Patch(n.cs, r.end, n.start), r.start, n.end)

CConcat(cs, es) ==
  LET order == IF IsReverse(cs) THEN Reverse(es) ELSE es
      RECURSIVE Rest(_, _)
      Rest(r, k) == IF k > Len(order) \/ r.cs.err # "none" THEN r
                    ELSE Rest(ConcatLink(r, C(r.cs, order[k])), k + 1)
  IN IF es = <<>> THEN CEmpty(cs) ELSE Rest(C(cs, order[1]), 2)

CExactly(cs, e, n) == CConcat(cs, [i \in 1..n |-> e])

(* c_group: Capture states around the body, unless captures are off or   *)
(* the group does not capture.                                             *)
GroupClose(s, inner, capi) ==
  IF Failed(inner) THEN inner ELSE
  LET t == AddCaptureEnd(inner.cs, capi)
  IN Ref(Patch(Patch(t.cs, s.id, inner.start), inner.end, t.id), s.id, t.id)

CGroup(cs, gkind, capi, e) ==
  IF ~GetCaptures(cs.config) \/ gkind = "NonCapturing" THEN C(cs, e)
  ELSE LET s == AddCaptureStart(cs, capi) IN GroupClose(s, C(s.cs, e), capi)

(* The closure of Compiler::compile for pattern `pid`: capture group 0    *)
(* around it, then its Match state.                                        *)
PatternClose(one, pid) ==
  IF Failed(one) THEN one ELSE
  LET m == AddMatch(one.cs, pid, one.start)
  IN Ref(Patch(m.cs, one.end, m.id), one.start, m.id)

CPattern(cs, pid, e) == PatternClose(CGroup(cs, "CaptureIndex", 0, e), pid)

(* Part k of an alternation: pattern k - 1 in "pattern" mode, else the    *)
(* sub-expression itself.                                                  *)
CElem(cs, mode, k, e) ==
  IF mode = "pattern" THEN CPattern(cs, k - 1, e) ELSE C(cs, e)

(* c_alternation over the parts `es`; `mode` "pattern" is the closure of  *)
(* Compiler::compile, which wraps part k as pattern k - 1 (CElem).  The   *)
(* union and the join state are added after the second part is compiled; *)
(* each part is then hung between them (AltLink).                          *)
AltLink(cs, union, join, x) == Patch(Patch(cs, union, x.start), x.end, join)

AltOpen(first, second) ==
  IF Failed(second) THEN second ELSE
  LET u    == AddUnion(second.cs)
      join == AddEmpty(u.cs)
  IN Ref(AltLink(AltLink(join.cs, u.id, join.id, first), u.id, join.id, second), u.id, join.id)

AltNext(r, x) == IF Failed(x) THEN x ELSE Ref(AltLink(x.cs, r.start, r.end, x), r.start, r.end)

CAlternation(cs, es, mode) ==
  LET RECURSIVE Rest(_, _)
      Rest(r, k) == IF k > Len(es) \/ r.cs.err # "none" THEN r
                    ELSE Rest(AltNext(r, CElem(r.cs, mode, k, es[k])), k + 1)
      Open(first) == IF Len(es) = 1 \/ Failed(first) THEN first
                     ELSE Rest(AltOpen(first, CElem(first.cs, mode, 2, es[2])), 3)
  IN Open(CElem(cs, mode, 1, es[1]))

(* c_bounded: `min` copies, then max - min optional copies whose unions   *)
(* all fall back to one shared empty state.  A Ref's end is prev_end.     *)
BoundedLink(r, u, x, empty) ==
  IF Failed(x) THEN x ELSE Ref(Patch(Patch(Patch(x.cs, r.end, u.id), u.id, x.start), u.id, empty), r.start, x.end)

BoundedClose(loop, empty) == Ref(Patch(loop.cs, loop.end, empty), loop.start, empty)

CBounded(cs, e, greedy, min, max) ==
  LET RECURSIVE Loop(_, _, _)
      Loop(r, k, empty) ==
        IF k = 0 \/ r.cs.err # "none" THEN r
        ELSE LET u == AddUnionFor(r.cs, greedy)
             IN Loop(BoundedLink(r, u, C(u.cs, e), empty), k - 1, empty)
      Optional(prefix) ==
        LET empty == AddEmpty(prefix.cs)
        IN BoundedClose(Loop(Ref(empty.cs, prefix.start, prefix.end), max - min, empty.id),
                        empty.id)
      Close(prefix) == IF min = max \/ Failed(prefix) THEN prefix ELSE Optional(prefix)
  IN Close(CExactly(cs, e, min))

(* c_at_least.  n = 0 with a body that can match empty is compiled as    *)
(* (x+)? so that the preference order stays leftmost-first (StarNullable). *)
StarLink(u, x) == IF Failed(x) THEN x ELSE Ref(Patch(Patch(x.cs, u.id, x.start), x.end, u.id), u.id, u.id)

StarNullable(x, greedy) ==
  IF Failed(x) THEN x ELSE
  LET plus   == AddUnionFor(x.cs, greedy)
      looped == Patch(Patch(plus.cs, x.end, plus.id), plus.id, x.start)
      q      == AddUnionFor(looped, greedy)
      empty  == AddEmpty(q.cs)
  IN Ref(Patch(Patch(Patch(empty.cs, q.id, x.start), q.id, empty.id), plus.id, empty.id),
         q.id, empty.id)

PlusLink(x, greedy) ==
  IF Failed(x) THEN x ELSE
  LET u == AddUnionFor(x.cs, greedy)
  IN Ref(Patch(Patch(u.cs, x.end, u.id), u.id, x.start), x.start, u.id)

AtLeastClose(prefix, last, greedy) ==
  IF Failed(last) THEN last ELSE
  LET u == AddUnionFor(last.cs, greedy)
  IN Ref(Patch(Patch(Patch(u.cs, prefix.end, last.start), last.end, u.id), u.id, last.start),
         prefix.start, u.id)

(* c_at_least with x* always compiled as one union looping on x, the     *)
(* shape that puts the empty iteration of a nullable x ahead of the exit. *)
CAtLeastNaiveStar(cs, e, greedy, n) ==
  LET LastCopy(prefix) == IF Failed(prefix) THEN prefix
                          ELSE AtLeastClose(prefix, C(prefix.cs, e), greedy)
  IN CASE n = 0 -> LET u == AddUnionFor(cs, greedy) IN StarLink(u, C(u.cs, e))
       [] n = 1 -> PlusLink(C(cs, e), greedy)
       [] OTHER -> LastCopy(CExactly(cs, e, n - 1))

CAtLeast(cs, e, greedy, n) ==
  LET LastCopy(prefix) == IF Failed(prefix) THEN prefix
                          ELSE AtLeastClose(prefix, C(prefix.cs, e), greedy)
  IN CASE n = 0 /\ ~IsMatchEmpty(e) ->
            LET u == AddUnionFor(cs, greedy) IN StarLink(u, C(u.cs, e))
       [] n = 0 -> StarNullable(C(cs, e), greedy)
       [] n = 1 -> PlusLink(C(cs, e), greedy)
       [] OTHER -> LastCopy(CExactly(cs, e, n - 1))

(* c_zero_or_one.                                                          *)
OptClose(u, x) ==
  IF Failed(x) THEN x ELSE
  LET empty == AddEmpty(x.cs)
  IN Ref(Patch(Patch(Patch(empty.cs, u.id, x.start), u.id, empty.id), x.end, empty.id),
         u.id, empty.id)

CZeroOrOne(cs, e, greedy) ==
  LET u == AddUnionFor(cs, greedy) IN OptClose(u, C(u.cs, e))

CRepetition(cs, e) ==
  CASE e.rkind = "ZeroOrOne"  -> CZeroOrOne(cs, e.sub, e.greedy)
    [] e.rkind = "ZeroOrMore" -> CAtLeast(cs, e.sub, e.greedy, 0)
    [] e.rkind = "OneOrMore"  -> CAtLeast(cs, e.sub, e.greedy, 1)
    [] e.rkind = "Exactly"    -> CExactly(cs, e.sub, e.min)
    [] e.rkind = "AtLeast"    -> CAtLeast(cs, e.sub, e.greedy, e.min)
    [] e.rkind = "Bounded"    -> CBounded(cs, e.sub, e.greedy, e.min, e.max)

(* c_byte_class, and c_unicode_class for an all-ASCII class: one sparse   *)
(* state (a Range when there is a single range) into a fresh end state.   *)
(* A non-ASCII Unicode class goes through the UTF-8 compiler, which is not *)
(* modelled: C has no case for it.                                         *)
CByteClass(cs, rs) ==
  LET end == AddEmpty(cs)
      s   == AddSparse(end.cs, [i \in DOMAIN rs |-> [lo |-> rs[i].lo, hi |-> rs[i].hi,
                                                   next |-> end.id]])
  IN Ref(s.cs, s.id, end.id)

IsAllAscii(rs) == \A i \in DOMAIN rs : rs[i].hi <= 127

(* Compiler::c: the lowering of one Hir node.  After an error the code   *)
(* never calls it (the `?` of the add_* call before it returned first);   *)
(* here it then adds nothing.                                              *)
C(cs, e) ==
  CASE cs.err # "none"      -> Ref(cs, NoState, NoState)
    [] e.k = "Empty"        -> CEmpty(cs)
    [] e.k = "Char"         -> CConcat(cs, [i \in DOMAIN Utf8Encode(e.cp) |->
                                              HByte(Utf8Encode(e.cp)[i])])
    [] e.k = "Literal"      -> CRange(cs, e.byte, e.byte)
    [] e.k = "ClassBytes"   -> CByteClass(cs, e.ranges)
    [] e.k = "ClassUnicode" /\ IsAllAscii(e.ranges) -> CByteClass(cs, e.ranges)
    [] e.k \in {"Anchor", "WordBoundary"} -> CLook(cs, e.look)
    [] e.k = "Rep"          -> CRepetition(cs, e)
    [] e.k = "Group"        -> CGroup(cs, e.gkind, e.index, e.sub)
    [] e.k = "Concat"       -> CConcat(cs, e.subs)
    [] e.k = "Alt"          -> CAlternation(cs, e.subs, "expr")

(* c_unanchored_prefix_invalid_utf8: (?s-u:.)*? as c_at_least over the    *)
(* byte class [0-255].                                                     *)
CUnanchoredPrefixInvalidUtf8(cs) ==
  CAtLeast(cs, HClassBytes(<<[lo |-> 0, hi |-> 255]>>), FALSE, 0)
(***************************************************************************)
(* Compiler::finish: Empty states are dropped and every other CState      *)
(* becomes one final State, in ID order; a transition into an Empty state *)
(* is redirected along the chain of Empty states to the first non-empty    *)
(* one (the `empties` loop).  UnionReverse becomes a Union with its        *)
(* alternates reversed.  Each Match state finishes the current pattern, so *)
(* a Capture state belongs to the pattern of the next Match state; its     *)
(* absolute slot follows the NFA's slot layout (spec-modelled).           *)
(***************************************************************************)
RECURSIVE FollowEmpty(_, _)
FollowEmpty(b, sid) == IF b[sid + 1].kind = "Empty" THEN FollowEmpty(b, b[sid + 1].next) ELSE sid

Finish(cs, startAnchored, startUnanchored) ==
  LET b       == cs.states
      Ids     == 0..(Len(b) - 1)
      kind(j) == b[j + 1].kind
      idSeq   == [i \in 1..Len(b) |-> i - 1]
      kept    == SelectSeq(idSeq, LAMBDA j : kind(j) # "Empty")
      newId   == [j \in Ids |-> Cardinality({i \in 0..(j - 1) : kind(i) # "Empty"})]
      remap   == [j \in Ids |-> newId[FollowEmpty(b, j)]]
      pidOf   == [j \in Ids |-> Cardinality({i \in 0..(j - 1) : kind(i) = "Match"})]
      matches == SelectSeq(idSeq, LAMBDA j : kind(j) = "Match")
      groups(p) == LET capis == {b[j + 1].capi : j \in {i \in Ids : kind(i) = "CaptureStart" /\ pidOf[i] = p}}
                   IN IF capis = {} THEN 0 ELSE Max(capis) + 1
      base    == [p \in 1..Len(matches) |-> MapThenSumSet(LAMBDA q : 2 * groups(q), 0..(p - 2))]
      slot(j, isEnd) == base[pidOf[j] + 1] + 2 * b[j + 1].capi + (IF isEnd THEN 1 ELSE 0)
      alts(j) == [k \in DOMAIN b[j + 1].alts |-> remap[b[j + 1].alts[k]]]
      final(j) ==
        CASE kind(j) = "CaptureStart" -> CaptureState(slot(j, FALSE), remap[b[j + 1].next])
          [] kind(j) = "CaptureEnd"   -> CaptureState(slot(j, TRUE), remap[b[j + 1].next])
          [] kind(j) = "Range"  -> RangeState(b[j + 1].lo, b[j + 1].hi, remap[b[j + 1].next])
          [] kind(j) = "Sparse" -> SparseState([k \in DOMAIN b[j + 1].ranges |->
                                      [b[j + 1].ranges[k] EXCEPT !.next = remap[@]]])
          [] kind(j) = "Look"   -> LookState(b[j + 1].look, remap[b[j + 1].next])
          [] kind(j) = "Union"  -> UnionState(alts(j))
          [] kind(j) = "UnionReverse" -> UnionState(Reverse(alts(j)))
          [] kind(j) = "Match"  -> MatchState(b[j + 1].pid)
  IN [states          |-> [i \in DOMAIN kept |-> final(kept[i])],
      startAnchored   |-> remap[startAnchored],
      startUnanchored |-> remap[startUnanchored],
      startPattern    |-> [p \in DOMAIN matches |-> remap[b[matches[p] + 1].startId]],
      slotBase        |-> base,
      slotLen         |-> MapThenSumSet(LAMBDA q : 2 * groups(q), 0..(Len(matches) - 1))]

(* NFA::never_match (spec-modelled): a single Fail state.                  *)
NeverMatch == [states |-> <<FailState>>, startAnchored |-> 0, startUnanchored |-> 0,
               startPattern |-> <<>>, slotBase |-> <<>>, slotLen |-> 0]

(***************************************************************************)
(* Compiler::configure followed by Compiler::compile: the unanchored      *)
(* prefix (an empty state when every pattern is anchored), the patterns as *)
(* one alternation, the prefix patched to it, then finish.  The result is  *)
(* [ok |-> TRUE, nfa] or [ok |-> FALSE, err].  The UTF-8 prefix            *)
(* (c_unanchored_prefix_valid_utf8) needs the UTF-8 compiler, which is not *)
(* modelled, so `cfg.utf8` must be FALSE when a prefix is compiled.        *)
(***************************************************************************)
(* What finish's first trace! reports of the intermediate NFA: its number *)
(* of states and nfa_memory_usage.                                         *)
Intermediate(cs) == [states |-> Len(cs.states), bytes |-> NfaMemoryUsage(cs)]

(* compile handing finish's caller the start IDs of the intermediate     *)
(* states instead of the remapped ones.                                    *)
CompileDoneUnmapped(prefix, compiled) ==
  IF Failed(compiled) THEN [ok |-> FALSE, err |-> compiled.cs.err] ELSE
  LET wired == Patch(compiled.cs, prefix.end, compiled.start)
      nfa   == Finish(wired, compiled.start, prefix.start)
  IN IF wired.err # "none" THEN [ok |-> FALSE, err |-> wired.err]
     ELSE [ok |-> TRUE, nfa |-> [nfa EXCEPT !.startAnchored = compiled.start],
           intermediate |-> Intermediate(wired)]

CompileDone(prefix, compiled) ==
  IF Failed(compiled) THEN [ok |-> FALSE, err |-> compiled.cs.err] ELSE
  LET wired == Patch(compiled.cs, prefix.end, compiled.start)
  IN IF wired.err # "none" THEN [ok |-> FALSE, err |-> wired.err]
     ELSE [ok |-> TRUE, nfa |-> Finish(wired, compiled.start, prefix.start),
           intermediate |-> Intermediate(wired)]

CompilePatterns(prefix, exprs) ==
  IF Failed(prefix) THEN [ok |-> FALSE, err |-> prefix.cs.err] ELSE
  CompileDone(prefix, CAlternation(prefix.cs, exprs, "pattern"))

Compile(cfg, exprs) ==
  LET c0       == [config |-> cfg, states |-> <<>>, mem |-> 0, err |-> "none"]
      anchored == ~cfg.unanchoredPrefix \/ \A i \in DOMAIN exprs : IsAnchoredStart(exprs[i])
  IN CASE exprs = <<>>               -> [ok |-> TRUE, nfa |-> NeverMatch, intermediate |-> Intermediate(c0)]
       [] Len(exprs) > PatternIDLimit -> [ok |-> FALSE, err |-> "too_many_patterns"]
       [] anchored  -> CompilePatterns(CEmpty(c0), exprs)
       [] ~cfg.utf8 -> CompilePatterns(CUnanchoredPrefixInvalidUtf8(c0), exprs)
=============================================================================
