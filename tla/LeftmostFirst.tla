---------------------------- MODULE LeftmostFirst ----------------------------
(***************************************************************************)
(* Two reference definitions of a leftmost-first search, against which the *)
(* compiler and the PikeVM are checked.                                    *)
(*                                                                         *)
(*  - HirEnds: the backtracking meaning of a regex tree (Hir), the         *)
(*    semantics regex-automata promises for MatchKind::LeftmostFirst: the  *)
(*    end positions a Perl-style backtracker reaches, in the order it      *)
(*    reaches them.  An optional iteration of a repetition that matches    *)
(*    the empty string ends the repetition (the rule the `(x+)?` form of   *)
(*    c_at_least exists to preserve).                                      *)
(*                                                                         *)
(*  - Backtrack: a depth-first search of a compiled NFA that remembers the *)
(*    (state, position) pairs it has tried, the bounded-backtracking       *)
(*    search whose answer a PikeVM must reproduce, captures included.      *)
(***************************************************************************)
EXTENDS ThompsonCompiler

(***************************************************************************)
(* The Hir reference.                                                      *)
(***************************************************************************)
RECURSIVE HirEnds(_, _, _), ConcatEnds(_, _, _, _), AltEnds(_, _, _, _),
          OptEnds(_, _, _, _, _), RepEnds(_, _, _, _)

(* Does the byte string `bs` occur in `h` at position `i`?                 *)
BytesAt(bs, h, i) ==
  i + Len(bs) <= Len(h) /\ \A k \in 1..Len(bs) : h[i + k] = bs[k]

InRanges(rs, h, i) ==
  i < Len(h) /\ \E k \in DOMAIN rs : rs[k].lo <= h[i + 1] /\ h[i + 1] <= rs[k].hi

HirEnds(e, h, i) ==
  CASE e.k = "Empty"   -> <<i>>
    [] e.k = "Literal" -> IF BytesAt(<<e.byte>>, h, i) THEN <<i + 1>> ELSE <<>>
    [] e.k = "Char"    -> IF BytesAt(Utf8Encode(e.cp), h, i)
                          THEN <<i + Len(Utf8Encode(e.cp))>> ELSE <<>>
    [] e.k \in {"ClassBytes", "ClassUnicode"} ->
                          IF InRanges(e.ranges, h, i) THEN <<i + 1>> ELSE <<>>
    [] e.k \in {"Anchor", "WordBoundary"} ->
                          IF LookMatches(e.look, h, i) THEN <<i>> ELSE <<>>
    [] e.k = "Group"   -> HirEnds(e.sub, h, i)
    [] e.k = "Concat"  -> ConcatEnds(e.subs, 1, h, i)
    [] e.k = "Alt"     -> AltEnds(e.subs, 1, h, i)
    [] e.k = "Rep"     -> RepEnds(e, 0, h, i)

ConcatEnds(subs, k, h, i) ==
  IF k > Len(subs) THEN <<i>>
  ELSE LET js == HirEnds(subs[k], h, i)
       IN FlattenSeq([n \in DOMAIN js |-> ConcatEnds(subs, k + 1, h, js[n])])

AltEnds(subs, k, h, i) ==
  IF k > Len(subs) THEN <<>> ELSE HirEnds(subs[k], h, i) \o AltEnds(subs, k + 1, h, i)

(* The bounds of a repetition: min and max (-1 for unbounded).             *)
RepMin(e) == CASE e.rkind \in {"ZeroOrOne", "ZeroOrMore"} -> 0
               [] e.rkind = "OneOrMore" -> 1
               [] OTHER -> e.min
RepMax(e) == CASE e.rkind = "ZeroOrOne" -> 1
               [] e.rkind \in {"ZeroOrMore", "OneOrMore", "AtLeast"} -> -1
               [] OTHER -> e.min + (IF e.rkind = "Bounded" THEN e.max - e.min ELSE 0)

(* `done` mandatory iterations have been matched; the rest are taken     *)
(* unconditionally, then the optional ones by OptEnds.                     *)
RepEnds(e, done, h, i) ==
  IF done < RepMin(e)
  THEN LET js == HirEnds(e.sub, h, i)
       IN FlattenSeq([n \in DOMAIN js |-> RepEnds(e, done + 1, h, js[n])])
  ELSE OptEnds(e.sub, e.greedy,
               IF RepMax(e) = -1 THEN -1 ELSE RepMax(e) - RepMin(e), h, i)

(* `left` more optional iterations are allowed (-1: any number).          *)
OptEnds(x, greedy, left, h, i) ==
  IF left = 0 THEN <<i>>
  ELSE LET js   == HirEnds(x, h, i)
           iter == FlattenSeq([n \in DOMAIN js |->
                     IF js[n] = i THEN <<i>>
                     ELSE OptEnds(x, greedy, IF left = -1 THEN -1 ELSE left - 1, h, js[n])])
       IN IF greedy THEN iter \o <<i>> ELSE <<i>> \o iter

NoMatch == [found |-> FALSE]

(* The leftmost-first match of the patterns `exprs` in `h` at or after    *)
(* `start` (only at `start` when anchored): the least start with a match, *)
(* and there the first end of the first pattern that has one.             *)
RECURSIVE HirFindAt(_, _, _, _, _)
HirFindAt(exprs, h, s, anchored, pid) ==
  CASE s > Len(h) \/ (anchored /\ pid > Len(exprs)) -> NoMatch
    [] pid > Len(exprs) -> HirFindAt(exprs, h, s + 1, anchored, 1)
    [] HirEnds(exprs[pid], h, s) # <<>> ->
         [found |-> TRUE, pid |-> pid - 1, start |-> s, end |-> HirEnds(exprs[pid], h, s)[1]]
    [] OTHER -> HirFindAt(exprs, h, s, anchored, pid + 1)

HirFind(exprs, h, start, anchored) == HirFindAt(exprs, h, start, anchored, 1)

(***************************************************************************)
(* The NFA reference: depth-first search over frames [sid, at, caps] with *)
(* the set of (sid, at) pairs already tried.  A Union pushes its           *)
(* alternates last-first so the first is tried first; a Capture sets its  *)
(* slot in the frame it pushes.  The first Match reached is the answer.   *)
(***************************************************************************)
Frame(sid, at, caps) == [sid |-> sid, at |-> at, caps |-> caps]

RECURSIVE Backtrack(_, _, _, _)
Backtrack(nfa, h, stack, visited) ==
  IF stack = <<>> THEN [found |-> FALSE, visited |-> visited]
  ELSE
    LET f    == Last(stack)
        rest == Front(stack)
        s    == StateOf(nfa, f.sid)
        seen == visited \cup {<<f.sid, f.at>>}
        push(fs) == Backtrack(nfa, h, rest \o fs, seen)
    IN CASE <<f.sid, f.at>> \in visited -> Backtrack(nfa, h, rest, visited)
         [] s.kind = "Match" ->
              [found |-> TRUE, pid |-> s.pid, end |-> f.at, caps |-> f.caps, visited |-> seen]
         [] s.kind = "Range" ->
              push(IF RangeMatches(s, h, f.at) THEN <<Frame(s.next, f.at + 1, f.caps)>> ELSE <<>>)
         [] s.kind = "Sparse" ->
              LET nx == SparseNext(s.ranges, h, f.at)
              IN push(IF nx # NoState THEN <<Frame(nx, f.at + 1, f.caps)>> ELSE <<>>)
         [] s.kind = "Look" ->
              push(IF LookMatches(s.look, h, f.at) THEN <<Frame(s.next, f.at, f.caps)>> ELSE <<>>)
         [] s.kind = "Union" ->
              push([k \in DOMAIN s.alts |-> Frame(Reverse(s.alts)[k], f.at, f.caps)])
         [] s.kind = "Capture" ->
              push(<<Frame(s.next, f.at,
                           IF s.slot \in DOMAIN f.caps THEN [f.caps EXCEPT ![s.slot] = f.at]
                           ELSE f.caps)>>)
         [] s.kind = "Fail" -> push(<<>>)

(* Try the start positions `from`..`to` in order from state `sid`,         *)
(* keeping the tried pairs across starts (a pair that failed from one     *)
(* start fails from every later one).                                     *)
RECURSIVE BacktrackFrom(_, _, _, _, _, _)
BacktrackFrom(nfa, h, sid, from, to, visited) ==
  IF from > to THEN [found |-> FALSE]
  ELSE LET r == Backtrack(nfa, h, <<Frame(sid, from, NoSlots(nfa.slotLen))>>, visited)
       IN IF r.found THEN [found |-> TRUE, pid |-> r.pid, start |-> from, end |-> r.end,
                           caps |-> r.caps]
          ELSE BacktrackFrom(nfa, h, sid, from + 1, to, r.visited)

(* The NFA's leftmost-first answer for a search of h[start..] from state  *)
(* `sid`: [found, pid, start, end, caps], or [found |-> FALSE].           *)
NfaFind(nfa, h, sid, start, anchored) ==
  BacktrackFrom(nfa, h, sid, start, IF anchored THEN start ELSE Len(h), {})
=============================================================================
