------------------------------- MODULE PikeVM -------------------------------
(***************************************************************************)
(* PikeVM::find_leftmost_at (regex-automata 0.2.0, nfa/thompson/pikevm.rs) *)
(* at the granularity of its loops: one action per iteration of the       *)
(* search loop, of the `for i in 0..clist.len()` step loop, of the         *)
(* epsilon-closure stack loop and of the epsilon_closure_step inner loop. *)
(*                                                                         *)
(* The search inputs (NFA, haystack, start and the Config's `anchored`)   *)
(* are variables fixed by Init and never changed; the caller's Captures   *)
(* are fresh (PikeVM::create_captures: every slot None);                   *)
(* `end` is the haystack length, the value every caller in the crate       *)
(* passes.  A Threads value is [set, caps]: `set` the SparseSet's          *)
(* insertion order, `caps` the per-state slot vectors, which `clear` does  *)
(* not reset.  The thread_caps slice a closure works on is copied into    *)
(* `tcaps` when the closure begins and written back to its owner           *)
(* (caps.slots for a seed, clist.caps(sid) for a step) when it ends; the   *)
(* closure never touches the owner by any other path, so this is exact.    *)
(***************************************************************************)
EXTENDS ThompsonNFA, SequencesExt

CONSTANTS
  Nfas,       \* the compiled NFAs searched
  Haystacks,  \* the haystacks searched
  Starts      \* the start positions

VARIABLES
  nfa, haystack, start, anchoredCfg,  \* the search inputs
  at,          \* the current position
  matchedPid,  \* matched_pid (NoPid for None)
  clist, nlist,
  slots,       \* caps.slots, the caller's Captures
  stack,       \* cache.stack of FollowEpsilon frames
  tcaps,       \* the thread_caps of the running epsilon closure
  cur,         \* the `sid` of the epsilon_closure_step loop
  cpos,        \* the `at` the running closure was called with
  ret,         \* who called the closure: "seed" or "step"
  i,           \* the index of the step loop (1-based)
  pc           \* "top", "closure", "cstep", "steps", "advance", "done"

inputs == <<nfa, haystack, start, anchoredCfg>>
vars == <<nfa, haystack, start, anchoredCfg, at, matchedPid, clist, nlist, slots,
          stack, tcaps, cur, cpos, ret, i, pc>>

NoPid == -1

(* Threads::new after Cache::clear: an empty set, every slot None.       *)
EmptyThreads(n) == [set |-> <<>>, caps |-> [sid \in StateIds(n) |-> NoSlots(n.slotLen)]]

SidFrame(sid) == [t |-> "sid", sid |-> sid]
CapFrame(slot, pos) == [t |-> "cap", slot |-> slot, pos |-> pos]

InSet(th, sid) == \E k \in DOMAIN th.set : th.set[k] = sid

(* `self.config.get_anchored() || self.nfa.is_always_start_anchored()`.  *)
Anchored == anchoredCfg \/ IsAlwaysStartAnchored(nfa)

(* The list the running closure inserts into: the seed closure fills       *)
(* clist, a step's closure fills nlist.                                     *)
Target == IF ret = "seed" THEN clist ELSE nlist
SetTarget(th) ==
  IF ret = "seed" THEN clist' = th /\ UNCHANGED nlist ELSE nlist' = th /\ UNCHANGED clist

(* The `self.epsilon_closure(list, thread_caps, stack, sid, haystack, pos)` *)
(* call: push the start state and enter the stack loop.                     *)
BeginClosure(caps, sid, pos, caller) ==
  /\ stack' = <<SidFrame(sid)>>
  /\ tcaps' = caps
  /\ cpos' = pos
  /\ ret' = caller
  /\ pc' = "closure"

Init ==
  /\ nfa \in Nfas /\ haystack \in Haystacks /\ anchoredCfg \in BOOLEAN
  /\ start \in Starts /\ start <= Len(haystack)
  /\ slots = NoSlots(nfa.slotLen)
  /\ at = start
  /\ matchedPid = NoPid
  /\ clist = EmptyThreads(nfa)
  /\ nlist = EmptyThreads(nfa)
  /\ stack = <<>>
  /\ tcaps = slots
  /\ cur = NoState
  /\ cpos = start
  /\ ret = "seed"
  /\ i = 1
  /\ pc = "top"

(***************************************************************************)
(* The search loop of find_leftmost_at.                                    *)
(***************************************************************************)
BreakCond == clist.set = <<>> /\ (matchedPid # NoPid \/ (Anchored /\ at > start))
SeedCond  == (~Anchored /\ matchedPid = NoPid) \/ clist.set = <<>>

Break ==
  /\ pc = "top" /\ BreakCond
  /\ pc' = "done"
  /\ UNCHANGED <<inputs, at, matchedPid, clist, nlist, slots, stack, tcaps, cur, cpos, ret, i>>

(* Add the closure of start_anchored at `at` to clist, lowest priority,   *)
(* with caps.slots as the thread's captures.                               *)
Seed ==
  /\ pc = "top" /\ ~BreakCond /\ SeedCond
  /\ BeginClosure(slots, nfa.startAnchored, at, "seed")
  /\ UNCHANGED <<inputs, at, matchedPid, clist, nlist, slots, cur, i>>

SkipSeed ==
  /\ pc = "top" /\ ~BreakCond /\ ~SeedCond
  /\ pc' = "steps" /\ i' = 1
  /\ UNCHANGED <<inputs, at, matchedPid, clist, nlist, slots, stack, tcaps, cur, cpos, ret>>

(***************************************************************************)
(* epsilon_closure: pop frames until the stack is empty.                  *)
(***************************************************************************)
ClosurePopState ==
  /\ pc = "closure" /\ stack # <<>> /\ Last(stack).t = "sid"
  /\ cur' = Last(stack).sid
  /\ stack' = Front(stack)
  /\ pc' = "cstep"
  /\ UNCHANGED <<inputs, at, matchedPid, clist, nlist, slots, tcaps, cpos, ret, i>>

(* FollowEpsilon::Capture: `thread_caps[slot] = pos`.                     *)
ClosureRestore ==
  /\ pc = "closure" /\ stack # <<>> /\ Last(stack).t = "cap"
  /\ tcaps' = [tcaps EXCEPT ![Last(stack).slot] = Last(stack).pos]
  /\ stack' = Front(stack)
  /\ UNCHANGED <<inputs, at, matchedPid, clist, nlist, slots, cur, cpos, ret, i, pc>>

(* The closure returns to its caller: the seed continues with the step   *)
(* loop from i = 0, a step's closure with the next i.                      *)
ClosureReturn ==
  /\ pc = "closure" /\ stack = <<>>
  /\ IF ret = "seed"
     THEN slots' = tcaps /\ i' = 1 /\ UNCHANGED clist
     ELSE clist' = [clist EXCEPT !.caps[clist.set[i]] = tcaps] /\ i' = i + 1
          /\ UNCHANGED slots
  /\ pc' = "steps"
  /\ UNCHANGED <<inputs, at, matchedPid, nlist, stack, tcaps, cur, cpos, ret>>

(***************************************************************************)
(* epsilon_closure_step: one iteration of its loop on state `cur`.        *)
(***************************************************************************)
CurState == StateOf(nfa, cur)

InsertCur == [Target EXCEPT !.set = Append(@, cur)]

(* `if !nlist.set.insert(sid) { return; }`                                *)
ClosureVisited ==
  /\ pc = "cstep" /\ InSet(Target, cur)
  /\ pc' = "closure"
  /\ UNCHANGED <<inputs, at, matchedPid, clist, nlist, slots, stack, tcaps, cur, cpos, ret, i>>

(* Fail, Range, Sparse, Match: the thread stops here with a copy of the  *)
(* captures.                                                               *)
ClosureTerminal ==
  /\ pc = "cstep" /\ ~InSet(Target, cur)
  /\ CurState.kind \in {"Fail", "Range", "Sparse", "Match"}
  /\ SetTarget([InsertCur EXCEPT !.caps[cur] = tcaps])
  /\ pc' = "closure"
  /\ UNCHANGED <<inputs, at, matchedPid, slots, stack, tcaps, cur, cpos, ret, i>>

ClosureLook ==
  /\ pc = "cstep" /\ ~InSet(Target, cur)
  /\ CurState.kind = "Look"
  /\ SetTarget(InsertCur)
  /\ IF LookMatches(CurState.look, haystack, cpos)
     THEN cur' = CurState.next /\ UNCHANGED pc
     ELSE pc' = "closure" /\ UNCHANGED cur
  /\ UNCHANGED <<inputs, at, matchedPid, slots, stack, tcaps, cpos, ret, i>>

(* Follow the first alternate now; push the others so the second is      *)
(* popped next.                                                             *)
ClosureUnion ==
  /\ pc = "cstep" /\ ~InSet(Target, cur)
  /\ CurState.kind = "Union"
  /\ SetTarget(InsertCur)
  /\ IF CurState.alts = <<>>
     THEN pc' = "closure" /\ UNCHANGED <<cur, stack>>
     ELSE LET rest == Reverse(Tail(CurState.alts))
          IN /\ cur' = CurState.alts[1]
             /\ stack' = stack \o [k \in DOMAIN rest |-> SidFrame(rest[k])]
             /\ UNCHANGED pc
  /\ UNCHANGED <<inputs, at, matchedPid, slots, tcaps, cpos, ret, i>>

(* Record the old slot value on the stack, then set the slot to `at`.    *)
(* The Capture step without the FollowEpsilon::Capture frame that undoes *)
(* its write.                                                              *)
ClosureCaptureNoRestore ==
  /\ pc = "cstep" /\ ~InSet(Target, cur)
  /\ CurState.kind = "Capture"
  /\ SetTarget(InsertCur)
  /\ IF CurState.slot \in DOMAIN tcaps
     THEN tcaps' = [tcaps EXCEPT ![CurState.slot] = cpos]
     ELSE UNCHANGED tcaps
  /\ cur' = CurState.next
  /\ UNCHANGED <<inputs, at, matchedPid, slots, stack, cpos, ret, i, pc>>

ClosureCapture ==
  /\ pc = "cstep" /\ ~InSet(Target, cur)
  /\ CurState.kind = "Capture"
  /\ SetTarget(InsertCur)
  /\ IF CurState.slot \in DOMAIN tcaps
     THEN /\ stack' = Append(stack, CapFrame(CurState.slot, tcaps[CurState.slot]))
          /\ tcaps' = [tcaps EXCEPT ![CurState.slot] = cpos]
     ELSE UNCHANGED <<stack, tcaps>>
  /\ cur' = CurState.next
  /\ UNCHANGED <<inputs, at, matchedPid, slots, cpos, ret, i, pc>>

(***************************************************************************)
(* The step loop: PikeVM::step on clist.set[i].                            *)
(***************************************************************************)
StepSid == clist.set[i]
StepState == StateOf(nfa, StepSid)

(* The state a byte transition of StepState leads to at `at`, if any.    *)
ByteNext ==
  CASE StepState.kind = "Range" ->
         IF RangeMatches(StepState, haystack, at) THEN StepState.next ELSE NoState
    [] StepState.kind = "Sparse" -> SparseNext(StepState.ranges, haystack, at)
    [] OTHER -> NoState

StepsDone ==
  /\ pc = "steps" /\ i > Len(clist.set)
  /\ pc' = "advance"
  /\ UNCHANGED <<inputs, at, matchedPid, clist, nlist, slots, stack, tcaps, cur, cpos, ret, i>>

(* Fail, Look, Union, Capture, or a byte transition that does not match:  *)
(* `None => continue`.                                                      *)
StepNoMatch ==
  /\ pc = "steps" /\ i <= Len(clist.set)
  /\ StepState.kind # "Match" /\ ByteNext = NoState
  /\ i' = i + 1
  /\ UNCHANGED <<inputs, at, matchedPid, clist, nlist, slots, stack, tcaps, cur, cpos, ret, pc>>

(* A matching Range or Sparse: the closure of its target at at + 1 into  *)
(* nlist, with the thread's captures.                                      *)
StepByte ==
  /\ pc = "steps" /\ i <= Len(clist.set)
  /\ ByteNext # NoState
  /\ BeginClosure(clist.caps[StepSid], ByteNext, at + 1, "step")
  /\ UNCHANGED <<inputs, at, matchedPid, clist, nlist, slots, cur, i>>

(* A Match: `slots.copy_from_slice(thread_caps)`, record the pattern, and *)
(* break out of the step loop, dropping every lower-priority thread.       *)
(* A Match that records the pattern but, lacking the `break`, lets the    *)
(* step loop go on with the lower-priority threads.                        *)
StepMatchNoBreak ==
  /\ pc = "steps" /\ i <= Len(clist.set)
  /\ StepState.kind = "Match"
  /\ slots' = clist.caps[StepSid]
  /\ matchedPid' = StepState.pid
  /\ i' = i + 1
  /\ UNCHANGED <<inputs, at, clist, nlist, stack, tcaps, cur, cpos, ret, pc>>

StepMatch ==
  /\ pc = "steps" /\ i <= Len(clist.set)
  /\ StepState.kind = "Match"
  /\ slots' = clist.caps[StepSid]
  /\ matchedPid' = StepState.pid
  /\ pc' = "advance"
  /\ UNCHANGED <<inputs, at, clist, nlist, stack, tcaps, cur, cpos, ret, i>>

(***************************************************************************)
(* The end of a search-loop iteration.                                     *)
(***************************************************************************)
EndOfInput ==
  /\ pc = "advance" /\ at >= Len(haystack)
  /\ pc' = "done"
  /\ UNCHANGED <<inputs, at, matchedPid, clist, nlist, slots, stack, tcaps, cur, cpos, ret, i>>

(* `at += 1; cache.swap(); cache.nlist.set.clear();`                       *)
(* The advance guard written `at <= end`.                                 *)
AdvancePastEnd ==
  /\ pc = "advance" /\ at <= Len(haystack)
  /\ at' = at + 1
  /\ clist' = nlist
  /\ nlist' = [clist EXCEPT !.set = <<>>]
  /\ pc' = "top"
  /\ UNCHANGED <<inputs, matchedPid, slots, stack, tcaps, cur, cpos, ret, i>>

(* The advance with `at += 1` left out.                                  *)
AdvanceNoStep ==
  /\ pc = "advance" /\ at < Len(haystack)
  /\ clist' = nlist
  /\ nlist' = [clist EXCEPT !.set = <<>>]
  /\ pc' = "top"
  /\ UNCHANGED <<inputs, at, matchedPid, slots, stack, tcaps, cur, cpos, ret, i>>

Advance ==
  /\ pc = "advance" /\ at < Len(haystack)
  /\ at' = at + 1
  /\ clist' = nlist
  /\ nlist' = [clist EXCEPT !.set = <<>>]
  /\ pc' = "top"
  /\ UNCHANGED <<inputs, matchedPid, slots, stack, tcaps, cur, cpos, ret, i>>

Next ==
  \/ Break \/ Seed \/ SkipSeed
  \/ ClosurePopState \/ ClosureRestore \/ ClosureReturn
  \/ ClosureVisited \/ ClosureTerminal \/ ClosureLook \/ ClosureUnion \/ ClosureCapture
  \/ StepsDone \/ StepNoMatch \/ StepByte \/ StepMatch
  \/ EndOfInput \/ Advance

(* The search is a deterministic computation that the caller runs to its *)
(* end: nothing in it blocks or waits, so every enabled step is taken.    *)
Spec == Init /\ [][Next]_vars /\ WF_vars(Next)

(***************************************************************************)
(* The value find_leftmost_at returns once pc = "done": None, or the      *)
(* pattern and the group-0 slots of caps.slots, unwrapped (a None there   *)
(* would panic).  The caller also sees every slot of caps.slots.          *)
(***************************************************************************)
Outcome ==
  LET base == nfa.slotBase[matchedPid + 1]
  IN CASE matchedPid = NoPid -> [found |-> FALSE]
       [] {base, base + 1} \subseteq DOMAIN slots
          /\ slots[base] # NoSlot /\ slots[base + 1] # NoSlot ->
            [found |-> TRUE, pid |-> matchedPid, start |-> slots[base],
             end |-> slots[base + 1], caps |-> slots]
       [] OTHER -> [found |-> TRUE, panic |-> TRUE]
=============================================================================
