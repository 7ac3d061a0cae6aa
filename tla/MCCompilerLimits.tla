-------------------------- MODULE MCCompilerLimits --------------------------
(***************************************************************************)
(* Model checking of the Thompson compiler's two limits: StateID::LIMIT,   *)
(* checked by add_state before it pushes a state, and nfa_size_limit,      *)
(* checked after add_state pushes and after patch grows a union.  TLC     *)
(* picks a list of patterns, a configuration with a size limit and a      *)
(* StateID limit; one step compiles them under no limit, the next under   *)
(* the limits, and the invariant compares the two results.                *)
(***************************************************************************)
EXTENDS RegexPatterns

CONSTANTS
  StateLimits,  \* the values of StateID::LIMIT tried ...
  SizeLimits    \* ... and of nfa_size_limit

(* The compiler under StateID::LIMIT = L.                                 *)
Limited(L) == INSTANCE ThompsonCompiler WITH StateIDLimit <- L

VARIABLES
  exprs,    \* the patterns handed to Compiler::compile
  cfg,      \* the thompson::Config in force, its nfa_size_limit included
  limit,    \* StateID::LIMIT
  results   \* the Results of compile: first under no limit, then under the limits

vars == <<exprs, cfg, limit, results>>

(* The pattern lists: every tree of depth one, the tricky ones and pairs; *)
(* depth one already has every method that adds states or grows a union. *)
LimitPatternLists ==
  {<<e>> : e \in Depth1 \cup Tricky} \cup {<<x, y>> : x \in Depth1, y \in {LitA, HEmpty}}

Configs ==
  [reverse : {FALSE}, utf8 : {FALSE}, captures : BOOLEAN,
   unanchoredPrefix : BOOLEAN, sizeLimit : {<<>>} \cup {<<n>> : n \in SizeLimits}]

(* The compilations to run: the reference under no limit (StateIDLimit of *)
(* this module is far off, and no size limit), then the one under test.   *)
Jobs ==
  <<[limit |-> StateIDLimit, cfg |-> [cfg EXCEPT !.sizeLimit = <<>>]],
    [limit |-> limit, cfg |-> cfg]>>

Init ==
  /\ exprs \in LimitPatternLists
  /\ cfg \in Configs
  /\ limit \in StateLimits
  /\ results = <<>>

CompileStep ==
  /\ Len(results) < Len(Jobs)
  /\ LET job == Jobs[Len(results) + 1]
     IN results' = Append(results, Limited(job.limit)!Compile(job.cfg, exprs))
  /\ UNCHANGED <<exprs, cfg, limit>>

Spec == Init /\ [][CompileStep]_vars

(***************************************************************************)
(* Properties.                                                             *)
(***************************************************************************)
(* The limits only abort: compile fails exactly when the intermediate NFA *)
(* the unlimited compilation builds has more states than StateID::LIMIT  *)
(* or more bytes (nfa_memory_usage) than nfa_size_limit; when it succeeds *)
(* it returns the unlimited NFA; and when only one limit is exceeded, the *)
(* error names that limit.  States and heap only grow during compilation,*)
(* so this holds exactly when every growth is checked: by add_state,      *)
(* before pushing for the ID and after for the size, and by patch when a  *)
(* union gains an alternate.                                               *)
LimitsOnlyAbort ==
  Len(results) = Len(Jobs) =>
    LET u == results[1]
        result == results[2]
        fitsStates == u.intermediate.states <= limit
        fitsSize == cfg.sizeLimit = <<>> \/ u.intermediate.bytes <= cfg.sizeLimit[1]
    IN /\ u.ok
       /\ result.ok <=> fitsStates /\ fitsSize
       /\ result.ok => result.nfa = u.nfa
       /\ ~fitsStates /\ fitsSize => result.err = "too_many_states"
       /\ fitsStates /\ ~fitsSize => result.err = "exceeded_size_limit"
=============================================================================
