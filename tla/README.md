# Model checking of the regex-automata Thompson NFA and PikeVM

This directory holds TLA+ modules and TLC configurations for the source slice of
this repository. The core of the slice is `regex-automata` 0.2.0 as vendored
under `src/compiler/vendor/regex-automata-0.2.0`. It has two parts:

* the Thompson compiler, `nfa/thompson/compiler.rs`, which lowers a regex tree
  (regex-syntax's `Hir`) to an NFA;
* the PikeVM, `nfa/thompson/pikevm.rs`, which runs that NFA over a haystack
  and reports the leftmost-first match with its capture slots.

The slice also contains small unrelated crates. Two algorithms of one of them,
gsgdt (the graph diff behind rustc's MIR graphviz diffs), are modelled as
well: the Levenshtein distance, the BFS distances of `DiffGraph::new`, and
the matching of two graphs (`match_graphs`) that `visualize_diff` draws.
So are the encoder and decoder of the punycode crate.
Two rustc files are modelled too:

* the `text_direction_codepoint_in_literal` lint, in
  `rustc_lint/src/hidden_unicode_codepoints.rs`;
* `Bounds::predicates`, in `rustc_hir_analysis/src/bounds.rs`.

The inventory lists the rest with the reason they are not modelled.

## Inventory

| Part | Source | Status |
|------|--------|--------|
| Thompson compiler | `regex-automata-0.2.0/src/nfa/thompson/compiler.rs` | partly: everything but the UTF-8 compiler |
| PikeVM | `regex-automata-0.2.0/src/nfa/thompson/pikevm.rs` | partly: `find_leftmost_at` with its closures; the iterator is not modelled yet |
| Syntax config | `regex-automata-0.2.0/src/util/syntax.rs` | not modelled: flags only |
| punycode | `punycode-0.4.1/src/lib.rs` | modelled: `encode`, `decode` and their helpers |
| punycode test programs | `punycode-0.4.1/src/bin/*` | not modelled: stdin/stdout around `encode` and `decode` |
| ar archive writer | `ar_archive_writer-0.1.2/src/*` | not modelled: byte layout and I/O |
| gsgdt levenshtein | `gsgdt-0.1.2/src/levenshtein.rs` | modelled |
| gsgdt DiffGraph and matching | `gsgdt-0.1.2/src/diff/diff_graph.rs`, `match_graph.rs`, `diff.rs` | modelled: `DiffGraph::new`, `match_graphs` and its helpers, `visualize_diff`'s node styles |
| gsgdt graph, node and output | `graph.rs`, `node.rs`, `multi_graph.rs`, `util.rs` | partly: `adj_list`, `rev_adj_list`, `Node::stmts`; the rest is Graphviz and serde output |
| rustc lint `HiddenUnicodeCodepoints` | `rustc_lint/src/hidden_unicode_codepoints.rs` | modelled (the lint declarations and wording left out) |
| rustc `Bounds` | `rustc_hir_analysis/src/bounds.rs` | modelled |
| rustc `flock` | `rustc_data_structures/src/flock.rs` | not modelled: a `cfg_if` choice of a platform module, whose code (OS file locks) is not in the slice; no state of its own |
| armebv7r target spec | `rustc_target/src/spec/armebv7r_none_eabihf.rs` | not modelled: a constant |

`PROJECT.json` lists every component, the runs, the mutants, the map from each
definition to the lines it models, and the hazards.

### How the two core parts interact

`Compiler::compile` builds an NFA with these parts:

* one pattern per input `Hir`, each wrapped in capture group 0 and ended by a
  `Match` state;
* all patterns joined in one alternation;
* an unanchored prefix, the lazy `(?s-u:.)*?`, in front when some pattern is
  not anchored.

The compiler first builds intermediate `CState`s. `finish` then drops the
`Empty` states and remaps every ID. The PikeVM consumes the finished NFA:

* `find_leftmost_at` keeps two thread lists, `clist` and `nlist`;
* it seeds `clist` from `start_anchored` at each position;
* it follows byte transitions one position at a time;
* epsilon closures follow `Union`, `Look` and `Capture` states depth-first, on
  an explicit stack.

The order of threads in a list is the match priority.

## Modules

* **ThompsonNFA**: the vocabulary of a finished NFA.
  * It holds the State variants, `Transition::matches`, the look-around
    assertions and the capture-slot layout.
  * The NFA type lives in `nfa/thompson/mod.rs`, which is outside the slice,
    so most of this module is modelled from the documented behaviour.
    `PROJECT.json` marks those definitions `spec_modelled`.
* **ThompsonCompiler**: the compiler as pure operators over a record
  `cs = [config, states, mem, err]`, which stands for the `Compiler` struct.
  * Each `c_*` method is an operator that returns `Ref(cs, start, end)`, the
    `ThompsonRef` together with the updated compiler state.
  * Statement order is kept exactly, because it fixes the state IDs.
  * The code continues a method after a recursive call. The model splits that
    continuation into its own operator, which receives the callee's Ref, e.g.
    `GroupClose` for the tail of `c_group` or `StarNullable` for the `(x+)?`
    branch of `c_at_least`.
  * The `?` early return is modelled by `err`. After the first error,
    `add_state` and `patch` change nothing. Each continuation tests `Failed`
    first, so `compile` returns `Err(first error)` as the code does.
  * `add_state` checks `StateID::LIMIT` before pushing and the size limit
    after. `size_limit` is an `Option<usize>`, modelled as `<<>>` or `<<n>>`. `patch` re-checks the size limit when a union grows. Patching a
    `Sparse` state is the panic; no `c_*` method returns a `Sparse` end, so
    that arm is unreachable, in the code as in the model.
  * `finish` is one operator. It drops `Empty` states, follows chains of
    `Empty` states for the remap, reverses `UnionReverse` alternates and
    assigns the capture slots per pattern.
* **RegexPatterns**: the `Hir` trees fed to the compiler:
  * every tree of depth two over a few atoms;
  * trees with capture groups, looks and multiple patterns;
  * trees chosen because they separate a correct compiler from a plausible
    wrong one, e.g. a nullable body under a star.
* **LeftmostFirst**: two reference semantics, written independently of the
  code.
  * `HirFind` is the leftmost-first meaning of a list of `Hir` patterns, the
    first match a priority-ordered backtracking matcher finds.
  * `NfaFind` is the same priority-ordered backtracking search over a
    finished NFA, capture slots included.
* **LeftmostSearch**: the abstract specification of a search. One atomic
  `Search` step answers `NfaFind` from `start_anchored`, retrying later starts
  when the search is unanchored.
* **PikeVM**: `find_leftmost_at` at the granularity of its loops.
  * There is one action per iteration of:
    * the search loop: `Break`, `Seed`, `SkipSeed`, `EndOfInput`, `Advance`;
    * the step loop: `StepsDone`, `StepNoMatch`, `StepByte`, `StepMatch`;
    * the closure's stack loop: `ClosurePopState`, `ClosureRestore`,
      `ClosureReturn`;
    * `epsilon_closure_step`'s inner loop: `ClosureVisited`,
      `ClosureTerminal`, `ClosureLook`, `ClosureUnion`, `ClosureCapture`.
  * `pc` records which loop is running. `ret` records who called the running
    closure.
  * `tcaps` is the `thread_caps` slice the closure works on. It is copied from
    its owner when the closure begins and written back when it ends. The owner
    is `caps.slots` for a seed and `clist.caps(sid)` for a step.
* **Levenshtein**: `levenshtein::distance`.
  * One action per early return (`EmptyFirst`, `EmptySecond`), for the
    recursive call with swapped arguments (`Swap`), for building the column
    (`Begin`), and per iteration of the outer (`Outer`, `OuterDone`) and inner
    (`Inner`, `InnerDone`) loops.
  * `col` is the column, a function on `0..l_v1`. `lastDiag` is `last_diag`.
  * `EditDistance` (module **EditDistances**) is the reference: the recursive
    definition of edit distance (insert, delete or substitute the first
    char).
* **GsgdtGraph**: `Graph::adj_list` and `Graph::rev_adj_list`.
  * A graph is a record of its node labels and its edges, both in Vec order,
    and of each node's statements. A statement is one char, so a node's
    joined statements are the sequence of its statements.
  * The adjacency lists keep the Vec order of the edges, which is the order
    in which the BFS visits neighbours and `match_graphs` visits parents.
* **DiffGraph**: `DiffGraph::new`.
  * `get_source_labels` iterates a HashMap, so `BeginBfs` seeds the queue with
    the sources in any order.
  * One action per iteration of the queue loop (`Pop`) and of the neighbour
    loop (`VisitNew`, `VisitSeen`, `NbrsDone`). `BfsDone` ends one of the two
    calls: first `dist_start` over the reversed lists, then `dist_end`.
  * `ShortestDist` is the reference: the shortest path to each node from the
    sources, over every path up to the number of nodes.
* **HiddenUnicodeCodepoints**: the early lint pass.
  * A char is its code point and a text the sequence of its chars. So
    `char_indices` (`ByteIndex`), `len_utf8` (`LenUtf8`) and `{:?}` of a char
    (`DebugChar`) are computed as the code computes them.
  * A node is `[kind, hashes, text, lo]`: the literal kind, a doc comment or
    another expression or attribute, the hashes of a raw string, the symbol
    and the span's start. `Render` puts the delimiters back, which gives the
    span.
  * One action per path through `check_attribute` (`CheckAttribute`,
    `CheckAttributeNoLint`) and `check_expr` (`CheckExprLit`,
    `CheckExprClean`, `CheckExprOtherLitKind`, `CheckExprNotLit`).
  * `LintTextDirectionCodepoint` is the diagnostic the lint closure builds:
    the labelled inner spans, the removal and escape suggestions and the
    escaped list.
* **Bounds**: the `Bounds` struct and `Bounds::predicates`. Types, regions,
  traits and spans are model values. A predicate is a record tagged by its
  kind. `CollectPredicates` collects the iterator. No run checks this
  module: `predicates` is a straight-line chain of four `map`s with no loop,
  state or branch to explore, so any property of it would restate its
  definition.
* **MatchGraph**: `match_graphs` with `get_initial_mapping`, `select`,
  `dist_bw_nodes` and `get_new_matches`, and `visualize_diff`'s styles.
  * A `DiffGraph` is a record of the graph and its two distance maps. A
    `BTreeMap` is a function iterated in `LabelRank` order.
  * `select` and `dist_bw_nodes` are operators. `select` returns the first
    label of least cost, "none", or "panic" when a distance index misses.
    `distance` is `EditDistance`, which the levenshtein run shows it
    computes.
  * One action per node of `get_initial_mapping` (`InitialNode`), for
    building the Full matches (`InitialDone`), per entry of `prev_mapping`
    (`Entry`), per parent (`Parent`, `ParentsDone`) and per merge (`Merge`).
  * `matches` is a set, because `visualize_diff` only puts it into
    HashSets. `Style1` and `Style2` are the node styles it picks.
  * `MCDiffGraph` instantiates it (`INSTANCE ... WITH`) after
    `DiffGraph::new`. The BFS's DiffGraph is matched against itself, against
    a copy with edited statements, and against a chain of the same blocks.
* **Punycode**, **PunycodeEncode**, **PunycodeDecode**: the punycode crate.
  * `Punycode` holds the constants and the helpers: `adapt` (its while
    loop as the RECURSIVE `AdaptLoop`), `clamped_sub`, `decode_digit`,
    `encode_digit` and `char::from_u32` (`IsChar`).
  * A char is its code point. u32 arithmetic is exact up to the constant
    `U32Max`, which stands for `std::u32::MAX`. TLC's integers stop below
    2^31, so the runs use 16 and 8 bits: the same comparisons against a
    smaller maximum.
  * `PunycodeEncode` has one action per iteration of `encode_slice`'s
    loops: the outer `while` (`NextCodePoint`, `Finish`), the
    `for c in input` (`CharBelow`, `CharAbove`, `CharEqual`, `EndOfChars`)
    and the digit loop (`Digit`). `Begin(s)` is the call.
  * `PunycodeDecode` has one action per iteration of `decode`'s loops:
    `Outer`, `Digit` and `Insert`. `Begin(s)` is the call, with the ASCII
    test and the split at the last `-`.
  * `MCPunycode` composes them by two `INSTANCE ... WITH` substitutions:
    either a string is encoded and, once encode returns `Ok`, its output is
    decoded, or an arbitrary string is decoded on its own.
* **MCCompiler**, **MCCompilerLimits**, **MCPikeVM**, **MCLevenshtein**,
  **MCDiffGraph** and **MCHiddenUnicodeCodepoints** instantiate
  the above for TLC.
  * `MCCompilerLimits` instantiates the compiler once per state limit
    (`Limited(L) == INSTANCE ThompsonCompiler WITH StateIDLimit <- L`).
  * `MCPikeVM` takes `Captures`, the `captures` option of the compiler
    configuration the PikeVM's NFA is built with.

## Runs

| Run | Properties | What it shows |
|-----|------------|---------------|
| `compiler_meaning` (MCCompiler.cfg) | `TypeOK`, `CompiledMeaningAgrees` | See below. |
| `pikevm_refinement` (MCPikeVM.cfg) | `TypeOK`, `ClosureRestoresCaptures`, `ImplementsLeftmostSearch`, `SearchReturns` | See below. |
| `compiler_limits` (MCCompilerLimits.cfg) | `LimitsOnlyAbort` | See below. |
| `pikevm_no_captures` (MCPikeVMNoCaptures.cfg) | `SearchNeverPanics` | Expected violation: with captures off, the first match panics (see Findings). |
| `hidden_unicode_lint` (MCHiddenUnicodeCodepoints.cfg) | `EveryFlowCharReported`, `SuggestionsRewriteOnlyFlowChars` | See below. |
| `hidden_unicode_raw_escape` (MCHiddenUnicodeCodepointsEscape.cfg) | `EscapeKeepsLiteralValue` | Expected violation: the escape suggestion changes a raw string (see Findings). |
| `punycode_roundtrip` (MCPunycode.cfg) | `TypeOK`, `NoOverflow`, `RoundTrip`, `Returns` | See below. |
| `punycode_encode_overflow` (MCPunycodeOverflow.cfg) | `NoOverflow` | Expected violation: encode's unchecked `delta += 1` overflows (see Findings). |
| `levenshtein_distance` (MCLevenshtein.cfg) | `TypeOK`, `DistanceCorrect` | `distance` returns the edit distance for every pair of strings up to length 3 over `a`, `b`, `c`. |
| `diffgraph_distances` (MCDiffGraph.cfg) | `TypeOK`, `ShortestDistances`, `MatchIsInjective`, `SelfDiffKeepsDistinctNodes`, `PartialMatchesFollowEdges` | See below. |
| `diffgraph_unmeasured_nodes` (MCDiffGraphPanic.cfg) | `MatchNeverPanics` | Expected violation: `match_graphs` panics on a node without a distance (see Findings). |

**`compiler_meaning`** covers 2,293 pattern lists under each of four configs
(captures on or off, unanchored prefix on or off). For every one of them:

* compilation succeeds;
* both start states and every transition name a state of the NFA;
* for every haystack up to length 3 over `{\n, a, b}`, every start and both
  anchorings, the NFA's preferred match has the same pattern, end and group-0
  start as `HirFind`.

**`pikevm_refinement`** runs the search step by step on 87 NFAs from the
compiler's production configuration. For every haystack up to length 3, starts
0 and 1 and both anchorings:

* every closure leaves its `thread_caps` exactly as it found them;
* the search returns;
* the search implements `LeftmostSearch`, i.e. it answers what the atomic
  search answers, capture slots included.

The refinement checks these parts of the code:

* the thread order;
* the cut after a `Match`;
* re-seeding only while nothing has matched;
* the `is_always_start_anchored` shortcut.

**`compiler_limits`** compiles every list of one depth-one tree, tricky tree
or pair (depth one already has every method that adds states or grows a
union) under state limits 0, 4, 7, 11 and size limits none, 150, 300, 450
bytes. One step compiles the list without limits and the next compiles it
under the limits. A limit only ever aborts: intermediate states and heap
memory only grow. So `LimitsOnlyAbort` states, against the compilation
without limits:

* the compile fails exactly when the unlimited build's intermediate state
  count exceeds the state limit or its bytes exceed the size limit;
* the error is `too_many_states` or `exceeded_size_limit`, whichever limit
  alone is exceeded;
* on success the NFA is the unlimited one.

**`hidden_unicode_lint`** runs the pass on every string, raw string (0 or 2
hashes), char, byte-string error and doc comment whose text is up to three
pieces among `a`, `é` (two bytes), U+202E, U+2066 and the escape `\u{202e}`,
at span offsets 0 and 7:

* the lint fires once exactly on the literals and doc comments that hold a
  flow-control char, over the node's span, counting every such char;
* on a literal, each label's span covers exactly one flow-control char of the
  source, and there is one per char;
* applying the removal suggestion deletes exactly those chars;
* applying the escape suggestion replaces each with its escape, the rest of
  the source unchanged.

**`punycode_roundtrip`** runs with 16-bit u32. It encodes every string up to
length 4 over `a`, `-`, `é`, `ā` and U+1F600, then decodes each `Ok` output.
It also decodes every string up to length 4 over `a`, `b`, `z`, `0`, `9`, `-`,
`!`, `é`, plus `bo7c` and `bb0c`:

* decode returns exactly the chars encode was given. So the two functions'
  bias adaptation (`h == b` against `oldi == 0`) and digit thresholds agree;
* no u32 of decode leaves its range. The inputs reach its checks on
  `i += digit * w` and `n += i / len`, and the `from_u32` refusal of a
  surrogate;
* both functions return (`Returns`, under weak fairness).

**`diffgraph_distances`** runs `DiffGraph::new` on every graph over four
blocks without self-loops. It then runs `match_graphs` against three second
graphs. The run shows:

* both distance maps hold shortest distances, for every HashMap order of
  the sources;
* no block is matched to two blocks of the other graph. The TODO at
  `match_graph.rs:41` fears duplicates. This relies on the displacement in
  `get_initial_mapping` and on `matched_labels_in_2` never shrinking;
* in a graph diffed with itself, every block with statements that no other
  block resembles is matched Full to itself and drawn unchanged;
* every Partial match pairs a parent of a matched block in graph 1 with a
  parent of its partner in graph 2.

Each property has a mutant in `PROJECT.json`: a plausible bug in the code that
TLC finds. The bugs are:

* finish's start IDs left unmapped;
* `x*` compiled as a naive loop for a nullable `x`;
* `at <= end` in the advance guard;
* a Capture step without its restore frame;
* a Match without the `break`;
* the advance without `at += 1`, so the search never reaches its end test;
* levenshtein's column built one cell short;
* levenshtein's inner loop without `last_diag = last_diag_temp`;
* a BFS neighbour queued without its distance;
* the BFS queue popped from the back (a depth-first order);
* `add_state` checking `StateID::LIMIT` one too late;
* `patch` growing a union without re-checking the size limit;
* check_expr without its raw-string arm;
* a raw string's padding one byte short;
* decode's digit step without the check before `i += digit * w`;
* decode inserting `n` without `from_u32`'s check;
* encode adapting the bias with `firsttime` as `h == 0`;
* encode's loop exit tested as `h > input.len()`;
* `get_initial_mapping` without `mapping.remove(lab_in_1)`;
* `dist_bw_nodes` without its `dist_end` component;
* the parents in graph 2 looked up by the key instead of its value.

## Findings

**`DiffGraph` leaves nodes unmeasured, and `match_graphs` then panics**
(`diffgraph_unmeasured_nodes`).

* `bfs_shortest_dist` only gives a distance to nodes reached from its
  sources. The sources are the sinks for `dist_start` and the parentless nodes
  for `dist_end`.
* A node that cannot reach a sink therefore has no `dist_start` entry. An
  example is a self-loop, or a cycle with no exit such as the MIR of
  `loop {}`.
* `dist_bw_nodes` (`match_graph.rs:124`) reads `d1.dist_start[n1]`, and
  HashMap's `Index` panics on a missing key.
* It is reached from `get_initial_mapping` through `select`'s `min_by_key`.
  The node needs at least one statement and a candidate that passes the text
  filter, e.g. when a graph is diffed against a copy of itself.
* TLC reaches the panic in `match_graphs` itself. Its counterexample has
  three blocks `bb0 -> bb0` and `bb1 <-> bb2`, none of them measured,
  diffed against a chain of the same blocks.

**The lint's escape suggestion changes raw string literals**
(`hidden_unicode_raw_escape`).

* On a literal, `lint_text_direction_codepoint` offers a suggestion that
  replaces each flow-control char with `format!("{:?}", c)` minus its quotes,
  e.g. `\u{202e}` (`hidden_unicode_codepoints.rs:84`-`94`).
* It marks that suggestion `Applicability::MachineApplicable`, which
  promises a fix that keeps the meaning of the code and lets tools apply it
  unseen.
* A raw string does not process escapes. In `r"…"` the rewrite gives the 8
  chars `\u{202e}`, so the literal's value changes.
* TLC's counterexample is a raw string whose text is the single char U+202E.
  For string and char literals the property holds.

**With captures off, the PikeVM panics on the first match**
(`pikevm_no_captures`).

* `find_leftmost_at` returns the span from `caps.slots[start].unwrap()` and
  `caps.slots[end].unwrap()` (`pikevm.rs:265`).
* An NFA built with `thompson::Config::captures(false)` has no capture slots,
  so `create_captures` gives an empty `slots` and the index panics.
* The spec calls the search infallible for a validly compiled automaton and a
  well-formed configuration, and `captures(false)` is a documented option.
* TLC's counterexample is the empty pattern on the empty haystack.
* The slot layout comes from `nfa/thompson/mod.rs`, outside the slice, so it
  is modelled from the documentation (`spec_modelled`).

**punycode's encoder overflows u32** (`punycode_encode_overflow`).

* `encode_slice` checks that the delta skipped to the next code point fits
  (`lib.rs:145`).
* It then adds 1 for every smaller char (`:155`) and once per round (`:182`),
  unchecked.
* For 4,096 ASCII chars followed by U+FFF80, the check passes with
  `delta = 4294967040`. The 4,096 increments then carry it past
  `u32::MAX`.
* With overflow checks on this panics. Without them the delta wraps and the
  encoding is wrong. RFC 3492 (section 6.3) has the encoder fail on
  overflow.
* TLC finds the same shape with 8-bit u32: `aaaa` followed by U+00B3.

## Bounds, and why they are enough

* **Haystacks of length 3 over `\n`, `a`, `b`.** They include the newline for
  line anchors and the word/non-word split for word boundaries. They allow two
  iterations of a repetition plus one byte of context, which is what
  separates greedy from lazy, nullable-star from `(x+)?`, and a leftmost match
  from a later one.
* **Starts 0 and 1** exercise the anchored-at-a-later-start case
  (`at > start`).
* **Trees of depth two** include:
  * every repetition kind over every atom and every pair;
  * the patterns known to break naive compilers.

  Deeper trees only compose the same methods.
* **`StateIDLimit` 1000 and `PatternIDLimit` 4** are never reached in
  `compiler_meaning`. `compiler_limits` lowers the state limit to 0, 4, 7
  and 11 and sets size limits 150, 300 and 450. Together they give every
  outcome: successes, `too_many_states`, `exceeded_size_limit`, and
  successes just under each limit.

* **Strings up to length 3 over three chars** give every relation between
  two strings of that size: equal, one empty, swapped lengths, repeated chars,
  and a substitution that is cheaper than insert plus delete.
* **Graphs over four nodes without self-loops** (4,096 graphs) are the
  smallest in which the processing order of the BFS matters. For example, two
  sinks `s1` and `s2`, with `c` a parent of `s2` and of `a`, and `a` a parent
  of `s1`. With three nodes, FIFO and LIFO order give the same distances.
  Self-loops do not change the order in which a BFS discovers nodes, so they
  are left out of this run. The violation run uses three nodes with
  self-loops.
* **Lint texts of up to three pieces** place a flow-control char after a
  multi-byte char, after an escape and after another flow-control char.
  Raw strings with 0 and 2 hashes separate the padding `hashes + 2` from
  its off-by-one forms, and the offsets 0 and 7 separate `span.lo` from 0.
* **Punycode with 16-bit u32 and strings up to length 4.** Each encoding
  has up to four deltas, with a first and later bias adaptation, several
  non-ASCII chars at the same and at different code points, and chars
  before, between and after them. U+1F600 takes encode's overflow check at
  line 145. Decode sees every digit value class, invalid digits, a
  non-ASCII char and strings that end inside a number. The 8-bit run needs
  five chars for the smallest overflow.
* **Matching** uses the same 4,096 graphs. Blocks `bb0` and `bb1` share
  their statements, so only their distances tell them apart, and `bb3` has
  none. `select`'s text filter never passes a block without statements.
  The second graphs are the graph itself, the graph with edited statements
  and a chain, so labels differ between matched blocks. The displacement
  in `get_initial_mapping`, a parent selected twice in one round, and
  several propagation rounds all occur. The panic branch of `Parent` needs
  a self-loop and a fourth block, so only the initial panic is reached.

## Fairness

`PikeVM!Spec` assumes `WF_vars(Next)`. `find_leftmost_at` is a plain
sequential loop with no blocking, locks or callbacks: whenever it has a next
statement it executes it. `SearchReturns` is `<>answered`, the liveness half of
`LeftmostSearch!Spec`. `Levenshtein!Spec`, `DiffGraph!Spec`, `MCDiffGraph!DiffSpec` and the punycode specs assume the same
weak fairness, for the same reason. `Returns` is checked for punycode.

The lint pass and `Bounds::predicates` are single calls with no loop the
model runs step by step, so they have no fairness.

Every model ends in a terminal state: the search has answered, the compiler
has returned, the lint pass has checked its node, the predicates are collected, `distance` has returned, or `match_graphs` has returned or panicked. So the
cfgs set `CHECK_DEADLOCK FALSE`. Termination of the PikeVM is checked as
`SearchReturns`. The other models have acyclic control by construction:
Levenshtein has bounded loops, the BFS visits every node at most once, and
each round of `match_graphs` maps at least one more block of graph 1.

## Not modelled, and why

* **The `Utf8Compiler`** (non-ASCII Unicode classes, reverse UTF-8 suffix
  caching). So far only byte classes and all-ASCII classes are compiled, and
  with `utf8` on only anchored patterns can be compiled (there is no valid-UTF-8
  prefix). `C` has no case for a non-ASCII class.
* **Unicode word boundaries.** They need the Unicode word tables.
* **The reverse configuration.** It is modelled (concatenation order,
  reversed looks) but no run checks it yet.
* **The `FindLeftmostMatches` iterator**, including its skipping of empty
  matches after a match.
* **`Captures` reused across searches.** `find_leftmost_at` does not reset
  `caps.slots`. The model starts from fresh captures, as the iterator does.
  `Captures.slots` is private and the crate only reads group 0, which every
  match writes, so a stale slot cannot be observed through the API.
* **`flock`**: a `cfg_if` choice of a platform module; the implementations
  are not in the slice.
* **The lint declarations** (`declare_lint!`, `declare_lint_pass!`) and the
  fluent messages: declarations and wording.
* **decode's check on `w *= BASE - t`** (`lib.rs:86`) is modelled, but it
  cannot fire with 16-bit u32 on short strings. `w` passes `u32::MAX / 36`
  only after a bias far larger than such inputs produce. At 15 bits it
  fires, but then no decoded char reaches the surrogates.
* **The other crates** (see the inventory).

## What could be modelled next

1. The UTF-8 compiler (`Utf8Compiler`, `c_unicode_class`), with
   `c_unanchored_prefix_valid_utf8`. Then a run with `utf8` on.
2. Check the PikeVM's seeding from `start_anchored` against the NFA's
   unanchored start state as documented.
3. A run of the reverse configuration.
4. The `FindLeftmostMatches` iterator: empty matches, `last_match` and
   progress (liveness).
