---------------------------- MODULE RegexPatterns ----------------------------
(***************************************************************************)
(* The regex trees the model-checking modules feed to the compiler: every  *)
(* tree of depth two over a few atoms, plus trees chosen because they      *)
(* separate a correct compiler from a plausible wrong one.                 *)
(***************************************************************************)
EXTENDS ThompsonCompiler

LitA == HByte(97)
LitB == HByte(98)

Atoms == {LitA, LitB, HEmpty, HAnchor("StartLine")}

(* The repetitions and the capture group over `x`; an enclosing group gets *)
(* the index `gi`.                                                          *)
Unary(x, gi) ==
  {HRep(rk, 0, 1, g, x) : rk \in {"ZeroOrMore", "ZeroOrOne"}, g \in BOOLEAN}
  \cup {HRep("OneOrMore", 1, 1, g, x) : g \in BOOLEAN}
  \cup {HRep("Bounded", 1, 2, TRUE, x), HRep("Bounded", 0, 2, FALSE, x),
        HRep("AtLeast", 2, 2, TRUE, x), HRep("Exactly", 2, 2, TRUE, x),
        HGroup("CaptureIndex", gi, x)}

Binary(X, Y) == {HConcat(<<x, y>>) : x \in X, y \in Y} \cup {HAlt(<<x, y>>) : x \in X, y \in Y}

Depth1 == Atoms \cup UNION {Unary(x, 1) : x \in Atoms} \cup Binary(Atoms, Atoms)

Depth2 == UNION {Unary(x, 2) : x \in Depth1 \ Atoms}
          \cup Binary(Depth1 \ Atoms, Atoms) \cup Binary(Atoms, Depth1 \ Atoms)

(* Patterns known to separate a correct compiler from a plausible wrong   *)
(* one: a nullable body under a star, and a star in a concatenation.      *)
Tricky == {HRep("ZeroOrMore", 0, 1, TRUE, HAlt(<<HEmpty, LitA>>)),
           HConcat(<<HRep("ZeroOrMore", 0, 1, TRUE, HAlt(<<HEmpty, LitA>>)), LitB>>),
           HRep("ZeroOrMore", 0, 1, FALSE, HAlt(<<LitA, HEmpty>>))}

PatternLists ==
  {<<e>> : e \in Depth1 \cup Depth2 \cup Tricky}
  \cup {<<x, y>> : x \in Depth1, y \in {LitA, HEmpty}}

(* Trees whose captures a search must report: repeated and alternated     *)
(* groups, where the slots of a later iteration or a losing branch must   *)
(* not leak into the answer.                                               *)
Group(i, x) == HGroup("CaptureIndex", i, x)

CapturePatterns ==
  UNION {Unary(Group(1, x), 2) : x \in {LitA, HAlt(<<LitA, LitB>>), HAlt(<<HEmpty, LitA>>)}}
  \cup Binary({Group(1, x) : x \in {LitA, HEmpty}}, {Group(2, y) : y \in {LitB, HEmpty}})

(* Trees with a start anchor or a word boundary.                           *)
LookPatterns ==
  {HConcat(<<HAnchor("StartText"), LitA>>), HAlt(<<HAnchor("StartText"), LitB>>),
   HConcat(<<HWordBoundary("WordBoundaryAscii"), LitA>>),
   HConcat(<<LitA, HWordBoundary("WordBoundaryAsciiNegate")>>),
   HConcat(<<LitA, HAnchor("EndText")>>)}

(* The depth-one trees a search is run on: the atoms, every repetition of  *)
(* a byte and of the empty string, and their pairs.                        *)
SearchDepth1 ==
  Atoms \cup UNION {Unary(x, 1) : x \in {LitA, HEmpty}} \cup Binary({LitA, HEmpty}, {LitB, HEmpty})

SearchPatternLists ==
  {<<e>> : e \in SearchDepth1 \cup CapturePatterns \cup LookPatterns \cup Tricky}
  \cup {<<LitA, HEmpty>>, <<HEmpty, LitB>>, <<LitB, HConcat(<<LitB, LitA>>)>>,
         <<HAnchor("StartText"), LitA>>}
=============================================================================
