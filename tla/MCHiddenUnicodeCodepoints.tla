--------------------- MODULE MCHiddenUnicodeCodepoints ---------------------
(***************************************************************************)
(* Model checking of the text_direction_codepoint_in_literal lint on every *)
(* literal and doc comment of up to three pieces of text, and of what      *)
(* applying its machine-applicable suggestions does to the source.         *)
(***************************************************************************)
EXTENDS HiddenUnicodeCodepoints, FiniteSets

CONSTANTS
  MaxPieces,  \* a symbol is up to this many pieces of text ...
  Los         \* ... and a node's span starts at one of these offsets

(* `\u{202e}` as written in source: an escape of a flow-control char.    *)
EscapeText(c) == <<\h5C, \h75, \h7B>> \o HexDigits(c) \o <<\h7D>>

(* The pieces of text: ASCII `a`, a two-byte `é`, U+202E (RIGHT-TO-LEFT   *)
(* OVERRIDE), U+2066 (LEFT-TO-RIGHT ISOLATE) and the escape of U+202E.    *)
Pieces == {<<\h61>>, <<\hE9>>, <<\h202E>>, <<\h2066>>, EscapeText(\h202E)}

Texts == {FlattenSeq(ps) : ps \in BoundedSeq(Pieces, MaxPieces)}

NonAscii(t) == \E k \in DOMAIN t : t[k] >= \h80

(* The nodes the parser can hand the pass: a char literal holds one char *)
(* or one escape; a byte string holding a non-ASCII char is rejected by   *)
(* the lexer and reaches the pass as an Err literal.                       *)
MCNodes ==
  [kind : {"Str", "Doc"}, hashes : {0}, text : Texts, lo : Los]
  \cup [kind : {"StrRaw"}, hashes : {0, 2}, text : Texts, lo : Los]
  \cup [kind : {"Char"}, hashes : {0}, text : Pieces, lo : Los]
  \cup [kind : {"Err"}, hashes : {0}, text : {t \in Texts : NonAscii(t)}, lo : Los]
  \cup [kind : {"OtherExpr", "OtherAttr"}, hashes : {0}, text : {<<>>}, lo : Los]

(***************************************************************************)
(* Applying a suggestion to the node's source: every edit must replace     *)
(* exactly one char (its span starts and ends at that char's bytes).       *)
(***************************************************************************)
Apply(nd, edits) ==
  LET u == Render(nd)
      Off(k) == nd.lo + ByteIndex(u, k)
      At(k) == {e \in Range(edits) : e.lo = Off(k) /\ e.hi = Off(k) + LenUtf8(u[k])}
  IN IF \A e \in Range(edits) : \E k \in DOMAIN u : e \in At(k)
     THEN [ok |-> TRUE,
           text |-> FlattenSeq([k \in DOMAIN u |->
                      IF At(k) = {} THEN <<u[k]>> ELSE (CHOOSE e \in At(k) : TRUE).repl])]
     ELSE [ok |-> FALSE, text |-> <<>>]

IsFlow(c) == c \in TEXT_FLOW_CONTROL_CHARS

FlowCount(u) == Cardinality({k \in DOMAIN u : IsFlow(u[k])})

(* The value of a literal's text: a raw string is its text, a string or *)
(* char literal is its text with `\u{..}` escapes replaced by the char.   *)
HexValue(ds) ==
  FoldLeft(LAMBDA acc, d : 16 * acc + (IF d < \h61 THEN d - \h30 ELSE d - \h61 + 10), 0, ds)

RECURSIVE Unescape(_)
Unescape(s) ==
  IF s = <<>> THEN <<>>
  ELSE IF s[1] = \h5C
  THEN LET close == CHOOSE k \in DOMAIN s : s[k] = \h7D /\ \A m \in 1..(k - 1) : s[m] # \h7D
       IN <<HexValue(SubSeq(s, 4, close - 1))>> \o Unescape(SubSeq(s, close + 1, Len(s)))
  ELSE <<s[1]>> \o Unescape(Tail(s))

Value(nd, text) == IF nd.kind = "StrRaw" THEN text ELSE Unescape(text)

(* The text between the delimiters of a rendered node.                    *)
Body(nd, u) == SubSeq(u, Len(Open(nd)) + 1, Len(u) - Len(Close(nd)))

(***************************************************************************)
(* Properties.                                                             *)
(***************************************************************************)
(* The lint fires exactly on the string, char and raw string literals and *)
(* the doc comments that hold a flow-control char (a byte string holding *)
(* one is already an error), once, over the node's whole span, counting   *)
(* every such char: check_expr's padding match and its early returns      *)
(* must not let one through.                                              *)
EveryFlowCharReported ==
  checked =>
    /\ Len(diags) = IF node.kind \in {"Str", "Char", "StrRaw", "Doc"}
                       /\ ContainsTextFlowControlChars(node.text)
                    THEN 1 ELSE 0
    /\ \A d \in Range(diags) : d.span = SpanOf(node) /\ d.count = FlowCount(Render(node))

(* On a literal, the inner spans land on the forbidden chars of the      *)
(* source, whatever chars, escapes and raw-string hashes come before them: *)
(* each label names the char under its span and there is one per char;   *)
(* applying the removal suggestion deletes exactly those chars and        *)
(* applying the escape suggestion replaces each by its `\u{..}` escape,  *)
(* the rest of the source left as it was.  This is what span.lo plus the  *)
(* byte index from char_indices plus the padding must add up to.          *)
SuggestionsRewriteOnlyFlowChars ==
  checked /\ diags # <<>> /\ node.kind # "Doc" =>
    LET d == diags[1]
        u == Render(node)
    IN /\ Len(d.labels) = FlowCount(u)
       /\ Apply(node, [m \in DOMAIN d.labels |->
                         [lo |-> d.labels[m].lo, hi |-> d.labels[m].hi, repl |-> <<d.labels[m].c>>]])
            = [ok |-> TRUE, text |-> u]
       /\ Apply(node, d.remove) = [ok |-> TRUE, text |-> SelectSeq(u, LAMBDA c : ~IsFlow(c))]
       /\ Apply(node, d.escape)
            = [ok |-> TRUE,
               text |-> FlattenSeq([k \in DOMAIN u |-> IF IsFlow(u[k]) THEN EscapeText(u[k]) ELSE <<u[k]>>])]

(* The escape suggestion is MachineApplicable, which promises a rewrite   *)
(* that keeps the meaning of the code: the literal with every forbidden  *)
(* char replaced by its escape has the same value as before.              *)
EscapeKeepsLiteralValue ==
  checked /\ diags # <<>> /\ node.kind # "Doc" =>
    LET r == Apply(node, diags[1].escape)
    IN r.ok /\ Value(node, Body(node, r.text)) = Value(node, node.text)
=============================================================================
