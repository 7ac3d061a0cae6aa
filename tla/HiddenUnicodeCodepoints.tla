------------------------ MODULE HiddenUnicodeCodepoints ------------------------
(***************************************************************************)
(* rustc's early lint pass HiddenUnicodeCodepoints                          *)
(* (rustc_lint/src/hidden_unicode_codepoints.rs): the                       *)
(* text_direction_codepoint_in_literal lint on string and char literals    *)
(* and on doc comments.                                                    *)
(*                                                                         *)
(* A char is its Unicode code point and a string is the sequence of its    *)
(* chars, so `char_indices`, `len_utf8` and the Debug format of a char are *)
(* computed as the code computes them.  An AST node the pass visits is a  *)
(* record [kind, hashes, text, lo]: its kind (a literal kind, a doc        *)
(* comment, another expression or attribute), the `n` of a raw string     *)
(* `r#..#"`, its symbol (the text as written, without delimiters) and the  *)
(* byte offset of its span in the file.  A diagnostic is a record of what *)
(* the lint closure adds to it: the spans it labels, the two suggestions  *)
(* and the list of escaped chars.  Wording (the fluent messages) is left   *)
(* out.                                                                     *)
(***************************************************************************)
EXTENDS Naturals, Sequences, SequencesExt

CONSTANT Nodes  \* the AST nodes the pass may be handed

VARIABLES
  node,     \* the node being checked
  checked,  \* whether check_expr / check_attribute has run on it
  diags     \* the diagnostics emitted, in order

vars == <<node, checked, diags>>

(* The codepoints the lint's documentation lists (\u{202A}..\u{202E},    *)
(* \u{2066}..\u{2069}), which rustc_ast's TEXT_FLOW_CONTROL_CHARS holds.  *)
TEXT_FLOW_CONTROL_CHARS ==
  {\h202A, \h202B, \h202D, \h202E, \h2066, \h2067, \h2068, \h202C, \h2069}

ContainsTextFlowControlChars(s) == \E k \in DOMAIN s : s[k] \in TEXT_FLOW_CONTROL_CHARS

(* char::len_utf8.                                                          *)
LenUtf8(c) == CASE c < \h80 -> 1 [] c < \h800 -> 2 [] c < \h10000 -> 3 [] OTHER -> 4

(* The byte index `i` char_indices pairs with the k-th char of s.         *)
ByteIndex(s, k) == FoldLeft(+, 0, [m \in 1..(k - 1) |-> LenUtf8(s[m])])

(* The lowercase hex digits of n without leading zeros, as chars.        *)
RECURSIVE HexDigits(_)
HexDigits(n) ==
  LET d == n % 16
      digit == IF d < 10 THEN \h30 + d ELSE \h61 + d - 10
  IN IF n < 16 THEN <<digit>> ELSE Append(HexDigits(n \div 16), digit)

(* format!("{:?}", c) of a flow-control char: Debug escapes a char that   *)
(* is not printable as '\u{hex}', quotes included.                         *)
DebugChar(c) == <<\h27, \h5C, \h75, \h7B>> \o HexDigits(c) \o <<\h7D, \h27>>

(* lint_text_direction_codepoint: the (char, span) of each forbidden char,*)
(* at span.lo + byte index + padding, and the diagnostic built from them.  *)
LintTextDirectionCodepoint(text, span, padding, pointAtInnerSpans, label) ==
  LET pos == SelectSeq([k \in DOMAIN text |-> k], LAMBDA k : text[k] \in TEXT_FLOW_CONTROL_CHARS)
      spans == [m \in DOMAIN pos |->
                  LET c == text[pos[m]]
                      lo == span[1] + ByteIndex(text, pos[m]) + padding
                  IN [c |-> c, lo |-> lo, hi |-> lo + LenUtf8(c)]]
      suggest == pointAtInnerSpans /\ spans # <<>>
  IN [span |-> span, label |-> label, count |-> Len(spans),
      labels |-> IF pointAtInnerSpans THEN spans ELSE <<>>,
      remove |-> IF suggest THEN [m \in DOMAIN spans |-> [lo |-> spans[m].lo, hi |-> spans[m].hi, repl |-> <<>>]]
                 ELSE <<>>,
      escape |-> IF suggest
                 THEN [m \in DOMAIN spans |->
                         LET d == DebugChar(spans[m].c)
                         IN [lo |-> spans[m].lo, hi |-> spans[m].hi, repl |-> SubSeq(d, 2, Len(d) - 1)]]
                 ELSE <<>>,
      escaped |-> IF suggest THEN <<>> ELSE [m \in DOMAIN spans |-> DebugChar(spans[m].c)]]

(***************************************************************************)
(* The source text of a node: the delimiters around its symbol, and so    *)
(* the span the parser gives it.                                           *)
(***************************************************************************)
Hashes(n) == [k \in 1..n |-> \h23]

Open(nd) ==
  CASE nd.kind = "Str"    -> <<\h22>>
    [] nd.kind = "Char"   -> <<\h27>>
    [] nd.kind = "StrRaw" -> <<\h72>> \o Hashes(nd.hashes) \o <<\h22>>
    [] nd.kind = "Err"    -> <<\h62, \h22>>            \* a byte string the lexer rejected
    [] nd.kind = "Doc"    -> <<\h2F, \h2F, \h2F>>
    [] OTHER              -> <<>>

Close(nd) ==
  CASE nd.kind \in {"Str", "Err"} -> <<\h22>>
    [] nd.kind = "Char"   -> <<\h27>>
    [] nd.kind = "StrRaw" -> <<\h22>> \o Hashes(nd.hashes)
    [] OTHER              -> <<>>

Render(nd) == Open(nd) \o nd.text \o Close(nd)

SpanOf(nd) == <<nd.lo, nd.lo + FoldLeft(+, 0, [k \in DOMAIN Render(nd) |-> LenUtf8(Render(nd)[k])])>>

(***************************************************************************)
(* The pass.                                                               *)
(***************************************************************************)
Init ==
  /\ node \in Nodes
  /\ checked = FALSE
  /\ diags = <<>>

Emit(d) == diags' = Append(diags, d) /\ checked' = TRUE /\ UNCHANGED node

Skip == checked' = TRUE /\ UNCHANGED <<node, diags>>

(* check_attribute on a doc comment holding a forbidden char: lint it    *)
(* with padding 0 and without pointing at the inner spans.                *)
CheckAttribute ==
  /\ ~checked /\ node.kind = "Doc"
  /\ ContainsTextFlowControlChars(node.text)
  /\ Emit(LintTextDirectionCodepoint(node.text, SpanOf(node), 0, FALSE, "doc comment"))

(* check_attribute on any other attribute, or a clean doc comment.        *)
CheckAttributeNoLint ==
  /\ ~checked
  /\ \/ node.kind = "OtherAttr"
     \/ node.kind = "Doc" /\ ~ContainsTextFlowControlChars(node.text)
  /\ Skip

(* A raw string's padding counting the hashes and the quote, not the `r`.*)
PaddingRawOffByOne(nd) == IF nd.kind \in {"Str", "Char"} THEN 1 ELSE nd.hashes + 1

(* The padding of check_expr: the opening delimiter of the literal.       *)
Padding(nd) == IF nd.kind \in {"Str", "Char"} THEN 1 ELSE nd.hashes + 2

(* check_expr on a string, char or raw string literal holding a forbidden *)
(* char: lint it with the padding of its kind, pointing at inner spans.   *)
CheckExprLit ==
  /\ ~checked /\ node.kind \in {"Str", "Char", "StrRaw"}
  /\ ContainsTextFlowControlChars(node.text)
  /\ Emit(LintTextDirectionCodepoint(node.text, SpanOf(node), Padding(node), TRUE, "literal"))

(* `if !contains_text_flow_control_chars(..) { return; }`                 *)
CheckExprClean ==
  /\ ~checked /\ node.kind \in {"Str", "Char", "StrRaw", "Err"}
  /\ ~ContainsTextFlowControlChars(node.text)
  /\ Skip

(* A check_expr without the StrRaw arm: raw strings fall to `_ => return`.*)
CheckExprOtherLitKindRaw ==
  /\ ~checked /\ node.kind \in {"Err", "StrRaw"}
  /\ ContainsTextFlowControlChars(node.text)
  /\ Skip

(* `_ => return`: a literal of another kind.                               *)
CheckExprOtherLitKind ==
  /\ ~checked /\ node.kind = "Err"
  /\ ContainsTextFlowControlChars(node.text)
  /\ Skip

(* `_ => {}`: an expression that is not a literal.                          *)
CheckExprNotLit ==
  /\ ~checked /\ node.kind = "OtherExpr"
  /\ Skip

Next ==
  \/ CheckAttribute \/ CheckAttributeNoLint
  \/ CheckExprLit \/ CheckExprClean \/ CheckExprOtherLitKind \/ CheckExprNotLit

Spec == Init /\ [][Next]_vars
=============================================================================
