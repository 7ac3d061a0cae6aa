------------------------------- MODULE Punycode -------------------------------
(***************************************************************************)
(* The constants and helper functions of the punycode crate                *)
(* (vendor/punycode-0.4.1/src/lib.rs), shared by its encoder and decoder.  *)
(* A char is its code point.  u32 arithmetic is exact integer arithmetic   *)
(* up to U32Max, the crate's std::u32::MAX: TLC's integers stop below      *)
(* 2^31, so a model checks the crate's overflow logic with a smaller       *)
(* width, the same comparisons against the same maximum.                   *)
(***************************************************************************)
EXTENDS Naturals, Sequences, SequencesExt

CONSTANT U32Max  \* std::u32::MAX

BASE == 36
TMIN == 1
TMAX == 26
SKEW == 38
DAMP == 700
INITIAL_BIAS == 72
INITIAL_N == 128
DELIMITER == 45  \* '-'

IsAscii(c) == c < 128

(* std::char::from_u32: a Unicode scalar value, surrogates excluded.      *)
IsChar(n) == n <= \h10FFFF /\ ~(n \in \hD800..\hDFFF)

(* clamped_sub: lhs - rhs clamped to [min, max].                           *)
ClampedSub(min, lhs, rhs, max) ==
  CASE min + rhs >= lhs -> min
    [] max + rhs <= lhs -> max
    [] OTHER            -> lhs - rhs

(* adapt: the bias after a delta, its while loop as a recursion on k.     *)
RECURSIVE AdaptLoop(_, _)
AdaptLoop(delta, k) ==
  IF delta > ((BASE - TMIN) * TMAX) \div 2
  THEN AdaptLoop(delta \div (BASE - TMIN), k + BASE)
  ELSE k + ((BASE - TMIN + 1) * delta) \div (delta + SKEW)

Adapt(delta, numpoint, firsttime) ==
  LET d == IF firsttime THEN delta \div DAMP ELSE delta \div 2
  IN AdaptLoop(d + d \div numpoint, 0)

(* decode_digit: '0'..'9' are 26..35, letters of either case 0..25, any   *)
(* other char BASE.                                                         *)
DecodeDigit(c) ==
  CASE c \in 48..57  -> c - 48 + 26
    [] c \in 65..90  -> c - 65
    [] c \in 97..122 -> c - 97
    [] OTHER         -> BASE

(* encode_digit: 0..25 to 'a'..'z', 26..35 to '0'..'9' (its assert holds *)
(* for every digit below BASE).                                             *)
EncodeDigit(d) == d + 22 + (IF d < 26 THEN 75 ELSE 0)
=============================================================================
