---------------------------- MODULE PunycodeEncode ----------------------------
(***************************************************************************)
(* punycode::encode / encode_slice, one action per iteration of its loops: *)
(* the outer `while h < input.len()`, the `for c in input` over the chars  *)
(* and the `for k in 1..` emitting the digits of one delta.                *)
(***************************************************************************)
EXTENDS Punycode

CONSTANT Inputs  \* the strings encode may be called with

VARIABLES
  input,   \* the chars of the string being encoded
  output,  \* the output String, as its chars
  n, delta, bias, h, b,
  j,       \* the position of `for c in input`
  q, k,    \* the digit loop's q and k
  pc       \* "idle", "outer", "chars", "digits", then "done" or "err"

vars == <<input, output, n, delta, bias, h, b, j, q, k, pc>>

(* encode(s): the basic chars copied, then the delimiter if there are any. *)
Begin(s) ==
  LET basic == SelectSeq(s, IsAscii)
  IN /\ pc = "idle"
     /\ input' = s
     /\ output' = IF basic # <<>> THEN Append(basic, DELIMITER) ELSE basic
     /\ n' = INITIAL_N /\ delta' = 0 /\ bias' = INITIAL_BIAS
     /\ h' = Len(basic) /\ b' = Len(basic)
     /\ pc' = "outer"
     /\ UNCHANGED <<j, q, k>>

(* The loop exit tested as h > input.len().                               *)
FinishOffByOne ==
  /\ pc = "outer" /\ h > Len(input)
  /\ pc' = "done"
  /\ UNCHANGED <<input, output, n, delta, bias, h, b, j, q, k>>

(* The loop ends once every char is handled: Ok(output).                  *)
Finish ==
  /\ pc = "outer" /\ h >= Len(input)
  /\ pc' = "done"
  /\ UNCHANGED <<input, output, n, delta, bias, h, b, j, q, k>>

(* The next code point m to insert, and the delta skipped to reach it, or *)
(* Err(()) if that delta would overflow.                                   *)
NextCodePoint ==
  /\ pc = "outer" /\ h < Len(input)
  /\ LET m == Min({c \in Range(input) : c >= n})
     IN IF m - n > (U32Max - delta) \div (h + 1)
        THEN pc' = "err" /\ UNCHANGED <<n, delta, j>>
        ELSE /\ delta' = delta + (m - n) * (h + 1)
             /\ n' = m
             /\ j' = 1
             /\ pc' = "chars"
  /\ UNCHANGED <<input, output, bias, h, b, q, k>>

(* A char below n: `delta += 1`, unchecked.                                *)
CharBelow ==
  /\ pc = "chars" /\ j <= Len(input) /\ input[j] < n
  /\ delta' = delta + 1 /\ j' = j + 1
  /\ UNCHANGED <<input, output, n, bias, h, b, q, k, pc>>

(* A char above n is left for a later round.                               *)
CharAbove ==
  /\ pc = "chars" /\ j <= Len(input) /\ input[j] > n
  /\ j' = j + 1
  /\ UNCHANGED <<input, output, n, delta, bias, h, b, q, k, pc>>

(* A char equal to n: its delta is emitted, from q = delta.                *)
CharEqual ==
  /\ pc = "chars" /\ j <= Len(input) /\ input[j] = n
  /\ q' = delta /\ k' = 1 /\ pc' = "digits"
  /\ UNCHANGED <<input, output, n, delta, bias, h, b, j>>

(* The digit loop with adapt's firsttime tested as h == 0.                *)
DigitFirstTimeAtZero ==
  /\ pc = "digits"
  /\ LET t == ClampedSub(TMIN, k * BASE, bias, TMAX)
     IN IF q < t
        THEN /\ output' = Append(output, EncodeDigit(q))
             /\ bias' = Adapt(delta, h + 1, h = 0)
             /\ delta' = 0 /\ h' = h + 1 /\ j' = j + 1
             /\ pc' = "chars"
             /\ UNCHANGED <<q, k>>
        ELSE /\ output' = Append(output, EncodeDigit(t + ((q - t) % (BASE - t))))
             /\ q' = (q - t) \div (BASE - t) /\ k' = k + 1
             /\ UNCHANGED <<bias, delta, h, j, pc>>
  /\ UNCHANGED <<input, n, b>>

(* One iteration of `for k in 1..`: a digit t + (q - t) % (BASE - t), or  *)
(* the last digit q once q < t, then the bias adapted and delta reset.     *)
Digit ==
  /\ pc = "digits"
  /\ LET t == ClampedSub(TMIN, k * BASE, bias, TMAX)
     IN IF q < t
        THEN /\ output' = Append(output, EncodeDigit(q))
             /\ bias' = Adapt(delta, h + 1, h = b)
             /\ delta' = 0 /\ h' = h + 1 /\ j' = j + 1
             /\ pc' = "chars"
             /\ UNCHANGED <<q, k>>
        ELSE /\ output' = Append(output, EncodeDigit(t + ((q - t) % (BASE - t))))
             /\ q' = (q - t) \div (BASE - t) /\ k' = k + 1
             /\ UNCHANGED <<bias, delta, h, j, pc>>
  /\ UNCHANGED <<input, n, b>>

(* After the chars: `delta += 1; n += 1`, both unchecked.                  *)
EndOfChars ==
  /\ pc = "chars" /\ j > Len(input)
  /\ delta' = delta + 1 /\ n' = n + 1
  /\ pc' = "outer"
  /\ UNCHANGED <<input, output, bias, h, b, j, q, k>>

Init ==
  /\ input = <<>> /\ output = <<>>
  /\ n = 0 /\ delta = 0 /\ bias = 0 /\ h = 0 /\ b = 0 /\ j = 0 /\ q = 0 /\ k = 0
  /\ pc = "idle"

Next ==
  \/ \E s \in Inputs : Begin(s)
  \/ Finish \/ NextCodePoint
  \/ CharBelow \/ CharAbove \/ CharEqual \/ Digit \/ EndOfChars

Spec == Init /\ [][Next]_vars /\ WF_vars(Next)
=============================================================================
