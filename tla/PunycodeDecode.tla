---------------------------- MODULE PunycodeDecode ----------------------------
(***************************************************************************)
(* punycode::decode, one action per iteration of its loops: the outer      *)
(* `while it.peek() != None` (one inserted char each) and the inner        *)
(* `for k in 1..` reading the digits of one generalized integer.           *)
(***************************************************************************)
EXTENDS Punycode

CONSTANT Inputs  \* the strings decode may be called with

VARIABLES
  input,   \* the chars after the last delimiter not read yet (`it`)
  output,  \* the output Vec<char>
  n, i, bias,
  oldi, w, k,  \* the digit loop's oldi, w and k
  pc       \* "idle", "outer", "digits", "insert", then "done" or "err"

vars == <<input, output, n, i, bias, oldi, w, k, pc>>

(* decode(s): Err(()) unless s is ASCII; the chars before the last '-'  *)
(* are the basic chars, the rest the digits.                               *)
Begin(s) ==
  /\ pc = "idle"
  /\ IF \E p \in DOMAIN s : ~IsAscii(s[p])
     THEN pc' = "err" /\ UNCHANGED <<input, output, n, i, bias>>
     ELSE /\ LET ds == {p \in DOMAIN s : s[p] = DELIMITER}
                 p == IF ds = {} THEN 0 ELSE Max(ds)
             IN /\ output' = SubSeq(s, 1, p - 1)
                /\ input' = SubSeq(s, p + 1, Len(s))
          /\ n' = INITIAL_N /\ i' = 0 /\ bias' = INITIAL_BIAS
          /\ pc' = "outer"
  /\ UNCHANGED <<oldi, w, k>>

(* `while it.peek() != None`: a new generalized integer, or Ok(output).   *)
Outer ==
  /\ pc = "outer"
  /\ IF input = <<>>
     THEN pc' = "done" /\ UNCHANGED <<oldi, w, k>>
     ELSE oldi' = i /\ w' = 1 /\ k' = 1 /\ pc' = "digits"
  /\ UNCHANGED <<input, output, n, i, bias>>

(* A digit step without the overflow check before i += digit * w.         *)
DigitUnchecked ==
  /\ pc = "digits"
  /\ IF input = <<>>
     THEN pc' = "err" /\ UNCHANGED <<input, i, w, k>>
     ELSE
       LET digit == DecodeDigit(Head(input))
           t == ClampedSub(TMIN, k * BASE, bias, TMAX)
       IN /\ input' = Tail(input)
          /\ CASE digit = BASE -> pc' = "err" /\ UNCHANGED <<i, w, k>>
               [] digit < t -> i' = i + digit * w /\ pc' = "insert" /\ UNCHANGED <<w, k>>
               [] BASE > (U32Max - t) \div w -> i' = i + digit * w /\ pc' = "err" /\ UNCHANGED <<w, k>>
               [] OTHER -> i' = i + digit * w /\ w' = w * (BASE - t) /\ k' = k + 1 /\ UNCHANGED pc
  /\ UNCHANGED <<output, n, bias, oldi>>

(* One iteration of `for k in 1..`: read a digit, add digit * w to i with *)
(* the overflow check, stop below the threshold t, else grow w (checked). *)
Digit ==
  /\ pc = "digits"
  /\ IF input = <<>>
     THEN pc' = "err" /\ UNCHANGED <<input, i, w, k>>
     ELSE
       LET digit == DecodeDigit(Head(input))
           t == ClampedSub(TMIN, k * BASE, bias, TMAX)
       IN /\ input' = Tail(input)
          /\ CASE digit = BASE \/ digit > (U32Max - i) \div w ->
                    pc' = "err" /\ UNCHANGED <<i, w, k>>
               [] digit < t ->
                    i' = i + digit * w /\ pc' = "insert" /\ UNCHANGED <<w, k>>
               [] BASE > (U32Max - t) \div w ->
                    i' = i + digit * w /\ pc' = "err" /\ UNCHANGED <<w, k>>
               [] OTHER ->
                    i' = i + digit * w /\ w' = w * (BASE - t) /\ k' = k + 1
                    /\ UNCHANGED pc
  /\ UNCHANGED <<output, n, bias, oldi>>

(* An insertion that trusts n to be a char.                               *)
InsertNoCharCheck ==
  /\ pc = "insert"
  /\ LET len == Len(output) + 1
         il == i \div len
     IN /\ bias' = Adapt(i - oldi, len, oldi = 0)
        /\ IF n > U32Max - il
           THEN pc' = "err" /\ UNCHANGED <<output, n, i>>
           ELSE /\ n' = n + il
                /\ output' = InsertAt(output, (i % len) + 1, n + il)
                /\ i' = (i % len) + 1
                /\ pc' = "outer"
  /\ UNCHANGED <<input, oldi, w, k>>

(* After the digits: adapt the bias, split i into the code point increment*)
(* (overflow checked) and the position, and insert the char there.       *)
Insert ==
  /\ pc = "insert"
  /\ LET len == Len(output) + 1
         il == i \div len
     IN /\ bias' = Adapt(i - oldi, len, oldi = 0)
        /\ IF n > U32Max - il \/ ~IsChar(n + il)
           THEN pc' = "err" /\ UNCHANGED <<output, n, i>>
           ELSE /\ n' = n + il
                /\ output' = InsertAt(output, (i % len) + 1, n + il)
                /\ i' = (i % len) + 1
                /\ pc' = "outer"
  /\ UNCHANGED <<input, oldi, w, k>>

Init ==
  /\ input = <<>> /\ output = <<>>
  /\ n = 0 /\ i = 0 /\ bias = 0 /\ oldi = 0 /\ w = 0 /\ k = 0
  /\ pc = "idle"

Next ==
  \/ \E s \in Inputs : Begin(s)
  \/ Outer \/ Digit \/ Insert

Spec == Init /\ [][Next]_vars /\ WF_vars(Next)
=============================================================================
