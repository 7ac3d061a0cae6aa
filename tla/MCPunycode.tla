------------------------------ MODULE MCPunycode ------------------------------
(***************************************************************************)
(* Model checking of punycode's encode and decode, composed: either a      *)
(* string is encoded and, if that succeeds, its encoding decoded, or an    *)
(* arbitrary string is decoded on its own.                                 *)
(***************************************************************************)
EXTENDS Punycode

CONSTANTS
  EncodeChars, DecodeChars,  \* the chars strings are made of ...
  MaxLen,                    \* ... up to this length
  DecodeExtra                \* and longer strings decode is also called with

VARIABLES
  einput, eoutput, en, edelta, ebias, eh, eb, ej, eq, ek, epc,
  dinput, doutput, dn, di, dbias, doldi, dw, dk, dpc

evars == <<einput, eoutput, en, edelta, ebias, eh, eb, ej, eq, ek, epc>>
dvars == <<dinput, doutput, dn, di, dbias, doldi, dw, dk, dpc>>
vars == <<evars, dvars>>

Strings(C) == UNION {[1..m -> C] : m \in 0..MaxLen}

(* "bo7c" overflows the check on n += i / len, "bb0c" decodes to a       *)
(* surrogate, which std::char::from_u32 refuses (both with 16-bit u32).   *)
MCDecodeExtra == {<<98, 111, 55, 99>>, <<98, 98, 48, 99>>}

DecodeInputs == Strings(DecodeChars) \cup DecodeExtra

Enc == INSTANCE PunycodeEncode
         WITH Inputs <- Strings(EncodeChars),
              input <- einput, output <- eoutput, n <- en, delta <- edelta,
              bias <- ebias, h <- eh, b <- eb, j <- ej, q <- eq, k <- ek, pc <- epc
Dec == INSTANCE PunycodeDecode
         WITH Inputs <- DecodeInputs,
              input <- dinput, output <- doutput, n <- dn, i <- di, bias <- dbias,
              oldi <- doldi, w <- dw, k <- dk, pc <- dpc

Init == Enc!Init /\ Dec!Init

Next ==
  \/ dpc = "idle" /\ Enc!Next /\ UNCHANGED dvars
  \/ epc = "idle" /\ \E s \in DecodeInputs : Dec!Begin(s) /\ UNCHANGED evars
  \/ epc = "done" /\ Dec!Begin(eoutput) /\ UNCHANGED evars
  \/ (Dec!Outer \/ Dec!Digit \/ Dec!Insert) /\ UNCHANGED evars

Spec == Init /\ [][Next]_vars /\ WF_vars(Next)

(***************************************************************************)
(* Properties.                                                             *)
(***************************************************************************)
TypeOK ==
  /\ epc \in {"idle", "outer", "chars", "digits", "done", "err"}
  /\ dpc \in {"idle", "outer", "digits", "insert", "done", "err"}
  /\ \A c \in Range(eoutput) : IsAscii(c)
  /\ \A c \in Range(doutput) : IsChar(c)

(* No u32 of either function leaves 0..u32::MAX: decode checks every     *)
(* addition and multiplication that could overflow (i += digit * w,      *)
(* w *= BASE - t, n += i / len); encode checks the delta it skips to the *)
(* next code point but not the `delta += 1` per char and per round.       *)
NoOverflow ==
  /\ \A v \in {en, edelta, ebias, eh, eq} : v <= U32Max
  /\ \A v \in {dn, di, dbias, dw} : v <= U32Max

(* decode inverts encode: when encode returns Ok(s), decode(s) returns Ok *)
(* of the very chars encoded (the bias adaptation, firsttime test and    *)
(* digit thresholds of the two functions must agree).                     *)
RoundTrip ==
  epc = "done" /\ dpc \in {"done", "err"} => dpc = "done" /\ doutput = einput

(* Both functions return: each round of encode handles at least one char *)
(* and each digit of decode consumes one.                                 *)
Returns == <>(epc = "err" \/ dpc \in {"done", "err"})
=============================================================================
