----------------------------- MODULE JsonNumbers -----------------------------
(* How kubejson finds the end of a number, and turns it into an integer. A     *)
(* text is a sequence of one-rune strings.                                     *)
EXTENDS Integers, SequencesExt

CONSTANTS
  Bits,           \* The width of an int64, scaled down.
  MaxDigits       \* The digits of the largest uint64, scaled down with it.

NumbersAssumption == Bits \in Nat \ {0} /\ MaxDigits \in Nat
ASSUME NumbersAssumption

DigitOf ==
  "0" :> 0 @@ "1" :> 1 @@ "2" :> 2 @@ "3" :> 3 @@ "4" :> 4
  @@ "5" :> 5 @@ "6" :> 6 @@ "7" :> 7 @@ "8" :> 8 @@ "9" :> 9

Digits == DOMAIN DigitOf

\* What may follow a number, or null, true and false.
IsNotDelim(c) == c \in Digits \cup {"-", "+", ".", "e"}

\* The rune at i, or nothing past the end.
At(s, i) == IF i \in DOMAIN s THEN s[i] ELSE ""

\* The digits of s from i on.
DigitsFrom(s, i) ==
  LET run == {n \in 0..Len(s) : \A k \in i..(i + n - 1) : At(s, k) \in Digits}
  IN  SubSeq(s, i, i + Max(run) - 1)

DecimalValue(digits) == FoldLeft(LAMBDA n, c : 10 * n + DigitOf[c], 0, digits)

\* strconv.ParseInt of an optional sign and digits.
SignedValue(s) ==
  IF At(s, 1) \in {"-", "+"}
  THEN (IF s[1] = "-" THEN -1 ELSE 1) * DecimalValue(Tail(s))
  ELSE DecimalValue(s)

\* Mutant of TrimRight: they are kept.
TrimRightNot(digits) == digits

\* The part after a dot, whose trailing zeros say nothing.
TrimRight(digits) ==
  SubSeq(digits, 1, Max({0} \cup {i \in DOMAIN digits : digits[i] # "0"}))

(* The digits in front of the point and behind it, and where what follows them *)
(* begins. A dot with no digit after it does not belong to the number.         *)
Mantissa(s, first) ==
  LET intp == IF At(s, first) = "0" THEN <<"0">> ELSE DigitsFrom(s, first)
      frac == IF At(s, first + Len(intp)) = "." THEN DigitsFrom(s, first + Len(intp) + 1) ELSE <<>>
      dot  == IF frac = <<>> THEN 0 ELSE 1
  IN  [intp |-> intp, frac |-> frac, after |-> first + Len(intp) + dot + Len(frac)]

(* The exponent at e: an e belongs to the number as soon as any rune comes     *)
(* after it, and the digits of the exponent may be none.                       *)
Exponent(s, e) ==
  LET sign == IF At(s, e + 1) \in {"-", "+"} THEN <<s[e + 1]>> ELSE <<>>
  IN  IF At(s, e) = "e" /\ e < Len(s)
      THEN [ok    |-> sign = <<>> \/ e + 1 < Len(s),
            exp   |-> sign \o DigitsFrom(s, e + 1 + Len(sign)),
            after |-> e + 1 + Len(sign \o DigitsFrom(s, e + 1 + Len(sign)))]
      ELSE [ok |-> TRUE, exp |-> <<>>, after |-> e]

NumberParts(neg, mantissa, exponent) ==
  [ok   |-> mantissa.intp # <<>> /\ exponent.ok,
   neg  |-> neg,
   intp |-> IF mantissa.intp = <<"0">> THEN <<>> ELSE mantissa.intp,
   frac |-> TrimRight(mantissa.frac),
   exp  |-> exponent.exp,
   size |-> exponent.after - 1]

\* The parts of the number s begins with, and its size.
ParseNumberParts(s) ==
  LET neg      == At(s, 1) = "-"
      mantissa == Mantissa(s, IF neg THEN 2 ELSE 1)
  IN  NumberParts(neg, mantissa, Exponent(s, mantissa.after))

\* The runes of the number s begins with; it must be followed by a delimiter.
ParseNumber(s) ==
  LET parts == ParseNumberParts(s)
  IN  [ok   |-> parts.ok /\ ~IsNotDelim(At(s, parts.size + 1)),
       size |-> parts.size]

Zeros(k) == [i \in 1..k |-> "0"]

(* The digits of the integer that a number in E-notation is. There is none if  *)
(* digits are left behind the point, or if a positive exponent makes it longer *)
(* than the largest uint64.                                                    *)
NormalizeToIntString(n) ==
  LET exp   == SignedValue(n.exp)
      index == Len(n.intp) + exp
  IN  IF n.intp = <<>> /\ n.frac = <<>>
      THEN [ok |-> TRUE, digits |-> <<"0">>]
      ELSE IF exp >= 0
      THEN [ok     |-> Len(n.frac) <= exp /\ index <= MaxDigits,
            digits |-> n.intp \o n.frac \o Zeros(exp - Len(n.frac))]
      ELSE [ok     |-> n.frac = <<>> /\ index >= 0
                       /\ \A i \in (index + 1)..Len(n.intp) : n.intp[i] = "0",
            digits |-> SubSeq(n.intp, 1, index)]

SignedInteger(neg, str) ==
  IF str.ok THEN {(IF neg THEN -1 ELSE 1) * DecimalValue(str.digits)} ELSE {}

\* The integer the number with these parts is, if it is one.
IntegerOf(parts) ==
  IF parts.ok THEN SignedInteger(parts.neg, NormalizeToIntString(parts)) ELSE {}

\* Token.Int and Token.Uint: the integer, if the type has it.
TokenInt(raw)  == IntegerOf(ParseNumberParts(raw)) \cap -(2^(Bits - 1))..(2^(Bits - 1) - 1)
TokenUint(raw) == IntegerOf(ParseNumberParts(raw)) \cap 0..(2^Bits - 1)
=============================================================================
