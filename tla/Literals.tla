------------------------------ MODULE Literals ------------------------------
(***************************************************************************)
(* The numbers of lib/parser/parser.c: what parse_integer and parse_float  *)
(* make of the text of a token, which the tokenizer has found well formed. *)
(*                                                                         *)
(* Integers are those of a word of LiteralBits bits.  The floating-point   *)
(* number nearest to a decimal one (build_positive_f64) is not modelled: a *)
(* float is the decimal number that is rounded, zero or infinity.          *)
(***************************************************************************)
EXTENDS Integers, Sequences, FiniteSets, SequencesExt

CONSTANTS
    LiteralBits,    \* of a word: 64
    MaxDigits,      \* of a mantissa: 19
    EXP10_MIN,      \* a mantissa times 10 to a power below is 0: -343
    EXP10_MAX       \* and above, infinity: 341

ASSUME LiteralsAssumption ==
    /\ LiteralBits \in Nat \ {0} /\ MaxDigits \in Nat \ {0}
    /\ EXP10_MIN \in Int /\ EXP10_MAX \in Int /\ EXP10_MIN < EXP10_MAX

Limit == 2 ^ LiteralBits
Half  == 2 ^ (LiteralBits - 1)

(* What exponentiation is, of which the provers know nothing.              *)
ASSUME LimitAssumption == Half \in Nat \ {0} /\ Limit = 2 * Half

DigitValue ==
    LET order == <<"0", "1", "2", "3", "4", "5", "6", "7", "8", "9">>
    IN  [d \in {order[k] : k \in 1 .. 10} |-> (CHOOSE k \in 1 .. 10 : order[k] = d) - 1]

Signs == {"+", "-"}

Unsigned(text) == IF text[1] \in Signs THEN Tail(text) ELSE text

-----------------------------------------------------------------------------
(* parse_integer_sign_magnitude.                                           *)

(* One more digit; what was computed last stays after an overflow, without *)
(* the bits that did not fit.                                              *)
WithDigit(m, d) ==
    IF m.overflowed THEN m
    ELSE IF m.magnitude * 10 >= Limit
    THEN [magnitude |-> (m.magnitude * 10) % Limit, overflowed |-> TRUE]
    ELSE [magnitude |-> (m.magnitude * 10 + DigitValue[d]) % Limit,
          overflowed |-> m.magnitude * 10 + DigitValue[d] >= Limit]

Magnitude(digits) ==
    LET Upto[k \in 0 .. Len(digits)] ==
            IF k = 0 THEN [magnitude |-> 0, overflowed |-> FALSE]
            ELSE WithDigit(Upto[k - 1], digits[k])
    IN  Upto[Len(digits)]

Sign(text) ==
    CASE text[1] = "+" -> 1
      [] text[1] = "-" -> -1
      [] OTHER -> 0

-----------------------------------------------------------------------------
(* parse_integer.                                                          *)

Integer(kind, value, overflowed) ==
    [kind |-> kind, value |-> value, overflowed |-> overflowed]

(* The value of a signed literal; one too large is 0, unless its magnitude *)
(* itself had overflowed to something small.                               *)
SignedInteger_Symmetric(sign, m) ==
    LET fits == m.magnitude < Half
    IN  Integer("int", IF fits THEN sign * m.magnitude ELSE 0, m.overflowed \/ ~fits)

SignedInteger(sign, m) ==
    LET fits == IF sign = 1 THEN m.magnitude < Half ELSE m.magnitude <= Half
    IN  Integer("int", IF fits THEN sign * m.magnitude ELSE 0, m.overflowed \/ ~fits)

UnsignedInteger(m) ==
    Integer("uint", IF m.overflowed THEN 0 ELSE m.magnitude, m.overflowed)

parse_integer(text) ==
    IF Sign(text) = 0 THEN UnsignedInteger(Magnitude(text))
    ELSE SignedInteger(Sign(text), Magnitude(Tail(text)))

-----------------------------------------------------------------------------
(* parse_float.                                                            *)

DigitsIn(text) == SelectSeq(text, LAMBDA c : c \in DOMAIN DigitValue)

digits_read(text) == Cardinality({k \in DOMAIN text : text[k] \in DOMAIN DigitValue})

(* What is read of the mantissa: to the exponent, or to the last digit     *)
(* there is room for.                                                      *)
MantissaText(text) ==
    LET ends == {k \in 0 .. Len(text) :
                    \/ k = Len(text)
                    \/ text[k + 1] = "e"
                    \/ digits_read(SubSeq(text, 1, k)) = MaxDigits}
    IN  SubSeq(text, 1, CHOOSE k \in ends : \A l \in ends : k <= l)

DecimalValue(digits) ==
    LET Upto[k \in 0 .. Len(digits)] ==
            IF k = 0 THEN 0 ELSE 10 * Upto[k - 1] + DigitValue[digits[k]]
    IN  Upto[Len(digits)]

(* How many digits come after the point.                                   *)
Decimals(text) ==
    IF Contains(text, ".")
    THEN Len(text) - CHOOSE k \in DOMAIN text : text[k] = "."
    ELSE 0

ZERO == [kind |-> "zero"]
INFINITY == [kind |-> "infinity"]

(* build_positive_f64                                                      *)
build_positive_f64(a, x) ==
    IF a = 0 \/ x < EXP10_MIN THEN ZERO
    ELSE IF x > EXP10_MAX THEN INFINITY
    ELSE [kind |-> "finite", mantissa |-> a, exp10 |-> x]

(* The exponent, if the text goes on with one after the mantissa.          *)
NoExponent == [bias |-> 0, extreme |-> FALSE]

ExponentOf_Unsigned(text) ==
    LET m == Magnitude(Unsigned(text))
        extreme == m.overflowed \/ m.magnitude >= (Half - 1) \div 2
    IN  [bias |-> IF extreme THEN 0 ELSE m.magnitude, extreme |-> extreme]

ExponentOf(text) ==
    LET m == Magnitude(Unsigned(text))
        extreme == m.overflowed \/ m.magnitude >= (Half - 1) \div 2
    IN  [bias |-> IF extreme THEN 0
                  ELSE IF Sign(text) >= 0 THEN m.magnitude ELSE -m.magnitude,
         extreme |-> extreme]

ExponentAfter(text, mantissa) ==
    IF Len(mantissa) < Len(text) /\ text[Len(mantissa) + 1] = "e"
    THEN ExponentOf(SubSeq(text, Len(mantissa) + 2, Len(text)))
    ELSE NoExponent

(* exp10 is the exponent of the mantissa when that of the text is extreme. *)
Scaled(a, exp10, exponent) ==
    IF exponent.extreme /\ a > 0
    THEN IF exp10 > 0 THEN INFINITY ELSE ZERO
    ELSE build_positive_f64(a, exp10 + exponent.bias)

FloatMagnitude(text, mantissa) ==
    Scaled(DecimalValue(DigitsIn(mantissa)), -Decimals(mantissa),
           ExponentAfter(text, mantissa))

parse_float(text) ==
    [kind |-> "float",
     value |-> [negative |-> Sign(text) = -1,
                magnitude |-> FloatMagnitude(Unsigned(text), MantissaText(Unsigned(text)))],
     overflowed |-> FALSE]

-----------------------------------------------------------------------------
(* What a number means, whatever its length.                               *)

MantissaOf(text) ==
    IF Contains(text, "e") THEN SubSeq(text, 1, (CHOOSE k \in DOMAIN text : text[k] = "e") - 1)
    ELSE text

ExponentText(text) ==
    IF Contains(text, "e")
    THEN SubSeq(text, 1 + CHOOSE k \in DOMAIN text : text[k] = "e", Len(text))
    ELSE <<"0">>

SignedValue(text) ==
    IF Sign(text) = -1 THEN -DecimalValue(Tail(text)) ELSE DecimalValue(Unsigned(text))

(* An integer is the number that is written, or it overflows, if a word    *)
(* does not hold it.                                                       *)
IsExact(literal, text) ==
    LET value == SignedValue(text)
        fits == IF Sign(text) = 0 THEN value < Limit ELSE value \in -Half .. Half - 1
    IN  /\ literal.kind = IF Sign(text) = 0 THEN "uint" ELSE "int"
        /\ literal.overflowed <=> ~fits
        /\ fits => literal.value = value

(* Digits times 10 to a power, for an unsigned text.                       *)
Digits(text) == DecimalValue(DigitsIn(MantissaOf(text)))
Power(text) == SignedValue(ExponentText(text)) - Decimals(MantissaOf(text))
=============================================================================
