----------------------------- MODULE Operations -----------------------------
(***************************************************************************)
(* The words of the virtual machine and the operations it dispatches       *)
(* (lib/bytecode/bytecode.h, lib/vm/vm.c).                                 *)
(*                                                                         *)
(* A word has WordBits bits (64 in the code).  It is a natural number      *)
(* below 2^WordBits, read as unsigned (as_uint), as signed in two's        *)
(* complement (as_int) or as a float (as_float).  What the floating point  *)
(* operations compute is not modelled: they may yield any word.            *)
(***************************************************************************)
EXTENDS Integers

CONSTANT WordBits

WordCount == 2 ^ WordBits

Word == 0 .. WordCount - 1

(* The lowest word whose sign bit is set.                                  *)
SignBit == 2 ^ (WordBits - 1)

Bits(w) == {i \in 0 .. WordBits - 1 : (w \div 2 ^ i) % 2 = 1}

FromBits(B) == CHOOSE w \in Word : Bits(w) = B

ASSUME WordBitsAssumption == WordBits \in Nat \ {0}

(* What exponentiation is, of which the provers know nothing.              *)
ASSUME PowersOfTwo ==
    /\ 2 ^ 0 = 1
    /\ \A j \in 0 .. WordBits - 1 : 2 ^ (j + 1) = 2 * 2 ^ j

Signed(w) == IF w >= SignBit THEN w - WordCount ELSE w

InSignedRange(n) == -SignBit <= n /\ n < SignBit

(* A division that does not return, or a signed overflow the sanitizers    *)
(* of the debug build stop at.                                             *)
Trap == -1

-----------------------------------------------------------------------------
(* The operations FOR_OPERATIONS lists, by the shape of their handler.     *)

UnsignedComparisons == {"equ", "neu", "geu", "gtu"}
SignedComparisons   == {"eqi", "nei", "gei", "gti"}
FloatComparisons    == {"eqf", "nef", "gef", "gtf"}
Comparisons == UnsignedComparisons \union SignedComparisons \union FloatComparisons
BitOperations       == {"lor", "and", "xor"}
UnsignedArithmetic  == {"adu", "sbu", "mlu", "dvu"}
SignedArithmetic    == {"adi", "sbi", "mli", "dvi"}
FloatArithmetic     == {"adf", "sbf", "mlf", "dvf"}

BinaryOperations ==
    Comparisons \union BitOperations \union UnsignedArithmetic
        \union SignedArithmetic \union FloatArithmetic
UnaryOperations == {"not", "ngi", "ngf"}
ControlOperations ==
    {"nop", "cal", "res", "ret", "sca", "loc", "var", "set", "pop",
     "jmp", "jnz", "jze"}
Syscalls == {"sys nop", "sys exit", "sys hi", "sys bye", "sys dbg"}

Dispatched ==
    ControlOperations \union UnaryOperations \union BinaryOperations
        \union Syscalls

(* How many words the handler of an operation takes off the value stack.   *)
Pops(op) ==
    IF op \in BinaryOperations THEN 2
    ELSE IF op \in UnaryOperations
                     \union {"cal", "set", "pop", "jnz", "jze", "sys exit"}
         THEN 1
         ELSE 0

(* The handlers that address a local variable by its index.                *)
AddressesVariable(op) == op \in {"var", "set", "sys dbg"}

-----------------------------------------------------------------------------
(* What the handlers compute: the set of possible results.                 *)

(* `-(lhs op rhs)`: all ones for true, zero for false.                     *)
Truth(b) == IF b THEN WordCount - 1 ELSE 0

Holds(op, lhs, rhs) ==
    CASE op = "equ" -> lhs = rhs
      [] op = "neu" -> lhs # rhs
      [] op = "geu" -> lhs >= rhs
      [] op = "gtu" -> lhs > rhs
      [] op = "eqi" -> Signed(lhs) = Signed(rhs)
      [] op = "nei" -> Signed(lhs) # Signed(rhs)
      [] op = "gei" -> Signed(lhs) >= Signed(rhs)
      [] op = "gti" -> Signed(lhs) > Signed(rhs)

BitResult(op, lhs, rhs) ==
    LET L == Bits(lhs)
        R == Bits(rhs)
    IN  CASE op = "lor" -> FromBits(L \union R)
          [] op = "and" -> FromBits(L \intersect R)
          [] op = "xor" -> FromBits((L \union R) \ (L \intersect R))

(* A signed result out of range is undefined: the debug build stops at it, *)
(* other builds wrap.                                                      *)
SignedOutcomes(n) ==
    IF InSignedRange(n) THEN {n % WordCount} ELSE {n % WordCount, Trap}

(* C division rounds towards zero.                                         *)
Magnitude(n) == IF n < 0 THEN -n ELSE n
Quotient(n, d) ==
    LET q == Magnitude(n) \div Magnitude(d)
    IN  IF (n < 0) = (d < 0) THEN q ELSE -q

DivisionOutcomes(n, d) ==
    IF d = 0 \/ ~InSignedRange(Quotient(n, d))
    THEN {Trap}
    ELSE {Quotient(n, d) % WordCount}

ArithmeticOutcomes(op, lhs, rhs) ==
    CASE op = "adu" -> {(lhs + rhs) % WordCount}
      [] op = "sbu" -> {(lhs - rhs) % WordCount}
      [] op = "mlu" -> {(lhs * rhs) % WordCount}
      [] op = "dvu" -> IF rhs = 0 THEN {Trap} ELSE {lhs \div rhs}
      [] op = "adi" -> SignedOutcomes(Signed(lhs) + Signed(rhs))
      [] op = "sbi" -> SignedOutcomes(Signed(lhs) - Signed(rhs))
      [] op = "mli" -> SignedOutcomes(Signed(lhs) * Signed(rhs))
      [] op = "dvi" -> DivisionOutcomes(Signed(lhs), Signed(rhs))

BinaryOutcomes(op, lhs, rhs) ==
    IF op \in FloatComparisons THEN {Truth(TRUE), Truth(FALSE)}
    ELSE IF op \in FloatArithmetic THEN Word
    ELSE IF op \in Comparisons THEN {Truth(Holds(op, lhs, rhs))}
    ELSE IF op \in BitOperations THEN {BitResult(op, lhs, rhs)}
    ELSE ArithmeticOutcomes(op, lhs, rhs)

UnaryOutcomes(op, w) ==
    CASE op = "not" -> {WordCount - 1 - w}
      [] op = "ngi" -> SignedOutcomes(-Signed(w))
      [] op = "ngf" -> Word
=============================================================================
