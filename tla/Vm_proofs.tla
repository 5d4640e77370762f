------------------------------ MODULE Vm_proofs ------------------------------
(***************************************************************************)
(* Proofs about module Vm, for every set of programs, every width of words *)
(* and every size of the memory blocks: whatever an operation yields,      *)
(* short of a trap, is a word, the machine keeps its types, its            *)
(* frames tile their block, no step writes into a caller's variables, and  *)
(* every call returns to where it was made.                                *)
(***************************************************************************)
EXTENDS Vm, Induction, SequenceTheorems

-----------------------------------------------------------------------------
(* Words and operations (module Operations), for words of every width.     *)

LEMMA PowersArePositive == \A j \in 0 .. WordBits : 2 ^ j \in Nat \ {0}
<1> DEFINE S == {j \in 0 .. WordBits : 2 ^ j \in Nat \ {0}}
<1>1. 0 \in S
  BY WordBitsAssumption, PowersOfTwo
<1>2. ASSUME NEW j \in S \intersect 0 .. WordBits - 1 PROVE j + 1 \in S
  <2>1. 2 ^ (j + 1) = 2 * 2 ^ j
    BY PowersOfTwo
  <2>2. j + 1 \in 0 .. WordBits
    BY WordBitsAssumption
  <2>3. QED
    BY <2>1, <2>2
<1>3. 0 .. WordBits \subseteq S
  <2> HIDE DEF S
  <2>1. QED
    BY <1>1, <1>2, WordBitsAssumption, IntervalInduction
<1>4. QED
  BY <1>3

LEMMA WordFacts ==
    /\ WordCount \in Nat \ {0}
    /\ SignBit \in Nat
    /\ WordCount = 2 * SignBit
    /\ \A w \in Word : w \in Nat /\ w < WordCount
    /\ \A n \in Nat : n < WordCount => n \in Word
    /\ Trap \notin Word
<1>1. WordBits \in 0 .. WordBits /\ WordBits - 1 \in 0 .. WordBits - 1
      /\ WordBits - 1 \in 0 .. WordBits /\ (WordBits - 1) + 1 = WordBits
  BY WordBitsAssumption
<1>2. WordCount \in Nat \ {0} /\ SignBit \in Nat
  BY <1>1, PowersArePositive DEF WordCount, SignBit
<1>3. 2 ^ ((WordBits - 1) + 1) = 2 * 2 ^ (WordBits - 1)
  BY <1>1, PowersOfTwo
<1>4. WordCount = 2 * SignBit
  BY <1>1, <1>3 DEF WordCount, SignBit
<1>5. QED
  BY <1>2, <1>4 DEF Word, Trap

LEMMA ModuloIsWord ==
    ASSUME NEW n \in Int
    PROVE  n % WordCount \in Word
<1>1. WordCount \in Nat \ {0}
  BY WordFacts
<1>2. n % WordCount \in 0 .. WordCount - 1
  BY <1>1
<1>3. QED
  BY <1>2 DEF Word

LEMMA SignedIsInteger ==
    ASSUME NEW w \in Word
    PROVE  Signed(w) \in Int
BY WordFacts DEF Signed

LEMMA SignedOutcomesAreWords ==
    ASSUME NEW n \in Int
    PROVE  SignedOutcomes(n) \subseteq Word \union {Trap}
BY ModuloIsWord DEF SignedOutcomes

LEMMA TruthIsWord ==
    ASSUME NEW b \in BOOLEAN
    PROVE  Truth(b) \in Word
BY WordFacts DEF Truth

-----------------------------------------------------------------------------
(* A set of bit positions is the binary representation of a word: twice    *)
(* the word of the positions above the lowest, plus the lowest.            *)
LEMMA DoubledWord ==
    ASSUME NEW v \in Nat, NEW b \in {0, 1}
    PROVE  /\ (2 * v + b) \div 2 ^ 0 % 2 = b
           /\ \A j \in 0 .. WordBits - 1 : (2 * v + b) \div 2 ^ (j + 1) = v \div 2 ^ j
<1>1. 2 * v + b \in Nat
  OBVIOUS
<1>2. (2 * v + b) \div 2 ^ 0 % 2 = b
  <2>1. (2 * v + b) \div 1 = 2 * v + b
    BY <1>1
  <2>2. (2 * v + b) % 2 = b
    OBVIOUS
  <2>3. QED
    BY <2>1, <2>2, PowersOfTwo
<1>3. ASSUME NEW j \in 0 .. WordBits - 1
      PROVE  (2 * v + b) \div 2 ^ (j + 1) = v \div 2 ^ j
  <2> DEFINE P == 2 ^ j
             w == 2 * v + b
  <2>1. P \in Nat \ {0}
    BY PowersArePositive, WordBitsAssumption
  <2>2. 2 ^ (j + 1) = P * 2
    BY <2>1, PowersOfTwo
  <2>3. w \in Nat
    BY <1>1
  <2>4. w \div 2 = v
    OBVIOUS
  <2> HIDE DEF P, w
  <2>5. w \div (P * 2) = (w \div 2) \div P
    BY <2>1, <2>3, QuotientOfQuotient
  <2>6. w \div 2 ^ (j + 1) = v \div P
    BY <2>2, <2>4, <2>5
  <2>7. QED
    BY <2>6 DEF P, w
<1>4. QED
  BY <1>2, <1>3

LEMMA BinaryRepresentation ==
    \A B \in SUBSET (0 .. WordBits - 1) : \E w \in Word : Bits(w) = B
<1> DEFINE S == {k \in 0 .. WordBits :
                    \A B \in SUBSET (0 .. k - 1) : \E w \in 0 .. 2 ^ k - 1 : Bits(w) = B}
<1>1. 0 \in S
  <2>1. 0 \in 0 .. WordBits /\ 0 \in 0 .. 2 ^ 0 - 1
    BY WordBitsAssumption, PowersOfTwo
  <2>2. ASSUME NEW i \in 0 .. WordBits - 1 PROVE (0 \div 2 ^ i) % 2 # 1
    <3>1. 2 ^ i \in Nat \ {0}
      BY PowersArePositive, WordBitsAssumption
    <3>2. 0 \div 2 ^ i = 0
      BY <3>1, QuotientIsUnique
    <3>3. 0 % 2 = 0 /\ 0 # 1
      OBVIOUS
    <3>4. QED
      BY <3>2, <3>3, Zenon
  <2>3. Bits(0) = {}
    BY <2>2 DEF Bits
  <2>4. 0 .. 0 - 1 = {}
    OBVIOUS
  <2>5. QED
    BY <2>1, <2>3, <2>4
<1>2. ASSUME NEW k \in S \intersect 0 .. WordBits - 1 PROVE k + 1 \in S
  <2>1. SUFFICES ASSUME NEW B \in SUBSET (0 .. k)
                 PROVE  \E w \in 0 .. 2 ^ (k + 1) - 1 : Bits(w) = B
    <3>1. k + 1 \in 0 .. WordBits /\ (k + 1) - 1 = k
      BY WordBitsAssumption
    <3>2. QED
      BY <3>1
  <2> DEFINE A == {i \in 0 .. k - 1 : i + 1 \in B}
             b == IF 0 \in B THEN 1 ELSE 0
  <2>2. A \in SUBSET (0 .. k - 1)
    OBVIOUS
  <2>3. PICK v \in 0 .. 2 ^ k - 1 : Bits(v) = A
    BY <2>2
  <2>4. 2 ^ k \in Nat \ {0} /\ 2 ^ (k + 1) = 2 * 2 ^ k
    BY PowersArePositive, PowersOfTwo, WordBitsAssumption
  <2>5. v \in Nat /\ b \in {0, 1} /\ 2 * v + b \in 0 .. 2 ^ (k + 1) - 1
    BY <2>4
  <2>6. ASSUME NEW i \in 0 .. WordBits - 1
        PROVE  ((2 * v + b) \div 2 ^ i) % 2 = 1 <=> i \in B
    <3>1. CASE i = 0
      <4>1. ((2 * v + b) \div 2 ^ i) % 2 = b
        <5> HIDE DEF b
        <5>1. ((2 * v + b) \div 2 ^ 0) % 2 = b
          BY <2>5, DoubledWord
        <5>2. QED
          BY <3>1, <5>1, Zenon
      <4>2. QED
        BY <3>1, <4>1
    <3>2. CASE i # 0
      <4>1. PICK j \in 0 .. WordBits - 1 : i = j + 1
        BY <3>2, WordBitsAssumption
      <4>2. (2 * v + b) \div 2 ^ i = v \div 2 ^ j
        <5> HIDE DEF b
        <5>1. QED
          BY <2>5, <4>1, DoubledWord
      <4>3. (v \div 2 ^ j) % 2 = 1 <=> j \in A
        <5> HIDE DEF A
        <5>1. QED
          BY <2>3 DEF Bits
      <4>4. j \in A <=> i \in B
        BY <4>1
      <4>5. QED
        <5> HIDE DEF A, b
        <5>1. QED
          BY <4>2, <4>3, <4>4, Zenon
    <3>3. QED
      BY <3>1, <3>2
  <2>7. B \subseteq 0 .. WordBits - 1
    BY WordBitsAssumption
  <2>8. Bits(2 * v + b) = B
    <3> HIDE DEF b
    <3>1. QED
      BY <2>6, <2>7 DEF Bits
  <2>9. QED
    <3> HIDE DEF b
    <3>1. QED
      BY <2>5, <2>8
<1>3. 0 .. WordBits \subseteq S
  <2> HIDE DEF S
  <2>1. QED
    BY <1>1, <1>2, WordBitsAssumption, IntervalInduction
<1>4. WordBits \in S
  BY <1>3, WordBitsAssumption
<1>5. QED
  BY <1>4 DEF Word, WordCount

LEMMA FromBitsIsWord ==
    ASSUME NEW B \in SUBSET (0 .. WordBits - 1)
    PROVE  FromBits(B) \in Word
<1>1. \E w \in Word : Bits(w) = B
  BY BinaryRepresentation
<1>2. QED
  BY <1>1 DEF FromBits

LEMMA BitResultIsWord ==
    ASSUME NEW op \in BitOperations, NEW lhs \in Word, NEW rhs \in Word
    PROVE  BitResult(op, lhs, rhs) \in Word
<1> DEFINE L == Bits(lhs)
           R == Bits(rhs)
<1>1. L \subseteq 0 .. WordBits - 1 /\ R \subseteq 0 .. WordBits - 1
  BY DEF Bits
<1> HIDE DEF L, R
<1>2. /\ L \union R \in SUBSET (0 .. WordBits - 1)
      /\ L \intersect R \in SUBSET (0 .. WordBits - 1)
      /\ (L \union R) \ (L \intersect R) \in SUBSET (0 .. WordBits - 1)
  BY <1>1
<1>3. /\ FromBits(L \union R) \in Word
      /\ FromBits(L \intersect R) \in Word
      /\ FromBits((L \union R) \ (L \intersect R)) \in Word
  BY <1>2, FromBitsIsWord
<1>4. CASE op = "lor"
  BY <1>3, <1>4 DEF BitResult, L, R
<1>5. CASE op = "and"
  BY <1>3, <1>5 DEF BitResult, L, R
<1>6. CASE op = "xor"
  BY <1>3, <1>6 DEF BitResult, L, R
<1>7. QED
  BY <1>4, <1>5, <1>6 DEF BitOperations

-----------------------------------------------------------------------------
(* Dividing by a positive number does not make a natural number larger.    *)
LEMMA DivisionShrinks ==
    ASSUME NEW n \in Nat, NEW d \in Nat \ {0}
    PROVE  n \div d \in Nat /\ n \div d <= n
OBVIOUS

LEMMA DivisionOutcomesAreWords ==
    ASSUME NEW n \in Int, NEW d \in Int
    PROVE  DivisionOutcomes(n, d) \subseteq Word \union {Trap}
<1>1. CASE d = 0
  BY <1>1 DEF DivisionOutcomes
<1>2. CASE d # 0
  <2>1. Magnitude(n) \in Nat /\ Magnitude(d) \in Nat \ {0}
    BY <1>2 DEF Magnitude
  <2>2. Magnitude(n) \div Magnitude(d) \in Nat
    BY <2>1, DivisionShrinks
  <2>3. Quotient(n, d) \in Int
    BY <2>2 DEF Quotient
  <2>4. Quotient(n, d) % WordCount \in Word
    BY <2>3, ModuloIsWord
  <2>5. QED
    BY <2>4 DEF DivisionOutcomes
<1>3. QED
  BY <1>1, <1>2

LEMMA ArithmeticOutcomesAreWords ==
    ASSUME NEW op \in UnsignedArithmetic \union SignedArithmetic,
           NEW lhs \in Word, NEW rhs \in Word
    PROVE  ArithmeticOutcomes(op, lhs, rhs) \subseteq Word \union {Trap}
<1>1. lhs \in Nat /\ rhs \in Nat /\ lhs < WordCount
  BY WordFacts
<1>2. Signed(lhs) \in Int /\ Signed(rhs) \in Int
  BY SignedIsInteger
<1>3. /\ lhs + rhs \in Int /\ lhs - rhs \in Int /\ lhs * rhs \in Int
      /\ Signed(lhs) + Signed(rhs) \in Int
      /\ Signed(lhs) - Signed(rhs) \in Int
      /\ Signed(lhs) * Signed(rhs) \in Int
  BY <1>1, <1>2
<1>4. CASE op = "adu"
  BY <1>3, <1>4, ModuloIsWord DEF ArithmeticOutcomes
<1>5. CASE op = "sbu"
  BY <1>3, <1>5, ModuloIsWord DEF ArithmeticOutcomes
<1>6. CASE op = "mlu"
  BY <1>3, <1>6, ModuloIsWord DEF ArithmeticOutcomes
<1>7. CASE op = "dvu"
  <2>1. CASE rhs = 0
    BY <1>7, <2>1 DEF ArithmeticOutcomes
  <2>2. CASE rhs # 0
    <3>1. lhs \div rhs \in Nat /\ lhs \div rhs <= lhs
      BY <1>1, <2>2, DivisionShrinks
    <3>2. lhs \div rhs \in Word
      BY <1>1, <3>1, WordFacts
    <3>3. QED
      BY <1>7, <2>2, <3>2 DEF ArithmeticOutcomes
  <2>3. QED
    BY <2>1, <2>2
<1>8. CASE op = "adi"
  BY <1>3, <1>8, SignedOutcomesAreWords DEF ArithmeticOutcomes
<1>9. CASE op = "sbi"
  BY <1>3, <1>9, SignedOutcomesAreWords DEF ArithmeticOutcomes
<1>10. CASE op = "mli"
  BY <1>3, <1>10, SignedOutcomesAreWords DEF ArithmeticOutcomes
<1>11. CASE op = "dvi"
  BY <1>2, <1>11, DivisionOutcomesAreWords DEF ArithmeticOutcomes
<1>12. QED
  BY <1>4, <1>5, <1>6, <1>7, <1>8, <1>9, <1>10, <1>11
  DEF UnsignedArithmetic, SignedArithmetic

-----------------------------------------------------------------------------
(* A binary operation of FOR_OPERATIONS takes two words to a word, or      *)
(* traps (IMPL_BINARY_COMPARISON and IMPL_BINARY_OPERATION of vm.c).       *)
THEOREM BinaryYieldsWord ==
    ASSUME NEW op \in BinaryOperations, NEW lhs \in Word, NEW rhs \in Word
    PROVE  BinaryOutcomes(op, lhs, rhs) \subseteq Word \union {Trap}
<1>1. Truth(TRUE) \in Word /\ Truth(FALSE) \in Word
  BY TruthIsWord
<1>2. CASE op \in FloatComparisons
  BY <1>1, <1>2 DEF BinaryOutcomes
<1>3. CASE op \in FloatArithmetic
  BY <1>1, <1>3 DEF BinaryOutcomes
<1>4. CASE op \in Comparisons \ (FloatComparisons \union FloatArithmetic)
  <2>1. Truth(Holds(op, lhs, rhs)) \in Word
    BY <1>1 DEF Truth
  <2>2. QED
    BY <1>4, <2>1 DEF BinaryOutcomes
<1>5. CASE op \in BitOperations
  <2>1. op \notin FloatComparisons /\ op \notin FloatArithmetic /\ op \notin Comparisons
    BY <1>5 DEF BitOperations, FloatComparisons, FloatArithmetic, Comparisons,
                UnsignedComparisons, SignedComparisons
  <2>2. QED
    BY <1>5, <2>1, BitResultIsWord DEF BinaryOutcomes
<1>6. CASE op \in UnsignedArithmetic \union SignedArithmetic
  <2>1. /\ op \notin FloatComparisons /\ op \notin FloatArithmetic
        /\ op \notin Comparisons /\ op \notin BitOperations
    BY <1>6 DEF BitOperations, FloatComparisons, FloatArithmetic, Comparisons,
                UnsignedComparisons, SignedComparisons, UnsignedArithmetic,
                SignedArithmetic
  <2>2. QED
    BY <1>6, <2>1, ArithmeticOutcomesAreWords DEF BinaryOutcomes
<1>7. QED
  BY <1>2, <1>3, <1>4, <1>5, <1>6 DEF BinaryOperations

(* A unary operation takes a word to a word, or traps.                     *)
THEOREM UnaryYieldsWord ==
    ASSUME NEW op \in UnaryOperations, NEW w \in Word
    PROVE  UnaryOutcomes(op, w) \subseteq Word \union {Trap}
<1>1. CASE op = "not"
  <2>1. WordCount - 1 - w \in Word
    BY WordFacts
  <2>2. QED
    BY <1>1, <2>1 DEF UnaryOutcomes
<1>2. CASE op = "ngi"
  <2>1. -Signed(w) \in Int
    BY SignedIsInteger
  <2>2. QED
    BY <1>2, <2>1, SignedOutcomesAreWords DEF UnaryOutcomes
<1>3. CASE op = "ngf"
  BY <1>3 DEF UnaryOutcomes
<1>4. QED
  BY <1>1, <1>2, <1>3 DEF UnaryOperations

-----------------------------------------------------------------------------
(* The parts of the invariant.                                             *)

(* The first conjuncts of TypeOK, by the part of the machine they type.    *)
StackTyped(vs) ==
    /\ vs \in [data : [0 .. vs.capacity - 1 -> Nat],
               top : 0 .. vs.capacity, capacity : Nat \ {0}]
    /\ \A i \in 0 .. vs.top - 1 : vs.data[i] \in Word

FramesTyped(fs) ==
    fs \in [words : [0 .. fs.block - 1 -> Nat], block : Nat, top : Nat,
            local_variables : 0 .. fs.top, capacity : Nat]

(* The bases of the calls in progress, not only of successive ones, are in *)
(* order: what makes a write above one frame leave all those below alone.  *)
Nested ==
    \A j, k \in 1 .. Len(live) :
        j < k => live[j].base <= live[k].base - FrameWords

VariablesAreWords ==
    \A k \in 1 .. Len(live) :
        \A i \in live[k].base .. VariablesEnd(k) - 1 : frames.words[i] \in Word

Chained ==
    /\ live # << >>
    /\ live[1].base = 0
    /\ live[Len(live)].base = frames.local_variables
    /\ \A k \in 2 .. Len(live) :
          /\ live[k - 1].base <= live[k].base - FrameWords
          /\ frames.words[live[k].base - FrameWords] = live[k].return_ip
          /\ frames.words[live[k].base - FrameWords + 1] = live[k - 1].base
    /\ frames.local_variables <= frames.top
    /\ frames.top <= frames.block
    /\ frames.block = frames.capacity

Layout == Chained /\ Nested /\ VariablesAreWords

(* The two halves of the inductive invariant: what the operations on the   *)
(* value stack keep, and what those on the frames keep.                    *)
ControlInv ==
    /\ bytecode \in Programs
    /\ ip \in Nat
    /\ StackTyped(value_stack)
    /\ status \in {"running", "exited", "invalid", "undefined"}
    /\ output \in [call : {"none"} \union Syscalls, var : Nat, val : Word]

FramesInv ==
    /\ FramesTyped(frames)
    /\ live \in Seq([base : Nat, return_ip : Nat])
    /\ status # "undefined" => Layout

IInv == ControlInv /\ FramesInv

-----------------------------------------------------------------------------
(* The argument of an instruction is a number, and that of sca and loc a   *)
(* word (VmAssumption).                                                    *)
LEMMA Instruction ==
    ASSUME ControlInv, ip < Len(bytecode)
    PROVE  /\ Arg \in Nat
           /\ Op \in {"sca", "loc"} => Arg \in Word
<1>1. bytecode \in Seq([op : STRING, arg : Nat]) /\ ip \in Nat
  BY VmAssumption DEF ControlInv
<1>2. ip + 1 \in 1 .. Len(bytecode)
  BY <1>1
<1>3. bytecode[ip + 1] \in [op : STRING, arg : Nat]
  BY <1>1, <1>2, ElementOfSeq
<1>4. ip + 1 \in DOMAIN bytecode
  BY <1>1, <1>2
<1>5. Op \in {"sca", "loc"} => Arg \in Word
  BY <1>4, VmAssumption DEF ControlInv, Op, Arg
<1>6. QED
  BY <1>3, <1>5 DEF Arg

(* The words an operation takes off the value stack are words.             *)
LEMMA Operands ==
    ASSUME StackTyped(value_stack)
    PROVE  /\ value_stack.top >= 1 => Top \in Word
           /\ value_stack.top >= 2 => Below \in Word
BY DEF StackTyped, Top, Below

(* push, growing or not, keeps the value stack typed and adds one word.    *)
LEMMA PushKeepsType ==
    ASSUME NEW vs, StackTyped(vs), NEW w \in Word
    PROVE  StackTyped(push(vs, w)) /\ push(vs, w).top = vs.top + 1
<1>1. /\ vs.capacity \in Nat \ {0} /\ vs.top \in 0 .. vs.capacity
      /\ vs.data \in [0 .. vs.capacity - 1 -> Nat]
      /\ \A i \in 0 .. vs.top - 1 : vs.data[i] \in Word
      /\ w \in Nat
  BY WordFacts DEF StackTyped
<1> DEFINE s == IF vs.top = vs.capacity THEN Grown(vs) ELSE vs
<1>2. /\ s = [data |-> s.data, top |-> s.top, capacity |-> s.capacity]
      /\ s.top = vs.top /\ s.capacity \in Nat \ {0} /\ s.top < s.capacity
      /\ s.data \in [0 .. s.capacity - 1 -> Nat]
      /\ \A i \in 0 .. s.top - 1 : s.data[i] \in Word
  <2>1. CASE vs.top = vs.capacity
    <3>1. s = [data |-> Realloc(vs.data, 2 * vs.capacity), top |-> vs.top,
               capacity |-> 2 * vs.capacity]
      BY <2>1 DEF Grown, StackTyped
    <3>2. 2 * vs.capacity \in Nat \ {0} /\ vs.top < 2 * vs.capacity
      BY <1>1, <2>1
    <3>3. Realloc(vs.data, 2 * vs.capacity) \in [0 .. 2 * vs.capacity - 1 -> Nat]
      BY <1>1 DEF Realloc
    <3>4. \A i \in 0 .. vs.top - 1 : Realloc(vs.data, 2 * vs.capacity)[i] \in Word
      BY <1>1, <2>1 DEF Realloc
    <3>5. QED
      BY <3>1, <3>2, <3>3, <3>4
  <2>2. CASE vs.top # vs.capacity
    BY <1>1, <2>2 DEF StackTyped
  <2>3. QED
    BY <2>1, <2>2
<1> HIDE DEF s
<1>3. push(vs, w) = [s EXCEPT !.data[vs.top] = w, !.top = @ + 1]
  BY DEF push, s
<1>4. push(vs, w) = [data |-> [s.data EXCEPT ![s.top] = w], top |-> s.top + 1,
                     capacity |-> s.capacity]
  BY <1>2, <1>3
<1>5. [s.data EXCEPT ![s.top] = w] \in [0 .. s.capacity - 1 -> Nat]
  BY <1>1, <1>2
<1>6. \A i \in 0 .. s.top : [s.data EXCEPT ![s.top] = w][i] \in Word
  BY <1>1, <1>2
<1>7. QED
  BY <1>1, <1>2, <1>4, <1>5, <1>6 DEF StackTyped

LEMMA PopKeepsType ==
    ASSUME NEW vs, StackTyped(vs), NEW n \in Nat, vs.top >= n
    PROVE  StackTyped(pop(vs, n)) /\ pop(vs, n).top = vs.top - n
<1>1. pop(vs, n) = [data |-> vs.data, top |-> vs.top - n, capacity |-> vs.capacity]
  BY DEF StackTyped, pop
<1>2. QED
  BY <1>1 DEF StackTyped

-----------------------------------------------------------------------------
(* While the machine runs the block is as large as the capacity says, so a *)
(* reservation stays inside it exactly when it needs no reallocation.      *)
LEMMA BackedNeedsNoGrowth ==
    ASSUME FramesTyped(frames), Chained, NEW size \in Nat,
           Backed(frames_alloc(frames, size))
    PROVE  /\ frames_alloc(frames, size) = [frames EXCEPT !.top = @ + size]
           /\ frames.top + size <= frames.block
<1>1. /\ frames.top \in Nat /\ frames.capacity \in Nat
      /\ frames.block = frames.capacity
  BY DEF FramesTyped, Chained
<1>2. frames.capacity >= frames.top + size
  <2> SUFFICES ASSUME ~(frames.capacity >= frames.top + size) PROVE FALSE
    OBVIOUS
  <2> DEFINE fs == frames_alloc(frames, size)
  <2>1. fs = [frames EXCEPT !.words    = Realloc(@, frames.capacity),
                            !.block    = frames.capacity,
                            !.top      = @ + size,
                            !.capacity = Larger(2 * @, frames.top + size)]
    BY DEF frames_alloc
  <2>2. fs.top = frames.top + size /\ fs.block = frames.capacity
    BY <2>1 DEF FramesTyped
  <2>3. QED
    BY <1>1, <2>2 DEF Backed
<1>3. QED
  BY <1>1, <1>2 DEF frames_alloc

(* What any reservation does to the frames, backed or not.                 *)
LEMMA AllocKeepsType ==
    ASSUME FramesTyped(frames), NEW size \in Nat
    PROVE  FramesTyped(frames_alloc(frames, size))
<1>1. /\ frames.top \in Nat /\ frames.capacity \in Nat /\ frames.block \in Nat
      /\ frames.local_variables \in 0 .. frames.top
      /\ frames.words \in [0 .. frames.block - 1 -> Nat]
  BY DEF FramesTyped
<1> DEFINE fs == frames_alloc(frames, size)
<1>2. CASE frames.capacity >= frames.top + size
  <2>1. fs = [frames EXCEPT !.top = @ + size]
    BY <1>2 DEF frames_alloc
  <2>2. fs = [words |-> frames.words, block |-> frames.block,
              top |-> frames.top + size,
              local_variables |-> frames.local_variables,
              capacity |-> frames.capacity]
    BY <2>1 DEF FramesTyped
  <2>3. QED
    BY <1>1, <2>2 DEF FramesTyped
<1>3. CASE ~(frames.capacity >= frames.top + size)
  <2> DEFINE larger == Larger(2 * frames.capacity, frames.top + size)
             words == Realloc(frames.words, frames.capacity)
  <2>1. fs = [words |-> words, block |-> frames.capacity,
              top |-> frames.top + size,
              local_variables |-> frames.local_variables,
              capacity |-> larger]
    BY <1>3 DEF frames_alloc, FramesTyped
  <2>2. larger \in Nat
    BY <1>1 DEF Larger
  <2>3. words \in [0 .. frames.capacity - 1 -> Nat]
    BY <1>1 DEF Realloc
  <2>4. QED
    BY <1>1, <2>1, <2>2, <2>3 DEF FramesTyped
<1>4. QED
  BY <1>2, <1>3

(* The frames and the calls in progress are only looked at: any step that  *)
(* leaves them alone keeps their half of the invariant.                    *)
LEMMA FramesUnchangedKeepsFrames ==
    ASSUME FramesInv, FramesUnchanged,
           status' = "undefined" \/ status # "undefined"
    PROVE  FramesInv'
<1>1. frames' = frames /\ live' = live
  BY DEF FramesUnchanged
<1>2. \A k : VariablesEnd(k)' = VariablesEnd(k)
  BY <1>1 DEF VariablesEnd
<1>3. FramesTyped(frames)' /\ (live \in Seq([base : Nat, return_ip : Nat]))'
  BY <1>1 DEF FramesInv, FramesTyped
<1>4. Chained => Chained'
  BY <1>1 DEF Chained
<1>5. Nested => Nested'
  BY <1>1 DEF Nested
<1>6. VariablesAreWords => VariablesAreWords'
  BY <1>1, <1>2 DEF VariablesAreWords
<1>7. QED
  BY <1>3, <1>4, <1>5, <1>6 DEF FramesInv, Layout

(* The base of every call in progress is at or below the current           *)
(* variables, and its frame, the oldest call apart, is below them.         *)
LEMMA BasesBelow ==
    ASSUME FramesInv, Layout, NEW k \in 1 .. Len(live)
    PROVE  /\ live[k].base \in Nat
           /\ live[k].base <= frames.local_variables
           /\ k # 1 => live[k].base - FrameWords \in Nat
           /\ k # Len(live) => live[k].base <= frames.local_variables - FrameWords
<1>1. live \in Seq([base : Nat, return_ip : Nat]) /\ Len(live) \in Nat
  BY DEF FramesInv
<1>2. live[k] \in [base : Nat, return_ip : Nat]
  BY <1>1, ElementOfSeq
<1>3. live[Len(live)].base = frames.local_variables
  BY DEF Layout, Chained
<1>4. Len(live) \in 1 .. Len(live) /\ 1 \in 1 .. Len(live)
  BY <1>1
<1>n. \A m, n \in 1 .. Len(live) : m < n => live[m].base <= live[n].base - FrameWords
  BY DEF Layout, Nested
<1>5. k # Len(live) => live[k].base <= live[Len(live)].base - FrameWords
  <2>1. k # Len(live) => k < Len(live)
    BY <1>1
  <2>2. QED
    BY <1>n, <1>4, <2>1
<1>6. k # 1 => live[1].base <= live[k].base - FrameWords
  <2>1. k # 1 => 1 < k
    BY <1>1
  <2>2. QED
    BY <1>n, <1>4, <2>1
<1>7. live[1].base = 0
  BY DEF Layout, Chained
<1>8. frames.local_variables \in Nat /\ FrameWords = 2
  BY VmAssumption DEF FramesInv, FramesTyped
<1>9. QED
  BY <1>2, <1>3, <1>5, <1>6, <1>7, <1>8

(* A step that only writes words at or above the current variables, and    *)
(* leaves words there, keeps the layout.                                   *)
LEMMA WritesAboveKeepLayout ==
    ASSUME FramesInv, Layout, UNCHANGED live, FramesTyped(frames)',
           frames'.local_variables = frames.local_variables,
           frames'.top <= frames'.block,
           frames'.block = frames'.capacity,
           \A i \in 0 .. frames.local_variables - 1 : frames'.words[i] = frames.words[i],
           \A i \in frames.local_variables .. frames'.top - 1 : frames'.words[i] \in Word
    PROVE  Layout'
<1>s. Len(live) \in Nat
  BY DEF FramesInv
<1>1. /\ frames.local_variables \in Nat
      /\ frames'.top \in Nat /\ frames'.local_variables <= frames'.top
      /\ FrameWords = 2
  BY VmAssumption DEF FramesInv, FramesTyped
<1>2. \A k \in 1 .. Len(live) :
         /\ live[k].base \in Nat
         /\ live[k].base <= frames.local_variables
         /\ k # 1 => live[k].base - FrameWords \in Nat
         /\ k # Len(live) => live[k].base <= frames.local_variables - FrameWords
  BY BasesBelow
<1>3. Chained'
  <2>1. \A k \in 2 .. Len(live) :
           /\ frames'.words[live[k].base - FrameWords] = live[k].return_ip
           /\ frames'.words[live[k].base - FrameWords + 1] = live[k - 1].base
    <3> SUFFICES ASSUME NEW k \in 2 .. Len(live)
                 PROVE  /\ frames'.words[live[k].base - FrameWords] = live[k].return_ip
                        /\ frames'.words[live[k].base - FrameWords + 1] = live[k - 1].base
      OBVIOUS
    <3>1. k \in 1 .. Len(live) /\ k # 1
      BY <1>s
    <3>2. /\ live[k].base - FrameWords \in 0 .. frames.local_variables - 1
          /\ live[k].base - FrameWords + 1 \in 0 .. frames.local_variables - 1
      <4>1. /\ live[k].base - FrameWords \in Nat /\ live[k].base \in Nat
            /\ live[k].base <= frames.local_variables
        BY <1>2, <3>1
      <4>2. QED
        BY <1>1, <4>1
    <3>3. /\ frames.words[live[k].base - FrameWords] = live[k].return_ip
          /\ frames.words[live[k].base - FrameWords + 1] = live[k - 1].base
      BY DEF Layout, Chained
    <3>4. QED
      BY <3>2, <3>3
  <2>2. QED
    BY <1>s, <1>1, <2>1 DEF Layout, Chained
<1>4. Nested'
  BY DEF Layout, Nested
<1>5. VariablesAreWords'
  <2> SUFFICES ASSUME NEW k \in 1 .. Len(live),
                      NEW i \in live[k].base .. VariablesEnd(k)' - 1
               PROVE  frames'.words[i] \in Word
    BY DEF VariablesAreWords
  <2>1. CASE k = Len(live)
    <3>1. live[k].base = frames.local_variables /\ VariablesEnd(k)' = frames'.top
      BY <2>1 DEF Layout, Chained, VariablesEnd
    <3>2. QED
      BY <3>1
  <2>2. CASE k # Len(live)
    <3>1. /\ VariablesEnd(k) = live[k + 1].base - FrameWords
          /\ VariablesEnd(k)' = live[k + 1].base - FrameWords
      BY <2>2 DEF VariablesEnd
    <3>2. k + 1 \in 1 .. Len(live)
      BY <1>s, <2>2
    <3>3. live[k + 1].base \in Nat /\ live[k + 1].base <= frames.local_variables
      BY <1>2, <3>2
    <3>4. i \in 0 .. frames.local_variables - 1
      <4>1. live[k].base \in Nat
        BY <1>2
      <4>2. QED
        BY <1>1, <3>1, <3>3, <4>1
    <3>5. frames.words[i] \in Word
      BY <3>1 DEF Layout, VariablesAreWords
    <3>6. QED
      BY <3>4, <3>5
  <2>3. QED
    BY <2>1, <2>2
<1>6. QED
  BY <1>3, <1>4, <1>5 DEF Layout

-----------------------------------------------------------------------------
(* One lemma per action that writes the frames.                            *)

LEMMA CurrentVariables ==
    ASSUME FramesInv, Layout
    PROVE  \A i \in frames.local_variables .. frames.top - 1 : frames.words[i] \in Word
<1>1. Len(live) \in 1 .. Len(live)
  <2>1. live \in Seq([base : Nat, return_ip : Nat]) /\ live # << >>
    BY DEF FramesInv, Layout, Chained
  <2>2. QED
    BY <2>1
<1>2. /\ live[Len(live)].base = frames.local_variables
      /\ VariablesEnd(Len(live)) = frames.top
  BY DEF Layout, Chained, VariablesEnd
<1>3. QED
  BY <1>1, <1>2 DEF Layout, VariablesAreWords

(* op_res: the new variables are zeros above all that is in use.           *)
LEMMA OpResKeepsFrames == IInv /\ OpRes => FramesInv'
<1> SUFFICES ASSUME IInv, OpRes PROVE FramesInv'
  OBVIOUS
<1>1. FramesTyped(frames) /\ Layout /\ live' = live /\ status # "undefined"
  BY DEF IInv, FramesInv, OpRes, Executes, Running
<1>2. Arg \in Nat
  BY Instruction DEF IInv, OpRes, Executes
<1> DEFINE fs == frames_alloc(frames, Arg)
<1>3. fs = [frames EXCEPT !.top = @ + Arg] /\ frames.top + Arg <= frames.block
  BY <1>1, <1>2, BackedNeedsNoGrowth DEF OpRes, Layout
<1>4. /\ fs.top = frames.top + Arg /\ fs.words = frames.words
      /\ fs.block = frames.block /\ fs.capacity = frames.capacity
      /\ fs.local_variables = frames.local_variables
      /\ fs = [words |-> fs.words, block |-> fs.block, top |-> fs.top,
               local_variables |-> fs.local_variables, capacity |-> fs.capacity]
  BY <1>1, <1>3 DEF FramesTyped
<1> DEFINE words == [i \in DOMAIN fs.words |->
                        IF frames.top <= i /\ i < fs.top THEN 0 ELSE fs.words[i]]
<1>5. frames' = [fs EXCEPT !.words = words]
  BY DEF OpRes, Reserve
<1> HIDE DEF fs
<1>6. /\ frames.top \in Nat /\ frames.block \in Nat /\ frames.capacity \in Nat
      /\ frames.local_variables \in 0 .. frames.top
      /\ frames.words \in [0 .. frames.block - 1 -> Nat]
      /\ frames.block = frames.capacity
  BY <1>1 DEF FramesTyped, Layout, Chained
<1>7. words \in [0 .. frames.block - 1 -> Nat]
  BY <1>4, <1>6
<1>8. frames' = [words |-> words, block |-> frames.block, top |-> frames.top + Arg,
                 local_variables |-> frames.local_variables,
                 capacity |-> frames.capacity]
  BY <1>4, <1>5
<1>9. FramesTyped(frames)'
  BY <1>2, <1>6, <1>7, <1>8 DEF FramesTyped
<1>10. \A i \in 0 .. frames.local_variables - 1 : words[i] = frames.words[i]
  BY <1>3, <1>4, <1>6
<1>11. \A i \in frames.local_variables .. frames.top + Arg - 1 : words[i] \in Word
  <2>1. 0 \in Word
    BY WordFacts
  <2>2. \A i \in frames.local_variables .. frames.top - 1 : frames.words[i] \in Word
    BY <1>1, CurrentVariables DEF IInv
  <2>3. QED
    BY <1>2, <1>3, <1>4, <1>6, <2>1, <2>2
<1> HIDE DEF words
<1>12. Layout'
  <2>1. /\ frames'.words = words /\ frames'.block = frames.block
        /\ frames'.top = frames.top + Arg /\ frames'.capacity = frames.capacity
        /\ frames'.local_variables = frames.local_variables
    BY <1>8
  <2>2. frames'.top <= frames'.block /\ frames'.block = frames'.capacity
    BY <1>3, <1>6, <2>1
  <2>3. \A i \in 0 .. frames.local_variables - 1 : frames'.words[i] = frames.words[i]
    BY <1>10, <2>1
  <2>4. \A i \in frames.local_variables .. frames'.top - 1 : frames'.words[i] \in Word
    BY <1>2, <1>6, <1>11, <2>1
  <2>5. FramesInv
    BY DEF IInv
  <2>6. QED
    BY <1>1, <1>9, <2>1, <2>2, <2>3, <2>4, <2>5, WritesAboveKeepLayout
<1>13. QED
  BY <1>1, <1>9, <1>12 DEF IInv, FramesInv

(* op_set: the variable is at or above the current variables.              *)
LEMMA OpSetKeepsFrames == IInv /\ OpSet => FramesInv'
<1> SUFFICES ASSUME IInv, OpSet PROVE FramesInv'
  OBVIOUS
<1>1. FramesTyped(frames) /\ Layout /\ live' = live /\ status # "undefined"
  BY DEF IInv, FramesInv, OpSet, Executes, Running
<1>2. Arg \in Nat
  BY Instruction DEF IInv, OpSet, Executes
<1>3. /\ frames.top \in Nat /\ frames.block \in Nat /\ frames.capacity \in Nat
      /\ frames.local_variables \in 0 .. frames.top
      /\ frames.words \in [0 .. frames.block - 1 -> Nat]
      /\ frames.block = frames.capacity /\ frames.top <= frames.block
  BY <1>1 DEF FramesTyped, Layout, Chained
<1>4. Top \in Word /\ Top \in Nat
  BY Operands, WordFacts DEF IInv, ControlInv, OpSet, Executes, Pops, BinaryOperations,
     UnaryOperations, Comparisons, UnsignedComparisons, SignedComparisons,
     FloatComparisons, BitOperations, UnsignedArithmetic, SignedArithmetic,
     FloatArithmetic, StackTyped
<1> DEFINE words == [frames.words EXCEPT ![Address(Arg)] = Top]
<1>5. Address(Arg) \in frames.local_variables .. frames.block - 1
  BY <1>2, <1>3 DEF OpSet, InBlock, Address
<1>6. words \in [0 .. frames.block - 1 -> Nat]
  BY <1>3, <1>4
<1>7. frames' = [words |-> words, block |-> frames.block, top |-> frames.top,
                 local_variables |-> frames.local_variables,
                 capacity |-> frames.capacity]
  BY <1>1 DEF OpSet, FramesTyped
<1>8. FramesTyped(frames)'
  BY <1>3, <1>6, <1>7 DEF FramesTyped
<1>9. \A i \in 0 .. frames.local_variables - 1 : words[i] = frames.words[i]
  BY <1>3, <1>5
<1>10. \A i \in frames.local_variables .. frames.top - 1 : words[i] \in Word
  <2>1. \A i \in frames.local_variables .. frames.top - 1 : frames.words[i] \in Word
    BY <1>1, CurrentVariables DEF IInv
  <2>2. QED
    BY <1>3, <1>4, <2>1
<1> HIDE DEF words
<1>11. Layout'
  BY <1>1, <1>3, <1>7, <1>8, <1>9, <1>10, WritesAboveKeepLayout DEF IInv
<1>12. QED
  BY <1>1, <1>8, <1>11 DEF IInv, FramesInv

(* No call in progress has variables past the top of the frames.           *)
LEMMA VariablesEndBelow ==
    ASSUME FramesInv, Layout, NEW k \in 1 .. Len(live)
    PROVE  VariablesEnd(k) \in Int /\ VariablesEnd(k) <= frames.top
<1>1. frames.top \in Nat /\ frames.local_variables \in 0 .. frames.top /\ FrameWords = 2
  BY VmAssumption DEF FramesInv, FramesTyped
<1>2. CASE k = Len(live)
  BY <1>1, <1>2 DEF VariablesEnd
<1>3. CASE k # Len(live)
  <2>1. VariablesEnd(k) = live[k + 1].base - FrameWords
    BY <1>3 DEF VariablesEnd
  <2>2. k + 1 \in 1 .. Len(live)
    <3>1. Len(live) \in Nat
      BY DEF FramesInv
    <3>2. QED
      BY <1>3, <3>1
  <2>3. live[k + 1].base \in Nat /\ live[k + 1].base <= frames.local_variables
    BY <2>2, BasesBelow
  <2>4. QED
    BY <1>1, <2>1, <2>3
<1>4. QED
  BY <1>2, <1>3

(* What is in a sequence that is appended to.                              *)
LEMMA AppendFacts ==
    ASSUME NEW S, NEW s \in Seq(S), NEW x \in S, s # << >>
    PROVE  /\ Append(s, x) \in Seq(S)
           /\ Len(s) \in Nat \ {0} /\ Len(Append(s, x)) = Len(s) + 1 /\ Append(s, x) # << >>
           /\ Append(s, x)[Len(s) + 1] = x
           /\ \A k \in 1 .. Len(s) : Append(s, x)[k] = s[k]
OBVIOUS

(* op_cal: the new frame starts at the top and its variables after it.     *)
LEMMA OpCalKeepsFrames == IInv /\ OpCal => FramesInv'
<1> SUFFICES ASSUME IInv, OpCal PROVE FramesInv'
  OBVIOUS
<1>0. FramesInv
  BY DEF IInv
<1>1. /\ FramesTyped(frames) /\ Layout /\ status # "undefined" /\ ip \in Nat
      /\ live \in Seq([base : Nat, return_ip : Nat]) /\ FrameWords = 2
  BY VmAssumption DEF IInv, FramesInv, ControlInv, OpCal, Executes, Running
<1>2. /\ frames.top \in Nat /\ frames.block \in Nat /\ frames.capacity \in Nat
      /\ frames.local_variables \in 0 .. frames.top
      /\ frames.words \in [0 .. frames.block - 1 -> Nat]
      /\ frames.block = frames.capacity /\ ip + 1 \in Nat /\ FrameWords = 2
  BY <1>1 DEF FramesTyped, Layout, Chained
<1> DEFINE fs == frames_alloc(frames, FrameWords)
           top == frames.top
           n == Len(live)
           call == [base |-> top + FrameWords, return_ip |-> ip + 1]
           words == [frames.words EXCEPT ![top] = ip + 1,
                                         ![top + 1] = frames.local_variables]
<1>3. fs = [frames EXCEPT !.top = @ + FrameWords] /\ top + FrameWords <= frames.block
  BY <1>1, BackedNeedsNoGrowth DEF OpCal, Layout
<1>4. frames' = [fs EXCEPT !.words = [@ EXCEPT ![top] = ip + 1,
                                               ![top + 1] = frames.local_variables],
                           !.local_variables = fs.top]
  BY DEF OpCal, PushFrame
<1>5. frames' = [words |-> words, block |-> frames.block, top |-> top + FrameWords,
                 local_variables |-> top + FrameWords, capacity |-> frames.capacity]
  BY <1>1, <1>3, <1>4 DEF FramesTyped
<1>m. /\ top \in Nat /\ frames.block \in Nat /\ FrameWords = 2
      /\ frames.local_variables \in 0 .. top
  BY <1>2
<1>6. words \in [0 .. frames.block - 1 -> Nat]
  <2>1. [frames.words EXCEPT ![top] = ip + 1] \in [0 .. frames.block - 1 -> Nat]
    BY <1>2
  <2>2. frames.local_variables \in Nat
    BY <1>m
  <2>3. QED
    BY <2>1, <2>2
<1>7. /\ \A i \in 0 .. top - 1 : words[i] = frames.words[i]
      /\ words[top] = ip + 1 /\ words[top + 1] = frames.local_variables
  <2>1. /\ DOMAIN frames.words = 0 .. frames.block - 1
        /\ top \in 0 .. frames.block - 1 /\ top + 1 \in 0 .. frames.block - 1
        /\ top # top + 1
    BY <1>2, <1>3, <1>m
  <2>2. \A i \in 0 .. top - 1 :
           i \in 0 .. frames.block - 1 /\ i # top /\ i # top + 1
    BY <1>3, <1>m
  <2>3. QED
    BY <2>1, <2>2
<1>8. FramesTyped(frames)'
  <2>1. /\ frames.capacity \in Nat /\ top + FrameWords \in Nat
        /\ top + FrameWords \in 0 .. top + FrameWords
    BY <1>2, <1>m
  <2> HIDE DEF words, top
  <2>2. QED
    BY <1>5, <1>6, <1>m, <2>1 DEF FramesTyped
<1> HIDE DEF words, fs
<1>9. live' = Append(live, call) /\ call \in [base : Nat, return_ip : Nat]
  BY <1>2 DEF OpCal
<1>10. /\ live' \in Seq([base : Nat, return_ip : Nat])
       /\ n \in Nat \ {0} /\ Len(live') = n + 1 /\ live' # << >>
       /\ live'[n + 1] = call
       /\ \A k \in 1 .. n : live'[k] = live[k]
  <2>1. live \in Seq([base : Nat, return_ip : Nat]) /\ live # << >>
    BY <1>1 DEF Layout, Chained
  <2>2. call \in [base : Nat, return_ip : Nat]
    BY <1>9
  <2> HIDE DEF call
  <2>3. /\ Append(live, call) \in Seq([base : Nat, return_ip : Nat])
        /\ Len(live) \in Nat \ {0} /\ Len(Append(live, call)) = Len(live) + 1
        /\ Append(live, call) # << >>
        /\ Append(live, call)[Len(live) + 1] = call
        /\ \A k \in 1 .. Len(live) : Append(live, call)[k] = live[k]
    BY <2>1, <2>2, AppendFacts
  <2>4. live' = Append(live, call)
    BY <1>9
  <2>5. QED
    BY ONLY <2>3, <2>4 DEF n
<1>11. live'[n + 1].base = top + FrameWords /\ live'[n + 1].return_ip = ip + 1
  BY <1>10
<1>n. n \in Nat \ {0} /\ Len(live') = n + 1 /\ n \in 1 .. n /\ 1 \in 1 .. n
  BY <1>10
<1> HIDE DEF call, n
<1>12. live[n].base = frames.local_variables /\ live[1].base = 0
  BY <1>1 DEF Layout, Chained, n
<1>13. \A k \in 1 .. n :
          /\ live[k].base \in Nat
          /\ live[k].base <= frames.local_variables
          /\ k # 1 => live[k].base - FrameWords \in Nat
  BY <1>0, <1>1, BasesBelow DEF n
<1>14. /\ frames'.words = words /\ frames'.block = frames.block
       /\ frames'.top = top + FrameWords /\ frames'.capacity = frames.capacity
       /\ frames'.local_variables = top + FrameWords
  BY <1>5
<1>15. Chained'
  <2>1. \A k \in 2 .. n + 1 :
           /\ live'[k - 1].base <= live'[k].base - FrameWords
           /\ words[live'[k].base - FrameWords] = live'[k].return_ip
           /\ words[live'[k].base - FrameWords + 1] = live'[k - 1].base
    <3> SUFFICES ASSUME NEW k \in 2 .. n + 1
                 PROVE  /\ live'[k - 1].base <= live'[k].base - FrameWords
                        /\ words[live'[k].base - FrameWords] = live'[k].return_ip
                        /\ words[live'[k].base - FrameWords + 1] = live'[k - 1].base
      OBVIOUS
    <3>1. CASE k = n + 1
      <4>1. live'[k - 1] = live[n]
        BY <1>n, <1>10, <3>1 DEF n
      <4>2. live'[k].base - FrameWords = top
        BY <1>2, <1>11, <3>1
      <4>3. QED
        BY <1>2, <1>7, <1>11, <1>12, <3>1, <4>1, <4>2
    <3>2. CASE k # n + 1
      <4>1. k \in 1 .. n /\ k \in 2 .. n /\ k - 1 \in 1 .. n /\ k # 1
        BY <1>n, <3>2
      <4>2. live'[k] = live[k] /\ live'[k - 1] = live[k - 1]
        BY <1>10, <4>1 DEF n
      <4>3. /\ live[k - 1].base <= live[k].base - FrameWords
            /\ frames.words[live[k].base - FrameWords] = live[k].return_ip
            /\ frames.words[live[k].base - FrameWords + 1] = live[k - 1].base
        BY <1>1, <4>1 DEF Layout, Chained, n
      <4>4. /\ live[k].base - FrameWords \in Nat /\ live[k].base \in Nat
            /\ live[k].base <= frames.local_variables
        BY <1>13, <4>1
      <4>5. /\ live[k].base - FrameWords \in 0 .. top - 1
            /\ live[k].base - FrameWords + 1 \in 0 .. top - 1
        BY <1>m, <4>4
      <4>6. QED
        BY <1>7, <4>2, <4>3, <4>5
    <3>3. QED
      BY <3>1, <3>2
  <2>2. live'[1] = live[1]
    BY <1>n, <1>10 DEF n
  <2>3. live' # << >> /\ live'[1].base = 0 /\ live'[Len(live')].base = top + FrameWords
    BY <1>n, <1>10, <1>11, <1>12, <2>2
  <2>4. QED
    BY <1>2, <1>3, <1>n, <1>14, <2>1, <2>3 DEF Chained
<1>16. Nested'
  <2> SUFFICES ASSUME NEW j \in 1 .. n + 1, NEW k \in 1 .. n + 1, j < k
               PROVE  live'[j].base <= live'[k].base - FrameWords
    BY <1>n DEF Nested
  <2>1. j \in 1 .. n
    BY <1>n
  <2>2. live'[j] = live[j]
    BY <1>10, <2>1 DEF n
  <2>3. CASE k = n + 1
    <3>1. live[j].base \in Nat /\ live[j].base <= frames.local_variables
      BY <1>13, <2>1
    <3>2. QED
      BY <1>2, <1>11, <2>2, <2>3, <3>1
  <2>4. CASE k # n + 1
    <3>1. k \in 1 .. n
      BY <1>n, <2>4
    <3>2. live'[k] = live[k]
      BY <1>10, <3>1 DEF n
    <3>3. live[j].base <= live[k].base - FrameWords
      BY <1>1, <2>1, <3>1 DEF Layout, Nested, n
    <3>4. QED
      BY <2>2, <3>2, <3>3
  <2>5. QED
    BY <2>3, <2>4
<1>17. VariablesAreWords'
  <2> SUFFICES ASSUME NEW k \in 1 .. n + 1,
                      NEW i \in live'[k].base .. VariablesEnd(k)' - 1
               PROVE  words[i] \in Word
    BY <1>n, <1>14 DEF VariablesAreWords
  <2>1. CASE k = n + 1
    <3>1. VariablesEnd(k)' = top + FrameWords
      BY <1>n, <1>14, <2>1 DEF VariablesEnd
    <3>2. live'[k].base = top + FrameWords
      BY <1>11, <2>1
    <3>3. QED
      BY <1>2, <3>1, <3>2
  <2>2. CASE k # n + 1
    <3>1. k \in 1 .. n
      BY <1>n, <2>2
    <3>2. live'[k] = live[k]
      BY <1>10, <3>1 DEF n
    <3>3. VariablesEnd(k)' = VariablesEnd(k)
      <4>1. VariablesEnd(k)' = live'[k + 1].base - FrameWords
        BY <1>n, <2>2 DEF VariablesEnd
      <4>2. CASE k = n
        <5>1. live'[k + 1].base - FrameWords = top
          BY <1>2, <1>11, <4>2
        <5>2. VariablesEnd(k) = top
          BY <4>2 DEF VariablesEnd, n
        <5>3. QED
          BY <4>1, <5>1, <5>2
      <4>3. CASE k # n
        <5>1. k + 1 \in 1 .. n
          BY <1>n, <3>1, <4>3
        <5>2. live'[k + 1] = live[k + 1]
          BY <1>10, <5>1 DEF n
        <5>3. VariablesEnd(k) = live[k + 1].base - FrameWords
          BY <4>3 DEF VariablesEnd, n
        <5>4. QED
          BY <4>1, <5>2, <5>3
      <4>4. QED
        BY <4>2, <4>3
    <3>4. /\ live[k].base \in Nat
          /\ VariablesEnd(k) \in Int /\ VariablesEnd(k) <= top
      BY <1>0, <1>1, <1>13, <3>1, VariablesEndBelow DEF n
    <3>5. i \in live[k].base .. VariablesEnd(k) - 1
      BY <3>2, <3>3
    <3>6. frames.words[i] \in Word
      BY <1>1, <3>1, <3>5 DEF Layout, VariablesAreWords, n
    <3>7. i \in 0 .. top - 1
      BY <1>2, <3>4, <3>5
    <3>8. QED
      BY <1>7, <3>6, <3>7
  <2>3. QED
    BY <2>1, <2>2
<1>18. QED
  BY <1>8, <1>10, <1>15, <1>16, <1>17 DEF FramesInv, Layout

(* A return that stays inside the frames finds, in the frame below the     *)
(* current variables, what the last call saved.                            *)
LEMMA ReturnStep ==
    ASSUME FramesInv, Layout, Frame >= 0
    PROVE  LET n == Len(live)
           IN  /\ n \in Nat /\ n >= 2
               /\ live[n].base = frames.local_variables
               /\ live[n - 1].base <= frames.local_variables - FrameWords
               /\ ReturnLocalVariables = live[n - 1].base
               /\ ReturnIp = live[n].return_ip
<1> DEFINE n == Len(live)
           lv == frames.local_variables
<1>1. live \in Seq([base : Nat, return_ip : Nat])
  BY DEF FramesInv
<1>2. lv \in Nat /\ FrameWords = 2 /\ Frame = lv - FrameWords
  BY VmAssumption DEF FramesInv, FramesTyped, Frame
<1>3. live[n].base = lv /\ live[1].base = 0 /\ live # << >>
  BY DEF Layout, Chained
<1>4. n \in Nat /\ n >= 2
  <2>1. n \in Nat /\ n # 0
    BY <1>1, <1>3
  <2>2. n # 1
    BY <1>2, <1>3
  <2> HIDE DEF n
  <2>3. QED
    BY <2>1, <2>2
<1>5. n \in 2 .. Len(live)
  BY <1>4
<1>6. /\ live[n - 1].base <= live[n].base - FrameWords
      /\ frames.words[live[n].base - FrameWords] = live[n].return_ip
      /\ frames.words[live[n].base - FrameWords + 1] = live[n - 1].base
  BY <1>5 DEF Layout, Chained
<1>7. QED
  BY <1>2, <1>3, <1>4, <1>6 DEF ReturnLocalVariables, ReturnIp

(* op_ret: the frame of the last call gives back what op_cal saved.        *)
LEMMA OpRetKeepsFrames == IInv /\ OpRet => FramesInv'
<1> SUFFICES ASSUME IInv, OpRet PROVE FramesInv'
  OBVIOUS
<1>0. FramesInv
  BY DEF IInv
<1>1. /\ FramesTyped(frames) /\ Layout /\ Frame >= 0
      /\ live \in Seq([base : Nat, return_ip : Nat])
  BY DEF IInv, FramesInv, OpRet, Executes, Running
<1> DEFINE n == Len(live)
           lv == frames.local_variables
<1>2. /\ frames.top \in Nat /\ frames.block \in Nat /\ frames.capacity \in Nat
      /\ lv \in Nat /\ lv <= frames.top /\ frames.top <= frames.block
      /\ frames.block = frames.capacity /\ FrameWords = 2
  BY <1>1, VmAssumption DEF FramesTyped, Layout, Chained
<1>3. Frame = lv - FrameWords /\ Frame \in Nat /\ lv >= FrameWords
  BY <1>1, <1>2 DEF Frame
<1>4. live[n].base = lv /\ live[1].base = 0 /\ live # << >>
  BY <1>1 DEF Layout, Chained
<1>5. n \in Nat /\ n >= 2
  BY <1>0, <1>1, ReturnStep
<1>6. /\ live' = SubSeq(live, 1, n - 1)
      /\ live' \in Seq([base : Nat, return_ip : Nat])
      /\ Len(live') = n - 1
      /\ \A k \in 1 .. n - 1 : live'[k] = live[k]
  <2>1. live' = SubSeq(live, 1, n - 1)
    BY DEF OpRet
  <2> DEFINE Call == [base : Nat, return_ip : Nat]
  <2>2. \A i \in 1 .. n - 1 : live[i] \in Call
    <3>1. \A i \in 1 .. n - 1 : i \in 1 .. Len(live)
      BY <1>5
    <3>2. QED
      BY <1>1, <3>1, ElementOfSeq
  <2>3. n - 1 \in Int /\ 1 <= n - 1
    BY <1>5
  <2> HIDE DEF n, Call
  <2>4. /\ SubSeq(live, 1, n - 1) \in Seq(Call)
        /\ Len(SubSeq(live, 1, n - 1)) = n - 1 - 1 + 1
        /\ \A i \in 1 .. n - 1 - 1 + 1 : SubSeq(live, 1, n - 1)[i] = live[1 + i - 1]
    BY <2>2, <2>3, SubSeqProperties
  <2>5. n - 1 - 1 + 1 = n - 1 /\ \A i \in 1 .. n - 1 : 1 + i - 1 = i
    BY <2>3
  <2>6. QED
    BY <2>1, <2>4, <2>5 DEF Call
<1>7. /\ live[n - 1].base <= lv - FrameWords
      /\ ReturnLocalVariables = live[n - 1].base
  BY <1>0, <1>1, ReturnStep
<1>8. live[n - 1].base \in Nat
  <2>1. n - 1 \in 1 .. Len(live)
    BY <1>5
  <2>2. QED
    BY <1>0, <1>1, <2>1, BasesBelow
<1>9. frames' = [words |-> frames.words, block |-> frames.block, top |-> lv - FrameWords,
                 local_variables |-> live[n - 1].base, capacity |-> frames.capacity]
  BY <1>1, <1>3, <1>7 DEF OpRet, PopFrame, FramesTyped
<1>10. /\ frames'.words = frames.words /\ frames'.block = frames.block
       /\ frames'.top = lv - FrameWords /\ frames'.capacity = frames.capacity
       /\ frames'.local_variables = live[n - 1].base
  BY <1>9
<1>11. FramesTyped(frames)'
  <2>1. frames.words \in [0 .. frames.block - 1 -> Nat]
    BY <1>1 DEF FramesTyped
  <2>2. lv - FrameWords \in Nat /\ live[n - 1].base \in 0 .. lv - FrameWords
    BY <1>2, <1>3, <1>7, <1>8
  <2>3. QED
    BY <1>2, <1>9, <2>1, <2>2 DEF FramesTyped
<1> HIDE DEF n
<1>12. Chained'
  <2>1. live' # << >> /\ live'[1] = live[1] /\ live'[n - 1] = live[n - 1]
    <3>1. 1 \in 1 .. n - 1 /\ n - 1 \in 1 .. n - 1
      BY <1>5
    <3>2. Len(live') # 0
      BY <1>5, <1>6
    <3>3. QED
      BY <1>6, <3>1, <3>2
  <2>2. \A k \in 2 .. n - 1 :
           /\ live'[k - 1].base <= live'[k].base - FrameWords
           /\ frames.words[live'[k].base - FrameWords] = live'[k].return_ip
           /\ frames.words[live'[k].base - FrameWords + 1] = live'[k - 1].base
    <3> SUFFICES ASSUME NEW k \in 2 .. n - 1
                 PROVE  /\ live'[k - 1].base <= live'[k].base - FrameWords
                        /\ frames.words[live'[k].base - FrameWords] = live'[k].return_ip
                        /\ frames.words[live'[k].base - FrameWords + 1] = live'[k - 1].base
      OBVIOUS
    <3>1. k \in 2 .. n /\ k \in 1 .. n - 1 /\ k - 1 \in 1 .. n - 1
      BY <1>5
    <3>2. live'[k] = live[k] /\ live'[k - 1] = live[k - 1]
      BY <1>6, <3>1
    <3>3. QED
      BY <1>1, <3>1, <3>2 DEF Layout, Chained, n
  <2>3. lv - FrameWords <= frames.block
    BY <1>2, <1>3
  <2>4. /\ live'[1].base = 0 /\ Len(live') = n - 1
        /\ live'[Len(live')].base = frames'.local_variables
    BY <1>4, <1>6, <1>10, <2>1
  <2>5. /\ frames'.local_variables <= frames'.top /\ frames'.top <= frames'.block
        /\ frames'.block = frames'.capacity
    BY <1>2, <1>7, <1>10, <2>3
  <2>6. QED
    BY <1>10, <2>1, <2>2, <2>4, <2>5 DEF Chained
<1>13. Nested'
  <2> SUFFICES ASSUME NEW j \in 1 .. n - 1, NEW k \in 1 .. n - 1, j < k
               PROVE  live'[j].base <= live'[k].base - FrameWords
    BY <1>6 DEF Nested
  <2>1. j \in 1 .. n /\ k \in 1 .. n
    BY <1>5
  <2>2. live[j].base <= live[k].base - FrameWords
    BY <1>1, <2>1 DEF Layout, Nested, n
  <2>3. QED
    BY <1>6, <2>2
<1>14. VariablesAreWords'
  <2> SUFFICES ASSUME NEW k \in 1 .. n - 1,
                      NEW i \in live'[k].base .. VariablesEnd(k)' - 1
               PROVE  frames.words[i] \in Word
    BY <1>6, <1>10 DEF VariablesAreWords
  <2>1. k \in 1 .. n /\ k # n
    BY <1>5
  <2>2. live'[k] = live[k]
    BY <1>6
  <2>3. VariablesEnd(k) = live[k + 1].base - FrameWords
    BY <2>1 DEF VariablesEnd, n
  <2>4. VariablesEnd(k)' = VariablesEnd(k)
    <3>1. CASE k = n - 1
      <4>1. VariablesEnd(k)' = lv - FrameWords
        BY <1>6, <1>10, <3>1 DEF VariablesEnd
      <4>2. k + 1 = n
        BY <1>5, <3>1
      <4>3. QED
        BY <1>4, <2>3, <4>1, <4>2
    <3>2. CASE k # n - 1
      <4>1. k + 1 \in 1 .. n - 1
        BY <1>5, <3>2
      <4>2. VariablesEnd(k)' = live'[k + 1].base - FrameWords
        BY <1>6, <3>2 DEF VariablesEnd
      <4>3. live'[k + 1] = live[k + 1]
        BY <1>6, <4>1
      <4>4. QED
        BY <2>3, <4>2, <4>3
    <3>3. QED
      BY <3>1, <3>2
  <2>5. i \in live[k].base .. VariablesEnd(k) - 1
    BY <2>2, <2>4
  <2>6. QED
    BY <1>1, <2>1, <2>5 DEF Layout, VariablesAreWords, n
<1>15. QED
  BY <1>6, <1>11, <1>12, <1>13, <1>14 DEF FramesInv, Layout

(* A reservation that leaves the block ends the run, and with it the       *)
(* layout; the frames keep their types.                                    *)
LEMMA FramesOutsideKeepsFrames == IInv /\ FramesOutside => FramesInv'
<1> SUFFICES ASSUME IInv, FramesOutside PROVE FramesInv'
  OBVIOUS
<1>1. ip < Len(bytecode)
  BY DEF FramesOutside, Executes
<1> DEFINE size == IF Op = "cal" THEN FrameWords ELSE Arg
<1>2. size \in Nat
  BY <1>1, Instruction, VmAssumption DEF IInv
<1>3. frames' = frames_alloc(frames, size) /\ status' = "undefined" /\ live' = live
  BY DEF FramesOutside, Stops
<1> HIDE DEF size
<1>4. FramesTyped(frames_alloc(frames, size))
  BY <1>2, AllocKeepsType DEF IInv, FramesInv
<1>5. FramesTyped(frames)'
  BY <1>3, <1>4 DEF FramesTyped
<1>6. QED
  BY <1>3, <1>5 DEF IInv, FramesInv

(* Every other step leaves the frames alone, and none leaves "undefined".  *)
LEMMA NextKeepsFrames == IInv /\ [Next]_vars => FramesInv'
<1> SUFFICES ASSUME IInv, [Next]_vars PROVE FramesInv'
  OBVIOUS
<1>1. CASE OpCal \/ OpRes \/ OpRet \/ OpSet \/ FramesOutside
  BY <1>1, OpCalKeepsFrames, OpResKeepsFrames, OpRetKeepsFrames, OpSetKeepsFrames,
     FramesOutsideKeepsFrames
<1>2. CASE ~(OpCal \/ OpRes \/ OpRet \/ OpSet \/ FramesOutside)
  <2>1. FramesUnchanged
    BY <1>2 DEF Next, OpNop, OpScaLoc, OpVar, OpPop, OpJmp, OpJnz, OpJze,
                ConditionalJump, OpUnary, OpBinary, Sys, SysDbg, SysExit, Invalid,
                FetchOutside, Underflow, ReturnOutside, VariableOutside, Trapped,
                FramesUnchanged, vars
  <2>2. status' = "undefined" \/ status # "undefined"
    <3>1. CASE UNCHANGED vars
      BY <3>1 DEF vars
    <3>2. CASE Next
      BY <1>2, <3>2 DEF Next, OpNop, OpScaLoc, OpVar, OpPop, OpJmp, OpJnz, OpJze,
                  ConditionalJump, OpUnary, OpBinary, Sys, SysDbg, SysExit, Invalid,
                  FetchOutside, Underflow, ReturnOutside, VariableOutside, Trapped,
                  Executes, Running
    <3>3. QED
      BY <3>1, <3>2
  <2>3. QED
    BY <2>1, <2>2, FramesUnchangedKeepsFrames DEF IInv
<1>3. QED
  BY <1>1, <1>2

-----------------------------------------------------------------------------
(* How many words each operation finds on the value stack.                 *)
LEMMA PopsCounted ==
    /\ \A op \in {"cal", "set", "pop", "jnz", "jze", "sys exit"} : Pops(op) = 1
    /\ \A op \in UnaryOperations : Pops(op) = 1
    /\ \A op \in BinaryOperations : Pops(op) = 2
BY DEF Pops, BinaryOperations, UnaryOperations, Comparisons, UnsignedComparisons,
       SignedComparisons, FloatComparisons, BitOperations, UnsignedArithmetic,
       SignedArithmetic, FloatArithmetic

LEMMA OutputTyped ==
    ASSUME NEW call \in {"none"} \union Syscalls, NEW v \in Nat, NEW w \in Word
    PROVE  /\ Output(call, v, w) \in [call : {"none"} \union Syscalls, var : Nat, val : Word]
           /\ NoOutput \in [call : {"none"} \union Syscalls, var : Nat, val : Word]
<1>1. 0 \in Word
  BY WordFacts
<1>2. QED
  BY <1>1 DEF Output, NoOutput

(* A variable of the current call, reserved or not, is read as a word.     *)
LEMMA ReadsAreWords ==
    ASSUME FramesInv, Layout, NEW v \in Nat
    PROVE  Reads(v) \subseteq Word
<1>1. frames.local_variables \in Nat /\ frames.top \in Nat
  BY DEF FramesInv, FramesTyped
<1>2. CASE Address(v) < frames.top
  <2>1. Address(v) \in frames.local_variables .. frames.top - 1
    BY <1>1, <1>2 DEF Address
  <2>2. frames.words[Address(v)] \in Word
    BY <2>1, CurrentVariables
  <2>3. QED
    BY <1>2, <2>2 DEF Reads
<1>3. CASE ~(Address(v) < frames.top)
  BY <1>3 DEF Reads
<1>4. QED
  BY <1>2, <1>3

(* What every executed instruction starts from.                            *)
LEMMA Executing ==
    ASSUME IInv, NEW op, Executes(op)
    PROVE  /\ bytecode' \in Programs /\ ip + 1 \in Nat /\ Arg \in Nat
           /\ FramesInv /\ Layout /\ status = "running" /\ op = Op
           /\ StackTyped(value_stack) /\ value_stack.top >= Pops(op)
           /\ NoOutput \in [call : {"none"} \union Syscalls, var : Nat, val : Word]
<1>1. Arg \in Nat
  BY Instruction DEF IInv, Executes
<1>2. 0 \in Word
  BY WordFacts
<1>3. QED
  BY <1>1, <1>2 DEF IInv, ControlInv, FramesInv, Executes, Running, NoOutput

(* Jumps and operations that push nothing.                                 *)
LEMMA QuietKeepsControl ==
    IInv /\ (OpNop \/ OpRes \/ OpJmp \/ OpRet \/ Sys) => ControlInv'
<1> SUFFICES ASSUME IInv, OpNop \/ OpRes \/ OpJmp \/ OpRet \/ Sys
             PROVE  ControlInv'
  OBVIOUS
<1>0. 0 \in Word
  BY WordFacts
<1>1. CASE OpNop
  BY <1>1, Executing DEF OpNop, Silently, Advance, IInv, ControlInv, StackTyped
<1>2. CASE OpRes
  BY <1>2, Executing DEF OpRes, Silently, Advance, IInv, ControlInv, StackTyped
<1>3. CASE OpJmp
  BY <1>3, Executing DEF OpJmp, Silently, IInv, ControlInv, StackTyped
<1>4. CASE OpRet
  <2>1. Executes("ret")
    BY <1>4 DEF OpRet
  <2>2. FramesTyped(frames) /\ Chained /\ FrameWords = 2
    BY <2>1, Executing, VmAssumption DEF FramesInv, Layout
  <2>3. Frame \in 0 .. frames.block - 1 /\ frames.words \in [0 .. frames.block - 1 -> Nat]
    BY <1>4, <2>2 DEF OpRet, Frame, FramesTyped, Chained
  <2>4. ReturnIp \in Nat
    BY <2>3 DEF ReturnIp
  <2>5. QED
    BY <1>4, <2>1, <2>4, Executing DEF OpRet, Silently, IInv, ControlInv, StackTyped
<1>5. CASE Sys
  <2>1. PICK op \in {"sys nop", "sys hi", "sys bye"} :
           Executes(op) /\ output' = Output(op, 0, 0)
    BY <1>5 DEF Sys
  <2>2. op \in {"none"} \union Syscalls
    BY DEF Syscalls
  <2>3. output' \in [call : {"none"} \union Syscalls, var : Nat, val : Word]
    BY <1>0, <2>1, <2>2, OutputTyped
  <2>4. QED
    BY <1>5, <2>1, <2>3, Executing DEF Sys, Advance, IInv, ControlInv, StackTyped
<1>6. QED
  BY <1>1, <1>2, <1>3, <1>4, <1>5

(* Operations that take a word and push none.                              *)
LEMMA PopsKeepControl ==
    IInv /\ (OpCal \/ OpSet \/ OpPop \/ OpJnz \/ OpJze \/ SysExit) => ControlInv'
<1> SUFFICES ASSUME IInv, OpCal \/ OpSet \/ OpPop \/ OpJnz \/ OpJze \/ SysExit
             PROVE  ControlInv'
  OBVIOUS
<1>1. PICK op \in {"cal", "set", "pop", "jnz", "jze", "sys exit"} : Executes(op)
  BY DEF OpCal, OpSet, OpPop, OpJnz, OpJze, ConditionalJump, SysExit
<1>2. StackTyped(value_stack) /\ value_stack.top >= 1
  BY <1>1, Executing, PopsCounted
<1>3. Top \in Word /\ Top \in Nat
  BY <1>2, Operands, WordFacts
<1>4. value_stack' = pop(value_stack, 1)
  BY DEF OpCal, OpSet, OpPop, OpJnz, OpJze, ConditionalJump, SysExit
<1>5. StackTyped(pop(value_stack, 1))
  BY <1>2, PopKeepsType
<1>6. StackTyped(value_stack)'
  BY <1>4, <1>5 DEF StackTyped
<1>7. ip' \in Nat
  BY <1>1, <1>3, Executing
  DEF OpCal, OpSet, OpPop, OpJnz, OpJze, ConditionalJump, SysExit, Advance
<1>8. output' \in [call : {"none"} \union Syscalls, var : Nat, val : Word]
  <2>1. CASE SysExit
    <3>1. "sys exit" \in {"none"} \union Syscalls /\ output' = Output("sys exit", 0, Top)
      BY <2>1 DEF SysExit, Syscalls
    <3>2. QED
      BY <1>3, <3>1, OutputTyped
  <2>2. CASE ~SysExit
    <3>1. output' = NoOutput
      BY <2>2 DEF OpCal, OpSet, OpPop, OpJnz, OpJze, ConditionalJump, Silently
    <3>2. QED
      BY <1>1, <3>1, Executing
  <2>3. QED
    BY <2>1, <2>2
<1>9. bytecode' \in Programs /\ status' \in {"running", "exited"}
  BY <1>1, Executing
  DEF OpCal, OpSet, OpPop, OpJnz, OpJze, ConditionalJump, SysExit, Silently
<1>10. QED
  BY <1>6, <1>7, <1>8, <1>9 DEF ControlInv

(* Operations that push a constant, a variable or a result.                *)
LEMMA PushesKeepControl ==
    IInv /\ (OpScaLoc \/ OpVar \/ OpUnary \/ OpBinary) => ControlInv'
<1> SUFFICES ASSUME IInv, OpScaLoc \/ OpVar \/ OpUnary \/ OpBinary
             PROVE  ControlInv'
  OBVIOUS
<1>1. PICK op : Executes(op)
  BY DEF OpScaLoc, OpVar, OpUnary, OpBinary
<1>2. /\ ip' = ip + 1 /\ output' = NoOutput /\ status' = status
  BY DEF OpScaLoc, OpVar, OpUnary, OpBinary, Silently, Advance
<1>3. PICK n \in 0 .. 2, w \in Word :
         value_stack' = push(pop(value_stack, n), w) /\ value_stack.top >= n
  <2>0. StackTyped(value_stack) /\ value_stack.top \in Nat /\ pop(value_stack, 0) = value_stack
    <3>1. StackTyped(value_stack)
      BY DEF IInv, ControlInv
    <3>2. QED
      BY <3>1 DEF StackTyped, pop
  <2>1. CASE OpScaLoc
    <3>1. Arg \in Word
      BY <2>1, Instruction DEF OpScaLoc, Executes, IInv
    <3>2. QED
      BY <2>0, <2>1, <3>1 DEF OpScaLoc
  <2>2. CASE OpVar
    <3>1. PICK w \in Reads(Arg) : value_stack' = push(value_stack, w)
      BY <2>2 DEF OpVar
    <3>2. w \in Word
      BY <1>1, <3>1, Executing, ReadsAreWords
    <3>3. QED
      BY <2>0, <3>1, <3>2
  <2>3. CASE OpUnary
    <3>0. PICK o \in UnaryOperations :
             /\ Executes(o)
             /\ \E w \in UnaryOutcomes(o, Top) \ {Trap} :
                    value_stack' = push(pop(value_stack, 1), w)
      BY <2>3 DEF OpUnary
    <3>1. PICK w \in UnaryOutcomes(o, Top) \ {Trap} :
             value_stack' = push(pop(value_stack, 1), w)
      BY <3>0
    <3>2. value_stack.top >= 1
      BY <3>0, Executing, PopsCounted
    <3>3. w \in Word
      BY <2>0, <3>1, <3>2, Operands, UnaryYieldsWord
    <3>4. QED
      BY <3>1, <3>2, <3>3
  <2>4. CASE OpBinary
    <3>0. PICK o \in BinaryOperations :
             /\ Executes(o)
             /\ \E w \in BinaryOutcomes(o, Below, Top) \ {Trap} :
                    value_stack' = push(pop(value_stack, 2), w)
      BY <2>4 DEF OpBinary
    <3>1. PICK w \in BinaryOutcomes(o, Below, Top) \ {Trap} :
             value_stack' = push(pop(value_stack, 2), w)
      BY <3>0
    <3>2. value_stack.top >= 2 /\ value_stack.top >= 1
      <4>1. value_stack.top >= Pops(o) /\ Pops(o) = 2
        BY <3>0, Executing, PopsCounted
      <4>2. QED
        BY <2>0, <4>1
    <3>3. w \in Word
      BY <2>0, <3>1, <3>2, Operands, BinaryYieldsWord
    <3>4. QED
      BY <3>1, <3>2, <3>3
  <2>5. QED
    BY <2>1, <2>2, <2>3, <2>4
<1>4. StackTyped(push(pop(value_stack, n), w))
  <2>1. StackTyped(pop(value_stack, n))
    BY <1>3, PopKeepsType DEF IInv, ControlInv
  <2>2. QED
    BY <2>1, PushKeepsType
<1>5. StackTyped(value_stack)'
  BY <1>3, <1>4 DEF StackTyped
<1>6. QED
  BY <1>1, <1>2, <1>5, Executing DEF ControlInv

(* System calls that show a variable, and the steps the machine stops at.  *)
LEMMA StopsKeepControl ==
    IInv /\ (SysDbg \/ Invalid \/ FetchOutside \/ Underflow \/ ReturnOutside
                \/ VariableOutside \/ FramesOutside \/ Trapped)
        => ControlInv'
<1> SUFFICES ASSUME IInv,
                    SysDbg \/ Invalid \/ FetchOutside \/ Underflow \/ ReturnOutside
                       \/ VariableOutside \/ FramesOutside \/ Trapped
             PROVE  ControlInv'
  OBVIOUS
<1>1. StackTyped(value_stack)' /\ ip + 1 \in Nat
  <2>1. value_stack' = value_stack
    BY DEF SysDbg, Invalid, FetchOutside, Underflow, ReturnOutside, VariableOutside,
           FramesOutside, Trapped
  <2>2. StackTyped(value_stack) /\ ip \in Nat
    BY DEF IInv, ControlInv
  <2>3. QED
    BY <2>1, <2>2 DEF StackTyped
<1>2. NoOutput \in [call : {"none"} \union Syscalls, var : Nat, val : Word]
  BY WordFacts DEF NoOutput
<1>3. CASE SysDbg
  <2>1. Executes("sys dbg") /\ "sys dbg" \in {"none"} \union Syscalls
    BY <1>3 DEF SysDbg, Syscalls
  <2>2. PICK w \in Reads(Arg) : output' = Output("sys dbg", Arg, w)
    BY <1>3 DEF SysDbg
  <2>3. output' \in [call : {"none"} \union Syscalls, var : Nat, val : Word]
    BY <2>1, <2>2, Executing, ReadsAreWords, OutputTyped
  <2>4. QED
    BY <1>1, <1>3, <2>1, <2>3 DEF SysDbg, Executes, Advance, IInv, ControlInv
<1>4. CASE Invalid
  BY <1>1, <1>2, <1>4 DEF Invalid, Advance, IInv, ControlInv
<1>5. CASE Stops
  BY <1>1, <1>2, <1>5 DEF Stops, IInv, ControlInv
<1>6. QED
  BY <1>3, <1>4, <1>5 DEF FetchOutside, Underflow, ReturnOutside, VariableOutside,
                          FramesOutside, Trapped

-----------------------------------------------------------------------------
LEMMA InitInvariant == Init => IInv
<1> SUFFICES ASSUME Init PROVE IInv
  OBVIOUS
<1>1. StackBlock \in Nat \ {0} /\ FrameBlock \in Nat /\ FrameWords = 2 /\ 0 \in Word
  BY VmAssumption, WordFacts
<1>2. StackTyped(value_stack)
  <2>1. value_stack = [data     |-> [i \in 0 .. StackBlock - 1 |-> 0],
                       top      |-> 0,
                       capacity |-> StackBlock]
    BY DEF Init
  <2>2. QED
    BY <1>1, <2>1 DEF StackTyped
<1>3. ControlInv
  BY <1>1, <1>2 DEF Init, ControlInv, NoOutput
<1>4. frames = [words           |-> [i \in 0 .. FrameBlock - 1 |-> 0],
                block           |-> FrameBlock,
                top             |-> 0,
                local_variables |-> 0,
                capacity        |-> FrameBlock]
  BY DEF Init
<1>5. FramesTyped(frames)
  BY <1>1, <1>4 DEF FramesTyped
<1>6. /\ live = << [base |-> 0, return_ip |-> 0] >>
      /\ live \in Seq([base : Nat, return_ip : Nat])
      /\ Len(live) = 1 /\ live[1].base = 0 /\ live # << >>
  BY DEF Init
<1>7. Chained
  BY <1>1, <1>4, <1>6 DEF Chained
<1>8. Nested
  BY <1>6 DEF Nested
<1>9. VariablesAreWords
  <2> SUFFICES ASSUME NEW k \in 1 .. Len(live), NEW i \in live[k].base .. VariablesEnd(k) - 1
               PROVE  FALSE
    BY DEF VariablesAreWords
  <2>1. k = 1
    BY <1>6
  <2>2. VariablesEnd(k) = 0 /\ live[k].base = 0
    BY <1>4, <1>6, <2>1 DEF VariablesEnd
  <2>3. QED
    BY <2>2
<1>10. QED
  BY <1>3, <1>5, <1>6, <1>7, <1>8, <1>9 DEF IInv, FramesInv, Layout

LEMMA NextKeepsControl == IInv /\ [Next]_vars => ControlInv'
<1>1. IInv /\ Next => ControlInv'
  BY QuietKeepsControl, PopsKeepControl, PushesKeepControl, StopsKeepControl DEF Next
<1>2. IInv /\ UNCHANGED vars => ControlInv'
  BY DEF IInv, ControlInv, StackTyped, vars
<1>3. QED
  BY <1>1, <1>2

(* The machine keeps its types and the layout of its frames, whatever the  *)
(* program, until it does what C leaves undefined.                         *)
THEOREM Invariant == Spec => []IInv
<1>1. IInv /\ [Next]_vars => IInv'
  BY NextKeepsControl, NextKeepsFrames DEF IInv
<1>2. QED
  BY <1>1, InitInvariant, PTL DEF Spec

(* Every part of the machine has its type: in particular the value stack   *)
(* stays within its block, and the variables of every call are words.      *)
THEOREM TypeCorrect == Spec => []TypeOK
<1>1. IInv => TypeOK
  <2> SUFFICES ASSUME IInv PROVE TypeOK
    OBVIOUS
  <2>1. bytecode \in Seq([op : STRING, arg : Nat])
    BY VmAssumption DEF IInv, ControlInv
  <2>2. QED
    BY <2>1 DEF IInv, ControlInv, FramesInv, StackTyped, FramesTyped, Layout,
                VariablesAreWords, TypeOK
<1>2. QED
  BY <1>1, Invariant, PTL

(* The saved frames lead from the current call down to the start of the    *)
(* block, and hold what op_cal put there (op_cal, op_ret, op_set,          *)
(* frames_alloc).                                                          *)
THEOREM FramesStayChained == Spec => []FramesChained
<1>1. IInv => FramesChained
  BY DEF IInv, FramesInv, Layout, Chained, FramesChained
<1>2. QED
  BY <1>1, Invariant, PTL

-----------------------------------------------------------------------------
(* What one step does to the words below the current variables.            *)
CallersKept ==
    \A i \in 0 .. frames.local_variables - 1 : frames'.words[i] = frames.words[i]

LEMMA NextKeepsCallers == IInv /\ Next => CallersKept
<1> SUFFICES ASSUME IInv, Next PROVE CallersKept
  OBVIOUS
<1>1. CASE frames'.words = frames.words
  BY <1>1 DEF CallersKept
<1>2. CASE OpCal \/ OpRes \/ OpSet \/ FramesOutside
  <2>1. /\ ip < Len(bytecode) /\ FramesTyped(frames) /\ Layout /\ FramesInv
    BY <1>2 DEF OpCal, OpRes, OpSet, FramesOutside, Executes, Running, IInv, FramesInv
  <2>2. /\ frames.top \in Nat /\ frames.block \in Nat
        /\ frames.local_variables \in 0 .. frames.top
        /\ frames.words \in [0 .. frames.block - 1 -> Nat]
        /\ frames.block = frames.capacity /\ frames.top <= frames.block
        /\ FrameWords = 2 /\ Arg \in Nat
    BY <2>1, Instruction, VmAssumption DEF FramesTyped, Layout, Chained, IInv
  <2>3. \A i \in 0 .. frames.local_variables - 1 :
           /\ i \in 0 .. frames.block - 1 /\ i < frames.top
           /\ i # frames.top /\ i # frames.top + 1
    BY <2>2
  <2>4. \A size \in Nat :
           Backed(frames_alloc(frames, size)) =>
              frames_alloc(frames, size) = [frames EXCEPT !.top = @ + size]
    BY <2>1, BackedNeedsNoGrowth DEF Layout
  <2>5. CASE OpCal
    <3> DEFINE fs == frames_alloc(frames, FrameWords)
    <3>1. fs = [frames EXCEPT !.top = @ + FrameWords]
      BY <2>2, <2>4, <2>5 DEF OpCal
    <3>2. fs.words = frames.words
      BY <2>1, <3>1 DEF FramesTyped
    <3>3. frames' = [fs EXCEPT !.words = [@ EXCEPT ![frames.top] = ip + 1,
                                                   ![frames.top + 1] = frames.local_variables],
                               !.local_variables = fs.top]
      BY <2>5 DEF OpCal, PushFrame
    <3>4. fs = [words |-> fs.words, block |-> fs.block, top |-> fs.top,
                local_variables |-> fs.local_variables, capacity |-> fs.capacity]
      BY <2>1, <3>1 DEF FramesTyped
    <3> HIDE DEF fs
    <3>5. frames'.words = [frames.words EXCEPT ![frames.top] = ip + 1,
                                               ![frames.top + 1] = frames.local_variables]
      BY <3>2, <3>3, <3>4
    <3>6. QED
      BY <2>2, <2>3, <3>5 DEF CallersKept
  <2>6. CASE OpRes
    <3> DEFINE fs == frames_alloc(frames, Arg)
    <3>1. fs = [frames EXCEPT !.top = @ + Arg]
      BY <2>2, <2>4, <2>6 DEF OpRes
    <3>2. fs.words = frames.words
      BY <2>1, <3>1 DEF FramesTyped
    <3>3. frames' = [fs EXCEPT !.words = [i \in DOMAIN fs.words |->
                        IF frames.top <= i /\ i < fs.top THEN 0 ELSE fs.words[i]]]
      BY <2>6 DEF OpRes, Reserve
    <3>4. fs = [words |-> fs.words, block |-> fs.block, top |-> fs.top,
                local_variables |-> fs.local_variables, capacity |-> fs.capacity]
      BY <2>1, <3>1 DEF FramesTyped
    <3> HIDE DEF fs
    <3>5. frames'.words = [i \in DOMAIN frames.words |->
                        IF frames.top <= i /\ i < fs.top THEN 0 ELSE frames.words[i]]
      BY <3>2, <3>3, <3>4
    <3>6. QED
      BY <2>2, <2>3, <3>5 DEF CallersKept
  <2>7. CASE OpSet
    <3>1. frames'.words = [frames.words EXCEPT ![Address(Arg)] = Top]
      BY <2>1, <2>7 DEF OpSet, FramesTyped
    <3>2. \A i \in 0 .. frames.local_variables - 1 : i # Address(Arg)
      BY <2>2 DEF Address
    <3>3. QED
      BY <2>2, <2>3, <3>1, <3>2 DEF CallersKept
  <2>8. CASE FramesOutside
    <3> DEFINE size == IF Op = "cal" THEN FrameWords ELSE Arg
    <3>1. frames' = frames_alloc(frames, size)
      BY <2>8 DEF FramesOutside
    <3> HIDE DEF size
    <3>2. \/ frames'.words = frames.words
          \/ frames'.words = Realloc(frames.words, frames.capacity)
      BY <2>1, <3>1 DEF frames_alloc, FramesTyped
    <3>3. \A i \in 0 .. frames.block - 1 :
             Realloc(frames.words, frames.capacity)[i] = frames.words[i]
      BY <2>2 DEF Realloc
    <3>4. QED
      BY <2>3, <3>2, <3>3 DEF CallersKept
  <2>9. QED
    BY <1>2, <2>5, <2>6, <2>7, <2>8
<1>3. CASE OpRet
  <2>1. frames'.words = frames.words
    BY <1>3 DEF OpRet, PopFrame, IInv, FramesInv, FramesTyped
  <2>2. QED
    BY <1>1, <2>1
<1>4. CASE FramesUnchanged
  BY <1>1, <1>4 DEF FramesUnchanged
<1>5. QED
  BY <1>2, <1>3, <1>4
  DEF Next, OpNop, OpScaLoc, OpVar, OpPop, OpJmp, OpJnz, OpJze, ConditionalJump,
      OpUnary, OpBinary, Sys, SysDbg, SysExit, Invalid, FetchOutside, Underflow,
      ReturnOutside, VariableOutside, Trapped

(* No instruction, whatever the variable it names, writes into the frames  *)
(* or the variables of the callers (op_cal, op_res, op_set).               *)
THEOREM CallersStayUntouched == Spec => CallersUntouched
<1>1. IInv /\ [Next]_vars => [CallersKept]_vars
  BY NextKeepsCallers
<1>2. QED
  BY <1>1, Invariant, PTL DEF Spec, CallersUntouched, CallersKept

(* What one step that ends a call does.                                    *)
Returned ==
    Len(live') < Len(live) =>
        /\ ip' = live[Len(live)].return_ip
        /\ frames'.local_variables = live[Len(live) - 1].base
        /\ frames'.top = live[Len(live)].base - FrameWords

LEMMA NextReturns == IInv /\ Next => Returned
<1> SUFFICES ASSUME IInv, Next, Len(live') < Len(live)
             PROVE  /\ ip' = live[Len(live)].return_ip
                    /\ frames'.local_variables = live[Len(live) - 1].base
                    /\ frames'.top = live[Len(live)].base - FrameWords
  BY DEF Returned
<1>1. live' # live
  <2>1. Len(live) \in Nat
    BY DEF IInv, FramesInv
  <2>2. QED
    BY <2>1
<1>2. ~OpCal
  <2> SUFFICES ASSUME OpCal PROVE FALSE
    OBVIOUS
  <2>1. Len(live') = Len(live) + 1 /\ Len(live) \in Nat
    BY DEF OpCal, IInv, FramesInv
  <2>2. QED
    BY <2>1
<1>3. OpRet
  BY <1>1, <1>2
  DEF Next, OpNop, OpRes, OpSet, OpScaLoc, OpVar, OpPop, OpJmp, OpJnz, OpJze,
      ConditionalJump, OpUnary, OpBinary, Sys, SysDbg, SysExit, Invalid,
      FetchOutside, Underflow, ReturnOutside, VariableOutside, FramesOutside,
      Trapped, FramesUnchanged
<1>4. FramesInv /\ Layout /\ Frame >= 0
  BY <1>3 DEF IInv, FramesInv, OpRet, Executes, Running
<1>5. /\ ip' = ReturnIp
      /\ frames'.top = Frame /\ frames'.local_variables = ReturnLocalVariables
  BY <1>3, <1>4 DEF OpRet, PopFrame, FramesInv, FramesTyped
<1>6. QED
  BY <1>4, <1>5, ReturnStep DEF Frame

(* Every call returns to where it was made, with its caller's variables    *)
(* (op_cal against op_ret).                                                *)
THEOREM CallsReturn == Spec => ReturnsToCaller
<1>1. IInv /\ [Next]_vars => [Returned]_vars
  BY NextReturns
<1>2. QED
  BY <1>1, Invariant, PTL DEF Spec, ReturnsToCaller, Returned
=============================================================================
