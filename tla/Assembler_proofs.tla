--------------------------- MODULE Assembler_proofs ---------------------------
(***************************************************************************)
(* Proofs about modules Emitter, Assembler and Disassembler, in this order *)
(* except that the texts of the assembler come last.                       *)
(*                                                                         *)
(* What is written is what is read, linking is right, and fails rightly,   *)
(* for instructions, symbols and words of any number and size that fit;    *)
(* what the emitter promises it keeps for the assembler too, which makes   *)
(* symbols while it emits instructions, and for texts of any length whose  *)
(* code fits.  What is disassembled is what was emitted.  A text is        *)
(* accepted if it is well formed, and then assembled to what it says.      *)
(*                                                                         *)
(* The reader's words and the places it finds instructions at are defined  *)
(* by recursion; that they are the writer's is proved by induction, over   *)
(* the bytewords of a word (ReadsWord) and over the instructions emitted   *)
(* (ReaderIsAtStarts).  The invariant of the emitter has the places of the *)
(* instructions and the references of the linker as witnesses.  That of    *)
(* the assembler counts: every instruction emitted and every symbol made   *)
(* was paid for by lexemes read, so that locations and symbols are words.  *)
(*                                                                         *)
(* The labels found by the disassembler are those behind it (Behind), as   *)
(* long as the references ascend.                                          *)
(*                                                                         *)
(* What the assembler reads at a place of the text is compared with what   *)
(* was read of its line up to there (Seen): an argument is read where one  *)
(* is spelled, and ends where the line goes on (Reaches).  The invariant   *)
(* (TextInv) says that what was assembled follows from the lines that are  *)
(* read, line by line (LinesAgree, LabelsAgree), or that some line is bad, *)
(* which is known before it is reported, as soon as something is left on   *)
(* the line of a thing that was assembled (Settled).                       *)
(***************************************************************************)
EXTENDS Disassembler, Induction, SequenceTheorems

-----------------------------------------------------------------------------
(* Numbers: powers and alignment.                                          *)

LEMMA Constants ==
    /\ Base \in Nat \ {0} /\ Base > 5 /\ WordLen \in Nat \ {0}
    /\ MaxEmitted \in Nat /\ MaxSymbols \in Nat
  BY EmitterAssumption

LEMMA PowersArePositive == \A j \in 0 .. WordLen : Base ^ j \in Nat \ {0}
<1> DEFINE S == {j \in 0 .. WordLen : Base ^ j \in Nat \ {0}}
<1>1. 0 \in S
  BY Constants, PowersOfBase
<1>2. ASSUME NEW j \in S \intersect 0 .. WordLen - 1 PROVE j + 1 \in S
  <2>1. Base * Base ^ j \in Nat \ {0}
    BY Constants, ProductFacts
  <2>2. Base ^ (j + 1) = Base * Base ^ j
    BY PowersOfBase
  <2>3. j + 1 \in 0 .. WordLen
    BY Constants
  <2>4. QED
    BY <2>1, <2>2, <2>3
<1>3. 0 .. WordLen \subseteq S
  <2> HIDE DEF S
  <2>1. QED
    BY <1>1, <1>2, Constants, IntervalInduction
<1>4. QED
  BY <1>3

LEMMA WordsAreNaturals == WordValue \subseteq Nat
<1>1. Base ^ WordLen \in Nat
  BY PowersArePositive, Constants
<1>2. QED
  BY <1>1 DEF WordValue

(* What the bytewords of a word up to the j-th are worth, and what the     *)
(* next one adds.                                                          *)
Low(x, j) == x - (x \div Base ^ j) * Base ^ j

LEMMA LowFacts ==
    ASSUME NEW x \in WordValue
    PROVE  /\ Low(x, 0) = 0
           /\ Low(x, WordLen) = x
           /\ \A j \in 0 .. WordLen - 1 :
                 Low(x, j + 1) = Low(x, j) + ((x \div Base ^ j) % Base) * Base ^ j
<1>1. x \in Nat /\ WordLen \in 0 .. WordLen /\ 0 \in 0 .. WordLen
  BY Constants, PowersArePositive DEF WordValue
<1>2. Low(x, 0) = 0
  <2>1. x \div 1 = x
    BY <1>1
  <2>2. QED
    BY <1>1, <2>1, PowersOfBase DEF Low
<1>3. Low(x, WordLen) = x
  <2> DEFINE P == Base ^ WordLen
  <2>1. P \in Nat \ {0} /\ x \in 0 .. P - 1
    BY <1>1, PowersArePositive DEF WordValue
  <2> HIDE DEF P
  <2>2. x \div P = 0
    BY <1>1, <2>1, QuotientIsUnique
  <2>3. x - (x \div P) * P = x
    BY <1>1, <2>1, <2>2
  <2>4. QED
    BY <2>3 DEF Low, P
<1>4. ASSUME NEW j \in 0 .. WordLen - 1
      PROVE  Low(x, j + 1) = Low(x, j) + ((x \div Base ^ j) % Base) * Base ^ j
  <2> DEFINE P == Base ^ j
             q == x \div P
             p == q \div Base
             d == q % Base
  <2>1. P \in Nat \ {0} /\ Base ^ (j + 1) = Base * P
    BY Constants, PowersArePositive, PowersOfBase
  <2>2. x \div Base ^ (j + 1) = p
    <3>1. x \div (Base * P) = (x \div P) \div Base
      <4> HIDE DEF P
      <4>1. QED
        BY <1>1, <2>1, Constants, QuotientOfQuotient
    <3>2. QED
      BY <2>1, <3>1, Zenon
  <2>3. q \in Nat
    BY <1>1, <2>1, QuotientAndRest
  <2>4. Low(x, j + 1) = x - p * (Base * P) /\ Low(x, j) = x - q * P
    BY <2>1, <2>2 DEF Low
  <2> HIDE DEF q, P
  <2>5. p \in Nat /\ d \in Nat /\ q = p * Base + d
    BY <2>3, Constants, QuotientAndRest
  <2> HIDE DEF p, d
  <2>6. q * P = p * (Base * P) + d * P
    BY <2>1, <2>5, Constants
  <2>7. Low(x, j + 1) = Low(x, j) + d * P
    <3> DEFINE u == q * P
               v == p * (Base * P)
               w == d * P
    <3>1. u \in Int /\ v \in Int /\ w \in Int
      BY <2>1, <2>3, <2>5, Constants
    <3>2. u = v + w /\ Low(x, j + 1) = x - v /\ Low(x, j) = x - u
      BY <2>4, <2>6
    <3> HIDE DEF u, v, w
    <3>3. Low(x, j + 1) = Low(x, j) + w
      BY <1>1, <3>1, <3>2
    <3>4. QED
      BY <3>3 DEF w
  <2>8. QED
    BY <2>7 DEF d, q, P
<1>5. QED
  BY <1>2, <1>3, <1>4

(* The first word boundary at or after p.                                  *)
LEMMA AlignsUp ==
    ASSUME NEW p \in Nat
    PROVE  align_up(p) \in Nat /\ p <= align_up(p) /\ align_up(p) < p + WordLen
<1> DEFINE n == p + WordLen - 1
           q == n \div WordLen
           a == q * WordLen
<1>1. n \in Nat /\ WordLen \in Nat \ {0}
  BY Constants
<1>2. q \in Nat /\ n % WordLen \in 0 .. WordLen - 1 /\ n = a + (n % WordLen)
  BY <1>1, QuotientAndRest
<1>3. a \in Nat
  BY <1>1, <1>2
<1>4. align_up(p) = a
  BY DEF align_up
<1> HIDE DEF q, a
<1>5. p <= a /\ a < p + WordLen
  BY <1>1, <1>2, <1>3
<1>6. QED
  BY <1>3, <1>4, <1>5

LEMMA BytewordsFacts ==
    ASSUME NEW x \in WordValue
    PROVE  /\ Bytewords(x) \in [1 .. WordLen -> Byteword]
           /\ Bytewords(x) \in Seq(Byteword) /\ Len(Bytewords(x)) = WordLen
<1>1. ASSUME NEW j \in 1 .. WordLen PROVE (x \div Base ^ (j - 1)) % Base \in Byteword
  <2>1. j - 1 \in 0 .. WordLen /\ x \in Nat
    BY Constants, PowersArePositive DEF WordValue
  <2>2. x \div Base ^ (j - 1) \in Nat
    BY <2>1, PowersArePositive, QuotientAndRest
  <2>3. QED
    BY <2>2, Constants, QuotientAndRest DEF Byteword
<1>2. Bytewords(x) \in [1 .. WordLen -> Byteword]
  BY <1>1 DEF Bytewords
<1>3. QED
  BY <1>2, Constants

(* A word is read from its bytewords.                                      *)
LEMMA ReadsWord ==
    ASSUME NEW s, Len(s) \in Nat, NEW p \in Nat, NEW x \in WordValue,
           p + WordLen <= Len(s),
           \A j \in 1 .. WordLen : s[p + j] = Bytewords(x)[j]
    PROVE  WordAt(s, p) = x
<1> DEFINE Sum[j \in 0 .. WordLen] ==
               IF j = 0 THEN 0 ELSE Sum[j - 1] + At(s, p + j - 1) * Base ^ (j - 1)
           g == [j \in 0 .. WordLen |-> Low(x, j)]
<1>1. ASSUME NEW j \in 0 .. WordLen - 1
      PROVE  g[j + 1] = g[j] + At(s, p + (j + 1) - 1) * Base ^ ((j + 1) - 1)
  <2>1. j + 1 \in 1 .. WordLen /\ (j + 1) - 1 = j /\ p + (j + 1) - 1 = p + j
        /\ (p + j) + 1 = p + (j + 1) /\ p + j < Len(s)
    BY Constants
  <2>2. At(s, p + j) = s[p + (j + 1)]
    BY <2>1 DEF At
  <2>3. s[p + (j + 1)] = (x \div Base ^ j) % Base
    BY <2>1 DEF Bytewords
  <2>4. g[j + 1] = Low(x, j + 1) /\ g[j] = Low(x, j)
    <3>1. j + 1 \in 0 .. WordLen /\ j \in 0 .. WordLen
      BY Constants
    <3>2. QED
      BY <3>1
  <2> HIDE DEF g
  <2>5. QED
    BY <2>1, <2>2, <2>3, <2>4, LowFacts
<1>2. g[0] = 0 /\ g[WordLen] = x
  BY Constants, LowFacts
<1>3. g = [j \in 0 .. WordLen |->
              IF j = 0 THEN 0 ELSE g[j - 1] + At(s, p + j - 1) * Base ^ (j - 1)]
  <2>1. ASSUME NEW j \in 0 .. WordLen, j # 0
        PROVE  g[j] = g[j - 1] + At(s, p + j - 1) * Base ^ (j - 1)
    <3>1. j - 1 \in 0 .. WordLen - 1 /\ (j - 1) + 1 = j
      BY <2>1, Constants
    <3> HIDE DEF g
    <3>2. QED
      BY <1>1, <3>1
  <2>2. g = [j \in 0 .. WordLen |-> g[j]]
    OBVIOUS
  <2> HIDE DEF g
  <2>3. QED
    BY <1>2, <2>1, <2>2
<1> HIDE DEF g
<1>4. Sum = [j \in 0 .. WordLen |->
                IF j = 0 THEN 0 ELSE Sum[j - 1] + At(s, p + j - 1) * Base ^ (j - 1)]
  BY <1>3, Zenon
<1>5. WordAt(s, p) = Sum[WordLen]
  BY DEF WordAt
<1> HIDE DEF Sum
<1>6. Sum[0] = 0
  BY <1>4, Constants
<1>7. ASSUME NEW j \in 0 .. WordLen - 1, Sum[j] = g[j] PROVE Sum[j + 1] = g[j + 1]
  <2>1. j + 1 \in 0 .. WordLen /\ j + 1 # 0 /\ (j + 1) - 1 = j
    BY Constants
  <2>2. Sum[j + 1] = Sum[(j + 1) - 1] + At(s, p + (j + 1) - 1) * Base ^ ((j + 1) - 1)
    BY <1>4, <2>1
  <2>3. QED
    BY <1>1, <1>7, <2>1, <2>2
<1>8. \A j \in 0 .. WordLen : Sum[j] = g[j]
  <2>1. WordLen \in Nat /\ Sum[0] = g[0]
    BY <1>2, <1>6, Constants
  <2>2. \A n \in 0 .. WordLen - 1 : Sum[n] = g[n] => Sum[n + 1] = g[n + 1]
    BY <1>7
  <2>3. QED
    BY ONLY <2>1, <2>2, SameRecursion, Zenon
<1>9. QED
  BY <1>2, <1>5, <1>8, Constants

-----------------------------------------------------------------------------
(* Instructions and where they end.                                        *)

LEMMA OperationFacts ==
    /\ Operations = {"nop", "res", "sca", "loc", "var", "hi", "dbg"}
    /\ Lead["nop"] = <<0>> /\ Lead["res"] = <<1>> /\ Lead["sca"] = <<2>>
    /\ Lead["loc"] = <<3>> /\ Lead["var"] = <<4>>
    /\ Lead["hi"] = <<5, 0>> /\ Lead["dbg"] = <<5, 1>>
    /\ ArgKind["nop"] = "none" /\ ArgKind["res"] = "imb" /\ ArgKind["sca"] = "imw"
    /\ ArgKind["loc"] = "loc" /\ ArgKind["var"] = "var"
    /\ ArgKind["hi"] = "none" /\ ArgKind["dbg"] = "var"
  BY DEF Operations, Lead, ArgKind

LEMMA LeadFacts ==
    ASSUME NEW op \in Operations
    PROVE  /\ Lead[op] \in Seq(Byteword)
           /\ Len(Lead[op]) \in 1 .. 2
           /\ op = "loc" => Len(Lead[op]) = 1
<1>1. 0 \in Byteword /\ 1 \in Byteword /\ 2 \in Byteword /\ 3 \in Byteword
      /\ 4 \in Byteword /\ 5 \in Byteword
  BY Constants DEF Byteword
<1>2. \A a \in Byteword : <<a>> \in Seq(Byteword) /\ Len(<<a>>) = 1
  OBVIOUS
<1>3. \A a, b \in Byteword : <<a, b>> \in Seq(Byteword) /\ Len(<<a, b>>) = 2
  OBVIOUS
<1>4. ASSUME NEW a \in Byteword, Lead[op] = <<a>>
      PROVE  Lead[op] \in Seq(Byteword) /\ Len(Lead[op]) = 1
  BY <1>2, <1>4, Zenon
<1>5. ASSUME NEW a \in Byteword, NEW b \in Byteword, Lead[op] = <<a, b>>
      PROVE  Lead[op] \in Seq(Byteword) /\ Len(Lead[op]) = 2
  BY <1>3, <1>5, Zenon
<1>6. op \in {"nop", "res", "sca", "loc", "var"} => Lead[op] \in Seq(Byteword) /\ Len(Lead[op]) = 1
  BY <1>1, <1>4, OperationFacts, Zenon
<1>7. op \in {"hi", "dbg"} => Lead[op] \in Seq(Byteword) /\ Len(Lead[op]) = 2
  BY <1>1, <1>5, OperationFacts, Zenon
<1>8. op \in {"nop", "res", "sca", "loc", "var"} \/ (op \in {"hi", "dbg"} /\ op # "loc")
  BY OperationFacts
<1>9. QED
  BY <1>6, <1>7, <1>8

LEMMA KindFacts ==
    ASSUME NEW op \in Operations
    PROVE  /\ ArgKind[op] = "none" \/ Narrow(ArgKind[op]) \/ Wide(ArgKind[op])
           /\ ArgKind[op] = "none" => ~Narrow(ArgKind[op]) /\ ~Wide(ArgKind[op])
           /\ ~(Narrow(ArgKind[op]) /\ Wide(ArgKind[op]))
           /\ ArgKind[op] = "loc" => op = "loc"
           /\ op = "loc" => ArgKind[op] = "loc" /\ Wide(ArgKind[op])
           /\ Wide(ArgKind[op]) => op \in {"sca", "loc"}
  BY OperationFacts DEF Narrow, Wide

(* Where the argument of an instruction that starts at p comes after.      *)
Arg(p, op) == p + Len(Lead[op])

(* Where an instruction that starts at p ends.                             *)
End(p, op) == AfterArgument(Arg(p, op), ArgKind[op])

LEMMA EndFacts ==
    ASSUME NEW p \in Nat, NEW op \in Operations
    PROVE  /\ Arg(p, op) \in Nat /\ p < Arg(p, op)
           /\ ArgKind[op] = "none" => End(p, op) = Arg(p, op)
           /\ Narrow(ArgKind[op]) => End(p, op) = Arg(p, op) + 1
           /\ Wide(ArgKind[op]) => End(p, op) = align_up(Arg(p, op)) + WordLen
           /\ End(p, op) \in Nat /\ Arg(p, op) <= End(p, op)
           /\ End(p, op) <= p + (2 * WordLen + 1)
<1> DEFINE n == Len(Lead[op])
<1>1. Arg(p, op) \in Nat /\ p < Arg(p, op) /\ Arg(p, op) <= p + 2
  <2>1. n \in 1 .. 2
    BY LeadFacts
  <2>2. Arg(p, op) = p + n
    BY DEF Arg
  <2> HIDE DEF n
  <2>3. QED
    BY <2>1, <2>2
<1>2. /\ ArgKind[op] = "none" => End(p, op) = Arg(p, op)
      /\ Narrow(ArgKind[op]) => End(p, op) = Arg(p, op) + 1
      /\ Wide(ArgKind[op]) => End(p, op) = align_up(Arg(p, op)) + WordLen
  BY KindFacts, Zenon DEF End, AfterArgument
<1>3. CASE ArgKind[op] = "none"
  BY <1>1, <1>2, <1>3, Constants
<1>4. CASE Narrow(ArgKind[op])
  BY <1>1, <1>2, <1>4, Constants
<1>5. CASE Wide(ArgKind[op])
  <2>1. align_up(Arg(p, op)) \in Nat /\ Arg(p, op) <= align_up(Arg(p, op))
        /\ align_up(Arg(p, op)) < Arg(p, op) + WordLen
    BY <1>1, AlignsUp
  <2>2. Len(Lead[op]) = 1
    <3>1. CASE op = "loc"
      BY <3>1, LeadFacts
    <3>2. CASE op = "sca"
      BY <3>2, OperationFacts
    <3>3. QED
      BY <1>5, <3>1, <3>2, KindFacts
  <2>3. Arg(p, op) = p + 1
    BY <2>2 DEF Arg
  <2>4. End(p, op) = align_up(Arg(p, op)) + WordLen
    BY <1>2, <1>5
  <2>5. QED
    BY <1>1, <1>2, <2>1, <2>3, <2>4, Constants
<1>6. ArgKind[op] = "none" \/ Narrow(ArgKind[op]) \/ Wide(ArgKind[op])
  BY KindFacts
<1>7. QED
  BY <1>3, <1>4, <1>5, <1>6, Zenon

-----------------------------------------------------------------------------
(* What a reader makes of an instruction that was encoded.                 *)

CellsAt(s, p, cells) ==
    p + Len(cells) <= Len(s) /\ \A j \in 1 .. Len(cells) : s[p + j] = cells[j]

Encoded(s, p, op, x) ==
    /\ End(p, op) <= Len(s)
    /\ CellsAt(s, p, Lead[op])
    /\ Narrow(ArgKind[op]) => s[Arg(p, op) + 1] = x % Base
    /\ Wide(ArgKind[op]) => CellsAt(s, align_up(Arg(p, op)), Bytewords(x))

LEMMA LeadsDiffer ==
    ASSUME NEW op \in Operations, NEW o \in Operations, o # op
    PROVE  \/ Lead[o][1] # Lead[op][1]
           \/ Len(Lead[o]) = 2 /\ Len(Lead[op]) = 2 /\ Lead[o][2] # Lead[op][2]
<1> DEFINE Short == {"nop", "res", "sca", "loc", "var"}
<1>1. op \in Short \/ op \in {"hi", "dbg"}
  BY OperationFacts
<1>2. o \in Short \/ o \in {"hi", "dbg"}
  BY OperationFacts
<1>3. /\ Lead["nop"][1] = 0 /\ Lead["res"][1] = 1 /\ Lead["sca"][1] = 2
      /\ Lead["loc"][1] = 3 /\ Lead["var"][1] = 4
      /\ Lead["hi"][1] = 5 /\ Lead["dbg"][1] = 5
      /\ Lead["hi"][2] = 0 /\ Lead["dbg"][2] = 1
      /\ Len(Lead["hi"]) = 2 /\ Len(Lead["dbg"]) = 2
  BY OperationFacts
<1>4. QED
  BY <1>1, <1>2, <1>3

LEMMA FindsLead ==
    ASSUME NEW p \in Nat, NEW op \in Operations, Len(instructions) \in Nat,
           CellsAt(instructions, p, Lead[op])
    PROVE  {o \in Operations : HasLead(p, o)} = {op}
<1> DEFINE n == Len(Lead[op])
<1>1. n \in 1 .. 2 /\ DOMAIN Lead[op] = 1 .. n
  BY LeadFacts
<1>2. \A j \in 1 .. n : At(instructions, p + j - 1) = Lead[op][j]
  <2> SUFFICES ASSUME NEW j \in 1 .. n
               PROVE  At(instructions, p + j - 1) = Lead[op][j]
    OBVIOUS
  <2>1. p + n <= Len(instructions) /\ instructions[p + j] = Lead[op][j]
    BY DEF CellsAt
  <2> HIDE DEF n
  <2>2. p + j - 1 < Len(instructions) /\ (p + j - 1) + 1 = p + j
    BY <1>1, <2>1
  <2>3. QED
    BY <2>1, <2>2 DEF At
<1> HIDE DEF n
<1>3. HasLead(p, op)
  BY <1>1, <1>2 DEF HasLead
<1>4. ASSUME NEW o \in Operations, HasLead(p, o), o # op PROVE FALSE
  <2>1. DOMAIN Lead[o] = 1 .. Len(Lead[o]) /\ Len(Lead[o]) \in 1 .. 2
    BY LeadFacts
  <2>2. \A j \in 1 .. Len(Lead[o]) : At(instructions, p + j - 1) = Lead[o][j]
    BY <1>4, <2>1 DEF HasLead
  <2>3. 1 \in 1 .. Len(Lead[o]) /\ 1 \in 1 .. n
    <3>1. \A m \in 1 .. 2 : 1 \in 1 .. m
      OBVIOUS
    <3>2. QED
      BY <1>1, <2>1, <3>1, Zenon
  <2>4. Lead[o][1] = Lead[op][1]
    BY <1>2, <2>2, <2>3
  <2>5. Len(Lead[o]) = 2 /\ n = 2 => Lead[o][2] = Lead[op][2]
    BY <1>2, <2>2
  <2>6. QED
    BY <1>4, <2>4, <2>5, LeadsDiffer DEF n
<1>5. QED
  BY <1>3, <1>4

(* What a reader finds as the argument.                                    *)
Read(op, x) == IF ArgKind[op] = "none" THEN 0
               ELSE IF Narrow(ArgKind[op]) THEN x % Base ELSE x

LEMMA Decodes ==
    ASSUME NEW p \in Nat, NEW op \in Operations, NEW x \in WordValue,
           instructions \in Seq(Byteword), Encoded(instructions, p, op, x)
    PROVE  /\ InstructionAt(p) = [op |-> op, arg |-> Read(op, x)]
           /\ Following(p) = End(p, op)
<1> DEFINE kind == ArgKind[op]
<1>1. Len(instructions) \in Nat
  OBVIOUS
<1>2. {o \in Operations : HasLead(p, o)} = {op}
  BY <1>1, FindsLead DEF Encoded
<1>3. ArgumentAt(Arg(p, op), kind) = Read(op, x)
  <2>1. CASE kind = "none"
    BY <2>1, KindFacts, Zenon DEF ArgumentAt, Read
  <2>2. CASE Narrow(kind)
    <3>1. kind # "none" /\ ~Wide(kind)
      BY <2>2, KindFacts
    <3>2. instructions[Arg(p, op) + 1] = x % Base /\ Arg(p, op) + 1 <= Len(instructions)
          /\ Arg(p, op) \in Nat
      BY <2>2, EndFacts DEF Encoded
    <3>3. At(instructions, Arg(p, op)) = x % Base
      BY <1>1, <3>2 DEF At
    <3>4. ArgumentAt(Arg(p, op), kind) = At(instructions, Arg(p, op))
      BY <2>2, <3>1, Zenon DEF ArgumentAt
    <3>5. Read(op, x) = x % Base
      BY <2>2, <3>1 DEF Read
    <3>6. QED
      BY <3>3, <3>4, <3>5
  <2>3. CASE Wide(kind)
    <3>1. kind # "none" /\ ~Narrow(kind)
      BY <2>3, KindFacts
    <3>2. align_up(Arg(p, op)) \in Nat
      BY EndFacts, AlignsUp
    <3>3. /\ align_up(Arg(p, op)) + WordLen <= Len(instructions)
          /\ \A j \in 1 .. WordLen :
                instructions[align_up(Arg(p, op)) + j] = Bytewords(x)[j]
      BY <2>3, BytewordsFacts DEF Encoded, CellsAt
    <3>4. WordAt(instructions, align_up(Arg(p, op))) = x
      BY <1>1, <3>2, <3>3, ReadsWord
    <3>5. QED
      BY <2>3, <3>1, <3>4, Zenon DEF ArgumentAt, Read, ReadWord
  <2>4. QED
    BY <2>1, <2>2, <2>3, KindFacts
<1>4. (CHOOSE o \in {op} : TRUE) = op
  OBVIOUS
<1>5. InstructionAt(p) = [op |-> op, arg |-> ArgumentAt(Arg(p, op), kind)]
  BY <1>2, <1>4, Zenon DEF InstructionAt, Arg
<1>6. InstructionAt(p).op = op
  BY <1>5
<1>7. Following(p) = End(p, op)
  BY <1>6, Zenon DEF Following, End, Arg
<1>8. QED
  BY <1>3, <1>5, <1>7

-----------------------------------------------------------------------------
(* The inductive invariant.  st[k] is where the instruction after the k-th *)
(* starts, at[r] the instruction the r-th reference is of.                 *)

Instruction == [op : Operations, arg : WordValue]

SourceOK ==
    /\ source \in Seq(Instruction)
    /\ Fits(Len(source))
    /\ \A k \in 1 .. Len(source) :
          /\ ArgKind[source[k].op] = "none" => source[k].arg = 0
          /\ source[k].op = "loc" => source[k].arg < next_symbol

Layout(st) ==
    /\ st \in [0 .. Len(source) -> Nat]
    /\ st[0] = 0
    /\ st[Len(source)] = Len(instructions)
    /\ \A k \in 1 .. Len(source) : st[k] = End(st[k - 1], source[k].op)

(* Every reference is that of one instruction, and every instruction that  *)
(* refers has one.                                                         *)
RefsOK(st, at) ==
    /\ symbol_ref_locations \in Seq(Nat)
    /\ at \in [1 .. Len(symbol_ref_locations) -> 1 .. Len(source)]
    /\ \A r \in 1 .. Len(symbol_ref_locations) :
          /\ source[at[r]].op = "loc"
          /\ symbol_ref_locations[r] = Arg(st[at[r] - 1], "loc")
    /\ \A r, q \in 1 .. Len(symbol_ref_locations) : at[r] = at[q] => r = q
    /\ \A k \in 1 .. Len(source) :
          source[k].op = "loc" => \E r \in 1 .. Len(symbol_ref_locations) : at[r] = k

(* A symbol has no place, or it has one and the location of that place.    *)
SymbolsOK(st) ==
    /\ next_symbol \in Nat /\ next_symbol < Base ^ WordLen
    /\ symbol_locations \in Seq(Nat) /\ Len(symbol_locations) = next_symbol
    /\ placed \in Seq(Int) /\ Len(placed) = next_symbol
    /\ \A s \in 1 .. next_symbol :
          \/ placed[s] = -1 /\ symbol_locations[s] = UNSET_LOCATION
          \/ placed[s] \in 0 .. Len(source) /\ symbol_locations[s] = st[placed[s]]

(* What the argument of the k-th instruction is: a reference that is       *)
(* patched is the location of its symbol.                                  *)
Linked(at, k) == \E r \in 1 .. i : at[r] = k

Held(st, at, k) ==
    IF Linked(at, k) THEN st[placed[source[k].arg + 1]] ELSE source[k].arg

CodeOK(st, at) ==
    /\ instructions \in Seq(Byteword)
    /\ \A k \in 1 .. Len(source) :
          Encoded(instructions, st[k - 1], source[k].op, Held(st, at, k))

PhaseOK(at) ==
    /\ phase \in {"emitting", "linking", "finished", "failed"}
    /\ i \in 0 .. Len(symbol_ref_locations)
    /\ phase = "emitting" => i = 0
    /\ phase = "finished" => i = Len(symbol_ref_locations)
    /\ phase = "failed" => \E s \in References : Dangling(s)
    /\ \A r \in 1 .. i : ~Dangling(source[at[r]].arg)

Good(st, at) ==
    /\ SourceOK /\ Layout(st) /\ RefsOK(st, at) /\ SymbolsOK(st)
    /\ CodeOK(st, at) /\ PhaseOK(at)

IInv == \E st, at : Good(st, at)

-----------------------------------------------------------------------------
(* Starts grow with the number of instructions, and stay words.            *)

LEMMA SourceFacts ==
    ASSUME SourceOK
    PROVE  /\ Len(source) \in Nat
           /\ \A k \in 1 .. Len(source) :
                 /\ source[k] \in Instruction
                 /\ source[k].op \in Operations /\ source[k].arg \in WordValue
                 /\ source[k] = [op |-> source[k].op, arg |-> source[k].arg]
<1>1. source \in Seq(Instruction) /\ Len(source) \in Nat
  BY DEF SourceOK
<1>2. \A k \in 1 .. Len(source) : source[k] \in Instruction
  BY <1>1
<1>3. \A x \in Instruction : /\ x.op \in Operations /\ x.arg \in WordValue
                           /\ x = [op |-> x.op, arg |-> x.arg]
  BY DEF Instruction
<1>4. QED
  BY <1>1, <1>2, <1>3, Zenon

LEMMA StartsAreBounded ==
    ASSUME NEW st, SourceOK, Layout(st)
    PROVE  \A k \in 0 .. Len(source) : st[k] <= k * (2 * WordLen + 1)
<1> DEFINE M == 2 * WordLen + 1
           S == {k \in 0 .. Len(source) : st[k] <= k * M}
<1>1. M \in Nat
  BY Constants
<1>2. 0 \in S
  BY <1>1, SourceFacts DEF Layout
<1>3. ASSUME NEW k \in S \intersect 0 .. Len(source) - 1 PROVE k + 1 \in S
  <2>1. k \in Nat /\ k + 1 \in 1 .. Len(source) /\ (k + 1) - 1 = k /\ k \in 0 .. Len(source)
        /\ k + 1 \in 0 .. Len(source)
    BY SourceFacts
  <2>2. source[k + 1].op \in Operations /\ st[k] \in Nat /\ st[k + 1] \in Nat
    BY <2>1, SourceFacts DEF Layout
  <2>3. st[k + 1] <= st[k] + M
    BY <2>1, <2>2, EndFacts DEF Layout
  <2>4. st[k] <= k * M
    OBVIOUS
  <2> HIDE DEF M
  <2>5. k * M \in Nat /\ (k + 1) * M = k * M + M
    BY <1>1, <2>1
  <2>6. st[k + 1] <= (k + 1) * M
    <3> DEFINE a == k * M
               b == (k + 1) * M
    <3>1. a \in Nat /\ b = a + M /\ st[k] <= a
      BY <2>4, <2>5
    <3> HIDE DEF a, b
    <3>2. st[k + 1] <= b
      BY <1>1, <2>2, <2>3, <3>1
    <3>3. QED
      BY <3>2 DEF b
  <2>7. QED
    BY <2>1, <2>6
<1>4. 0 .. Len(source) \subseteq S
  <2>1. Len(source) \in Nat
    BY SourceFacts
  <2> HIDE DEF S
  <2>2. QED
    BY <1>2, <1>3, <2>1, IntervalInduction
<1>5. QED
  BY <1>4

LEMMA StartsAscend ==
    ASSUME NEW st, SourceOK, Layout(st)
    PROVE  \A j, k \in 0 .. Len(source) : j < k => st[j] < st[k]
<1> SUFFICES ASSUME NEW j \in 0 .. Len(source)
             PROVE  \A k \in 0 .. Len(source) : j < k => st[j] < st[k]
  OBVIOUS
<1> DEFINE S == {k \in 0 .. Len(source) : j < k => st[j] < st[k]}
<1>1. Len(source) \in Nat /\ \A k \in 0 .. Len(source) : st[k] \in Nat
  BY SourceFacts DEF Layout
<1>2. 0 \in S
  BY <1>1
<1>3. ASSUME NEW k \in S \intersect 0 .. Len(source) - 1 PROVE k + 1 \in S
  <2>1. k \in Nat /\ k + 1 \in 1 .. Len(source) /\ (k + 1) - 1 = k /\ k \in 0 .. Len(source)
        /\ k + 1 \in 0 .. Len(source)
    BY SourceFacts
  <2>2. source[k + 1].op \in Operations
    BY <2>1, SourceFacts
  <2>3. st[k] < st[k + 1]
    <3>1. st[k + 1] = End(st[k], source[k + 1].op)
      BY <2>1 DEF Layout
    <3>2. st[k] < Arg(st[k], source[k + 1].op)
          /\ Arg(st[k], source[k + 1].op) <= End(st[k], source[k + 1].op)
          /\ Arg(st[k], source[k + 1].op) \in Nat
      BY <1>1, <2>1, <2>2, EndFacts
    <3>3. QED
      BY <1>1, <2>1, <3>1, <3>2
  <2>4. CASE j < k
    <3>1. st[j] < st[k]
      BY <2>4
    <3>2. st[j] < st[k + 1]
      BY <1>1, <2>1, <2>3, <3>1
    <3>3. QED
      BY <2>1, <3>2
  <2>5. CASE ~(j < k)
    <3>1. j < k + 1 => j = k
      BY <2>1, <2>5
    <3>2. QED
      BY <2>1, <2>3, <3>1
  <2>6. QED
    BY <2>4, <2>5
<1>4. 0 .. Len(source) \subseteq S
  <2> HIDE DEF S
  <2>1. QED
    BY <1>1, <1>2, <1>3, IntervalInduction
<1>5. QED
  BY <1>4

LEMMA StartFacts ==
    ASSUME NEW st, SourceOK, Layout(st)
    PROVE  /\ \A k \in 0 .. Len(source) :
                 /\ st[k] \in Nat /\ st[k] <= Len(instructions)
                 /\ st[k] < UNSET_LOCATION /\ st[k] \in WordValue
                 /\ st[k] < Len(instructions) <=> k # Len(source)
           /\ Len(instructions) \in Nat /\ Len(instructions) < UNSET_LOCATION
           /\ UNSET_LOCATION \in Nat
<1> DEFINE n == Len(source)
           M == 2 * WordLen + 1
           P == Base ^ WordLen
<1>1. n \in Nat /\ n \in 0 .. n /\ M \in Nat
  BY Constants, SourceFacts
<1>2. P \in Nat \ {0} /\ WordLen \in 0 .. WordLen
  BY PowersArePositive, Constants
<1>3. st[n] = Len(instructions) /\ \A k \in 0 .. n : st[k] \in Nat
  BY DEF Layout
<1>4. st[n] <= n * M /\ n * M < P - 1
  BY <1>1, StartsAreBounded DEF SourceOK, Fits
<1>5. UNSET_LOCATION = P - 1 /\ WordValue = 0 .. P - 1
  BY DEF UNSET_LOCATION, WordValue
<1>6. \A k \in 0 .. n : k # n => st[k] < st[n]
  <2>1. \A k \in 0 .. n : k # n => k < n
    BY <1>1
  <2>2. QED
    BY <1>1, <2>1, StartsAscend
<1>7. n * M \in Nat
  BY <1>1
<1> HIDE DEF n, M, P
<1>8. st[n] < P - 1
  <2> DEFINE a == n * M
  <2>1. a \in Nat /\ st[n] <= a /\ a < P - 1
    BY <1>4, <1>7
  <2> HIDE DEF a
  <2>2. QED
    BY <1>1, <1>2, <1>3, <2>1
<1>9. QED
  BY <1>1, <1>2, <1>3, <1>5, <1>6, <1>8 DEF n

-----------------------------------------------------------------------------
(* What the invariant says of a reader.                                    *)

LEMMA HeldIsWord ==
    ASSUME NEW st, NEW at, Good(st, at), NEW k \in 1 .. Len(source)
    PROVE  Held(st, at, k) \in WordValue
<1>1. CASE Linked(at, k)
  <2>1. PICK r \in 1 .. i : at[r] = k
    BY <1>1 DEF Linked
  <2>2. ~Dangling(source[k].arg) /\ r \in 1 .. Len(symbol_ref_locations)
    BY <2>1 DEF Good, PhaseOK, RefsOK
  <2>3. source[k].op = "loc"
    BY <2>1, <2>2 DEF Good, RefsOK
  <2>4. source[k].arg < next_symbol /\ source[k].arg \in Nat /\ next_symbol \in Nat
    <3>1. source[k].arg \in WordValue
      BY SourceFacts DEF Good
    <3>2. source[k].arg < next_symbol /\ next_symbol \in Nat
      BY <2>3 DEF Good, SourceOK, SymbolsOK
    <3>3. QED
      BY <3>1, <3>2 DEF WordValue
  <2>5. source[k].arg + 1 \in 1 .. next_symbol
    BY <2>4
  <2>6. placed[source[k].arg + 1] \in 0 .. Len(source)
    BY <2>2, <2>5 DEF Good, SymbolsOK, Dangling
  <2>7. QED
    BY <1>1, <2>6, StartFacts DEF Held, Good
<1>2. CASE ~Linked(at, k)
  BY <1>2, SourceFacts DEF Held, Good
<1>3. QED
  BY <1>1, <1>2

LEMMA ReaderFollows ==
    ASSUME NEW st, NEW at, Good(st, at), NEW k \in 1 .. Len(source)
    PROVE  /\ InstructionAt(st[k - 1]) =
                  [op |-> source[k].op, arg |-> Read(source[k].op, Held(st, at, k))]
           /\ Following(st[k - 1]) = st[k]
<1>1. Len(source) \in Nat /\ source[k].op \in Operations
  BY SourceFacts DEF Good
<1>2. k - 1 \in 0 .. Len(source)
  BY <1>1
<1>3. st[k - 1] \in Nat /\ st[k] = End(st[k - 1], source[k].op)
  BY <1>2 DEF Good, Layout
<1>4. Encoded(instructions, st[k - 1], source[k].op, Held(st, at, k))
  BY DEF Good, CodeOK
<1>5. instructions \in Seq(Byteword) /\ Held(st, at, k) \in WordValue
  BY HeldIsWord DEF Good, CodeOK
<1>6. QED
  BY <1>1, <1>3, <1>4, <1>5, Decodes

(* A reader finds the instructions where they start.                       *)
LEMMA ReaderIsAtStarts ==
    ASSUME NEW st, NEW at, Good(st, at)
    PROVE  \A k \in 0 .. Len(source) : StartOf[k] = st[k]
<1> DEFINE Start[k \in 0 .. Len(source)] == IF k = 0 THEN 0 ELSE Following(Start[k - 1])
<1>1. Len(source) \in Nat /\ 0 \in 0 .. Len(source)
  BY SourceFacts DEF Good
<1>2. st \in [0 .. Len(source) -> Nat] /\ st[0] = 0
  BY DEF Good, Layout
<1>3. st = [k \in 0 .. Len(source) |-> IF k = 0 THEN 0 ELSE Following(st[k - 1])]
  <2>1. ASSUME NEW k \in 0 .. Len(source), k # 0 PROVE st[k] = Following(st[k - 1])
    <3>1. k \in 1 .. Len(source)
      BY <1>1, <2>1
    <3>2. QED
      BY <3>1, ReaderFollows
  <2>2. QED
    BY <1>2, <2>1
<1>4. Start = [k \in 0 .. Len(source) |-> IF k = 0 THEN 0 ELSE Following(Start[k - 1])]
  BY <1>3, Zenon
<1>5. StartOf = Start
  BY DEF StartOf
<1> HIDE DEF Start
<1>6. Start[0] = st[0]
  BY <1>1, <1>2, <1>4
<1>7. \A k \in 0 .. Len(source) - 1 : Start[k] = st[k] => Start[k + 1] = st[k + 1]
  <2> SUFFICES ASSUME NEW k \in 0 .. Len(source) - 1, Start[k] = st[k]
               PROVE  Start[k + 1] = st[k + 1]
    OBVIOUS
  <2>1. k + 1 \in 1 .. Len(source) /\ k + 1 \in 0 .. Len(source) /\ k + 1 # 0 /\ (k + 1) - 1 = k
    BY <1>1
  <2>2. Start[k + 1] = Following(Start[k])
    BY <1>4, <2>1
  <2>3. Following(st[k]) = st[k + 1]
    BY <2>1, ReaderFollows
  <2>4. QED
    BY <2>2, <2>3
<1>8. \A k \in 0 .. Len(source) : Start[k] = st[k]
  BY ONLY <1>1, <1>6, <1>7, SameRecursion, Zenon
<1>9. QED
  BY <1>5, <1>8, Zenon

LEMMA ReaderReads ==
    ASSUME NEW st, NEW at, Good(st, at), NEW linked \in BOOLEAN,
           \A k \in 1 .. Len(source) : source[k].op = "loc" => (Linked(at, k) <=> linked)
    PROVE  ReadsAs(linked)
<1>1. Len(source) \in Nat /\ Len(source) \in 0 .. Len(source)
  BY SourceFacts DEF Good
<1>2. StartOf[Len(source)] = Len(instructions)
  BY <1>1, ReaderIsAtStarts DEF Good, Layout
<1>3. ASSUME NEW k \in 1 .. Len(source)
      PROVE  InstructionAt(StartOf[k - 1]) = [source[k] EXCEPT !.arg = Expected(source[k], linked)]
  <2> DEFINE op == source[k].op
             arg == source[k].arg
             kind == ArgKind[op]
  <2>1. op \in Operations /\ arg \in WordValue /\ source[k] = [op |-> op, arg |-> arg]
    BY SourceFacts DEF Good
  <2>2. k - 1 \in 0 .. Len(source)
    BY <1>1
  <2>3. InstructionAt(StartOf[k - 1]) = [op |-> op, arg |-> Read(op, Held(st, at, k))]
    BY <2>2, ReaderFollows, ReaderIsAtStarts
  <2>4. kind = "none" => arg = 0
    BY DEF Good, SourceOK
  <2>5. op # "loc" => ~Linked(at, k)
    BY DEF Linked, Good, PhaseOK, RefsOK
  <2>6. Read(op, Held(st, at, k)) = Expected(source[k], linked)
    <3>1. CASE op = "loc" /\ linked
      <4>1. kind = "loc" /\ ~Narrow(kind) /\ kind # "none"
        BY <3>1, <2>1, KindFacts, OperationFacts
      <4>2. Linked(at, k)
        BY <3>1
      <4>3. Held(st, at, k) = st[placed[arg + 1]]
        BY <4>2 DEF Held
      <4>4. placed[arg + 1] \in 0 .. Len(source)
        <5>1. PICK r \in 1 .. i : at[r] = k
          BY <4>2 DEF Linked
        <5>2. ~Dangling(arg)
          BY <5>1 DEF Good, PhaseOK
        <5>3. arg \in Nat /\ arg < next_symbol /\ next_symbol \in Nat
          BY <2>1, <3>1 DEF Good, SourceOK, WordValue, SymbolsOK
        <5>4. arg + 1 \in 1 .. next_symbol
          BY <5>3
        <5>5. QED
          BY <5>2, <5>4 DEF Good, SymbolsOK, Dangling
      <4>5. Expected(source[k], linked) = StartOf[placed[arg + 1]]
        BY <3>1, <4>1, Zenon DEF Expected
      <4>6. Read(op, Held(st, at, k)) = Held(st, at, k)
        BY <4>1 DEF Read
      <4>7. QED
        BY <4>3, <4>4, <4>5, <4>6, ReaderIsAtStarts
    <3>2. CASE ~(op = "loc" /\ linked)
      <4>1. Held(st, at, k) = arg
        BY <2>5, <3>2 DEF Held
      <4>2. CASE Narrow(kind)
        <5>1. kind # "none" /\ kind # "loc"
          BY <2>1, <4>2, KindFacts DEF Narrow
        <5>2. QED
          BY <4>1, <4>2, <5>1, Zenon DEF Read, Expected
      <4>3. CASE ~Narrow(kind)
        <5>1. ~(kind = "loc" /\ linked)
          BY <2>1, <3>2, KindFacts
        <5>2. Expected(source[k], linked) = arg
          BY <4>3, <5>1, Zenon DEF Expected
        <5>3. Read(op, arg) = arg
          BY <2>4, <4>3 DEF Read
        <5>4. QED
          BY <4>1, <5>2, <5>3
      <4>4. QED
        BY <4>2, <4>3
    <3>3. QED
      BY <3>1, <3>2
  <2> HIDE DEF op, arg
  <2>7. [source[k] EXCEPT !.arg = Expected(source[k], linked)]
            = [op |-> op, arg |-> Expected(source[k], linked)]
    BY <2>1
  <2>8. QED
    BY <2>3, <2>6, <2>7
<1>4. QED
  BY <1>2, <1>3 DEF ReadsAs

-----------------------------------------------------------------------------
(* The invariant implies the properties.                                   *)

LEMMA ImpliesTypeOK == ASSUME IInv PROVE TypeOK
<1>1. PICK st, at : Good(st, at)
  BY DEF IInv
<1>2. /\ instructions \in Seq(Byteword) /\ next_symbol \in Nat
      /\ symbol_locations \in Seq(Nat) /\ Len(symbol_locations) = next_symbol
      /\ symbol_ref_locations \in Seq(Nat)
      /\ phase \in {"emitting", "linking", "finished", "failed"}
      /\ i \in 0 .. Len(symbol_ref_locations)
  BY <1>1 DEF Good, CodeOK, SymbolsOK, RefsOK, PhaseOK
<1>3. Len(instructions) < UNSET_LOCATION /\ Len(instructions) \in Nat
  BY <1>1, StartFacts DEF Good
<1>4. ASSUME NEW s \in 1 .. next_symbol
      PROVE  symbol_locations[s] \in 0 .. Len(instructions) \union {UNSET_LOCATION}
  <2>1. CASE placed[s] \in 0 .. Len(source) /\ symbol_locations[s] = st[placed[s]]
    <3>1. st[placed[s]] \in Nat /\ st[placed[s]] <= Len(instructions)
      BY <1>1, <2>1, StartFacts DEF Good
    <3>2. QED
      BY <1>3, <2>1, <3>1
  <2>2. QED
    BY <1>1, <2>1 DEF Good, SymbolsOK
<1>5. symbol_locations \in Seq(0 .. Len(instructions) \union {UNSET_LOCATION})
  BY <1>2, <1>4
<1>6. ASSUME NEW r \in 1 .. Len(symbol_ref_locations)
      PROVE  symbol_ref_locations[r] \in 0 .. Len(instructions) - 1
  <2> DEFINE k == at[r]
             p == st[k - 1]
  <2>1. k \in 1 .. Len(source) /\ source[k].op = "loc" /\ symbol_ref_locations[r] = Arg(p, "loc")
    BY <1>1 DEF Good, RefsOK
  <2>2. k - 1 \in 0 .. Len(source) /\ k \in 0 .. Len(source) /\ k - 1 < k
    BY <1>1, <2>1, SourceFacts DEF Good
  <2>3. p \in Nat /\ st[k] = End(p, "loc") /\ st[k] \in Nat /\ st[k] <= Len(instructions)
    BY <1>1, <2>1, <2>2, StartFacts DEF Good, Layout
  <2>4. "loc" \in Operations /\ Wide(ArgKind["loc"])
    BY OperationFacts, KindFacts
  <2> HIDE DEF p, k
  <2>5. Arg(p, "loc") \in Nat /\ End(p, "loc") = align_up(Arg(p, "loc")) + WordLen
    BY <2>3, <2>4, EndFacts
  <2>6. Arg(p, "loc") <= align_up(Arg(p, "loc")) /\ align_up(Arg(p, "loc")) \in Nat
    BY <2>5, AlignsUp
  <2>7. Arg(p, "loc") < Len(instructions)
    BY <1>3, <2>3, <2>5, <2>6, Constants
  <2>8. QED
    BY <1>3, <2>1, <2>5, <2>7
<1>7. symbol_ref_locations \in Seq(0 .. Len(instructions) - 1)
  <2> DEFINE T == 0 .. Len(instructions) - 1
  <2>1. \A r \in 1 .. Len(symbol_ref_locations) : symbol_ref_locations[r] \in T
    BY <1>6
  <2> HIDE DEF T
  <2>2. symbol_ref_locations \in Seq(T)
    BY <1>2, <2>1
  <2>3. QED
    BY <2>2 DEF T
<1>8. QED
  BY <1>2, <1>3, <1>5, <1>7 DEF TypeOK

LEMMA ImpliesReadsBack == ASSUME IInv PROVE ReadsBack
<1>1. PICK st, at : Good(st, at)
  BY DEF IInv
<1>2. SUFFICES ASSUME phase = "emitting" PROVE ReadsAs(FALSE)
  BY DEF ReadsBack
<1>3. \A k \in 1 .. Len(source) : ~Linked(at, k)
  BY <1>1, <1>2 DEF Good, PhaseOK, Linked
<1>4. QED
  BY <1>1, <1>3, ReaderReads

LEMMA ImpliesLinksToTargets == ASSUME IInv PROVE LinksToTargets
<1>1. PICK st, at : Good(st, at)
  BY DEF IInv
<1>2. SUFFICES ASSUME phase = "finished" PROVE ReadsAs(TRUE)
  BY DEF LinksToTargets
<1>3. \A k \in 1 .. Len(source) : source[k].op = "loc" => Linked(at, k)
  BY <1>1, <1>2 DEF Good, PhaseOK, RefsOK, Linked
<1>4. QED
  BY <1>1, <1>3, ReaderReads

LEMMA ImpliesFailsOnDangling == ASSUME IInv PROVE FailsOnDangling
<1>1. PICK st, at : Good(st, at)
  BY DEF IInv
<1>2. phase = "failed" => \E s \in References : Dangling(s)
  BY <1>1 DEF Good, PhaseOK
<1>3. ASSUME phase = "finished", NEW s \in References PROVE ~Dangling(s)
  <2>1. PICK k \in 1 .. Len(source) : source[k].op = "loc" /\ s = source[k].arg
    BY DEF References
  <2>2. PICK r \in 1 .. Len(symbol_ref_locations) : at[r] = k
    BY <1>1, <2>1 DEF Good, RefsOK
  <2>3. QED
    BY <1>1, <1>3, <2>1, <2>2 DEF Good, PhaseOK
<1>4. QED
  BY <1>2, <1>3 DEF FailsOnDangling

-----------------------------------------------------------------------------
(* Writing an instruction.                                                 *)

(* What was encoded stays so while its bytewords stay.                     *)
LEMMA EncodedStays ==
    ASSUME NEW s, NEW t, NEW p \in Nat, NEW op \in Operations, NEW x \in WordValue,
           Len(s) \in Nat, Len(t) \in Nat, Len(s) <= Len(t),
           Encoded(s, p, op, x),
           \A j \in p + 1 .. End(p, op) : t[j] = s[j]
    PROVE  Encoded(t, p, op, x)
<1> DEFINE e == End(p, op)
           q == Arg(p, op)
           a == align_up(q)
           n == Len(Lead[op])
<1>1. e \in Nat /\ q \in Nat /\ p < q /\ q <= e /\ a \in Nat /\ q <= a /\ n \in Nat /\ q = p + n
  <2>1. e \in Nat /\ q \in Nat /\ p < q /\ q <= e
    BY EndFacts
  <2>2. n \in Nat
    BY LeadFacts
  <2>3. q = p + n
    BY DEF Arg
  <2> HIDE DEF e, q, n
  <2>4. a \in Nat /\ q <= a
    BY <2>1, AlignsUp
  <2>5. QED
    BY <2>1, <2>2, <2>3, <2>4
<1>2. e <= Len(s) /\ e <= Len(t)
  BY <1>1 DEF Encoded
<1>3. CellsAt(t, p, Lead[op])
  <2>1. \A j \in 1 .. n : s[p + j] = Lead[op][j]
    BY DEF Encoded, CellsAt
  <2> HIDE DEF e, q, n
  <2>2. \A j \in 1 .. n : p + j \in p + 1 .. e
    BY <1>1
  <2>3. p + n <= Len(t)
    BY <1>1, <1>2
  <2>4. \A j \in 1 .. n : t[p + j] = Lead[op][j]
    BY <2>1, <2>2 DEF e
  <2>5. QED
    BY <2>3, <2>4 DEF CellsAt, n
<1>4. ASSUME Narrow(ArgKind[op]) PROVE t[q + 1] = x % Base
  <2>1. e = q + 1 /\ s[q + 1] = x % Base
    BY <1>4, EndFacts DEF Encoded
  <2>2. q + 1 \in p + 1 .. e
    <3> HIDE DEF e, q
    <3>1. QED
      BY <1>1, <2>1
  <2>3. QED
    BY <2>1, <2>2
<1>5. ASSUME Wide(ArgKind[op]) PROVE CellsAt(t, a, Bytewords(x))
  <2>1. e = a + WordLen /\ Len(Bytewords(x)) = WordLen
    BY <1>5, EndFacts, BytewordsFacts
  <2>2. \A j \in 1 .. WordLen : s[a + j] = Bytewords(x)[j]
    BY <1>5, <2>1 DEF Encoded, CellsAt
  <2>3. \A j \in 1 .. WordLen : a + j \in p + 1 .. e
    <3> HIDE DEF e, q, a
    <3>1. QED
      BY <1>1, <2>1, Constants
  <2>4. \A j \in 1 .. WordLen : t[a + j] = Bytewords(x)[j]
    BY <2>2, <2>3
  <2>5. QED
    BY <1>2, <2>1, <2>4 DEF CellsAt
<1>6. QED
  BY <1>2, <1>3, <1>4, <1>5 DEF Encoded

LEMMA Appended ==
    ASSUME NEW s \in Seq(Byteword), NEW t \in Seq(Byteword)
    PROVE  /\ s \o t \in Seq(Byteword) /\ Len(s \o t) = Len(s) + Len(t)
           /\ \A j \in 1 .. Len(s) : (s \o t)[j] = s[j]
           /\ \A j \in 1 .. Len(t) : (s \o t)[Len(s) + j] = t[j]
  BY ConcatProperties

LEMMA PaddedFacts ==
    ASSUME NEW s \in Seq(Byteword)
    PROVE  /\ Padded(s) \in Seq(Byteword) /\ Len(Padded(s)) = align_up(Len(s))
           /\ \A j \in 1 .. Len(s) : Padded(s)[j] = s[j]
<1> DEFINE n == align_up(Len(s)) - Len(s)
           z == [j \in 1 .. n |-> 0]
<1>1. Len(s) \in Nat
  OBVIOUS
<1>2. align_up(Len(s)) \in Nat /\ Len(s) <= align_up(Len(s))
  BY <1>1, AlignsUp
<1>3. n \in Nat /\ 0 \in Byteword
  BY <1>1, <1>2, Constants DEF Byteword
<1>4. Padded(s) = s \o z
  BY DEF Padded
<1> HIDE DEF n
<1>5. z \in Seq(Byteword) /\ Len(z) = n
  BY <1>3
<1> HIDE DEF z
<1>6. /\ s \o z \in Seq(Byteword) /\ Len(s \o z) = Len(s) + n
      /\ \A j \in 1 .. Len(s) : (s \o z)[j] = s[j]
  BY <1>5, Appended
<1>7. Len(s) + n = align_up(Len(s))
  BY <1>1, <1>2 DEF n
<1>8. QED
  BY <1>4, <1>6, <1>7

LEMMA WritesInstruction ==
    ASSUME NEW s \in Seq(Byteword), NEW op \in Operations, NEW x \in WordValue,
           NEW t, t = Written(s \o Lead[op], ArgKind[op], x)
    PROVE  /\ t \in Seq(Byteword) /\ Len(t) = End(Len(s), op)
           /\ \A j \in 1 .. Len(s) : t[j] = s[j]
           /\ Encoded(t, Len(s), op, x)
<1> DEFINE p == Len(s)
           l == Lead[op]
           u == s \o l
           q == Arg(p, op)
           a == align_up(q)
           kind == ArgKind[op]
<1>1. p \in Nat /\ l \in Seq(Byteword) /\ Len(l) \in Nat
  BY LeadFacts
<1>2. /\ u \in Seq(Byteword) /\ Len(u) = q
      /\ \A j \in 1 .. p : u[j] = s[j]
      /\ \A j \in 1 .. Len(l) : u[p + j] = l[j]
  BY <1>1, Appended DEF Arg
<1>3. q \in Nat /\ q = p + Len(l) /\ p < q
  BY <1>1, EndFacts DEF Arg
<1>4. /\ kind = "none" => End(p, op) = q
      /\ Narrow(kind) => End(p, op) = q + 1
      /\ Wide(kind) => End(p, op) = a + WordLen
  BY <1>1, EndFacts
<1>5. ASSUME NEW w \in Seq(Byteword), q <= Len(w), \A j \in 1 .. q : w[j] = u[j]
      PROVE  CellsAt(w, p, l) /\ \A j \in 1 .. p : w[j] = s[j]
  <2> HIDE DEF q, l, p, u
  <2>1. \A j \in 1 .. Len(l) : p + j \in 1 .. q
    BY <1>1, <1>3
  <2>2. \A j \in 1 .. p : j \in 1 .. q
    BY <1>1, <1>3
  <2>3. QED
    BY <1>2, <1>3, <1>5, <2>1, <2>2 DEF CellsAt
<1>6. t = Written(u, kind, x)
  OBVIOUS
<1> HIDE DEF u, q, a, kind, l
<1>7. CASE kind = "none"
  <2>1. ~Narrow(kind) /\ ~Wide(kind)
    BY <1>7, KindFacts DEF kind
  <2>2. t = u
    BY <1>6, <1>7, <2>1, Zenon DEF Written
  <2>3. q <= Len(u) /\ \A j \in 1 .. q : u[j] = u[j]
    BY <1>2, <1>3
  <2>4. CellsAt(t, p, l) /\ \A j \in 1 .. p : t[j] = s[j]
    BY <1>2, <1>5, <2>2, <2>3
  <2>5. t \in Seq(Byteword) /\ Len(t) = End(p, op) /\ End(p, op) <= Len(t)
    BY <1>2, <1>3, <1>4, <1>7, <2>2
  <2>6. Encoded(t, p, op, x)
    BY <2>1, <2>4, <2>5 DEF Encoded, l, kind
  <2>7. QED
    BY <2>4, <2>5, <2>6
<1>8. CASE Narrow(kind)
  <2> DEFINE d == x % Base
  <2>1. kind # "none" /\ ~Wide(kind)
    BY <1>8, KindFacts DEF kind
  <2>2. t = Append(u, d)
    BY <1>6, <1>8, <2>1, Zenon DEF Written
  <2>3. d \in Byteword
    <3>1. x \in Nat
      BY PowersArePositive, Constants DEF WordValue
    <3>2. QED
      BY <3>1, Constants, QuotientAndRest DEF Byteword
  <2> HIDE DEF d
  <2>4. /\ t \in Seq(Byteword) /\ Len(t) = q + 1 /\ t[q + 1] = d
        /\ \A j \in 1 .. q : t[j] = u[j]
    <3>1. u \in Seq(Byteword) /\ Len(u) = q
      BY <1>2
    <3>2. /\ Append(u, d) \in Seq(Byteword) /\ Len(Append(u, d)) = q + 1
          /\ Append(u, d)[q + 1] = d /\ \A j \in 1 .. q : Append(u, d)[j] = u[j]
      BY <2>3, <3>1, AppendProperties
    <3>3. QED
      BY <2>2, <3>2
  <2>5. CellsAt(t, p, l) /\ \A j \in 1 .. p : t[j] = s[j]
    BY <1>3, <1>5, <2>4
  <2>6. Len(t) = End(p, op) /\ End(p, op) <= Len(t)
    BY <1>3, <1>4, <1>8, <2>4
  <2>7. Encoded(t, p, op, x)
    BY <2>1, <2>4, <2>5, <2>6 DEF Encoded, q, l, kind, d
  <2>8. QED
    BY <2>4, <2>5, <2>6, <2>7
<1>9. CASE Wide(kind)
  <2> DEFINE b == Bytewords(x)
             v == Padded(u)
  <2>1. kind # "none" /\ ~Narrow(kind)
    BY <1>9, KindFacts DEF kind
  <2>2. t = v \o b
    BY <1>6, <1>9, <2>1, Zenon DEF Written
  <2>3. b \in Seq(Byteword) /\ Len(b) = WordLen
    BY BytewordsFacts
  <2>4. /\ v \in Seq(Byteword) /\ Len(v) = a
        /\ \A j \in 1 .. q : v[j] = u[j]
    BY <1>2, PaddedFacts DEF a
  <2>5. a \in Nat /\ q <= a
    BY <1>3, AlignsUp DEF a
  <2> HIDE DEF b, v
  <2>6. /\ t \in Seq(Byteword) /\ Len(t) = a + WordLen
        /\ \A j \in 1 .. a : t[j] = v[j]
        /\ \A j \in 1 .. WordLen : t[a + j] = b[j]
    <3>1. v \in Seq(Byteword) /\ Len(v) = a
      BY <2>4
    <3>2. /\ t \in Seq(Byteword) /\ Len(t) = Len(v) + Len(b)
          /\ \A j \in 1 .. Len(v) : t[j] = v[j]
          /\ \A j \in 1 .. Len(b) : t[Len(v) + j] = b[j]
      <4>1. /\ v \o b \in Seq(Byteword) /\ Len(v \o b) = Len(v) + Len(b)
            /\ \A j \in 1 .. Len(v) : (v \o b)[j] = v[j]
            /\ \A j \in 1 .. Len(b) : (v \o b)[Len(v) + j] = b[j]
        BY <2>3, <3>1, Appended
      <4>2. QED
        BY <2>2, <4>1, Zenon
    <3>3. QED
      BY <2>3, <3>1, <3>2, Zenon
  <2>7. q <= Len(t) /\ \A j \in 1 .. q : t[j] = u[j]
    <3>1. \A j \in 1 .. q : j \in 1 .. a
      BY <1>3, <2>5
    <3>2. QED
      BY <1>3, <2>4, <2>5, <2>6, <3>1, Constants
  <2>8. CellsAt(t, p, l) /\ \A j \in 1 .. p : t[j] = s[j]
    BY <1>5, <2>6, <2>7
  <2>9. CellsAt(t, a, b)
    <3>1. a + WordLen <= Len(t)
      BY <2>5, <2>6, Constants
    <3>2. QED
      BY <2>3, <2>6, <3>1 DEF CellsAt
  <2>10. Len(t) = End(p, op) /\ End(p, op) <= Len(t)
    BY <1>4, <1>9, <2>5, <2>6, Constants
  <2>11. Encoded(t, p, op, x)
    BY <2>1, <2>8, <2>9, <2>10 DEF Encoded, a, q, l, b, kind
  <2>12. QED
    BY <2>6, <2>8, <2>10, <2>11
<1>10. QED
  BY <1>7, <1>8, <1>9, KindFacts DEF kind

LEMMA WritesWhat ==
    ASSUME NEW op \in Operations, NEW x \in WordValue, Write(op, x),
           instructions \in Seq(Byteword), symbol_ref_locations \in Seq(Nat)
    PROVE  /\ instructions' = Written(instructions \o Lead[op], ArgKind[op], x)
           /\ op = "loc" => symbol_ref_locations' =
                                Append(symbol_ref_locations, Arg(Len(instructions), op))
           /\ op # "loc" => symbol_ref_locations' = symbol_ref_locations
           /\ source' = Append(source, [op |-> op, arg |-> x])
<1>1. Len(instructions \o Lead[op]) = Arg(Len(instructions), op)
  BY LeadFacts DEF Arg
<1>2. op = "loc" <=> ArgKind[op] = "loc"
  BY KindFacts
<1>3. QED
  BY <1>1, <1>2, Zenon DEF Write

(* Nothing is linked while instructions are emitted.                       *)
LEMMA NothingIsLinked ==
    ASSUME NEW at, phase = "emitting", PhaseOK(at)
    PROVE  i = 0 /\ \A k : ~Linked(at, k)
  BY DEF PhaseOK, Linked

LEMMA SourceGrows ==
    ASSUME SourceOK, next_symbol \in Nat, next_symbol' \in Nat, next_symbol <= next_symbol',
           NEW op \in Operations, NEW x \in WordValue, Fits(Len(source) + 1),
           ArgKind[op] = "none" => x = 0, op = "loc" => x < next_symbol',
           source' = Append(source, [op |-> op, arg |-> x])
    PROVE  /\ SourceOK' /\ Len(source') = Len(source) + 1
           /\ source'[Len(source) + 1] = [op |-> op, arg |-> x]
           /\ \A k \in 1 .. Len(source) : source'[k] = source[k]
<1> DEFINE e == [op |-> op, arg |-> x]
<1>1. source \in Seq(Instruction) /\ e \in Instruction
  BY DEF SourceOK, Instruction
<1>2. e.op = op /\ e.arg = x
  OBVIOUS
<1> HIDE DEF e
<1>3. /\ source' \in Seq(Instruction) /\ Len(source') = Len(source) + 1
      /\ source'[Len(source) + 1] = e /\ Len(source) \in Nat
      /\ \A k \in 1 .. Len(source) : source'[k] = source[k]
  <2>1. source' = Append(source, e)
    BY DEF e
  <2>2. QED
    BY <1>1, <2>1, AppendProperties
<1>4. Fits(Len(source'))
  BY <1>3
<1>5. ASSUME NEW k \in 1 .. Len(source')
      PROVE  /\ ArgKind[source'[k].op] = "none" => source'[k].arg = 0
             /\ source'[k].op = "loc" => source'[k].arg < next_symbol'
  <2>1. CASE k = Len(source) + 1
    BY <1>2, <1>3, <2>1
  <2>2. CASE k # Len(source) + 1
    <3>1. k \in 1 .. Len(source)
      BY <1>3, <2>2
    <3>2. /\ ArgKind[source[k].op] = "none" => source[k].arg = 0
          /\ source[k].op = "loc" => source[k].arg < next_symbol
      BY <3>1 DEF SourceOK
    <3>3. source[k].arg \in Nat
      BY <3>1, SourceFacts, WordsAreNaturals
    <3>4. source'[k] = source[k]
      BY <1>3, <3>1
    <3>5. source[k].op = "loc" => source[k].arg < next_symbol'
      BY <3>2, <3>3
    <3>6. QED
      BY <3>2, <3>4, <3>5
  <2>3. QED
    BY <2>1, <2>2
<1>6. SourceOK'
  BY <1>3, <1>4, <1>5 DEF SourceOK
<1>7. QED
  BY <1>3, <1>6 DEF e

(* References go on being found, an instruction after them or not.         *)
LEMMA ReferencesGrow ==
    ASSUME NEW st, NEW at, NEW u, SourceOK, RefsOK(st, at),
           NEW op \in Operations, NEW p,
           \A k \in 0 .. Len(source) : u[k] = st[k], u[Len(source)] = p,
           Len(source') = Len(source) + 1, source'[Len(source) + 1].op = op,
           \A k \in 1 .. Len(source) : source'[k] = source[k],
           Arg(p, op) \in Nat,
           op = "loc" => symbol_ref_locations' = Append(symbol_ref_locations, Arg(p, op)),
           op # "loc" => symbol_ref_locations' = symbol_ref_locations
    PROVE  \E b : RefsOK(u, b)'
<1> DEFINE n == Len(source)
           m == Len(symbol_ref_locations)
<1>1. n \in Nat /\ m \in Nat /\ symbol_ref_locations \in Seq(Nat)
  BY SourceFacts DEF RefsOK
<1>2. /\ at \in [1 .. m -> 1 .. n]
      /\ \A r \in 1 .. m : source[at[r]].op = "loc"
                           /\ symbol_ref_locations[r] = Arg(st[at[r] - 1], "loc")
      /\ \A r, q \in 1 .. m : at[r] = at[q] => r = q
      /\ \A k \in 1 .. n : source[k].op = "loc" => \E r \in 1 .. m : at[r] = k
  BY DEF RefsOK
<1> HIDE DEF n, m
<1>3. \A k \in 0 .. n : u[k] = st[k]
  BY DEF n
<1>4. /\ \A k \in 1 .. n : source'[k] = source[k] /\ k \in 1 .. n + 1 /\ k # n + 1
      /\ source'[n + 1].op = op /\ Len(source') = n + 1
      /\ \A k \in 1 .. n : k - 1 \in 0 .. n
      /\ \A k \in 1 .. n + 1 : k \in 1 .. n \/ k = n + 1
  BY <1>1 DEF n
<1>5. \A r \in 1 .. m : /\ source'[at[r]].op = "loc"
                        /\ symbol_ref_locations[r] = Arg(u[at[r] - 1], "loc")
  BY <1>2, <1>3, <1>4
<1>6. CASE op = "loc"
  <2>1. PICK b : b = [r \in 1 .. m + 1 |-> IF r \in 1 .. m THEN at[r] ELSE n + 1]
    OBVIOUS
  <2>2. /\ symbol_ref_locations' \in Seq(Nat) /\ Len(symbol_ref_locations') = m + 1
        /\ symbol_ref_locations'[m + 1] = Arg(p, op)
        /\ \A r \in 1 .. m : symbol_ref_locations'[r] = symbol_ref_locations[r]
    <3> DEFINE e == Arg(p, op)
    <3>1. e \in Nat /\ symbol_ref_locations' = Append(symbol_ref_locations, e)
      BY <1>6
    <3> HIDE DEF e
    <3>2. QED
      BY <1>1, <3>1, AppendProperties DEF m, e
  <2>3. /\ b \in [1 .. m + 1 -> 1 .. n + 1] /\ b[m + 1] = n + 1
        /\ \A r \in 1 .. m : b[r] = at[r] /\ b[r] \in 1 .. n
        /\ \A r \in 1 .. m + 1 : r \in 1 .. m \/ r = m + 1
    BY <1>1, <1>2, <2>1
  <2>4. u[(n + 1) - 1] = p
    BY <1>1 DEF n
  <2>5. \A r \in 1 .. m + 1 : /\ source'[b[r]].op = "loc"
                              /\ symbol_ref_locations'[r] = Arg(u[b[r] - 1], "loc")
    BY <1>4, <1>5, <1>6, <2>2, <2>3, <2>4
  <2>6. \A r, q \in 1 .. m + 1 : b[r] = b[q] => r = q
    BY <1>2, <1>4, <2>3
  <2>7. \A k \in 1 .. n + 1 : source'[k].op = "loc" => \E r \in 1 .. m + 1 : b[r] = k
    <3>1. ASSUME NEW k \in 1 .. n, source'[k].op = "loc"
          PROVE  \E r \in 1 .. m + 1 : b[r] = k
      <4>1. PICK r \in 1 .. m : at[r] = k
        BY <1>2, <1>4, <3>1
      <4>2. b[r] = k
        BY <2>3, <4>1
      <4>3. r \in 1 .. m + 1
        BY <1>1
      <4>4. QED
        BY <4>2, <4>3
    <3>2. m + 1 \in 1 .. m + 1
      BY <1>1
    <3>3. QED
      BY <1>4, <2>3, <3>1, <3>2
  <2>8. RefsOK(u, b)'
    BY <1>4, <2>2, <2>3, <2>5, <2>6, <2>7 DEF RefsOK
  <2>9. QED
    BY <2>8
<1>7. CASE op # "loc"
  <2>1. /\ symbol_ref_locations' \in Seq(Nat) /\ Len(symbol_ref_locations') = m
        /\ at \in [1 .. m -> 1 .. n + 1] /\ symbol_ref_locations' = symbol_ref_locations
    BY <1>1, <1>2, <1>7 DEF m
  <2>2. \A k \in 1 .. n + 1 : source'[k].op = "loc" => \E r \in 1 .. m : at[r] = k
    BY <1>2, <1>4, <1>7
  <2>3. RefsOK(u, at)'
    BY <1>2, <1>4, <1>5, <2>1, <2>2 DEF RefsOK
  <2>4. QED
    BY <2>3
<1>8. QED
  BY <1>6, <1>7

LEMMA WriteKeeps ==
    ASSUME NEW st, NEW at, Good(st, at), phase = "emitting",
           NEW op \in Operations, NEW x \in WordValue, Fits(Len(source) + 1),
           Write(op, x), UNCHANGED <<phase, i>>,
           next_symbol' \in Nat, next_symbol <= next_symbol',
           ArgKind[op] = "none" => x = 0, op = "loc" => x < next_symbol',
           \A v : (\A k \in 0 .. Len(source) : v[k] = st[k]) => SymbolsOK(v)'
    PROVE  IInv'
<1> DEFINE n == Len(source)
           p == Len(instructions)
<1>1. /\ SourceOK /\ Layout(st) /\ RefsOK(st, at) /\ SymbolsOK(st) /\ CodeOK(st, at) /\ PhaseOK(at)
      /\ instructions \in Seq(Byteword) /\ symbol_ref_locations \in Seq(Nat) /\ next_symbol \in Nat
  BY DEF Good, CodeOK, RefsOK, SymbolsOK
<1>2. n \in Nat /\ p \in Nat
  BY <1>1, SourceFacts
<1>3. /\ instructions' = Written(instructions \o Lead[op], ArgKind[op], x)
      /\ op = "loc" => symbol_ref_locations' = Append(symbol_ref_locations, Arg(p, op))
      /\ op # "loc" => symbol_ref_locations' = symbol_ref_locations
      /\ source' = Append(source, [op |-> op, arg |-> x])
  BY <1>1, WritesWhat
<1>4. /\ SourceOK' /\ Len(source') = n + 1
      /\ source'[n + 1] = [op |-> op, arg |-> x]
      /\ \A k \in 1 .. n : source'[k] = source[k]
  BY <1>1, <1>3, SourceGrows
<1>5. /\ instructions' \in Seq(Byteword) /\ Len(instructions') = End(p, op)
      /\ \A j \in 1 .. p : instructions'[j] = instructions[j]
      /\ Encoded(instructions', p, op, x)
  BY <1>1, <1>3, WritesInstruction
<1>6. End(p, op) \in Nat /\ Arg(p, op) \in Nat /\ p <= End(p, op)
  BY <1>2, EndFacts
<1>7. PICK u : u = [k \in 0 .. n + 1 |-> IF k \in 0 .. n THEN st[k] ELSE End(p, op)]
  OBVIOUS
<1>8. /\ st \in [0 .. n -> Nat] /\ st[0] = 0 /\ st[n] = p
      /\ \A k \in 1 .. n : st[k] = End(st[k - 1], source[k].op)
  BY <1>1 DEF Layout
<1>9. /\ u \in [0 .. n + 1 -> Nat] /\ u[n + 1] = End(p, op) /\ u[0] = 0 /\ u[n] = p
      /\ \A k \in 0 .. n : u[k] = st[k]
  <2> HIDE DEF n, p
  <2>1. QED
    BY <1>2, <1>6, <1>7, <1>8
<1>10. /\ source'[n + 1].op = op /\ source'[n + 1].arg = x
       /\ \A k \in 1 .. n + 1 : k \in 1 .. n \/ k = n + 1
       /\ \A k \in 1 .. n : k - 1 \in 0 .. n /\ k \in 0 .. n
       /\ (n + 1) - 1 = n /\ n + 1 \in 1 .. n + 1
  BY <1>2, <1>4
<1>11. Layout(u)'
  <2>1. \A k \in 1 .. n + 1 : u[k] = End(u[k - 1], source'[k].op)
    BY <1>4, <1>8, <1>9, <1>10
  <2>2. QED
    BY <1>4, <1>5, <1>9, <2>1 DEF Layout
<1>12. PICK b : RefsOK(u, b)'
  BY <1>1, <1>3, <1>4, <1>6, <1>9, <1>10, ReferencesGrow
<1>13. SymbolsOK(u)'
  BY <1>9
<1>14. PhaseOK(b)' /\ phase' = "emitting"
  BY <1>1, <1>12 DEF PhaseOK, RefsOK
<1>15. CodeOK(u, b)'
  <2>1. \A k \in 1 .. n + 1 : Held(u, b, k)' = source'[k].arg
    <3>1. \A k : ~Linked(b, k)'
      BY <1>14, NothingIsLinked, <1>1 DEF PhaseOK, Linked
    <3>2. QED
      BY <3>1 DEF Held
  <2>2. ASSUME NEW k \in 1 .. n
        PROVE  Encoded(instructions', u[k - 1], source'[k].op, Held(u, b, k)')
    <3>1. source[k].op \in Operations /\ source[k].arg \in WordValue
      BY <1>1, SourceFacts
    <3>2. Held(st, at, k) = source[k].arg
      BY <1>1, NothingIsLinked DEF Held
    <3>3. Encoded(instructions, st[k - 1], source[k].op, source[k].arg)
      BY <1>1, <3>2 DEF CodeOK
    <3>4. st[k - 1] \in Nat /\ st[k] \in Nat /\ st[k] <= p
      BY <1>1, <1>10, StartFacts
    <3>5. \A j \in st[k - 1] + 1 .. st[k] : j \in 1 .. p
      BY <1>2, <3>4
    <3>6. \A j \in st[k - 1] + 1 .. End(st[k - 1], source[k].op) : instructions'[j] = instructions[j]
      BY <1>5, <1>8, <3>5
    <3>7. Encoded(instructions', st[k - 1], source[k].op, source[k].arg)
      <4>1. p <= Len(instructions') /\ Len(instructions') \in Nat
        BY <1>5, <1>6
      <4>2. QED
        BY <1>2, <3>1, <3>3, <3>4, <3>6, <4>1, EncodedStays
    <3>8. QED
      BY <1>4, <1>9, <1>10, <2>1, <3>7
  <2>3. ASSUME NEW k, k = n + 1
        PROVE  Encoded(instructions', u[k - 1], source'[k].op, Held(u, b, k)')
    <3>1. u[k - 1] = p
      BY <1>9, <1>10, <2>3, Zenon
    <3>2. Held(u, b, k)' = x
      BY <1>10, <2>1, <2>3, Zenon
    <3>3. source'[k].op = op
      BY <1>10, <2>3, Zenon
    <3>4. QED
      BY <1>5, <3>1, <3>2, <3>3, Zenon
  <2>4. \A k \in 1 .. Len(source') : Encoded(instructions', u[k - 1], source'[k].op, Held(u, b, k)')
    <3> SUFFICES ASSUME NEW k \in 1 .. n + 1
                 PROVE  Encoded(instructions', u[k - 1], source'[k].op, Held(u, b, k)')
      BY <1>4
    <3>1. CASE k \in 1 .. n
      BY <2>2, <3>1
    <3>2. CASE k = n + 1
      BY <2>3, <3>2
    <3>3. QED
      BY <1>10, <3>1, <3>2
  <2>5. QED
    BY <1>5, <2>4 DEF CodeOK
<1>16. QED
  BY <1>4, <1>11, <1>12, <1>13, <1>14, <1>15 DEF Good, IInv

-----------------------------------------------------------------------------
(* Making and placing symbols.                                             *)

LEMMA SymbolsStay ==
    ASSUME NEW st, SymbolsOK(st), Len(source) \in Nat, Len(source') \in Nat,
           Len(source) <= Len(source'), UNCHANGED <<symbol_locations, next_symbol, placed>>
    PROVE  \A v : (\A k \in 0 .. Len(source) : v[k] = st[k]) => SymbolsOK(v)'
<1> SUFFICES ASSUME NEW v, \A k \in 0 .. Len(source) : v[k] = st[k]
             PROVE  SymbolsOK(v)'
  OBVIOUS
<1>1. \A k \in 0 .. Len(source) : k \in 0 .. Len(source')
  OBVIOUS
<1>2. QED
  BY <1>1 DEF SymbolsOK

LEMMA SymbolsGrow ==
    ASSUME NEW st, SymbolsOK(st), Len(source) \in Nat, Len(source') \in Nat,
           Len(source) <= Len(source'), NEW n \in Nat, next_symbol + n < Base ^ WordLen,
           MakeSymbols(n)
    PROVE  /\ next_symbol' \in Nat /\ next_symbol <= next_symbol'
           /\ \A v : (\A k \in 0 .. Len(source) : v[k] = st[k]) => SymbolsOK(v)'
<1> DEFINE m == next_symbol
           a == Unset(n)
           b == [s \in 1 .. n |-> -1]
<1>1. UNSET_LOCATION \in Nat
  <2>1. Base ^ WordLen \in Nat \ {0}
    BY PowersArePositive, Constants
  <2>2. QED
    BY <2>1 DEF UNSET_LOCATION
<1>2. a \in Seq(Nat) /\ Len(a) = n /\ \A s \in 1 .. n : a[s] = UNSET_LOCATION
  BY <1>1 DEF Unset
<1>3. b \in Seq(Int) /\ Len(b) = n /\ \A s \in 1 .. n : b[s] = -1
  OBVIOUS
<1>4. /\ m \in Nat /\ symbol_locations \in Seq(Nat) /\ Len(symbol_locations) = m
      /\ placed \in Seq(Int) /\ Len(placed) = m
  BY DEF SymbolsOK
<1>5. next_symbol' = m + n /\ symbol_locations' = symbol_locations \o a /\ placed' = placed \o b
  BY DEF MakeSymbols
<1> HIDE DEF a, b
<1>6. /\ symbol_locations' \in Seq(Nat) /\ Len(symbol_locations') = m + n
      /\ \A s \in 1 .. m : symbol_locations'[s] = symbol_locations[s]
      /\ \A s \in 1 .. n : symbol_locations'[m + s] = UNSET_LOCATION
  <2> DEFINE t == symbol_locations \o a
  <2>1. /\ t \in Seq(Nat) /\ Len(t) = m + n
        /\ \A s \in 1 .. m : t[s] = symbol_locations[s]
        /\ \A s \in 1 .. n : t[m + s] = a[s]
    <3>1. /\ t \in Seq(Nat) /\ Len(t) = Len(symbol_locations) + Len(a)
          /\ \A s \in 1 .. Len(symbol_locations) : t[s] = symbol_locations[s]
          /\ \A s \in 1 .. Len(a) : t[Len(symbol_locations) + s] = a[s]
      <4>1. symbol_locations \in Seq(Nat) /\ a \in Seq(Nat)
        BY <1>2, <1>4
      <4>2. QED
        BY <4>1, ConcatProperties
    <3>2. QED
      BY <1>2, <1>4, <3>1, Zenon
  <2>2. symbol_locations' = t
    BY <1>5
  <2> HIDE DEF t
  <2>3. QED
    BY <1>2, <2>1, <2>2
<1>7. /\ placed' \in Seq(Int) /\ Len(placed') = m + n
      /\ \A s \in 1 .. m : placed'[s] = placed[s]
      /\ \A s \in 1 .. n : placed'[m + s] = -1
  <2> DEFINE t == placed \o b
  <2>1. /\ t \in Seq(Int) /\ Len(t) = m + n
        /\ \A s \in 1 .. m : t[s] = placed[s]
        /\ \A s \in 1 .. n : t[m + s] = b[s]
    <3>1. /\ t \in Seq(Int) /\ Len(t) = Len(placed) + Len(b)
          /\ \A s \in 1 .. Len(placed) : t[s] = placed[s]
          /\ \A s \in 1 .. Len(b) : t[Len(placed) + s] = b[s]
      <4>1. placed \in Seq(Int) /\ b \in Seq(Int)
        BY <1>3, <1>4
      <4>2. QED
        BY <4>1, ConcatProperties
    <3>2. QED
      BY <1>3, <1>4, <3>1, Zenon
  <2>2. placed' = t
    BY <1>5
  <2> HIDE DEF t
  <2>3. QED
    BY <1>3, <2>1, <2>2
<1>8. next_symbol' \in Nat /\ next_symbol <= next_symbol' /\ next_symbol' < Base ^ WordLen
  BY <1>4, <1>5
<1>9. ASSUME NEW v, \A k \in 0 .. Len(source) : v[k] = st[k]
      PROVE  SymbolsOK(v)'
  <2>1. ASSUME NEW s \in 1 .. m + n
        PROVE  \/ placed'[s] = -1 /\ symbol_locations'[s] = UNSET_LOCATION
               \/ placed'[s] \in 0 .. Len(source') /\ symbol_locations'[s] = v[placed'[s]]
    <3>1. CASE s \in 1 .. m
      <4>1. \A k \in 0 .. Len(source) : k \in 0 .. Len(source')
        OBVIOUS
      <4>2. \/ placed[s] = -1 /\ symbol_locations[s] = UNSET_LOCATION
            \/ placed[s] \in 0 .. Len(source) /\ symbol_locations[s] = st[placed[s]]
        BY <3>1 DEF SymbolsOK
      <4>3. QED
        BY <1>6, <1>7, <1>9, <3>1, <4>1, <4>2
    <3>2. CASE s \notin 1 .. m
      <4>1. s - m \in 1 .. n /\ m + (s - m) = s
        BY <1>4, <3>2
      <4>2. QED
        BY <1>6, <1>7, <4>1
    <3>3. QED
      BY <3>1, <3>2
  <2>2. UNSET_LOCATION' = UNSET_LOCATION
    BY DEF UNSET_LOCATION
  <2>3. next_symbol' = m + n
    BY <1>5
  <2> HIDE DEF m
  <2>4. QED
    BY <1>6, <1>7, <1>8, <2>1, <2>2, <2>3 DEF SymbolsOK
<1>10. QED
  BY <1>8, <1>9

LEMMA SourceStays ==
    ASSUME SourceOK, next_symbol \in Nat, next_symbol' \in Nat, next_symbol <= next_symbol',
           source' = source
    PROVE  SourceOK'
<1>1. ASSUME NEW k \in 1 .. Len(source), source[k].op = "loc" PROVE source[k].arg < next_symbol'
  <2>1. source[k].arg < next_symbol /\ source[k].arg \in Nat
    BY <1>1, SourceFacts, WordsAreNaturals DEF SourceOK
  <2>2. QED
    BY <2>1
<1>2. QED
  BY <1>1 DEF SourceOK

(* While instructions are emitted, symbols concern none of them.           *)
LEMMA SymbolStepKeeps ==
    ASSUME NEW st, NEW at, Good(st, at), phase = "emitting", SymbolsOK(st)',
           next_symbol' \in Nat, next_symbol <= next_symbol',
           UNCHANGED <<instructions, symbol_ref_locations, phase, i, source>>
    PROVE  Good(st, at)'
<1>1. SourceOK'
  BY SourceStays DEF Good, SymbolsOK
<1>2. Layout(st)' /\ RefsOK(st, at)'
  BY DEF Good, Layout, RefsOK
<1>3. \A k : ~Linked(at, k)
  BY NothingIsLinked DEF Good
<1>4. \A k : ~Linked(at, k)'
  BY <1>3 DEF Linked
<1>5. \A k : Held(st, at, k) = source[k].arg /\ Held(st, at, k)' = source[k].arg
  BY <1>3, <1>4 DEF Held
<1>6. CodeOK(st, at)'
  BY <1>5 DEF Good, CodeOK
<1>7. PhaseOK(at)'
  BY DEF Good, PhaseOK
<1>8. QED
  BY <1>1, <1>2, <1>6, <1>7 DEF Good

LEMMA MakeKeeps ==
    ASSUME NEW st, NEW at, Good(st, at), phase = "emitting", NEW n \in Nat,
           next_symbol + n < Base ^ WordLen, MakeSymbols(n),
           UNCHANGED <<instructions, symbol_ref_locations, phase, i, source>>
    PROVE  Good(st, at)'
<1>1. Len(source) \in Nat /\ Len(source') \in Nat /\ Len(source) <= Len(source')
  BY SourceFacts DEF Good
<1>2. SymbolsOK(st)
  BY DEF Good
<1>3. /\ next_symbol' \in Nat /\ next_symbol <= next_symbol'
      /\ \A v : (\A k \in 0 .. Len(source) : v[k] = st[k]) => SymbolsOK(v)'
  BY <1>1, <1>2, SymbolsGrow
<1>4. SymbolsOK(st)'
  BY <1>3
<1>5. QED
  BY <1>3, <1>4, SymbolStepKeeps

LEMMA PlaceKeeps ==
    ASSUME NEW st, NEW at, Good(st, at), NEW s \in Symbols, PlaceSymbol(s)
    PROVE  Good(st, at)'
<1> DEFINE n == next_symbol
           k == s + 1
<1>1. /\ n \in Nat /\ n < Base ^ WordLen /\ symbol_locations \in Seq(Nat) /\ Len(symbol_locations) = n
      /\ placed \in Seq(Int) /\ Len(placed) = n
  BY DEF Good, SymbolsOK
<1>2. k \in 1 .. n
  BY <1>1 DEF Symbols
<1>3. st[Len(source)] = Len(instructions) /\ Len(source) \in Nat /\ Len(instructions) \in Nat
      /\ Len(source) \in 0 .. Len(source) /\ Len(source) \in Int
  BY SourceFacts, StartFacts DEF Good, Layout
<1>4. /\ symbol_locations' = [symbol_locations EXCEPT ![k] = Len(instructions)]
      /\ placed' = [placed EXCEPT ![k] = Len(source)]
      /\ phase = "emitting"
      /\ UNCHANGED <<instructions, symbol_ref_locations, next_symbol, phase, i, source>>
  BY DEF PlaceSymbol, Emitting
<1> HIDE DEF n, k
<1>5. /\ symbol_locations' \in Seq(Nat) /\ Len(symbol_locations') = n
      /\ symbol_locations'[k] = Len(instructions)
      /\ \A r \in 1 .. n : r # k => symbol_locations'[r] = symbol_locations[r]
  BY <1>1, <1>2, <1>3, <1>4
<1>6. /\ placed' \in Seq(Int) /\ Len(placed') = n
      /\ placed'[k] = Len(source)
      /\ \A r \in 1 .. n : r # k => placed'[r] = placed[r]
  BY <1>1, <1>2, <1>3, <1>4
<1>7. SymbolsOK(st)'
  <2>1. ASSUME NEW r \in 1 .. n
        PROVE  \/ placed'[r] = -1 /\ symbol_locations'[r] = UNSET_LOCATION
               \/ placed'[r] \in 0 .. Len(source') /\ symbol_locations'[r] = st[placed'[r]]
    <3>1. CASE r = k
      BY <1>3, <1>4, <1>5, <1>6, <3>1
    <3>2. CASE r # k
      BY <1>4, <1>5, <1>6, <3>2 DEF Good, SymbolsOK, n
    <3>3. QED
      BY <3>1, <3>2
  <2>2. UNSET_LOCATION' = UNSET_LOCATION
    BY DEF UNSET_LOCATION
  <2>3. next_symbol' = n /\ n \in Nat /\ n < Base ^ WordLen
    BY <1>1, <1>4 DEF n
  <2>4. QED
    BY <1>5, <1>6, <2>1, <2>2, <2>3 DEF SymbolsOK
<1>8. next_symbol' \in Nat /\ next_symbol <= next_symbol'
  BY <1>1, <1>4 DEF n
<1>9. QED
  BY <1>4, <1>7, <1>8, SymbolStepKeeps

-----------------------------------------------------------------------------
(* Linking.                                                                *)

(* The reference that is next is one that still holds its symbol, and it   *)
(* has a location in the code if its symbol was placed there.              *)
LEMMA NextReference ==
    ASSUME NEW st, NEW at, Good(st, at), Linking, NEW k, k = at[i + 1],
           NEW x, x = source[k].arg
    PROVE  /\ k \in 1 .. Len(source) /\ source[k].op = "loc"
           /\ x \in Nat /\ x < next_symbol
           /\ RefLocation = Arg(st[k - 1], "loc")
           /\ ~InCode(SymbolLocation) => Dangling(x)
           /\ InCode(SymbolLocation) => /\ ~Dangling(x)
                                        /\ SymbolLocation = st[placed[x + 1]]
                                        /\ placed[x + 1] \in 0 .. Len(source)
<1>1. i \in Nat /\ i + 1 \in 1 .. Len(symbol_ref_locations)
      /\ \A r \in 1 .. i : r \in 1 .. Len(symbol_ref_locations) /\ r # i + 1
  BY DEF Good, PhaseOK, Linking, RefsOK
<1>2. /\ k \in 1 .. Len(source) /\ source[k].op = "loc"
      /\ RefLocation = Arg(st[k - 1], "loc")
  BY <1>1 DEF Good, RefsOK, RefLocation
<1>3. ~Linked(at, k)
  BY <1>1 DEF Good, RefsOK, Linked
<1>4. Len(source) \in Nat /\ x \in WordValue /\ x \in Nat /\ next_symbol \in Nat /\ x < next_symbol
  BY <1>2, SourceFacts, WordsAreNaturals DEF Good, SourceOK, SymbolsOK
<1>5. Encoded(instructions, st[k - 1], "loc", x)
  BY <1>2, <1>3 DEF Good, CodeOK, Held
<1>6. ReadWord(instructions, RefLocation) = x
  <2> DEFINE a == align_up(RefLocation)
  <2>1. k - 1 \in 0 .. Len(source) /\ "loc" \in Operations /\ Wide(ArgKind["loc"])
    BY <1>2, <1>4, OperationFacts DEF Wide
  <2>2. st[k - 1] \in Nat
    BY <2>1, StartFacts DEF Good
  <2>3. a \in Nat
    BY <1>2, <2>1, <2>2, EndFacts, AlignsUp
  <2>4. CellsAt(instructions, a, Bytewords(x))
    BY <1>2, <1>5, <2>1 DEF Encoded
  <2>5. a + WordLen <= Len(instructions)
        /\ \A j \in 1 .. WordLen : instructions[a + j] = Bytewords(x)[j]
    BY <1>4, <2>4, BytewordsFacts DEF CellsAt
  <2>6. Len(instructions) \in Nat
    BY StartFacts DEF Good
  <2> HIDE DEF a
  <2>7. WordAt(instructions, a) = x
    BY <1>4, <2>3, <2>5, <2>6, ReadsWord
  <2>8. QED
    BY <2>7 DEF ReadWord, a
<1>7. SymbolLocation = symbol_locations[x + 1] /\ x + 1 \in 1 .. next_symbol
  BY <1>4, <1>6 DEF SymbolLocation
<1>8. CASE placed[x + 1] = -1 /\ symbol_locations[x + 1] = UNSET_LOCATION
  <2>1. Dangling(x)
    BY <1>8 DEF Dangling
  <2>2. ~InCode(SymbolLocation)
    BY <1>7, <1>8, StartFacts DEF Good, InCode
  <2>3. QED
    BY <1>2, <1>4, <2>1, <2>2
<1>9. CASE placed[x + 1] \in 0 .. Len(source) /\ symbol_locations[x + 1] = st[placed[x + 1]]
  <2> DEFINE m == placed[x + 1]
  <2>1. st[m] < Len(instructions) <=> m # Len(source)
    BY <1>9, StartFacts DEF Good
  <2>2. m # -1
    BY <1>4, <1>9
  <2>3. SymbolLocation = st[m] /\ m \in 0 .. Len(source)
    BY <1>7, <1>9
  <2>4. Dangling(x) <=> m = Len(source)
    BY <2>2 DEF Dangling
  <2>5. InCode(SymbolLocation) <=> m # Len(source)
    BY <2>1, <2>3 DEF InCode
  <2>6. QED
    BY <1>2, <1>4, <2>3, <2>4, <2>5
<1>10. QED
  BY <1>7, <1>8, <1>9 DEF Good, SymbolsOK

LEMMA PatchedFacts ==
    ASSUME NEW s \in Seq(Byteword), NEW p \in Nat, NEW x \in WordValue
    PROVE  /\ Patched(s, p, x) \in Seq(Byteword) /\ Len(Patched(s, p, x)) = Len(s)
           /\ \A j \in 1 .. Len(s) :
                 j \notin p + 1 .. align_up(p) + WordLen => Patched(s, p, x)[j] = s[j]
           /\ \A j \in 1 .. WordLen :
                 align_up(p) + j <= Len(s) =>
                     Patched(s, p, x)[align_up(p) + j] = Bytewords(x)[j]
<1> DEFINE t == Patched(s, p, x)
           a == align_up(p)
           b == Bytewords(x)
           n == Len(s)
<1>1. a \in Nat /\ p <= a /\ WordLen \in Nat
  BY AlignsUp, Constants
<1>2. b \in [1 .. WordLen -> Byteword] /\ 0 \in Byteword
  BY BytewordsFacts, Constants DEF Byteword
<1>3. n \in Nat /\ DOMAIN s = 1 .. n /\ \A j \in 1 .. n : s[j] \in Byteword
  OBVIOUS
<1>4. t = [k \in 1 .. n |-> IF k \in p + 1 .. a THEN 0
                            ELSE IF k \in a + 1 .. a + WordLen THEN b[k - a] ELSE s[k]]
  BY <1>3 DEF Patched
<1> HIDE DEF a, b, n, t
<1>5. ASSUME NEW j \in 1 .. n
      PROVE  /\ j \in p + 1 .. a => t[j] = 0
             /\ j \in a + 1 .. a + WordLen => t[j] = b[j - a] /\ j - a \in 1 .. WordLen
             /\ j \notin p + 1 .. a + WordLen => t[j] = s[j]
             /\ j \in p + 1 .. a + WordLen => j \in p + 1 .. a \/ j \in a + 1 .. a + WordLen
  <2>1. j \in a + 1 .. a + WordLen => j \notin p + 1 .. a /\ j - a \in 1 .. WordLen
    BY <1>1, <1>3
  <2>2. j \notin p + 1 .. a + WordLen => j \notin p + 1 .. a /\ j \notin a + 1 .. a + WordLen
    BY <1>1, <1>3
  <2>3. j \in p + 1 .. a + WordLen => j \in p + 1 .. a \/ j \in a + 1 .. a + WordLen
    BY <1>1, <1>3
  <2>4. QED
    BY <1>4, <2>1, <2>2, <2>3
<1>6. \A j \in 1 .. n : t[j] \in Byteword
  BY <1>2, <1>3, <1>5
<1>7. t \in Seq(Byteword) /\ Len(t) = n
  <2>1. t = [j \in 1 .. n |-> t[j]]
    BY <1>4
  <2>2. t \in [1 .. n -> Byteword]
    BY <1>6, <2>1
  <2>3. QED
    BY <1>3, <2>2
<1>8. ASSUME NEW j \in 1 .. WordLen, a + j <= n PROVE t[a + j] = b[j]
  <2>1. a + j \in 1 .. n /\ a + j \in a + 1 .. a + WordLen /\ (a + j) - a = j
    BY <1>1, <1>8, <1>3
  <2>2. QED
    BY <1>5, <2>1
<1>9. QED
  BY <1>5, <1>7, <1>8 DEF a, b, n, t

LEMMA PatchKeeps ==
    ASSUME NEW st, NEW at, Good(st, at), PatchReference
    PROVE  Good(st, at)'
<1>1. PICK k : k = at[i + 1]
  OBVIOUS
<1>2. PICK x : x = source[k].arg
  OBVIOUS
<1>3. PICK p : p = RefLocation
  OBVIOUS
<1>4. PICK w : w = SymbolLocation
  OBVIOUS
<1>5. /\ Linking /\ InCode(SymbolLocation)
      /\ instructions' = Patched(instructions, p, w)
      /\ i' = i + 1
      /\ UNCHANGED <<symbol_locations, symbol_ref_locations, next_symbol, phase, source, placed>>
  BY <1>3, <1>4 DEF PatchReference, history
<1>6. /\ k \in 1 .. Len(source) /\ source[k].op = "loc" /\ x \in Nat /\ x < next_symbol
      /\ p = Arg(st[k - 1], "loc") /\ ~Dangling(x)
      /\ w = st[placed[x + 1]] /\ placed[x + 1] \in 0 .. Len(source)
  BY <1>1, <1>2, <1>3, <1>4, <1>5, NextReference
<1>7. /\ Len(source) \in Nat /\ instructions \in Seq(Byteword) /\ Len(instructions) \in Nat
      /\ i \in Nat /\ i < Len(symbol_ref_locations) /\ phase = "linking"
      /\ SourceOK /\ Layout(st) /\ RefsOK(st, at)
  BY <1>5, SourceFacts DEF Good, CodeOK, PhaseOK, Linking
<1>8. "loc" \in Operations /\ Wide(ArgKind["loc"]) /\ ~Narrow(ArgKind["loc"])
  BY OperationFacts DEF Wide, Narrow
<1>9. k - 1 \in 0 .. Len(source) /\ k \in 0 .. Len(source)
  BY <1>6, <1>7
<1>10. /\ st[k - 1] \in Nat /\ st[k] \in Nat /\ st[k] <= Len(instructions)
       /\ st[k] = End(st[k - 1], "loc") /\ w \in WordValue
  BY <1>6, <1>7, <1>9, StartFacts DEF Layout
<1>11. /\ p \in Nat /\ st[k - 1] < p /\ st[k] = align_up(p) + WordLen
       /\ align_up(p) \in Nat /\ p <= align_up(p)
  BY <1>6, <1>8, <1>10, EndFacts, AlignsUp
<1>12. /\ instructions' \in Seq(Byteword) /\ Len(instructions') = Len(instructions)
       /\ \A j \in 1 .. Len(instructions) :
             j \notin p + 1 .. st[k] => instructions'[j] = instructions[j]
       /\ \A j \in 1 .. WordLen : instructions'[align_up(p) + j] = Bytewords(w)[j]
  <2>1. /\ instructions' \in Seq(Byteword) /\ Len(instructions') = Len(instructions)
        /\ \A j \in 1 .. Len(instructions) :
              j \notin p + 1 .. align_up(p) + WordLen => instructions'[j] = instructions[j]
        /\ \A j \in 1 .. WordLen :
              align_up(p) + j <= Len(instructions) => instructions'[align_up(p) + j] = Bytewords(w)[j]
    <3>1. instructions \in Seq(Byteword) /\ p \in Nat /\ w \in WordValue
          /\ instructions' = Patched(instructions, p, w)
      BY <1>5, <1>7, <1>10, <1>11
    <3>2. QED
      BY <3>1, PatchedFacts
  <2>2. \A j \in 1 .. WordLen : align_up(p) + j <= Len(instructions)
    BY <1>7, <1>10, <1>11, Constants
  <2>3. QED
    BY <1>11, <2>1, <2>2
<1>13. SourceOK' /\ Layout(st)' /\ RefsOK(st, at)' /\ SymbolsOK(st)'
  <2>1. SourceOK'
    BY <1>5, <1>7 DEF SourceOK
  <2>2. Layout(st)'
    BY <1>5, <1>7, <1>12 DEF Layout
  <2>3. RefsOK(st, at)'
    BY <1>5, <1>7 DEF RefsOK
  <2>4. SymbolsOK(st)'
    <3>1. UNSET_LOCATION' = UNSET_LOCATION
      BY DEF UNSET_LOCATION
    <3>2. QED
      BY <1>5, <3>1 DEF SymbolsOK, Good
  <2>5. QED
    BY <2>1, <2>2, <2>3, <2>4
<1>14. ASSUME NEW m PROVE Linked(at, m)' <=> Linked(at, m) \/ m = k
  <2>1. \A r \in 1 .. i + 1 : r \in 1 .. i \/ r = i + 1
    BY <1>7
  <2>2. i + 1 \in 1 .. i + 1 /\ \A r \in 1 .. i : r \in 1 .. i + 1
    BY <1>7
  <2>3. QED
    BY <1>1, <1>5, <2>1, <2>2 DEF Linked
<1>15. Held(st, at, k)' = w
  BY <1>2, <1>5, <1>6, <1>14 DEF Held
<1>16. ASSUME NEW m, m # k PROVE Held(st, at, m)' = Held(st, at, m)
  BY <1>5, <1>14, <1>16 DEF Held
<1>17. Encoded(instructions', st[k - 1], "loc", w)
  <2>1. CellsAt(instructions, st[k - 1], Lead["loc"])
    BY <1>6, <1>7 DEF Good, CodeOK, Encoded
  <2>2. Len(Lead["loc"]) = 1 /\ p = st[k - 1] + 1 /\ Lead["loc"][1] = 3
    BY <1>6, OperationFacts DEF Arg
  <2>3. p \notin p + 1 .. st[k] /\ p \in 1 .. Len(instructions)
    BY <1>7, <1>10, <1>11, Constants
  <2>4. instructions'[p] = instructions[p]
    BY <1>12, <2>3
  <2>5. CellsAt(instructions', st[k - 1], Lead["loc"])
    BY <1>12, <2>1, <2>2, <2>4 DEF CellsAt
  <2>6. CellsAt(instructions', align_up(p), Bytewords(w))
    BY <1>10, <1>11, <1>12, BytewordsFacts DEF CellsAt
  <2>7. QED
    BY <1>6, <1>8, <1>10, <1>12, <2>5, <2>6 DEF Encoded
<1>18. ASSUME NEW m \in 1 .. Len(source), m # k
       PROVE  Encoded(instructions', st[m - 1], source[m].op, Held(st, at, m))
  <2>1. source[m].op \in Operations /\ Held(st, at, m) \in WordValue
    BY <1>7, HeldIsWord, SourceFacts
  <2>2. m - 1 \in 0 .. Len(source) /\ m \in 0 .. Len(source)
    BY <1>7
  <2>3. /\ st[m - 1] \in Nat /\ st[m] \in Nat /\ st[m] <= Len(instructions)
        /\ st[m] = End(st[m - 1], source[m].op)
    BY <1>7, <2>2, StartFacts DEF Layout
  <2>4. st[m] <= st[k - 1] \/ st[k] <= st[m - 1]
    <3>1. m = k - 1 \/ m < k - 1 \/ k = m - 1 \/ k < m - 1
      BY <1>6, <1>7, <1>18
    <3>2. m < k - 1 => st[m] < st[k - 1]
      BY <1>7, <1>9, <2>2, StartsAscend
    <3>3. k < m - 1 => st[k] < st[m - 1]
      BY <1>7, <1>9, <2>2, StartsAscend
    <3>4. QED
      BY <1>10, <2>3, <3>1, <3>2, <3>3
  <2>5. \A j \in st[m - 1] + 1 .. st[m] : j \in 1 .. Len(instructions) /\ j \notin p + 1 .. st[k]
    BY <1>7, <1>10, <1>11, <2>3, <2>4
  <2>6. \A j \in st[m - 1] + 1 .. End(st[m - 1], source[m].op) : instructions'[j] = instructions[j]
    BY <1>12, <2>3, <2>5
  <2>7. Encoded(instructions, st[m - 1], source[m].op, Held(st, at, m))
    BY DEF Good, CodeOK
  <2>8. QED
    <3>1. Len(instructions') \in Nat /\ Len(instructions) <= Len(instructions')
      BY <1>7, <1>12
    <3>2. QED
      BY <1>7, <2>1, <2>3, <2>6, <2>7, <3>1, EncodedStays, Zenon
<1>19. CodeOK(st, at)'
  <2>1. ASSUME NEW m \in 1 .. Len(source)
        PROVE  Encoded(instructions', st[m - 1], source[m].op, Held(st, at, m)')
    BY <1>6, <1>15, <1>16, <1>17, <1>18
  <2>2. QED
    BY <1>5, <1>12, <2>1 DEF CodeOK
<1>20. PhaseOK(at)'
  <2>1. i + 1 \in 0 .. Len(symbol_ref_locations) /\ \A r \in 1 .. i + 1 : r \in 1 .. i \/ r = i + 1
    BY <1>7 DEF RefsOK
  <2>2. \A r \in 1 .. i : ~Dangling(source[at[r]].arg)
    BY DEF Good, PhaseOK
  <2>3. \A s : Dangling(s)' <=> Dangling(s)
    BY <1>5 DEF Dangling
  <2>4. \A r \in 1 .. i + 1 : ~Dangling(source[at[r]].arg)
    BY <1>1, <1>2, <1>6, <2>1, <2>2
  <2>5. QED
    BY <1>5, <1>7, <2>1, <2>3, <2>4 DEF PhaseOK
<1>21. QED
  BY <1>13, <1>19, <1>20 DEF Good

(* Steps that change the phase only.                                       *)
LEMMA PhaseStep ==
    ASSUME NEW st, NEW at, Good(st, at), PhaseOK(at)',
           UNCHANGED <<instructions, symbol_locations, symbol_ref_locations,
                       next_symbol, i, source, placed>>
    PROVE  IInv'
<1>1. UNSET_LOCATION' = UNSET_LOCATION
  BY DEF UNSET_LOCATION
<1>2. SourceOK' /\ Layout(st)' /\ RefsOK(st, at)'
  BY DEF Good, SourceOK, Layout, RefsOK
<1>3. SymbolsOK(st)'
  BY <1>1 DEF Good, SymbolsOK
<1>4. \A k : Held(st, at, k)' = Held(st, at, k)
  BY DEF Held, Linked
<1>5. CodeOK(st, at)'
  BY <1>4 DEF Good, CodeOK
<1>6. Good(st, at)'
  BY <1>2, <1>3, <1>5 DEF Good
<1>7. QED
  BY <1>6 DEF IInv

LEMMA FinishKeeps == ASSUME IInv, Finish PROVE IInv'
<1>1. PICK st, at : Good(st, at)
  BY DEF IInv
<1>2. phase = "emitting" /\ phase' = "linking"
      /\ UNCHANGED <<instructions, symbol_locations, symbol_ref_locations,
                     next_symbol, i, source, placed>>
  BY DEF Finish, Emitting, history
<1>3. PhaseOK(at)'
  BY <1>1, <1>2 DEF Good, PhaseOK
<1>4. QED
  BY <1>1, <1>2, <1>3, PhaseStep

LEMMA RefuseKeeps == ASSUME IInv, RefuseReference PROVE IInv'
<1>1. PICK st, at : Good(st, at)
  BY DEF IInv
<1>2. phase' = "failed" /\ Linking /\ ~InCode(SymbolLocation)
      /\ UNCHANGED <<instructions, symbol_locations, symbol_ref_locations,
                     next_symbol, i, source, placed>>
  BY DEF RefuseReference, history
<1>3. PICK k : k = at[i + 1]
  OBVIOUS
<1>4. PICK x : x = source[k].arg
  OBVIOUS
<1>5. k \in 1 .. Len(source) /\ source[k].op = "loc" /\ Dangling(x)
  BY <1>1, <1>2, <1>3, <1>4, NextReference
<1>6. x \in References' /\ Dangling(x)'
  BY <1>2, <1>4, <1>5 DEF References, Dangling
<1>7. \A s : Dangling(s)' <=> Dangling(s)
  BY <1>2 DEF Dangling
<1>8. PhaseOK(at)'
  BY <1>1, <1>2, <1>6, <1>7 DEF Good, PhaseOK
<1>9. QED
  BY <1>1, <1>2, <1>8, PhaseStep

LEMMA AllPatchedKeeps == ASSUME IInv, AllPatched PROVE IInv'
<1>1. PICK st, at : Good(st, at)
  BY DEF IInv
<1>2. phase' = "finished" /\ i = Len(symbol_ref_locations)
      /\ UNCHANGED <<instructions, symbol_locations, symbol_ref_locations,
                     next_symbol, i, source, placed>>
  BY DEF AllPatched, history
<1>3. \A s : Dangling(s)' <=> Dangling(s)
  BY <1>2 DEF Dangling
<1>4. PhaseOK(at)'
  BY <1>1, <1>2, <1>3 DEF Good, PhaseOK
<1>5. QED
  BY <1>1, <1>2, <1>4, PhaseStep

LEMMA StutterKeeps == ASSUME IInv, UNCHANGED vars PROVE IInv'
<1>1. PICK st, at : Good(st, at)
  BY DEF IInv
<1>2. UNCHANGED <<instructions, symbol_locations, symbol_ref_locations,
                  next_symbol, i, source, placed, phase>>
  BY DEF vars
<1>3. (\A s : Dangling(s)' <=> Dangling(s)) /\ References' = References
  BY <1>2 DEF Dangling, References
<1>4. PhaseOK(at)'
  BY <1>1, <1>2, <1>3 DEF Good, PhaseOK
<1>5. QED
  BY <1>1, <1>2, <1>4, PhaseStep

LEMMA PatchStepKeeps == ASSUME IInv, PatchReference PROVE IInv'
<1>1. PICK st, at : Good(st, at)
  BY DEF IInv
<1>2. Good(st, at)'
  BY <1>1, PatchKeeps
<1>3. QED
  BY <1>2 DEF IInv

LEMMA PlaceStepKeeps == ASSUME IInv, NEW s \in Symbols, PlaceSymbol(s) PROVE IInv'
<1>1. PICK st, at : Good(st, at)
  BY DEF IInv
<1>2. Good(st, at)'
  BY <1>1, PlaceKeeps
<1>3. QED
  BY <1>2 DEF IInv

LEMMA MakeStepKeeps ==
    ASSUME IInv, phase = "emitting", NEW n \in Nat,
           next_symbol + n < Base ^ WordLen, MakeSymbols(n),
           UNCHANGED <<instructions, symbol_ref_locations, phase, i, source>>
    PROVE  IInv'
<1>1. PICK st, at : Good(st, at)
  BY DEF IInv
<1>2. Good(st, at)'
  BY <1>1, MakeKeeps
<1>3. QED
  BY <1>2 DEF IInv

(* An instruction is written, and symbols may be made with it, one of      *)
(* which it may refer to.                                                  *)
LEMMA WriteStepKeeps ==
    ASSUME IInv, phase = "emitting", UNCHANGED <<phase, i>>,
           NEW op \in Operations, NEW x \in WordValue, Fits(Len(source) + 1), Write(op, x),
           NEW n \in Nat, next_symbol + n < Base ^ WordLen,
           MakeSymbols(n) \/ UNCHANGED <<symbol_locations, next_symbol, placed>>,
           ArgKind[op] = "none" => x = 0, op = "loc" => x < next_symbol'
    PROVE  IInv'
<1>1. PICK st, at : Good(st, at)
  BY DEF IInv
<1>2. SourceOK /\ SymbolsOK(st) /\ next_symbol \in Nat /\ Len(source) \in Nat
      /\ source \in Seq(Instruction)
  BY <1>1, SourceFacts DEF Good, SymbolsOK, SourceOK
<1>3. Len(source') \in Nat /\ Len(source) <= Len(source')
  <2>1. [op |-> op, arg |-> x] \in Instruction /\ source' = Append(source, [op |-> op, arg |-> x])
    BY DEF Write, Instruction
  <2>2. Len(source') = Len(source) + 1
    BY <1>2, <2>1, AppendProperties
  <2>3. QED
    BY <1>2, <2>2
<1>4. /\ next_symbol' \in Nat /\ next_symbol <= next_symbol'
      /\ \A v : (\A k \in 0 .. Len(source) : v[k] = st[k]) => SymbolsOK(v)'
  <2>1. CASE MakeSymbols(n)
    BY <1>2, <1>3, <2>1, SymbolsGrow
  <2>2. CASE UNCHANGED <<symbol_locations, next_symbol, placed>>
    BY <1>2, <1>3, <2>2, SymbolsStay
  <2>3. QED
    BY <2>1, <2>2
<1>5. QED
  BY <1>1, <1>4, WriteKeeps

-----------------------------------------------------------------------------
(* The initial states.                                                     *)

LEMMA FitsFewer ==
    ASSUME NEW m \in Nat, NEW n \in Nat, m <= n, Fits(n)
    PROVE  Fits(m)
<1> DEFINE M == 2 * WordLen + 1
           a == m * M
           b == n * M
           d == (n - m) * M
           P == Base ^ WordLen
<1>1. M \in Nat /\ P \in Nat
  BY Constants, PowersArePositive
<1> HIDE DEF M, P
<1>2. a \in Nat /\ b \in Nat /\ d \in Nat /\ b = a + d
  BY <1>1
<1>3. b < P - 1
  BY DEF Fits, M, P
<1> HIDE DEF a, b, d
<1>4. a < P - 1
  BY <1>1, <1>2, <1>3
<1>5. QED
  BY <1>4 DEF Fits, a, M, P

LEMMA InitGood == ASSUME Init PROVE IInv
<1>1. PICK st : st = [k \in 0 .. 0 |-> 0]
  OBVIOUS
<1>2. PICK at : at = [r \in 1 .. 0 |-> 0]
  OBVIOUS
<1>3. /\ instructions = << >> /\ symbol_locations = << >> /\ symbol_ref_locations = << >>
      /\ next_symbol = 0 /\ phase = "emitting" /\ i = 0 /\ source = << >> /\ placed = << >>
  BY DEF Init
<1>4. Len(<< >>) = 0 /\ 1 .. 0 = {} /\ 0 .. 0 = {0} /\ \A S : << >> \in Seq(S)
  OBVIOUS
<1>5. SourceOK
  <2>1. Fits(0)
    BY Constants, EmitterAssumption, FitsFewer
  <2>2. QED
    BY <1>3, <1>4, <2>1 DEF SourceOK
<1>6. Layout(st)
  BY <1>1, <1>3, <1>4 DEF Layout
<1>7. RefsOK(st, at)
  BY <1>2, <1>3, <1>4 DEF RefsOK
<1>8. SymbolsOK(st)
  <2>1. 0 < Base ^ WordLen
    BY PowersArePositive, Constants
  <2>2. QED
    BY <1>3, <1>4, <2>1 DEF SymbolsOK
<1>9. CodeOK(st, at) /\ PhaseOK(at)
  BY <1>3, <1>4 DEF CodeOK, PhaseOK
<1>10. QED
  BY <1>5, <1>6, <1>7, <1>8, <1>9 DEF IInv, Good

-----------------------------------------------------------------------------
(* Theorems about the emitter, whoever calls it.                           *)

(* The bounds of the model keep locations and symbols words.               *)
Bounded == Len(source) <= MaxEmitted /\ next_symbol <= MaxSymbols

LEMMA EmitKeeps ==
    ASSUME IInv, Bounded, NEW op \in Operations, NEW x \in WordValue, Emit(op, x),
           ArgKind[op] = "none" => x = 0, op = "loc" => x < next_symbol
    PROVE  IInv' /\ Bounded'
<1>1. /\ phase = "emitting" /\ Len(source) < MaxEmitted /\ Write(op, x)
      /\ UNCHANGED <<symbol_locations, next_symbol, phase, i, placed>>
  BY DEF Emit, Emitting
<1>2. Len(source) \in Nat /\ source \in Seq(Instruction)
      /\ next_symbol \in Nat /\ next_symbol + 0 < Base ^ WordLen
  BY SourceFacts DEF IInv, Good, SymbolsOK, SourceOK
<1>3. Fits(Len(source) + 1)
  BY <1>1, <1>2, Constants, EmitterAssumption, FitsFewer
<1>4. IInv'
  BY <1>1, <1>2, <1>3, WriteStepKeeps
<1>5. Len(source') <= MaxEmitted
  <2>1. [op |-> op, arg |-> x] \in Instruction /\ source' = Append(source, [op |-> op, arg |-> x])
    BY <1>1 DEF Write, Instruction
  <2>2. Len(source') = Len(source) + 1
    BY <1>2, <2>1, AppendProperties
  <2>3. QED
    BY <1>1, <1>2, <2>2, Constants
<1>6. QED
  BY <1>1, <1>4, <1>5 DEF Bounded

LEMMA NextKeeps == ASSUME IInv, Bounded, [Next]_vars PROVE IInv' /\ Bounded'
<1>1. ASSUME EmitPlain PROVE IInv' /\ Bounded'
  <2>1. PICK op \in Operations : ArgKind[op] = "none" /\ Emit(op, 0)
    BY <1>1 DEF EmitPlain
  <2>2. 0 \in WordValue /\ op # "loc"
    <3>1. Base ^ WordLen \in Nat \ {0}
      BY PowersArePositive, Constants
    <3>2. 0 \in WordValue
      BY <3>1 DEF WordValue
    <3>3. QED
      BY <2>1, <3>2, OperationFacts
  <2>3. QED
    BY <2>1, <2>2, EmitKeeps
<1>2. ASSUME EmitArgument PROVE IInv' /\ Bounded'
  <2>1. PICK op \in Operations, x \in Arguments :
            (Narrow(ArgKind[op]) \/ ArgKind[op] = "imw") /\ Emit(op, x)
    BY <1>2 DEF EmitArgument
  <2>2. x \in WordValue /\ op # "loc" /\ ArgKind[op] # "none"
    BY <2>1, EmitterAssumption, OperationFacts DEF WordValue, Narrow
  <2>3. QED
    BY <2>1, <2>2, EmitKeeps
<1>3. ASSUME EmitReference PROVE IInv' /\ Bounded'
  <2>1. PICK op \in Operations, x \in Symbols : ArgKind[op] = "loc" /\ Emit(op, x)
    BY <1>3 DEF EmitReference
  <2>2. next_symbol \in Nat /\ next_symbol < Base ^ WordLen
    BY DEF IInv, Good, SymbolsOK
  <2>3. x \in WordValue /\ x < next_symbol
    <3>1. Base ^ WordLen \in Nat \ {0}
      BY PowersArePositive, Constants
    <3>2. QED
      BY <2>2, <3>1 DEF Symbols, WordValue
  <2>4. QED
    BY <2>1, <2>3, EmitKeeps
<1>4. ASSUME NEW n \in 1 .. MaxSymbols, NewSymbols(n) PROVE IInv' /\ Bounded'
  <2>1. /\ phase = "emitting" /\ next_symbol + n <= MaxSymbols /\ MakeSymbols(n)
        /\ UNCHANGED <<instructions, symbol_ref_locations, phase, i, source>>
    BY <1>4 DEF NewSymbols, Emitting
  <2>2. n \in Nat /\ next_symbol + n < Base ^ WordLen
    <3>1. next_symbol \in Nat /\ MaxSymbols < Base ^ WordLen
      BY EmitterAssumption DEF IInv, Good, SymbolsOK
    <3>2. Base ^ WordLen \in Nat /\ MaxSymbols \in Nat /\ n \in Nat
      BY PowersArePositive, Constants
    <3>3. QED
      BY <2>1, <3>1, <3>2
  <2>3. IInv'
    BY <2>1, <2>2, MakeStepKeeps
  <2>4. Bounded'
    BY <2>1 DEF Bounded, MakeSymbols
  <2>5. QED
    BY <2>3, <2>4
<1>5. ASSUME NEW s \in Symbols, PlaceSymbol(s) PROVE IInv' /\ Bounded'
  BY <1>5, PlaceStepKeeps DEF PlaceSymbol, Bounded
<1>6. ASSUME Finish PROVE IInv' /\ Bounded'
  BY <1>6, FinishKeeps DEF Finish, history, Bounded
<1>7. ASSUME PatchReference PROVE IInv' /\ Bounded'
  BY <1>7, PatchStepKeeps DEF PatchReference, history, Bounded
<1>8. ASSUME RefuseReference PROVE IInv' /\ Bounded'
  BY <1>8, RefuseKeeps DEF RefuseReference, history, Bounded
<1>9. ASSUME AllPatched PROVE IInv' /\ Bounded'
  BY <1>9, AllPatchedKeeps DEF AllPatched, history, Bounded
<1>10. ASSUME UNCHANGED vars PROVE IInv' /\ Bounded'
  BY <1>10, StutterKeeps DEF vars, Bounded
<1>11. QED
  BY <1>1, <1>2, <1>3, <1>4, <1>5, <1>6, <1>7, <1>8, <1>9, <1>10 DEF Next

LEMMA SpecKeeps == Spec => [](IInv /\ Bounded)
<1>1. Init => IInv /\ Bounded
  BY InitGood, Constants DEF Init, Bounded
<1>2. (IInv /\ Bounded) /\ [Next]_vars => (IInv /\ Bounded)'
  BY NextKeeps
<1>3. QED
  BY <1>1, <1>2, PTL DEF Spec

(* Every byteword written is one, and no location can be taken for that of *)
(* a symbol that has none.                                                 *)
THEOREM TypeCorrect == Spec => []TypeOK
<1>1. IInv => TypeOK
  BY ImpliesTypeOK
<1>2. QED
  BY <1>1, SpecKeeps, PTL

(* What bytecode_write_* and emit_* wrote, the readers of bytecode_read_*  *)
(* find: the instructions emitted, with their arguments, to the end.       *)
THEOREM WhatIsWrittenIsRead == Spec => []ReadsBack
<1>1. IInv => ReadsBack
  BY ImpliesReadsBack
<1>2. QED
  BY <1>1, SpecKeeps, PTL

(* emitter_finish replaces every symbol by the start of the instruction it *)
(* was placed before, and changes nothing else that is read.               *)
THEOREM LinkingIsRight == Spec => []LinksToTargets
<1>1. IInv => LinksToTargets
  BY ImpliesLinksToTargets
<1>2. QED
  BY <1>1, SpecKeeps, PTL

(* emitter_finish fails if and only if a symbol that is referred to has no *)
(* place in the code.                                                      *)
THEOREM LinkingFailsRightly == Spec => []FailsOnDangling
<1>1. IInv => FailsOnDangling
  BY ImpliesFailsOnDangling
<1>2. QED
  BY <1>1, SpecKeeps, PTL

-----------------------------------------------------------------------------
(* The assembler, from here on.  Where lexemes end.                        *)

LEMMA EndOfText ==
    /\ "end" \notin Numeral \union Blank \union Sign
    /\ ~IsLetters("end") /\ ~InName("end")
    /\ "%" \notin Blank /\ ":" # "end" /\ "%" # "end"
  BY NumeralAssumption DEF Symbol, Blank, Sign, IsLetters, InName

LEMMA LexemesEnd ==
    ASSUME NEW p \in Nat, Len(text) \in Nat, LexemeAt(p) # "end"
    PROVE  p + 1 \in 0 .. Len(text) /\ p + 1 > p
  BY DEF LexemeAt

(* A run of lexemes of a class ends in the text.                           *)
LEMMA RunEnds ==
    ASSUME NEW Class, NEW p \in Nat, Len(text) \in Nat, p <= Len(text), "end" \notin Class
    PROVE  \E q \in p .. Len(text) :
              LexemeAt(q) \notin Class /\ \A k \in p .. q - 1 : LexemeAt(k) \in Class
<1> DEFINE n == Len(text)
           T == {q \in p .. n : LexemeAt(q) \notin Class}
<1>1. n \in T
  BY DEF LexemeAt
<1>2. PICK q \in T : \A k \in T : ~(k < q)
  <2>1. T \subseteq Nat /\ T # {}
    BY <1>1
  <2> HIDE DEF T
  <2>2. QED
    BY <2>1, LeastElement
<1>3. \A k \in p .. q - 1 : k < q /\ k \in p .. n
  OBVIOUS
<1>4. QED
  BY <1>2, <1>3

LEMMA SeparatorEnds ==
    ASSUME NEW p \in Nat, Len(text) \in Nat, p <= Len(text)
    PROVE  SkipSeparator(p) \in p .. Len(text)
<1>1. \E q \in p .. Len(text) :
         LexemeAt(q) \notin Blank /\ \A k \in p .. q - 1 : LexemeAt(k) \in Blank
  <2>1. "end" \notin Blank
    BY EndOfText
  <2>2. QED
    BY <2>1, RunEnds
<1>2. QED
  BY <1>1 DEF SkipSeparator

LEMMA NameEnds ==
    ASSUME NEW p \in Nat, Len(text) \in Nat, p <= Len(text)
    PROVE  NameEnd(p) \in p .. Len(text)
<1> DEFINE Class == {LexemeAt(k) : k \in {m \in p .. Len(text) : InName(LexemeAt(m))}}
<1>1. "end" \notin Class
  BY EndOfText
<1>2. \A k \in p .. Len(text) : LexemeAt(k) \in Class <=> InName(LexemeAt(k))
  OBVIOUS
<1> HIDE DEF Class
<1>3. PICK q \in p .. Len(text) :
         LexemeAt(q) \notin Class /\ \A k \in p .. q - 1 : LexemeAt(k) \in Class
  BY <1>1, RunEnds
<1>4. \A k \in p .. q - 1 : k \in p .. Len(text)
  OBVIOUS
<1>5. ~InName(LexemeAt(q)) /\ \A k \in p .. q - 1 : InName(LexemeAt(k))
  BY <1>2, <1>3, <1>4
<1>6. QED
  BY <1>5 DEF NameEnd

-----------------------------------------------------------------------------
(* Arguments are words, and their lexemes are read.                        *)

LEMMA ValuesAreNumbers == \A s \in Numeral : Value[s] \in Nat
<1> SUFFICES ASSUME NEW s \in Numeral PROVE Value[s] \in Nat
  OBVIOUS
<1>1. s \in {ToString(n) : n \in Numbers}
  BY DEF Numeral, Value
<1>2. PICK n \in Numbers : ToString(n) = s
  BY <1>1
<1>3. Value[s] = CHOOSE m \in Numbers : ToString(m) = s
  BY <1>1 DEF Value
<1>4. (CHOOSE m \in Numbers : ToString(m) = s) \in Numbers
  BY <1>2
<1>5. QED
  BY <1>3, <1>4, AssemblerAssumption

LEMMA NumbersAreIntegers ==
    ASSUME NEW p \in Nat, Len(text) \in Nat, NEW a \in NumbersAt(p)
    PROVE  a.x \in Int /\ a.end \in p + 1 .. Len(text)
<1> DEFINE digits == IF LexemeAt(p) \in Sign THEN p + 1 ELSE p
           factor == IF LexemeAt(p) = "-" THEN -1 ELSE 1
<1>1. LexemeAt(digits) \in Numeral /\ a = Argument(factor * Value[LexemeAt(digits)], digits + 1)
  BY DEF NumbersAt
<1>2. digits \in Nat /\ p <= digits /\ factor \in Int
  OBVIOUS
<1>3. a.x = factor * Value[LexemeAt(digits)] /\ a.end = digits + 1
  BY <1>1 DEF Argument
<1>4. LexemeAt(digits) # "end" /\ Value[LexemeAt(digits)] \in Nat
  BY <1>1, EndOfText, ValuesAreNumbers
<1> HIDE DEF digits, factor
<1>5. digits + 1 \in 0 .. Len(text)
  BY <1>2, <1>4, LexemesEnd
<1>6. factor * Value[LexemeAt(digits)] \in Int
  BY <1>2, <1>4
<1>7. QED
  BY <1>2, <1>3, <1>5, <1>6

LEMMA BytewordsAreWords == Byteword \subseteq WordValue
<1>1. Base ^ (WordLen - 1) \in Nat \ {0} /\ Base ^ WordLen = Base * Base ^ (WordLen - 1)
  <2>1. WordLen - 1 \in 0 .. WordLen - 1 /\ WordLen - 1 \in 0 .. WordLen /\ (WordLen - 1) + 1 = WordLen
    BY Constants
  <2>2. Base ^ ((WordLen - 1) + 1) = Base * Base ^ (WordLen - 1)
    BY <2>1, PowersOfBase
  <2>3. QED
    BY <2>1, <2>2, PowersArePositive
<1>2. Base <= Base ^ WordLen
  <2> DEFINE P == Base ^ (WordLen - 1)
  <2>1. P \in Nat \ {0} /\ Base \in Nat
    BY <1>1, Constants
  <2> HIDE DEF P
  <2>2. Base <= Base * P
    BY <2>1
  <2>3. QED
    BY <1>1, <2>2 DEF P
<1>3. Base ^ WordLen \in Nat
  BY PowersArePositive, Constants
<1>4. QED
  BY <1>2, <1>3, Constants DEF Byteword, WordValue

LEMMA ImmediatesAreWords ==
    ASSUME NEW p \in Nat, Len(text) \in Nat, NEW a \in Immediates(p)
    PROVE  a.x \in WordValue /\ a.end \in p + 1 .. Len(text)
<1>1. a \in NumbersAt(p) /\ 0 <= a.x /\ a.x <= Base - 1
  BY DEF Immediates, InRange
<1>2. a.x \in Int /\ a.end \in p + 1 .. Len(text)
  BY <1>1, NumbersAreIntegers
<1>3. a.x \in Byteword
  BY <1>1, <1>2, Constants DEF Byteword
<1>4. QED
  BY <1>2, <1>3, BytewordsAreWords

LEMMA SignedAreWords ==
    ASSUME NEW p \in Nat, Len(text) \in Nat, NEW a \in Signed(p)
    PROVE  a.x \in WordValue /\ a.end \in p + 1 .. Len(text)
<1>1. PICK b \in NumbersAt(p) : a = Argument(b.x % Base ^ WordLen, b.end)
  BY DEF Signed, InRange
<1>2. b.x \in Int /\ b.end \in p + 1 .. Len(text)
  BY NumbersAreIntegers
<1>3. Base ^ WordLen \in Nat \ {0}
  BY PowersArePositive, Constants
<1>4. b.x % Base ^ WordLen \in 0 .. Base ^ WordLen - 1
  <2> DEFINE P == Base ^ WordLen
             n == b.x
  <2>1. n \in Int /\ P \in Nat \ {0}
    BY <1>2, <1>3
  <2> HIDE DEF P, n
  <2>2. n % P \in 0 .. P - 1
    BY <2>1
  <2>3. QED
    BY <2>2 DEF P, n
<1>5. a.x = b.x % Base ^ WordLen /\ a.end = b.end
  BY <1>1 DEF Argument
<1>6. QED
  BY <1>2, <1>4, <1>5 DEF WordValue

-----------------------------------------------------------------------------
(* The invariant: what was emitted and made was paid for by lexemes read.  *)

SymbolsKnown == \A name \in DOMAIN symbols : symbols[name] \in Symbols

Paid ==
    /\ text \in Texts
    /\ position \in 0 .. Len(text)
    /\ Len(source) <= position
    /\ next_symbol <= position + 1
    /\ next_symbol = position + 1 => Here = ":" /\ ~IsNew(LabelName)

AssemblerInv ==
    /\ IInv
    /\ user \in {"any", "assembler", "nobody"}
    /\ user = "any" => Bounded
    /\ user = "assembler" => Paid /\ SymbolsKnown

LEMMA LengthsAreWords ==
    ASSUME NEW n \in Nat, Fits(n)
    PROVE  n < Base ^ WordLen
<1> DEFINE M == 2 * WordLen
           P == Base ^ WordLen
           a == n * (M + 1)
           b == n * M
<1>1. M \in Nat /\ P \in Nat
  BY Constants, PowersArePositive
<1>2. a < P - 1
  BY DEF Fits
<1> HIDE DEF M, P
<1>3. b \in Nat /\ a = n + b
  BY <1>1
<1> HIDE DEF a, b
<1>4. n < P
  BY <1>1, <1>2, <1>3
<1>5. QED
  BY <1>4 DEF P

(* While there is text there is room.                                      *)
LEMMA ThereIsRoom ==
    ASSUME IInv, Paid, position < Len(text)
    PROVE  /\ Len(text) \in Nat /\ position \in Nat /\ Len(source) \in Nat
           /\ source \in Seq(Instruction)
           /\ next_symbol \in Nat /\ next_symbol + 0 < Base ^ WordLen
           /\ Fits(Len(source) + 1)
           /\ Here # ":" \/ IsNew(LabelName) =>
                 next_symbol <= position /\ next_symbol + 1 < Base ^ WordLen
<1>1. text \in Seq(STRING) /\ Fits(Len(text))
  BY AssemblerAssumption DEF Paid
<1>2. Len(text) \in Nat
  BY <1>1
<1>3. /\ position \in Nat /\ Len(source) <= position /\ next_symbol <= position + 1
      /\ next_symbol = position + 1 => Here = ":" /\ ~IsNew(LabelName)
  BY <1>2 DEF Paid
<1>4. /\ source \in Seq(Instruction) /\ Len(source) \in Nat
      /\ next_symbol \in Nat /\ next_symbol < Base ^ WordLen
  BY SourceFacts DEF IInv, Good, SourceOK, SymbolsOK
<1>5. Fits(Len(source) + 1)
  BY <1>1, <1>2, <1>3, <1>4, FitsFewer
<1>6. Len(text) < Base ^ WordLen /\ Base ^ WordLen \in Nat
  BY <1>1, <1>2, LengthsAreWords, PowersArePositive, Constants
<1>7. Here # ":" \/ IsNew(LabelName) =>
          next_symbol <= position /\ next_symbol + 1 < Base ^ WordLen
  <2>1. SUFFICES ASSUME Here # ":" \/ IsNew(LabelName)
                 PROVE  next_symbol <= position /\ next_symbol + 1 < Base ^ WordLen
    OBVIOUS
  <2>2. next_symbol # position + 1
    BY <1>3, <2>1
  <2>3. QED
    BY <1>2, <1>3, <1>4, <1>6, <2>2
<1>8. QED
  BY <1>2, <1>3, <1>4, <1>5, <1>7

LEMMA SymbolsAreKnown ==
    ASSUME SymbolsKnown, next_symbol \in Nat, NEW name
    PROVE  /\ ~IsNew(name) => SymbolOf(name) \in Symbols
           /\ SymbolOf(name) \in 0 .. next_symbol
           /\ IsNew(name) => SymbolOf(name) = next_symbol
  BY DEF SymbolsKnown, SymbolOf, IsNew, Symbols

LEMMA KnowsMore ==
    ASSUME SymbolsKnown, next_symbol \in Nat, next_symbol' = next_symbol + 1, NEW name,
           symbols' = WithSymbol(name)
    PROVE  SymbolsKnown' /\ ~IsNew(name)'
<1>1. DOMAIN symbols' = DOMAIN symbols \union {name}
      /\ \A n \in DOMAIN symbols' : symbols'[n] = SymbolOf(n)
  BY DEF WithSymbol
<1>2. \A n : SymbolOf(n) \in 0 .. next_symbol
  BY SymbolsAreKnown
<1>3. Symbols' = 0 .. next_symbol
  BY DEF Symbols
<1>4. QED
  BY <1>1, <1>2, <1>3 DEF SymbolsKnown, IsNew

LEMMA LocationsAreSymbols ==
    ASSUME NEW p \in Nat, Len(text) \in Nat, NEW a \in Locations(p)
    PROVE  a.x = SymbolOf(NameAt(p + 1)) /\ a.end \in p + 1 .. Len(text)
<1>1. LexemeAt(p) = ":" /\ a = Argument(SymbolOf(NameAt(p + 1)), NameEnd(p + 1))
  BY DEF Locations
<1>2. p + 1 \in 0 .. Len(text)
  BY <1>1, EndOfText, LexemesEnd
<1>3. NameEnd(p + 1) \in p + 1 .. Len(text)
  BY <1>2, NameEnds
<1>4. QED
  BY <1>1, <1>3 DEF Argument

LEMMA ArgumentsAreWords ==
    ASSUME SymbolsKnown, next_symbol \in Nat, next_symbol < Base ^ WordLen,
           NEW p \in Nat, Len(text) \in Nat,
           NEW op \in Operations, ArgKind[op] # "none", NEW a \in ArgumentsAt(ArgKind[op], p)
    PROVE  /\ a.x \in WordValue /\ a.end \in p + 1 .. Len(text)
           /\ op = "loc" => a.x = SymbolOf(NameAt(p + 1))
<1>1. CASE ArgKind[op] = "imb"
  <2>1. a \in Immediates(p) /\ op # "loc"
    BY <1>1, OperationFacts, Zenon DEF ArgumentsAt
  <2>2. QED
    BY <2>1, ImmediatesAreWords
<1>2. CASE ArgKind[op] = "imw"
  <2>1. a \in Signed(p) /\ op # "loc"
    BY <1>2, OperationFacts, Zenon DEF ArgumentsAt
  <2>2. QED
    BY <2>1, SignedAreWords
<1>3. CASE ArgKind[op] = "var"
  <2>1. LexemeAt(p) = "%" /\ a \in Immediates(p + 1) /\ op # "loc"
    <3>1. ArgumentsAt("var", p) = IF LexemeAt(p) = "%" THEN Immediates(p + 1) ELSE {}
      BY Zenon DEF ArgumentsAt
    <3>2. QED
      BY <1>3, <3>1, OperationFacts
  <2>2. p + 1 \in Nat
    OBVIOUS
  <2>3. a.x \in WordValue /\ a.end \in (p + 1) + 1 .. Len(text)
    BY <2>1, <2>2, ImmediatesAreWords
  <2>4. QED
    BY <2>1, <2>3
<1>4. CASE ArgKind[op] = "loc"
  <2>1. a \in Locations(p)
    BY <1>4, Zenon DEF ArgumentsAt
  <2>2. a.x = SymbolOf(NameAt(p + 1)) /\ a.end \in p + 1 .. Len(text)
    BY <2>1, LocationsAreSymbols
  <2>3. a.x \in WordValue
    <3>1. Base ^ WordLen \in Nat
      BY PowersArePositive, Constants
    <3>2. a.x \in 0 .. next_symbol
      BY <2>2, SymbolsAreKnown
    <3>3. QED
      BY <3>1, <3>2 DEF WordValue
  <2>4. QED
    BY <2>2, <2>3
<1>5. QED
  BY <1>1, <1>2, <1>3, <1>4, OperationFacts

-----------------------------------------------------------------------------
(* Steps of the assembler.                                                 *)

LEMMA RefusalKeeps ==
    ASSUME AssemblerInv, NEW n, Refuse(n)
    PROVE  AssemblerInv'
<1>1. UNCHANGED vars /\ user' = "nobody"
  BY DEF Refuse
<1>2. IInv'
  BY <1>1, StutterKeeps DEF AssemblerInv
<1>3. QED
  BY <1>1, <1>2 DEF AssemblerInv

LEMMA OneMore ==
    ASSUME source \in Seq(Instruction), NEW op \in Operations, NEW x \in WordValue, Write(op, x)
    PROVE  Len(source') = Len(source) + 1
<1>1. [op |-> op, arg |-> x] \in Instruction /\ source' = Append(source, [op |-> op, arg |-> x])
  BY DEF Write, Instruction
<1>2. QED
  BY <1>1, AppendProperties

(* The reading of an instruction goes on behind it.                        *)
LEMMA AssembledKeeps ==
    ASSUME AssemblerInv, Thing, Here # ":", NEW op \in Operations, NEW x \in WordValue,
           NEW end \in position + 1 .. Len(text), NEW r, Assembled(op, x, end, r),
           NEW n \in 0 .. 1,
           \/ n = 0 /\ NoNewSymbol
           \/ n = 1 /\ MakeSymbols(1) /\ \E name : symbols' = WithSymbol(name),
           ArgKind[op] = "none" => x = 0, op = "loc" => x < next_symbol + n
    PROVE  AssemblerInv'
<1>1. /\ IInv /\ Paid /\ SymbolsKnown /\ user = "assembler" /\ phase = "emitting"
      /\ position < Len(text)
  BY DEF AssemblerInv, Thing, Assembling, Emitting
<1>2. /\ Len(text) \in Nat /\ position \in Nat /\ Len(source) \in Nat /\ source \in Seq(Instruction)
      /\ next_symbol \in Nat /\ next_symbol + 0 < Base ^ WordLen
      /\ Fits(Len(source) + 1)
      /\ next_symbol <= position /\ next_symbol + 1 < Base ^ WordLen
  BY <1>1, ThereIsRoom
<1>3. /\ Write(op, x) /\ position' = end
      /\ UNCHANGED <<phase, i, user, text>>
  BY DEF Assembled
<1>4. n \in Nat /\ next_symbol + n < Base ^ WordLen
  BY <1>2
<1>5. /\ MakeSymbols(n) \/ UNCHANGED <<symbol_locations, next_symbol, placed>>
      /\ next_symbol' = next_symbol + n
  <2>1. CASE n = 0 /\ NoNewSymbol
    BY <1>2, <2>1 DEF NoNewSymbol
  <2>2. CASE n = 1 /\ MakeSymbols(1)
    BY <2>2 DEF MakeSymbols
  <2>3. QED
    BY <2>1, <2>2
<1>6. IInv'
  BY <1>1, <1>2, <1>3, <1>4, <1>5, WriteStepKeeps
<1>7. Len(source') = Len(source) + 1
  BY <1>2, <1>3, OneMore
<1>8. Paid'
  <2>1. text' \in Texts /\ Len(source) <= position
    BY <1>1, <1>3 DEF Paid
  <2>2. position' \in 0 .. Len(text') /\ Len(source') <= position'
    BY <1>2, <1>3, <1>7, <2>1
  <2>3. next_symbol' <= position' /\ next_symbol' # position' + 1
    BY <1>2, <1>3, <1>5
  <2>4. next_symbol' <= position' + 1
    BY <1>2, <1>3, <1>5
  <2>5. QED
    BY <2>1, <2>2, <2>3, <2>4 DEF Paid
<1>9. SymbolsKnown'
  <2>1. CASE n = 0
    BY <2>1, <1>1 DEF NoNewSymbol, SymbolsKnown, Symbols
  <2>2. CASE n = 1
    BY <2>2, <1>1, <1>2, <1>5, KnowsMore
  <2>3. QED
    BY <2>1, <2>2
<1>10. QED
  BY <1>1, <1>3, <1>6, <1>8, <1>9 DEF AssemblerInv

(* The mnemonic of no instruction.                                         *)
None == ""

LEMMA MnemonicFacts ==
    ASSUME NEW p
    PROVE  /\ IsLetters(LexemeAt(p)) => AfterMnemonic(p) = p + 1
           /\ ~IsLetters(LexemeAt(p)) => AfterMnemonic(p) = p /\ MnemonicAt(p) = None
  BY Zenon DEF AfterMnemonic, MnemonicAt, None

LEMMA CodeFacts ==
    /\ \A m : Codes(OpcodeMnemonics, m) \subseteq {None, "sys"} \union Operations
    /\ Codes(OpcodeMnemonics, None) = {None}
    /\ \A m : Codes(SyscallMnemonics, m) \subseteq {None} \union Operations
<1>1. None \in OpcodeMnemonics
  BY Zenon DEF None, OpcodeMnemonics
<1>2. Codes(OpcodeMnemonics, None) = {None}
  BY <1>1, Zenon DEF Codes
<1>3. \A m, s : Codes(s, m) \subseteq s \union {None}
  BY Zenon DEF Codes, None
<1>4. OpcodeMnemonics \subseteq {None, "sys"} \union Operations
  BY OperationFacts, Zenon DEF OpcodeMnemonics, None
<1>5. SyscallMnemonics \subseteq Operations
  BY OperationFacts DEF SyscallMnemonics
<1>6. QED
  BY <1>2, <1>3, <1>4, <1>5

LEMMA WithFacts ==
    ASSUME NEW op, NEW p, NEW r, AssembleWith(op, p, r)
    PROVE  \/ op = None /\ Refuse(r)
           \/ op # None /\ ArgKind[op] = "none" /\ Assembled(op, 0, p, r) /\ NoNewSymbol
           \/ op # None /\ ArgKind[op] # "none" /\ Refuse(r + 1)
           \/ /\ op # None /\ ArgKind[op] # "none"
              /\ \E start \in {SkipSeparator(p)} : \E a \in ArgumentsAt(ArgKind[op], start) :
                    /\ Assembled(op, a.x, a.end, r)
                    /\ IF ArgKind[op] = "loc" /\ IsNew(NameAt(start + 1))
                       THEN MakeSymbols(1) /\ symbols' = WithSymbol(NameAt(start + 1))
                       ELSE NoNewSymbol
  BY Zenon DEF AssembleWith, None

LEMMA InstructionKeeps ==
    ASSUME AssemblerInv, Thing, Here # ":", NEW op \in Operations \union {None}, NEW p, NEW r,
           op # None => p \in position + 1 .. Len(text), AssembleWith(op, p, r)
    PROVE  AssemblerInv'
<1>1. CASE op = None
  BY <1>1, RefusalKeeps, WithFacts
<1>2. CASE op # None
  <2>1. op \in Operations /\ p \in position + 1 .. Len(text)
    BY <1>2
  <2>2. /\ IInv /\ Paid /\ SymbolsKnown /\ position < Len(text)
    BY DEF AssemblerInv, Thing, Assembling
  <2>3. /\ Len(text) \in Nat /\ position \in Nat /\ next_symbol \in Nat
        /\ next_symbol < Base ^ WordLen
    <3>1. Base ^ WordLen \in Nat
      BY PowersArePositive, Constants
    <3>2. /\ Len(text) \in Nat /\ position \in Nat /\ next_symbol \in Nat
          /\ next_symbol + 0 < Base ^ WordLen
      BY <2>2, ThereIsRoom
    <3>3. QED
      BY <3>1, <3>2
  <2>4. p \in Nat /\ p <= Len(text) /\ position < p
    BY <2>1, <2>3
  <2>5. CASE ArgKind[op] = "none"
    <3>1. Assembled(op, 0, p, r) /\ NoNewSymbol
      BY <1>2, <2>5, WithFacts
    <3>2. 0 \in WordValue /\ op # "loc"
      <4>1. Base ^ WordLen \in Nat \ {0}
        BY PowersArePositive, Constants
      <4>2. 0 \in WordValue
        BY <4>1 DEF WordValue
      <4>3. QED
        BY <2>1, <2>5, <4>2, OperationFacts
    <3>3. 0 \in 0 .. 1
      OBVIOUS
    <3>4. QED
      BY <2>1, <3>1, <3>2, <3>3, AssembledKeeps
  <2>6. CASE ArgKind[op] # "none"
    <3> DEFINE start == SkipSeparator(p)
               args == ArgumentsAt(ArgKind[op], start)
               name == NameAt(start + 1)
    <3>1. start \in p .. Len(text) /\ start \in Nat
      BY <2>3, <2>4, SeparatorEnds
    <3>2. \/ Refuse(r + 1)
          \/ \E a \in args :
                /\ Assembled(op, a.x, a.end, r)
                /\ IF ArgKind[op] = "loc" /\ IsNew(name)
                   THEN MakeSymbols(1) /\ symbols' = WithSymbol(name)
                   ELSE NoNewSymbol
      BY <1>2, <2>6, WithFacts
    <3>3. ASSUME NEW a \in args, Assembled(op, a.x, a.end, r),
                 IF ArgKind[op] = "loc" /\ IsNew(name)
                 THEN MakeSymbols(1) /\ symbols' = WithSymbol(name)
                 ELSE NoNewSymbol
          PROVE  AssemblerInv'
      <4>1. /\ a.x \in WordValue /\ a.end \in start + 1 .. Len(text)
            /\ op = "loc" => a.x = SymbolOf(name)
        BY <2>1, <2>2, <2>3, <2>6, <3>1, ArgumentsAreWords
      <4>2. a.end \in position + 1 .. Len(text)
        BY <2>3, <2>4, <3>1, <4>1
      <4>3. 0 \in 0 .. 1 /\ 1 \in 0 .. 1
        OBVIOUS
      <4> HIDE DEF name, start
      <4>4. /\ ~IsNew(name) => SymbolOf(name) \in Symbols
            /\ IsNew(name) => SymbolOf(name) = next_symbol
        BY <2>2, <2>3, SymbolsAreKnown
      <4>5. CASE ArgKind[op] = "loc" /\ IsNew(name)
        <5>1. op = "loc" => a.x < next_symbol + 1
          BY <2>3, <4>1, <4>4, <4>5
        <5>2. MakeSymbols(1) /\ \E nm : symbols' = WithSymbol(nm)
          BY <3>3, <4>5
        <5>3. QED
          BY <2>1, <2>6, <3>3, <4>1, <4>2, <4>3, <5>1, <5>2, AssembledKeeps
      <4>6. CASE ~(ArgKind[op] = "loc" /\ IsNew(name))
        <5>1. op = "loc" => a.x < next_symbol + 0
          BY <2>1, <2>3, <4>1, <4>4, <4>6, KindFacts DEF Symbols
        <5>2. NoNewSymbol
          BY <3>3, <4>6
        <5>3. QED
          BY <2>1, <2>6, <3>3, <4>1, <4>2, <4>3, <5>1, <5>2, AssembledKeeps
      <4>7. QED
        BY <4>5, <4>6
    <3>4. QED
      BY <3>2, <3>3, RefusalKeeps
  <2>7. QED
    BY <2>5, <2>6
<1>3. QED
  BY <1>1, <1>2

LEMMA AssembleKeeps == ASSUME AssemblerInv, AssembleOne PROVE AssemblerInv'
<1> DEFINE p == AfterMnemonic(position)
           m == MnemonicAt(position)
           r == NotFound(OpcodeMnemonics, m)
<1>1. PICK opcode \in Codes(OpcodeMnemonics, m) :
         IF opcode = "sys" THEN AssembleSyscall(SkipSeparator(p), r) ELSE AssembleWith(opcode, p, r)
  BY DEF AssembleOne
<1>2. Thing /\ Here # ":" /\ Paid /\ IInv /\ position < Len(text)
  BY DEF AssembleOne, AssemblerInv, Thing, Assembling
<1>3. Len(text) \in Nat /\ position \in Nat
  BY <1>2, ThereIsRoom
<1>4. opcode \in {None, "sys"} \union Operations /\ (m = None => opcode = None)
  BY CodeFacts
<1>5. opcode # None => p = position + 1 /\ p \in position + 1 .. Len(text)
  BY <1>2, <1>3, <1>4, MnemonicFacts
<1>6. CASE opcode # "sys"
  <2>1. opcode \in Operations \union {None}
    BY <1>4, <1>6
  <2>2. AssembleWith(opcode, p, r)
    BY <1>1, <1>6
  <2> HIDE DEF p, r
  <2>3. QED
    BY <1>2, <1>5, <2>1, <2>2, InstructionKeeps
<1>7. CASE opcode = "sys"
  <2> DEFINE q == SkipSeparator(p)
             n == MnemonicAt(q)
             e == AfterMnemonic(q)
             s == r + NotFound(SyscallMnemonics, n)
  <2>0. "sys" # None
    BY Zenon DEF None
  <2>1. q \in position + 1 .. Len(text) /\ q \in Nat
    BY <1>3, <1>5, <1>7, <2>0, SeparatorEnds
  <2>2. PICK call \in Codes(SyscallMnemonics, n) : AssembleWith(call, e, s)
    BY <1>1, <1>7 DEF AssembleSyscall
  <2>3. e \in position + 1 .. Len(text)
    <3>1. CASE IsLetters(LexemeAt(q))
      <4>1. LexemeAt(q) # "end"
        BY <3>1, EndOfText
      <4>2. q + 1 \in 0 .. Len(text)
        BY <1>3, <2>1, <4>1, LexemesEnd
      <4>3. e = q + 1
        BY <3>1, MnemonicFacts
      <4> HIDE DEF e, q
      <4>4. QED
        BY <1>3, <2>1, <4>2, <4>3
    <3>2. CASE ~IsLetters(LexemeAt(q))
      BY <2>1, <3>2, MnemonicFacts
    <3>3. QED
      BY <3>1, <3>2
  <2>4. call \in Operations \union {None}
    BY CodeFacts
  <2> HIDE DEF e, s
  <2>5. QED
    BY <1>2, <2>2, <2>3, <2>4, InstructionKeeps
<1>8. QED
  BY <1>6, <1>7

LEMMA SkipKeeps == ASSUME AssemblerInv, Skip PROVE AssemblerInv'
<1>1. /\ IInv /\ Paid /\ SymbolsKnown /\ user = "assembler" /\ position < Len(text)
      /\ position' = position + 1 /\ UNCHANGED <<vars, user, text, symbols>>
  BY DEF AssemblerInv, Skip, Assembling
<1>2. Len(text) \in Nat /\ position \in Nat /\ next_symbol \in Nat /\ Len(source) \in Nat
  BY <1>1, ThereIsRoom
<1>3. IInv'
  BY <1>1, StutterKeeps
<1>4. UNCHANGED <<source, next_symbol>>
  BY <1>1 DEF vars
<1>5. Paid'
  <2>1. text' \in Texts /\ Len(source) <= position /\ next_symbol <= position + 1
    BY <1>1 DEF Paid
  <2>2. /\ position' \in 0 .. Len(text') /\ Len(source') <= position'
        /\ next_symbol' <= position' + 1 /\ next_symbol' # position' + 1
    BY <1>1, <1>2, <1>4, <2>1
  <2>3. QED
    BY <2>1, <2>2 DEF Paid
<1>6. SymbolsKnown'
  BY <1>1, <1>4 DEF SymbolsKnown, Symbols
<1>7. QED
  BY <1>1, <1>3, <1>5, <1>6 DEF AssemblerInv

LEMMA MeetKeeps == ASSUME AssemblerInv, MeetLabel PROVE AssemblerInv'
<1>1. /\ IInv /\ Paid /\ SymbolsKnown /\ user = "assembler" /\ phase = "emitting"
      /\ position < Len(text) /\ Here = ":" /\ IsNew(LabelName) /\ MakeSymbols(1)
      /\ symbols' = WithSymbol(LabelName)
      /\ UNCHANGED <<instructions, symbol_ref_locations, phase, i, source, user, text, position>>
  BY DEF AssemblerInv, MeetLabel, Thing, Assembling, Emitting
<1>2. /\ Len(text) \in Nat /\ position \in Nat /\ next_symbol \in Nat /\ Len(source) \in Nat
      /\ next_symbol <= position /\ next_symbol + 1 < Base ^ WordLen
  BY <1>1, ThereIsRoom
<1>3. IInv'
  BY <1>1, <1>2, MakeStepKeeps
<1>4. next_symbol' = next_symbol + 1
  BY <1>1 DEF MakeSymbols
<1>5. PICK name : name = LabelName
  OBVIOUS
<1>6. SymbolsKnown' /\ ~IsNew(name)'
  BY <1>1, <1>2, <1>4, <1>5, KnowsMore
<1>7. LabelName' = name /\ Here' = Here
  BY <1>1, <1>5 DEF LabelName, NameAt, NameEnd, LexemeAt, Here
<1>8. Paid'
  <2>1. text' \in Texts /\ position' \in 0 .. Len(text') /\ Len(source') <= position'
    BY <1>1 DEF Paid
  <2>2. next_symbol' <= position' + 1
    BY <1>1, <1>2, <1>4
  <2>3. Here' = ":" /\ ~IsNew(LabelName)'
    BY <1>1, <1>6, <1>7 DEF IsNew
  <2>4. QED
    BY <2>1, <2>2, <2>3 DEF Paid
<1>9. QED
  BY <1>1, <1>3, <1>6, <1>8 DEF AssemblerInv

LEMMA PlaceLabelKeeps == ASSUME AssemblerInv, PlaceLabel PROVE AssemblerInv'
<1>1. /\ IInv /\ Paid /\ SymbolsKnown /\ user = "assembler" /\ position < Len(text)
      /\ ~IsNew(LabelName) /\ PlaceSymbol(SymbolOf(LabelName))
      /\ position' = NameEnd(position + 1) /\ UNCHANGED <<user, text, symbols>>
  BY DEF AssemblerInv, PlaceLabel, Thing, Assembling
<1>2. Len(text) \in Nat /\ position \in Nat /\ next_symbol \in Nat /\ Len(source) \in Nat
  BY <1>1, ThereIsRoom
<1>3. SymbolOf(LabelName) \in Symbols
  BY <1>1, <1>2, SymbolsAreKnown
<1>4. IInv'
  BY <1>1, <1>3, PlaceStepKeeps
<1>5. UNCHANGED <<source, next_symbol>>
  BY <1>1 DEF PlaceSymbol
<1>6. position' \in position + 1 .. Len(text)
  <2>1. position + 1 \in Nat /\ position + 1 <= Len(text)
    BY <1>1, <1>2
  <2>2. QED
    BY <1>1, <1>2, <2>1, NameEnds
<1>7. Paid'
  <2>1. text' \in Texts /\ Len(source) <= position /\ next_symbol <= position + 1
    BY <1>1 DEF Paid
  <2>2. /\ position' \in 0 .. Len(text') /\ Len(source') <= position'
        /\ next_symbol' <= position' + 1 /\ next_symbol' # position' + 1
    BY <1>1, <1>2, <1>5, <1>6, <2>1
  <2>3. QED
    BY <2>1, <2>2 DEF Paid
<1>8. SymbolsKnown'
  BY <1>1, <1>5 DEF SymbolsKnown, Symbols
<1>9. QED
  BY <1>1, <1>4, <1>7, <1>8 DEF AssemblerInv

(* Steps of the linker, and stuttering, leave the reading as it is.        *)
LEMMA LinkStepKeeps ==
    ASSUME AssemblerInv, IInv', UNCHANGED <<source, next_symbol>>,
           UNCHANGED <<user, text, position, symbols>>
    PROVE  AssemblerInv'
<1>1. Paid => Paid'
  BY DEF Paid, Here, LexemeAt, IsNew, LabelName, NameAt, NameEnd
<1>2. SymbolsKnown => SymbolsKnown'
  BY DEF SymbolsKnown, Symbols
<1>3. Bounded => Bounded'
  BY DEF Bounded
<1>4. QED
  BY <1>1, <1>2, <1>3 DEF AssemblerInv

LEMMA AssemblerStep ==
    ASSUME AssemblerInv, [AssemblerNext]_<<vars, assembler_vars>>
    PROVE  AssemblerInv'
<1>1. IInv
  BY DEF AssemblerInv
<1>2. CASE Skip
  BY <1>2, SkipKeeps
<1>3. CASE RefuseSecond
  BY <1>3, RefusalKeeps DEF RefuseSecond
<1>4. CASE MeetLabel
  BY <1>4, MeetKeeps
<1>5. CASE PlaceLabel
  BY <1>5, PlaceLabelKeeps
<1>6. CASE RefuseLabel
  BY <1>6, RefusalKeeps DEF RefuseLabel
<1>7. CASE AssembleOne
  BY <1>7, AssembleKeeps
<1>8. CASE AssemblerFinish
  <2>1. Finish /\ UNCHANGED <<source, next_symbol>> /\ UNCHANGED <<user, text, position, symbols>>
    BY <1>8 DEF AssemblerFinish, Finish, history, assembler_vars
  <2>2. QED
    BY <1>1, <2>1, FinishKeeps, LinkStepKeeps
<1>9. CASE AssemblerLink
  <2>1. UNCHANGED <<source, next_symbol>> /\ UNCHANGED <<user, text, position, symbols>>
    BY <1>9 DEF AssemblerLink, PatchReference, AllPatched, history, assembler_vars
  <2>2. IInv'
    BY <1>1, <1>9, PatchStepKeeps, AllPatchedKeeps DEF AssemblerLink
  <2>3. QED
    BY <2>1, <2>2, LinkStepKeeps
<1>10. CASE UndefinedSymbol
  <2>1. RefuseReference /\ UNCHANGED <<source, next_symbol>>
        /\ UNCHANGED <<user, text, position, symbols>>
    BY <1>10 DEF UndefinedSymbol, RefuseReference, history
  <2>2. QED
    BY <1>1, <2>1, RefuseKeeps, LinkStepKeeps
<1>11. CASE AnyUser
  <2>1. user = "any" /\ user' = "any" /\ Next /\ Bounded
    BY <1>11 DEF AnyUser, assembler_vars, AssemblerInv
  <2>2. IInv' /\ Bounded'
    BY <1>1, <2>1, NextKeeps
  <2>3. QED
    BY <2>1, <2>2 DEF AssemblerInv
<1>12. CASE UNCHANGED <<vars, assembler_vars>>
  <2>1. UNCHANGED vars /\ UNCHANGED <<source, next_symbol>>
        /\ UNCHANGED <<user, text, position, symbols>>
    BY <1>12 DEF vars, assembler_vars
  <2>2. QED
    BY <1>1, <2>1, StutterKeeps, LinkStepKeeps
<1>13. QED
  BY <1>2, <1>3, <1>4, <1>5, <1>6, <1>7, <1>8, <1>9, <1>10, <1>11, <1>12 DEF AssemblerNext

LEMMA AssemblerSpecKeeps == AssemblerSpec => []AssemblerInv
<1>1. AssemblerInit => AssemblerInv
  <2> SUFFICES ASSUME AssemblerInit PROVE AssemblerInv
    OBVIOUS
  <2>1. Init /\ position = 0 /\ symbols = << >>
        /\ (user = "any" \/ (user = "assembler" /\ text \in Texts))
    BY DEF AssemblerInit
  <2>2. IInv /\ source = << >> /\ next_symbol = 0
    BY <2>1, InitGood DEF Init
  <2>3. Bounded
    BY <2>2, Constants DEF Bounded
  <2>4. text \in Texts => Paid
    <3>1. text \in Texts => Len(text) \in Nat
      BY AssemblerAssumption
    <3>2. QED
      BY <2>1, <2>2, <3>1 DEF Paid
  <2>5. SymbolsKnown
    BY <2>1 DEF SymbolsKnown
  <2>6. QED
    BY <2>1, <2>2, <2>3, <2>4, <2>5 DEF AssemblerInv
<1>2. AssemblerInv /\ [AssemblerNext]_<<vars, assembler_vars>> => AssemblerInv'
  BY AssemblerStep
<1>3. QED
  BY <1>1, <1>2, PTL DEF AssemblerSpec

(* What the emitter promises holds of what the assembler emits too: types, *)
(* what is written is read, references go to the labels' instructions, and *)
(* linking fails if and only if a label that is referred to has none.      *)
THEOREM AssemblerKeepsPromises ==
    AssemblerSpec => [](TypeOK /\ ReadsBack /\ LinksToTargets /\ FailsOnDangling)
<1>1. AssemblerInv => TypeOK /\ ReadsBack /\ LinksToTargets /\ FailsOnDangling
  BY ImpliesTypeOK, ImpliesReadsBack, ImpliesLinksToTargets, ImpliesFailsOnDangling DEF AssemblerInv
<1>2. QED
  BY <1>1, AssemblerSpecKeeps, PTL

-----------------------------------------------------------------------------
(* The disassembler, from here on.  Where its reader's ip is.              *)

LEMMA FollowingGrows ==
    ASSUME NEW p \in Nat
    PROVE  Following(p) \in Nat /\ p < Following(p)
<1> DEFINE at == {o \in Operations : HasLead(p, o)}
           op == IF at = {} THEN "nop" ELSE CHOOSE o \in at : TRUE
<1>1. op \in Operations
  <2>1. at # {} => (CHOOSE o \in at : TRUE) \in at
    OBVIOUS
  <2>2. QED
    BY <2>1, OperationFacts
<1>2. InstructionAt(p).op = op
  BY DEF InstructionAt
<1> HIDE DEF op
<1>3. Following(p) = End(p, op)
  BY <1>2, Zenon DEF Following, End, Arg
<1>4. QED
  BY <1>1, <1>3, EndFacts

LEMMA IpFacts ==
    ASSUME Len(instructions) \in Nat
    PROVE  /\ Ip \in [0 .. Len(instructions) -> Nat] /\ Ip[0] = 0
           /\ \A k \in 1 .. Len(instructions) : Ip[k] = Following(Ip[k - 1])
           /\ \A j, k \in 0 .. Len(instructions) : j < k => Ip[j] < Ip[k]
<1> DEFINE m == Len(instructions)
           F == [k \in 1 .. m |-> [p \in Nat |-> Following(p)]]
           Place[k \in 0 .. m] == IF k = 0 THEN 0 ELSE Following(Place[k - 1])
<1>1. \A k \in 1 .. m, p \in Nat : F[k][p] \in Nat /\ F[k][p] = Following(p)
  BY FollowingGrows
<1>2. \E f \in [0 .. m -> Nat] : Runs(f, 0, F, m)
  <2>1. StepsWithin(F, m, Nat)
    BY <1>1 DEF StepsWithin
  <2>2. 0 \in Nat /\ m \in Nat
    OBVIOUS
  <2> HIDE DEF F, m
  <2>3. QED
    BY <2>1, <2>2, RecursionExists
<1>3. PICK f \in [0 .. m -> Nat] : f[0] = 0 /\ \A k \in 1 .. m : f[k] = F[k][f[k - 1]]
  BY <1>2 DEF Runs
<1>4. \A k \in 1 .. m : f[k] = Following(f[k - 1])
  <2> SUFFICES ASSUME NEW k \in 1 .. m PROVE f[k] = Following(f[k - 1])
    OBVIOUS
  <2>1. k - 1 \in 0 .. m
    OBVIOUS
  <2> HIDE DEF F
  <2>2. QED
    BY <1>1, <1>3, <2>1
<1> HIDE DEF F
<1>5. f = [k \in 0 .. m |-> IF k = 0 THEN 0 ELSE Following(f[k - 1])]
  <2>1. \A k \in 0 .. m : k # 0 => k \in 1 .. m
    OBVIOUS
  <2>2. QED
    BY <1>3, <1>4, <2>1
<1>6. Place = [k \in 0 .. m |-> IF k = 0 THEN 0 ELSE Following(Place[k - 1])]
  BY <1>5, Zenon
<1>7. Ip = Place
  BY DEF Ip
<1> HIDE DEF Place
<1>8. Place[0] = f[0]
  BY <1>3, <1>6
<1>9. \A k \in 0 .. m - 1 : Place[k] = f[k] => Place[k + 1] = f[k + 1]
  <2> SUFFICES ASSUME NEW k \in 0 .. m - 1, Place[k] = f[k] PROVE Place[k + 1] = f[k + 1]
    OBVIOUS
  <2>1. k + 1 \in 1 .. m /\ k + 1 \in 0 .. m /\ k + 1 # 0 /\ (k + 1) - 1 = k
    OBVIOUS
  <2>2. Place[k + 1] = Following(Place[k])
    BY <1>6, <2>1
  <2>3. QED
    BY <1>4, <2>1, <2>2
<1>10. \A k \in 0 .. m : Place[k] = f[k]
  <2>1. m \in Nat
    OBVIOUS
  <2>2. QED
    BY ONLY <2>1, <1>8, <1>9, SameRecursion, Zenon
<1>11. Place \in [0 .. m -> Nat]
  <2>1. Place = [k \in 0 .. m |-> Place[k]]
    BY <1>6
  <2>2. QED
    BY <1>10, <2>1
<1>12. \A k \in 1 .. m : Place[k] = Following(Place[k - 1])
  <2> SUFFICES ASSUME NEW k \in 1 .. m PROVE Place[k] = Following(Place[k - 1])
    OBVIOUS
  <2>1. k \in 0 .. m /\ k # 0
    OBVIOUS
  <2>2. QED
    BY <1>6, <2>1
<1>13. \A j, k \in 0 .. m : j < k => Place[j] < Place[k]
  <2>1. \A k \in 1 .. m : Place[k - 1] < Place[k]
    <3> SUFFICES ASSUME NEW k \in 1 .. m PROVE Place[k - 1] < Place[k]
      OBVIOUS
    <3>1. Place[k - 1] \in Nat
      BY <1>11
    <3>2. QED
      BY <1>12, <3>1, FollowingGrows
  <2>2. m \in Nat
    OBVIOUS
  <2> HIDE DEF m
  <2>3. QED
    BY <1>11, <2>1, <2>2, StepsAscend
<1>14. QED
  BY <1>3, <1>7, <1>8, <1>11, <1>12, <1>13

(* The lines a reader finds in code that is finished are those that were   *)
(* emitted, at the places where they start.                                *)
LEMMA ReadersAgree ==
    ASSUME IInv, phase = "finished"
    PROVE  /\ Len(source) \in Nat /\ Turns = Len(source)
           /\ Ip \in [0 .. Len(instructions) -> Nat] /\ Len(source) \in 0 .. Len(instructions)
           /\ \A j, k \in 0 .. Len(source) : j < k => Ip[j] < Ip[k]
           /\ \A k \in 0 .. Len(source) : Ip[k] \in Nat /\ StartOf[k] = Ip[k]
           /\ DOMAIN EmittedLines = 1 .. Len(source)
           /\ \A k \in 1 .. Len(source) :
                 /\ InstructionAt(Ip[k - 1]) = EmittedLines[k]
                 /\ EmittedLines[k].op = source[k].op
                 /\ Refers(EmittedLines[k]) =>
                       \E j \in 0 .. Len(source) - 1 : EmittedLines[k].arg = Ip[j]
<1> DEFINE n == Len(source)
           m == Len(instructions)
<1>1. PICK st, at : Good(st, at)
  BY DEF IInv
<1>2. n \in Nat /\ m \in Nat /\ st \in [0 .. n -> Nat] /\ st[0] = 0 /\ st[n] = m
  BY <1>1, SourceFacts, StartFacts DEF Good, Layout
<1>3. \A k \in 1 .. n : Following(st[k - 1]) = st[k]
  BY <1>1, ReaderFollows
<1>4. \A j, k \in 0 .. n : j < k => st[j] < st[k]
  BY <1>1, StartsAscend DEF Good
<1>5. n <= m
  <2>1. \A k \in 1 .. n : st[k - 1] < st[k]
    <3> SUFFICES ASSUME NEW k \in 1 .. n PROVE st[k - 1] < st[k]
      OBVIOUS
    <3>1. k - 1 \in 0 .. n /\ k \in 0 .. n /\ k - 1 < k
      BY <1>2
    <3>2. QED
      BY <1>4, <3>1
  <2> HIDE DEF n, m
  <2>2. \A k \in 0 .. n : k <= st[k]
    BY <1>2, <2>1, StepsAscend
  <2>3. QED
    BY <1>2, <2>2
<1>6. /\ Ip \in [0 .. m -> Nat] /\ Ip[0] = 0
      /\ \A k \in 1 .. m : Ip[k] = Following(Ip[k - 1])
      /\ \A j, k \in 0 .. m : j < k => Ip[j] < Ip[k]
  BY <1>2, IpFacts
<1>7. \A k \in 0 .. n : Ip[k] = st[k]
  <2>1. \A k \in 0 .. n - 1 : Ip[k] = st[k] => Ip[k + 1] = st[k + 1]
    <3> SUFFICES ASSUME NEW k \in 0 .. n - 1, Ip[k] = st[k] PROVE Ip[k + 1] = st[k + 1]
      OBVIOUS
    <3>1. k + 1 \in 1 .. n /\ k + 1 \in 1 .. m /\ (k + 1) - 1 = k
      BY <1>2, <1>5
    <3>2. QED
      BY <1>3, <1>6, <3>1
  <2>2. Ip[0] = st[0]
    BY <1>2, <1>6
  <2>3. n \in Nat
    BY <1>2
  <2> HIDE DEF n
  <2>4. QED
    BY <2>1, <2>2, <2>3, SameRecursion
<1>8. StartOf[n] = m /\ \A k \in 0 .. n : StartOf[k] = Ip[k]
  BY <1>1, <1>2, <1>7, ReaderIsAtStarts
<1>9. Turns = n
  <2> HIDE DEF n, m
  <2>1. n \in 0 .. m /\ Ip[n] = m
    BY <1>2, <1>5, <1>7
  <2>2. \A k \in 0 .. m : Ip[k] = m => k = n
    <3> SUFFICES ASSUME NEW k \in 0 .. m, Ip[k] = m PROVE k = n
      OBVIOUS
    <3>1. ~(k < n) /\ ~(n < k)
      BY <1>2, <1>6, <2>1
    <3>2. QED
      BY <1>2, <2>1, <3>1
  <2>3. (CHOOSE k \in 0 .. m : Ip[k] = m) = n
    BY <2>1, <2>2
  <2>4. QED
    BY <2>3 DEF Turns, m
<1>10. ReadsAs(TRUE)
  BY ImpliesLinksToTargets DEF LinksToTargets
<1>11. DOMAIN source = 1 .. n
  BY <1>1 DEF Good, SourceOK
<1>12. ASSUME NEW k \in 1 .. n
       PROVE  /\ InstructionAt(Ip[k - 1]) = EmittedLines[k]
              /\ EmittedLines[k].op = source[k].op
              /\ Refers(EmittedLines[k]) => \E j \in 0 .. n - 1 : EmittedLines[k].arg = Ip[j]
  <2>1. /\ source[k].op \in Operations /\ source[k].arg \in WordValue
        /\ source[k] = [op |-> source[k].op, arg |-> source[k].arg]
    BY <1>1, SourceFacts DEF Good
  <2>2. EmittedLines[k] = [op |-> source[k].op, arg |-> Expected(source[k], TRUE)]
    BY <1>11 DEF EmittedLines, Line
  <2> DEFINE op == source[k].op
             arg == Expected(source[k], TRUE)
  <2>12. EmittedLines[k].op = op /\ EmittedLines[k].arg = arg
    <3> HIDE DEF op, arg
    <3>1. EmittedLines[k] = [op |-> op, arg |-> arg]
      BY <2>2 DEF op, arg
    <3>2. QED
      BY <3>1
  <2> HIDE DEF op, arg
  <2>3. InstructionAt(StartOf[k - 1]) = EmittedLines[k]
    <3>1. InstructionAt(StartOf[k - 1]) = [source[k] EXCEPT !.arg = Expected(source[k], TRUE)]
      BY <1>10 DEF ReadsAs
    <3>2. \A o, a, x : [[op |-> o, arg |-> a] EXCEPT !.arg = x] = [op |-> o, arg |-> x]
      OBVIOUS
    <3>3. QED
      BY <2>1, <2>2, <3>1, <3>2, Zenon
  <2>4. k - 1 \in 0 .. n
    BY <1>2
  <2>5. ASSUME Refers(EmittedLines[k])
        PROVE  \E j \in 0 .. n - 1 : EmittedLines[k].arg = Ip[j]
    <3> DEFINE s == source[k].arg
    <3>1. ArgKind[source[k].op] = "loc"
      BY <2>2, <2>5 DEF Refers
    <3>2. source[k].op = "loc" /\ ~Narrow(ArgKind[source[k].op])
      BY <2>1, <3>1, KindFacts DEF Narrow
    <3>3. Expected(source[k], TRUE) = StartOf[placed[s + 1]]
      BY <3>1, <3>2, Zenon DEF Expected
    <3>4. s \in References
      BY <3>2 DEF References
    <3>5. placed[s + 1] \notin {-1, n}
      BY <3>4, ImpliesFailsOnDangling DEF FailsOnDangling, Dangling
    <3>6. s \in Nat /\ s < next_symbol /\ next_symbol \in Nat
      BY <1>1, <2>1, <3>2 DEF Good, SourceOK, SymbolsOK, WordValue
    <3>7. s + 1 \in 1 .. next_symbol
      BY <3>6
    <3>8. placed[s + 1] \in 0 .. n
      BY <1>1, <3>5, <3>7 DEF Good, SymbolsOK
    <3>9. placed[s + 1] \in 0 .. n - 1
      BY <1>2, <3>5, <3>8
    <3>10. EmittedLines[k].arg = Ip[placed[s + 1]]
      <4> DEFINE q == placed[s + 1]
      <4>1. StartOf[q] = Ip[q]
        BY <1>8, <3>8
      <4>2. EmittedLines[k].arg = StartOf[q]
        BY <2>12, <3>3 DEF arg
      <4>3. QED
        BY <4>1, <4>2
    <3>11. QED
      BY <3>9, <3>10
  <2>6. StartOf[k - 1] = Ip[k - 1]
    BY <1>8, <2>4
  <2>7. QED
    BY <2>12, <2>3, <2>5, <2>6 DEF op
<1>13. DOMAIN EmittedLines = 1 .. n
  BY <1>11 DEF EmittedLines
<1>14. \A j, k \in 0 .. n : j < k => Ip[j] < Ip[k]
  BY <1>4, <1>7
<1>15. \A k \in 0 .. n : Ip[k] \in Nat
  BY <1>2, <1>7
<1>16. n \in 0 .. m
  BY <1>2, <1>5
<1>17. QED
  BY <1>2, <1>6, <1>8, <1>9, <1>12, <1>13, <1>14, <1>15, <1>16

-----------------------------------------------------------------------------
(* The locations register_symbols collects, F[k] after k lines of L.       *)

Collects(L, F, n) ==
    /\ F \in [0 .. n -> Seq(Nat)] /\ F[0] = << >>
    /\ \A k \in 1 .. n :
          F[k] = IF Refers(L[k]) THEN Append(F[k - 1], L[k].arg) ELSE F[k - 1]

(* The k-th line is the one whose reference is the Len(F[k])-th.           *)
Numbered(L, F, n) ==
    /\ \A j \in 1 .. n :
          Refers(L[j]) => Len(F[j]) \in 1 .. Len(F[n]) /\ F[n][Len(F[j])] = L[j].arg
    /\ \A j, k \in 1 .. n : j < k /\ Refers(L[k]) => Len(F[j]) < Len(F[k])
    /\ \A m \in 1 .. Len(F[n]) : \E j \in 1 .. n : Refers(L[j]) /\ Len(F[j]) = m

LEMMA ReferencesAreNumbered ==
    ASSUME NEW n \in Nat, NEW L, NEW F, Collects(L, F, n),
           \A k \in 1 .. n : Refers(L[k]) => L[k].arg \in Nat
    PROVE  Numbered(L, F, n)
<1> DEFINE Known(k) ==
               /\ \A j \in 0 .. k : Len(F[j]) <= Len(F[k])
               /\ \A j \in 1 .. k :
                     Refers(L[j]) => Len(F[j]) \in 1 .. Len(F[k]) /\ F[k][Len(F[j])] = L[j].arg
               /\ \A m \in 1 .. Len(F[k]) : \E j \in 1 .. k : Refers(L[j]) /\ Len(F[j]) = m
           S == {k \in 0 .. n : Known(k)}
<1>1. \A k \in 0 .. n : F[k] \in Seq(Nat) /\ Len(F[k]) \in Nat
  BY DEF Collects
<1>2. 0 \in S
  BY <1>1 DEF Collects
<1>3. ASSUME NEW k \in 1 .. n, ~Refers(L[k]) PROVE F[k] = F[k - 1]
  BY <1>3 DEF Collects
<1>4. ASSUME NEW k \in 1 .. n, Refers(L[k])
      PROVE  /\ Len(F[k]) = Len(F[k - 1]) + 1 /\ F[k][Len(F[k])] = L[k].arg
             /\ \A m \in 1 .. Len(F[k - 1]) : F[k][m] = F[k - 1][m]
  <2>1. F[k] = Append(F[k - 1], L[k].arg) /\ L[k].arg \in Nat
    BY <1>4 DEF Collects
  <2>2. k - 1 \in 0 .. n
    OBVIOUS
  <2>3. F[k - 1] \in Seq(Nat)
    BY <1>1, <2>2
  <2>4. QED
    BY <2>1, <2>3
<1>5. ASSUME NEW k \in S \intersect 0 .. n - 1 PROVE k + 1 \in S
  <2>1. k \in Nat /\ k + 1 \in 1 .. n /\ k + 1 \in 0 .. n /\ (k + 1) - 1 = k /\ k \in 0 .. n
    OBVIOUS
  <2>2. Known(k) /\ Len(F[k]) \in Nat /\ Len(F[k + 1]) \in Nat
    BY <1>1, <2>1
  <2>3. CASE ~Refers(L[k + 1])
    <3>1. F[k + 1] = F[k]
      BY <1>3, <2>1, <2>3
    <3>2. \A j \in 0 .. k + 1 : j \in 0 .. k \/ j = k + 1
      BY <2>1
    <3>3. \A j \in 1 .. k + 1 : j \in 1 .. k \/ j = k + 1
      BY <2>1
    <3>4. \A j \in 0 .. k + 1 : Len(F[j]) <= Len(F[k + 1])
      BY <2>2, <3>1, <3>2
    <3>5. \A j \in 1 .. k + 1 :
             Refers(L[j]) => Len(F[j]) \in 1 .. Len(F[k + 1]) /\ F[k + 1][Len(F[j])] = L[j].arg
      BY <2>2, <2>3, <3>1, <3>3
    <3>6. \A m \in 1 .. Len(F[k + 1]) : \E j \in 1 .. k + 1 : Refers(L[j]) /\ Len(F[j]) = m
      <4>1. \A j \in 1 .. k : j \in 1 .. k + 1
        BY <2>1
      <4>2. QED
        BY <2>2, <3>1, <4>1
    <3>7. QED
      BY <2>1, <3>4, <3>5, <3>6
  <2>4. CASE Refers(L[k + 1])
    <3>1. /\ Len(F[k + 1]) = Len(F[k]) + 1 /\ F[k + 1][Len(F[k + 1])] = L[k + 1].arg
          /\ \A m \in 1 .. Len(F[k]) : F[k + 1][m] = F[k][m]
      BY <1>4, <2>1, <2>4
    <3>2. \A j \in 0 .. k + 1 : j \in 0 .. k \/ j = k + 1
      BY <2>1
    <3>3. \A j \in 1 .. k + 1 : j \in 1 .. k \/ j = k + 1
      BY <2>1
    <3>4. \A j \in 0 .. k + 1 : Len(F[j]) <= Len(F[k + 1])
      <4> SUFFICES ASSUME NEW j \in 0 .. k + 1 PROVE Len(F[j]) <= Len(F[k + 1])
        OBVIOUS
      <4>1. CASE j = k + 1
        BY <2>2, <4>1
      <4>2. CASE j \in 0 .. k
        <5>1. Len(F[j]) <= Len(F[k]) /\ Len(F[j]) \in Nat
          <6>1. j \in 0 .. n
            BY <2>1, <4>2
          <6>2. QED
            BY <1>1, <2>2, <4>2, <6>1
        <5>2. QED
          BY <2>2, <3>1, <5>1
      <4>3. QED
        BY <3>2, <4>1, <4>2
    <3>5. \A j \in 1 .. k + 1 :
             Refers(L[j]) => Len(F[j]) \in 1 .. Len(F[k + 1]) /\ F[k + 1][Len(F[j])] = L[j].arg
      <4> SUFFICES ASSUME NEW j \in 1 .. k + 1, Refers(L[j])
                   PROVE  Len(F[j]) \in 1 .. Len(F[k + 1]) /\ F[k + 1][Len(F[j])] = L[j].arg
        OBVIOUS
      <4>1. CASE j = k + 1
        BY <2>2, <3>1, <4>1
      <4>2. CASE j \in 1 .. k
        <5>1. Len(F[j]) \in 1 .. Len(F[k]) /\ F[k][Len(F[j])] = L[j].arg
          BY <2>2, <4>2
        <5>2. F[k + 1][Len(F[j])] = F[k][Len(F[j])]
          BY <3>1, <5>1
        <5>3. Len(F[j]) \in 1 .. Len(F[k + 1])
          BY <2>2, <3>1, <5>1
        <5>4. QED
          BY <5>1, <5>2, <5>3
      <4>3. QED
        BY <3>3, <4>1, <4>2
    <3>6. \A m \in 1 .. Len(F[k + 1]) : \E j \in 1 .. k + 1 : Refers(L[j]) /\ Len(F[j]) = m
      <4> SUFFICES ASSUME NEW m \in 1 .. Len(F[k + 1])
                   PROVE  \E j \in 1 .. k + 1 : Refers(L[j]) /\ Len(F[j]) = m
        OBVIOUS
      <4>1. m \in 1 .. Len(F[k]) \/ m = Len(F[k + 1])
        BY <2>2, <3>1
      <4>2. k + 1 \in 1 .. k + 1 /\ \A j \in 1 .. k : j \in 1 .. k + 1
        BY <2>1
      <4>3. QED
        BY <2>2, <2>4, <4>1, <4>2
    <3>7. QED
      BY <2>1, <3>4, <3>5, <3>6
  <2>5. QED
    BY <2>3, <2>4
<1>6. \A k \in 0 .. n : Known(k)
  <2>1. 0 .. n \subseteq S
    <3> HIDE DEF S
    <3>1. QED
      BY <1>2, <1>5, IntervalInduction
  <2>2. QED
    BY <2>1
<1>7. n \in 0 .. n
  OBVIOUS
<1>8. ASSUME NEW j \in 1 .. n, NEW k \in 1 .. n, j < k, Refers(L[k])
      PROVE  Len(F[j]) < Len(F[k])
  <2>1. j \in 0 .. k - 1 /\ k - 1 \in 0 .. n /\ j \in 0 .. n /\ k \in 0 .. n
    BY <1>8
  <2>2. Len(F[j]) <= Len(F[k - 1])
    BY <1>6, <2>1
  <2>3. Len(F[k]) = Len(F[k - 1]) + 1
    BY <1>4, <1>8
  <2>4. Len(F[j]) \in Nat /\ Len(F[k - 1]) \in Nat
    BY <1>1, <2>1
  <2>5. QED
    BY <2>2, <2>3, <2>4
<1>9. Known(n)
  BY <1>6, <1>7
<1>10. QED
  BY <1>8, <1>9 DEF Numbered

(* The first q references go further and further.                          *)
Ascending(refs, q) == \A j, k \in 1 .. q : j < k => refs[j] < refs[k]

Reached(refs) == {refs[m] : m \in {q \in 1 .. Len(refs) : Ascending(refs, q)}}

LEMMA TargetsAreReached ==
    ASSUME NEW n \in Nat, NEW L, NEW F, Collects(L, F, n), Numbered(L, F, n), DOMAIN L = 1 .. n
    PROVE  Targets(L) = Reached(F[n])
<1> DEFINE lines == {k \in DOMAIN L : Refers(L[k])}
           refs == F[n]
           Nr(j) == Len(F[j])
<1>1. \A j \in lines : j \in 1 .. n /\ Refers(L[j])
  OBVIOUS
<1>2. \A j \in lines : Nr(j) \in 1 .. Len(refs) /\ refs[Nr(j)] = L[j].arg
  BY <1>1 DEF Numbered
<1>3. \A j, k \in lines : j < k => Nr(j) < Nr(k)
  BY <1>1 DEF Numbered
<1>4. \A m \in 1 .. Len(refs) : \E j \in lines : Nr(j) = m
  BY DEF Numbered
<1>5. Len(refs) \in Nat
  BY DEF Collects
<1>6. \A j, k \in lines : Nr(j) < Nr(k) => j < k
  <2> SUFFICES ASSUME NEW j \in lines, NEW k \in lines, Nr(j) < Nr(k) PROVE j < k
    OBVIOUS
  <2>1. j \in Nat /\ k \in Nat /\ Nr(j) \in Nat /\ Nr(k) \in Nat
    BY <1>1, <1>2
  <2>2. k < j => Nr(k) < Nr(j)
    BY <1>3
  <2>3. j # k
    BY <2>1
  <2>4. QED
    BY <2>1, <2>2, <2>3
<1>7. Targets(L) = {L[q].arg : q \in {m \in lines :
                        \A j, k \in lines : j < k /\ k <= m => L[j].arg < L[k].arg}}
  BY DEF Targets
<1> HIDE DEF lines, refs, Nr
<1>8. ASSUME NEW q \in lines,
             \A j, k \in lines : j < k /\ k <= q => L[j].arg < L[k].arg
      PROVE  Ascending(refs, Nr(q))
  <2> SUFFICES ASSUME NEW a \in 1 .. Nr(q), NEW b \in 1 .. Nr(q), a < b
               PROVE  refs[a] < refs[b]
    BY DEF Ascending
  <2>1. Nr(q) \in 1 .. Len(refs)
    BY <1>2
  <2>2. a \in 1 .. Len(refs) /\ b \in 1 .. Len(refs)
    BY <1>5, <2>1
  <2>3. PICK j \in lines : Nr(j) = a
    BY <1>4, <2>2
  <2>4. PICK k \in lines : Nr(k) = b
    BY <1>4, <2>2
  <2>5. j < k
    BY <1>6, <2>3, <2>4
  <2>6. k <= q
    <3>1. ~(q < k)
      <4>1. q < k => Nr(q) < b
        BY <1>3, <2>4
      <4>2. ~(Nr(q) < b)
        BY <2>1, <2>2
      <4>3. QED
        BY <4>1, <4>2
    <3>2. q \in Nat /\ k \in Nat
      BY <1>1
    <3>3. QED
      BY <3>1, <3>2
  <2>7. L[j].arg < L[k].arg
    BY <1>8, <2>5, <2>6
  <2>8. QED
    BY <1>2, <2>3, <2>4, <2>7
<1>9. ASSUME NEW q \in lines, Ascending(refs, Nr(q))
      PROVE  \A j, k \in lines : j < k /\ k <= q => L[j].arg < L[k].arg
  <2> SUFFICES ASSUME NEW j \in lines, NEW k \in lines, j < k, k <= q
               PROVE  L[j].arg < L[k].arg
    OBVIOUS
  <2>1. Nr(j) < Nr(k)
    BY <1>3
  <2>2. k = q \/ k < q
    BY <1>1
  <2>3. Nr(k) = Nr(q) \/ Nr(k) < Nr(q)
    BY <1>3, <2>2
  <2>4. Nr(j) \in 1 .. Len(refs) /\ Nr(k) \in 1 .. Len(refs) /\ Nr(q) \in 1 .. Len(refs)
    BY <1>2
  <2>5. Nr(j) \in 1 .. Nr(q) /\ Nr(k) \in 1 .. Nr(q)
    BY <1>5, <2>1, <2>3, <2>4
  <2>6. refs[Nr(j)] < refs[Nr(k)]
    BY <1>9, <2>1, <2>5 DEF Ascending
  <2>7. QED
    BY <1>2, <2>6
<1>10. Targets(L) \subseteq Reached(refs)
  <2> SUFFICES ASSUME NEW q \in lines,
                      \A j, k \in lines : j < k /\ k <= q => L[j].arg < L[k].arg
               PROVE  L[q].arg \in Reached(refs)
    BY <1>7
  <2>1. Ascending(refs, Nr(q)) /\ Nr(q) \in 1 .. Len(refs) /\ refs[Nr(q)] = L[q].arg
    BY <1>2, <1>8
  <2>2. QED
    BY <2>1 DEF Reached
<1>11. Reached(refs) \subseteq Targets(L)
  <2> SUFFICES ASSUME NEW m \in 1 .. Len(refs), Ascending(refs, m)
               PROVE  refs[m] \in Targets(L)
    BY DEF Reached
  <2>1. PICK q \in lines : Nr(q) = m
    BY <1>4
  <2>2. refs[m] = L[q].arg
    BY <1>2, <2>1
  <2>3. \A j, k \in lines : j < k /\ k <= q => L[j].arg < L[k].arg
    BY <1>9, <2>1
  <2>4. QED
    BY <1>7, <2>2, <2>3
<1>12. QED
  BY <1>10, <1>11 DEF refs

-----------------------------------------------------------------------------
(* The labels.  When the disassembler is at ip[k], x of them are written:  *)
(* all that are behind, and the next one is not, if references ascend so   *)
(* far; if they do not, it is never met.                                   *)

Behind(refs, ip, x, k) ==
    /\ x \in 0 .. Len(refs) /\ Ascending(refs, x)
    /\ \A m \in 1 .. x : refs[m] < ip[k]
    /\ x < Len(refs) /\ Ascending(refs, x + 1) => ip[k] <= refs[x + 1]

IsNext(refs, x, p) == x < Len(refs) /\ refs[x + 1] = p

LEMMA MeetsLabels ==
    ASSUME NEW refs \in Seq(Nat), NEW n \in Nat, NEW ip, NEW k \in 0 .. n - 1, NEW x,
           \A j \in 0 .. n : ip[j] \in Nat,
           \A i1, i2 \in 0 .. n : i1 < i2 => ip[i1] < ip[i2],
           \A m \in 1 .. Len(refs) : \E j \in 0 .. n - 1 : refs[m] = ip[j],
           Behind(refs, ip, x, k)
    PROVE  /\ IsNext(refs, x, ip[k]) <=> ip[k] \in Reached(refs)
           /\ IsNext(refs, x, ip[k]) => Behind(refs, ip, x + 1, k + 1)
           /\ ~IsNext(refs, x, ip[k]) => Behind(refs, ip, x, k + 1)
<1> DEFINE N == Len(refs)
           p == ip[k]
           q == ip[k + 1]
<1>1. N \in Nat /\ x \in Nat /\ x <= N /\ \A m \in 1 .. N : refs[m] \in Nat
  BY DEF Behind
<1>2. k \in 0 .. n /\ k + 1 \in 0 .. n /\ p \in Nat /\ q \in Nat /\ p < q
  <2>1. k \in 0 .. n /\ k + 1 \in 0 .. n /\ k < k + 1
    OBVIOUS
  <2>2. QED
    BY <2>1
<1>3. ASSUME NEW m \in 1 .. N, p < refs[m] PROVE q <= refs[m]
  <2>1. PICK j \in 0 .. n - 1 : refs[m] = ip[j]
    OBVIOUS
  <2>2. j \in 0 .. n /\ j \in Nat /\ k \in Nat
    OBVIOUS
  <2>3. ~(j < k) /\ j # k
    <3>1. j < k => ip[j] < ip[k]
      BY <1>2, <2>2
    <3>2. refs[m] \in Nat
      BY <1>1
    <3>3. QED
      BY <1>2, <1>3, <2>1, <3>1, <3>2
  <2>4. j = k + 1 \/ k + 1 < j
    BY <2>2, <2>3
  <2>5. ip[k + 1] = ip[j] \/ ip[k + 1] < ip[j]
    BY <1>2, <2>2, <2>4
  <2>6. QED
    BY <1>1, <1>2, <2>1, <2>5
<1>4. /\ Ascending(refs, x) /\ \A m \in 1 .. x : refs[m] < p
      /\ x < N /\ Ascending(refs, x + 1) => p <= refs[x + 1]
  BY DEF Behind
<1> HIDE DEF N, p, q
<1>5. ASSUME x < N, p <= refs[x + 1] PROVE Ascending(refs, x + 1)
  <2> SUFFICES ASSUME NEW a \in 1 .. x + 1, NEW b \in 1 .. x + 1, a < b
               PROVE  refs[a] < refs[b]
    BY DEF Ascending
  <2>1. a \in 1 .. x /\ refs[a] \in Nat
    BY <1>1, <1>5
  <2>2. CASE b \in 1 .. x
    BY <1>4, <2>1, <2>2 DEF Ascending
  <2>3. CASE b = x + 1
    <3>1. refs[a] < p
      BY <1>4, <2>1
    <3>2. x + 1 \in 1 .. N
      BY <1>1, <1>5
    <3>3. refs[x + 1] \in Nat
      BY <1>1, <3>2
    <3>4. QED
      BY <1>2, <1>5, <2>1, <2>3, <3>1, <3>3
  <2>4. QED
    BY <1>1, <2>2, <2>3
<1>6. IsNext(refs, x, p) => p \in Reached(refs)
  <2> SUFFICES ASSUME x < N, refs[x + 1] = p PROVE p \in Reached(refs)
    BY DEF IsNext, N
  <2>1. Ascending(refs, x + 1)
    BY <1>2, <1>5
  <2>2. x + 1 \in 1 .. N
    BY <1>1
  <2>3. QED
    BY <2>1, <2>2 DEF Reached, N
<1>7. p \in Reached(refs) => IsNext(refs, x, p)
  <2> SUFFICES ASSUME p \in Reached(refs) PROVE IsNext(refs, x, p)
    OBVIOUS
  <2>1. PICK m \in 1 .. N : Ascending(refs, m) /\ refs[m] = p
    BY DEF Reached, N
  <2>2. ~(m \in 1 .. x)
    BY <1>2, <1>4, <2>1
  <2>3. m \in Nat /\ x + 1 <= m /\ x < N /\ x + 1 \in 1 .. N
    BY <1>1, <2>2
  <2>4. Ascending(refs, x + 1)
    BY <1>1, <2>1, <2>3 DEF Ascending
  <2>5. p <= refs[x + 1]
    BY <1>4, <2>3, <2>4
  <2>6. m = x + 1
    <3> SUFFICES ASSUME x + 1 < m PROVE FALSE
      BY <1>1, <2>3
    <3>1. x + 1 \in 1 .. m /\ m \in 1 .. m
      BY <1>1, <2>3
    <3>2. refs[x + 1] < refs[m]
      BY <2>1, <3>1 DEF Ascending
    <3>3. refs[x + 1] \in Nat
      BY <1>1, <2>3
    <3>4. QED
      BY <1>2, <2>1, <2>5, <3>2, <3>3
  <2>7. QED
    BY <2>1, <2>3, <2>6 DEF IsNext, N
<1>8. IsNext(refs, x, p) => Behind(refs, ip, x + 1, k + 1)
  <2> SUFFICES ASSUME x < N, refs[x + 1] = p PROVE Behind(refs, ip, x + 1, k + 1)
    BY DEF IsNext, N
  <2>1. x + 1 \in 0 .. N /\ Ascending(refs, x + 1)
    BY <1>1, <1>2, <1>5
  <2>2. \A m \in 1 .. x + 1 : refs[m] < q
    <3> SUFFICES ASSUME NEW m \in 1 .. x + 1 PROVE refs[m] < q
      OBVIOUS
    <3>1. m \in 1 .. x \/ m = x + 1
      BY <1>1
    <3>2. m \in 1 .. N /\ refs[m] \in Nat
      BY <1>1
    <3>3. refs[m] < p \/ refs[m] = p
      BY <1>4, <3>1
    <3>4. QED
      BY <1>2, <3>2, <3>3
  <2>3. ASSUME x + 1 < N, Ascending(refs, (x + 1) + 1) PROVE q <= refs[(x + 1) + 1]
    <3>1. x + 1 \in 1 .. (x + 1) + 1 /\ (x + 1) + 1 \in 1 .. (x + 1) + 1 /\ (x + 1) + 1 \in 1 .. N
          /\ x + 1 < (x + 1) + 1
      BY <1>1, <2>3
    <3>2. refs[x + 1] < refs[(x + 1) + 1]
      BY <2>3, <3>1 DEF Ascending
    <3>3. QED
      BY <1>3, <3>1, <3>2 DEF p, q, N
  <2>4. QED
    BY <2>1, <2>2, <2>3 DEF Behind, q, N
<1>9. ~IsNext(refs, x, p) => Behind(refs, ip, x, k + 1)
  <2> SUFFICES ASSUME ~IsNext(refs, x, p) PROVE Behind(refs, ip, x, k + 1)
    OBVIOUS
  <2>1. \A m \in 1 .. x : refs[m] < q
    <3> SUFFICES ASSUME NEW m \in 1 .. x PROVE refs[m] < q
      OBVIOUS
    <3>1. refs[m] < p /\ refs[m] \in Nat
      BY <1>1, <1>4
    <3>2. QED
      BY <1>2, <3>1
  <2>2. ASSUME x < N, Ascending(refs, x + 1) PROVE q <= refs[x + 1]
    <3>1. p <= refs[x + 1] /\ refs[x + 1] # p
      BY <1>4, <2>2 DEF IsNext, N
    <3>2. x + 1 \in 1 .. N
      BY <1>1, <2>2
    <3>3. refs[x + 1] \in Nat
      BY <1>1, <3>2
    <3>4. p < refs[x + 1]
      BY <1>2, <3>1, <3>3
    <3>5. QED
      BY <1>3, <3>2, <3>4 DEF p, q, N
  <2>3. QED
    BY <1>1, <1>4, <2>1, <2>2 DEF Behind, q, N
<1>10. QED
  BY <1>6, <1>7, <1>8, <1>9 DEF p

-----------------------------------------------------------------------------
(* What the disassembler makes of code that is finished.                   *)

LEMMA RegistersReferences ==
    ASSUME IInv, phase = "finished"
    PROVE  \E F : Collects(EmittedLines, F, Len(source)) /\ SymbolLocations = F[Len(source)]
<1> DEFINE n == Len(source)
           L == EmittedLines
           Step(k, s) == IF Refers(L[k]) THEN Append(s, L[k].arg) ELSE s
           V == Seq(Nat)
           F == [k \in 1 .. n |-> [s \in V |-> Step(k, s)]]
           Among[k \in 0 .. Turns] ==
               IF k = 0 THEN << >>
               ELSE IF Refers(InstructionAt(Ip[k - 1]))
                    THEN Append(Among[k - 1], InstructionAt(Ip[k - 1]).arg)
                    ELSE Among[k - 1]
<1>1. n \in Nat /\ Turns = n /\ \A k \in 1 .. n : InstructionAt(Ip[k - 1]) = L[k]
  BY ReadersAgree
<1>2. \A k \in 1 .. n : Refers(L[k]) => L[k].arg \in Nat
  <2> SUFFICES ASSUME NEW k \in 1 .. n, Refers(L[k]) PROVE L[k].arg \in Nat
    OBVIOUS
  <2>1. PICK j \in 0 .. n - 1 : L[k].arg = Ip[j]
    BY ReadersAgree
  <2>2. j \in 0 .. n
    OBVIOUS
  <2>3. QED
    BY <2>1, <2>2, ReadersAgree
<1>3. \A k \in 1 .. n, s \in V : F[k][s] = Step(k, s) /\ F[k][s] \in V
  <2> SUFFICES ASSUME NEW k \in 1 .. n, NEW s \in V PROVE F[k][s] = Step(k, s) /\ F[k][s] \in V
    OBVIOUS
  <2>1. F[k][s] = Step(k, s)
    OBVIOUS
  <2>2. Step(k, s) \in V
    <3>1. Refers(L[k]) => Append(s, L[k].arg) \in V
      BY <1>2
    <3> HIDE DEF L
    <3>2. QED
      BY <3>1
  <2>3. QED
    BY <2>1, <2>2
<1> HIDE DEF L
<1>4. PICK f \in [0 .. n -> V] : Runs(f, << >>, F, n)
  <2>1. StepsWithin(F, n, V) /\ << >> \in V
    BY <1>3 DEF StepsWithin
  <2> HIDE DEF F, V, n
  <2>2. QED
    BY <1>1, <2>1, RecursionExists DEF n
<1>5. f[0] = << >> /\ \A k \in 1 .. n : f[k] = Step(k, f[k - 1])
  <2>1. \A k \in 1 .. n : f[k - 1] \in V
    BY <1>1
  <2> HIDE DEF F, Step
  <2>2. QED
    BY <1>3, <1>4, <2>1 DEF Runs
<1> HIDE DEF F
<1>6. f = [k \in 0 .. Turns |->
              IF k = 0 THEN << >>
              ELSE IF Refers(InstructionAt(Ip[k - 1]))
                   THEN Append(f[k - 1], InstructionAt(Ip[k - 1]).arg)
                   ELSE f[k - 1]]
  <2>1. \A k \in 0 .. n : k # 0 => k \in 1 .. n
    BY <1>1
  <2>2. \A k \in 1 .. n : f[k] = IF Refers(InstructionAt(Ip[k - 1]))
                                 THEN Append(f[k - 1], InstructionAt(Ip[k - 1]).arg)
                                 ELSE f[k - 1]
    BY <1>1, <1>5
  <2>3. \A k \in 0 .. n : f[k] = IF k = 0 THEN << >>
                                 ELSE IF Refers(InstructionAt(Ip[k - 1]))
                                      THEN Append(f[k - 1], InstructionAt(Ip[k - 1]).arg)
                                      ELSE f[k - 1]
    BY <1>5, <2>1, <2>2, Zenon
  <2>4. f = [k \in 0 .. n |-> f[k]]
    OBVIOUS
  <2>5. QED
    BY <1>1, <2>3, <2>4, Zenon
<1>7. Among = [k \in 0 .. Turns |->
                  IF k = 0 THEN << >>
                  ELSE IF Refers(InstructionAt(Ip[k - 1]))
                       THEN Append(Among[k - 1], InstructionAt(Ip[k - 1]).arg)
                       ELSE Among[k - 1]]
  BY <1>6, Zenon
<1>8. SymbolLocations = Among[n]
  BY <1>1 DEF SymbolLocations
<1> HIDE DEF Among
<1>9. \A k \in 0 .. n : Among[k] = f[k]
  <2>1. Among[0] = f[0] /\ n \in Nat
    BY <1>1, <1>5, <1>7
  <2>2. \A k \in 0 .. n - 1 : Among[k] = f[k] => Among[k + 1] = f[k + 1]
    <3> SUFFICES ASSUME NEW k \in 0 .. n - 1, Among[k] = f[k] PROVE Among[k + 1] = f[k + 1]
      OBVIOUS
    <3>1. k + 1 \in 0 .. n /\ k + 1 # 0 /\ (k + 1) - 1 = k /\ k + 1 \in 0 .. Turns
      BY <1>1
    <3>2. Among[k + 1] = IF Refers(InstructionAt(Ip[k]))
                         THEN Append(Among[k], InstructionAt(Ip[k]).arg)
                         ELSE Among[k]
      BY <1>7, <3>1, Zenon
    <3>3. f[k + 1] = IF Refers(InstructionAt(Ip[k]))
                     THEN Append(f[k], InstructionAt(Ip[k]).arg)
                     ELSE f[k]
      BY <1>6, <3>1, Zenon
    <3>4. QED
      BY <3>2, <3>3
  <2>3. QED
    BY ONLY <2>1, <2>2, SameRecursion, Zenon
<1>10. Collects(L, f, n)
  BY <1>5 DEF Collects
<1>11. SymbolLocations = f[n]
  BY <1>1, <1>8, <1>9
<1>12. QED
  BY <1>10, <1>11 DEF L, n

Labels(W, lines, targets, n) ==
    /\ W[0] = << >>
    /\ \A k \in 1 .. n :
          W[k] = IF StartOf[k - 1] \in targets
                 THEN Append(Append(W[k - 1], Label(StartOf[k - 1])), lines[k])
                 ELSE Append(W[k - 1], lines[k])

LEMMA LabelsLines ==
    ASSUME NEW lines, NEW targets, NEW n \in Nat, Len(lines) = n
    PROVE  \E W : Labels(W, lines, targets, n) /\ WithLabels(lines, targets) = W[n]
<1> DEFINE Step(k, s) == IF StartOf[k - 1] \in targets
                         THEN Append(Append(s, Label(StartOf[k - 1])), lines[k])
                         ELSE Append(s, lines[k])
           X == {Label(StartOf[k - 1]) : k \in 1 .. n} \union {lines[k] : k \in 1 .. n}
           V == Seq(X)
           F == [k \in 1 .. n |-> [s \in V |-> Step(k, s)]]
           Upto[k \in 0 .. Len(lines)] ==
               IF k = 0 THEN << >>
               ELSE IF StartOf[k - 1] \in targets
                    THEN Append(Append(Upto[k - 1], Label(StartOf[k - 1])), lines[k])
                    ELSE Append(Upto[k - 1], lines[k])
<1>1. ASSUME NEW k \in 1 .. n, NEW s \in V PROVE F[k][s] = Step(k, s) /\ F[k][s] \in V
  <2>1. F[k][s] = Step(k, s)
    OBVIOUS
  <2>2. Step(k, s) \in V
    <3>1. Label(StartOf[k - 1]) \in X /\ lines[k] \in X
      OBVIOUS
    <3> HIDE DEF X
    <3>2. Append(s, lines[k]) \in V /\ Append(s, Label(StartOf[k - 1])) \in V
      BY <3>1
    <3>3. Append(Append(s, Label(StartOf[k - 1])), lines[k]) \in V
      BY <3>1, <3>2
    <3>4. QED
      BY <3>2, <3>3
  <2>3. QED
    BY <2>1, <2>2
<1>2. PICK f \in [0 .. n -> V] : Runs(f, << >>, F, n)
  <2>1. << >> \in V
    OBVIOUS
  <2> HIDE DEF F, V
  <2>2. StepsWithin(F, n, V)
    BY <1>1 DEF StepsWithin
  <2>3. QED
    BY <2>1, <2>2, RecursionExists
<1>3. f[0] = << >> /\ \A k \in 1 .. n : f[k] = Step(k, f[k - 1])
  <2>1. \A k \in 1 .. n : f[k - 1] \in V
    OBVIOUS
  <2> HIDE DEF F, Step, V
  <2>2. QED
    BY <1>1, <1>2, <2>1 DEF Runs
<1> HIDE DEF F
<1>4. f = [k \in 0 .. Len(lines) |->
              IF k = 0 THEN << >>
              ELSE IF StartOf[k - 1] \in targets
                   THEN Append(Append(f[k - 1], Label(StartOf[k - 1])), lines[k])
                   ELSE Append(f[k - 1], lines[k])]
  <2>1. \A k \in 0 .. n : k # 0 => k \in 1 .. n
    OBVIOUS
  <2>2. \A k \in 0 .. n : f[k] = IF k = 0 THEN << >>
                                 ELSE IF StartOf[k - 1] \in targets
                                      THEN Append(Append(f[k - 1], Label(StartOf[k - 1])), lines[k])
                                      ELSE Append(f[k - 1], lines[k])
    BY <1>3, <2>1, Zenon
  <2>3. f = [k \in 0 .. n |-> f[k]]
    OBVIOUS
  <2>4. QED
    BY <2>2, <2>3, Zenon
<1>5. Upto = [k \in 0 .. Len(lines) |->
                 IF k = 0 THEN << >>
                 ELSE IF StartOf[k - 1] \in targets
                      THEN Append(Append(Upto[k - 1], Label(StartOf[k - 1])), lines[k])
                      ELSE Append(Upto[k - 1], lines[k])]
  BY <1>4, Zenon
<1>6. WithLabels(lines, targets) = Upto[n]
  BY DEF WithLabels
<1> HIDE DEF Upto
<1>7. Labels(Upto, lines, targets, n)
  <2>1. Upto[0] = << >>
    BY <1>5
  <2>2. ASSUME NEW k \in 1 .. n PROVE Upto[k] = Step(k, Upto[k - 1])
    <3>1. k \in 0 .. Len(lines) /\ k # 0
      OBVIOUS
    <3>2. QED
      BY <1>5, <3>1, Zenon
  <2>3. QED
    BY <2>1, <2>2 DEF Labels
<1>8. QED
  BY <1>6, <1>7

(* A state of the disassembler, and what its steps make of it.             *)
State(refs, x, t) == [symbol_locations |-> refs, index |-> x, dst |-> t]

LEMMA LabelledIs ==
    ASSUME NEW refs, NEW x \in Nat, NEW t, NEW p
    PROVE  Labelled(State(refs, x, t), p) =
               IF IsNext(refs, x, p) THEN State(refs, x + 1, Append(t, Label(p)))
               ELSE State(refs, x, t)
<1> DEFINE d == State(refs, x, t)
<1>1. d.symbol_locations = refs /\ d.index = x /\ d.dst = t
  BY DEF State
<1>2. CASE IsNext(refs, x, p)
  <2>1. Labelled(d, p) = [d EXCEPT !.index = @ + 1, !.dst = Append(@, Label(p))]
    BY <1>1, <1>2 DEF Labelled, IsNext
  <2>2. \A y, u : [d EXCEPT !.index = y, !.dst = u] = State(refs, y, u)
    <3> SUFFICES ASSUME NEW y, NEW u PROVE [d EXCEPT !.index = y, !.dst = u] = State(refs, y, u)
      OBVIOUS
    <3> DEFINE e == [d EXCEPT !.index = y, !.dst = u]
    <3>1. DOMAIN d = {"symbol_locations", "index", "dst"}
      BY DEF State
    <3>2. DOMAIN e = DOMAIN d
      OBVIOUS
    <3>3. e.symbol_locations = refs /\ e.index = y /\ e.dst = u
      BY <1>1, <3>1
    <3>4. e = [f \in {"symbol_locations", "index", "dst"} |-> e[f]]
      BY <3>1, <3>2
    <3> HIDE DEF e
    <3>5. e = State(refs, y, u)
      BY <3>3, <3>4 DEF State
    <3>6. QED
      BY <3>5 DEF e
  <2> DEFINE u == Append(t, Label(p))
  <2>3. [d EXCEPT !.index = @ + 1, !.dst = Append(@, Label(p))] = [d EXCEPT !.index = x + 1, !.dst = u]
    BY <1>1
  <2>4. QED
    BY <1>2, <2>1, <2>2, <2>3
<1>3. CASE ~IsNext(refs, x, p)
  <2>1. ~(d.index < Len(d.symbol_locations) /\ d.symbol_locations[d.index + 1] = p)
    BY <1>1, <1>3 DEF IsNext
  <2>2. Labelled(d, p) = d
    BY <2>1, Zenon DEF Labelled
  <2>3. QED
    BY <1>3, <2>2
<1>4. QED
  BY <1>2, <1>3

LEMMA TurnIs ==
    ASSUME NEW refs, NEW x \in Nat, NEW t, NEW p
    PROVE  Turn(State(refs, x, t), p) =
               LET line == Line(InstructionAt(p).op, InstructionAt(p).arg)
               IN  IF IsNext(refs, x, p)
                   THEN State(refs, x + 1, Append(Append(t, Label(p)), line))
                   ELSE State(refs, x, Append(t, line))
<1> DEFINE line == Line(InstructionAt(p).op, InstructionAt(p).arg)
<1>1. \A y, u : DisassembleOne(State(refs, y, u), p) = State(refs, y, Append(u, line))
  BY DEF DisassembleOne, State
<1>2. CASE IsNext(refs, x, p)
  <2>1. Labelled(State(refs, x, t), p) = State(refs, x + 1, Append(t, Label(p)))
    BY <1>2, LabelledIs
  <2>2. QED
    BY <1>1, <1>2, <2>1, Zenon DEF Turn
<1>3. CASE ~IsNext(refs, x, p)
  <2>1. Labelled(State(refs, x, t), p) = State(refs, x, t)
    BY <1>3, LabelledIs
  <2>2. QED
    BY <1>1, <1>3, <2>1, Zenon DEF Turn
<1>4. QED
  BY <1>2, <1>3

(* The loop: its state after each turn.                                    *)
LEMMA Turning ==
    ASSUME NEW n \in Nat, Turns = n, NEW refs, SymbolLocations = refs
    PROVE  \E A : /\ A[0] = State(refs, 0, << >>) /\ After[n] = A[n]
                  /\ \A k \in 1 .. n : A[k] = Turn(A[k - 1], Ip[k - 1])
<1> DEFINE Lin(k) == Line(InstructionAt(Ip[k - 1]).op, InstructionAt(Ip[k - 1]).arg)
           X == {Label(Ip[k - 1]) : k \in 1 .. n} \union {Lin(k) : k \in 1 .. n}
           T == Seq(X)
           V == {State(refs, y[1], y[2]) : y \in Nat \X T}
           F == [k \in 1 .. n |-> [d \in V |-> Turn(d, Ip[k - 1])]]
           Done[k \in 0 .. Turns] ==
               IF k = 0 THEN Disassembler ELSE Turn(Done[k - 1], Ip[k - 1])
<1>1. \A x \in Nat, t \in T : State(refs, x, t) \in V
  <2> SUFFICES ASSUME NEW x \in Nat, NEW t \in T PROVE State(refs, x, t) \in V
    OBVIOUS
  <2>1. <<x, t>> \in Nat \X T /\ <<x, t>>[1] = x /\ <<x, t>>[2] = t
    OBVIOUS
  <2> HIDE DEF T
  <2>2. QED
    BY <2>1, Zenon
<1>2. ASSUME NEW k \in 1 .. n, NEW d \in V PROVE F[k][d] = Turn(d, Ip[k - 1]) /\ F[k][d] \in V
  <2>1. F[k][d] = Turn(d, Ip[k - 1])
    <3> HIDE DEF V
    <3>1. QED
      OBVIOUS
  <2>2. PICK y \in Nat \X T : d = State(refs, y[1], y[2])
    <3> HIDE DEF T
    <3>1. QED
      BY <1>2, Zenon
  <2> DEFINE x == y[1]
             t == y[2]
  <2>3. x \in Nat /\ t \in T
    OBVIOUS
  <2>4. Label(Ip[k - 1]) \in X /\ Lin(k) \in X
    OBVIOUS
  <2> HIDE DEF x, t, X, Lin, V
  <2>5. Append(t, Label(Ip[k - 1])) \in T /\ Append(t, Lin(k)) \in T
    BY <2>3, <2>4
  <2>6. Append(Append(t, Label(Ip[k - 1])), Lin(k)) \in T
    BY <2>4, <2>5
  <2>7. Turn(State(refs, x, t), Ip[k - 1]) =
            IF IsNext(refs, x, Ip[k - 1])
            THEN State(refs, x + 1, Append(Append(t, Label(Ip[k - 1])), Lin(k)))
            ELSE State(refs, x, Append(t, Lin(k)))
    BY <2>3, TurnIs DEF Lin
  <2>8. x + 1 \in Nat
    BY <2>3
  <2>9. Turn(State(refs, x, t), Ip[k - 1]) \in V
    BY <1>1, <2>3, <2>5, <2>6, <2>7, <2>8, Zenon
  <2>10. QED
    BY <2>1, <2>2, <2>9 DEF x, t
<1>3. State(refs, 0, << >>) \in V
  <2>1. 0 \in Nat /\ << >> \in T
    OBVIOUS
  <2> HIDE DEF V, T
  <2>2. QED
    BY <1>1, <2>1
<1> DEFINE a == State(refs, 0, << >>)
<1>4. PICK f \in [0 .. n -> V] : Runs(f, a, F, n)
  <2>1. StepsWithin(F, n, V) /\ a \in V
    BY <1>2, <1>3 DEF StepsWithin
  <2> HIDE DEF F, V, a
  <2>2. QED
    BY <2>1, RecursionExists
<1>5. f[0] = a /\ \A k \in 1 .. n : f[k] = Turn(f[k - 1], Ip[k - 1])
  <2>1. \A k \in 1 .. n : f[k - 1] \in V
    <3> HIDE DEF V
    <3>1. QED
      OBVIOUS
  <2> HIDE DEF F, V, a
  <2>2. QED
    BY <1>2, <1>4, <2>1 DEF Runs
<1> HIDE DEF F, V
<1>6. Disassembler = a
  BY DEF Disassembler, State
<1> HIDE DEF a
<1>7. f = [k \in 0 .. Turns |-> IF k = 0 THEN Disassembler ELSE Turn(f[k - 1], Ip[k - 1])]
  <2>1. \A k \in 0 .. n : k # 0 => k \in 1 .. n
    OBVIOUS
  <2>2. \A k \in 0 .. n : f[k] = IF k = 0 THEN Disassembler ELSE Turn(f[k - 1], Ip[k - 1])
    BY <1>5, <1>6, <2>1, Zenon
  <2>3. f = [k \in 0 .. n |-> f[k]]
    OBVIOUS
  <2>4. QED
    BY <2>2, <2>3, Zenon
<1>8. Done = [k \in 0 .. Turns |-> IF k = 0 THEN Disassembler ELSE Turn(Done[k - 1], Ip[k - 1])]
  BY <1>7, Zenon
<1>9. After[n] = Done[n]
  BY DEF After
<1> HIDE DEF Done
<1>10. \A k \in 1 .. n : Done[k] = Turn(Done[k - 1], Ip[k - 1])
  <2> SUFFICES ASSUME NEW k \in 1 .. n PROVE Done[k] = Turn(Done[k - 1], Ip[k - 1])
    OBVIOUS
  <2>1. k \in 0 .. Turns /\ k # 0
    OBVIOUS
  <2>2. QED
    BY <1>8, <2>1, Zenon
<1>11. Done[0] = State(refs, 0, << >>)
  <2>1. 0 \in 0 .. Turns
    OBVIOUS
  <2>2. QED
    BY <1>6, <1>8, <2>1, Zenon DEF a
<1>12. QED
  BY <1>9, <1>10, <1>11, Zenon

LEMMA ImpliesDisassembles == ASSUME IInv PROVE DisassemblesInstructions
<1> DEFINE n == Len(source)
           L == EmittedLines
           refs == SymbolLocations
<1>1. SUFFICES ASSUME phase = "finished"
               PROVE  /\ Disassembled = {} <=> \E k \in DOMAIN source : IsSyscall(source[k].op)
                      /\ Disassembled \subseteq {WithLabels(L, Targets(L))}
  BY Zenon DEF DisassemblesInstructions
<1>2. /\ n \in Nat /\ Turns = n
      /\ \A j, k \in 0 .. n : j < k => Ip[j] < Ip[k]
      /\ \A k \in 0 .. n : Ip[k] \in Nat /\ StartOf[k] = Ip[k]
      /\ DOMAIN L = 1 .. n
      /\ \A k \in 1 .. n :
            /\ InstructionAt(Ip[k - 1]) = L[k] /\ L[k].op = source[k].op
            /\ Refers(L[k]) => \E j \in 0 .. n - 1 : L[k].arg = Ip[j]
  BY <1>1, ReadersAgree
<1>3. DOMAIN source = 1 .. n
  <2>1. PICK st, at : Good(st, at)
    BY DEF IInv
  <2>2. QED
    BY <2>1 DEF Good, SourceOK
<1>4. Len(L) = n
  <2>1. L = [k \in 1 .. n |-> Line(source[k].op, Expected(source[k], TRUE))]
    BY <1>3 DEF EmittedLines
  <2> HIDE DEF n, L
  <2>2. QED
    BY <1>2, <2>1
<1>5. \A k \in 1 .. n : L[k] = Line(L[k].op, L[k].arg)
  BY <1>3 DEF EmittedLines, Line
<1> HIDE DEF L
<1>6. PICK F : Collects(L, F, n) /\ refs = F[n]
  BY <1>1, RegistersReferences DEF L
<1> HIDE DEF refs
<1>7. \A k \in 1 .. n : Refers(L[k]) => L[k].arg \in Nat
  <2> SUFFICES ASSUME NEW k \in 1 .. n, Refers(L[k]) PROVE L[k].arg \in Nat
    OBVIOUS
  <2>1. PICK j \in 0 .. n - 1 : L[k].arg = Ip[j]
    BY <1>2
  <2>2. j \in 0 .. n
    OBVIOUS
  <2>3. QED
    BY <1>2, <2>1, <2>2
<1>8. Numbered(L, F, n)
  BY <1>2, <1>6, <1>7, ReferencesAreNumbered
<1>9. Targets(L) = Reached(refs)
  BY <1>2, <1>6, <1>8, TargetsAreReached
<1>10. refs \in Seq(Nat) /\ \A m \in 1 .. Len(refs) : \E j \in 0 .. n - 1 : refs[m] = Ip[j]
  <2>1. refs \in Seq(Nat)
    BY <1>2, <1>6 DEF Collects
  <2>2. ASSUME NEW m \in 1 .. Len(refs) PROVE \E j \in 0 .. n - 1 : refs[m] = Ip[j]
    <3>1. PICK k \in 1 .. n : Refers(L[k]) /\ Len(F[k]) = m
      BY <1>6, <1>8 DEF Numbered
    <3>2. refs[m] = L[k].arg
      BY <1>6, <1>8, <3>1 DEF Numbered
    <3>3. QED
      BY <1>2, <3>1, <3>2
  <2>3. QED
    BY <2>1, <2>2
<1>11. PICK W : Labels(W, L, Targets(L), n) /\ WithLabels(L, Targets(L)) = W[n]
  <2>1. n \in Nat
    BY <1>2
  <2> HIDE DEF n
  <2>2. QED
    BY <1>4, <2>1, LabelsLines, Zenon
<1>12. PICK A : /\ A[0] = State(refs, 0, << >>) /\ After[n] = A[n]
                /\ \A k \in 1 .. n : A[k] = Turn(A[k - 1], Ip[k - 1])
  BY <1>2, Turning DEF refs
<1> DEFINE S == {k \in 0 .. n : \E x \in Nat :
                     A[k] = State(refs, x, W[k]) /\ Behind(refs, Ip, x, k)}
<1>13. 0 \in S
  <2>1. A[0] = State(refs, 0, W[0])
    BY <1>11, <1>12 DEF Labels
  <2>2. Behind(refs, Ip, 0, 0)
    <3>1. 0 < Len(refs) => Ip[0] <= refs[1]
      <4> SUFFICES ASSUME 0 < Len(refs) PROVE Ip[0] <= refs[1]
        OBVIOUS
      <4>1. 1 \in 1 .. Len(refs)
        BY <1>10
      <4>2. PICK j \in 0 .. n - 1 : refs[1] = Ip[j]
        BY <1>10, <4>1
      <4>3. j \in 0 .. n /\ 0 \in 0 .. n /\ (j = 0 \/ 0 < j)
        BY <1>2
      <4>4. Ip[0] = Ip[j] \/ Ip[0] < Ip[j]
        BY <1>2, <4>3
      <4>5. QED
        BY <1>2, <4>2, <4>3, <4>4
    <3>2. Len(refs) \in Nat
      BY <1>10
    <3>3. QED
      BY <3>1, <3>2 DEF Behind, Ascending
  <2>3. 0 \in Nat /\ 0 \in 0 .. n
    BY <1>2
  <2>4. QED
    BY <2>1, <2>2, <2>3
<1>14. ASSUME NEW k \in S \intersect 0 .. n - 1 PROVE k + 1 \in S
  <2>1. k \in 0 .. n - 1 /\ k + 1 \in 1 .. n /\ k + 1 \in 0 .. n /\ (k + 1) - 1 = k /\ k \in 0 .. n
    BY <1>2
  <2>2. PICK x \in Nat : A[k] = State(refs, x, W[k]) /\ Behind(refs, Ip, x, k)
    BY <1>14
  <2> DEFINE p == Ip[k]
  <2>3. A[k + 1] = Turn(A[k], p)
    BY <1>12, <2>1
  <2>4. L[k + 1] = Line(InstructionAt(p).op, InstructionAt(p).arg) /\ StartOf[k] = p
    BY <1>2, <1>5, <2>1
  <2>5. /\ IsNext(refs, x, p) <=> p \in Reached(refs)
        /\ IsNext(refs, x, p) => Behind(refs, Ip, x + 1, k + 1)
        /\ ~IsNext(refs, x, p) => Behind(refs, Ip, x, k + 1)
    <3>1. /\ \A j \in 0 .. n : Ip[j] \in Nat
          /\ \A j1, j2 \in 0 .. n : j1 < j2 => Ip[j1] < Ip[j2]
          /\ \A m \in 1 .. Len(refs) : \E j \in 0 .. n - 1 : refs[m] = Ip[j]
      BY <1>2, <1>10
    <3> HIDE DEF n
    <3>2. QED
      BY <1>2, <1>10, <2>1, <2>2, <3>1, MeetsLabels
  <2>6. W[k + 1] = IF p \in Reached(refs) THEN Append(Append(W[k], Label(p)), L[k + 1])
                   ELSE Append(W[k], L[k + 1])
    BY <1>9, <1>11, <2>1, <2>4 DEF Labels
  <2> HIDE DEF p
  <2>7. A[k + 1] = IF IsNext(refs, x, p)
                   THEN State(refs, x + 1, Append(Append(W[k], Label(p)), L[k + 1]))
                   ELSE State(refs, x, Append(W[k], L[k + 1]))
    BY <2>2, <2>3, <2>4, TurnIs
  <2>8. CASE IsNext(refs, x, p)
    <3>1. A[k + 1] = State(refs, x + 1, W[k + 1]) /\ x + 1 \in Nat
      BY <2>2, <2>5, <2>6, <2>7, <2>8
    <3>2. QED
      BY <2>1, <2>5, <2>8, <3>1
  <2>9. CASE ~IsNext(refs, x, p)
    <3>1. A[k + 1] = State(refs, x, W[k + 1])
      BY <2>2, <2>5, <2>6, <2>7, <2>9
    <3>2. QED
      BY <2>1, <2>2, <2>5, <2>9, <3>1
  <2>10. QED
    BY <2>8, <2>9
<1>15. n \in S
  <2>1. n \in Nat /\ n \in 0 .. n
    BY <1>2
  <2> HIDE DEF S, n
  <2>2. QED
    BY <1>13, <1>14, <2>1, IntervalInduction
<1>16. PICK x \in Nat : A[n] = State(refs, x, W[n]) /\ Behind(refs, Ip, x, n)
  BY <1>15
<1>17. ~IsNext(refs, x, Ip[n])
  <2> SUFFICES ASSUME x < Len(refs), refs[x + 1] = Ip[n] PROVE FALSE
    BY DEF IsNext
  <2>1. x + 1 \in 1 .. Len(refs)
    BY <1>10
  <2>2. PICK j \in 0 .. n - 1 : refs[x + 1] = Ip[j]
    BY <1>10, <2>1
  <2>3. j \in 0 .. n /\ n \in 0 .. n /\ j < n
    BY <1>2
  <2>4. Ip[j] < Ip[n] /\ Ip[j] \in Nat
    BY <1>2, <2>3
  <2>5. QED
    BY <2>2, <2>4
<1>18. Labelled(After[Turns], Ip[Turns]).dst = W[n]
  <2>1. Labelled(After[n], Ip[n]) = State(refs, x, W[n])
    BY <1>12, <1>16, <1>17, LabelledIs
  <2>2. QED
    BY <1>2, <2>1 DEF State
<1>19. (\E k \in 0 .. Turns - 1 : IsSyscall(InstructionAt(Ip[k]).op))
           <=> \E k \in DOMAIN source : IsSyscall(source[k].op)
  <2>1. \A k \in 0 .. n - 1 : k + 1 \in 1 .. n /\ (k + 1) - 1 = k
    BY <1>2
  <2>2. \A k \in 1 .. n : k - 1 \in 0 .. n - 1
    BY <1>2
  <2>3. \A k \in 1 .. n : InstructionAt(Ip[k - 1]).op = source[k].op
    BY <1>2
  <2>4. ASSUME NEW k \in 0 .. n - 1, IsSyscall(InstructionAt(Ip[k]).op)
        PROVE  \E j \in 1 .. n : IsSyscall(source[j].op)
    <3>1. InstructionAt(Ip[k]).op = source[k + 1].op
      BY <2>1, <2>3
    <3>2. QED
      BY <2>1, <2>4, <3>1
  <2>5. ASSUME NEW k \in 1 .. n, IsSyscall(source[k].op)
        PROVE  \E j \in 0 .. n - 1 : IsSyscall(InstructionAt(Ip[j]).op)
    BY <2>2, <2>3, <2>5
  <2>6. QED
    BY <1>2, <1>3, <2>4, <2>5
<1>20. Disassembled = IF \E k \in DOMAIN source : IsSyscall(source[k].op) THEN {}
                      ELSE {WithLabels(L, Targets(L))}
  BY <1>11, <1>18, <1>19, Zenon DEF Disassembled
<1>21. QED
  BY <1>20

(* What is disassembled is what was assembled (or emitted by another user):*)
(* the same instructions in the same order, and the labels of the          *)
(* references as long as these ascend, for code and references of any      *)
(* number (disassembler.c:130).                                            *)
THEOREM DisassemblyIsRight == AssemblerSpec => []DisassemblesInstructions
<1>1. AssemblerInv => DisassemblesInstructions
  BY ImpliesDisassembles DEF AssemblerInv
<1>2. QED
  BY <1>1, AssemblerSpecKeeps, PTL

-----------------------------------------------------------------------------
(* What a text says, from here on.  Its lines are read lexeme by lexeme.   *)

(* The provers do not know that a string is in STRING.                     *)
Lexeme == STRING \union Blank \union Sign \union Operations \union {"sys", ":", "%"}

AllLines == Seq(Seq(Lexeme)) \ {<< >>}

IsBreak(lexeme) == lexeme = "\n"

LEMMA GoingOnIs ==
    ASSUME NEW L \in AllLines, NEW x \in Lexeme
    PROVE  /\ L[Len(L)] \in Seq(Lexeme) /\ Len(L) \in Nat \ {0}
           /\ IsBreak(x) => GoingOn(L, x) = Append(L, << >>)
           /\ x \in Blank /\ (L[Len(L)] = << >> \/ Last(L[Len(L)]) \in Blank) =>
                 GoingOn(L, x) = L
           /\ ~IsBreak(x) /\ ~(x \in Blank /\ (L[Len(L)] = << >> \/ Last(L[Len(L)]) \in Blank)) =>
                 GoingOn(L, x) = [L EXCEPT ![Len(L)] = Append(L[Len(L)], x)]
           /\ GoingOn(L, x) \in AllLines
<1> DEFINE line == L[Len(L)]
           skips == x \in Blank /\ (line = << >> \/ Last(line) \in Blank)
<1>1. Len(L) \in Nat \ {0} /\ L \in Seq(Seq(Lexeme)) /\ line \in Seq(Lexeme)
  BY DEF AllLines
<1>2. IsBreak(x) => ~skips
  BY DEF IsBreak, Blank
<1>3. /\ IsBreak(x) => GoingOn(L, x) = Append(L, << >>)
      /\ skips => GoingOn(L, x) = L
      /\ ~IsBreak(x) /\ ~skips => GoingOn(L, x) = [L EXCEPT ![Len(L)] = Append(L[Len(L)], x)]
  BY <1>2, Zenon DEF GoingOn, IsBreak
<1>4. Append(L, << >>) \in AllLines
  BY <1>1 DEF AllLines
<1>5. [L EXCEPT ![Len(L)] = Append(L[Len(L)], x)] \in AllLines
  <2> DEFINE y == Append(line, x)
             m == Len(L)
  <2> HIDE DEF line
  <2>1. y \in Seq(Lexeme)
    BY <1>1, AppendProperties
  <2>2. m \in 1 .. Len(L)
    BY <1>1
  <2> HIDE DEF y, m
  <2>3. [L EXCEPT ![m] = y] \in Seq(Seq(Lexeme)) /\ Len([L EXCEPT ![m] = y]) = Len(L)
    BY <1>1, <2>1, <2>2, ExceptSeq
  <2>4. QED
    BY <1>1, <2>3 DEF AllLines, y, m, line
<1>6. QED
  BY <1>1, <1>3, <1>4, <1>5

LEMMA ReadingUnfolds ==
    ASSUME text \in Seq(Lexeme)
    PROVE  /\ Reading[0] = << << >> >>
           /\ \A p \in 1 .. Len(text) : Reading[p] = GoingOn(Reading[p - 1], text[p])
           /\ \A p \in 0 .. Len(text) : Reading[p] \in AllLines
<1> DEFINE n == Len(text)
           F == [k \in 1 .. n |-> [L \in AllLines |-> GoingOn(L, text[k])]]
           a == << << >> >>
<1>1. n \in Nat /\ \A k \in 1 .. n : text[k] \in Lexeme
  OBVIOUS
<1>2. ASSUME NEW k \in 1 .. n, NEW L \in AllLines
      PROVE  F[k][L] = GoingOn(L, text[k]) /\ F[k][L] \in AllLines
  <2>1. F[k][L] = GoingOn(L, text[k])
    OBVIOUS
  <2>2. GoingOn(L, text[k]) \in AllLines
    BY <1>1, GoingOnIs
  <2> HIDE DEF F
  <2>3. QED
    BY <2>1, <2>2
<1>3. a \in AllLines
  BY DEF AllLines
<1>4. PICK f \in [0 .. n -> AllLines] : Runs(f, a, F, n)
  <2> HIDE DEF F, a, n
  <2>1. StepsWithin(F, n, AllLines)
    BY <1>2 DEF StepsWithin
  <2>2. QED
    BY <1>1, <1>3, <2>1, RecursionExists
<1>5. f[0] = a /\ \A k \in 1 .. n : f[k] = GoingOn(f[k - 1], text[k])
  <2>1. \A k \in 1 .. n : f[k - 1] \in AllLines
    <3> HIDE DEF n
    <3>1. QED
      BY <1>1
  <2> HIDE DEF F, a
  <2>2. QED
    BY <1>2, <1>4, <2>1 DEF Runs
<1>6. f = [p \in 0 .. Len(text) |-> IF p = 0 THEN << << >> >> ELSE GoingOn(f[p - 1], text[p])]
  <2> HIDE DEF F
  <2>1. \A k \in 0 .. n : k # 0 => k \in 1 .. n
    OBVIOUS
  <2>2. \A k \in 0 .. n : f[k] = IF k = 0 THEN << << >> >> ELSE GoingOn(f[k - 1], text[k])
    BY <1>5, <2>1, Zenon
  <2>3. f = [k \in 0 .. n |-> f[k]]
    OBVIOUS
  <2>4. QED
    BY <2>2, <2>3, Zenon
<1>7. Reading = [p \in 0 .. Len(text) |->
                    IF p = 0 THEN << << >> >> ELSE GoingOn(Reading[p - 1], text[p])]
  BY <1>6, Zenon DEF Reading
<1>8. Reading[0] = f[0] /\ \A k \in 0 .. n - 1 : Reading[k] = f[k] => Reading[k + 1] = f[k + 1]
  <2>1. Reading[0] = << << >> >>
    BY <1>1, <1>7
  <2>2. ASSUME NEW k \in 0 .. n - 1, Reading[k] = f[k] PROVE Reading[k + 1] = f[k + 1]
    <3>1. k + 1 \in 0 .. n /\ k + 1 # 0 /\ (k + 1) - 1 = k /\ k + 1 \in 1 .. n
      BY <1>1
    <3>2. Reading[k + 1] = GoingOn(Reading[(k + 1) - 1], text[k + 1])
      BY <1>7, <3>1, Zenon
    <3>3. QED
      BY <1>5, <2>2, <3>1, <3>2
  <2>3. QED
    BY <1>5, <2>1, <2>2
<1>9. \A k \in 0 .. n : Reading[k] = f[k]
  <2> HIDE DEF F, a
  <2>1. QED
    BY ONLY <1>1, <1>8, SameRecursion, Zenon
<1>10. QED
  <2>1. \A k \in 1 .. n : k \in 0 .. n /\ k - 1 \in 0 .. n
    BY <1>1
  <2> HIDE DEF F, n
  <2>2. 0 \in 0 .. n
    BY <1>1
  <2>3. QED
    BY <1>4, <1>5, <1>9, <2>1, <2>2 DEF n

(* The line a place of the text is on, and what was read of it.            *)
LineAt(p) == Len(Reading[p])
Seen(p) == Reading[p][Len(Reading[p])]

Begins(l, f) == Len(l) <= Len(f) /\ \A j \in 1 .. Len(l) : f[j] = l[j]

LEMMA ReadsOne ==
    ASSUME text \in Seq(Lexeme), NEW p \in 0 .. Len(text) - 1
    PROVE  /\ LexemeAt(p) = text[p + 1] /\ LexemeAt(p) \in Lexeme
           /\ LineAt(p) \in Nat \ {0} /\ Seen(p) \in Seq(Lexeme)
           /\ IsBreak(LexemeAt(p)) =>
                 /\ LineAt(p + 1) = LineAt(p) + 1 /\ Seen(p + 1) = << >>
                 /\ \A k \in 1 .. LineAt(p) : Reading[p + 1][k] = Reading[p][k]
           /\ LexemeAt(p) \in Blank /\ (Seen(p) = << >> \/ Last(Seen(p)) \in Blank) =>
                 Reading[p + 1] = Reading[p]
           /\ ~IsBreak(LexemeAt(p))
              /\ ~(LexemeAt(p) \in Blank /\ (Seen(p) = << >> \/ Last(Seen(p)) \in Blank)) =>
                 /\ LineAt(p + 1) = LineAt(p) /\ Seen(p + 1) = Append(Seen(p), LexemeAt(p))
                 /\ \A k \in 1 .. LineAt(p) - 1 : Reading[p + 1][k] = Reading[p][k]
<1> DEFINE L == Reading[p]
           x == text[p + 1]
<1>1. /\ p + 1 \in 1 .. Len(text) /\ p \in 0 .. Len(text) /\ (p + 1) - 1 = p
      /\ p < Len(text) /\ Len(text) \in Nat
  OBVIOUS
<1>2. L \in AllLines /\ x \in Lexeme /\ LexemeAt(p) = x
  BY <1>1, ReadingUnfolds DEF LexemeAt
<1>3. Reading[p + 1] = GoingOn(L, x)
  BY <1>1, ReadingUnfolds
<1>4. LineAt(p) = Len(L) /\ Seen(p) = L[Len(L)]
  BY DEF LineAt, Seen
<1> HIDE DEF L, x
<1>5. /\ L[Len(L)] \in Seq(Lexeme) /\ Len(L) \in Nat \ {0}
      /\ L \in Seq(Seq(Lexeme))
  BY <1>2, GoingOnIs DEF AllLines
<1> DEFINE skips == x \in Blank /\ (L[Len(L)] = << >> \/ Last(L[Len(L)]) \in Blank)
           M == Reading[p + 1]
<1>6. ASSUME IsBreak(x)
      PROVE  Len(M) = Len(L) + 1 /\ M[Len(M)] = << >> /\ \A k \in 1 .. Len(L) : M[k] = L[k]
  <2>1. M = Append(L, << >>)
    BY <1>2, <1>3, <1>6, GoingOnIs
  <2>2. << >> \in Seq(Lexeme)
    OBVIOUS
  <2> HIDE DEF M
  <2>3. /\ Len(M) = Len(L) + 1 /\ M[Len(L) + 1] = << >>
        /\ \A k \in 1 .. Len(L) : M[k] = L[k]
    BY <1>5, <2>1, <2>2, AppendProperties
  <2>4. QED
    BY <2>3
<1>7. ASSUME skips PROVE M = L
  BY <1>2, <1>3, <1>7, GoingOnIs
<1>8. ASSUME ~IsBreak(x), ~skips
      PROVE  /\ Len(M) = Len(L) /\ M[Len(M)] = Append(L[Len(L)], x)
             /\ \A k \in 1 .. Len(L) - 1 : M[k] = L[k]
  <2> DEFINE m == Len(L)
             y == Append(L[m], x)
  <2>1. M = [L EXCEPT ![m] = y]
    BY <1>2, <1>3, <1>8, GoingOnIs
  <2>2. y \in Seq(Lexeme) /\ m \in 1 .. Len(L)
    BY <1>2, <1>5, AppendProperties
  <2> HIDE DEF y, M
  <2>3. /\ Len([L EXCEPT ![m] = y]) = m /\ [L EXCEPT ![m] = y][m] = y
        /\ \A k \in 1 .. m - 1 : [L EXCEPT ![m] = y][k] = L[k]
    BY <1>5, <2>2, ExceptSeq
  <2>4. QED
    BY <2>1, <2>3 DEF y
<1>9. LineAt(p + 1) = Len(M) /\ Seen(p + 1) = M[Len(M)] /\ L = Reading[p]
  BY DEF LineAt, Seen, L
<1> HIDE DEF M
<1>10. /\ LexemeAt(p) = text[p + 1] /\ LexemeAt(p) \in Lexeme
       /\ LineAt(p) \in Nat \ {0} /\ Seen(p) \in Seq(Lexeme)
  BY <1>2, <1>4, <1>5, Zenon DEF x
<1>11. skips <=> LexemeAt(p) \in Blank /\ (Seen(p) = << >> \/ Last(Seen(p)) \in Blank)
  BY <1>2, <1>4, Zenon
<1> HIDE DEF skips
<1>12. IsBreak(LexemeAt(p)) =>
          /\ LineAt(p + 1) = LineAt(p) + 1 /\ Seen(p + 1) = << >>
          /\ \A k \in 1 .. LineAt(p) : Reading[p + 1][k] = Reading[p][k]
  BY <1>2, <1>4, <1>6, <1>9, Zenon DEF M
<1>13. skips => Reading[p + 1] = Reading[p]
  BY <1>7, <1>9, Zenon DEF M
<1>14. ~IsBreak(LexemeAt(p)) /\ ~skips =>
          /\ LineAt(p + 1) = LineAt(p) /\ Seen(p + 1) = Append(Seen(p), LexemeAt(p))
          /\ \A k \in 1 .. LineAt(p) - 1 : Reading[p + 1][k] = Reading[p][k]
  BY <1>2, <1>4, <1>8, <1>9, Zenon DEF M
<1>15. QED
  BY <1>10, <1>11, <1>12, <1>13, <1>14, Zenon

LEMMA LinesAre ==
    ASSUME text \in Seq(Lexeme), NEW p \in 0 .. Len(text)
    PROVE  /\ LineAt(p) \in Nat \ {0} /\ Seen(p) \in Seq(Lexeme)
           /\ \A k \in 1 .. LineAt(p) : Reading[p][k] \in Seq(Lexeme)
           /\ Seen(p) = Reading[p][LineAt(p)] /\ DOMAIN Reading[p] = 1 .. LineAt(p)
<1> DEFINE L == Reading[p]
<1>1. L \in AllLines
  BY ReadingUnfolds
<1>2. LineAt(p) = Len(L) /\ Seen(p) = L[Len(L)]
  BY DEF LineAt, Seen
<1> HIDE DEF L
<1>3. L \in Seq(Seq(Lexeme)) /\ L # << >>
  BY <1>1 DEF AllLines
<1>4. Len(L) \in Nat \ {0} /\ DOMAIN L = 1 .. Len(L) /\ \A k \in 1 .. Len(L) : L[k] \in Seq(Lexeme)
  BY <1>3, EmptySeq, LenProperties
<1>5. Len(L) \in 1 .. Len(L)
  BY <1>4
<1>6. L[Len(L)] \in Seq(Lexeme)
  BY <1>4, <1>5
<1>7. QED
  BY <1>2, <1>4, <1>6, Zenon DEF L

(* What was read stays, and the line goes on after it.                     *)
Grown(p, q) ==
    /\ LineAt(p) <= LineAt(q)
    /\ \A k \in 1 .. LineAt(p) - 1 : Reading[q][k] = Reading[p][k]
    /\ Begins(Seen(p), Reading[q][LineAt(p)])

LEMMA GrowsByOne ==
    ASSUME text \in Seq(Lexeme), NEW p \in 0 .. Len(text), NEW q \in p .. Len(text) - 1, Grown(p, q)
    PROVE  Grown(p, q + 1)
<1>1. q \in 0 .. Len(text) - 1 /\ q \in 0 .. Len(text) /\ q + 1 \in 0 .. Len(text)
  OBVIOUS
<1> DEFINE l == LineAt(p)
           m == LineAt(q)
           x == LexemeAt(q)
<1>2. l \in Nat \ {0} /\ m \in Nat \ {0} /\ l <= m /\ Seen(p) \in Seq(Lexeme) /\ Seen(q) \in Seq(Lexeme)
  BY <1>1, LinesAre DEF Grown
<1>3. x \in Lexeme
  BY <1>1, ReadsOne
<1> HIDE DEF l, m, x
<1>4. /\ \A k \in 1 .. l - 1 : Reading[q][k] = Reading[p][k]
      /\ Begins(Seen(p), Reading[q][l])
  BY DEF Grown, l
<1>5. CASE IsBreak(x)
  <2>1. LineAt(q + 1) = m + 1 /\ \A k \in 1 .. m : Reading[q + 1][k] = Reading[q][k]
    BY <1>1, <1>5, ReadsOne DEF x, m
  <2>2. l \in 1 .. m /\ \A k \in 1 .. l - 1 : k \in 1 .. m
    BY <1>2
  <2>3. l <= LineAt(q + 1) /\ Reading[q + 1][l] = Reading[q][l]
    BY <1>2, <2>1, <2>2
  <2>4. \A k \in 1 .. l - 1 : Reading[q + 1][k] = Reading[p][k]
    BY <1>4, <2>1, <2>2
  <2>5. QED
    BY <1>4, <2>3, <2>4 DEF Grown, l
<1>6. CASE x \in Blank /\ (Seen(q) = << >> \/ Last(Seen(q)) \in Blank)
  <2>1. Reading[q + 1] = Reading[q]
    BY <1>1, <1>6, ReadsOne DEF x
  <2>2. LineAt(q + 1) = m
    BY <2>1 DEF LineAt, m
  <2>3. QED
    BY <1>2, <1>4, <2>1, <2>2 DEF Grown, l
<1>7. CASE ~IsBreak(x) /\ ~(x \in Blank /\ (Seen(q) = << >> \/ Last(Seen(q)) \in Blank))
  <2>1. /\ LineAt(q + 1) = m /\ Seen(q + 1) = Append(Seen(q), x)
        /\ \A k \in 1 .. m - 1 : Reading[q + 1][k] = Reading[q][k]
    BY <1>1, <1>7, ReadsOne DEF x, m
  <2>2. CASE l < m
    <3>1. l \in 1 .. m - 1 /\ \A k \in 1 .. l - 1 : k \in 1 .. m - 1
      BY <1>2, <2>2
    <3>2. l <= LineAt(q + 1) /\ Reading[q + 1][l] = Reading[q][l]
          /\ \A k \in 1 .. l - 1 : Reading[q + 1][k] = Reading[p][k]
      BY <1>2, <1>4, <2>1, <3>1
    <3>3. QED
      BY <1>4, <3>2 DEF Grown, l
  <2>3. CASE l = m
    <3>1. Reading[q][l] = Seen(q) /\ Reading[q + 1][l] = Seen(q + 1)
      BY <1>1, <2>1, <2>3, LinesAre DEF m
    <3>2. Begins(Seen(p), Seen(q + 1))
      <4>1. Begins(Seen(p), Seen(q))
        BY <1>4, <3>1
      <4> DEFINE s == Seen(q)
                 t == Append(s, x)
      <4>2. /\ Len(t) = Len(s) + 1 /\ \A j \in 1 .. Len(s) : t[j] = s[j]
            /\ Len(s) \in Nat /\ Len(Seen(p)) \in Nat
        BY <1>2, <1>3, AppendProperties
      <4> HIDE DEF s, t
      <4>3. Begins(Seen(p), t)
        BY <4>1, <4>2 DEF Begins, s
      <4>4. QED
        BY <2>1, <4>3 DEF t, s
    <3>3. \A k \in 1 .. l - 1 : Reading[q + 1][k] = Reading[p][k]
      BY <1>4, <2>1, <2>3
    <3>4. QED
      BY <1>2, <2>1, <2>3, <3>1, <3>2, <3>3 DEF Grown, l
  <2>4. QED
    BY <1>2, <2>2, <2>3
<1>8. QED
  BY <1>5, <1>6, <1>7

LEMMA ReadingGrows ==
    ASSUME text \in Seq(Lexeme), NEW p \in 0 .. Len(text), NEW q \in p .. Len(text)
    PROVE  Grown(p, q)
<1> DEFINE n == Len(text) - p
           S == {m \in 0 .. n : Grown(p, p + m)}
<1>1. n \in Nat /\ p + 0 = p
  OBVIOUS
<1>2. 0 \in S
  <2>1. LineAt(p) \in Nat /\ Seen(p) = Reading[p][LineAt(p)] /\ Len(Seen(p)) \in Nat
    BY LinesAre
  <2>2. Grown(p, p)
    BY <2>1 DEF Grown, Begins
  <2>3. QED
    BY <1>1, <2>2
<1>3. ASSUME NEW m \in S \intersect 0 .. n - 1 PROVE m + 1 \in S
  <2>1. p + m \in p .. Len(text) - 1 /\ Grown(p, p + m) /\ m \in 0 .. n - 1
    OBVIOUS
  <2>2. Grown(p, (p + m) + 1)
    BY <2>1, GrowsByOne
  <2>3. (p + m) + 1 = p + (m + 1) /\ m + 1 \in 0 .. n
    BY <2>1
  <2>4. QED
    BY <2>2, <2>3
<1>4. 0 .. n \subseteq S
  <2> HIDE DEF S, n
  <2>1. QED
    BY <1>1, <1>2, <1>3, IntervalInduction
<1>5. q - p \in 0 .. n /\ p + (q - p) = q
  OBVIOUS
<1>6. QED
  BY <1>4, <1>5

-----------------------------------------------------------------------------
(* Blanks and names.                                                       *)

Separated(l) == IF l # << >> /\ Last(l) \notin Blank THEN Append(l, " ") ELSE l

Plain(lexeme) == ~IsBreak(lexeme) /\ lexeme \notin Blank

LEMMA BlankIsRead ==
    ASSUME text \in Seq(Lexeme), NEW p \in 0 .. Len(text) - 1, LexemeAt(p) \in Blank
    PROVE  LineAt(p + 1) = LineAt(p) /\ Seen(p + 1) = Separated(Seen(p))
<1>1. LexemeAt(p) = " " /\ ~IsBreak(LexemeAt(p))
  BY DEF Blank, IsBreak
<1>2. CASE Seen(p) = << >> \/ Last(Seen(p)) \in Blank
  <2>1. Reading[p + 1] = Reading[p]
    BY <1>2, ReadsOne
  <2>2. LineAt(p + 1) = LineAt(p) /\ Seen(p + 1) = Seen(p)
    BY <2>1, Zenon DEF LineAt, Seen
  <2>3. Separated(Seen(p)) = Seen(p)
    BY <1>2, Zenon DEF Separated
  <2>4. QED
    BY <2>2, <2>3
<1>3. CASE ~(Seen(p) = << >> \/ Last(Seen(p)) \in Blank)
  <2>1. LineAt(p + 1) = LineAt(p) /\ Seen(p + 1) = Append(Seen(p), " ")
    BY <1>1, <1>3, ReadsOne, Zenon
  <2>2. Separated(Seen(p)) = Append(Seen(p), " ")
    BY <1>3, Zenon DEF Separated
  <2>3. QED
    BY <2>1, <2>2
<1>4. QED
  BY <1>2, <1>3

LEMMA PlainIsRead ==
    ASSUME text \in Seq(Lexeme), NEW p \in 0 .. Len(text) - 1, Plain(LexemeAt(p))
    PROVE  LineAt(p + 1) = LineAt(p) /\ Seen(p + 1) = Append(Seen(p), LexemeAt(p))
  BY ReadsOne, Zenon DEF Plain

LEMMA SeparatedTwice ==
    ASSUME NEW l \in Seq(Lexeme)
    PROVE  /\ Separated(l) \in Seq(Lexeme) /\ Separated(Separated(l)) = Separated(l)
           /\ Separated(l) = << >> <=> l = << >>
<1>1. CASE l # << >> /\ Last(l) \notin Blank
  <2> DEFINE b == " "
             m == Append(l, b)
  <2>1. b \in Lexeme /\ b \in Blank
    <3>1. b \in Lexeme
      BY Zenon DEF Lexeme, Blank
    <3>2. b \in Blank
      BY Zenon DEF Blank
    <3>3. QED
      BY <3>1, <3>2
  <2>2. Separated(l) = m
    BY <1>1 DEF Separated
  <2> HIDE DEF b
  <2>3. m \in Seq(Lexeme) /\ m # << >> /\ m[Len(l) + 1] = b /\ Len(m) = Len(l) + 1
    BY <2>1, AppendProperties
  <2> HIDE DEF m
  <2>4. Last(m) \in Blank
    BY <2>1, <2>3 DEF Last
  <2>5. QED
    BY <1>1, <2>2, <2>3, <2>4, Zenon DEF Separated
<1>2. CASE ~(l # << >> /\ Last(l) \notin Blank)
  BY <1>2, Zenon DEF Separated
<1>3. QED
  BY <1>1, <1>2

LEMMA SkipsBlanks ==
    ASSUME NEW p \in Nat, Len(text) \in Nat, p <= Len(text)
    PROVE  /\ SkipSeparator(p) \in p .. Len(text)
           /\ LexemeAt(SkipSeparator(p)) \notin Blank
           /\ \A k \in p .. SkipSeparator(p) - 1 : LexemeAt(k) \in Blank
<1>1. \E q \in p .. Len(text) :
         LexemeAt(q) \notin Blank /\ \A k \in p .. q - 1 : LexemeAt(k) \in Blank
  <2>1. "end" \notin Blank
    BY EndOfText
  <2>2. QED
    BY <2>1, RunEnds
<1> DEFINE P(q) == LexemeAt(q) \notin Blank /\ \A k \in p .. q - 1 : LexemeAt(k) \in Blank
<1>2. SkipSeparator(p) = CHOOSE q \in p .. Len(text) : P(q)
  BY Zenon DEF SkipSeparator
<1>3. SkipSeparator(p) \in p .. Len(text) /\ P(SkipSeparator(p))
  <2> HIDE DEF P
  <2>1. \E q \in p .. Len(text) : P(q)
    BY <1>1, Zenon DEF P
  <2>2. QED
    BY <1>2, <2>1, Zenon
<1>4. QED
  BY <1>3

LEMMA SkippingReads ==
    ASSUME text \in Seq(Lexeme), NEW p \in 0 .. Len(text), NEW q, q = SkipSeparator(p)
    PROVE  /\ LineAt(q) = LineAt(p)
           /\ Seen(q) = IF q = p THEN Seen(p) ELSE Separated(Seen(p))
<1> DEFINE n == q - p
           Right(m) == /\ LineAt(p + m) = LineAt(p)
                       /\ Seen(p + m) = IF m = 0 THEN Seen(p) ELSE Separated(Seen(p))
           S == {m \in 0 .. n : Right(m)}
<1>1. p \in Nat /\ Len(text) \in Nat /\ p <= Len(text)
  OBVIOUS
<1>2. q \in p .. Len(text) /\ \A k \in p .. q - 1 : LexemeAt(k) \in Blank
  BY <1>1, SkipsBlanks
<1>3. n \in Nat /\ p + 0 = p /\ p + n = q /\ n \in 0 .. n
  BY <1>1, <1>2
<1>4. 0 \in S
  BY <1>3
<1>5. ASSUME NEW m \in S \intersect 0 .. n - 1 PROVE m + 1 \in S
  <2>1. /\ p + m \in 0 .. Len(text) - 1 /\ p + m \in 0 .. Len(text) /\ p + m \in p .. q - 1
        /\ (p + m) + 1 = p + (m + 1)
        /\ m + 1 \in 0 .. n /\ m + 1 # 0
    BY <1>1, <1>2
  <2>2. Right(m)
    OBVIOUS
  <2> HIDE DEF n
  <2>3. LineAt((p + m) + 1) = LineAt(p + m) /\ Seen((p + m) + 1) = Separated(Seen(p + m))
    BY <1>2, <2>1, BlankIsRead
  <2>4. Separated(Seen(p + m)) = Separated(Seen(p))
    <3>1. Seen(p) \in Seq(Lexeme)
      BY LinesAre
    <3>2. Separated(Separated(Seen(p))) = Separated(Seen(p))
      BY <3>1, SeparatedTwice
    <3>3. QED
      BY <2>2, <3>2, Zenon
  <2>5. Right(m + 1)
    BY <2>1, <2>2, <2>3, <2>4, Zenon
  <2>6. QED
    BY <2>1, <2>5
<1>6. 0 .. n \subseteq S
  <2> HIDE DEF S, n
  <2>1. QED
    BY <1>3, <1>4, <1>5, IntervalInduction
<1>7. Right(n)
  BY <1>3, <1>6
<1>8. n = 0 <=> q = p
  BY <1>1, <1>2
<1> HIDE DEF n
<1>9. QED
  BY <1>3, <1>7, <1>8, Zenon

LEMMA NamesArePlain == \A x : InName(x) => Plain(x)
<1>1. "\n" \in Symbol /\ " " \in Symbol
  BY Zenon DEF Symbol
<1>2. "\n" \notin Numeral /\ " " \notin Numeral
  BY <1>1, NumeralAssumption
<1>3. "\n" # "_" /\ " " # "_"
  BY Zenon
<1>4. QED
  BY <1>1, <1>2, <1>3, Zenon DEF InName, IsLetters, Plain, IsBreak, Blank

LEMMA NameIs ==
    ASSUME text \in Seq(Lexeme), NEW p \in 0 .. Len(text)
    PROVE  /\ NameEnd(p) \in p .. Len(text)
           /\ ~InName(LexemeAt(NameEnd(p)))
           /\ \A k \in p .. NameEnd(p) - 1 : InName(LexemeAt(k))
           /\ NameAt(p) \in Seq(Lexeme) /\ Len(NameAt(p)) = NameEnd(p) - p
           /\ \A j \in 1 .. NameEnd(p) - p :
                 NameAt(p)[j] = text[p + j] /\ InName(NameAt(p)[j])
<1> DEFINE Class == {LexemeAt(k) : k \in {m \in p .. Len(text) : InName(LexemeAt(m))}}
<1>1. p \in Nat /\ Len(text) \in Nat /\ p <= Len(text)
  OBVIOUS
<1>2. PICK q \in p .. Len(text) :
         ~InName(LexemeAt(q)) /\ \A k \in p .. q - 1 : InName(LexemeAt(k))
  <2>1. "end" \notin Class
    BY EndOfText
  <2>2. \A k \in p .. Len(text) : LexemeAt(k) \in Class <=> InName(LexemeAt(k))
    OBVIOUS
  <2> HIDE DEF Class
  <2>3. PICK q \in p .. Len(text) :
           LexemeAt(q) \notin Class /\ \A k \in p .. q - 1 : LexemeAt(k) \in Class
    BY <1>1, <2>1, RunEnds
  <2>4. \A k \in p .. q - 1 : k \in p .. Len(text)
    OBVIOUS
  <2>5. QED
    BY <2>2, <2>3, <2>4
<1> HIDE DEF Class
<1> DEFINE P(r) == ~InName(LexemeAt(r)) /\ \A k \in p .. r - 1 : InName(LexemeAt(k))
           e == NameEnd(p)
<1>3. e \in p .. Len(text) /\ P(e)
  <2>1. e = CHOOSE r \in p .. Len(text) : P(r)
    BY Zenon DEF NameEnd
  <2>2. \E r \in p .. Len(text) : P(r)
    BY <1>2, Zenon
  <2> HIDE DEF P, e
  <2>3. QED
    BY <2>1, <2>2, Zenon
<1>4. \A j \in 1 .. e - p : text[p + j] = LexemeAt((p + j) - 1) /\ (p + j) - 1 \in p .. e - 1
  <2> SUFFICES ASSUME NEW j \in 1 .. e - p
               PROVE  text[p + j] = LexemeAt((p + j) - 1) /\ (p + j) - 1 \in p .. e - 1
    OBVIOUS
  <2> HIDE DEF e
  <2>1. (p + j) - 1 < Len(text) /\ ((p + j) - 1) + 1 = p + j /\ (p + j) - 1 \in p .. e - 1
    BY <1>1, <1>3
  <2>2. LexemeAt((p + j) - 1) = text[((p + j) - 1) + 1]
    BY <2>1 DEF LexemeAt
  <2>3. QED
    BY <2>1, <2>2
<1>5. \A j \in 1 .. e - p : InName(text[p + j])
  BY <1>3, <1>4
<1>6. NameAt(p) = SubSeq(text, p + 1, e)
  BY DEF NameAt
<1> HIDE DEF e
<1>7. /\ SubSeq(text, p + 1, e) \in Seq(Lexeme) /\ Len(SubSeq(text, p + 1, e)) = e - p
      /\ \A j \in 1 .. e - p : SubSeq(text, p + 1, e)[j] = text[p + j]
  <2>1. \A k \in p + 1 .. e : text[k] \in Lexeme
    <3>1. \A k \in p + 1 .. e : k \in 1 .. Len(text)
      BY <1>1, <1>3
    <3>2. QED
      BY <3>1, ElementOfSeq
  <2>2. p + 1 \in Int /\ e \in Int /\ e - (p + 1) + 1 = e - p /\ (p + 1 <= e \/ e = p)
    BY <1>1, <1>3
  <2>3. /\ SubSeq(text, p + 1, e) \in Seq(Lexeme)
        /\ Len(SubSeq(text, p + 1, e)) = IF p + 1 <= e THEN e - (p + 1) + 1 ELSE 0
        /\ \A j \in 1 .. e - (p + 1) + 1 : SubSeq(text, p + 1, e)[j] = text[(p + 1) + j - 1]
    BY <2>1, <2>2, SubSeqProperties
  <2>4. \A j \in 1 .. e - p : (p + 1) + j - 1 = p + j
    BY <1>1
  <2>5. Len(SubSeq(text, p + 1, e)) = e - p
    BY <1>1, <1>3, <2>3
  <2>6. QED
    BY <2>2, <2>3, <2>4, <2>5
<1>8. QED
  BY <1>3, <1>5, <1>6, <1>7 DEF e

(* l and then w is s.                                                      *)
Joins(l, w, s) ==
    /\ s \in Seq(Lexeme) /\ Len(s) = Len(l) + Len(w)
    /\ \A j \in 1 .. Len(l) : s[j] = l[j]
    /\ \A j \in 1 .. Len(w) : s[Len(l) + j] = w[j]

LEMMA NameIsRead ==
    ASSUME text \in Seq(Lexeme), NEW p \in 0 .. Len(text), NEW q, q = NameEnd(p)
    PROVE  LineAt(q) = LineAt(p) /\ Joins(Seen(p), NameAt(p), Seen(q))
<1> DEFINE n == q - p
           l == Seen(p)
           Right(m) == /\ LineAt(p + m) = LineAt(p)
                       /\ Seen(p + m) \in Seq(Lexeme) /\ Len(Seen(p + m)) = Len(l) + m
                       /\ \A j \in 1 .. Len(l) : Seen(p + m)[j] = l[j]
                       /\ \A j \in 1 .. m : Seen(p + m)[Len(l) + j] = text[p + j]
           S == {m \in 0 .. n : Right(m)}
<1>1. p \in Nat /\ Len(text) \in Nat /\ p <= Len(text)
  OBVIOUS
<1>2. q \in p .. Len(text) /\ \A k \in p .. q - 1 : InName(LexemeAt(k))
  BY NameIs
<1>3. n \in Nat /\ p + 0 = p /\ p + n = q /\ n \in 0 .. n
  BY <1>1, <1>2
<1>4. l \in Seq(Lexeme) /\ Len(l) \in Nat
  BY LinesAre
<1>5. 0 \in S
  BY <1>3, <1>4
<1>6. ASSUME NEW m \in S \intersect 0 .. n - 1 PROVE m + 1 \in S
  <2>1. /\ p + m \in 0 .. Len(text) - 1 /\ p + m \in 0 .. Len(text) /\ p + m \in p .. q - 1
        /\ (p + m) + 1 = p + (m + 1)
        /\ m + 1 \in 0 .. n /\ m \in Nat
    BY <1>1, <1>2
  <2>2. Right(m)
    OBVIOUS
  <2> DEFINE x == LexemeAt(p + m)
             s == Seen(p + m)
             t == Append(s, x)
  <2>3. Plain(x) /\ x = text[p + (m + 1)] /\ x \in Lexeme
    BY <1>2, <2>1, NamesArePlain, ReadsOne
  <2>4. LineAt((p + m) + 1) = LineAt(p + m) /\ Seen((p + m) + 1) = t
    BY <2>1, <2>3, PlainIsRead
  <2>5. s \in Seq(Lexeme) /\ Len(s) = Len(l) + m
    BY <2>2
  <2>6. /\ \A j \in 1 .. Len(l) : s[j] = l[j]
        /\ \A j \in 1 .. m : s[Len(l) + j] = text[p + j]
    BY <2>2
  <2> HIDE DEF x, s, n, l
  <2>7. t \in Seq(Lexeme) /\ Len(t) = Len(s) + 1 /\ t[Len(s) + 1] = x
        /\ \A j \in 1 .. Len(s) : t[j] = s[j]
    BY <2>3, <2>5, AppendProperties
  <2> HIDE DEF t
  <2>8. /\ Len(t) = Len(l) + (m + 1)
        /\ \A j \in 1 .. Len(l) : t[j] = l[j]
    <3> DEFINE a == Len(l)
               b == Len(s)
               c == Len(t)
    <3>1. a \in Nat /\ m \in Nat /\ b = a + m /\ c = b + 1
      BY <1>4, <2>1, <2>5, <2>7
    <3> HIDE DEF a, b, c
    <3>2. c = a + (m + 1)
      BY <3>1
    <3>3. \A j \in 1 .. a : j \in 1 .. b
      BY <3>1
    <3>4. \A j \in 1 .. Len(l) : t[j] = l[j]
      BY <2>6, <2>7, <3>3, Zenon DEF a, b
    <3>5. QED
      BY <3>2, <3>4, Zenon DEF a, c
  <2>9. ASSUME NEW j \in 1 .. m + 1 PROVE t[Len(l) + j] = text[p + j]
    <3>1. CASE j = m + 1
      <4>1. t[Len(s) + 1] = x /\ x = text[p + (m + 1)]
        BY <2>3, <2>7
      <4>2. Len(l) + j = Len(s) + 1
        BY <1>4, <2>1, <2>5, <3>1
      <4>3. QED
        BY <3>1, <4>1, <4>2, Zenon
    <3>2. CASE j # m + 1
      <4>1. j \in 1 .. m /\ Len(l) + j \in 1 .. Len(s)
        BY <1>4, <2>1, <2>5, <3>2
      <4>2. QED
        BY <2>6, <2>7, <4>1
    <3>3. QED
      BY <3>1, <3>2
  <2>10. LineAt(p + (m + 1)) = LineAt(p) /\ Seen(p + (m + 1)) = t
    BY <2>1, <2>2, <2>4
  <2>11. Right(m + 1)
    BY <2>7, <2>8, <2>9, <2>10
  <2>12. QED
    BY <2>1, <2>11
<1>7. 0 .. n \subseteq S
  <2> HIDE DEF S, n
  <2>1. QED
    BY <1>3, <1>5, <1>6, IntervalInduction
<1>8. Right(n)
  BY <1>3, <1>7
<1>9. Len(NameAt(p)) = n /\ \A j \in 1 .. n : NameAt(p)[j] = text[p + j]
  BY NameIs
<1> HIDE DEF n, l
<1>10. QED
  BY <1>3, <1>8, <1>9 DEF Joins, l

-----------------------------------------------------------------------------
(* The lines of the text, from a place on one of them.                     *)

Legible ==
    /\ text \in Seq(Lexeme)
    /\ \A k \in 1 .. Len(text) : text[k] # None /\ text[k] # "end"
    /\ \A k \in 1 .. Len(text) - 1 : IsLetters(text[k]) => ~IsLetters(text[k + 1])

Raw(k) == Reading[Len(text)][k]

LEMMA TextsAreLegible == ASSUME text \in Texts PROVE Legible
<1>1. text \in Seq(STRING)
  BY AssemblerAssumption
<1>2. STRING \subseteq Lexeme
  BY DEF Lexeme
<1>3. text \in Seq(Lexeme)
  BY <1>1, <1>2, SeqMonotonic
<1>4. DOMAIN text = 1 .. Len(text)
  BY <1>1
<1>5. /\ \A k \in DOMAIN text : text[k] \notin {"", "end"}
      /\ \A k \in 1 .. Len(text) - 1 : IsLetters(text[k]) => ~IsLetters(text[k + 1])
  BY TextAssumption, Zenon
<1>6. QED
  BY <1>3, <1>4, <1>5, Zenon DEF Legible, None

LEMMA EndIsLast ==
    ASSUME Legible, NEW p \in 0 .. Len(text)
    PROVE  /\ Len(text) \in Nat /\ p \in Nat
           /\ LexemeAt(p) = "end" <=> p = Len(text)
           /\ p < Len(text) => p \in 0 .. Len(text) - 1 /\ LexemeAt(p) \in Lexeme
                               /\ LexemeAt(p) = text[p + 1] /\ LexemeAt(p) # None
<1>1. Len(text) \in Nat /\ p \in Nat /\ p <= Len(text)
  BY DEF Legible
<1>2. CASE p < Len(text)
  <2>1. p + 1 \in 1 .. Len(text) /\ LexemeAt(p) = text[p + 1] /\ p \in 0 .. Len(text) - 1
    BY <1>1, <1>2 DEF LexemeAt
  <2>2. text[p + 1] \in Lexeme
    BY <2>1, ElementOfSeq DEF Legible
  <2>3. text[p + 1] # None /\ text[p + 1] # "end"
    BY <2>1 DEF Legible
  <2>4. p # Len(text)
    BY <1>1, <1>2
  <2>5. QED
    BY <1>1, <2>1, <2>2, <2>3, <2>4, Zenon
<1>3. CASE p = Len(text)
  BY <1>1, <1>3 DEF LexemeAt
<1>4. QED
  BY <1>1, <1>2, <1>3

LEMMA TheLines ==
    ASSUME Legible
    PROVE  /\ Len(Lines) = LineAt(Len(text)) /\ DOMAIN Lines = 1 .. Len(Lines) /\ Len(Lines) \in Nat
           /\ \A p \in 0 .. Len(text) : LineAt(p) \in 1 .. Len(Lines)
           /\ \A k \in 1 .. Len(Lines) :
                 /\ Raw(k) \in Seq(Lexeme) /\ Lines[k] = Trimmed(Raw(k))
                 /\ Lines[k] \in Seq(Lexeme)
<1> DEFINE n == LineAt(Len(text))
<1>1. text \in Seq(Lexeme) /\ Len(text) \in Nat /\ Len(text) \in 0 .. Len(text)
  BY DEF Legible
<1>2. n \in Nat \ {0} /\ DOMAIN Reading[Len(text)] = 1 .. n
  BY <1>1, LinesAre
<1>3. \A k \in 1 .. n : Raw(k) \in Seq(Lexeme)
  BY <1>1, LinesAre DEF Raw
<1>4. Lines = [k \in 1 .. n |-> Trimmed(Raw(k))]
  BY <1>2, Zenon DEF Lines, Raw
<1>5. ASSUME NEW k \in 1 .. n PROVE Trimmed(Raw(k)) \in Seq(Lexeme)
  <2> DEFINE r == Raw(k)
  <2>1. r \in Seq(Lexeme)
    BY <1>3
  <2> HIDE DEF r
  <2>2. Front(r) \in Seq(Lexeme)
    BY <2>1 DEF Front
  <2>3. QED
    BY <2>1, <2>2 DEF Trimmed, r
<1>6. \A p \in 0 .. Len(text) : LineAt(p) \in 1 .. n
  <2> SUFFICES ASSUME NEW p \in 0 .. Len(text) PROVE LineAt(p) \in 1 .. n
    OBVIOUS
  <2>1. Len(text) \in p .. Len(text)
    BY <1>1
  <2>2. LineAt(p) <= n /\ LineAt(p) \in Nat \ {0}
    BY <1>1, <2>1, LinesAre, ReadingGrows DEF Grown
  <2> HIDE DEF n
  <2>3. QED
    BY <1>2, <2>2
<1> HIDE DEF n
<1>7. Len(Lines) = n /\ DOMAIN Lines = 1 .. n
  BY <1>2, <1>4
<1>8. QED
  BY <1>2, <1>3, <1>4, <1>5, <1>6, <1>7 DEF n

LEMMA LineIsOver ==
    ASSUME Legible, NEW p \in 0 .. Len(text), p = Len(text) \/ IsBreak(LexemeAt(p))
    PROVE  Raw(LineAt(p)) = Seen(p)
<1>1. text \in Seq(Lexeme) /\ Len(text) \in Nat
  BY DEF Legible
<1>2. Seen(p) = Reading[p][LineAt(p)] /\ LineAt(p) \in Nat \ {0}
  BY <1>1, LinesAre
<1>3. CASE p = Len(text)
  BY <1>2, <1>3 DEF Raw
<1>4. CASE p # Len(text)
  <2>1. p \in 0 .. Len(text) - 1 /\ p + 1 \in 0 .. Len(text) /\ Len(text) \in p + 1 .. Len(text)
    BY <1>1, <1>4
  <2>2. LineAt(p + 1) = LineAt(p) + 1 /\ \A k \in 1 .. LineAt(p) : Reading[p + 1][k] = Reading[p][k]
    BY <1>1, <1>4, <2>1, ReadsOne
  <2>3. \A k \in 1 .. LineAt(p + 1) - 1 : Raw(k) = Reading[p + 1][k]
    BY <1>1, <2>1, ReadingGrows DEF Grown, Raw
  <2>4. LineAt(p) \in 1 .. LineAt(p) /\ LineAt(p) \in 1 .. LineAt(p + 1) - 1
    BY <1>2, <2>2
  <2>5. QED
    BY <1>2, <2>2, <2>3, <2>4
<1>5. QED
  BY <1>3, <1>4

LEMMA LineHasMore ==
    ASSUME Legible, NEW p \in 0 .. Len(text), p # Len(text), Plain(LexemeAt(p))
    PROVE  Begins(Append(Seen(p), LexemeAt(p)), Lines[LineAt(p)])
<1>1. text \in Seq(Lexeme) /\ Len(text) \in Nat
  BY DEF Legible
<1>2. p \in 0 .. Len(text) - 1 /\ p + 1 \in 0 .. Len(text) /\ Len(text) \in p + 1 .. Len(text)
  BY <1>1
<1> DEFINE l == Seen(p)
           x == LexemeAt(p)
           t == Append(l, x)
           n == LineAt(p)
           r == Raw(n)
<1>3. LineAt(p + 1) = n /\ Seen(p + 1) = t
  BY <1>1, <1>2, PlainIsRead
<1>4. Begins(t, r)
  BY <1>1, <1>2, <1>3, ReadingGrows DEF Grown, Raw
<1>5. r \in Seq(Lexeme) /\ Lines[n] = Trimmed(r)
  BY TheLines
<1>6. l \in Seq(Lexeme) /\ x \in Lexeme /\ x \notin Blank
  BY <1>1, <1>2, LinesAre, ReadsOne DEF Plain
<1> HIDE DEF l, x, r, n
<1>7. Len(t) = Len(l) + 1 /\ Len(l) \in Nat /\ t[Len(t)] = x /\ Len(t) \in 1 .. Len(t)
  BY <1>6, AppendProperties
<1> HIDE DEF t
<1>8. CASE r # << >> /\ Last(r) \in Blank
  <2>1. Trimmed(r) = SubSeq(r, 1, Len(r) - 1)
    BY <1>8, Zenon DEF Trimmed, Front
  <2>2. Len(r) \in Nat /\ Len(t) <= Len(r) /\ r[Len(t)] = x
    BY <1>4, <1>5, <1>7 DEF Begins
  <2>3. Len(t) # Len(r)
    BY <1>6, <1>8, <2>2 DEF Last
  <2>4. /\ Len(SubSeq(r, 1, Len(r) - 1)) = Len(r) - 1
        /\ \A j \in 1 .. Len(r) - 1 : SubSeq(r, 1, Len(r) - 1)[j] = r[j]
    BY <1>5, <1>7, <2>2, <2>3
  <2>5. Len(t) <= Len(r) - 1 /\ \A j \in 1 .. Len(t) : j \in 1 .. Len(r) - 1
    BY <1>7, <2>2, <2>3
  <2>6. Begins(t, SubSeq(r, 1, Len(r) - 1))
    BY <1>4, <2>4, <2>5 DEF Begins
  <2>7. QED
    BY <1>5, <2>1, <2>6 DEF t, l, x, n
<1>9. CASE ~(r # << >> /\ Last(r) \in Blank)
  BY <1>4, <1>5, <1>9, Zenon DEF Trimmed, t, l, x, n
<1>10. QED
  BY <1>8, <1>9

Full(l) == l # << >> /\ Last(l) \notin Blank

Stop(lexeme) == IsBreak(lexeme) \/ lexeme = "end"

(* Nothing follows on the line.                                            *)
Ends(p) == Stop(LexemeAt(SkipSeparator(p)))

LEMMA Skipping ==
    ASSUME Legible, NEW p \in 0 .. Len(text), NEW q, q = SkipSeparator(p)
    PROVE  /\ q \in p .. Len(text) /\ q \in 0 .. Len(text)
           /\ LexemeAt(q) \notin Blank
           /\ q = p <=> LexemeAt(p) \notin Blank
           /\ Ends(p) => q = Len(text) \/ IsBreak(LexemeAt(q))
           /\ ~Ends(p) => q # Len(text) /\ Plain(LexemeAt(q))
           /\ Ends(q) = Ends(p)
<1>1. p \in Nat /\ Len(text) \in Nat /\ p <= Len(text)
  BY EndIsLast
<1>2. q \in p .. Len(text) /\ LexemeAt(q) \notin Blank /\ \A k \in p .. q - 1 : LexemeAt(k) \in Blank
  BY <1>1, SkipsBlanks
<1>3. q \in 0 .. Len(text)
  BY <1>1, <1>2
<1>4. LexemeAt(q) = "end" <=> q = Len(text)
  BY <1>3, EndIsLast
<1>5. q = p <=> LexemeAt(p) \notin Blank
  <2>1. q # p => p \in p .. q - 1
    BY <1>1, <1>2
  <2>2. QED
    BY <1>2, <2>1
<1>6. SkipSeparator(q) = q
  <2>1. q \in Nat /\ q <= Len(text)
    BY <1>1, <1>2
  <2> DEFINE r == SkipSeparator(q)
  <2>2. r \in q .. Len(text) /\ \A k \in q .. r - 1 : LexemeAt(k) \in Blank
    BY <1>1, <2>1, SkipsBlanks
  <2> HIDE DEF r
  <2>3. r # q => q \in q .. r - 1
    BY <2>1, <2>2
  <2>4. QED
    BY <1>2, <2>2, <2>3 DEF r
<1>7. QED
  BY <1>2, <1>3, <1>4, <1>5, <1>6, Zenon DEF Ends, Stop, Plain

LEMMA LineEnds ==
    ASSUME Legible, NEW p \in 0 .. Len(text), Ends(p), Seen(p) = << >> \/ Full(Seen(p))
    PROVE  Lines[LineAt(p)] = Seen(p)
<1> DEFINE q == SkipSeparator(p)
           l == Seen(p)
<1>1. q \in 0 .. Len(text) /\ (q = Len(text) \/ IsBreak(LexemeAt(q)))
  BY Skipping
<1>2. LineAt(q) = LineAt(p) /\ Seen(q) = IF q = p THEN l ELSE Separated(l)
  BY SkippingReads DEF Legible
<1> HIDE DEF q
<1>3. Raw(LineAt(p)) = Seen(q)
  BY <1>1, <1>2, LineIsOver
<1>4. Lines[LineAt(p)] = Trimmed(Seen(q))
  BY <1>3, TheLines
<1>5. l \in Seq(Lexeme)
  BY LinesAre DEF Legible
<1> HIDE DEF l
<1>6. CASE l = << >>
  BY <1>2, <1>4, <1>6, Zenon DEF Separated, Trimmed, l
<1>7. CASE Full(l) /\ Seen(q) = l
  BY <1>4, <1>7, Zenon DEF Full, Trimmed, l
<1>8. CASE Full(l) /\ Seen(q) = Separated(l)
  <2> DEFINE b == " "
             t == Append(l, b)
  <2>1. b \in Lexeme /\ b \in Blank
    BY Zenon DEF Lexeme, Blank
  <2>2. Seen(q) = t
    BY <1>8, Zenon DEF Full, Separated
  <2> HIDE DEF b
  <2>3. /\ t # << >> /\ Len(t) = Len(l) + 1 /\ t[Len(l) + 1] = b /\ Len(l) \in Nat
        /\ t \in Seq(Lexeme) /\ \A j \in 1 .. Len(l) : t[j] = l[j]
    BY <1>5, <2>1, AppendProperties
  <2> HIDE DEF t
  <2>4. Last(t) \in Blank
    BY <2>1, <2>3 DEF Last
  <2>5. Trimmed(t) = SubSeq(t, 1, Len(t) - 1)
    BY <2>3, <2>4, Zenon DEF Trimmed, Front
  <2>6. SubSeq(t, 1, Len(t) - 1) = l
    BY <1>5, <2>3
  <2>7. QED
    BY <1>4, <2>2, <2>5, <2>6 DEF l
<1>9. QED
  BY <1>2, <1>6, <1>7, <1>8 DEF l

LEMMA LineGoesOn ==
    ASSUME Legible, NEW p \in 0 .. Len(text), ~Ends(p), Full(Seen(p)) \/ LexemeAt(p) \notin Blank,
           NEW f, f = Lines[LineAt(p)]
    PROVE  /\ f \in Seq(Lexeme) /\ Len(Seen(p)) \in Nat /\ Len(Seen(p)) < Len(f)
           /\ Begins(Seen(p), f) /\ f[Len(Seen(p)) + 1] = LexemeAt(p)
           /\ LexemeAt(p) \in Blank =>
                 /\ Len(Seen(p)) + 1 < Len(f)
                 /\ f[Len(Seen(p)) + 2] = LexemeAt(SkipSeparator(p))
<1> DEFINE q == SkipSeparator(p)
           l == Seen(p)
           y == LexemeAt(q)
<1>1. /\ q \in 0 .. Len(text) /\ q # Len(text) /\ Plain(y) /\ y \notin Blank
      /\ q = p <=> LexemeAt(p) \notin Blank
  BY Skipping
<1>2. LineAt(q) = LineAt(p) /\ Seen(q) = IF q = p THEN l ELSE Separated(l)
  BY SkippingReads DEF Legible
<1>3. l \in Seq(Lexeme) /\ Seen(q) \in Seq(Lexeme) /\ y \in Lexeme
  <2>1. q < Len(text)
    BY <1>1, EndIsLast
  <2>2. QED
    BY <1>1, <2>1, LinesAre, EndIsLast DEF Legible
<1>4. f \in Seq(Lexeme)
  BY TheLines
<1>5. Begins(Append(Seen(q), y), f)
  BY <1>1, <1>2, LineHasMore
<1> HIDE DEF q, l, y
<1>6. ASSUME NEW s \in Seq(Lexeme), NEW z \in Lexeme, Begins(Append(s, z), f)
      PROVE  Len(s) \in Nat /\ Len(s) < Len(f) /\ Begins(s, f) /\ f[Len(s) + 1] = z
  <2> DEFINE t == Append(s, z)
  <2>1. /\ Len(t) = Len(s) + 1 /\ t[Len(s) + 1] = z /\ Len(s) \in Nat
        /\ \A j \in 1 .. Len(s) : t[j] = s[j]
    BY AppendProperties
  <2> HIDE DEF t
  <2>2. Len(t) <= Len(f) /\ \A j \in 1 .. Len(t) : f[j] = t[j]
    BY <1>6 DEF Begins, t
  <2>3. Len(s) + 1 \in 1 .. Len(t) /\ \A j \in 1 .. Len(s) : j \in 1 .. Len(t)
    BY <2>1
  <2>4. Len(f) \in Nat
    BY <1>4
  <2>5. Len(s) < Len(f) /\ f[Len(s) + 1] = z /\ \A j \in 1 .. Len(s) : f[j] = s[j]
    BY <2>1, <2>2, <2>3, <2>4
  <2>6. QED
    BY <2>1, <2>4, <2>5 DEF Begins
<1>7. CASE LexemeAt(p) \notin Blank
  <2>1. q = p /\ Seen(q) = l /\ y = LexemeAt(p)
    BY <1>1, <1>2, <1>7 DEF y
  <2>2. QED
    BY <1>3, <1>4, <1>5, <1>6, <1>7, <2>1 DEF l
<1>8. CASE LexemeAt(p) \in Blank
  <2> DEFINE b == " "
             t == Append(l, b)
  <2>1. b \in Lexeme /\ b \in Blank /\ LexemeAt(p) = b
    BY <1>8, Zenon DEF Lexeme, Blank
  <2>2. q # p /\ Full(l)
    BY <1>1, <1>8 DEF l
  <2>3. Seen(q) = t
    BY <1>2, <2>2, Zenon DEF Full, Separated
  <2> HIDE DEF b
  <2>4. t \in Seq(Lexeme) /\ Len(t) = Len(l) + 1
    BY <1>3, <2>1, AppendProperties
  <2>5. Len(t) \in Nat /\ Len(t) < Len(f) /\ Begins(t, f) /\ f[Len(t) + 1] = y
    BY <1>3, <1>5, <1>6, <2>3, <2>4
  <2>6. Len(l) \in Nat /\ Len(l) < Len(f) /\ Begins(l, f) /\ f[Len(l) + 1] = b
    BY <1>3, <1>6, <2>1, <2>5
  <2> HIDE DEF t
  <2>7. Len(l) + 1 < Len(f) /\ f[Len(l) + 2] = y
    <3>1. Len(t) + 1 = Len(l) + 2
      BY <2>4, <2>6
    <3>2. QED
      BY <2>4, <2>5, <3>1
  <2>8. QED
    BY <1>4, <2>1, <2>6, <2>7 DEF l, y, q
<1>9. QED
  BY <1>7, <1>8

-----------------------------------------------------------------------------
(* What the lines say: the instruction a line spells is that of the only   *)
(* operation it begins with.                                               *)

LEMMA BeginsIs ==
    ASSUME NEW S, NEW s \in Seq(S), NEW f \in Seq(S)
    PROVE  /\ IsPrefix(s, f) <=> Begins(s, f)
           /\ f = s <=> Begins(s, f) /\ Len(f) = Len(s)
<1>1. Len(s) \in Nat /\ Len(f) \in Nat
  OBVIOUS
<1>2. SubSeq(s, 1, Len(s)) = s
  BY SubSeqFull
<1>3. CASE Len(s) <= Len(f)
  <2>1. \A j \in 1 .. Len(s) : j \in 1 .. Len(f)
    BY <1>1, <1>3
  <2> DEFINE t == SubSeq(f, 1, Len(s))
  <2>2. t \in Seq(S) /\ Len(t) = Len(s) /\ \A j \in 1 .. Len(s) : t[j] = f[j]
    BY <1>1, <1>3
  <2> HIDE DEF t
  <2>3. s = t <=> \A j \in 1 .. Len(s) : s[j] = t[j]
    BY <2>2, SeqEqual
  <2>4. IsPrefix(s, f) <=> s = t
    BY <1>2, <1>3, Zenon DEF IsPrefix, t
  <2>5. Begins(s, f) <=> \A j \in 1 .. Len(s) : s[j] = t[j]
    BY <1>3, <2>2 DEF Begins
  <2>6. Len(f) = Len(s) => t = f
    BY SubSeqFull DEF t
  <2>7. QED
    BY <1>1, <1>3, <2>3, <2>4, <2>5, <2>6
<1>4. CASE ~(Len(s) <= Len(f))
  BY <1>1, <1>4 DEF IsPrefix, Begins
<1>5. QED
  BY <1>3, <1>4

LEMMA Singles ==
    ASSUME NEW S, NEW x \in S
    PROVE  <<x>> \in Seq(S) /\ Len(<<x>>) = 1 /\ <<x>>[1] = x /\ <<x>> # << >>
  OBVIOUS

LEMMA Triples ==
    ASSUME NEW S, NEW x \in S, NEW y \in S, NEW z \in S
    PROVE  /\ <<x, y, z>> \in Seq(S) /\ Len(<<x, y, z>>) = 3 /\ <<x, y, z>> # << >>
           /\ <<x, y, z>>[1] = x /\ <<x, y, z>>[2] = y /\ <<x, y, z>>[3] = z
  OBVIOUS

LEMMA SpelledIs ==
    /\ Operations = {"nop", "res", "sca", "loc", "var", "hi", "dbg"}
    /\ \A op \in Operations :
          /\ Spelled(op) = IF op \in {"hi", "dbg"} THEN <<"sys", " ", op>> ELSE <<op>>
          /\ Spelled(op) \in Seq(Lexeme) /\ Full(Spelled(op))
          /\ Len(Spelled(op)) \in {1, 3}
<1>1. Operations = {"nop", "res", "sca", "loc", "var", "hi", "dbg"}
  BY DEF Operations, Lead
<1>2. ASSUME NEW op \in Operations
      PROVE  /\ Spelled(op) = IF op \in {"hi", "dbg"} THEN <<"sys", " ", op>> ELSE <<op>>
             /\ Spelled(op) \in Seq(Lexeme) /\ Full(Spelled(op))
             /\ Len(Spelled(op)) \in {1, 3}
  <2>1. Spelled(op) = IF op \in {"hi", "dbg"} THEN <<"sys", " ", op>> ELSE <<op>>
    BY DEF Spelled, SyscallMnemonics
  <2>2. op \in Lexeme /\ "sys" \in Lexeme /\ " " \in Lexeme
    BY Zenon DEF Lexeme, Blank
  <2>3. op # " "
    BY <1>1
  <2>4. CASE op \in {"hi", "dbg"}
    <3>1. Spelled(op) = <<"sys", " ", op>>
      BY <2>1, <2>4
    <3>2. <<"sys", " ", op>> \in Seq(Lexeme) /\ Len(<<"sys", " ", op>>) = 3
          /\ <<"sys", " ", op>>[3] = op /\ <<"sys", " ", op>> # << >>
      BY <2>2, Triples
    <3>3. QED
      BY <2>1, <2>3, <3>1, <3>2 DEF Full, Last, Blank
  <2>5. CASE op \notin {"hi", "dbg"}
    <3>1. Spelled(op) = <<op>>
      BY <2>1, <2>5
    <3>2. <<op>> \in Seq(Lexeme) /\ Len(<<op>>) = 1 /\ <<op>>[1] = op /\ <<op>> # << >>
      BY <2>2, Singles
    <3>3. QED
      BY <2>1, <2>3, <3>1, <3>2 DEF Full, Last, Blank
  <2>6. QED
    BY <2>4, <2>5
<1>3. QED
  BY <1>1, <1>2

LEMMA BeginsWithOne ==
    ASSUME NEW f, NEW op \in Operations, NEW o \in Operations,
           Begins(Spelled(op), f), Begins(Spelled(o), f)
    PROVE  op = o
<1>1. ASSUME NEW p \in Operations, Begins(Spelled(p), f)
      PROVE  IF p \in {"hi", "dbg"} THEN f[1] = "sys" /\ f[3] = p ELSE f[1] = p
  <2>1. CASE p \in {"hi", "dbg"}
    <3>1. Spelled(p) = <<"sys", " ", p>>
      BY <2>1, SpelledIs
    <3>2. Len(<<"sys", " ", p>>) = 3
      OBVIOUS
    <3>3. \A j \in 1 .. 3 : f[j] = <<"sys", " ", p>>[j]
      BY <1>1, <3>1, <3>2 DEF Begins
    <3>4. 1 \in 1 .. 3 /\ 3 \in 1 .. 3
      OBVIOUS
    <3>5. <<"sys", " ", p>>[1] = "sys" /\ <<"sys", " ", p>>[3] = p
      BY Triples
    <3>6. f[1] = "sys" /\ f[3] = p
      BY <3>3, <3>4, <3>5
    <3>7. QED
      BY <2>1, <3>6
  <2>2. CASE p \notin {"hi", "dbg"}
    <3>1. Spelled(p) = <<p>>
      BY <2>2, SpelledIs
    <3>2. Len(<<p>>) = 1
      OBVIOUS
    <3>3. \A j \in 1 .. 1 : f[j] = <<p>>[j]
      BY <1>1, <3>1, <3>2 DEF Begins
    <3>4. QED
      BY <2>2, <3>3
  <2>3. QED
    BY <2>1, <2>2
<1>2. QED
  BY <1>1, SpelledIs

LEMMA BeginsMore ==
    ASSUME NEW S, NEW s \in Seq(S), NEW c \in S, NEW f \in Seq(S)
    PROVE  IsPrefix(s \o <<c>>, f) <=> Begins(s, f) /\ Len(s) < Len(f) /\ f[Len(s) + 1] = c
<1> DEFINE t == s \o <<c>>
<1>1. /\ t \in Seq(S) /\ Len(t) = Len(s) + 1 /\ t[Len(s) + 1] = c
      /\ \A j \in 1 .. Len(s) : t[j] = s[j]
      /\ Len(s) \in Nat /\ Len(f) \in Nat
  OBVIOUS
<1> HIDE DEF t
<1>2. IsPrefix(t, f) <=> Begins(t, f)
  BY <1>1, BeginsIs
<1>3. ASSUME Begins(t, f) PROVE Begins(s, f) /\ Len(s) < Len(f) /\ f[Len(s) + 1] = c
  <2>1. Len(s) + 1 \in 1 .. Len(t) /\ \A j \in 1 .. Len(s) : j \in 1 .. Len(t)
    BY <1>1
  <2>2. QED
    BY <1>1, <1>3, <2>1 DEF Begins
<1>4. ASSUME Begins(s, f), Len(s) < Len(f), f[Len(s) + 1] = c PROVE Begins(t, f)
  <2>1. \A j \in 1 .. Len(t) : j = Len(s) + 1 \/ j \in 1 .. Len(s)
    BY <1>1
  <2>2. \A j \in 1 .. Len(s) : f[j] = s[j]
    BY <1>4 DEF Begins
  <2>3. \A j \in 1 .. Len(t) : f[j] = t[j]
    BY <1>1, <1>4, <2>1, <2>2
  <2>4. QED
    BY <1>1, <1>4, <2>3 DEF Begins
<1>5. QED
  BY <1>2, <1>3, <1>4 DEF t

(* What is spelled behind the operation.                                   *)
Rest(f, k) == SubSeq(f, k + 1, Len(f))

LEMMA RestIs ==
    ASSUME NEW f \in Seq(Lexeme), NEW k \in 0 .. Len(f)
    PROVE  /\ Rest(f, k) \in Seq(Lexeme) /\ Len(Rest(f, k)) = Len(f) - k
           /\ \A j \in 1 .. Len(f) - k : Rest(f, k)[j] = f[k + j]
<1>1. Len(f) \in Nat /\ k \in Nat /\ k <= Len(f)
  OBVIOUS
<1>2. \A i_ \in k + 1 .. Len(f) : f[i_] \in Lexeme
  BY <1>1
<1>3. k + 1 \in Int /\ Len(f) \in Int
  BY <1>1
<1> DEFINE t == SubSeq(f, k + 1, Len(f))
<1>4. /\ t \in Seq(Lexeme) /\ Len(t) = IF k + 1 <= Len(f) THEN Len(f) - (k + 1) + 1 ELSE 0
      /\ \A j \in 1 .. Len(f) - (k + 1) + 1 : t[j] = f[(k + 1) + j - 1]
  BY <1>2, <1>3, SubSeqProperties
<1> HIDE DEF t
<1>5. Len(f) - (k + 1) + 1 = Len(f) - k /\ \A j \in 1 .. Len(f) - k : (k + 1) + j - 1 = k + j
  BY <1>1
<1>6. Len(t) = Len(f) - k
  BY <1>1, <1>4
<1>7. \A j \in 1 .. Len(f) - k : t[j] = f[k + j]
  BY <1>4, <1>5
<1>8. QED
  BY <1>4, <1>6, <1>7 DEF Rest, t

SpeltArguments(op, f) == ArgumentsIn(ArgKind[op], Rest(f, Len(Spelled(op)) + 1))

LEMMA InstructionsAre ==
    ASSUME NEW f \in Seq(Lexeme), NEW op \in Operations, Begins(Spelled(op), f)
    PROVE  /\ ArgKind[op] = "none" =>
                 InstructionsIn(f) = IF Len(f) = Len(Spelled(op)) THEN {[op |-> op, arg |-> 0]} ELSE {}
           /\ ArgKind[op] # "none" =>
                 InstructionsIn(f) =
                    IF Len(Spelled(op)) < Len(f) /\ f[Len(Spelled(op)) + 1] = " "
                    THEN {[op |-> op, arg |-> x] : x \in SpeltArguments(op, f)}
                    ELSE {}
<1> DEFINE Spells(o) == f = Spelled(o)
           SpellsMore(o) == IsPrefix(Spelled(o) \o <<" ">>, f)
           Plains == {o \in Operations : ArgKind[o] = "none" /\ Spells(o)}
           Others == {o \in Operations : ArgKind[o] # "none" /\ SpellsMore(o)}
           Of(o) == {[op |-> o, arg |-> x] :
                        x \in ArgumentsIn(ArgKind[o], SubSeq(f, Len(Spelled(o)) + 2, Len(f)))}
<1>1. InstructionsIn(f) = {[op |-> o, arg |-> 0] : o \in Plains} \union UNION {Of(o) : o \in Others}
  BY Zenon DEF InstructionsIn
<1>2. \A o \in Operations : (Spells(o) => o = op) /\ (SpellsMore(o) => o = op)
  <2> SUFFICES ASSUME NEW o \in Operations PROVE (Spells(o) => o = op) /\ (SpellsMore(o) => o = op)
    OBVIOUS
  <2> DEFINE c == " "
  <2>1. c \in Lexeme
    BY Zenon DEF Lexeme, Blank
  <2>2. Spelled(o) \in Seq(Lexeme)
    BY SpelledIs
  <2>3. Spells(o) => Begins(Spelled(o), f)
    BY <2>2, BeginsIs
  <2>4. SpellsMore(o) <=> IsPrefix(Spelled(o) \o <<c>>, f)
    BY Zenon
  <2> HIDE DEF c, SpellsMore, Spells
  <2>5. SpellsMore(o) => Begins(Spelled(o), f)
    BY <2>1, <2>2, <2>4, BeginsMore
  <2>6. QED
    BY <2>3, <2>5, BeginsWithOne
<1>3. Spells(op) <=> Len(f) = Len(Spelled(op))
  <2>1. Spelled(op) \in Seq(Lexeme)
    BY SpelledIs
  <2>2. QED
    BY <2>1, BeginsIs
<1>4. SpellsMore(op) <=> Len(Spelled(op)) < Len(f) /\ f[Len(Spelled(op)) + 1] = " "
  <2> DEFINE c == " "
  <2>1. c \in Lexeme
    BY Zenon DEF Lexeme, Blank
  <2>2. Spelled(op) \in Seq(Lexeme)
    BY SpelledIs
  <2>3. SpellsMore(op) <=> IsPrefix(Spelled(op) \o <<c>>, f)
    BY Zenon
  <2> HIDE DEF c, SpellsMore
  <2>4. SpellsMore(op) <=> Len(Spelled(op)) < Len(f) /\ f[Len(Spelled(op)) + 1] = c
    BY <2>1, <2>2, <2>3, BeginsMore
  <2>5. QED
    BY <2>4, Zenon DEF c
<1>5. CASE ArgKind[op] = "none"
  <2>1. Others = {}
    BY <1>2, <1>5
  <2>2. Plains = IF Len(f) = Len(Spelled(op)) THEN {op} ELSE {}
    BY <1>2, <1>3, <1>5
  <2> HIDE DEF Plains, Others, Of
  <2>3. UNION {Of(o) : o \in Others} = {}
    BY <2>1
  <2>4. {[op |-> o, arg |-> 0] : o \in Plains} =
            IF Len(f) = Len(Spelled(op)) THEN {[op |-> op, arg |-> 0]} ELSE {}
    BY <2>2
  <2>5. QED
    BY <1>1, <1>5, <2>3, <2>4, Zenon
<1>6. CASE ArgKind[op] # "none"
  <2>1. Plains = {}
    BY <1>2, <1>6
  <2>2. Others = IF SpellsMore(op) THEN {op} ELSE {}
    BY <1>2, <1>6
  <2> HIDE DEF Plains, Others, Of, SpellsMore
  <2>3. {[op |-> o, arg |-> 0] : o \in Plains} = {}
    BY <2>1
  <2>4. UNION {Of(o) : o \in Others} = IF SpellsMore(op) THEN Of(op) ELSE {}
    BY <2>2
  <2>5. InstructionsIn(f) = IF SpellsMore(op) THEN Of(op) ELSE {}
    BY <1>1, <2>3, <2>4
  <2>6. ArgumentsIn(ArgKind[op], SubSeq(f, Len(Spelled(op)) + 2, Len(f))) = SpeltArguments(op, f)
    <3>1. Len(Spelled(op)) \in {1, 3}
      BY SpelledIs
    <3>2. Len(Spelled(op)) + 2 = (Len(Spelled(op)) + 1) + 1
      BY <3>1
    <3>3. QED
      BY <3>2, Zenon DEF SpeltArguments, Rest
  <2>7. Of(op) = {[op |-> op, arg |-> x] : x \in SpeltArguments(op, f)}
    BY <2>6, Zenon DEF Of
  <2>8. QED
    BY <1>4, <1>6, <2>5, <2>7, Zenon
<1>7. QED
  BY <1>5, <1>6

LEMMA NoInstruction ==
    ASSUME NEW f \in Seq(Lexeme), \A op \in Operations : ~Begins(Spelled(op), f)
    PROVE  InstructionsIn(f) = {}
<1> DEFINE c == " "
           Of(op) == {[op |-> op, arg |-> x] :
                          x \in ArgumentsIn(ArgKind[op], SubSeq(f, Len(Spelled(op)) + 2, Len(f)))}
           SpellsMore(op) == IsPrefix(Spelled(op) \o <<c>>, f)
           Plains == {op \in Operations : ArgKind[op] = "none" /\ f = Spelled(op)}
           Others == {op \in Operations : ArgKind[op] # "none" /\ SpellsMore(op)}
<1>1. c \in Lexeme
  BY Zenon DEF Lexeme, Blank
<1>2. InstructionsIn(f) = {[op |-> op, arg |-> 0] : op \in Plains} \union UNION {Of(op) : op \in Others}
  BY Zenon DEF InstructionsIn
<1> HIDE DEF c
<1>3. ASSUME NEW op \in Operations PROVE f # Spelled(op) /\ ~SpellsMore(op)
  <2>1. Spelled(op) \in Seq(Lexeme)
    BY SpelledIs
  <2>2. QED
    BY <1>1, <2>1, BeginsIs, BeginsMore
<1> HIDE DEF SpellsMore
<1>4. Plains = {} /\ Others = {}
  BY <1>3
<1> HIDE DEF Plains, Others, Of
<1>5. QED
  BY <1>2, <1>4

-----------------------------------------------------------------------------
(* The numbers read are those that are spelled.                            *)

LEMMA ValueIs ==
    /\ \A n \in Numbers : ToString(n) \in Numeral /\ Value[ToString(n)] = n
    /\ \A s \in Numeral : Value[s] \in Numbers /\ ToString(Value[s]) = s
    /\ Numbers \subseteq Nat
<1>1. Numeral = {ToString(n) : n \in Numbers}
  BY DEF Numeral, Value
<1>2. ASSUME NEW s \in Numeral PROVE Value[s] \in Numbers /\ ToString(Value[s]) = s
  <2>1. PICK n \in Numbers : ToString(n) = s
    BY <1>1
  <2>2. Value[s] = CHOOSE m \in Numbers : ToString(m) = s
    BY <1>1 DEF Value
  <2>3. QED
    BY <2>1, <2>2, Zenon
<1>3. ASSUME NEW n \in Numbers PROVE ToString(n) \in Numeral /\ Value[ToString(n)] = n
  <2>1. ToString(n) \in Numeral
    BY <1>1
  <2>2. Value[ToString(n)] \in Numbers /\ ToString(Value[ToString(n)]) = ToString(n)
    BY <1>2, <2>1
  <2>3. QED
    BY <2>1, <2>2, NumeralAssumption, Zenon
<1>4. QED
  BY <1>2, <1>3, AssemblerAssumption

LEMMA SignsAreNoNumerals ==
    /\ "+" \notin Numeral /\ "-" \notin Numeral /\ "%" \notin Numeral /\ ":" \notin Numeral
    /\ "+" \notin Blank /\ "-" \notin Blank /\ Numeral \intersect Blank = {}
    /\ \A x \in Numeral \union Sign : Plain(x) /\ ~Stop(x)
<1>1. "+" \in Symbol /\ "-" \in Symbol /\ "%" \in Symbol /\ ":" \in Symbol /\ " " \in Symbol
      /\ "\n" \in Symbol /\ "end" \in Symbol
  BY Zenon DEF Symbol
<1>2. "+" \notin Numeral /\ "-" \notin Numeral /\ "%" \notin Numeral /\ ":" \notin Numeral
      /\ " " \notin Numeral /\ "\n" \notin Numeral /\ "end" \notin Numeral
  BY <1>1, NumeralAssumption
<1>3. "+" \notin Blank /\ "-" \notin Blank /\ Numeral \intersect Blank = {}
  <2>1. "+" # " " /\ "-" # " "
    BY Zenon
  <2>2. QED
    BY <1>2, <2>1, Zenon DEF Blank
<1>4. \A x \in Sign : Plain(x) /\ ~Stop(x)
  <2>1. "+" # "\n" /\ "-" # "\n" /\ "+" # "end" /\ "-" # "end"
    BY Zenon
  <2>2. QED
    BY <1>3, <2>1, Zenon DEF Sign, Plain, Stop, IsBreak
<1>5. \A x \in Numeral : Plain(x) /\ ~Stop(x)
  BY <1>2, <1>3, Zenon DEF Plain, Stop, IsBreak
<1>6. QED
  BY <1>2, <1>3, <1>4, <1>5

LEMMA IntegersAre ==
    ASSUME NEW z \in Seq(Lexeme)
    PROVE  /\ Len(z) = 1 /\ z[1] \in Numeral => IntegersIn(z) = {Value[z[1]]}
           /\ Len(z) = 2 /\ z[1] = "+" /\ z[2] \in Numeral => IntegersIn(z) = {Value[z[2]]}
           /\ Len(z) = 2 /\ z[1] = "-" /\ z[2] \in Numeral => IntegersIn(z) = {-Value[z[2]]}
           /\ ~(Len(z) = 1 /\ z[1] \in Numeral) /\ ~(Len(z) = 2 /\ z[1] \in Sign /\ z[2] \in Numeral) =>
                 IntegersIn(z) = {}
<1> DEFINE One(n) == z = <<ToString(n)>>
           Plus(n) == z = <<"+", ToString(n)>>
           Minus(n) == z = <<"-", ToString(n)>>
           A == {n \in Numbers : One(n) \/ Plus(n)}
           B == {n \in Numbers : Minus(n)}
<1>1. \A x : z = <<x>> <=> Len(z) = 1 /\ z[1] = x
  OBVIOUS
<1>2. \A x, y : z = <<x, y>> <=> Len(z) = 2 /\ z[1] = x /\ z[2] = y
  OBVIOUS
<1>3. \A n : /\ One(n) <=> Len(z) = 1 /\ z[1] = ToString(n)
             /\ Plus(n) <=> Len(z) = 2 /\ z[1] = "+" /\ z[2] = ToString(n)
             /\ Minus(n) <=> Len(z) = 2 /\ z[1] = "-" /\ z[2] = ToString(n)
  BY <1>1, <1>2
<1>4. IntegersIn(z) = A \union {-n : n \in B}
  <2>1. \A n : z \in {<<ToString(n)>>, <<"+", ToString(n)>>} <=> One(n) \/ Plus(n)
    BY Zenon
  <2>2. {n \in Numbers : z \in {<<ToString(n)>>, <<"+", ToString(n)>>}} = A
    BY <2>1, Zenon
  <2>3. QED
    BY <2>2, Zenon DEF IntegersIn
<1> HIDE DEF One, Plus, Minus
<1>5. CASE Len(z) = 1 /\ z[1] \in Numeral
  <2>1. A = {Value[z[1]]} /\ B = {}
    BY <1>3, <1>5, ValueIs
  <2> HIDE DEF A, B
  <2>2. IntegersIn(z) = {Value[z[1]]}
    BY <1>4, <2>1
  <2>3. Len(z) # 2
    BY <1>5
  <2>4. QED
    BY <1>5, <2>2, <2>3
<1>6. CASE Len(z) = 2 /\ z[1] = "+" /\ z[2] \in Numeral
  <2>1. A = {Value[z[2]]} /\ B = {}
    BY <1>3, <1>6, ValueIs
  <2> HIDE DEF A, B
  <2>2. IntegersIn(z) = {Value[z[2]]}
    BY <1>4, <2>1
  <2>3. Len(z) # 1 /\ z[1] # "-" /\ z[1] \in Sign
    BY <1>6 DEF Sign
  <2>4. QED
    BY <1>6, <2>2, <2>3
<1>7. CASE Len(z) = 2 /\ z[1] = "-" /\ z[2] \in Numeral
  <2>1. A = {} /\ B = {Value[z[2]]}
    BY <1>3, <1>7, ValueIs
  <2> HIDE DEF A, B
  <2>2. IntegersIn(z) = {-Value[z[2]]}
    BY <1>4, <2>1
  <2>3. Len(z) # 1 /\ z[1] # "+" /\ z[1] \in Sign
    BY <1>7 DEF Sign
  <2>4. QED
    BY <1>7, <2>2, <2>3
<1>8. CASE ~(Len(z) = 1 /\ z[1] \in Numeral) /\ ~(Len(z) = 2 /\ z[1] \in Sign /\ z[2] \in Numeral)
  <2>1. A = {} /\ B = {}
    BY <1>3, <1>8, ValueIs DEF Sign
  <2> HIDE DEF A, B
  <2>2. IntegersIn(z) = {}
    BY <1>4, <2>1
  <2>3. "+" \in Sign /\ "-" \in Sign
    BY DEF Sign
  <2>4. QED
    BY <1>8, <2>2, <2>3
<1>9. z[1] \in Sign <=> z[1] = "+" \/ z[1] = "-"
  BY DEF Sign
<1>10. QED
  BY <1>5, <1>6, <1>7, <1>8, <1>9

(* One lexeme more, that is no blank.                                      *)
LEMMA OneMoreLexeme ==
    ASSUME Legible, NEW p \in 0 .. Len(text), Plain(LexemeAt(p)), LexemeAt(p) # "end",
           NEW f, f = Lines[LineAt(p)], NEW k, k = Len(Seen(p))
    PROVE  /\ p + 1 \in 0 .. Len(text) /\ LineAt(p + 1) = LineAt(p) /\ f \in Seq(Lexeme)
           /\ k \in Nat /\ k < Len(f) /\ f[k + 1] = LexemeAt(p)
           /\ Seen(p + 1) \in Seq(Lexeme) /\ Len(Seen(p + 1)) = k + 1 /\ Full(Seen(p + 1))
           /\ Begins(Seen(p), Seen(p + 1)) /\ Seen(p + 1)[k + 1] = LexemeAt(p)
           /\ Begins(Seen(p + 1), f)
           /\ Ends(p + 1) => f = Seen(p + 1)
           /\ ~Ends(p + 1) => k + 1 < Len(f) /\ f[k + 2] = LexemeAt(p + 1)
<1> DEFINE x == LexemeAt(p)
           l == Seen(p)
           t == Seen(p + 1)
<1>1. p \in 0 .. Len(text) - 1 /\ x \in Lexeme /\ x \notin Blank /\ p + 1 \in 0 .. Len(text)
  BY EndIsLast DEF Plain
<1>2. LineAt(p + 1) = LineAt(p) /\ t = Append(l, x)
  BY <1>1, PlainIsRead DEF Legible
<1>3. l \in Seq(Lexeme) /\ k \in Nat /\ Len(l) = k
  BY LinesAre DEF Legible
<1>4. f \in Seq(Lexeme) /\ Len(f) \in Nat
  BY TheLines
<1> HIDE DEF x, l, t
<1>5. /\ t \in Seq(Lexeme) /\ t # << >> /\ Len(t) = k + 1 /\ t[k + 1] = x
      /\ \A j \in 1 .. k : t[j] = l[j]
  BY <1>1, <1>2, <1>3, AppendProperties
<1>6. Full(t) /\ Begins(l, t)
  <2>1. t[Len(t)] = x
    BY <1>5
  <2>2. Begins(l, t)
    BY <1>3, <1>5 DEF Begins
  <2>3. QED
    BY <1>1, <1>5, <2>1, <2>2, Zenon DEF Full, Last
<1>7. Ends(p + 1) => f = t
  BY <1>1, <1>2, <1>6, LineEnds DEF t
<1>8. ~Ends(p + 1) => /\ Begins(t, f) /\ k + 1 < Len(f) /\ f[(k + 1) + 1] = LexemeAt(p + 1)
  BY <1>1, <1>2, <1>5, <1>6, LineGoesOn DEF t
<1>9. Begins(t, f)
  <2>1. Begins(t, t)
    BY <1>5 DEF Begins
  <2>2. QED
    BY <1>7, <1>8, <2>1
<1>10. k < Len(f) /\ f[k + 1] = x
  <2>1. k + 1 \in 1 .. Len(t)
    BY <1>3, <1>5
  <2>2. k + 1 <= Len(f) /\ f[k + 1] = t[k + 1]
    BY <1>5, <1>9, <2>1 DEF Begins
  <2>3. QED
    BY <1>3, <1>4, <1>5, <2>2
<1>11. (k + 1) + 1 = k + 2
  BY <1>3
<1>12. QED
  BY <1>1, <1>2, <1>3, <1>4, <1>5, <1>6, <1>7, <1>8, <1>9, <1>10, <1>11 DEF x, l, t

(* An argument ends where the line goes on.                                *)
Reaches(p, q) ==
    q \in 0 .. Len(text) /\ LineAt(q) = LineAt(p) /\ Full(Seen(q)) /\ Len(Seen(p)) < Len(Seen(q))

LEMMA NumbersRead ==
    ASSUME Legible, NEW p \in 0 .. Len(text), NEW f, f = Lines[LineAt(p)], NEW k, k = Len(Seen(p)),
           Full(Seen(p)) \/ (~Ends(p) /\ LexemeAt(p) \notin Blank), NEW z, z = Rest(f, k)
    PROVE  \/ NumbersAt(p) = {} /\ IntegersIn(z) = {}
           \/ \E a : /\ NumbersAt(p) = {a} /\ a.x \in Int /\ Reaches(p, a.end)
                     /\ IntegersIn(z) = IF Ends(a.end) THEN {a.x} ELSE {}
<1> DEFINE c == LexemeAt(p)
           d == LexemeAt(p + 1)
<1>1. Len(text) \in Nat /\ p \in Nat /\ f \in Seq(Lexeme) /\ Len(f) \in Nat /\ k \in Nat
  BY EndIsLast, TheLines, LinesAre DEF Legible
<1>2. CASE c \notin Numeral \union Sign
  <2>1. NumbersAt(p) = {}
    BY <1>2, Zenon DEF NumbersAt
  <2>2. CASE Ends(p)
    <3>1. SkipSeparator(p) = p \/ LexemeAt(p) \in Blank
      BY Skipping
    <3>2. Full(Seen(p)) /\ f = Seen(p)
      BY <2>2, LineEnds
    <3>3. z \in Seq(Lexeme) /\ Len(z) = 0
      <4>1. k \in 0 .. Len(f) /\ Len(f) - k = 0
        BY <1>1, <3>2
      <4>2. QED
        BY <1>1, <4>1, RestIs
    <3>4. IntegersIn(z) = {}
      BY <3>3, IntegersAre
    <3>5. QED
      BY <2>1, <3>4
  <2>3. CASE ~Ends(p)
    <3>1. k < Len(f) /\ f[k + 1] = c
      BY <2>3, LineGoesOn
    <3>2. k \in 0 .. Len(f) /\ 1 \in 1 .. Len(f) - k
      BY <1>1, <3>1
    <3>3. z \in Seq(Lexeme) /\ z[1] = c
      BY <1>1, <3>1, <3>2, RestIs
    <3>4. IntegersIn(z) = {}
      BY <1>2, <3>3, IntegersAre
    <3>5. QED
      BY <2>1, <3>4
  <2>4. QED
    BY <2>2, <2>3
<1>3. ASSUME c \in Numeral \union Sign
      PROVE  /\ Plain(c) /\ c # "end"
             /\ k < Len(f) /\ f[k + 1] = c /\ k \in 0 .. Len(f)
             /\ Reaches(p, p + 1) /\ Len(Seen(p + 1)) = k + 1
             /\ z \in Seq(Lexeme) /\ Len(z) = Len(f) - k /\ z[1] = c
             /\ \A j \in 1 .. Len(f) - k : z[j] = f[k + j]
             /\ Ends(p + 1) => Len(z) = 1
             /\ ~Ends(p + 1) => Len(z) > 1 /\ z[2] = d
  <2>1. Plain(c) /\ ~Stop(c)
    BY <1>3, SignsAreNoNumerals
  <2>2. c # "end"
    BY <2>1 DEF Stop
  <2> HIDE DEF c, d
  <2>3. /\ p + 1 \in 0 .. Len(text) /\ LineAt(p + 1) = LineAt(p)
        /\ k < Len(f) /\ f[k + 1] = c
        /\ Len(Seen(p + 1)) = k + 1 /\ Full(Seen(p + 1))
        /\ Ends(p + 1) => f = Seen(p + 1)
        /\ ~Ends(p + 1) => k + 1 < Len(f) /\ f[k + 2] = d
    BY <2>1, <2>2, OneMoreLexeme DEF c, d
  <2>4. Reaches(p, p + 1)
    BY <1>1, <2>3 DEF Reaches
  <2>5. k \in 0 .. Len(f) /\ 1 \in 1 .. Len(f) - k
    BY <1>1, <2>3
  <2>6. z \in Seq(Lexeme) /\ Len(z) = Len(f) - k /\ \A j \in 1 .. Len(f) - k : z[j] = f[k + j]
    BY <1>1, <2>5, RestIs
  <2>7. z[1] = c
    BY <2>3, <2>5, <2>6
  <2>8. Ends(p + 1) => Len(z) = 1
    BY <1>1, <2>3, <2>6
  <2>9. ~Ends(p + 1) => Len(z) > 1 /\ z[2] = d
    <3>1. ~Ends(p + 1) => 2 \in 1 .. Len(f) - k
      BY <1>1, <2>3
    <3>2. QED
      BY <1>1, <2>3, <2>6, <3>1
  <2>10. QED
    BY <2>1, <2>2, <2>3, <2>4, <2>5, <2>6, <2>7, <2>8, <2>9
<1>4. CASE c \in Numeral
  <2> DEFINE a == Argument(Value[c], p + 1)
  <2>1. c \notin Sign /\ c # "-"
    BY <1>4, SignsAreNoNumerals, Zenon DEF Sign
  <2>2. Value[c] \in Nat
    BY <1>4, ValueIs
  <2>3. NumbersAt(p) = {a}
    <3>1. NumbersAt(p) = {Argument(1 * Value[c], p + 1)}
      BY <1>4, <2>1, Zenon DEF NumbersAt
    <3>2. 1 * Value[c] = Value[c]
      BY <2>2
    <3>3. QED
      BY <3>1, <3>2
  <2>4. a.x = Value[c] /\ a.end = p + 1
    BY DEF Argument
  <2> HIDE DEF a, c, d
  <2>5. IntegersIn(z) = IF Ends(p + 1) THEN {Value[c]} ELSE {}
    <3>1. CASE Ends(p + 1)
      BY <1>3, <1>4, <3>1, IntegersAre
    <3>2. CASE ~Ends(p + 1)
      BY <1>3, <1>4, <2>1, <3>2, IntegersAre
    <3>3. QED
      BY <3>1, <3>2
  <2>6. /\ NumbersAt(p) = {a} /\ a.x \in Int /\ Reaches(p, a.end)
        /\ IntegersIn(z) = IF Ends(a.end) THEN {a.x} ELSE {}
    BY <1>3, <1>4, <2>2, <2>3, <2>4, <2>5
  <2>7. QED
    BY <2>6
<1>5. CASE c \in Sign /\ d \in Numeral
  <2> DEFINE n == IF c = "-" THEN -Value[d] ELSE Value[d]
             a == Argument(n, p + 2)
  <2>1. Plain(d) /\ d # "end"
    BY <1>5, SignsAreNoNumerals DEF Stop
  <2>2. Value[d] \in Nat
    BY <1>5, ValueIs
  <2>3. NumbersAt(p) = {a}
    <3> DEFINE factor == IF c = "-" THEN -1 ELSE 1
    <3>1. NumbersAt(p) = {Argument(factor * Value[d], (p + 1) + 1)}
      BY <1>5, Zenon DEF NumbersAt
    <3>2. factor * Value[d] = n /\ (p + 1) + 1 = p + 2
      BY <1>1, <2>2
    <3>3. QED
      BY <3>1, <3>2
  <2>4. a.x = n /\ a.end = p + 2 /\ n \in Int
    BY <2>2 DEF Argument
  <2>5. p + 1 \in 0 .. Len(text) /\ LineAt(p + 1) = LineAt(p) /\ Len(Seen(p + 1)) = k + 1
    BY <1>3, <1>5 DEF Reaches
  <2>6. (p + 1) + 1 = p + 2 /\ (k + 1) + 1 = k + 2
    BY <1>1
  <2>7. /\ p + 2 \in 0 .. Len(text) /\ LineAt(p + 2) = LineAt(p)
        /\ Len(Seen(p + 2)) = k + 2 /\ Full(Seen(p + 2))
        /\ k + 1 < Len(f) /\ f[k + 2] = d
        /\ Ends(p + 2) => f = Seen(p + 2)
        /\ ~Ends(p + 2) => k + 2 < Len(f)
    <3> DEFINE q == p + 1
    <3>1. q \in 0 .. Len(text) /\ f = Lines[LineAt(q)] /\ k + 1 = Len(Seen(q)) /\ d = LexemeAt(q)
      BY <2>5
    <3> HIDE DEF q, d
    <3>2. /\ q + 1 \in 0 .. Len(text) /\ LineAt(q + 1) = LineAt(q)
          /\ Len(Seen(q + 1)) = (k + 1) + 1 /\ Full(Seen(q + 1))
          /\ k + 1 < Len(f) /\ f[(k + 1) + 1] = d
          /\ Ends(q + 1) => f = Seen(q + 1)
          /\ ~Ends(q + 1) => (k + 1) + 1 < Len(f)
      BY <2>1, <3>1, OneMoreLexeme
    <3>3. q + 1 = p + 2 /\ LineAt(q) = LineAt(p)
      BY <2>5, <2>6 DEF q
    <3>4. QED
      BY <2>6, <3>2, <3>3
  <2> HIDE DEF c, d
  <2>8. Reaches(p, p + 2)
    BY <1>1, <2>7 DEF Reaches
  <2>9. /\ z \in Seq(Lexeme) /\ Len(z) = Len(f) - k /\ z[1] = c /\ z[2] = d
        /\ Len(z) = 2 <=> Ends(p + 2)
    <3>1. z \in Seq(Lexeme) /\ Len(z) = Len(f) - k /\ z[1] = c /\ \A j \in 1 .. Len(f) - k : z[j] = f[k + j]
      BY <1>3, <1>5
    <3>2. 2 \in 1 .. Len(f) - k
      BY <1>1, <2>7
    <3>3. z[2] = d
      BY <2>7, <3>1, <3>2
    <3>4. Len(z) = 2 <=> Ends(p + 2)
      BY <1>1, <2>7, <3>1
    <3>5. QED
      BY <3>1, <3>3, <3>4
  <2>10. IntegersIn(z) = IF Ends(p + 2) THEN {n} ELSE {}
    <3>1. CASE Ends(p + 2) /\ c = "-"
      BY <1>5, <2>9, <3>1, IntegersAre
    <3>2. CASE Ends(p + 2) /\ c # "-"
      <4>1. c = "+"
        BY <1>5, <3>2 DEF Sign
      <4>2. QED
        BY <1>5, <2>9, <3>2, <4>1, IntegersAre
    <3>3. CASE ~Ends(p + 2)
      <4>1. z[1] \notin Numeral
        BY <1>5, <2>9, SignsAreNoNumerals DEF Sign
      <4>2. QED
        BY <2>9, <3>3, <4>1, IntegersAre
    <3>4. QED
      BY <3>1, <3>2, <3>3
  <2> HIDE DEF a, n
  <2>11. /\ NumbersAt(p) = {a} /\ a.x \in Int /\ Reaches(p, a.end)
         /\ IntegersIn(z) = IF Ends(a.end) THEN {a.x} ELSE {}
    BY <2>3, <2>4, <2>8, <2>10
  <2>12. QED
    BY <2>11
<1>6. CASE c \in Sign /\ d \notin Numeral
  <2>1. NumbersAt(p) = {}
    BY <1>6, Zenon DEF NumbersAt
  <2>2. z[1] \notin Numeral
    BY <1>3, <1>6, SignsAreNoNumerals DEF Sign
  <2> HIDE DEF c, d
  <2>3. IntegersIn(z) = {}
    <3>1. CASE Ends(p + 1)
      <4>1. z \in Seq(Lexeme) /\ Len(z) = 1
        BY <1>3, <1>6, <3>1
      <4>2. QED
        BY <2>2, <4>1, IntegersAre
    <3>2. CASE ~Ends(p + 1)
      <4>1. z \in Seq(Lexeme) /\ z[2] = d
        BY <1>3, <1>6, <3>2
      <4>2. QED
        BY <1>6, <2>2, <4>1, IntegersAre
    <3>3. QED
      BY <3>1, <3>2
  <2>4. QED
    BY <2>1, <2>3
<1>7. QED
  BY <1>2, <1>4, <1>5, <1>6, Zenon

-----------------------------------------------------------------------------
(* The arguments read are those that are spelled.                          *)

LEMMA ImmediatesRead ==
    ASSUME Legible, NEW p \in 0 .. Len(text), NEW f, f = Lines[LineAt(p)], NEW k, k = Len(Seen(p)),
           Full(Seen(p)) \/ (~Ends(p) /\ LexemeAt(p) \notin Blank), NEW z, z = Rest(f, k)
    PROVE  \/ Immediates(p) = {} /\ IntegersIn(z) \intersect Byteword = {}
           \/ \E a : /\ Immediates(p) = {a} /\ Reaches(p, a.end)
                     /\ IntegersIn(z) \intersect Byteword = IF Ends(a.end) THEN {a.x} ELSE {}
<1>1. CASE NumbersAt(p) = {} /\ IntegersIn(z) = {}
  BY <1>1 DEF Immediates, InRange
<1>2. ASSUME NEW a, NumbersAt(p) = {a}, a.x \in Int, Reaches(p, a.end),
             IntegersIn(z) = IF Ends(a.end) THEN {a.x} ELSE {}
      PROVE  \/ Immediates(p) = {} /\ IntegersIn(z) \intersect Byteword = {}
             \/ /\ Immediates(p) = {a} /\ Reaches(p, a.end)
                /\ IntegersIn(z) \intersect Byteword = IF Ends(a.end) THEN {a.x} ELSE {}
  <2>1. Immediates(p) = {b \in {a} : 0 <= b.x /\ b.x <= Base - 1}
    BY <1>2 DEF Immediates, InRange
  <2>2. a.x \in Byteword <=> 0 <= a.x /\ a.x <= Base - 1
    BY <1>2, Constants DEF Byteword
  <2>3. CASE a.x \in Byteword
    BY <1>2, <2>1, <2>2, <2>3
  <2>4. CASE a.x \notin Byteword
    BY <1>2, <2>1, <2>2, <2>4
  <2>5. QED
    BY <2>3, <2>4
<1>3. QED
  BY <1>1, <1>2, NumbersRead

LEMMA SignedRead ==
    ASSUME Legible, NEW p \in 0 .. Len(text), NEW f, f = Lines[LineAt(p)], NEW k, k = Len(Seen(p)),
           ~Ends(p), LexemeAt(p) \notin Blank, NEW z, z = Rest(f, k)
    PROVE  \/ Signed(p) = {} /\ ArgumentsIn("imw", z) = {}
           \/ \E a : /\ Signed(p) = {a} /\ Reaches(p, a.end)
                     /\ ArgumentsIn("imw", z) = IF Ends(a.end) THEN {a.x} ELSE {}
<1> DEFINE P == Base ^ WordLen
           h == P \div 2
           Words(N) == {n % P : n \in {m \in N : -P <= 2 * m /\ 2 * m < P}}
<1>1. P \in Nat /\ P % 2 = 0
  BY PowersArePositive, WordAssumption, Constants
<1>2. Signed(p) = {Argument(a.x % P, a.end) : a \in InRange(NumbersAt(p), -h, h - 1)}
  BY Zenon DEF Signed
<1>3. ArgumentsIn("imw", z) = Words(IntegersIn(z))
  BY DEF ArgumentsIn
<1> HIDE DEF P
<1>4. h \in Nat /\ P = 2 * h
  <2>1. \A n \in Nat : n % 2 = 0 => n \div 2 \in Nat /\ n = 2 * (n \div 2)
    OBVIOUS
  <2>2. QED
    BY <1>1, <2>1
<1> HIDE DEF h
<1>5. \A m \in Int : -P <= 2 * m /\ 2 * m < P <=> -h <= m /\ m <= h - 1
  BY <1>4
<1>6. CASE NumbersAt(p) = {} /\ IntegersIn(z) = {}
  BY <1>2, <1>3, <1>6 DEF InRange
<1>7. ASSUME NEW b, NumbersAt(p) = {b}, b.x \in Int, Reaches(p, b.end),
             IntegersIn(z) = IF Ends(b.end) THEN {b.x} ELSE {}
      PROVE  \/ Signed(p) = {} /\ ArgumentsIn("imw", z) = {}
             \/ \E a : /\ Signed(p) = {a} /\ Reaches(p, a.end)
                       /\ ArgumentsIn("imw", z) = IF Ends(a.end) THEN {a.x} ELSE {}
  <2> DEFINE fits == -h <= b.x /\ b.x <= h - 1
             a == Argument(b.x % P, b.end)
  <2>1. InRange(NumbersAt(p), -h, h - 1) = IF fits THEN {b} ELSE {}
    BY <1>7 DEF InRange
  <2>2. Words(IntegersIn(z)) = IF fits /\ Ends(b.end) THEN {b.x % P} ELSE {}
    BY <1>5, <1>7
  <2>3. a.x = b.x % P /\ a.end = b.end
    BY DEF Argument
  <2> HIDE DEF Words
  <2>4. CASE fits
    <3>1. Signed(p) = {a}
      BY <1>2, <2>1, <2>4
    <3> HIDE DEF a, fits
    <3>2. ArgumentsIn("imw", z) = IF Ends(a.end) THEN {a.x} ELSE {}
      BY <1>3, <2>2, <2>3, <2>4
    <3>3. QED
      BY <1>7, <2>3, <3>1, <3>2
  <2>5. CASE ~fits
    BY <1>2, <1>3, <2>1, <2>2, <2>5
  <2>6. QED
    BY <2>4, <2>5
<1>8. QED
  BY <1>6, <1>7, NumbersRead

LEMMA TailIsRest ==
    ASSUME NEW f \in Seq(Lexeme), NEW k \in Nat, k < Len(f)
    PROVE  /\ Rest(f, k) # << >> /\ Head(Rest(f, k)) = f[k + 1]
           /\ Rest(f, k) \in Seq(Lexeme) /\ Tail(Rest(f, k)) = Rest(f, k + 1)
<1> DEFINE z == Rest(f, k)
           y == Rest(f, k + 1)
<1>1. Len(f) \in Nat /\ k \in 0 .. Len(f) /\ k + 1 \in 0 .. Len(f) /\ 1 \in 1 .. Len(f) - k
  OBVIOUS
<1>2. z \in Seq(Lexeme) /\ Len(z) = Len(f) - k /\ \A j \in 1 .. Len(f) - k : z[j] = f[k + j]
  BY <1>1, RestIs
<1>3. /\ y \in Seq(Lexeme) /\ Len(y) = Len(f) - (k + 1)
      /\ \A j \in 1 .. Len(f) - (k + 1) : y[j] = f[(k + 1) + j]
  BY <1>1, RestIs
<1> HIDE DEF z, y
<1>4. z # << >> /\ Head(z) = f[k + 1]
  <2>1. Len(z) # 0 /\ z[1] = f[k + 1]
    BY <1>1, <1>2
  <2>2. QED
    BY <1>2, <2>1
<1>5. /\ Tail(z) \in Seq(Lexeme) /\ Len(Tail(z)) = Len(z) - 1
      /\ \A j \in 1 .. Len(Tail(z)) : Tail(z)[j] = z[j + 1]
  BY <1>2, <1>4, HeadTailProperties
<1>6. Len(Tail(z)) = Len(y) /\ \A j \in 1 .. Len(y) : Tail(z)[j] = y[j]
  <2>1. Len(Tail(z)) = Len(y)
    BY <1>1, <1>2, <1>3, <1>5
  <2> SUFFICES ASSUME NEW j \in 1 .. Len(y) PROVE Tail(z)[j] = y[j]
    BY <2>1
  <2>2. j + 1 \in 1 .. Len(f) - k /\ k + (j + 1) = (k + 1) + j
    BY <1>1, <1>3
  <2>3. QED
    BY <1>2, <1>3, <1>5, <2>1, <2>2
<1>7. Tail(z) = y
  BY <1>3, <1>5, <1>6, SeqEqual
<1>8. QED
  BY <1>2, <1>4, <1>7 DEF z, y

LEMMA PlainColon == Plain("%") /\ Plain(":") /\ "%" # "end" /\ ":" # "end" /\ ~InName(":") /\ ":" \notin Blank
<1>1. "%" # "\n" /\ "%" # " " /\ ":" # "\n" /\ ":" # " " /\ "%" # "end" /\ ":" # "end" /\ ":" # "_"
  BY Zenon
<1>2. ":" \in Symbol
  BY Zenon DEF Symbol
<1>3. ":" \notin Numeral
  BY SignsAreNoNumerals
<1>4. QED
  BY <1>1, <1>2, <1>3, Zenon DEF Plain, IsBreak, Blank, InName, IsLetters

LEMMA VariablesRead ==
    ASSUME Legible, NEW p \in 0 .. Len(text), NEW f, f = Lines[LineAt(p)], NEW k, k = Len(Seen(p)),
           ~Ends(p), LexemeAt(p) \notin Blank, NEW z, z = Rest(f, k)
    PROVE  \/ ArgumentsAt("var", p) = {} /\ ArgumentsIn("var", z) = {}
           \/ \E a : /\ ArgumentsAt("var", p) = {a} /\ Reaches(p, a.end)
                     /\ ArgumentsIn("var", z) = IF Ends(a.end) THEN {a.x} ELSE {}
<1>1. f \in Seq(Lexeme) /\ k \in Nat /\ k < Len(f) /\ f[k + 1] = LexemeAt(p)
  BY LineGoesOn
<1>2. /\ z # << >> /\ Head(z) = LexemeAt(p) /\ z \in Seq(Lexeme) /\ Tail(z) = Rest(f, k + 1)
  BY <1>1, TailIsRest
<1>3. ArgumentsIn("var", z) = IF z # << >> /\ Head(z) = "%" THEN IntegersIn(Tail(z)) \intersect Byteword
                              ELSE {}
  BY DEF ArgumentsIn
<1>4. ArgumentsAt("var", p) = IF LexemeAt(p) = "%" THEN Immediates(p + 1) ELSE {}
  BY DEF ArgumentsAt
<1>5. CASE LexemeAt(p) # "%"
  BY <1>2, <1>3, <1>4, <1>5
<1>6. CASE LexemeAt(p) = "%"
  <2>1. /\ p + 1 \in 0 .. Len(text) /\ LineAt(p + 1) = LineAt(p)
        /\ Len(Seen(p + 1)) = k + 1 /\ Full(Seen(p + 1))
    BY <1>6, PlainColon, OneMoreLexeme
  <2>2. \/ Immediates(p + 1) = {} /\ IntegersIn(Tail(z)) \intersect Byteword = {}
        \/ \E a : /\ Immediates(p + 1) = {a} /\ Reaches(p + 1, a.end)
                  /\ IntegersIn(Tail(z)) \intersect Byteword = IF Ends(a.end) THEN {a.x} ELSE {}
    <3> DEFINE q == p + 1
               y == Rest(f, k + 1)
    <3>1. q \in 0 .. Len(text) /\ f = Lines[LineAt(q)] /\ k + 1 = Len(Seen(q)) /\ Full(Seen(q))
      BY <2>1
    <3>2. Tail(z) = y
      BY <1>2
    <3> HIDE DEF q
    <3>3. \/ Immediates(q) = {} /\ IntegersIn(y) \intersect Byteword = {}
          \/ \E a : /\ Immediates(q) = {a} /\ Reaches(q, a.end)
                    /\ IntegersIn(y) \intersect Byteword = IF Ends(a.end) THEN {a.x} ELSE {}
      BY <3>1, ImmediatesRead
    <3>4. QED
      BY <3>2, <3>3 DEF q
  <2>3. \A q : Reaches(p + 1, q) => Reaches(p, q)
    <3> SUFFICES ASSUME NEW q, Reaches(p + 1, q) PROVE Reaches(p, q)
      OBVIOUS
    <3>1. Seen(q) \in Seq(Lexeme)
      BY LinesAre DEF Reaches, Legible
    <3>2. Len(Seen(q)) \in Nat
      BY <3>1
    <3>3. QED
      BY <1>1, <2>1, <3>2 DEF Reaches
  <2>4. QED
    BY <1>2, <1>3, <1>4, <1>6, <2>2, <2>3
<1>7. QED
  BY <1>5, <1>6

(* A colon and the name behind it.                                         *)
LEMMA ReferencesRead ==
    ASSUME Legible, NEW p \in 0 .. Len(text), LexemeAt(p) = ":",
           NEW f, f = Lines[LineAt(p)], NEW k, k = Len(Seen(p)), NEW z, z = Rest(f, k),
           NEW w, w = NameAt(p + 1), NEW e, e = NameEnd(p + 1)
    PROVE  /\ Reaches(p, e) /\ z \in Seq(Lexeme) /\ w \in Seq(Lexeme)
           /\ IsReference(z) <=> Ends(e) /\ w # << >>
           /\ Ends(e) => Tail(z) = w
<1> DEFINE q == p + 1
           y == Rest(f, k + 1)
<1>1. /\ q \in 0 .. Len(text) /\ LineAt(q) = LineAt(p) /\ f \in Seq(Lexeme)
      /\ k \in Nat /\ k < Len(f) /\ f[k + 1] = ":"
      /\ Seen(q) \in Seq(Lexeme) /\ Len(Seen(q)) = k + 1 /\ Full(Seen(q))
  BY PlainColon, OneMoreLexeme
<1>2. /\ z # << >> /\ Head(z) = ":" /\ z \in Seq(Lexeme) /\ Tail(z) = y
  BY <1>1, TailIsRest
<1>3. w = NameAt(q) /\ e = NameEnd(q)
  OBVIOUS
<1>4. IsReference(z) <=> IsName(y)
  BY <1>2, Zenon DEF IsReference
<1> HIDE DEF q
<1>5. /\ e \in q .. Len(text) /\ ~InName(LexemeAt(e)) /\ w \in Seq(Lexeme) /\ Len(w) = e - q
      /\ \A j \in 1 .. Len(w) : InName(w[j])
  BY <1>1, <1>3, NameIs DEF Legible
<1>6. LineAt(e) = LineAt(p) /\ Joins(Seen(q), w, Seen(e))
  BY <1>1, <1>3, NameIsRead DEF Legible
<1>7. e \in 0 .. Len(text) /\ Len(w) \in Nat
  BY <1>1, <1>5
<1>8. /\ Seen(e) \in Seq(Lexeme) /\ Len(Seen(e)) = (k + 1) + Len(w)
      /\ \A j \in 1 .. k + 1 : Seen(e)[j] = Seen(q)[j]
      /\ \A j \in 1 .. Len(w) : Seen(e)[(k + 1) + j] = w[j]
  BY <1>1, <1>6 DEF Joins
<1>9. Full(Seen(e))
  <2>1. Seen(e) # << >> /\ Last(Seen(e)) = Seen(e)[Len(Seen(e))]
    BY <1>1, <1>7, <1>8 DEF Last
  <2>2. CASE Len(w) = 0
    <3>1. Last(Seen(e)) = Last(Seen(q))
      BY <1>1, <1>8, <2>1, <2>2 DEF Last
    <3>2. QED
      BY <1>1, <2>1, <3>1 DEF Full
  <2>3. CASE Len(w) # 0
    <3>1. Len(w) \in 1 .. Len(w)
      BY <1>7, <2>3
    <3>2. Last(Seen(e)) = w[Len(w)] /\ InName(w[Len(w)])
      BY <1>5, <1>8, <2>1, <3>1
    <3>3. QED
      BY <2>1, <3>2, NamesArePlain DEF Full, Plain
  <2>4. QED
    BY <2>2, <2>3
<1>10. Reaches(p, e)
  BY <1>1, <1>6, <1>7, <1>8, <1>9 DEF Reaches
<1>11. /\ y \in Seq(Lexeme) /\ Len(y) = Len(f) - (k + 1)
       /\ \A j \in 1 .. Len(f) - (k + 1) : y[j] = f[(k + 1) + j]
  <2>1. k + 1 \in 0 .. Len(f)
    BY <1>1
  <2>2. QED
    BY <1>1, <2>1, RestIs
<1> HIDE DEF y
<1>12. CASE Ends(e)
  <2>1. f = Seen(e)
    BY <1>1, <1>6, <1>7, <1>9, <1>12, LineEnds
  <2>2. Len(y) = Len(w) /\ \A j \in 1 .. Len(w) : y[j] = w[j]
    BY <1>1, <1>7, <1>8, <1>11, <2>1
  <2>3. y = w
    BY <1>5, <1>11, <2>2, SeqEqual
  <2>4. IsName(w) <=> w # << >>
    <3>1. DOMAIN w = 1 .. Len(w)
      BY <1>5
    <3>2. QED
      BY <1>5, <3>1 DEF IsName
  <2>5. QED
    BY <1>2, <1>4, <1>5, <1>10, <1>12, <2>3, <2>4
<1>13. CASE ~Ends(e)
  <2>1. Len(Seen(e)) < Len(f) /\ f[Len(Seen(e)) + 1] = LexemeAt(e)
    BY <1>1, <1>6, <1>7, <1>9, <1>13, LineGoesOn
  <2> DEFINE j == Len(w) + 1
  <2>2. j \in 1 .. Len(f) - (k + 1) /\ (k + 1) + j = Len(Seen(e)) + 1 /\ j \in DOMAIN y
    <3>1. Len(f) \in Nat
      BY <1>1
    <3> DEFINE n == Len(w)
    <3>2. Len(Seen(e)) = (k + 1) + n /\ n \in Nat /\ k \in Nat /\ (k + 1) + n < Len(f)
      BY <1>1, <1>7, <1>8, <2>1
    <3>3. j = n + 1
      OBVIOUS
    <3> HIDE DEF n, j
    <3>4. Len(f) \in Nat /\ j \in 1 .. Len(f) - (k + 1) /\ (k + 1) + j = Len(Seen(e)) + 1
      BY <3>1, <3>2, <3>3
    <3>5. DOMAIN y = 1 .. Len(f) - (k + 1)
      BY <1>11
    <3>6. QED
      BY <3>4, <3>5
  <2>3. y[j] = LexemeAt(e)
    BY <1>11, <2>1, <2>2
  <2> HIDE DEF j
  <2>4. ~IsName(y)
    BY <1>5, <2>2, <2>3 DEF IsName
  <2>5. QED
    BY <1>2, <1>4, <1>5, <1>10, <1>13, <2>4
<1>14. QED
  BY <1>12, <1>13

(* What the argument a at p is in a line: names have no symbols there.     *)
Meant(kind, p, a) == IF kind = "loc" THEN NameAt(p + 1) ELSE a.x

LEMMA LocationsRead ==
    ASSUME Legible, NEW p \in 0 .. Len(text), NEW f, f = Lines[LineAt(p)], NEW k, k = Len(Seen(p)),
           ~Ends(p), LexemeAt(p) \notin Blank, NEW z, z = Rest(f, k)
    PROVE  \/ Locations(p) = {} /\ ArgumentsIn("loc", z) = {}
           \/ \E a : /\ Locations(p) = {a} /\ Reaches(p, a.end)
                     /\ a.x = SymbolOf(NameAt(p + 1)) /\ a.end = NameEnd(p + 1)
                     /\ LexemeAt(p) = ":" /\ NameAt(p + 1) # << >>
                     /\ ArgumentsIn("loc", z) = IF Ends(a.end) THEN {NameAt(p + 1)} ELSE {}
<1>1. ArgumentsIn("loc", z) = IF IsReference(z) THEN {Tail(z)} ELSE {}
  BY DEF ArgumentsIn
<1>2. CASE LexemeAt(p) # ":"
  <2>1. f \in Seq(Lexeme) /\ k \in Nat /\ k < Len(f) /\ f[k + 1] = LexemeAt(p)
    BY LineGoesOn
  <2>2. Head(z) # ":"
    BY <1>2, <2>1, TailIsRest
  <2>3. ~IsReference(z)
    BY <2>2, Zenon DEF IsReference
  <2>4. QED
    BY <1>1, <1>2, <2>3 DEF Locations
<1>3. CASE LexemeAt(p) = ":"
  <2> DEFINE w == NameAt(p + 1)
             e == NameEnd(p + 1)
             a == Argument(SymbolOf(w), e)
  <2>1. /\ Reaches(p, e)
        /\ IsReference(z) <=> Ends(e) /\ w # << >>
        /\ Ends(e) => Tail(z) = w
    BY <1>3, ReferencesRead
  <2>2. Locations(p) = IF w # << >> THEN {a} ELSE {}
    BY <1>3, Zenon DEF Locations
  <2>3. a.x = SymbolOf(w) /\ a.end = e
    BY DEF Argument
  <2> HIDE DEF a, w, e
  <2>4. CASE w = << >>
    BY <1>1, <2>1, <2>2, <2>4
  <2>5. CASE w # << >>
    <3>1. ArgumentsIn("loc", z) = IF Ends(e) THEN {w} ELSE {}
      BY <1>1, <2>1, <2>5
    <3>2. /\ Locations(p) = {a} /\ Reaches(p, a.end)
          /\ a.x = SymbolOf(NameAt(p + 1)) /\ a.end = NameEnd(p + 1)
          /\ LexemeAt(p) = ":" /\ NameAt(p + 1) # << >>
          /\ ArgumentsIn("loc", z) = IF Ends(a.end) THEN {NameAt(p + 1)} ELSE {}
      BY <1>3, <2>1, <2>2, <2>3, <2>5, <3>1 DEF w, e
    <3>3. QED
      BY <3>2
  <2>6. QED
    BY <2>4, <2>5
<1>4. QED
  BY <1>2, <1>3

LEMMA ArgumentsRead ==
    ASSUME Legible, NEW p \in 0 .. Len(text), NEW f, f = Lines[LineAt(p)], NEW k, k = Len(Seen(p)),
           ~Ends(p), LexemeAt(p) \notin Blank, NEW z, z = Rest(f, k),
           NEW op \in Operations, ArgKind[op] # "none"
    PROVE  \/ ArgumentsAt(ArgKind[op], p) = {} /\ ArgumentsIn(ArgKind[op], z) = {}
           \/ \E a : /\ ArgumentsAt(ArgKind[op], p) = {a} /\ Reaches(p, a.end)
                     /\ ArgumentsIn(ArgKind[op], z) =
                           IF Ends(a.end) THEN {Meant(ArgKind[op], p, a)} ELSE {}
                     /\ ArgKind[op] = "loc" => a.x = SymbolOf(NameAt(p + 1)) /\ NameAt(p + 1) # << >>
<1> DEFINE kind == ArgKind[op]
           Right == \/ ArgumentsAt(kind, p) = {} /\ ArgumentsIn(kind, z) = {}
                    \/ \E a : /\ ArgumentsAt(kind, p) = {a} /\ Reaches(p, a.end)
                              /\ ArgumentsIn(kind, z) = IF Ends(a.end) THEN {Meant(kind, p, a)} ELSE {}
                              /\ kind = "loc" => a.x = SymbolOf(NameAt(p + 1)) /\ NameAt(p + 1) # << >>
<1>1. kind \in {"imb", "imw", "var", "loc"}
  BY OperationFacts
<1> SUFFICES Right
  OBVIOUS
<1> HIDE DEF kind
<1>2. ASSUME kind # "loc",
             \/ ArgumentsAt(kind, p) = {} /\ ArgumentsIn(kind, z) = {}
             \/ \E a : /\ ArgumentsAt(kind, p) = {a} /\ Reaches(p, a.end)
                       /\ ArgumentsIn(kind, z) = IF Ends(a.end) THEN {a.x} ELSE {}
      PROVE  Right
  BY <1>2, Zenon DEF Meant
<1>3. CASE kind = "imb"
  <2>1. ArgumentsAt(kind, p) = Immediates(p) /\ ArgumentsIn(kind, z) = IntegersIn(z) \intersect Byteword
    BY <1>3 DEF ArgumentsAt, ArgumentsIn
  <2>2. \/ Immediates(p) = {} /\ IntegersIn(z) \intersect Byteword = {}
        \/ \E a : /\ Immediates(p) = {a} /\ Reaches(p, a.end)
                  /\ IntegersIn(z) \intersect Byteword = IF Ends(a.end) THEN {a.x} ELSE {}
    BY ImmediatesRead
  <2>3. QED
    BY <1>2, <1>3, <2>1, <2>2
<1>4. CASE kind = "imw"
  <2>1. ArgumentsAt(kind, p) = Signed(p)
    BY <1>4 DEF ArgumentsAt
  <2>2. QED
    BY <1>2, <1>4, <2>1, SignedRead
<1>5. CASE kind = "var"
  BY <1>2, <1>5, VariablesRead
<1>6. CASE kind = "loc"
  <2>1. ArgumentsAt(kind, p) = Locations(p)
    BY <1>6 DEF ArgumentsAt
  <2>2. \A a : Meant(kind, p, a) = NameAt(p + 1)
    BY <1>6 DEF Meant
  <2>3. ArgumentsIn(kind, z) = ArgumentsIn("loc", z)
    BY <1>6
  <2>4. CASE Locations(p) = {} /\ ArgumentsIn("loc", z) = {}
    BY <2>1, <2>3, <2>4
  <2>5. ASSUME NEW a, Locations(p) = {a}, Reaches(p, a.end), a.x = SymbolOf(NameAt(p + 1)),
               NameAt(p + 1) # << >>,
               ArgumentsIn("loc", z) = IF Ends(a.end) THEN {NameAt(p + 1)} ELSE {}
        PROVE  Right
    <3>1. /\ ArgumentsAt(kind, p) = {a} /\ Reaches(p, a.end)
          /\ ArgumentsIn(kind, z) = IF Ends(a.end) THEN {Meant(kind, p, a)} ELSE {}
          /\ kind = "loc" => a.x = SymbolOf(NameAt(p + 1)) /\ NameAt(p + 1) # << >>
      BY <2>1, <2>2, <2>3, <2>5, Zenon
    <3>2. QED
      BY <3>1, Zenon
  <2> HIDE DEF Right
  <2>6. \/ Locations(p) = {} /\ ArgumentsIn("loc", z) = {}
        \/ \E a : /\ Locations(p) = {a} /\ Reaches(p, a.end)
                  /\ a.x = SymbolOf(NameAt(p + 1)) /\ a.end = NameEnd(p + 1)
                  /\ LexemeAt(p) = ":" /\ NameAt(p + 1) # << >>
                  /\ ArgumentsIn("loc", z) = IF Ends(a.end) THEN {NameAt(p + 1)} ELSE {}
    BY LocationsRead
  <2>7. QED
    BY <2>4, <2>5, <2>6
<1>7. QED
  BY <1>1, <1>3, <1>4, <1>5, <1>6

-----------------------------------------------------------------------------
(* The instructions of lines, one line after the other.                    *)

Spells(lines) == {InstructionIn(lines[k]) : k \in DOMAIN lines}

More(s, l) == IF IsInstruction(l) THEN Append(s, InstructionIn(l)) ELSE s

LEMMA InstructionsUnfold ==
    ASSUME NEW S, NEW F \in Seq(S), NEW I, I = Instructions(F)
    PROVE  /\ I[0] = << >>
           /\ \A k \in 1 .. Len(F) : I[k] = More(I[k - 1], F[k])
           /\ \A k \in 0 .. Len(F) : I[k] \in Seq(Spells(F))
<1> DEFINE n == Len(F)
           T == Seq(Spells(F))
           G == [k \in 1 .. n |-> [s \in T |-> More(s, F[k])]]
           a == << >>
<1>1. n \in Nat /\ \A k \in 1 .. n : k \in DOMAIN F
  OBVIOUS
<1>2. ASSUME NEW k \in 1 .. n, NEW s \in T
      PROVE  G[k][s] = More(s, F[k]) /\ G[k][s] \in T
  <2>1. G[k][s] = More(s, F[k])
    OBVIOUS
  <2>2. InstructionIn(F[k]) \in Spells(F)
    BY <1>1, Zenon DEF Spells
  <2>3. More(s, F[k]) \in T
    <3>1. s \in Seq(Spells(F))
      OBVIOUS
    <3> HIDE DEF n, G
    <3>2. Append(s, InstructionIn(F[k])) \in Seq(Spells(F))
      BY <2>2, <3>1
    <3>3. QED
      BY <3>1, <3>2 DEF More
  <2> HIDE DEF G
  <2>4. QED
    BY <2>1, <2>3
<1>3. a \in T
  OBVIOUS
<1>4. PICK f \in [0 .. n -> T] : Runs(f, a, G, n)
  <2> HIDE DEF G, a, n, T
  <2>1. StepsWithin(G, n, T)
    BY <1>2 DEF StepsWithin
  <2>2. QED
    BY <1>1, <1>3, <2>1, RecursionExists
<1>5. f[0] = a /\ \A k \in 1 .. n : f[k] = More(f[k - 1], F[k])
  <2>1. \A k \in 1 .. n : f[k - 1] \in T
    <3> HIDE DEF n, T
    <3>1. QED
      BY <1>1
  <2> HIDE DEF G, a, T
  <2>2. QED
    BY <1>2, <1>4, <2>1 DEF Runs
<1>6. f = [k \in 0 .. Len(F) |->
              IF k = 0 THEN << >>
              ELSE IF IsInstruction(F[k]) THEN Append(f[k - 1], InstructionIn(F[k]))
              ELSE f[k - 1]]
  <2> HIDE DEF G, T
  <2>1. \A k \in 0 .. n : k # 0 => k \in 1 .. n
    OBVIOUS
  <2>2. \A k \in 0 .. n :
           f[k] = IF k = 0 THEN << >>
                  ELSE IF IsInstruction(F[k]) THEN Append(f[k - 1], InstructionIn(F[k]))
                  ELSE f[k - 1]
    BY <1>5, <2>1, Zenon DEF More
  <2>3. f = [k \in 0 .. n |-> f[k]]
    OBVIOUS
  <2>4. QED
    BY <2>2, <2>3, Zenon
<1>7. I = [k \in 0 .. Len(F) |->
              IF k = 0 THEN << >>
              ELSE IF IsInstruction(F[k]) THEN Append(I[k - 1], InstructionIn(F[k]))
              ELSE I[k - 1]]
  BY <1>6, Zenon DEF Instructions
<1>8. I[0] = f[0] /\ \A k \in 0 .. n - 1 : I[k] = f[k] => I[k + 1] = f[k + 1]
  <2>1. I[0] = << >>
    BY <1>1, <1>7
  <2>2. ASSUME NEW k \in 0 .. n - 1, I[k] = f[k] PROVE I[k + 1] = f[k + 1]
    <3>1. k + 1 \in 0 .. n /\ k + 1 # 0 /\ (k + 1) - 1 = k /\ k + 1 \in 1 .. n
      BY <1>1
    <3>2. I[k + 1] = More(I[(k + 1) - 1], F[k + 1])
      BY <1>7, <3>1, Zenon DEF More
    <3>3. QED
      BY <1>5, <2>2, <3>1, <3>2
  <2>3. QED
    BY <1>5, <2>1, <2>2
<1>9. \A k \in 0 .. n : I[k] = f[k]
  <2> HIDE DEF G, a
  <2>1. QED
    BY ONLY <1>1, <1>8, SameRecursion, Zenon
<1>10. QED
  <2>1. \A k \in 1 .. n : k \in 0 .. n /\ k - 1 \in 0 .. n
    BY <1>1
  <2> HIDE DEF G, n, T
  <2>2. 0 \in 0 .. n
    BY <1>1
  <2>3. QED
    BY <1>4, <1>5, <1>9, <2>1, <2>2 DEF n, T

(* There are more instructions only where a line is one.                   *)
LEMMA InstructionsGrow ==
    ASSUME NEW S, NEW F \in Seq(S), NEW I, I = Instructions(F),
           NEW j \in 0 .. Len(F), NEW k \in j .. Len(F)
    PROVE  /\ Len(I[j]) \in Nat /\ Len(I[k]) \in Nat /\ Len(I[j]) <= Len(I[k])
           /\ Len(I[j]) < Len(I[k]) <=> \E m \in j + 1 .. k : IsInstruction(F[m])
<1> DEFINE n == Len(F) - j
           Holds(d) == /\ Len(I[j]) <= Len(I[j + d])
                       /\ Len(I[j]) < Len(I[j + d]) <=> \E m \in j + 1 .. j + d : IsInstruction(F[m])
           T == {d \in 0 .. n : Holds(d)}
<1>1. Len(F) \in Nat /\ n \in Nat /\ j \in Nat /\ j + 0 = j
  OBVIOUS
<1>2. /\ \A m \in 1 .. Len(F) : I[m] = More(I[m - 1], F[m])
      /\ \A m \in 0 .. Len(F) : I[m] \in Seq(Spells(F))
  BY InstructionsUnfold
<1>3. \A m \in 0 .. Len(F) : Len(I[m]) \in Nat
  BY <1>2
<1>4. \A m \in 1 .. Len(F) : Len(I[m]) = IF IsInstruction(F[m]) THEN Len(I[m - 1]) + 1 ELSE Len(I[m - 1])
  <2> SUFFICES ASSUME NEW m \in 1 .. Len(F)
               PROVE  Len(I[m]) = IF IsInstruction(F[m]) THEN Len(I[m - 1]) + 1 ELSE Len(I[m - 1])
    OBVIOUS
  <2>1. m - 1 \in 0 .. Len(F)
    BY <1>1
  <2>2. I[m - 1] \in Seq(Spells(F)) /\ InstructionIn(F[m]) \in Spells(F)
    <3>1. m \in DOMAIN F
      OBVIOUS
    <3>2. InstructionIn(F[m]) \in Spells(F)
      BY <3>1, Zenon DEF Spells
    <3>3. QED
      BY <1>2, <2>1, <3>2
  <2>3. Len(Append(I[m - 1], InstructionIn(F[m]))) = Len(I[m - 1]) + 1
    BY <2>2, AppendProperties
  <2>4. QED
    BY <1>2, <2>3 DEF More
<1>5. 0 \in T
  BY <1>1, <1>3
<1>6. ASSUME NEW d \in T \intersect 0 .. n - 1 PROVE d + 1 \in T
  <2> DEFINE m == j + d
  <2>1. d \in 0 .. n - 1 /\ d \in Nat /\ d + 1 \in 0 .. n /\ m \in 0 .. Len(F) /\ m + 1 \in 1 .. Len(F)
        /\ (m + 1) - 1 = m /\ j + (d + 1) = m + 1 /\ j <= m /\ m \in Nat
    BY <1>1
  <2>2. Holds(d)
    OBVIOUS
  <2>3. Len(I[m + 1]) = IF IsInstruction(F[m + 1]) THEN Len(I[m]) + 1 ELSE Len(I[m])
    BY <1>4, <2>1
  <2>4. Len(I[j]) \in Nat /\ Len(I[m]) \in Nat
    BY <1>3, <2>1
  <2>5. /\ Len(I[j]) <= Len(I[m])
        /\ Len(I[j]) < Len(I[m]) <=> \E l \in j + 1 .. m : IsInstruction(F[l])
    BY <2>2
  <2>6. \A l : l \in j + 1 .. m + 1 <=> l \in j + 1 .. m \/ l = m + 1
    <3> HIDE DEF m
    <3>1. QED
      BY <1>1, <2>1
  <2> HIDE DEF m
  <2>7. /\ Len(I[j]) <= Len(I[m + 1])
        /\ Len(I[j]) < Len(I[m + 1]) <=> IsInstruction(F[m + 1]) \/ Len(I[j]) < Len(I[m])
    BY <2>3, <2>4, <2>5
  <2>8. Len(I[j]) < Len(I[m + 1]) <=> \E l \in j + 1 .. m + 1 : IsInstruction(F[l])
    BY <2>5, <2>6, <2>7
  <2>9. Holds(d + 1)
    BY <2>1, <2>7, <2>8
  <2>10. QED
    BY <2>1, <2>9
<1>7. 0 .. n \subseteq T
  <2> HIDE DEF T, n
  <2>1. QED
    BY <1>1, <1>5, <1>6, IntervalInduction
<1>8. k - j \in 0 .. n /\ j + (k - j) = k /\ k \in 0 .. Len(F)
  BY <1>1
<1>9. Holds(k - j)
  BY <1>7, <1>8
<1> HIDE DEF n, T
<1>10. QED
  BY <1>3, <1>8, <1>9

-----------------------------------------------------------------------------
(* What a line begins with tells whether it can be an instruction.         *)

LEMMA BeginsWithHead ==
    ASSUME NEW f \in Seq(Lexeme), NEW op \in Operations, Begins(Spelled(op), f)
    PROVE  /\ f # << >> /\ Head(f) = f[1]
           /\ op \in {"hi", "dbg"} => f[1] = "sys" /\ Len(f) > 2 /\ f[2] \in Blank /\ f[3] = op
           /\ op \notin {"hi", "dbg"} => f[1] = op
<1>1. Spelled(op) = IF op \in {"hi", "dbg"} THEN <<"sys", " ", op>> ELSE <<op>>
  BY SpelledIs
<1>2. Len(f) \in Nat
  OBVIOUS
<1>3. CASE op \in {"hi", "dbg"}
  <2>1. Spelled(op) = <<"sys", " ", op>>
    BY <1>1, <1>3
  <2>2. Len(<<"sys", " ", op>>) = 3
    OBVIOUS
  <2>3. Len(f) >= 3
    BY <1>2, <2>1, <2>2 DEF Begins
  <2>4. \A j \in 1 .. 3 : f[j] = <<"sys", " ", op>>[j]
    BY <2>1, <2>2 DEF Begins
  <2>5. /\ <<"sys", " ", op>>[1] = "sys" /\ <<"sys", " ", op>>[2] = " " /\ <<"sys", " ", op>>[3] = op
        /\ " " \in Blank
    <3>1. " " \in Blank
      BY Zenon DEF Blank
    <3>2. QED
      BY <3>1, Triples
  <2>6. 1 \in 1 .. 3 /\ 2 \in 1 .. 3 /\ 3 \in 1 .. 3
    OBVIOUS
  <2>7. f[1] = "sys" /\ f[2] \in Blank /\ f[3] = op
    BY <2>4, <2>5, <2>6, Zenon
  <2>8. f # << >> /\ Head(f) = f[1] /\ Len(f) > 2
    BY <1>2, <2>3
  <2>9. QED
    BY <1>3, <2>7, <2>8
<1>4. CASE op \notin {"hi", "dbg"}
  <2>1. Spelled(op) = <<op>>
    BY <1>1, <1>4
  <2>2. Len(<<op>>) = 1
    OBVIOUS
  <2>3. Len(f) >= 1 /\ \A j \in 1 .. 1 : f[j] = <<op>>[j]
    BY <1>2, <2>1, <2>2 DEF Begins
  <2>4. QED
    BY <1>2, <1>4, <2>3
<1>5. QED
  BY <1>3, <1>4

LEMMA MnemonicsAreLetters ==
    /\ \A m \in OpcodeMnemonics \union SyscallMnemonics : m # None => IsLetters(m)
    /\ ~IsLetters(":") /\ ~IsLetters("end") /\ ":" # None
    /\ \A op \in Operations : op \in {"hi", "dbg"} <=> op \in SyscallMnemonics
    /\ \A op \in Operations : op \notin {"hi", "dbg"} => op \in OpcodeMnemonics
    /\ "sys" \in OpcodeMnemonics /\ "sys" \notin Operations
    /\ None \in OpcodeMnemonics /\ None \notin SyscallMnemonics /\ None \notin Operations
    /\ "sys" # None
<1> DEFINE All == {"nop", "res", "sca", "loc", "var", "sys", "hi", "dbg"}
<1>1. \A m \in OpcodeMnemonics \union SyscallMnemonics : m # None => m \in All
  BY Zenon DEF OpcodeMnemonics, SyscallMnemonics, None
<1>2. All \intersect Symbol = {}
  BY Zenon DEF Symbol
<1>3. \A m \in OpcodeMnemonics \union SyscallMnemonics : m \notin Numeral
  BY NumeralAssumption
<1> HIDE DEF All
<1>4. \A m \in OpcodeMnemonics \union SyscallMnemonics : m # None => IsLetters(m)
  BY <1>1, <1>2, <1>3, Zenon DEF IsLetters
<1>5. ~IsLetters(":") /\ ~IsLetters("end") /\ ":" # None
  BY Zenon DEF IsLetters, Symbol, None
<1>6. SyscallMnemonics = {"hi", "dbg"}
  BY DEF SyscallMnemonics
<1>7. \A op \in Operations : op \notin {"hi", "dbg"} => op \in OpcodeMnemonics
  BY OperationFacts, Zenon DEF OpcodeMnemonics
<1>8. "sys" \in OpcodeMnemonics /\ "sys" \notin Operations /\ None \in OpcodeMnemonics
  BY OperationFacts, Zenon DEF OpcodeMnemonics, None
<1>9. None \notin SyscallMnemonics /\ None \notin Operations /\ "sys" # None
  BY OperationFacts, Zenon DEF SyscallMnemonics, None
<1>10. QED
  BY <1>4, <1>5, <1>6, <1>7, <1>8, <1>9

Bad(l) == l # << >> /\ ~IsReference(l) /\ ~IsInstruction(l)

(* A line that begins so is no instruction.                                *)
LEMMA NoSuchMnemonic ==
    ASSUME NEW f \in Seq(Lexeme), f # << >>, ~IsLetters(f[1]) \/ f[1] \notin OpcodeMnemonics
    PROVE  ~IsInstruction(f) /\ (f[1] # ":" => Bad(f))
<1>1. Head(f) = f[1]
  OBVIOUS
<1>2. ASSUME NEW op \in Operations, Begins(Spelled(op), f) PROVE FALSE
  <2>1. /\ op \in {"hi", "dbg"} => f[1] = "sys"
        /\ op \notin {"hi", "dbg"} => f[1] = op
    BY <1>2, BeginsWithHead
  <2>2. f[1] \in OpcodeMnemonics /\ f[1] # None
    BY <2>1, MnemonicsAreLetters
  <2>3. QED
    BY <2>2, MnemonicsAreLetters
<1>3. InstructionsIn(f) = {}
  BY <1>2, NoInstruction
<1>4. f[1] # ":" => ~IsReference(f)
  BY <1>1, Zenon DEF IsReference
<1>5. QED
  BY <1>3, <1>4 DEF IsInstruction, Bad

(* Nor is one of no system call.                                           *)
LEMMA NoSuchSyscall ==
    ASSUME NEW f \in Seq(Lexeme), f # << >>, f[1] = "sys",
           ~(Len(f) > 2 /\ f[2] \in Blank /\ f[3] \in SyscallMnemonics)
    PROVE  /\ Bad(f)
           /\ ~(Len(f) > 2 /\ f[3] \in SyscallMnemonics) => UnknownMnemonic(f)
<1>1. Head(f) = f[1]
  OBVIOUS
<1>2. ASSUME NEW op \in Operations, Begins(Spelled(op), f) PROVE FALSE
  <2>1. /\ op \in {"hi", "dbg"} => Len(f) > 2 /\ f[2] \in Blank /\ f[3] = op
        /\ op \notin {"hi", "dbg"} => f[1] = op
    BY <1>2, BeginsWithHead
  <2>2. QED
    BY <2>1, MnemonicsAreLetters
<1>3. InstructionsIn(f) = {}
  BY <1>2, NoInstruction
<1>4. ~IsReference(f)
  <2>1. "sys" # ":"
    OBVIOUS
  <2>2. QED
    BY <1>1, <2>1, Zenon DEF IsReference
<1>5. ~(Len(f) > 2 /\ f[3] \in SyscallMnemonics) => UnknownMnemonic(f)
  BY <1>1, MnemonicsAreLetters DEF UnknownMnemonic
<1>6. QED
  BY <1>3, <1>4, <1>5 DEF IsInstruction, Bad

LEMMA EmptyLine == ~IsInstruction(<< >>) /\ ~IsReference(<< >>)
<1>1. << >> \in Seq(Lexeme)
  OBVIOUS
<1>2. \A op \in Operations : ~Begins(Spelled(op), << >>)
  BY <1>1, BeginsWithHead
<1>3. InstructionsIn(<< >>) = {}
  BY <1>1, <1>2, NoInstruction
<1>4. QED
  BY <1>3, Zenon DEF IsInstruction, IsReference

-----------------------------------------------------------------------------
(* An operation and its argument, read behind what was read of the line.   *)

LEMMA NoArgument ==
    ASSUME NEW p, Stop(LexemeAt(p)), NEW op \in Operations, ArgKind[op] # "none"
    PROVE  ArgumentsAt(ArgKind[op], p) = {}
<1> DEFINE c == LexemeAt(p)
<1>1. c \notin Numeral \union Sign
  BY SignsAreNoNumerals
<1>2. c # "%" /\ c # ":"
  <2>1. ~Stop("%") /\ ~Stop(":")
    BY PlainColon DEF Stop, Plain
  <2>2. QED
    BY <2>1
<1>3. NumbersAt(p) = {}
  BY <1>1, Zenon DEF NumbersAt
<1>4. Immediates(p) = {} /\ Signed(p) = {}
  BY <1>3, Zenon DEF Immediates, Signed, InRange
<1>5. Locations(p) = {}
  BY <1>2, Zenon DEF Locations
<1>6. ArgKind[op] \in {"imb", "imw", "var", "loc"}
  BY OperationFacts
<1>7. ASSUME NEW kind \in {"imb", "imw", "var", "loc"} PROVE ArgumentsAt(kind, p) = {}
  BY <1>2, <1>4, <1>5, <1>7 DEF ArgumentsAt
<1>8. QED
  BY <1>6, <1>7

(* What is read of a line whose operation and argument end at e.           *)
Spelt(op, m, f, e) == InstructionsIn(f) = IF Ends(e) THEN {[op |-> op, arg |-> m]} ELSE {}

LEMMA PlainOperationRead ==
    ASSUME Legible, NEW p \in 0 .. Len(text), NEW op \in Operations, ArgKind[op] = "none",
           NEW f, f = Lines[LineAt(p)], Seen(p) = Spelled(op)
    PROVE  Spelt(op, 0, f, p)
<1>1. Full(Seen(p)) /\ Spelled(op) \in Seq(Lexeme)
  BY SpelledIs
<1>2. f \in Seq(Lexeme) /\ Len(f) \in Nat /\ Len(Seen(p)) \in Nat
  BY <1>1, TheLines
<1>3. CASE Ends(p)
  <2>1. f = Spelled(op)
    BY <1>1, <1>3, LineEnds
  <2>2. Begins(Spelled(op), f) /\ Len(f) = Len(Spelled(op))
    BY <1>2, <2>1 DEF Begins
  <2>3. QED
    BY <1>2, <1>3, <2>2, InstructionsAre DEF Spelt
<1>4. CASE ~Ends(p)
  <2>1. Begins(Spelled(op), f) /\ Len(f) # Len(Spelled(op))
    BY <1>1, <1>2, <1>4, LineGoesOn
  <2>2. QED
    BY <1>2, <1>4, <2>1, InstructionsAre DEF Spelt
<1>5. QED
  BY <1>3, <1>4

WithArguments(op, s) == {[op |-> op, arg |-> x] : x \in s}

LEMMA ArgumentRead ==
    ASSUME Legible, NEW p \in 0 .. Len(text), NEW op \in Operations, ArgKind[op] # "none",
           NEW f, f = Lines[LineAt(p)], Seen(p) = Spelled(op),
           NEW start, start = SkipSeparator(p)
    PROVE  InstructionsIn(f) =
              IF start = p \/ Ends(start) THEN {}
              ELSE WithArguments(op, ArgumentsIn(ArgKind[op], Rest(f, Len(Seen(start)))))
<1>1. Full(Seen(p)) /\ Spelled(op) \in Seq(Lexeme)
  BY SpelledIs
<1>2. f \in Seq(Lexeme) /\ Len(f) \in Nat /\ Len(Seen(p)) \in Nat
  BY <1>1, TheLines
<1>3. /\ start \in 0 .. Len(text)
      /\ start = p <=> LexemeAt(p) \notin Blank
      /\ Ends(start) <=> Ends(p)
  BY Skipping
<1> DEFINE k == Len(Spelled(op))
<1>4. CASE Ends(p)
  <2>1. f = Spelled(op)
    BY <1>1, <1>4, LineEnds
  <2>2. Begins(Spelled(op), f) /\ ~(k < Len(f))
    BY <1>2, <2>1 DEF Begins
  <2>3. InstructionsIn(f) = {}
    BY <1>2, <2>2, InstructionsAre
  <2>4. QED
    BY <1>3, <1>4, <2>3
<1>5. CASE ~Ends(p)
  <2>1. Begins(Spelled(op), f) /\ k < Len(f) /\ f[k + 1] = LexemeAt(p)
    BY <1>1, <1>2, <1>5, LineGoesOn
  <2>2. InstructionsIn(f) = IF f[k + 1] = " " THEN WithArguments(op, SpeltArguments(op, f)) ELSE {}
    <3>1. InstructionsIn(f) = IF k < Len(f) /\ f[k + 1] = " "
                              THEN WithArguments(op, SpeltArguments(op, f))
                              ELSE {}
      BY <1>2, <2>1, InstructionsAre DEF WithArguments
    <3> HIDE DEF k
    <3>2. QED
      BY <2>1, <3>1, Zenon
  <2>3. f[k + 1] = " " <=> LexemeAt(p) \in Blank
    <3> HIDE DEF k
    <3>1. QED
      BY <2>1, Zenon DEF Blank
  <2>4. CASE LexemeAt(p) \notin Blank
    BY <1>3, <2>2, <2>3, <2>4, Zenon
  <2>5. CASE LexemeAt(p) \in Blank
    <3>1. start # p /\ Seen(start) = Separated(Seen(p))
      BY <1>3, <2>5, SkippingReads DEF Legible
    <3>2. Separated(Seen(p)) = Append(Seen(p), " ")
      BY <1>1, Zenon DEF Separated, Full
    <3>3. " " \in Lexeme
      BY Zenon DEF Lexeme, Blank
    <3>4. Len(Append(Seen(p), " ")) = Len(Seen(p)) + 1
      BY <1>1, <3>3, AppendProperties
    <3>5. Len(Seen(start)) = k + 1
      BY <3>1, <3>2, <3>4
    <3>6. SpeltArguments(op, f) = ArgumentsIn(ArgKind[op], Rest(f, Len(Seen(start))))
      BY <3>5 DEF SpeltArguments
    <3> HIDE DEF k
    <3>7. QED
      BY <1>3, <1>5, <2>2, <2>3, <2>5, <3>1, <3>6, Zenon
  <2>6. QED
    BY <2>4, <2>5
<1>6. QED
  BY <1>4, <1>5

(* How the symbols change when an argument x of op is m on the line.       *)
Means(op, x, m) ==
    /\ op # "loc" => x = m /\ NoNewSymbol
    /\ op = "loc" => /\ x = SymbolOf(m)
                     /\ IF IsNew(m) THEN MakeSymbols(1) /\ symbols' = WithSymbol(m) ELSE NoNewSymbol

LEMMA WithReads ==
    ASSUME Legible, NEW p \in 0 .. Len(text), NEW op \in Operations, NEW r, AssembleWith(op, p, r),
           NEW f, f = Lines[LineAt(p)]
    PROVE  \/ Refuse(r + 1) /\ (Seen(p) = Spelled(op) => InstructionsIn(f) = {})
           \/ \E x, e, m :
                 /\ Assembled(op, x, e, r) /\ Means(op, x, m)
                 /\ e \in 0 .. Len(text) /\ LineAt(e) = LineAt(p)
                 /\ e # p => Seen(e) # << >>
                 /\ e # p => ArgKind[op] # "none" /\ SkipSeparator(p) # p
                 /\ Seen(p) = Spelled(op) => Spelt(op, m, f, e)
<1>1. op # None
  BY MnemonicsAreLetters
<1>2. op = "loc" <=> ArgKind[op] = "loc"
  BY OperationFacts
<1>3. CASE ArgKind[op] = "none"
  <2>1. Assembled(op, 0, p, r) /\ NoNewSymbol
    BY <1>1, <1>3, WithFacts
  <2>2. Means(op, 0, 0)
    <3>1. op # "loc"
      BY <1>3, OperationFacts
    <3>2. QED
      BY <2>1, <3>1, Zenon DEF Means
  <2>3. Seen(p) = Spelled(op) => Spelt(op, 0, f, p)
    BY <1>3, PlainOperationRead
  <2>4. QED
    BY <2>1, <2>2, <2>3, Zenon
<1>4. CASE ArgKind[op] # "none"
  <2> DEFINE start == SkipSeparator(p)
             kind == ArgKind[op]
             args == ArgumentsAt(kind, start)
             name == NameAt(start + 1)
             k == Len(Seen(start))
             z == Rest(f, k)
  <2>1. IF start = p \/ args = {} THEN Refuse(r + 1)
        ELSE \E a \in args :
                /\ Assembled(op, a.x, a.end, r)
                /\ IF kind = "loc" /\ IsNew(name)
                   THEN MakeSymbols(1) /\ symbols' = WithSymbol(name)
                   ELSE NoNewSymbol
    BY <1>1, <1>4, Zenon DEF AssembleWith, None
  <2>2. /\ start \in 0 .. Len(text) /\ LexemeAt(start) \notin Blank
        /\ LineAt(start) = LineAt(p) /\ f = Lines[LineAt(start)]
    <3>1. start \in 0 .. Len(text) /\ LexemeAt(start) \notin Blank
      BY Skipping
    <3>2. LineAt(start) = LineAt(p)
      BY SkippingReads DEF Legible
    <3>3. QED
      BY <3>1, <3>2
  <2>3. Seen(p) = Spelled(op) =>
           InstructionsIn(f) = IF start = p \/ Ends(start) THEN {}
                               ELSE WithArguments(op, ArgumentsIn(kind, z))
    <3>1. start = SkipSeparator(p)
      OBVIOUS
    <3> HIDE DEF start
    <3>2. Seen(p) = Spelled(op) =>
             InstructionsIn(f) =
                IF start = p \/ Ends(start) THEN {}
                ELSE WithArguments(op, ArgumentsIn(ArgKind[op], Rest(f, Len(Seen(start)))))
      BY <1>4, <3>1, ArgumentRead
    <3>3. QED
      BY <3>2
  <2>4. Ends(start) => args = {}
    <3>1. SkipSeparator(start) = start
      BY <2>2, Skipping
    <3>2. Ends(start) => Stop(LexemeAt(start))
      BY <3>1, Zenon DEF Ends
    <3>3. QED
      BY <1>4, <3>2, NoArgument
  <2>5. ~Ends(start) =>
           \/ args = {} /\ ArgumentsIn(kind, z) = {}
           \/ \E a : /\ args = {a} /\ Reaches(start, a.end)
                     /\ ArgumentsIn(kind, z) = IF Ends(a.end) THEN {Meant(kind, start, a)} ELSE {}
                     /\ kind = "loc" => a.x = SymbolOf(name) /\ name # << >>
    BY <1>4, <2>2, ArgumentsRead
  <2> HIDE DEF start, args, name, z, k
  <2>6. CASE start = p \/ args = {}
    <3>1. Refuse(r + 1)
      BY <2>1, <2>6
    <3>2. WithArguments(op, {}) = {}
      BY Zenon DEF WithArguments
    <3>3. Seen(p) = Spelled(op) => InstructionsIn(f) = {}
      BY <2>3, <2>5, <2>6, <3>2
    <3>4. QED
      BY <3>1, <3>3
  <2>7. CASE start # p /\ args # {}
    <3>1. PICK a : /\ args = {a} /\ Reaches(start, a.end)
                   /\ ArgumentsIn(kind, z) = IF Ends(a.end) THEN {Meant(kind, start, a)} ELSE {}
                   /\ kind = "loc" => a.x = SymbolOf(name) /\ name # << >>
      BY <2>4, <2>5, <2>7
    <3> DEFINE m == Meant(kind, start, a)
    <3>2. /\ Assembled(op, a.x, a.end, r)
          /\ IF kind = "loc" /\ IsNew(name)
             THEN MakeSymbols(1) /\ symbols' = WithSymbol(name)
             ELSE NoNewSymbol
      BY <2>1, <2>7, <3>1
    <3>3. Means(op, a.x, m)
      <4>1. CASE kind = "loc"
        <5>1. m = name
          BY <4>1 DEF Meant, name
        <5> HIDE DEF m
        <5>2. QED
          BY <1>2, <3>1, <3>2, <4>1, <5>1, Zenon DEF Means
      <4>2. CASE kind # "loc"
        <5>1. m = a.x
          BY <4>2, Zenon DEF Meant
        <5> HIDE DEF m
        <5>2. QED
          BY <1>2, <3>2, <4>2, <5>1, Zenon DEF Means
      <4>3. QED
        BY <4>1, <4>2
    <3>4. /\ a.end \in 0 .. Len(text) /\ LineAt(a.end) = LineAt(p) /\ Seen(a.end) # << >>
      BY <2>2, <3>1 DEF Reaches, Full
    <3>5. Seen(p) = Spelled(op) => Spelt(op, m, f, a.end)
      <4>1. Seen(p) = Spelled(op) =>
               InstructionsIn(f) = WithArguments(op, IF Ends(a.end) THEN {m} ELSE {})
        BY <2>3, <2>4, <2>7, <3>1
      <4> HIDE DEF m
      <4>2. QED
        BY <4>1 DEF Spelt, WithArguments
    <3> HIDE DEF m
    <3>6. QED
      BY <1>4, <2>7, <3>2, <3>3, <3>4, <3>5, Zenon DEF start
  <2>8. QED
    BY <2>6, <2>7
<1>5. QED
  BY <1>3, <1>4

-----------------------------------------------------------------------------
(* The mnemonics of a line.                                                *)

LEMMA FirstLexeme ==
    ASSUME Legible, NEW p \in 0 .. Len(text), p # Len(text), Plain(LexemeAt(p)), Seen(p) = << >>,
           NEW f, f = Lines[LineAt(p)]
    PROVE  /\ f \in Seq(Lexeme) /\ f # << >> /\ f[1] = LexemeAt(p) /\ Head(f) = f[1]
           /\ p + 1 \in 0 .. Len(text) /\ LineAt(p + 1) = LineAt(p)
           /\ Seen(p + 1) = <<LexemeAt(p)>> /\ Full(Seen(p + 1))
<1>1. LexemeAt(p) # "end"
  BY EndIsLast
<1>2. /\ p + 1 \in 0 .. Len(text) /\ LineAt(p + 1) = LineAt(p) /\ f \in Seq(Lexeme)
      /\ Len(Seen(p)) < Len(f) /\ f[Len(Seen(p)) + 1] = LexemeAt(p)
      /\ Seen(p + 1) \in Seq(Lexeme) /\ Len(Seen(p + 1)) = Len(Seen(p)) + 1 /\ Full(Seen(p + 1))
      /\ Seen(p + 1)[Len(Seen(p)) + 1] = LexemeAt(p)
  BY <1>1, OneMoreLexeme
<1>3. Len(Seen(p)) = 0 /\ Len(Seen(p)) + 1 = 1
  OBVIOUS
<1>4. f # << >> /\ Head(f) = f[1]
  BY <1>2, <1>3
<1>5. Seen(p + 1) = <<LexemeAt(p)>>
  <2>1. LexemeAt(p) \in Lexeme
    BY EndIsLast
  <2>2. <<LexemeAt(p)>> \in Seq(Lexeme) /\ Len(<<LexemeAt(p)>>) = 1 /\ <<LexemeAt(p)>>[1] = LexemeAt(p)
    BY <2>1, Singles
  <2> DEFINE s == Seen(p + 1)
             t == <<LexemeAt(p)>>
  <2>3. /\ s \in Seq(Lexeme) /\ Len(s) = 1 /\ s[1] = LexemeAt(p)
        /\ t \in Seq(Lexeme) /\ Len(t) = 1 /\ t[1] = LexemeAt(p)
    BY <1>2, <1>3, <2>2
  <2> HIDE DEF s, t
  <2>4. s = t
    BY <2>3, SeqEqual
  <2>5. QED
    BY <2>4 DEF s, t
<1>6. QED
  BY <1>2, <1>3, <1>4, <1>5

(* The lexeme behind a mnemonic is not letters.                            *)
LEMMA LettersAreApart ==
    ASSUME Legible, NEW p \in 0 .. Len(text), p # Len(text), IsLetters(LexemeAt(p))
    PROVE  ~IsLetters(LexemeAt(p + 1))
<1>1. LexemeAt(p) = text[p + 1] /\ p \in Nat /\ Len(text) \in Nat
  BY EndIsLast
<1>2. CASE p + 1 = Len(text)
  <2>1. LexemeAt(p + 1) = "end"
    BY <1>1, <1>2, EndIsLast
  <2>2. QED
    BY <2>1, MnemonicsAreLetters
<1>3. CASE p + 1 # Len(text)
  <2>1. p + 1 \in 0 .. Len(text) /\ p + 1 \in 1 .. Len(text) - 1 /\ p + 1 < Len(text)
    BY <1>1, <1>3
  <2>2. LexemeAt(p + 1) = text[(p + 1) + 1]
    BY <2>1, EndIsLast
  <2>3. QED
    BY <1>1, <2>1, <2>2 DEF Legible
<1>4. QED
  BY <1>2, <1>3

LEMMA MnemonicRead ==
    ASSUME Legible, NEW p \in 0 .. Len(text), NEW q, q = AfterMnemonic(p)
    PROVE  /\ q \in 0 .. Len(text) /\ LineAt(q) = LineAt(p)
           /\ Seen(p) # << >> => Seen(q) # << >>
           /\ MnemonicAt(p) # None =>
                 /\ IsLetters(LexemeAt(p)) /\ MnemonicAt(p) = LexemeAt(p) /\ Plain(LexemeAt(p))
                 /\ LexemeAt(p) \in Lexeme /\ Seen(q) = Append(Seen(p), LexemeAt(p))
           /\ MnemonicAt(p) = None => q = p /\ ~IsLetters(LexemeAt(p))
<1>1. CASE ~IsLetters(LexemeAt(p))
  BY <1>1, MnemonicFacts
<1>2. CASE IsLetters(LexemeAt(p))
  <2>1. p # Len(text)
    BY <1>2, EndIsLast, MnemonicsAreLetters
  <2>2. /\ p \in 0 .. Len(text) - 1 /\ LexemeAt(p) \in Lexeme /\ LexemeAt(p) # None
        /\ p + 1 \in 0 .. Len(text)
    BY <2>1, EndIsLast
  <2>3. q = p + 1 /\ MnemonicAt(p) = LexemeAt(p)
    BY <1>2, Zenon DEF AfterMnemonic, MnemonicAt
  <2>4. Plain(LexemeAt(p))
    BY <1>2, NamesArePlain DEF InName
  <2>5. LineAt(p + 1) = LineAt(p) /\ Seen(p + 1) = Append(Seen(p), LexemeAt(p))
    BY <2>2, <2>4, PlainIsRead DEF Legible
  <2>6. Seen(p) \in Seq(Lexeme)
    BY LinesAre DEF Legible
  <2>7. Append(Seen(p), LexemeAt(p)) # << >>
    BY <2>2, <2>6
  <2>8. QED
    BY <1>2, <2>2, <2>3, <2>4, <2>5, <2>7
<1>3. QED
  BY <1>1, <1>2

LEMMA ThreeLexemes ==
    ASSUME NEW S, NEW x \in S, NEW y \in S, NEW z \in S
    PROVE  Append(Append(<<x>>, y), z) = <<x, y, z>> /\ Append(<<x>>, y) # << >>
<1> DEFINE a == Append(<<x>>, y)
           b == Append(a, z)
           c == <<x, y, z>>
<1>1. <<x>> \in Seq(S) /\ Len(<<x>>) = 1 /\ <<x>>[1] = x
  BY Singles
<1>2. a \in Seq(S) /\ Len(a) = 2 /\ a[1] = x /\ a[2] = y
  BY <1>1, AppendProperties
<1> HIDE DEF a
<1>3. b \in Seq(S) /\ Len(b) = 3 /\ b[1] = x /\ b[2] = y /\ b[3] = z
  <2>1. b \in Seq(S) /\ Len(b) = 3 /\ b[3] = z /\ \A j \in 1 .. 2 : b[j] = a[j]
    <3>1. a \in Seq(S)
      BY <1>2
    <3>2. /\ b \in Seq(S) /\ Len(b) = Len(a) + 1 /\ b[Len(a) + 1] = z
          /\ \A j \in 1 .. Len(a) : b[j] = a[j]
      BY <3>1, AppendProperties
    <3> HIDE DEF b
    <3>3. Len(a) + 1 = 3
      BY <1>2
    <3>4. QED
      BY <1>2, <3>2, <3>3
  <2>2. 1 \in 1 .. 2 /\ 2 \in 1 .. 2
    OBVIOUS
  <2>3. QED
    BY <1>2, <2>1, <2>2
<1>4. c \in Seq(S) /\ Len(c) = 3 /\ c[1] = x /\ c[2] = y /\ c[3] = z
  BY Triples
<1> HIDE DEF b, c
<1>5. b = c
  <2>1. \A j \in 1 .. 3 : b[j] = c[j]
    BY <1>3, <1>4
  <2>2. QED
    BY <1>3, <1>4, <2>1, SeqEqual
<1>6. a # << >>
  <2>1. Len(a) # Len(<< >>)
    BY <1>2
  <2>2. QED
    BY <2>1, Zenon
<1>7. QED
  BY <1>5, <1>6 DEF a, b, c

LEMMA SyscallRead ==
    ASSUME Legible, NEW p \in 0 .. Len(text), p # Len(text), LexemeAt(p) = "sys", Seen(p) = << >>,
           NEW f, f = Lines[LineAt(p)],
           NEW q, q = SkipSeparator(p + 1), NEW e, e = AfterMnemonic(q)
    PROVE  /\ q \in 0 .. Len(text) /\ LexemeAt(q) \notin Blank
           /\ e \in 0 .. Len(text) /\ LineAt(e) = LineAt(p) /\ Seen(e) # << >>
           /\ MnemonicAt(q) \in SyscallMnemonics => Seen(e) = Spelled(MnemonicAt(q))
           /\ MnemonicAt(q) \notin SyscallMnemonics =>
                 Bad(f) /\ (UnknownMnemonic(f) \/ (e = q /\ ~Ends(q)))
<1> DEFINE s == p + 1
           w == MnemonicAt(q)
<1>1. IsLetters(LexemeAt(p)) /\ Plain(LexemeAt(p))
  BY MnemonicsAreLetters, NamesArePlain DEF InName
<1>2. /\ f \in Seq(Lexeme) /\ f # << >> /\ f[1] = "sys" /\ s \in 0 .. Len(text) /\ LineAt(s) = LineAt(p)
      /\ Seen(s) = <<"sys">> /\ Full(Seen(s)) /\ ~IsLetters(LexemeAt(s))
  BY <1>1, FirstLexeme, LettersAreApart
<1> HIDE DEF s
<1>3. q = SkipSeparator(s) /\ f = Lines[LineAt(s)]
  BY <1>2 DEF s
<1>4. /\ q \in 0 .. Len(text) /\ LexemeAt(q) \notin Blank
      /\ q = s <=> LexemeAt(s) \notin Blank
      /\ Ends(q) <=> Ends(s)
  BY <1>2, <1>3, Skipping
<1>5. LineAt(q) = LineAt(p) /\ Seen(q) = IF q = s THEN Seen(s) ELSE Separated(Seen(s))
  BY <1>2, <1>3, SkippingReads DEF Legible
<1>6. Separated(Seen(s)) = Append(<<"sys">>, " ")
  BY <1>2, Zenon DEF Separated, Full
<1>7. "sys" \in Lexeme /\ " " \in Lexeme
  BY Zenon DEF Lexeme, Blank
<1>8. Len(Seen(s)) = 1 /\ Append(<<"sys">>, " ") # << >> /\ <<"sys">> # << >>
  <2> DEFINE b == " "
  <2>1. b \in Lexeme
    BY <1>7
  <2> HIDE DEF b
  <2>2. Append(<<"sys">>, b) # << >> /\ Len(<<"sys">>) = 1 /\ <<"sys">> # << >>
    BY <1>7, <2>1, ThreeLexemes, Singles
  <2>3. QED
    BY <1>2, <2>2 DEF b
<1>9. Seen(q) # << >>
  BY <1>2, <1>5, <1>6, <1>8, Zenon
<1>10. /\ e \in 0 .. Len(text) /\ LineAt(e) = LineAt(q) /\ Seen(e) # << >>
       /\ w # None => IsLetters(LexemeAt(q)) /\ w = LexemeAt(q) /\ Seen(e) = Append(Seen(q), LexemeAt(q))
       /\ w = None => e = q /\ ~IsLetters(LexemeAt(q))
  BY <1>4, <1>9, MnemonicRead
<1> HIDE DEF w
<1>11. ASSUME w \in SyscallMnemonics PROVE Seen(e) = Spelled(w)
  <2>1. w # None /\ w \in Operations /\ w \in {"hi", "dbg"}
    BY <1>11, OperationFacts, MnemonicsAreLetters DEF SyscallMnemonics
  <2>2. q # s
    BY <1>2, <1>10, <2>1
  <2>3. Seen(e) = Append(Append(<<"sys">>, " "), w)
    BY <1>5, <1>6, <1>10, <2>1, <2>2, Zenon
  <2>4. w \in Lexeme
    BY <2>1 DEF Lexeme
  <2>5. Append(Append(<<"sys">>, " "), w) = <<"sys", " ", w>>
    BY <1>7, <2>4, ThreeLexemes
  <2>6. Spelled(w) = <<"sys", " ", w>>
    BY <2>1, SpelledIs
  <2>7. QED
    BY <2>3, <2>5, <2>6, Zenon
<1>12. ASSUME w \notin SyscallMnemonics PROVE Bad(f) /\ (UnknownMnemonic(f) \/ (e = q /\ ~Ends(q)))
  <2>1. Len(Seen(s)) = 1
    BY <1>8, Zenon
  <2>2. CASE Ends(s)
    <3>1. f = <<"sys">>
      BY <1>2, <1>3, <2>2, LineEnds
    <3>2. Len(f) = 1
      BY <3>1
    <3>3. QED
      BY <1>2, <3>2, NoSuchSyscall
  <2>3. CASE ~Ends(s) /\ LexemeAt(s) \notin Blank
    <3>1. f[2] = LexemeAt(s)
      <4>1. f[Len(Seen(s)) + 1] = LexemeAt(s)
        BY <1>2, <1>3, <2>3, LineGoesOn
      <4>2. Len(Seen(s)) + 1 = 2
        BY <2>1
      <4>3. QED
        BY <4>1, <4>2
    <3>2. Bad(f)
      BY <1>2, <2>3, <3>1, NoSuchSyscall
    <3>3. q = s /\ ~Ends(q)
      BY <1>4, <2>3
    <3>4. w = None
      BY <1>2, <1>10, <3>3
    <3>5. QED
      BY <1>10, <3>2, <3>3, <3>4
  <2>4. CASE ~Ends(s) /\ LexemeAt(s) \in Blank
    <3>1. f[3] = LexemeAt(q)
      <4>1. f[Len(Seen(s)) + 2] = LexemeAt(q)
        BY <1>2, <1>3, <2>4, LineGoesOn
      <4>2. Len(Seen(s)) + 2 = 3
        BY <2>1
      <4>3. QED
        BY <4>1, <4>2
    <3>2. LexemeAt(q) \notin SyscallMnemonics
      <4>1. CASE w = None
        BY <1>10, <4>1, MnemonicsAreLetters
      <4>2. CASE w # None
        BY <1>10, <1>12, <4>2
      <4>3. QED
        BY <4>1, <4>2
    <3>3. QED
      BY <1>2, <3>1, <3>2, NoSuchSyscall
  <2>5. QED
    BY <2>2, <2>3, <2>4
<1>13. QED
  BY <1>4, <1>5, <1>10, <1>11, <1>12 DEF w

-----------------------------------------------------------------------------
(* What assembling the first thing of a line comes to.                     *)

Goes(e) == e \in 0 .. Len(text) /\ LineAt(e) = LineAt(position) /\ Seen(e) # << >>

RefusedSilently(f) == Refuse(0) /\ Bad(f) /\ NoMnemonic(f)
RefusedLoudly(f) == Bad(f) /\ \E n \in Nat \ {0} : Refuse(n)
AssembledRightly(f) ==
    \E op \in Operations : \E x, e, m :
        Assembled(op, x, e, 0) /\ Means(op, x, m) /\ Goes(e) /\ Spelt(op, m, f, e)
AssembledWrongly(f) ==
    /\ Bad(f)
    /\ \E op \in Operations, n \in Nat \ {0} : \E x, e :
          Assembled(op, x, e, n) /\ Goes(e) /\ (Ends(e) => UnknownMnemonic(f))

(* Once an error was reported, whatever comes of the line is an error.     *)
LEMMA GoesWrong ==
    ASSUME Legible, NEW p, Goes(p), NEW op \in Operations \union {None}, NEW r \in Nat \ {0},
           AssembleWith(op, p, r), NEW f, f = Lines[LineAt(position)], Bad(f),
           UnknownMnemonic(f) \/ (SkipSeparator(p) = p /\ ~Ends(p))
    PROVE  RefusedLoudly(f) \/ AssembledWrongly(f)
<1>1. CASE op = None
  BY <1>1, WithFacts DEF RefusedLoudly
<1>2. CASE op # None
  <2>1. r + 1 \in Nat \ {0} /\ op \in Operations /\ p \in 0 .. Len(text) /\ f = Lines[LineAt(p)]
    BY <1>2 DEF Goes
  <2>2. \/ Refuse(r + 1)
        \/ \E x, e : /\ Assembled(op, x, e, r)
                     /\ e \in 0 .. Len(text) /\ LineAt(e) = LineAt(p)
                     /\ e # p => Seen(e) # << >>
                     /\ e # p => SkipSeparator(p) # p
    BY <2>1, WithReads
  <2>3. CASE Refuse(r + 1)
    BY <2>1, <2>3 DEF RefusedLoudly
  <2>4. ASSUME NEW x, NEW e, Assembled(op, x, e, r), e \in 0 .. Len(text), LineAt(e) = LineAt(p),
               e # p => Seen(e) # << >>, e # p => SkipSeparator(p) # p
        PROVE  AssembledWrongly(f)
    <3>1. Goes(e)
      BY <2>4 DEF Goes
    <3>2. Ends(e) => UnknownMnemonic(f)
      BY <2>4
    <3>3. QED
      BY <2>1, <2>4, <3>1, <3>2 DEF AssembledWrongly
  <2>5. QED
    BY <2>2, <2>3, <2>4
<1>3. QED
  BY <1>1, <1>2

(* A mnemonic that was found is followed by its argument or by nothing.    *)
LEMMA GoesRight ==
    ASSUME Legible, NEW p, Goes(p), NEW op \in Operations, Seen(p) = Spelled(op),
           AssembleWith(op, p, 0), NEW f, f = Lines[LineAt(position)], f # << >>, ~IsReference(f)
    PROVE  RefusedLoudly(f) \/ AssembledRightly(f)
<1>1. p \in 0 .. Len(text) /\ f = Lines[LineAt(p)]
  BY DEF Goes
<1>2. \/ Refuse(0 + 1) /\ InstructionsIn(f) = {}
      \/ \E x, e, m :
            /\ Assembled(op, x, e, 0) /\ Means(op, x, m)
            /\ e \in 0 .. Len(text) /\ LineAt(e) = LineAt(p)
            /\ e # p => Seen(e) # << >>
            /\ Spelt(op, m, f, e)
  BY <1>1, WithReads
<1>3. CASE Refuse(0 + 1) /\ InstructionsIn(f) = {}
  <2>1. 0 + 1 \in Nat \ {0}
    OBVIOUS
  <2>2. Bad(f)
    BY <1>3 DEF Bad, IsInstruction
  <2>3. QED
    BY <1>3, <2>1, <2>2 DEF RefusedLoudly
<1>4. ASSUME NEW x, NEW e, NEW m, Assembled(op, x, e, 0), Means(op, x, m), e \in 0 .. Len(text),
             LineAt(e) = LineAt(p), e # p => Seen(e) # << >>, Spelt(op, m, f, e)
      PROVE  AssembledRightly(f)
  <2>1. Goes(e)
    BY <1>4 DEF Goes
  <2>2. QED
    BY <1>4, <2>1 DEF AssembledRightly
<1>5. QED
  BY <1>2, <1>3, <1>4

LEMMA AssembleReads ==
    ASSUME Legible, position \in 0 .. Len(text), Seen(position) = << >>, AssembleOne,
           NEW f, f = Lines[LineAt(position)]
    PROVE  /\ f \in Seq(Lexeme) /\ f # << >> /\ ~IsReference(f)
           /\ \/ RefusedSilently(f) \/ RefusedLoudly(f)
              \/ AssembledRightly(f) \/ AssembledWrongly(f)
<1> DEFINE c == LexemeAt(position)
           p == AfterMnemonic(position)
           m == MnemonicAt(position)
           r == NotFound(OpcodeMnemonics, m)
<1>1. PICK opcode \in Codes(OpcodeMnemonics, m) :
         IF opcode = "sys" THEN AssembleSyscall(SkipSeparator(p), r) ELSE AssembleWith(opcode, p, r)
  BY DEF AssembleOne
<1>2. Plain(c) /\ position # Len(text) /\ c # ":"
  <2>1. position < Len(text) /\ c \notin Blank \union {"\n"} /\ c # ":"
    BY Zenon DEF AssembleOne, Thing, Assembling, Here
  <2>2. Plain(c)
    BY <2>1, Zenon DEF Plain, IsBreak
  <2>3. position # Len(text)
    BY <2>1, EndIsLast
  <2>4. QED
    BY <2>1, <2>2, <2>3
<1>3. /\ f \in Seq(Lexeme) /\ f # << >> /\ f[1] = c /\ Head(f) = f[1]
      /\ position + 1 \in 0 .. Len(text) /\ LineAt(position + 1) = LineAt(position)
      /\ Seen(position + 1) = <<c>> /\ Full(Seen(position + 1))
  BY <1>2, FirstLexeme
<1>4. ~IsReference(f)
  BY <1>2, <1>3, Zenon DEF IsReference
<1>5. c # None
  BY <1>2, EndIsLast
<1>6. /\ IsLetters(c) => p = position + 1 /\ m = c
      /\ ~IsLetters(c) => p = position /\ m = None
  BY Zenon DEF AfterMnemonic, MnemonicAt, None
<1>7. r \in {0, 1} /\ (r = 0 <=> m \in OpcodeMnemonics)
  BY DEF NotFound
<1>8. opcode \in {None, "sys"} \union Operations
  BY CodeFacts
<1>9. m \in OpcodeMnemonics => opcode = m
  BY DEF Codes
<1> HIDE DEF c, p, m, r
<1> SUFFICES RefusedSilently(f) \/ RefusedLoudly(f) \/ AssembledRightly(f) \/ AssembledWrongly(f)
  BY <1>3, <1>4
<1>10. CASE ~IsLetters(c)
  <2>1. m = None /\ opcode = None /\ r = 0
    BY <1>6, <1>7, <1>9, <1>10, MnemonicsAreLetters
  <2>2. AssembleWith(None, p, 0)
    BY <1>1, <2>1, MnemonicsAreLetters
  <2>3. Refuse(0)
    BY <2>2, WithFacts
  <2>4. Bad(f)
    BY <1>2, <1>3, <1>10, NoSuchMnemonic
  <2>5. NoMnemonic(f)
    BY <1>2, <1>3, <1>10 DEF NoMnemonic
  <2>6. QED
    BY <2>3, <2>4, <2>5 DEF RefusedSilently
<1>11. CASE IsLetters(c) /\ opcode # "sys"
  <2>1. p = position + 1 /\ m = c /\ AssembleWith(opcode, p, r)
    BY <1>1, <1>6, <1>11
  <2>2. Goes(p)
    BY <1>3, <2>1 DEF Goes, Full
  <2>3. CASE c \in OpcodeMnemonics
    <3>1. opcode = c /\ r = 0 /\ opcode \in Operations
      BY <1>5, <1>7, <1>8, <1>9, <1>11, <2>1, <2>3
    <3>2. opcode \notin {"hi", "dbg"}
      <4>1. "hi" \notin OpcodeMnemonics /\ "dbg" \notin OpcodeMnemonics
        BY Zenon DEF OpcodeMnemonics
      <4>2. QED
        BY <2>3, <3>1, <4>1
    <3>3. Seen(p) = Spelled(opcode)
      BY <1>3, <2>1, <3>1, <3>2, SpelledIs
    <3>4. AssembleWith(opcode, p, 0)
      BY <2>1, <3>1
    <3>5. QED
      BY <1>3, <1>4, <2>2, <3>1, <3>3, <3>4, GoesRight
  <2>4. CASE c \notin OpcodeMnemonics
    <3>1. Bad(f) /\ UnknownMnemonic(f)
      BY <1>2, <1>3, <1>11, <2>4, NoSuchMnemonic DEF UnknownMnemonic
    <3>2. r \in Nat \ {0}
      BY <1>7, <2>1, <2>4
    <3>3. opcode \in Operations \union {None}
      BY <1>8, <1>11
    <3>4. QED
      BY <2>1, <2>2, <3>1, <3>2, <3>3, GoesWrong
  <2>5. QED
    BY <2>3, <2>4
<1>12. CASE IsLetters(c) /\ opcode = "sys"
  <2> DEFINE q == SkipSeparator(p)
             w == MnemonicAt(q)
             e == AfterMnemonic(q)
             s == r + NotFound(SyscallMnemonics, w)
  <2>1. p = position + 1 /\ m = c
    BY <1>6, <1>12
  <2>2. PICK call \in Codes(SyscallMnemonics, w) : AssembleWith(call, e, s)
    BY <1>1, <1>12 DEF AssembleSyscall
  <2>3. NotFound(SyscallMnemonics, w) \in {0, 1}
        /\ (NotFound(SyscallMnemonics, w) = 0 <=> w \in SyscallMnemonics)
    BY DEF NotFound
  <2>4. call \in Operations \union {None} /\ (w \in SyscallMnemonics => call = w)
    BY CodeFacts DEF Codes
  <2>5. s \in Nat /\ (s = 0 <=> r = 0 /\ w \in SyscallMnemonics)
    BY <1>7, <2>3
  <2>6. CASE c \in OpcodeMnemonics
    <3>1. c = "sys" /\ r = 0
      BY <1>7, <1>9, <1>12, <2>1, <2>6
    <3>2. /\ q \in 0 .. Len(text) /\ LexemeAt(q) \notin Blank
          /\ e \in 0 .. Len(text) /\ LineAt(e) = LineAt(position) /\ Seen(e) # << >>
          /\ w \in SyscallMnemonics => Seen(e) = Spelled(w)
          /\ w \notin SyscallMnemonics =>
                Bad(f) /\ (UnknownMnemonic(f) \/ (e = q /\ ~Ends(q)))
      BY <1>2, <2>1, <3>1, SyscallRead DEF c
    <3> HIDE DEF e, s
    <3>3. Goes(e)
      BY <3>2 DEF Goes
    <3>4. CASE w \in SyscallMnemonics
      <4>1. call = w /\ s = 0 /\ call \in Operations
        BY <2>4, <2>5, <3>1, <3>4, MnemonicsAreLetters
      <4>2. Seen(e) = Spelled(call) /\ AssembleWith(call, e, 0)
        BY <2>2, <3>2, <3>4, <4>1
      <4>3. QED
        BY <1>3, <1>4, <3>3, <4>1, <4>2, GoesRight
    <3>5. CASE w \notin SyscallMnemonics
      <4>1. s \in Nat \ {0}
        BY <2>5, <3>5
      <4>2. UnknownMnemonic(f) \/ (SkipSeparator(e) = e /\ ~Ends(e))
        BY <3>2, <3>5, Skipping
      <4>3. Bad(f)
        BY <3>2, <3>5
      <4>4. QED
        BY <2>2, <2>4, <3>3, <4>1, <4>2, <4>3, GoesWrong
    <3>6. QED
      BY <3>4, <3>5
  <2>7. CASE c \notin OpcodeMnemonics
    <3>1. Bad(f) /\ UnknownMnemonic(f)
      BY <1>2, <1>3, <1>12, <2>7, NoSuchMnemonic DEF UnknownMnemonic
    <3>2. s \in Nat \ {0}
      BY <1>7, <2>1, <2>5, <2>7
    <3>3. p \in 0 .. Len(text) /\ LineAt(p) = LineAt(position) /\ Full(Seen(p))
      BY <1>3, <2>1
    <3>4. q \in 0 .. Len(text) /\ LineAt(q) = LineAt(position) /\ Seen(q) # << >>
      <4>1. q \in 0 .. Len(text)
        BY <3>3, Skipping
      <4>2. LineAt(q) = LineAt(p) /\ Seen(q) = IF q = p THEN Seen(p) ELSE Separated(Seen(p))
        BY <3>3, SkippingReads DEF Legible
      <4>3. Separated(Seen(p)) # << >>
        BY <3>3, LinesAre, SeparatedTwice DEF Legible, Full
      <4>4. QED
        BY <3>3, <4>1, <4>2, <4>3 DEF Full
    <3>5. e \in 0 .. Len(text) /\ LineAt(e) = LineAt(q) /\ Seen(e) # << >>
      BY <3>4, MnemonicRead
    <3>6. Goes(e)
      BY <3>4, <3>5 DEF Goes
    <3> HIDE DEF e, s
    <3>7. QED
      BY <2>2, <2>4, <3>1, <3>2, <3>6, GoesWrong
  <2>8. QED
    BY <2>6, <2>7
<1>13. QED
  BY <1>10, <1>11, <1>12

-----------------------------------------------------------------------------
(* What was assembled agrees with the first n of the lines.                *)

LinesAgree(F, n) ==
    /\ \A k \in 1 .. n : F[k] = << >> \/ IsReference(F[k]) \/ IsInstruction(F[k])
    /\ source = Resolved(Instructions(F)[n])
    /\ \A j \in 1 .. Len(Instructions(F)[n]) :
          Instructions(F)[n][j].op = "loc" => Instructions(F)[n][j].arg \in DOMAIN symbols

LabelsAgree(F, n) ==
    /\ \A k \in 1 .. n :
          IsReference(F[k]) =>
              /\ Tail(F[k]) \in DOMAIN symbols
              /\ placed[symbols[Tail(F[k])] + 1] = Len(Instructions(F)[k])
    /\ \A name \in DOMAIN symbols :
          placed[symbols[name] + 1] # -1 => \E k \in 1 .. n : IsReference(F[k]) /\ Tail(F[k]) = name
    /\ \A k, m \in 1 .. n : k # m /\ F[k] = F[m] => ~IsReference(F[k])
    /\ \A a, b \in DOMAIN symbols : symbols[a] = symbols[b] => a = b

(* The symbols met stay those of their names.                              *)
SymbolsStand ==
    \A name \in DOMAIN symbols : name \in DOMAIN symbols' /\ symbols'[name] = symbols[name]

LEMMA LinesStay ==
    ASSUME NEW F, NEW n, Len(Instructions(F)[n]) \in Nat,
           DOMAIN Instructions(F)[n] = 1 .. Len(Instructions(F)[n]),
           LinesAgree(F, n), source' = source, SymbolsStand
    PROVE  LinesAgree(F, n)'
<1> DEFINE s == Instructions(F)[n]
           Now(k) == [s[k] EXCEPT !.arg = IF s[k].op = "loc" THEN symbols[@] ELSE @]
           Then(k) == [s[k] EXCEPT !.arg = IF s[k].op = "loc" THEN symbols'[@] ELSE @]
<1>1. \A k \in DOMAIN s : Now(k) = Then(k)
  <2> SUFFICES ASSUME NEW k \in DOMAIN s PROVE Now(k) = Then(k)
    OBVIOUS
  <2> DEFINE x == s[k]
  <2>1. x.op = "loc" => symbols'[x.arg] = symbols[x.arg]
    BY DEF LinesAgree, SymbolsStand
  <2> HIDE DEF x, s
  <2>2. [x EXCEPT !.arg = IF x.op = "loc" THEN symbols[@] ELSE @] =
        [x EXCEPT !.arg = IF x.op = "loc" THEN symbols'[@] ELSE @]
    BY <2>1
  <2>3. QED
    BY <2>2 DEF x
<1>2. [k \in DOMAIN s |-> Now(k)] = [k \in DOMAIN s |-> Then(k)]
  <2> HIDE DEF Now, Then, s
  <2>1. QED
    BY <1>1
<1>3. Resolved(s) = [k \in DOMAIN s |-> Now(k)]
  BY Zenon DEF Resolved
<1>4. Resolved(s)' = [k \in DOMAIN s |-> Then(k)]
  BY Zenon DEF Resolved
<1>5. source' = Resolved(s)'
  BY <1>2, <1>3, <1>4, Zenon DEF LinesAgree
<1>6. \A j \in 1 .. Len(s) : s[j].op = "loc" => s[j].arg \in DOMAIN symbols'
  BY DEF LinesAgree, SymbolsStand
<1>7. QED
  BY <1>5, <1>6, Zenon DEF LinesAgree

(* A line that is no instruction adds nothing.                             *)
LEMMA LineAddsNothing ==
    ASSUME NEW F \in Seq(Seq(Lexeme)), NEW n \in 1 .. Len(F), LinesAgree(F, n - 1),
           F[n] = << >> \/ IsReference(F[n]), ~IsInstruction(F[n])
    PROVE  LinesAgree(F, n) /\ Instructions(F)[n] = Instructions(F)[n - 1]
<1> DEFINE I == Instructions(F)
<1>1. I[n] = I[n - 1]
  <2>1. I[n] = More(I[n - 1], F[n])
    BY InstructionsUnfold
  <2>2. QED
    BY <2>1, Zenon DEF More
<1>2. \A k \in 1 .. n : k \in 1 .. n - 1 \/ k = n
  OBVIOUS
<1>3. \A k \in 1 .. n : F[k] = << >> \/ IsReference(F[k]) \/ IsInstruction(F[k])
  BY <1>2, Zenon DEF LinesAgree
<1> HIDE DEF I
<1>4. source = Resolved(I[n])
  BY <1>1, Zenon DEF LinesAgree, I
<1>5. \A j \in 1 .. Len(I[n]) : I[n][j].op = "loc" => I[n][j].arg \in DOMAIN symbols
  BY <1>1, Zenon DEF LinesAgree, I
<1>6. QED
  BY <1>1, <1>3, <1>4, <1>5, Zenon DEF LinesAgree, I

(* An instruction that is a line more.                                     *)
LEMMA LineAddsInstruction ==
    ASSUME NEW F \in Seq(Seq(Lexeme)), NEW n \in 1 .. Len(F), LinesAgree(F, n - 1),
           NEW op, NEW m, NEW x, InstructionsIn(F[n]) = {[op |-> op, arg |-> m]},
           source' = Append(source, [op |-> op, arg |-> x]), SymbolsStand,
           op # "loc" => x = m, op = "loc" => m \in DOMAIN symbols' /\ symbols'[m] = x
    PROVE  LinesAgree(F, n)'
<1> DEFINE I == Instructions(F)
           s == I[n - 1]
           y == [op |-> op, arg |-> m]
           t == Append(s, y)
           Then(z) == [z EXCEPT !.arg = IF z.op = "loc" THEN symbols'[@] ELSE @]
           Now(z) == [z EXCEPT !.arg = IF z.op = "loc" THEN symbols[@] ELSE @]
<1>1. IsInstruction(F[n]) /\ InstructionIn(F[n]) = y
  BY Zenon DEF IsInstruction, InstructionIn
<1>2. I[n] = t
  <2>1. I[n] = More(I[n - 1], F[n])
    BY InstructionsUnfold
  <2>2. QED
    BY <1>1, <2>1, Zenon DEF More
<1>3. s \in Seq(Spells(F)) /\ y \in Spells(F)
  <2>1. n - 1 \in 0 .. Len(F) /\ n \in DOMAIN F
    OBVIOUS
  <2>2. y \in Spells(F)
    BY <1>1, <2>1, Zenon DEF Spells
  <2>3. QED
    BY <2>1, <2>2, InstructionsUnfold
<1>4. /\ t \in Seq(Spells(F)) /\ Len(t) = Len(s) + 1 /\ t[Len(s) + 1] = y
      /\ \A j \in 1 .. Len(s) : t[j] = s[j]
  BY <1>3, AppendProperties
<1>5. Len(s) \in Nat /\ DOMAIN s = 1 .. Len(s) /\ DOMAIN t = 1 .. Len(s) + 1
  BY <1>3, <1>4
<1>6. \A k \in 1 .. n : F[k] = << >> \/ IsReference(F[k]) \/ IsInstruction(F[k])
  <2>1. \A k \in 1 .. n : k \in 1 .. n - 1 \/ k = n
    OBVIOUS
  <2>2. QED
    BY <1>1, <2>1, Zenon DEF LinesAgree
<1>7. /\ source = Resolved(s)
      /\ \A j \in 1 .. Len(s) : s[j].op = "loc" => s[j].arg \in DOMAIN symbols
  BY DEF LinesAgree
<1>8. \A j \in 1 .. Len(s) : Now(s[j]) = Then(s[j])
  <2> SUFFICES ASSUME NEW j \in 1 .. Len(s) PROVE Now(s[j]) = Then(s[j])
    OBVIOUS
  <2> DEFINE z == s[j]
  <2>1. z.op = "loc" => symbols'[z.arg] = symbols[z.arg]
    BY <1>7 DEF SymbolsStand
  <2> HIDE DEF z, s
  <2>2. [z EXCEPT !.arg = IF z.op = "loc" THEN symbols[@] ELSE @] =
        [z EXCEPT !.arg = IF z.op = "loc" THEN symbols'[@] ELSE @]
    BY <2>1
  <2>3. QED
    BY <2>2 DEF z
<1>9. Then(y) = [op |-> op, arg |-> x]
  BY SMT
<1>10. Resolved(s) = [k \in DOMAIN s |-> Now(s[k])]
  BY Zenon DEF Resolved
<1>11. Resolved(t)' = [k \in DOMAIN t |-> Then(t[k])]
  BY Zenon DEF Resolved
<1> HIDE DEF s, y, t, I
<1> HIDE DEF Now, Then
<1>12. source' = Resolved(t)'
  <2> DEFINE a == [k \in 1 .. Len(s) |-> Now(s[k])]
             b == [k \in 1 .. Len(s) + 1 |-> Then(t[k])]
             v == [op |-> op, arg |-> x]
             V == {a[k] : k \in 1 .. Len(s)} \union {v}
  <2>1. source' = Append(a, v) /\ Resolved(t)' = b
    BY <1>5, <1>7, <1>10, <1>11
  <2>2. a \in Seq(V) /\ Len(a) = Len(s) /\ v \in V
    BY <1>5
  <2> HIDE DEF v
  <2>3. /\ Append(a, v) \in Seq(V) /\ Len(Append(a, v)) = Len(s) + 1 /\ Append(a, v)[Len(s) + 1] = v
        /\ \A k \in 1 .. Len(s) : Append(a, v)[k] = a[k]
    <3>1. a \in Seq(V) /\ v \in V
      BY <2>2
    <3> HIDE DEF a, V
    <3>2. /\ Append(a, v) \in Seq(V) /\ Len(Append(a, v)) = Len(a) + 1 /\ Append(a, v)[Len(a) + 1] = v
          /\ \A k \in 1 .. Len(a) : Append(a, v)[k] = a[k]
      BY <3>1, AppendProperties
    <3>3. Len(a) = Len(s)
      BY <2>2
    <3>4. QED
      BY <3>2, <3>3
  <2>4. \A k \in 1 .. Len(s) : a[k] = Then(t[k])
    BY <1>4, <1>8
  <2>5. Then(t[Len(s) + 1]) = v
    BY <1>4, <1>9 DEF v
  <2>6. \A k \in 1 .. Len(s) + 1 : b[k] = Then(t[k])
    OBVIOUS
  <2>7. \A k \in 1 .. Len(s) + 1 : k \in 1 .. Len(s) \/ k = Len(s) + 1
    BY <1>5
  <2>8. \A k \in 1 .. Len(s) + 1 : Append(a, v)[k] = b[k]
    <3> HIDE DEF a, b
    <3>1. QED
      BY <2>3, <2>4, <2>5, <2>6, <2>7
  <2>9. b = [k \in 1 .. Len(s) + 1 |-> b[k]] /\ Append(a, v) = [k \in 1 .. Len(s) + 1 |-> Append(a, v)[k]]
    <3>1. b = [k \in 1 .. Len(s) + 1 |-> b[k]]
      OBVIOUS
    <3> HIDE DEF a, b, V
    <3> DEFINE w == Append(a, v)
    <3>2. w = [k \in 1 .. Len(s) + 1 |-> w[k]]
      <4>1. w \in Seq(V) /\ Len(w) = Len(s) + 1
        BY <2>3
      <4> HIDE DEF w
      <4>2. w \in [1 .. Len(w) -> V]
        BY <4>1
      <4>3. QED
        BY <4>1, <4>2
    <3>3. QED
      BY <3>1, <3>2
  <2> HIDE DEF a, b
  <2>10. Append(a, v) = b
    BY <2>8, <2>9
  <2>11. QED
    BY <2>1, <2>10
<1>13. \A j \in 1 .. Len(t) : t[j].op = "loc" => t[j].arg \in DOMAIN symbols'
  <2> SUFFICES ASSUME NEW j \in 1 .. Len(t), t[j].op = "loc" PROVE t[j].arg \in DOMAIN symbols'
    OBVIOUS
  <2>1. CASE j \in 1 .. Len(s)
    BY <1>4, <1>7, <2>1 DEF SymbolsStand
  <2>2. CASE j = Len(s) + 1
    BY <1>4, <2>2 DEF y
  <2>3. QED
    BY <1>4, <1>5, <2>1, <2>2
<1>14. QED
  BY <1>2, <1>6, <1>12, <1>13, Zenon DEF LinesAgree, I

-----------------------------------------------------------------------------
(* Labels.                                                                 *)

LEMMA PlacesAre ==
    ASSUME IInv
    PROVE  /\ source \in Seq(Instruction) /\ Len(source) \in Nat /\ next_symbol \in Nat
           /\ placed \in Seq(Int) /\ Len(placed) = next_symbol
           /\ \A s \in Symbols : /\ s + 1 \in 1 .. next_symbol
                                 /\ placed[s + 1] \in -1 .. Len(source)
                                 /\ IsUnset(s) => placed[s + 1] = -1
                                 /\ ~IsUnset(s) => placed[s + 1] # -1
<1>1. PICK st, at : Good(st, at)
  BY DEF IInv
<1>2. /\ source \in Seq(Instruction) /\ Len(source) \in Nat /\ next_symbol \in Nat
      /\ placed \in Seq(Int) /\ Len(placed) = next_symbol
      /\ \A s \in 1 .. next_symbol :
            \/ placed[s] = -1 /\ symbol_locations[s] = UNSET_LOCATION
            \/ placed[s] \in 0 .. Len(source) /\ symbol_locations[s] = st[placed[s]]
  BY <1>1 DEF Good, SourceOK, SymbolsOK
<1>3. \A k \in 0 .. Len(source) : st[k] < UNSET_LOCATION
  BY <1>1, StartFacts DEF Good
<1>4. ASSUME NEW s \in Symbols
      PROVE  /\ s + 1 \in 1 .. next_symbol /\ placed[s + 1] \in -1 .. Len(source)
             /\ IsUnset(s) => placed[s + 1] = -1
             /\ ~IsUnset(s) => placed[s + 1] # -1
  <2>1. s + 1 \in 1 .. next_symbol
    BY <1>2 DEF Symbols
  <2>2. CASE placed[s + 1] = -1 /\ symbol_locations[s + 1] = UNSET_LOCATION
    BY <1>2, <2>1, <2>2 DEF IsUnset
  <2>3. CASE placed[s + 1] \in 0 .. Len(source) /\ symbol_locations[s + 1] = st[placed[s + 1]]
    <3>1. symbol_locations[s + 1] # UNSET_LOCATION
      <4> DEFINE u == st[placed[s + 1]]
      <4>1. u < UNSET_LOCATION /\ symbol_locations[s + 1] = u
        BY <1>3, <2>3
      <4>2. u \in Nat /\ UNSET_LOCATION \in Int
        <5>1. u \in Nat
          BY <1>1, <2>3 DEF Good, Layout
        <5>2. Base ^ WordLen \in Nat
          BY PowersArePositive, Constants
        <5>3. QED
          BY <5>1, <5>2 DEF UNSET_LOCATION
      <4> HIDE DEF u
      <4>3. QED
        BY <4>1, <4>2
    <3>2. QED
      BY <1>2, <2>1, <2>3, <3>1 DEF IsUnset
  <2>4. QED
    BY <1>2, <2>1, <2>2, <2>3
<1>5. QED
  BY <1>2, <1>4

LEMMA SameReference ==
    ASSUME NEW S, NEW l \in Seq(S), NEW m \in Seq(S), IsReference(l), IsReference(m), Tail(l) = Tail(m)
    PROVE  l = m
<1>1. l # << >> /\ m # << >> /\ l[1] = ":" /\ m[1] = ":"
  <2>1. l # << >> /\ m # << >> /\ Head(l) = ":" /\ Head(m) = ":"
    BY Zenon DEF IsReference
  <2>2. QED
    BY <2>1
<1>2. /\ Len(Tail(l)) = Len(l) - 1 /\ \A j \in 1 .. Len(Tail(l)) : Tail(l)[j] = l[j + 1]
      /\ Len(Tail(m)) = Len(m) - 1 /\ \A j \in 1 .. Len(Tail(m)) : Tail(m)[j] = m[j + 1]
  BY <1>1, HeadTailProperties
<1>3. Len(l) \in Nat /\ Len(m) \in Nat /\ Len(l) = Len(m)
  <2>1. Len(l) \in Nat /\ Len(m) \in Nat
    OBVIOUS
  <2>2. Len(l) - 1 = Len(m) - 1
    BY <1>2, Zenon
  <2>3. QED
    BY <2>1, <2>2
<1>4. \A j \in 1 .. Len(l) : l[j] = m[j]
  <2> SUFFICES ASSUME NEW j \in 1 .. Len(l) PROVE l[j] = m[j]
    OBVIOUS
  <2>1. CASE j = 1
    BY <1>1, <2>1
  <2>2. CASE j # 1
    <3>1. j - 1 \in 1 .. Len(Tail(l)) /\ (j - 1) + 1 = j /\ j - 1 \in 1 .. Len(Tail(m))
      BY <1>2, <1>3, <2>2
    <3>2. Tail(l)[j - 1] = l[(j - 1) + 1] /\ Tail(m)[j - 1] = m[(j - 1) + 1]
      BY <1>2, <3>1
    <3>3. QED
      BY <3>1, <3>2
  <2>3. QED
    BY <2>1, <2>2
<1>5. QED
  BY <1>3, <1>4, SeqEqual

(* A line that is no label adds none.                                      *)
LEMMA LineAddsNoLabel ==
    ASSUME NEW F, NEW n \in Nat \ {0}, LabelsAgree(F, n - 1), ~IsReference(F[n])
    PROVE  LabelsAgree(F, n)
<1>1. \A k \in 1 .. n : k \in 1 .. n - 1 \/ k = n
  OBVIOUS
<1>2. \A k \in 1 .. n - 1 : k \in 1 .. n
  OBVIOUS
<1>3. QED
  BY <1>1, <1>2, Zenon DEF LabelsAgree

LEMMA LabelsStay ==
    ASSUME IInv, SymbolsKnown, NEW F, NEW n, LabelsAgree(F, n),
           \/ placed' = placed /\ symbols' = symbols
           \/ MakeSymbols(1) /\ \E name : IsNew(name) /\ symbols' = WithSymbol(name)
    PROVE  LabelsAgree(F, n)' /\ SymbolsStand
<1>1. CASE placed' = placed /\ symbols' = symbols
  <2>1. LabelsAgree(F, n)'
    BY <1>1, Zenon DEF LabelsAgree
  <2>2. SymbolsStand
    BY <1>1, Zenon DEF SymbolsStand
  <2>3. QED
    BY <2>1, <2>2
<1>2. ASSUME NEW name, IsNew(name), MakeSymbols(1), symbols' = WithSymbol(name)
      PROVE  LabelsAgree(F, n)' /\ SymbolsStand
  <2>1. /\ placed \in Seq(Int) /\ Len(placed) = next_symbol /\ next_symbol \in Nat
    BY PlacesAre
  <2>2. /\ DOMAIN symbols' = DOMAIN symbols \union {name} /\ name \notin DOMAIN symbols
        /\ \A a \in DOMAIN symbols : symbols'[a] = symbols[a]
        /\ symbols'[name] = next_symbol
    BY <1>2 DEF WithSymbol, SymbolOf, IsNew
  <2>3. \A a \in DOMAIN symbols : symbols[a] \in 0 .. next_symbol - 1 /\ symbols[a] + 1 \in 1 .. next_symbol
    BY <2>1 DEF SymbolsKnown, Symbols
  <2>4. /\ \A s \in 1 .. next_symbol : placed'[s] = placed[s]
        /\ placed'[next_symbol + 1] = -1
    <3> DEFINE u == [s \in 1 .. 1 |-> -1]
    <3>1. placed' = placed \o u
      BY <1>2 DEF MakeSymbols
    <3>2. u \in Seq(Int) /\ Len(u) = 1 /\ u[1] = -1
      OBVIOUS
    <3> HIDE DEF u
    <3>3. /\ \A s \in 1 .. Len(placed) : (placed \o u)[s] = placed[s]
          /\ (placed \o u)[Len(placed) + 1] = u[1]
      <4>1. placed \in Seq(Int)
        BY <2>1
      <4>2. u \in Seq(Int)
        BY <3>2
      <4>3. Len(u) = 1 /\ 1 \in 1 .. Len(u)
        BY <3>2
      <4>4. /\ \A s \in 1 .. Len(placed) : (placed \o u)[s] = placed[s]
            /\ \A s \in 1 .. Len(u) : (placed \o u)[Len(placed) + s] = u[s]
        BY <4>1, <4>2, ConcatProperties
      <4>5. QED
        BY <4>3, <4>4
    <3>4. QED
      BY <2>1, <3>1, <3>2, <3>3
  <2>5. \A a \in DOMAIN symbols : placed'[symbols'[a] + 1] = placed[symbols[a] + 1]
    BY <2>2, <2>3, <2>4
  <2>6. placed'[symbols'[name] + 1] = -1
    BY <2>2, <2>4
  <2>7. \A k \in 1 .. n :
           IsReference(F[k]) =>
              /\ Tail(F[k]) \in DOMAIN symbols'
              /\ placed'[symbols'[Tail(F[k])] + 1] = Len(Instructions(F)[k])
    BY <2>2, <2>5, Zenon DEF LabelsAgree
  <2>8. \A a \in DOMAIN symbols' :
           placed'[symbols'[a] + 1] # -1 => \E k \in 1 .. n : IsReference(F[k]) /\ Tail(F[k]) = a
    <3>1. \A a \in DOMAIN symbols' : a \in DOMAIN symbols \/ a = name
      BY <2>2
    <3>2. \A a \in DOMAIN symbols :
             placed[symbols[a] + 1] # -1 => \E k \in 1 .. n : IsReference(F[k]) /\ Tail(F[k]) = a
      BY Zenon DEF LabelsAgree
    <3>3. QED
      BY <2>5, <2>6, <3>1, <3>2, Zenon
  <2>9. \A a, b \in DOMAIN symbols' : symbols'[a] = symbols'[b] => a = b
    <3>1. \A a \in DOMAIN symbols : symbols'[a] # next_symbol
      BY <2>1, <2>2, <2>3
    <3>2. \A a, b \in DOMAIN symbols : symbols[a] = symbols[b] => a = b
      BY Zenon DEF LabelsAgree
    <3>3. QED
      BY <2>2, <3>1, <3>2
  <2>10. \A k, m \in 1 .. n : k # m /\ F[k] = F[m] => ~IsReference(F[k])
    BY Zenon DEF LabelsAgree
  <2>11. LabelsAgree(F, n)'
    BY <2>7, <2>8, <2>9, <2>10, Zenon DEF LabelsAgree
  <2>12. SymbolsStand
    BY <2>2, Zenon DEF SymbolsStand
  <2>13. QED
    BY <2>11, <2>12
<1>3. QED
  BY <1>1, <1>2

LEMMA LineAddsLabel ==
    ASSUME IInv, SymbolsKnown, NEW F \in Seq(Seq(Lexeme)), NEW n \in 1 .. Len(F), LabelsAgree(F, n - 1),
           IsReference(F[n]), NEW name \in DOMAIN symbols, Tail(F[n]) = name,
           Len(Instructions(F)[n]) = Len(source), \A k \in 1 .. n : Len(Instructions(F)[k]) \in Nat,
           PlaceSymbol(symbols[name]), symbols' = symbols
    PROVE  LabelsAgree(F, n)'
<1> DEFINE I == Instructions(F)
           w == symbols[name]
<1>1. /\ placed \in Seq(Int) /\ Len(placed) = next_symbol /\ next_symbol \in Nat /\ Len(source) \in Nat
      /\ w \in Symbols /\ w + 1 \in 1 .. next_symbol /\ placed[w + 1] = -1
  <2>1. w \in Symbols /\ IsUnset(w)
    BY DEF SymbolsKnown, PlaceSymbol
  <2>2. QED
    BY <2>1, PlacesAre
<1>2. placed' = [placed EXCEPT ![w + 1] = Len(source)]
  BY DEF PlaceSymbol
<1>3. \A a \in DOMAIN symbols : symbols[a] + 1 \in 1 .. next_symbol /\ symbols[a] \in Nat
  <2>1. next_symbol \in Nat
    BY <1>1
  <2>2. \A a \in DOMAIN symbols : symbols[a] \in 0 .. next_symbol - 1
    BY Zenon DEF SymbolsKnown, Symbols
  <2>3. QED
    BY <2>1, <2>2
<1> HIDE DEF I, w
<1>4. /\ placed'[w + 1] = Len(source)
      /\ \A s \in 1 .. next_symbol : s # w + 1 => placed'[s] = placed[s]
  BY <1>1, <1>2
<1>5. \A a \in DOMAIN symbols : a # name => placed'[symbols[a] + 1] = placed[symbols[a] + 1]
  <2> SUFFICES ASSUME NEW a \in DOMAIN symbols, a # name
               PROVE  placed'[symbols[a] + 1] = placed[symbols[a] + 1]
    OBVIOUS
  <2>1. symbols[a] # w
    BY DEF LabelsAgree, w
  <2>2. w \in Nat
    BY <1>3 DEF w
  <2>3. symbols[a] + 1 # w + 1 /\ symbols[a] + 1 \in 1 .. next_symbol
    BY <1>3, <2>1, <2>2
  <2>4. QED
    BY <1>4, <2>3
<1>6. \A k \in 1 .. n : k \in 1 .. n - 1 \/ k = n
  OBVIOUS
<1>7. \A k \in 1 .. n - 1 : IsReference(F[k]) => Tail(F[k]) # name
  <2> SUFFICES ASSUME NEW k \in 1 .. n - 1, IsReference(F[k]), Tail(F[k]) = name PROVE FALSE
    OBVIOUS
  <2>1. placed[w + 1] = Len(I[k])
    BY DEF LabelsAgree, w, I
  <2>2. Len(I[k]) \in Nat
    BY DEF I
  <2>3. QED
    BY <1>1, <2>1, <2>2
<1>8. \A k \in 1 .. n :
         IsReference(F[k]) =>
            Tail(F[k]) \in DOMAIN symbols' /\ placed'[symbols'[Tail(F[k])] + 1] = Len(I[k])
  <2> SUFFICES ASSUME NEW k \in 1 .. n, IsReference(F[k])
               PROVE  Tail(F[k]) \in DOMAIN symbols' /\ placed'[symbols'[Tail(F[k])] + 1] = Len(I[k])
    OBVIOUS
  <2>1. CASE k = n
    BY <1>4, <2>1 DEF w, I
  <2>2. CASE k \in 1 .. n - 1
    <3>1. /\ Tail(F[k]) \in DOMAIN symbols /\ placed[symbols[Tail(F[k])] + 1] = Len(I[k])
      BY <2>2, Zenon DEF LabelsAgree, I
    <3>2. Tail(F[k]) # name
      BY <1>7, <2>2
    <3>3. QED
      BY <1>5, <3>1, <3>2
  <2>3. QED
    BY <1>6, <2>1, <2>2
<1>9. \A a \in DOMAIN symbols' :
         placed'[symbols'[a] + 1] # -1 => \E k \in 1 .. n : IsReference(F[k]) /\ Tail(F[k]) = a
  <2> SUFFICES ASSUME NEW a \in DOMAIN symbols, placed'[symbols[a] + 1] # -1
               PROVE  \E k \in 1 .. n : IsReference(F[k]) /\ Tail(F[k]) = a
    OBVIOUS
  <2>1. CASE a = name
    <3>1. n \in 1 .. n
      OBVIOUS
    <3>2. QED
      BY <2>1, <3>1
  <2>2. CASE a # name
    <3>1. placed[symbols[a] + 1] # -1
      BY <1>5, <2>2
    <3>2. PICK k \in 1 .. n - 1 : IsReference(F[k]) /\ Tail(F[k]) = a
      BY <3>1, Zenon DEF LabelsAgree
    <3>3. k \in 1 .. n
      OBVIOUS
    <3>4. QED
      BY <3>2, <3>3
  <2>3. QED
    BY <2>1, <2>2
<1>10. \A k, m \in 1 .. n : k # m /\ F[k] = F[m] => ~IsReference(F[k])
  <2> SUFFICES ASSUME NEW k \in 1 .. n, NEW m \in 1 .. n, k # m, F[k] = F[m], IsReference(F[k])
               PROVE  FALSE
    OBVIOUS
  <2>1. CASE k = n
    <3>1. m \in 1 .. n - 1
      BY <1>6, <2>1
    <3>2. QED
      BY <1>7, <2>1, <3>1
  <2>2. CASE m = n
    <3>1. k \in 1 .. n - 1
      BY <1>6, <2>2
    <3>2. QED
      BY <1>7, <2>2, <3>1
  <2>3. CASE k \in 1 .. n - 1 /\ m \in 1 .. n - 1
    BY <2>3, Zenon DEF LabelsAgree
  <2>4. QED
    BY <1>6, <2>1, <2>2, <2>3
<1>11. \A a, b \in DOMAIN symbols' : symbols'[a] = symbols'[b] => a = b
  BY DEF LabelsAgree
<1>12. QED
  BY <1>8, <1>9, <1>10, <1>11, Zenon DEF LabelsAgree, I

-----------------------------------------------------------------------------
(* The invariant: what was assembled follows from the lines that are read. *)

Malformed(F) == \E k \in 1 .. Len(F) : Bad(F[k])
Unknown(F, n) == \E k \in 1 .. n : F[k] # << >> /\ UnknownMnemonic(F[k])

(* The last line that was assembled, all of it if it is settled.           *)
Settled == new_thing \/ Ends(position)
Done == IF new_thing THEN LineAt(position) - 1 ELSE LineAt(position)

Follows(F) ==
    /\ reports \in Nat
    /\ phase # "emitting" => position = Len(text)
    /\ new_thing <=> Seen(position) = << >>
    /\ reports > 0 \/ ~Settled => Malformed(F)
    /\ \A n : n = Done =>
          /\ reports = 0 /\ Settled => LinesAgree(F, n) /\ LabelsAgree(F, n)
          /\ reports > 0 /\ Settled => Unknown(F, n)

GaveUp(F) ==
    /\ ~WellFormed(F)
    /\ reports = 0 => \E k \in DOMAIN F : F[k] # << >> /\ NoMnemonic(F[k])

TextInv ==
    \A F : F = Lines =>
        /\ user = "assembler" /\ phase # "failed" => Follows(F)
        /\ GivenUp => GaveUp(F)

LEMMA TextStays ==
    ASSUME text' = text, NEW q, position' = q
    PROVE  /\ Lines' = Lines /\ Seen(position)' = Seen(q)
           /\ Settled' = (new_thing' \/ Ends(q))
           /\ Done' = IF new_thing' THEN LineAt(q) - 1 ELSE LineAt(q)
<1>1. Reading' = Reading
  BY DEF Reading
<1>2. Lines' = Lines
  BY <1>1 DEF Lines
<1>3. Seen(position)' = Seen(q)
  BY <1>1 DEF Seen
<1>4. Ends(position)' = Ends(q)
  BY DEF Ends, SkipSeparator, LexemeAt
<1>5. Settled' = (new_thing' \/ Ends(q))
  BY <1>4 DEF Settled
<1>6. Done' = IF new_thing' THEN LineAt(q) - 1 ELSE LineAt(q)
  BY <1>1 DEF Done, LineAt
<1>7. QED
  BY <1>2, <1>3, <1>5, <1>6

LEMMA FollowsNext ==
    ASSUME text' = text, NEW q, position' = q, NEW F, reports' \in Nat,
           phase' # "emitting" => q = Len(text),
           new_thing' <=> Seen(q) = << >>,
           reports' > 0 \/ ~(new_thing' \/ Ends(q)) => Malformed(F),
           NEW n, n = IF new_thing' THEN LineAt(q) - 1 ELSE LineAt(q),
           reports' = 0 /\ (new_thing' \/ Ends(q)) => LinesAgree(F, n)' /\ LabelsAgree(F, n)',
           reports' > 0 /\ (new_thing' \/ Ends(q)) => Unknown(F, n)
    PROVE  Follows(F)'
<1>1. /\ Seen(position)' = Seen(q) /\ Settled' = (new_thing' \/ Ends(q)) /\ Done' = n
  BY TextStays
<1>2. QED
  BY <1>1 DEF Follows

LEMMA MalformedLines ==
    ASSUME NEW F \in Seq(Seq(Lexeme)), Malformed(F)
    PROVE  ~WellFormed(F)
<1>1. PICK k \in 1 .. Len(F) : Bad(F[k])
  BY DEF Malformed
<1>2. k \in DOMAIN F
  OBVIOUS
<1>3. QED
  BY <1>1, <1>2, Zenon DEF WellFormed, Bad

LEMMA BlanksEnd ==
    ASSUME Legible, NEW p \in 0 .. Len(text), p # Len(text), LexemeAt(p) \in Blank
    PROVE  Ends(p + 1) = Ends(p)
<1> DEFINE q == p + 1
           s == SkipSeparator(p)
           t == SkipSeparator(q)
<1>1. Len(text) \in Nat /\ p \in Nat /\ q \in Nat /\ p <= Len(text) /\ q <= Len(text)
  BY EndIsLast
<1>2. s \in p .. Len(text) /\ LexemeAt(s) \notin Blank /\ \A k \in p .. s - 1 : LexemeAt(k) \in Blank
  BY <1>1, SkipsBlanks
<1> HIDE DEF s
<1>3. t \in q .. Len(text) /\ LexemeAt(t) \notin Blank /\ \A k \in q .. t - 1 : LexemeAt(k) \in Blank
  <2> HIDE DEF q
  <2>1. QED
    BY <1>1, SkipsBlanks
<1> HIDE DEF t
<1>4. s # p
  BY <1>2
<1>5. ~(s < t)
  BY <1>1, <1>2, <1>3, <1>4
<1>6. ~(t < s)
  BY <1>1, <1>2, <1>3
<1>7. s = t
  BY <1>1, <1>2, <1>3, <1>5, <1>6
<1>8. QED
  BY <1>7 DEF Ends, s, t

(* A line of which nothing was read when it ends is empty.                 *)
LEMMA NothingToRead ==
    ASSUME Legible, NEW p \in 0 .. Len(text), Stop(LexemeAt(p)), NEW F, F = Lines
    PROVE  Ends(p) /\ (Seen(p) = << >> => F[LineAt(p)] = << >>)
<1>1. LexemeAt(p) \notin Blank
  BY Zenon DEF Stop, IsBreak, Blank
<1>2. Ends(p)
  BY <1>1, Skipping DEF Ends
<1>3. QED
  BY <1>2, LineEnds

LEMMA EmptyLineAdds ==
    ASSUME NEW F \in Seq(Seq(Lexeme)), NEW n \in 1 .. Len(F), F[n] = << >>,
           LinesAgree(F, n - 1), LabelsAgree(F, n - 1)
    PROVE  LinesAgree(F, n) /\ LabelsAgree(F, n)
<1>1. ~IsInstruction(F[n]) /\ ~IsReference(F[n])
  BY EmptyLine
<1>2. n \in Nat \ {0}
  OBVIOUS
<1>3. QED
  BY <1>1, <1>2, LineAddsNothing, LineAddsNoLabel

LEMMA UnknownLater ==
    ASSUME NEW F, NEW n \in Nat, NEW m \in Nat, n <= m, Unknown(F, n)
    PROVE  Unknown(F, m)
<1>1. PICK k \in 1 .. n : F[k] # << >> /\ UnknownMnemonic(F[k])
  BY DEF Unknown
<1>2. k \in 1 .. m
  OBVIOUS
<1>3. QED
  BY <1>1, <1>2 DEF Unknown

LEMMA ResolvedIs ==
    ASSUME NEW S, NEW s \in Seq(S), source = Resolved(s)
    PROVE  Len(source) = Len(s)
<1>1. DOMAIN source = 1 .. Len(s) /\ Len(s) \in Nat
  BY DEF Resolved
<1>2. source = [k \in 1 .. Len(s) |-> source[k]]
  BY DEF Resolved
<1>3. QED
  BY <1>1, <1>2

-----------------------------------------------------------------------------
(* What the instructions refer to.                                         *)

LEMMA InstructionsAreOfLines ==
    ASSUME NEW S, NEW F \in Seq(S), NEW I, I = Instructions(F), NEW n \in 0 .. Len(F)
    PROVE  \A j \in 1 .. Len(I[n]) : \E k \in 1 .. n : I[n][j] \in InstructionsIn(F[k])
<1> DEFINE Of(s, m) == \A j \in 1 .. Len(s) : \E k \in 1 .. m : s[j] \in InstructionsIn(F[k])
           T == {m \in 0 .. Len(F) : Of(I[m], m)}
<1>1. /\ I[0] = << >> /\ \A k \in 1 .. Len(F) : I[k] = More(I[k - 1], F[k])
      /\ \A k \in 0 .. Len(F) : I[k] \in Seq(Spells(F))
  BY InstructionsUnfold
<1>2. Of(I[0], 0)
  BY <1>1
<1>3. ASSUME NEW m \in 1 .. Len(F), Of(I[m - 1], m - 1) PROVE Of(I[m], m)
  <2> DEFINE s == I[m - 1]
  <2>1. I[m] = More(s, F[m]) /\ s \in Seq(Spells(F))
    <3>1. m - 1 \in 0 .. Len(F)
      OBVIOUS
    <3>2. QED
      BY <1>1, <3>1
  <2>2. Of(s, m - 1)
    BY <1>3
  <2> HIDE DEF s
  <2>3. CASE ~IsInstruction(F[m])
    <3>1. I[m] = s
      BY <2>1, <2>3 DEF More
    <3>2. \A k \in 1 .. m - 1 : k \in 1 .. m
      OBVIOUS
    <3>3. QED
      BY <2>2, <3>1, <3>2
  <2>4. CASE IsInstruction(F[m])
    <3> DEFINE x == InstructionIn(F[m])
    <3>1. x \in InstructionsIn(F[m])
      BY <2>4 DEF InstructionIn, IsInstruction
    <3>2. I[m] = Append(s, x)
      BY <2>1, <2>4 DEF More
    <3>3. x \in Spells(F)
      BY DEF Spells
    <3> HIDE DEF x
    <3>4. /\ Len(I[m]) = Len(s) + 1 /\ Len(s) \in Nat /\ I[m][Len(s) + 1] = x
          /\ \A j \in 1 .. Len(s) : I[m][j] = s[j]
      BY <2>1, <3>2, <3>3, AppendProperties
    <3>5. SUFFICES ASSUME NEW j \in 1 .. Len(s) + 1
                   PROVE  \E k \in 1 .. m : I[m][j] \in InstructionsIn(F[k])
      BY <3>4
    <3>6. CASE j = Len(s) + 1
      <4>1. m \in 1 .. m
        OBVIOUS
      <4>2. QED
        BY <3>1, <3>4, <3>6, <4>1
    <3>7. CASE j # Len(s) + 1
      <4>1. j \in 1 .. Len(s)
        BY <3>4, <3>7
      <4>2. PICK k \in 1 .. m - 1 : s[j] \in InstructionsIn(F[k])
        BY <2>2, <4>1
      <4>3. k \in 1 .. m
        OBVIOUS
      <4>4. QED
        BY <3>4, <4>1, <4>2, <4>3
    <3>8. QED
      BY <3>6, <3>7
  <2>5. QED
    BY <2>3, <2>4
<1> HIDE DEF Of
<1>4. 0 \in T
  BY <1>2
<1>5. ASSUME NEW m \in T \intersect 0 .. Len(F) - 1 PROVE m + 1 \in T
  <2> DEFINE q == m + 1
  <2>1. q \in 1 .. Len(F) /\ q - 1 = m /\ Of(I[m], m)
    OBVIOUS
  <2> HIDE DEF q
  <2>2. Of(I[q - 1], q - 1)
    BY <2>1
  <2>3. Of(I[q], q)
    BY <1>3, <2>1, <2>2
  <2>4. q \in T
    BY <2>1, <2>3
  <2>5. QED
    BY <2>4 DEF q
<1>6. n \in T
  <2> HIDE DEF T
  <2>1. Len(F) \in Nat
    OBVIOUS
  <2>2. 0 .. Len(F) \subseteq T
    BY <1>4, <1>5, <2>1, IntervalInduction
  <2>3. QED
    BY <2>2
<1>7. Of(I[n], n)
  BY <1>6
<1>8. QED
  BY <1>7 DEF Of

(* What is referred to is a name.                                          *)
LEMMA NamesAreReferredTo ==
    ASSUME NEW f \in Seq(Lexeme), NEW x \in InstructionsIn(f)
    PROVE  /\ DOMAIN x = {"op", "arg"} /\ x.op \in Operations
           /\ x.op = "loc" => x.arg \in Seq(Lexeme) /\ IsName(x.arg)
<1>1. PICK op \in Operations : Begins(Spelled(op), f)
  BY NoInstruction
<1>2. CASE ArgKind[op] = "none"
  <2>1. x = [op |-> op, arg |-> 0]
    BY <1>1, <1>2, InstructionsAre
  <2>2. op # "loc"
    BY <1>2, OperationFacts
  <2>3. QED
    BY <2>1, <2>2
<1>3. CASE ArgKind[op] # "none"
  <2> DEFINE k == Len(Spelled(op)) + 1
             z == Rest(f, k)
  <2>1. Len(Spelled(op)) < Len(f)
    BY <1>1, <1>3, InstructionsAre
  <2>2. PICK a \in SpeltArguments(op, f) : x = [op |-> op, arg |-> a]
    <3>1. x \in WithArguments(op, SpeltArguments(op, f))
      BY <1>1, <1>3, InstructionsAre, Zenon DEF WithArguments
    <3>2. QED
      BY <3>1 DEF WithArguments
  <2>3. k \in 0 .. Len(f)
    <3>1. Spelled(op) \in Seq(Lexeme)
      BY SpelledIs, Zenon
    <3>2. Len(Spelled(op)) \in Nat /\ Len(f) \in Nat
      BY <3>1
    <3>3. QED
      BY <2>1, <3>2
  <2>4. z \in Seq(Lexeme)
    <3> HIDE DEF k
    <3>1. QED
      BY <2>3, RestIs
  <2>5. op = "loc" => a \in ArgumentsIn("loc", z)
    BY <2>2, OperationFacts DEF SpeltArguments
  <2> HIDE DEF z, k
  <2>6. op = "loc" => IsReference(z) /\ a = Tail(z)
    BY <2>5, Zenon DEF ArgumentsIn
  <2>7. op = "loc" => a \in Seq(Lexeme) /\ IsName(a)
    <3>1. op = "loc" => z # << >> /\ a = Tail(z) /\ IsName(a)
      BY <2>6, Zenon DEF IsReference
    <3>2. z # << >> => Tail(z) \in Seq(Lexeme)
      BY <2>4
    <3>3. QED
      BY <3>1, <3>2
  <2>8. QED
    BY <2>2, <2>7
<1>4. QED
  BY <1>2, <1>3

LEMMA ReferenceIs ==
    ASSUME NEW w \in Seq(Lexeme), IsName(w)
    PROVE  /\ <<":">> \o w \in Seq(Lexeme)
           /\ IsReference(<<":">> \o w) /\ Tail(<<":">> \o w) = w
<1> DEFINE c == <<":">>
           l == c \o w
<1>1. ":" \in Lexeme
  BY DEF Lexeme
<1>2. c \in Seq(Lexeme) /\ Len(c) = 1 /\ c[1] = ":"
  BY <1>1, Singles
<1> HIDE DEF c
<1>3. /\ l \in Seq(Lexeme) /\ Len(l) = Len(c) + Len(w)
      /\ \A j \in 1 .. Len(c) : l[j] = c[j]
      /\ \A j \in 1 .. Len(w) : l[Len(c) + j] = w[j]
  <2>1. c \in Seq(Lexeme)
    BY <1>2
  <2>2. QED
    BY <2>1, ConcatProperties
<1> HIDE DEF l
<1>4. Len(w) \in Nat
  OBVIOUS
<1>5. l # << >> /\ l[1] = ":" /\ Len(l) = Len(w) + 1 /\ \A j \in 1 .. Len(w) : l[j + 1] = w[j]
  <2>1. 1 \in 1 .. Len(c) /\ \A j \in 1 .. Len(w) : Len(c) + j = j + 1
    BY <1>2, <1>4
  <2>2. QED
    BY <1>2, <1>3, <1>4, <2>1
<1>6. Head(l) = ":"
  BY <1>3, <1>5
<1>7. /\ Tail(l) \in Seq(Lexeme) /\ Len(Tail(l)) = Len(w)
      /\ \A j \in 1 .. Len(w) : Tail(l)[j] = w[j]
  BY <1>3, <1>4, <1>5
<1>8. Tail(l) = w
  BY <1>7, SeqEqual
<1>9. IsReference(l)
  BY <1>5, <1>6, <1>8, Zenon DEF IsReference
<1>10. QED
  BY <1>3, <1>8, <1>9 DEF l, c

(* What the lines refer to is what the code refers to.                     *)
LEMMA ReferencesAre ==
    ASSUME NEW F \in Seq(Seq(Lexeme)), NEW I, I = Instructions(F), NEW n, n = Len(F),
           LinesAgree(F, n), source \in Seq(Instruction), NEW j \in 1 .. Len(I[n])
    PROVE  /\ Len(source) = Len(I[n]) /\ I[n][j] \in Range(I[n])
           /\ I[n][j].op \in Operations /\ source[j].op = I[n][j].op
           /\ I[n][j].op = "loc" =>
                 /\ I[n][j].arg \in Seq(Lexeme) /\ IsName(I[n][j].arg)
                 /\ I[n][j].arg \in DOMAIN symbols /\ source[j].arg = symbols[I[n][j].arg]
<1>1. n \in 0 .. Len(F)
  OBVIOUS
<1>2. I[n] \in Seq(Spells(F))
  BY <1>1, InstructionsUnfold
<1>3. source = Resolved(I[n]) /\ (I[n][j].op = "loc" => I[n][j].arg \in DOMAIN symbols)
  BY DEF LinesAgree
<1>4. Len(source) = Len(I[n])
  BY <1>2, <1>3, ResolvedIs
<1>5. PICK k \in 1 .. n : I[n][j] \in InstructionsIn(F[k])
  BY <1>1, InstructionsAreOfLines
<1>6. F[k] \in Seq(Lexeme)
  BY <1>1
<1> DEFINE x == I[n][j]
<1>7. /\ DOMAIN x = {"op", "arg"} /\ x.op \in Operations
      /\ x.op = "loc" => x.arg \in Seq(Lexeme) /\ IsName(x.arg)
  BY <1>5, <1>6, NamesAreReferredTo
<1>8. source[j] = [x EXCEPT !.arg = IF x.op = "loc" THEN symbols[@] ELSE @]
  <2>1. j \in DOMAIN I[n]
    BY <1>2
  <2>2. QED
    BY <1>3, <2>1 DEF Resolved
<1>9. x \in Range(I[n])
  BY <1>2 DEF Range
<1> HIDE DEF x
<1>10. source[j].op = x.op /\ (x.op = "loc" => source[j].arg = symbols[x.arg])
  BY <1>7, <1>8
<1>11. QED
  BY <1>3, <1>4, <1>7, <1>9, <1>10 DEF x

(* The lines are well formed exactly if no symbol dangles.                 *)
LEMMA WellFormedIs ==
    ASSUME IInv, NEW F \in Seq(Seq(Lexeme)), NEW n, n = Len(F), LinesAgree(F, n), LabelsAgree(F, n)
    PROVE  WellFormed(F) <=> ~\E s \in References : Dangling(s)
<1> DEFINE I == Instructions(F)
           Target(w) == \E k, m \in DOMAIN F : k < m /\ F[k] = <<":">> \o w /\ IsInstruction(F[m])
<1>1. /\ n \in 0 .. Len(F) /\ Len(F) \in Nat /\ DOMAIN F = 1 .. n
  OBVIOUS
<1>2. /\ source \in Seq(Instruction) /\ Len(source) \in Nat
  BY PlacesAre
<1>3. I[n] \in Seq(Spells(F)) /\ Len(source) = Len(I[n]) /\ \A j \in DOMAIN I[n] : j \in 1 .. Len(I[n])
  <2>1. I[n] \in Seq(Spells(F))
    BY <1>1, InstructionsUnfold
  <2>2. source = Resolved(I[n])
    BY DEF LinesAgree
  <2>3. QED
    BY <2>1, <2>2, ResolvedIs
<1>4. \A k \in 1 .. n : /\ Len(I[k]) \in Nat /\ Len(I[k]) <= Len(source)
                        /\ Len(I[k]) < Len(source) <=> \E m \in k + 1 .. n : IsInstruction(F[m])
  <2> SUFFICES ASSUME NEW k \in 1 .. n
               PROVE  /\ Len(I[k]) \in Nat /\ Len(I[k]) <= Len(source)
                      /\ Len(I[k]) < Len(source) <=> \E m \in k + 1 .. n : IsInstruction(F[m])
    OBVIOUS
  <2>1. k \in 0 .. Len(F) /\ n \in k .. Len(F)
    OBVIOUS
  <2> HIDE DEF I
  <2>2. I = Instructions(F)
    BY DEF I
  <2>3. QED
    BY <1>3, <2>1, <2>2, InstructionsGrow
<1>5. \A j \in 1 .. Len(I[n]) :
         I[n][j].op = "loc" => (Target(I[n][j].arg) <=> ~Dangling(source[j].arg))
  <2> SUFFICES ASSUME NEW j \in 1 .. Len(I[n]), I[n][j].op = "loc"
               PROVE  Target(I[n][j].arg) <=> ~Dangling(source[j].arg)
    OBVIOUS
  <2> DEFINE w == I[n][j].arg
             s == symbols[w]
  <2>1. w \in Seq(Lexeme) /\ IsName(w) /\ w \in DOMAIN symbols /\ source[j].arg = s
    BY <1>2, ReferencesAre
  <2> HIDE DEF I
  <2> HIDE DEF w, Target
  <2>2. ASSUME Target(w) PROVE ~Dangling(s)
    <3>1. PICK k \in 1 .. n, m \in 1 .. n : k < m /\ F[k] = <<":">> \o w /\ IsInstruction(F[m])
      BY <1>1, <2>2 DEF Target
    <3>2. IsReference(F[k]) /\ Tail(F[k]) = w
      BY <2>1, <3>1, ReferenceIs
    <3>3. placed[s + 1] = Len(I[k])
      BY <3>2, Zenon DEF LabelsAgree, I
    <3>4. m \in k + 1 .. n
      BY <1>1, <3>1
    <3>5. Len(I[k]) < Len(source) /\ Len(I[k]) \in Nat
      BY <1>4, <3>1, <3>4
    <3>6. QED
      BY <1>2, <3>3, <3>5 DEF Dangling
  <2>3. ASSUME ~Dangling(s) PROVE Target(w)
    <3>1. placed[s + 1] # -1 /\ placed[s + 1] # Len(source)
      BY <2>3 DEF Dangling
    <3>2. PICK k \in 1 .. n : IsReference(F[k]) /\ Tail(F[k]) = w
      BY <2>1, <3>1, Zenon DEF LabelsAgree
    <3>3. placed[s + 1] = Len(I[k])
      BY <3>2, Zenon DEF LabelsAgree, I
    <3>4. Len(I[k]) < Len(source)
      BY <1>2, <1>4, <3>1, <3>3
    <3>5. PICK m \in k + 1 .. n : IsInstruction(F[m])
      BY <1>4, <3>4
    <3>6. k \in DOMAIN F /\ m \in DOMAIN F /\ k < m
      BY <1>1
    <3>7. F[k] = <<":">> \o w
      <4>1. F[k] \in Seq(Lexeme)
        OBVIOUS
      <4>2. QED
        BY <2>1, <3>2, <4>1, ReferenceIs, SameReference
    <3>8. QED
      BY <3>5, <3>6, <3>7 DEF Target
  <2>4. QED
    BY <2>1, <2>2, <2>3 DEF w
<1> HIDE DEF Target
<1>6. WellFormed(F) <=>
         \A x \in Range(I[n]) : ArgKind[x.op] = "loc" => Target(x.arg)
  <2>1. \A k \in DOMAIN F : F[k] = << >> \/ IsReference(F[k]) \/ IsInstruction(F[k])
    BY <1>1 DEF LinesAgree
  <2>2. \A k, m \in DOMAIN F : k # m /\ F[k] = F[m] => ~IsReference(F[k])
    BY <1>1, Zenon DEF LabelsAgree
  <2>3. QED
    BY <2>1, <2>2, Zenon DEF WellFormed, Target
<1>7. \A j \in 1 .. Len(I[n]) : /\ I[n][j].op \in Operations /\ source[j].op = I[n][j].op
                                /\ I[n][j] \in Range(I[n])
  BY <1>2, ReferencesAre
<1>8. \A x \in Range(I[n]) : \E j \in 1 .. Len(I[n]) : x = I[n][j]
  BY <1>3 DEF Range
<1> HIDE DEF I
<1>9. \A op \in Operations : ArgKind[op] = "loc" <=> op = "loc"
  BY OperationFacts
<1>10. WellFormed(F) <=> \A j \in 1 .. Len(I[n]) : I[n][j].op = "loc" => Target(I[n][j].arg)
  <2>1. \A j \in 1 .. Len(I[n]) : ArgKind[I[n][j].op] = "loc" <=> I[n][j].op = "loc"
    BY <1>7, <1>9, Zenon
  <2>2. QED
    BY <1>6, <1>7, <1>8, <2>1, Zenon
<1>11. (\E s \in References : Dangling(s)) <=>
          \E j \in 1 .. Len(I[n]) : I[n][j].op = "loc" /\ Dangling(source[j].arg)
  BY <1>3, <1>7 DEF References
<1>12. QED
  BY <1>5, <1>10, <1>11, Zenon

-----------------------------------------------------------------------------
(* Each step follows from the lines, or gives up because of them.          *)

(* What is known while a text is assembled.                                *)
LEMMA WhileAssembling ==
    ASSUME AssemblerInv, user = "assembler", phase # "failed", TextInv, NEW F, F = Lines
    PROVE  /\ Legible /\ position \in 0 .. Len(text) /\ Follows(F) /\ reports \in Nat
           /\ IInv /\ SymbolsKnown
           /\ F \in Seq(Seq(Lexeme)) /\ LineAt(position) \in 1 .. Len(F)
           /\ Len(F) \in Nat /\ DOMAIN F = 1 .. Len(F)
<1>1. Paid /\ IInv /\ SymbolsKnown
  BY DEF AssemblerInv
<1>2. Legible /\ position \in 0 .. Len(text)
  BY <1>1, TextsAreLegible DEF Paid
<1>3. Follows(F) /\ reports \in Nat
  BY DEF TextInv, Follows
<1>4. /\ Len(F) \in Nat /\ DOMAIN F = 1 .. Len(F) /\ LineAt(position) \in 1 .. Len(F)
      /\ \A k \in 1 .. Len(F) : F[k] \in Seq(Lexeme)
  BY <1>2, TheLines
<1>5. F = [k \in 1 .. Len(F) |-> F[k]]
  BY <1>4 DEF Lines
<1>6. QED
  BY <1>1, <1>2, <1>3, <1>4, <1>5

(* TextInv after a step of the assembler that goes on, or gives up.        *)
LEMMA GoesOn ==
    ASSUME NEW F, Lines' = F, user' = "assembler", phase' # "failed", Follows(F)'
    PROVE  TextInv'
<1>1. ~GivenUp'
  BY DEF GivenUp
<1>2. QED
  BY <1>1 DEF TextInv

LEMMA GivesUp ==
    ASSUME NEW F, F = Lines, text' = text, user' = "nobody" \/ phase' = "failed", ~WellFormed(F),
           reports' = 0 => \E k \in DOMAIN F : F[k] # << >> /\ NoMnemonic(F[k])
    PROVE  TextInv'
<1>1. Lines' = F
  BY TextStays
<1>2. GaveUp(F)'
  BY DEF GaveUp
<1>3. user' # "assembler" \/ phase' = "failed"
  OBVIOUS
<1>4. QED
  BY <1>1, <1>2, <1>3 DEF TextInv

LEMMA AgreesStill ==
    ASSUME NEW F, NEW n, LinesAgree(F, n), LabelsAgree(F, n), UNCHANGED <<source, placed, symbols>>
    PROVE  LinesAgree(F, n)' /\ LabelsAgree(F, n)'
  BY DEF LinesAgree, LabelsAgree, Resolved

LEMMA SkipFollows == ASSUME AssemblerInv, TextInv, Skip PROVE TextInv'
<1> DEFINE p == position
           q == p + 1
<1>1. PICK F : F = Lines
  OBVIOUS
<1>2. /\ user = "assembler" /\ phase = "emitting" /\ p < Len(text)
      /\ LexemeAt(p) \in Blank \/ IsBreak(LexemeAt(p))
      /\ position' = q /\ text' = text /\ reports' = reports
      /\ new_thing' <=> new_thing \/ IsBreak(LexemeAt(p))
      /\ user' = user /\ phase' = phase /\ UNCHANGED <<source, placed, symbols>>
  BY Zenon DEF Skip, Assembling, Emitting, vars, Here, IsBreak
<1>3. /\ Legible /\ p \in 0 .. Len(text) /\ Follows(F) /\ reports \in Nat
      /\ F \in Seq(Seq(Lexeme)) /\ LineAt(p) \in 1 .. Len(F) /\ Len(F) \in Nat
  <2>1. phase # "failed"
    BY <1>2
  <2>2. QED
    BY <1>1, <1>2, <2>1, WhileAssembling
<1>4. /\ Len(text) \in Nat /\ p \in 0 .. Len(text) - 1 /\ p # Len(text) /\ q \in 0 .. Len(text)
      /\ text \in Seq(Lexeme)
  BY <1>2, <1>3, EndIsLast DEF Legible
<1>5. /\ reports > 0 \/ ~Settled => Malformed(F)
      /\ reports = 0 /\ Settled => LinesAgree(F, Done) /\ LabelsAgree(F, Done)
      /\ reports > 0 /\ Settled => Unknown(F, Done)
      /\ new_thing <=> Seen(p) = << >>
  BY <1>3 DEF Follows
<1>6. Lines' = F
  BY <1>1, <1>2, TextStays
<1>7. SUFFICES Follows(F)'
  BY <1>2, <1>6, GoesOn
<1>8. CASE LexemeAt(p) \in Blank
  <2>1. LineAt(q) = LineAt(p) /\ (Seen(q) = << >> <=> Seen(p) = << >>) /\ Ends(q) = Ends(p)
    BY <1>3, <1>4, <1>8, BlankIsRead, BlanksEnd, SeparatedTwice, LinesAre
  <2>2. new_thing' <=> new_thing
    <3>1. ~IsBreak(LexemeAt(p))
      BY <1>8, Zenon DEF IsBreak, Blank
    <3>2. QED
      BY <1>2, <3>1
  <2>3. PICK n : n = Done
    OBVIOUS
  <2>4. n = IF new_thing' THEN LineAt(q) - 1 ELSE LineAt(q)
    BY <2>1, <2>2, <2>3 DEF Done
  <2>5. Settled <=> new_thing' \/ Ends(q)
    BY <2>1, <2>2 DEF Settled
  <2>6. new_thing' <=> Seen(q) = << >>
    BY <1>5, <2>1, <2>2
  <2>7. reports' = 0 /\ (new_thing' \/ Ends(q)) => LinesAgree(F, n)' /\ LabelsAgree(F, n)'
    BY <1>2, <1>5, <2>3, <2>5, AgreesStill
  <2>8. phase' = "emitting"
    BY <1>2
  <2>9. /\ reports' > 0 \/ ~(new_thing' \/ Ends(q)) => Malformed(F)
        /\ reports' > 0 /\ (new_thing' \/ Ends(q)) => Unknown(F, n)
    BY <1>2, <1>5, <2>3, <2>5
  <2> HIDE DEF q
  <2>10. QED
    BY <1>2, <1>3, <2>4, <2>6, <2>7, <2>8, <2>9, FollowsNext
<1>9. CASE IsBreak(LexemeAt(p))
  <2>n. PICK n : n = LineAt(p)
    OBVIOUS
  <2>1. LineAt(q) = n + 1 /\ Seen(q) = << >>
    BY <2>n, <1>4, <1>9, ReadsOne
  <2>2. Ends(p) /\ (Seen(p) = << >> => F[n] = << >>)
    BY <2>n, <1>1, <1>3, <1>9, NothingToRead DEF Stop
  <2>3. Settled /\ (Done = n \/ (Done = n - 1 /\ F[n] = << >>))
    BY <2>n, <1>5, <2>2 DEF Settled, Done
  <2>4. n \in 1 .. Len(F) /\ n \in Nat /\ n - 1 \in Nat
    BY <2>n, <1>3
  <2>5. new_thing'
    BY <1>2, <1>9
  <2> HIDE DEF p, q
  <2>6. reports = 0 => LinesAgree(F, n) /\ LabelsAgree(F, n)
    BY <1>3, <1>5, <2>3, <2>4, EmptyLineAdds
  <2>7. reports > 0 => Unknown(F, n)
    <3>1. CASE Done = n
      BY <1>5, <2>3, <3>1
    <3>2. CASE Done = n - 1
      <4>1. reports > 0 => Unknown(F, n - 1)
        BY <1>5, <2>3, <3>2
      <4>2. n - 1 <= n
        BY <2>4
      <4>3. QED
        BY <2>4, <4>1, <4>2, UnknownLater
    <3>3. QED
      BY <2>3, <3>1, <3>2
  <2>8. n = IF new_thing' THEN LineAt(q) - 1 ELSE LineAt(q)
    BY <2>1, <2>4, <2>5
  <2>9. reports' = 0 => LinesAgree(F, n)' /\ LabelsAgree(F, n)'
    BY <1>2, <2>6, AgreesStill
  <2>10. phase' = "emitting" /\ (new_thing' <=> Seen(q) = << >>)
    BY <1>2, <2>1, <2>5
  <2>11. /\ reports' > 0 \/ ~(new_thing' \/ Ends(q)) => Malformed(F)
         /\ reports' > 0 => Unknown(F, n)
    BY <1>2, <1>5, <2>5, <2>7
  <2>12. QED
    BY <1>2, <1>3, <2>8, <2>9, <2>10, <2>11, FollowsNext
<1>10. QED
  BY <1>2, <1>8, <1>9

LEMMA PlainHere ==
    ASSUME Legible, position \in 0 .. Len(text), position < Len(text), Here \notin Blank \union {"\n"}
    PROVE  /\ LexemeAt(position) = Here /\ position # Len(text)
           /\ Plain(LexemeAt(position)) /\ ~Ends(position)
<1>1. LexemeAt(position) = Here /\ Plain(LexemeAt(position))
  BY Zenon DEF Here, Plain, IsBreak
<1>2. position # Len(text) /\ LexemeAt(position) # "end"
  BY EndIsLast
<1>3. ~Ends(position)
  <2>1. LexemeAt(position) \notin Blank
    BY <1>1 DEF Plain
  <2>2. SkipSeparator(position) = position
    BY <2>1, Skipping
  <2>3. QED
    BY <1>1, <1>2, <2>2 DEF Ends, Stop, Plain
<1>4. QED
  BY <1>1, <1>2, <1>3

LEMMA SecondFollows == ASSUME AssemblerInv, TextInv, RefuseSecond PROVE TextInv'
<1>1. PICK F : F = Lines
  OBVIOUS
<1>2. /\ user = "assembler" /\ phase = "emitting" /\ position < Len(text)
      /\ Here \notin Blank \union {"\n"} /\ ~new_thing /\ Refuse(1)
  BY Zenon DEF RefuseSecond, Assembling, Emitting
<1>3. /\ Legible /\ position \in 0 .. Len(text) /\ Follows(F) /\ reports \in Nat
      /\ F \in Seq(Seq(Lexeme))
  <2>1. phase # "failed"
    BY <1>2
  <2>2. QED
    BY <1>1, <1>2, <2>1, WhileAssembling
<1>4. ~Settled
  BY <1>2, <1>3, PlainHere DEF Settled
<1>5. ~WellFormed(F)
  BY <1>3, <1>4, MalformedLines DEF Follows
<1>6. reports' # 0 /\ user' = "nobody" /\ text' = text
  BY <1>2, <1>3 DEF Refuse
<1>7. QED
  BY <1>1, <1>5, <1>6, GivesUp

(* What is known when the first thing of a line is met.                    *)
LEMMA WhenMet ==
    ASSUME AssemblerInv, TextInv, Thing, NEW F, F = Lines, NEW n, n = LineAt(position)
    PROVE  /\ user = "assembler" /\ phase = "emitting" /\ new_thing
           /\ Legible /\ position \in 0 .. Len(text) /\ reports \in Nat /\ IInv /\ SymbolsKnown
           /\ F \in Seq(Seq(Lexeme)) /\ n \in 1 .. Len(F) /\ Len(F) \in Nat
           /\ position # Len(text) /\ Plain(LexemeAt(position)) /\ ~Ends(position)
           /\ Seen(position) = << >> /\ LexemeAt(position) = Here
           /\ reports = 0 => LinesAgree(F, n - 1) /\ LabelsAgree(F, n - 1)
           /\ reports > 0 => Malformed(F) /\ Unknown(F, n - 1) /\ Unknown(F, n)
<1>1. /\ user = "assembler" /\ phase = "emitting" /\ phase # "failed" /\ position < Len(text)
      /\ Here \notin Blank \union {"\n"} /\ new_thing
  BY Zenon DEF Thing, Assembling, Emitting
<1>2. /\ Legible /\ position \in 0 .. Len(text) /\ Follows(F) /\ reports \in Nat
      /\ F \in Seq(Seq(Lexeme)) /\ n \in 1 .. Len(F) /\ Len(F) \in Nat /\ IInv /\ SymbolsKnown
  BY <1>1, WhileAssembling
<1>3. /\ LexemeAt(position) = Here /\ position # Len(text)
      /\ Plain(LexemeAt(position)) /\ ~Ends(position)
  BY <1>1, <1>2, PlainHere
<1>4. Settled /\ Done = n - 1
  BY <1>1 DEF Settled, Done
<1>5. /\ Seen(position) = << >>
      /\ reports = 0 => LinesAgree(F, n - 1) /\ LabelsAgree(F, n - 1)
      /\ reports > 0 => Malformed(F) /\ Unknown(F, n - 1)
  BY <1>1, <1>2, <1>4 DEF Follows
<1>6. reports > 0 => Unknown(F, n)
  <2>1. n - 1 \in Nat /\ n \in Nat /\ n - 1 <= n
    BY <1>2
  <2>2. QED
    BY <1>5, <2>1, UnknownLater
<1>7. QED
  BY <1>1, <1>2, <1>3, <1>5, <1>6

LEMMA MeetFollows == ASSUME AssemblerInv, TextInv, MeetLabel PROVE TextInv'
<1>1. PICK F : F = Lines
  OBVIOUS
<1>2. PICK n, p : n = LineAt(position) /\ p = position
  OBVIOUS
<1>3. /\ Thing /\ MakeSymbols(1) /\ IsNew(LabelName) /\ symbols' = WithSymbol(LabelName)
      /\ phase' = phase /\ source' = source /\ user' = user /\ text' = text
      /\ position' = p /\ reports' = reports /\ new_thing' = new_thing
  BY <1>2 DEF MeetLabel
<1>4. /\ user = "assembler" /\ phase = "emitting" /\ new_thing /\ reports \in Nat
      /\ IInv /\ SymbolsKnown /\ Seen(p) = << >>
      /\ F \in Seq(Seq(Lexeme)) /\ n \in 1 .. Len(F)
      /\ reports = 0 => LinesAgree(F, n - 1) /\ LabelsAgree(F, n - 1)
      /\ reports > 0 => Malformed(F) /\ Unknown(F, n - 1)
  BY <1>1, <1>2, <1>3, WhenMet
<1>5. reports = 0 => LinesAgree(F, n - 1)' /\ LabelsAgree(F, n - 1)'
  <2>1. SUFFICES ASSUME reports = 0 PROVE LinesAgree(F, n - 1)' /\ LabelsAgree(F, n - 1)'
    OBVIOUS
  <2> DEFINE m == n - 1
  <2>2. m \in 0 .. Len(F) /\ LinesAgree(F, m) /\ LabelsAgree(F, m)
    BY <1>4, <2>1
  <2> HIDE DEF m
  <2>3. LabelsAgree(F, m)' /\ SymbolsStand
    BY <1>3, <1>4, <2>2, LabelsStay
  <2>4. Instructions(F)[m] \in Seq(Spells(F))
    BY <1>4, <2>2, InstructionsUnfold
  <2>5. LinesAgree(F, m)'
    BY <1>3, <2>2, <2>3, <2>4, LinesStay
  <2>6. QED
    BY <2>3, <2>5 DEF m
<1>6. n - 1 = IF new_thing' THEN LineAt(p) - 1 ELSE LineAt(p)
  BY <1>2, <1>3, <1>4
<1>7. Follows(F)'
  BY <1>3, <1>4, <1>5, <1>6, FollowsNext
<1>8. Lines' = F
  BY <1>1, <1>3, TextStays
<1>9. QED
  BY <1>3, <1>4, <1>7, <1>8, GoesOn

(* The line of a label.                                                    *)
LEMMA LabelIsRead ==
    ASSUME Legible, NEW p \in 0 .. Len(text), p # Len(text), LexemeAt(p) = ":", Seen(p) = << >>,
           NEW f, f = Lines[LineAt(p)], NEW w, w = NameAt(p + 1), NEW e, e = NameEnd(p + 1)
    PROVE  /\ f \in Seq(Lexeme) /\ f # << >> /\ ~IsInstruction(f)
           /\ e \in 0 .. Len(text) /\ LineAt(e) = LineAt(p) /\ Seen(e) # << >>
           /\ IsReference(f) <=> Ends(e) /\ w # << >>
           /\ Ends(e) => Tail(f) = w
<1>1. f \in Seq(Lexeme) /\ f # << >> /\ f[1] = ":"
  BY FirstLexeme, PlainColon
<1>2. ~IsInstruction(f)
  BY <1>1, NoSuchMnemonic, MnemonicsAreLetters
<1> DEFINE k == Len(Seen(p))
           z == Rest(f, k)
<1>3. k = 0
  OBVIOUS
<1>4. z = f
  <2>1. 0 \in 0 .. Len(f) /\ Len(f) \in Nat
    BY <1>1
  <2>2. /\ Rest(f, 0) \in Seq(Lexeme) /\ Len(Rest(f, 0)) = Len(f) - 0
        /\ \A j \in 1 .. Len(f) - 0 : Rest(f, 0)[j] = f[0 + j]
    BY <1>1, <2>1, RestIs
  <2>3. Len(Rest(f, 0)) = Len(f) /\ \A j \in 1 .. Len(f) : Rest(f, 0)[j] = f[j]
    BY <2>1, <2>2
  <2>4. Rest(f, 0) = f
    BY <1>1, <2>2, <2>3, SeqEqual
  <2>5. QED
    BY <1>3, <2>4
<1>5. k = Len(Seen(p)) /\ z = Rest(f, k)
  OBVIOUS
<1> HIDE DEF k, z
<1>6. /\ Reaches(p, e)
      /\ IsReference(z) <=> Ends(e) /\ w # << >>
      /\ Ends(e) => Tail(z) = w
  BY <1>5, ReferencesRead
<1>7. e \in 0 .. Len(text) /\ LineAt(e) = LineAt(p) /\ Seen(e) # << >>
  BY <1>6 DEF Reaches, Full
<1>8. QED
  BY <1>1, <1>2, <1>4, <1>6, <1>7

LEMMA MalformedAt ==
    ASSUME NEW F, NEW n \in 1 .. Len(F), Bad(F[n])
    PROVE  Malformed(F)
  BY DEF Malformed

LEMMA PlaceFollows == ASSUME AssemblerInv, TextInv, PlaceLabel PROVE TextInv'
<1>1. PICK F : F = Lines
  OBVIOUS
<1>2. PICK n, p, w, e : n = LineAt(position) /\ p = position /\ w = LabelName /\ e = NameEnd(p + 1)
  OBVIOUS
<1>3. /\ Thing /\ Here = ":" /\ w # << >> /\ w \in DOMAIN symbols /\ PlaceSymbol(symbols[w])
      /\ position' = e /\ ~new_thing' /\ user' = user /\ text' = text /\ symbols' = symbols
      /\ reports' = reports
  BY <1>2 DEF PlaceLabel, IsNew, SymbolOf
<1>4. phase' = phase /\ source' = source
  BY <1>3 DEF PlaceSymbol
<1>5. /\ user = "assembler" /\ phase = "emitting" /\ new_thing /\ reports \in Nat
      /\ Legible /\ p \in 0 .. Len(text) /\ p # Len(text)
      /\ IInv /\ SymbolsKnown /\ Seen(p) = << >> /\ LexemeAt(p) = ":"
      /\ F \in Seq(Seq(Lexeme)) /\ n \in 1 .. Len(F)
      /\ reports = 0 => LinesAgree(F, n - 1) /\ LabelsAgree(F, n - 1)
      /\ reports > 0 => Malformed(F) /\ Unknown(F, n)
  BY <1>1, <1>2, <1>3, WhenMet
<1>6. w = NameAt(p + 1)
  BY <1>2 DEF LabelName
<1> DEFINE f == F[n]
<1>7. /\ f # << >> /\ ~IsInstruction(f)
      /\ LineAt(e) = n /\ Seen(e) # << >>
      /\ IsReference(f) <=> Ends(e)
      /\ Ends(e) => Tail(f) = w
  BY <1>1, <1>2, <1>3, <1>5, <1>6, LabelIsRead
<1> HIDE DEF f
<1>8. reports > 0 \/ ~Ends(e) => Malformed(F)
  <2>1. ~Ends(e) => Bad(F[n])
    BY <1>7 DEF Bad, f
  <2>2. QED
    BY <1>5, <2>1, MalformedAt
<1>9. ASSUME reports = 0, Ends(e) PROVE LinesAgree(F, n)' /\ LabelsAgree(F, n)'
  <2> DEFINE I == Instructions(F)
  <2>1. LinesAgree(F, n - 1) /\ LabelsAgree(F, n - 1) /\ IsReference(F[n]) /\ ~IsInstruction(F[n])
        /\ Tail(F[n]) = w
    BY <1>5, <1>7, <1>9 DEF f
  <2>2. LinesAgree(F, n)
    BY <1>5, <2>1, LineAddsNothing
  <2>3. \A k \in 1 .. n : Len(I[k]) \in Nat /\ I[k] \in Seq(Spells(F))
    <3>1. \A k \in 1 .. n : k \in 0 .. Len(F)
      BY <1>5
    <3>2. \A k \in 1 .. n : I[k] \in Seq(Spells(F))
      BY <1>5, <3>1, InstructionsUnfold
    <3>3. QED
      BY <3>2
  <2>4. n \in 1 .. n
    BY <1>5
  <2>5. source = Resolved(I[n])
    BY <2>2 DEF LinesAgree
  <2>6. Len(I[n]) = Len(source) /\ Len(I[n]) \in Nat /\ DOMAIN I[n] = 1 .. Len(I[n])
    BY <2>3, <2>4, <2>5, ResolvedIs
  <2>7. LabelsAgree(F, n)'
    <3>1. \A k \in 1 .. n : Len(Instructions(F)[k]) \in Nat
      BY <2>3
    <3>2. Len(Instructions(F)[n]) = Len(source)
      BY <2>6
    <3> HIDE DEF I
    <3>3. QED
      BY <1>3, <1>5, <2>1, <3>1, <3>2, LineAddsLabel
  <2>8. SymbolsStand
    BY <1>3 DEF SymbolsStand
  <2>9. LinesAgree(F, n)'
    BY <1>4, <2>2, <2>6, <2>8, LinesStay
  <2>10. QED
    BY <2>7, <2>9
<1>10. Follows(F)'
  <2>1. n = IF new_thing' THEN LineAt(e) - 1 ELSE LineAt(e)
    BY <1>3, <1>7
  <2>2. phase' = "emitting" /\ (new_thing' <=> Seen(e) = << >>)
    BY <1>3, <1>4, <1>5, <1>7
  <2>3. QED
    BY <1>3, <1>5, <1>8, <1>9, <2>1, <2>2, FollowsNext
<1>11. Lines' = F
  BY <1>1, <1>3, TextStays
<1>12. QED
  BY <1>3, <1>4, <1>5, <1>10, <1>11, GoesOn

LEMMA RefuseLabelFollows == ASSUME AssemblerInv, TextInv, RefuseLabel PROVE TextInv'
<1>1. PICK F : F = Lines
  OBVIOUS
<1>2. PICK n, p, w, e : n = LineAt(position) /\ p = position /\ w = LabelName /\ e = NameEnd(p + 1)
  OBVIOUS
<1>3. /\ Thing /\ Here = ":" /\ Refuse(1)
      /\ w # << >> => w \in DOMAIN symbols /\ ~IsUnset(symbols[w])
  BY <1>2 DEF RefuseLabel, IsNew, SymbolOf
<1>4. user' = "nobody" /\ text' = text /\ reports' = reports + 1
  BY <1>3 DEF Refuse
<1>5. /\ reports \in Nat
      /\ Legible /\ p \in 0 .. Len(text) /\ p # Len(text)
      /\ IInv /\ SymbolsKnown /\ Seen(p) = << >> /\ LexemeAt(p) = ":"
      /\ F \in Seq(Seq(Lexeme)) /\ n \in 1 .. Len(F) /\ Len(F) \in Nat
      /\ reports = 0 => LabelsAgree(F, n - 1)
      /\ reports > 0 => Malformed(F)
  BY <1>1, <1>2, <1>3, WhenMet
<1>6. w = NameAt(p + 1)
  BY <1>2 DEF LabelName
<1> DEFINE f == F[n]
<1>7. /\ f \in Seq(Lexeme) /\ f # << >> /\ ~IsInstruction(f)
      /\ IsReference(f) <=> Ends(e) /\ w # << >>
      /\ Ends(e) => Tail(f) = w
  BY <1>1, <1>2, <1>5, <1>6, LabelIsRead
<1> HIDE DEF f
<1>8. CASE reports > 0
  BY <1>1, <1>4, <1>5, <1>8, MalformedLines, GivesUp
<1>9. CASE ~IsReference(f)
  <2>1. Malformed(F)
    BY <1>5, <1>7, <1>9, MalformedAt DEF Bad, f
  <2>2. QED
    BY <1>1, <1>4, <1>5, <2>1, MalformedLines, GivesUp
<1>10. CASE reports = 0 /\ IsReference(f)
  <2>1. w \in DOMAIN symbols /\ ~IsUnset(symbols[w]) /\ Tail(f) = w
    BY <1>3, <1>7, <1>10
  <2>2. symbols[w] \in Symbols
    BY <1>5, <2>1 DEF SymbolsKnown
  <2>3. placed[symbols[w] + 1] # -1
    BY <1>5, <2>1, <2>2, PlacesAre
  <2>4. PICK k \in 1 .. n - 1 : IsReference(F[k]) /\ Tail(F[k]) = w
    BY <1>5, <1>10, <2>1, <2>3, Zenon DEF LabelsAgree
  <2>5. k \in DOMAIN F /\ n \in DOMAIN F /\ k # n
    BY <1>5
  <2>6. F[k] = f
    <3>1. F[k] \in Seq(Lexeme)
      BY <1>5, <2>5
    <3>2. QED
      BY <1>7, <1>10, <2>1, <2>4, <3>1, SameReference
  <2>7. ~WellFormed(F)
    BY <1>10, <2>5, <2>6, Zenon DEF WellFormed, f
  <2>8. reports' # 0
    BY <1>4, <1>5
  <2>9. QED
    BY <1>1, <1>4, <2>7, <2>8, GivesUp
<1>11. QED
  BY <1>5, <1>8, <1>9, <1>10

LEMMA AssembleFollows == ASSUME AssemblerInv, TextInv, AssembleOne PROVE TextInv'
<1>1. PICK F : F = Lines
  OBVIOUS
<1>2. PICK n, p, f : n = LineAt(position) /\ p = position /\ f = F[n]
  OBVIOUS
<1>3. Thing
  BY DEF AssembleOne
<1>4. /\ user = "assembler" /\ phase = "emitting" /\ new_thing /\ reports \in Nat
      /\ Legible /\ p \in 0 .. Len(text) /\ p # Len(text)
      /\ IInv /\ SymbolsKnown /\ Seen(p) = << >>
      /\ F \in Seq(Seq(Lexeme)) /\ n \in 1 .. Len(F)
      /\ reports = 0 => LinesAgree(F, n - 1) /\ LabelsAgree(F, n - 1)
      /\ reports > 0 => Malformed(F) /\ Unknown(F, n)
  BY <1>1, <1>2, <1>3, WhenMet
<1>5. /\ f # << >> /\ ~IsReference(f)
      /\ \/ RefusedSilently(f) \/ RefusedLoudly(f)
         \/ AssembledRightly(f) \/ AssembledWrongly(f)
  BY <1>1, <1>2, <1>4, AssembleReads
<1>6. Bad(f) => Malformed(F) /\ ~WellFormed(F)
  BY <1>2, <1>4, MalformedAt, MalformedLines
<1>7. CASE RefusedSilently(f)
  <2>1. user' = "nobody" /\ text' = text /\ reports' = reports
    BY <1>4, <1>7 DEF RefusedSilently, Refuse
  <2>2. ~WellFormed(F) /\ NoMnemonic(F[n]) /\ F[n] # << >>
    BY <1>2, <1>5, <1>6, <1>7 DEF RefusedSilently
  <2>3. \E k \in DOMAIN F : F[k] # << >> /\ NoMnemonic(F[k])
    BY <1>4, <2>2
  <2>4. QED
    BY <1>1, <2>1, <2>2, <2>3, GivesUp
<1>8. CASE RefusedLoudly(f)
  <2>1. PICK r \in Nat \ {0} : Refuse(r)
    BY <1>8 DEF RefusedLoudly
  <2>2. user' = "nobody" /\ text' = text /\ reports' # 0
    BY <1>4, <2>1 DEF Refuse
  <2>3. ~WellFormed(F)
    BY <1>6, <1>8 DEF RefusedLoudly
  <2>4. QED
    BY <1>1, <2>2, <2>3, GivesUp
<1>9. CASE AssembledRightly(f)
  <2>1. PICK op \in Operations : \E x, e, m :
           Assembled(op, x, e, 0) /\ Means(op, x, m) /\ Goes(e) /\ Spelt(op, m, f, e)
    BY <1>9 DEF AssembledRightly
  <2>2. PICK x, e, m : Assembled(op, x, e, 0) /\ Means(op, x, m) /\ Goes(e) /\ Spelt(op, m, f, e)
    BY <2>1
  <2>3. /\ position' = e /\ ~new_thing' /\ reports' = reports /\ phase' = phase
        /\ user' = user /\ text' = text /\ source' = Append(source, [op |-> op, arg |-> x])
    BY <1>4, <2>2 DEF Assembled, Write
  <2>4. LineAt(e) = n /\ Seen(e) # << >>
    BY <1>2, <2>2 DEF Goes
  <2>5. /\ Ends(e) => InstructionsIn(f) = {[op |-> op, arg |-> m]}
        /\ ~Ends(e) => Bad(f)
    BY <1>5, <2>2 DEF Spelt, Bad, IsInstruction
  <2>6. ASSUME reports = 0, Ends(e) PROVE LinesAgree(F, n)' /\ LabelsAgree(F, n)'
    <3>1. LinesAgree(F, n - 1) /\ InstructionsIn(F[n]) = {[op |-> op, arg |-> m]}
      BY <1>2, <1>4, <2>5, <2>6
    <3>2. LabelsAgree(F, n)
      <4>1. n \in Nat \ {0}
        BY <1>4
      <4>2. QED
        BY <1>2, <1>4, <1>5, <2>6, <4>1, LineAddsNoLabel
    <3>3. \/ placed' = placed /\ symbols' = symbols
          \/ op = "loc" /\ IsNew(m) /\ MakeSymbols(1) /\ symbols' = WithSymbol(m)
      BY <2>2 DEF Means, NoNewSymbol
    <3>4. LabelsAgree(F, n)' /\ SymbolsStand
      BY <1>4, <3>2, <3>3, LabelsStay
    <3>5. op # "loc" => x = m
      BY <2>2 DEF Means
    <3>6. op = "loc" => m \in DOMAIN symbols' /\ symbols'[m] = x
      <4>1. SUFFICES ASSUME op = "loc" PROVE m \in DOMAIN symbols' /\ symbols'[m] = x
        OBVIOUS
      <4>2. CASE IsNew(m)
        BY <2>2, <4>1, <4>2 DEF Means, WithSymbol
      <4>3. CASE ~IsNew(m)
        BY <2>2, <4>1, <4>3 DEF Means, NoNewSymbol, SymbolOf, IsNew
      <4>4. QED
        BY <4>2, <4>3
    <3>7. LinesAgree(F, n)'
      BY <1>4, <2>3, <3>1, <3>4, <3>5, <3>6, LineAddsInstruction
    <3>8. QED
      BY <3>4, <3>7
  <2>7. Follows(F)'
    <3>1. n = IF new_thing' THEN LineAt(e) - 1 ELSE LineAt(e)
      BY <2>3, <2>4
    <3>2. phase' = "emitting" /\ (new_thing' <=> Seen(e) = << >>)
      BY <1>4, <2>3, <2>4
    <3>3. reports > 0 \/ ~Ends(e) => Malformed(F)
      BY <1>4, <1>6, <2>5
    <3>4. QED
      BY <1>4, <2>3, <2>6, <3>1, <3>2, <3>3, FollowsNext
  <2>8. Lines' = F
    BY <1>1, <2>3, TextStays
  <2>9. QED
    BY <1>4, <2>3, <2>7, <2>8, GoesOn
<1>10. CASE AssembledWrongly(f)
  <2>1. PICK op \in Operations, r \in Nat \ {0} : \E x, e :
           Assembled(op, x, e, r) /\ Goes(e) /\ (Ends(e) => UnknownMnemonic(f))
    BY <1>10 DEF AssembledWrongly
  <2>2. PICK x, e : Assembled(op, x, e, r) /\ Goes(e) /\ (Ends(e) => UnknownMnemonic(f))
    BY <2>1
  <2>3. /\ position' = e /\ ~new_thing' /\ reports' = reports + r /\ phase' = phase
        /\ user' = user /\ text' = text
    BY <2>2 DEF Assembled
  <2>4. LineAt(e) = n /\ Seen(e) # << >>
    BY <1>2, <2>2 DEF Goes
  <2>5. reports' \in Nat /\ reports' > 0 /\ Malformed(F)
    BY <1>4, <1>6, <1>10, <2>3 DEF AssembledWrongly
  <2>6. Ends(e) => Unknown(F, n)
    <3>1. n \in 1 .. n
      BY <1>4
    <3>2. QED
      BY <1>2, <1>5, <2>2, <3>1 DEF Unknown
  <2>7. Follows(F)'
    <3>1. n = IF new_thing' THEN LineAt(e) - 1 ELSE LineAt(e)
      BY <2>3, <2>4
    <3>2. phase' = "emitting" /\ (new_thing' <=> Seen(e) = << >>)
      BY <1>4, <2>3, <2>4
    <3>3. reports' # 0
      BY <2>5
    <3>4. QED
      BY <2>3, <2>5, <2>6, <3>1, <3>2, <3>3, FollowsNext
  <2>8. Lines' = F
    BY <1>1, <2>3, TextStays
  <2>9. QED
    BY <1>4, <2>3, <2>7, <2>8, GoesOn
<1>11. QED
  BY <1>5, <1>7, <1>8, <1>9, <1>10

-----------------------------------------------------------------------------
(* At the end of the text.                                                 *)

LEMMA AtTheEnd ==
    ASSUME AssemblerInv, user = "assembler", phase \notin {"emitting", "failed"}, TextInv,
           NEW F, F = Lines, NEW n, n = Len(F)
    PROVE  /\ reports = 0 => LinesAgree(F, n) /\ LabelsAgree(F, n)
           /\ reports > 0 => Malformed(F) /\ Unknown(F, n)
<1> DEFINE p == position
<1>1. /\ Legible /\ p \in 0 .. Len(text) /\ Follows(F) /\ F \in Seq(Seq(Lexeme))
      /\ LineAt(p) \in 1 .. Len(F) /\ Len(F) \in Nat
  BY WhileAssembling
<1>2. p = Len(text)
  BY <1>1 DEF Follows
<1>3. LineAt(p) = n
  BY <1>1, <1>2, TheLines
<1>4. Stop(LexemeAt(p))
  BY <1>1, <1>2, EndIsLast DEF Stop
<1>5. Ends(p) /\ (Seen(p) = << >> => F[n] = << >>)
  BY <1>1, <1>3, <1>4, NothingToRead
<1>6. /\ reports > 0 \/ ~Settled => Malformed(F)
      /\ reports = 0 /\ Settled => LinesAgree(F, Done) /\ LabelsAgree(F, Done)
      /\ reports > 0 /\ Settled => Unknown(F, Done)
      /\ new_thing <=> Seen(p) = << >>
  BY <1>1 DEF Follows
<1>7. Settled /\ (Done = n \/ (Done = n - 1 /\ F[n] = << >>))
  BY <1>3, <1>5, <1>6 DEF Settled, Done
<1>8. n \in 1 .. Len(F) /\ n \in Nat /\ n - 1 \in Nat /\ n - 1 <= n
  BY <1>1, <1>3
<1>9. CASE Done = n
  BY <1>6, <1>7, <1>9
<1>10. CASE Done = n - 1 /\ F[n] = << >>
  <2>1. reports = 0 => LinesAgree(F, n) /\ LabelsAgree(F, n)
    BY <1>1, <1>6, <1>7, <1>8, <1>10, EmptyLineAdds
  <2>2. reports > 0 => Unknown(F, n)
    <3>1. reports > 0 => Unknown(F, n - 1)
      BY <1>6, <1>7, <1>10
    <3>2. QED
      BY <1>8, <3>1, UnknownLater
  <2>3. QED
    BY <1>6, <2>1, <2>2
<1>11. QED
  BY <1>7, <1>9, <1>10

(* Steps that read nothing and emit nothing.                               *)
LEMMA ReadingNothing ==
    ASSUME AssemblerInv, TextInv, user = "assembler", phase # "failed", phase' # "failed",
           phase' # "emitting" => position = Len(text),
           UNCHANGED <<source, placed>>, UNCHANGED assembler_vars
    PROVE  TextInv'
<1>1. PICK F : F = Lines
  OBVIOUS
<1>2. PICK n, p : n = Done /\ p = position
  OBVIOUS
<1>3. /\ text' = text /\ position' = p /\ new_thing' = new_thing /\ symbols' = symbols
      /\ user' = user /\ reports' = reports /\ source' = source /\ placed' = placed
  BY <1>2 DEF assembler_vars
<1>4. /\ Follows(F) /\ reports \in Nat
      /\ new_thing <=> Seen(p) = << >>
      /\ reports > 0 \/ ~Settled => Malformed(F)
      /\ reports = 0 /\ Settled => LinesAgree(F, n) /\ LabelsAgree(F, n)
      /\ reports > 0 /\ Settled => Unknown(F, n)
  BY <1>1, <1>2 DEF TextInv, Follows
<1>5. Settled <=> new_thing' \/ Ends(p)
  BY <1>2, <1>3 DEF Settled
<1>6. n = IF new_thing' THEN LineAt(p) - 1 ELSE LineAt(p)
  BY <1>2, <1>3 DEF Done
<1>7. reports' = 0 /\ (new_thing' \/ Ends(p)) => LinesAgree(F, n)' /\ LabelsAgree(F, n)'
  BY <1>3, <1>4, <1>5, AgreesStill
<1>8. /\ reports' > 0 \/ ~(new_thing' \/ Ends(p)) => Malformed(F)
      /\ reports' > 0 /\ (new_thing' \/ Ends(p)) => Unknown(F, n)
      /\ new_thing' <=> Seen(p) = << >>
      /\ phase' # "emitting" => p = Len(text)
  BY <1>2, <1>3, <1>4, <1>5
<1>9. Follows(F)'
  BY <1>3, <1>4, <1>6, <1>7, <1>8, FollowsNext
<1>10. Lines' = F
  BY <1>1, <1>3, TextStays
<1>11. QED
  BY <1>3, <1>9, <1>10, GoesOn

LEMMA UndefinedFollows ==
    ASSUME AssemblerInv, TextInv, FailsOnDangling', UndefinedSymbol
    PROVE  TextInv'
<1>1. PICK F, n : F = Lines /\ n = Len(F)
  OBVIOUS
<1>2. /\ user = "assembler" /\ phase = "linking" /\ phase' = "failed" /\ reports' = reports + 1
      /\ text' = text /\ source' = source /\ placed' = placed
  BY DEF UndefinedSymbol, RefuseReference, Linking, history
<1>3. IInv /\ reports \in Nat /\ F \in Seq(Seq(Lexeme))
  BY <1>1, <1>2, WhileAssembling
<1>4. /\ reports = 0 => LinesAgree(F, n) /\ LabelsAgree(F, n)
      /\ reports > 0 => Malformed(F)
  BY <1>1, <1>2, AtTheEnd
<1>5. \E s \in References : Dangling(s)
  BY <1>2 DEF FailsOnDangling, References, Dangling
<1>6. ~WellFormed(F)
  <2>1. CASE reports = 0
    BY <1>1, <1>3, <1>4, <1>5, <2>1, WellFormedIs
  <2>2. CASE reports > 0
    BY <1>3, <1>4, <2>2, MalformedLines
  <2>3. QED
    BY <1>3, <2>1, <2>2
<1>7. reports' # 0
  BY <1>2, <1>3
<1>8. QED
  BY <1>1, <1>2, <1>6, <1>7, GivesUp

-----------------------------------------------------------------------------
(* The invariant is one.                                                   *)

LEMMA TextStarts == ASSUME AssemblerInit PROVE TextInv
<1>1. /\ user = "any" \/ (user = "assembler" /\ text \in Texts)
      /\ position = 0 /\ new_thing = TRUE /\ symbols = << >> /\ reports = 0
      /\ phase = "emitting" /\ source = << >>
  BY DEF AssemblerInit, Init
<1>2. CASE user = "any"
  <2>1. ~GivenUp /\ user # "assembler"
    BY <1>2 DEF GivenUp
  <2>2. QED
    BY <2>1 DEF TextInv
<1>3. CASE user = "assembler" /\ text \in Texts
  <2>1. SUFFICES ASSUME NEW F, F = Lines PROVE Follows(F) /\ ~GivenUp
    BY DEF TextInv
  <2>2. Legible
    BY <1>3, TextsAreLegible
  <2>3. /\ Len(F) \in Nat /\ DOMAIN F = 1 .. Len(F)
        /\ \A k \in 1 .. Len(F) : F[k] \in Seq(Lexeme)
    BY <2>1, <2>2, TheLines
  <2>4. F \in Seq(Seq(Lexeme))
    <3>1. F = [k \in 1 .. Len(F) |-> F[k]]
      BY <2>1, <2>3 DEF Lines
    <3>2. QED
      BY <2>3, <3>1
  <2>5. Reading[0] = << << >> >>
    BY <2>2, ReadingUnfolds DEF Legible
  <2>6. LineAt(position) = 1 /\ Seen(position) = << >>
    BY <1>1, <2>5 DEF LineAt, Seen
  <2>7. Settled /\ Done = 0
    BY <1>1, <2>6 DEF Settled, Done
  <2>8. Instructions(F)[0] = << >>
    BY <2>4, InstructionsUnfold
  <2>9. LinesAgree(F, 0)
    BY <1>1, <2>8 DEF LinesAgree, Resolved
  <2>10. LabelsAgree(F, 0)
    BY <1>1 DEF LabelsAgree
  <2>11. ~GivenUp
    BY <1>1, <1>3 DEF GivenUp
  <2>12. QED
    BY <1>1, <2>6, <2>7, <2>9, <2>10, <2>11 DEF Follows
<1>4. QED
  BY <1>1, <1>2, <1>3

LEMMA TextStep ==
    ASSUME AssemblerInv, TextInv, FailsOnDangling', [AssemblerNext]_<<vars, assembler_vars>>
    PROVE  TextInv'
<1>1. CASE Skip
  BY <1>1, SkipFollows
<1>2. CASE RefuseSecond
  BY <1>2, SecondFollows
<1>3. CASE MeetLabel
  BY <1>3, MeetFollows
<1>4. CASE PlaceLabel
  BY <1>4, PlaceFollows
<1>5. CASE RefuseLabel
  BY <1>5, RefuseLabelFollows
<1>6. CASE AssembleOne
  BY <1>6, AssembleFollows
<1>7. CASE AssemblerFinish
  <2>1. /\ user = "assembler" /\ phase = "emitting" /\ position = Len(text) /\ phase' = "linking"
        /\ UNCHANGED <<source, placed>> /\ UNCHANGED assembler_vars
    BY <1>7 DEF AssemblerFinish, Finish, Emitting, history
  <2>2. QED
    BY <2>1, ReadingNothing
<1>8. CASE AssemblerLink
  <2>1. /\ user = "assembler" /\ phase = "linking" /\ phase' \in {"linking", "finished"}
        /\ UNCHANGED <<source, placed>> /\ UNCHANGED assembler_vars
    BY <1>8 DEF AssemblerLink, PatchReference, AllPatched, Linking, history
  <2>2. position = Len(text)
    BY <2>1 DEF TextInv, Follows
  <2>3. QED
    BY <2>1, <2>2, ReadingNothing
<1>9. CASE UndefinedSymbol
  BY <1>9, UndefinedFollows
<1>10. CASE AnyUser
  <2>1. user' = "any"
    BY <1>10 DEF AnyUser, assembler_vars
  <2>2. ~GivenUp' /\ user' # "assembler"
    BY <2>1 DEF GivenUp
  <2>3. QED
    BY <2>2 DEF TextInv
<1>11. CASE UNCHANGED <<vars, assembler_vars>>
  <2>1. UNCHANGED vars /\ UNCHANGED assembler_vars
    BY <1>11
  <2>2. CASE user = "assembler" /\ phase # "failed"
    <3>1. phase' = phase /\ UNCHANGED <<source, placed>>
      BY <2>1 DEF vars
    <3>2. phase' # "emitting" => position = Len(text)
      BY <2>2, <3>1 DEF TextInv, Follows
    <3>3. QED
      BY <2>1, <2>2, <3>1, <3>2, ReadingNothing
  <2>3. CASE ~(user = "assembler" /\ phase # "failed")
    <3>1. PICK F, p : F = Lines /\ p = position
      OBVIOUS
    <3>2. text' = text /\ position' = p /\ user' = user /\ reports' = reports /\ phase' = phase
      BY <2>1, <3>1 DEF vars, assembler_vars
    <3>3. Lines' = F
      BY <3>1, <3>2, TextStays
    <3>4. GivenUp => GaveUp(F)
      BY <3>1 DEF TextInv
    <3>5. GivenUp' => GaveUp(F)'
      BY <3>2, <3>4 DEF GivenUp, GaveUp
    <3>6. QED
      BY <2>3, <3>2, <3>3, <3>5 DEF TextInv
  <2>4. QED
    BY <2>2, <2>3
<1>12. QED
  BY <1>1, <1>2, <1>3, <1>4, <1>5, <1>6, <1>7, <1>8, <1>9, <1>10, <1>11 DEF AssemblerNext

LEMMA TextSpecKeeps == AssemblerSpec => []TextInv
<1>1. AssemblerInit => TextInv
  BY TextStarts
<1>2. AssemblerInv /\ TextInv /\ FailsOnDangling' /\ [AssemblerNext]_<<vars, assembler_vars>> => TextInv'
  BY TextStep
<1>3. AssemblerInv => FailsOnDangling
  BY ImpliesFailsOnDangling DEF AssemblerInv
<1>4. QED
  BY <1>1, <1>2, <1>3, AssemblerSpecKeeps, PTL DEF AssemblerSpec

(* What holds when the text has been assembled.                            *)
LEMMA WhenAssembled ==
    ASSUME AssemblerInv, TextInv, HasAssembled, NEW F, F = Lines, NEW n, n = Len(F)
    PROVE  /\ reports \in Nat /\ n \in Nat /\ DOMAIN F = 1 .. n
           /\ reports = 0 => WellFormed(F) /\ LinesAgree(F, n) /\ LabelsAgree(F, n)
           /\ reports > 0 => Unknown(F, n)
<1>1. user = "assembler" /\ phase = "finished"
  BY DEF HasAssembled
<1>2. IInv /\ reports \in Nat /\ F \in Seq(Seq(Lexeme)) /\ n \in Nat /\ DOMAIN F = 1 .. n
  BY <1>1, WhileAssembling
<1>3. /\ reports = 0 => LinesAgree(F, n) /\ LabelsAgree(F, n)
      /\ reports > 0 => Unknown(F, n)
  BY <1>1, AtTheEnd
<1>4. ~\E s \in References : Dangling(s)
  BY <1>1, <1>2, ImpliesFailsOnDangling DEF FailsOnDangling
<1>5. reports = 0 => WellFormed(F)
  BY <1>2, <1>3, <1>4, WellFormedIs
<1>6. QED
  BY <1>2, <1>3, <1>5

(* assembler.c assembles without a report only what is well formed, and    *)
(* gives up only on what is not; what it reports and assembles all the     *)
(* same has an unknown mnemonic, what it refuses silently has a line that  *)
(* starts with neither a letter nor a colon.                               *)
THEOREM AssemblerAcceptsWellFormed == AssemblerSpec => []AcceptsWellFormed
<1>1. ASSUME AssemblerInv, TextInv PROVE AcceptsWellFormed
  <2>1. SUFFICES ASSUME NEW F, F = Lines, HasAssembled \/ GivenUp
                 PROVE  /\ HasAssembled /\ reports = 0 => WellFormed(F)
                        /\ HasAssembled /\ reports > 0 => \E l \in Range(F) \ {<< >>} : UnknownMnemonic(l)
                        /\ GivenUp => ~WellFormed(F)
                        /\ GivenUp /\ reports = 0 => \E l \in Range(F) \ {<< >>} : NoMnemonic(l)
    BY Zenon DEF AcceptsWellFormed
  <2>2. HasAssembled /\ reports = 0 => WellFormed(F)
    BY <1>1, <2>1, WhenAssembled
  <2>3. HasAssembled /\ reports > 0 => \E l \in Range(F) \ {<< >>} : UnknownMnemonic(l)
    <3>1. SUFFICES ASSUME HasAssembled, reports > 0
                   PROVE  \E l \in Range(F) \ {<< >>} : UnknownMnemonic(l)
      OBVIOUS
    <3>2. Unknown(F, Len(F)) /\ DOMAIN F = 1 .. Len(F)
      BY <1>1, <2>1, <3>1, WhenAssembled
    <3>3. QED
      BY <3>2, Zenon DEF Unknown, Range
  <2>4. GivenUp => GaveUp(F)
    BY <1>1, <2>1 DEF TextInv
  <2>5. GivenUp /\ reports = 0 => \E l \in Range(F) \ {<< >>} : NoMnemonic(l)
    BY <2>4, Zenon DEF GaveUp, Range
  <2>6. GivenUp => ~WellFormed(F)
    BY <2>4 DEF GaveUp
  <2>7. QED
    BY <2>2, <2>3, <2>5, <2>6
<1>2. QED
  BY <1>1, AssemblerSpecKeeps, TextSpecKeeps, PTL

(* What assembler.c assembles without a report is what the lines say, in   *)
(* order, with a symbol for each name, placed where the name's label is.   *)
THEOREM AssemblerAssemblesWhatIsWritten == AssemblerSpec => []AssemblesWhatIsWritten
<1>1. ASSUME AssemblerInv, TextInv PROVE AssemblesWhatIsWritten
  <2>1. SUFFICES ASSUME NEW F, F = Lines, HasAssembled, reports = 0
                 PROVE  /\ source = Resolved(Instructions(F)[Len(F)])
                        /\ \A k \in DOMAIN F :
                              IsReference(F[k]) =>
                                 placed[symbols[Tail(F[k])] + 1] = Len(Instructions(F)[k])
    BY Zenon DEF AssemblesWhatIsWritten
  <2>2. LinesAgree(F, Len(F)) /\ LabelsAgree(F, Len(F)) /\ DOMAIN F = 1 .. Len(F)
    BY <1>1, <2>1, WhenAssembled
  <2>3. QED
    BY <2>2, Zenon DEF LinesAgree, LabelsAgree
<1>2. QED
  BY <1>1, AssemblerSpecKeeps, TextSpecKeeps, PTL
=============================================================================
