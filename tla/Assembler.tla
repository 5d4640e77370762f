------------------------------ MODULE Assembler ------------------------------
(***************************************************************************)
(* lib/assembler/assembler.c: a text is assembled line after line, through *)
(* the emitter.                                                            *)
(*                                                                         *)
(* A text is a sequence of lexemes: a run of letters, a run of digits, or  *)
(* one other character; a blank is any space but a newline.  Two runs of a *)
(* kind never touch.  The map from names to symbols is the dictionary that *)
(* HashMap implements.  Where an error is, is left out.                    *)
(*                                                                         *)
(* The emitter's other users may call it in any order: user tells whether  *)
(* it is one of them, the assembler, or nobody since the assembler gave up.*)
(***************************************************************************)
EXTENDS Emitter, SequencesExt

CONSTANTS
    Texts,      \* texts to assemble
    Numbers     \* the numbers in them

ASSUME AssemblerAssumption ==
    /\ Texts \subseteq Seq(STRING) /\ Numbers \subseteq Nat
    /\ \A t \in Texts : Fits(Len(t))

VARIABLES
    user,       \* "any", "assembler" or "nobody"
    text, position,
    new_thing,  \* nothing was assembled on this line yet
    symbols,    \* the symbol of each name met
    reports     \* how many errors were reported

assembler_vars == <<user, text, position, new_thing, symbols, reports>>

-----------------------------------------------------------------------------
(* Reading the text.                                                       *)

Value == [s \in {ToString(n) : n \in Numbers} |-> CHOOSE n \in Numbers : ToString(n) = s]

Numeral == DOMAIN Value
Blank == {" "}
Sign == {"+", "-"}
Symbol == {" ", "\n", ":", "%", "+", "-", "(", "_", "end"}

IsLetters(lexeme) == lexeme \notin Numeral \union Symbol
InName(lexeme) == IsLetters(lexeme) \/ lexeme \in Numeral \union {"_"}

LexemeAt(p) == IF p < Len(text) THEN text[p + 1] ELSE "end"

(* Where the blanks at p end: skip_seperator.                              *)
SkipSeparator(p) ==
    CHOOSE q \in p .. Len(text) :
        LexemeAt(q) \notin Blank /\ \A k \in p .. q - 1 : LexemeAt(k) \in Blank

NameEnd(p) ==
    CHOOSE q \in p .. Len(text) :
        ~InName(LexemeAt(q)) /\ \A k \in p .. q - 1 : InName(LexemeAt(k))

NameAt(p) == SubSeq(text, p + 1, NameEnd(p))

(* parse_symbol_name: a name that is new gets a new symbol.                *)
IsNew(name) == name \notin DOMAIN symbols
SymbolOf(name) == IF IsNew(name) THEN next_symbol ELSE symbols[name]
WithSymbol(name) == [n \in DOMAIN symbols \union {name} |-> SymbolOf(n)]

-----------------------------------------------------------------------------
(* Arguments: what an argument of a kind at p is, and where it ends;       *)
(* nothing if there is none.                                               *)

Argument(x, end) == [x |-> x, end |-> end]

(* parse_number                                                            *)
NumbersAt_Unsigned(p) ==
    LET digits == IF LexemeAt(p) \in Sign THEN p + 1 ELSE p
    IN  IF LexemeAt(digits) \in Numeral THEN {Argument(Value[LexemeAt(digits)], digits + 1)} ELSE {}

NumbersAt(p) ==
    LET digits == IF LexemeAt(p) \in Sign THEN p + 1 ELSE p
        factor == IF LexemeAt(p) = "-" THEN -1 ELSE 1
    IN  IF LexemeAt(digits) \in Numeral
        THEN {Argument(factor * Value[LexemeAt(digits)], digits + 1)}
        ELSE {}

InRange_NoMinimum(arguments, min, max) == {a \in arguments : a.x <= max}

InRange(arguments, min, max) == {a \in arguments : min <= a.x /\ a.x <= max}

Immediates(p) == InRange(NumbersAt(p), 0, Base - 1)

Signed(p) ==
    {Argument(a.x % Base ^ WordLen, a.end) :
        a \in InRange(NumbersAt(p), -(Base ^ WordLen \div 2), Base ^ WordLen \div 2 - 1)}

(* A name follows; the argument is the symbol it has or is going to have.  *)
Locations(p) ==
    IF LexemeAt(p) = ":" /\ NameAt(p + 1) # << >>
    THEN {Argument(SymbolOf(NameAt(p + 1)), NameEnd(p + 1))}
    ELSE {}

ArgumentsAt(kind, p) ==
    CASE kind = "imb" -> Immediates(p)
      [] kind = "imw" -> Signed(p)
      [] kind = "var" -> IF LexemeAt(p) = "%" THEN Immediates(p + 1) ELSE {}
      [] kind = "loc" -> Locations(p)

-----------------------------------------------------------------------------
(* Mnemonics.                                                              *)

(* The table has an empty mnemonic too, that of the opcodes FOR_OPERATIONS *)
(* does not list: no instruction is assembled for it.                      *)
OpcodeMnemonics == {"nop", "res", "sca", "loc", "var", "sys", ""}
SyscallMnemonics == {"hi", "dbg"}

(* A run of digits is no other lexeme, and one number; no lexeme is empty, *)
(* and two runs of letters never touch.                                    *)
ASSUME NumeralAssumption ==
    /\ Numeral \intersect (Symbol \union OpcodeMnemonics \union SyscallMnemonics) = {}
    /\ \A m, n \in Numbers : ToString(m) = ToString(n) => m = n

ASSUME TextAssumption ==
    \A t \in Texts :
        /\ \A k \in DOMAIN t : t[k] \notin {"", "end"}
        /\ \A k \in 1 .. Len(t) - 1 : IsLetters(t[k]) => ~IsLetters(t[k + 1])

(* Half the words are negative integers.                                   *)
ASSUME WordAssumption == Base ^ WordLen % 2 = 0

MnemonicAt(p) == IF IsLetters(LexemeAt(p)) THEN LexemeAt(p) ELSE ""
AfterMnemonic(p) == IF IsLetters(LexemeAt(p)) THEN p + 1 ELSE p

(* The code of a mnemonic.  One that is not found is reported, and its     *)
(* code is used all the same, uninitialised: it may be any.                *)
Codes(mnemonics, mnemonic) ==
    IF mnemonic \in mnemonics THEN {mnemonic} ELSE mnemonics \union {""}

NotFound(mnemonics, mnemonic) == IF mnemonic \in mnemonics THEN 0 ELSE 1

-----------------------------------------------------------------------------
(* assemble_all, one action per turn of its loop; a new name of a label    *)
(* takes two.                                                              *)

AssemblerInit ==
    /\ Init
    /\ \/ user = "any" /\ text = << >>
       \/ user = "assembler" /\ text \in Texts
    /\ position = 0
    /\ new_thing = TRUE
    /\ symbols = << >>
    /\ reports = 0

Assembling == user = "assembler" /\ Emitting /\ position < Len(text)
Here == LexemeAt(position)

Skip ==
    /\ Assembling /\ Here \in Blank \union {"\n"}
    /\ position' = position + 1
    /\ new_thing' = (new_thing \/ Here = "\n")
    /\ UNCHANGED <<vars, user, text, symbols, reports>>

(* An ERROR, after n reports.                                              *)
Refuse(n) ==
    /\ user' = "nobody"
    /\ reports' = reports + n
    /\ UNCHANGED <<vars, text, position, new_thing, symbols>>

RefuseSecond ==
    /\ Assembling /\ Here \notin Blank \union {"\n"} /\ ~new_thing
    /\ Refuse(1)

Thing == Assembling /\ Here \notin Blank \union {"\n"} /\ new_thing

LabelName == NameAt(position + 1)

MeetLabel ==
    /\ Thing /\ Here = ":" /\ LabelName # << >> /\ IsNew(LabelName)
    /\ MakeSymbols(1)
    /\ symbols' = WithSymbol(LabelName)
    /\ UNCHANGED <<instructions, symbol_ref_locations, phase, i, source,
                   user, text, position, new_thing, reports>>

PlaceLabel ==
    /\ Thing /\ Here = ":" /\ LabelName # << >> /\ ~IsNew(LabelName)
    /\ PlaceSymbol(SymbolOf(LabelName))
    /\ position' = NameEnd(position + 1)
    /\ new_thing' = FALSE
    /\ UNCHANGED <<user, text, symbols, reports>>

(* invalid_symbol and duplicate_symbol                                     *)
RefuseLabel ==
    /\ Thing /\ Here = ":"
    /\ LabelName # << >> => ~IsNew(LabelName) /\ ~IsUnset(SymbolOf(LabelName))
    /\ Refuse(1)

-----------------------------------------------------------------------------
(* assemble_one and assemble_syscall.                                      *)

(* An instruction is emitted; its line goes on at end.                     *)
Assembled(op, x, end, reported) ==
    /\ Write(op, x)
    /\ position' = end
    /\ new_thing' = FALSE
    /\ reports' = reports + reported
    /\ UNCHANGED <<phase, i, user, text>>

NoNewSymbol == UNCHANGED <<symbol_locations, next_symbol, placed, symbols>>

(* The operation op, whose argument comes behind p.                        *)
AssembleWith(op, p, reported) ==
    \/ /\ op = "" /\ Refuse(reported)
    \/ /\ op # "" /\ ArgKind[op] = "none"
       /\ Assembled(op, 0, p, reported) /\ NoNewSymbol
    \/ /\ op # "" /\ ArgKind[op] # "none"
       /\ \E start \in {SkipSeparator(p)} :
             IF start = p \/ ArgumentsAt(ArgKind[op], start) = {} THEN Refuse(reported + 1)
             ELSE \E a \in ArgumentsAt(ArgKind[op], start) :
                     /\ Assembled(op, a.x, a.end, reported)
                     /\ IF ArgKind[op] = "loc" /\ IsNew(NameAt(start + 1))
                        THEN MakeSymbols(1) /\ symbols' = WithSymbol(NameAt(start + 1))
                        ELSE NoNewSymbol

AssembleSyscall(p, reported) ==
    \E call \in Codes(SyscallMnemonics, MnemonicAt(p)) :
        AssembleWith(call, AfterMnemonic(p),
                     reported + NotFound(SyscallMnemonics, MnemonicAt(p)))

AssembleOne ==
    /\ Thing /\ Here # ":"
    /\ \E opcode \in Codes(OpcodeMnemonics, MnemonicAt(position)),
          p \in {AfterMnemonic(position)},
          reported \in {NotFound(OpcodeMnemonics, MnemonicAt(position))} :
             IF opcode = "sys" THEN AssembleSyscall(SkipSeparator(p), reported)
                               ELSE AssembleWith(opcode, p, reported)

-----------------------------------------------------------------------------
(* assembler_finish.                                                       *)

AssemblerFinish ==
    /\ user = "assembler" /\ position = Len(text)
    /\ Finish
    /\ UNCHANGED assembler_vars

AssemblerLink ==
    /\ user = "assembler"
    /\ PatchReference \/ AllPatched
    /\ UNCHANGED assembler_vars

(* undefined_symbol                                                        *)
UndefinedSymbol ==
    /\ user = "assembler"
    /\ RefuseReference
    /\ reports' = reports + 1
    /\ UNCHANGED <<user, text, position, new_thing, symbols>>

AnyUser == user = "any" /\ Next /\ UNCHANGED assembler_vars

AssemblerNext ==
    \/ Skip \/ RefuseSecond \/ MeetLabel \/ PlaceLabel \/ RefuseLabel \/ AssembleOne
    \/ AssemblerFinish \/ AssemblerLink \/ UndefinedSymbol
    \/ AnyUser

AssemblerSpec == AssemblerInit /\ [][AssemblerNext]_<<vars, assembler_vars>>
-----------------------------------------------------------------------------
(* What a text says, read a line at a time.                                *)

(* Lines that go on with a lexeme: one blank stands for many between two   *)
(* lexemes, and none is before the first.                                  *)
GoingOn(lines, lexeme) ==
    LET line == lines[Len(lines)]
    IN  CASE lexeme = "\n" -> Append(lines, << >>)
          [] lexeme \in Blank /\ (line = << >> \/ Last(line) \in Blank) -> lines
          [] OTHER -> [lines EXCEPT ![Len(lines)] = Append(line, lexeme)]

Reading[p \in 0 .. Len(text)] ==
    IF p = 0 THEN << << >> >> ELSE GoingOn(Reading[p - 1], text[p])

Trimmed(line) == IF line # << >> /\ Last(line) \in Blank THEN Front(line) ELSE line

Lines == [k \in DOMAIN Reading[Len(text)] |-> Trimmed(Reading[Len(text)][k])]

IsName(s) == s # << >> /\ \A k \in DOMAIN s : InName(s[k])
IsReference(s) == s # << >> /\ Head(s) = ":" /\ IsName(Tail(s))

Spelled(op) == IF op \in SyscallMnemonics THEN <<"sys", " ", op>> ELSE <<op>>

(* The integers a spelling denotes: one, or none.                          *)
IntegersIn(s) ==
    {n \in Numbers : s \in {<<ToString(n)>>, <<"+", ToString(n)>>}}
        \union {-n : n \in {m \in Numbers : s = <<"-", ToString(m)>>}}

ArgumentsIn(kind, s) ==
    CASE kind = "imb" -> IntegersIn(s) \intersect Byteword
      [] kind = "imw" -> {n % Base ^ WordLen : n \in
                             {m \in IntegersIn(s) : -Base ^ WordLen <= 2 * m /\ 2 * m < Base ^ WordLen}}
      [] kind = "var" -> IF s # << >> /\ Head(s) = "%" THEN IntegersIn(Tail(s)) \intersect Byteword
                         ELSE {}
      [] kind = "loc" -> IF IsReference(s) THEN {Tail(s)} ELSE {}

(* The instructions a line spells: one, or none.                           *)
InstructionsIn(l) ==
    {[op |-> op, arg |-> 0] : op \in {o \in Operations : ArgKind[o] = "none" /\ l = Spelled(o)}}
        \union UNION {{[op |-> op, arg |-> x] :
                          x \in ArgumentsIn(ArgKind[op], SubSeq(l, Len(Spelled(op)) + 2, Len(l)))} :
                      op \in {o \in Operations : ArgKind[o] # "none"
                                                  /\ IsPrefix(Spelled(o) \o <<" ">>, l)}}

IsInstruction(l) == InstructionsIn(l) # {}
InstructionIn(l) == CHOOSE instruction \in InstructionsIn(l) : TRUE

(* Those of the first k lines, for every k.                                *)
Instructions(lines) ==
    LET Upto[k \in 0 .. Len(lines)] ==
            IF k = 0 THEN << >>
            ELSE IF IsInstruction(lines[k]) THEN Append(Upto[k - 1], InstructionIn(lines[k]))
            ELSE Upto[k - 1]
    IN  Upto

(* Names are those of one label each, with an instruction after it if      *)
(* something refers to it.                                                 *)
WellFormed(lines) ==
    /\ \A k \in DOMAIN lines :
          lines[k] = << >> \/ IsReference(lines[k]) \/ IsInstruction(lines[k])
    /\ \A k, m \in DOMAIN lines : k # m /\ lines[k] = lines[m] => ~IsReference(lines[k])
    /\ \A instruction \in Range(Instructions(lines)[Len(lines)]) :
          ArgKind[instruction.op] = "loc" =>
              \E k, m \in DOMAIN lines :
                  k < m /\ lines[k] = <<":">> \o instruction.arg /\ IsInstruction(lines[m])

UnknownMnemonic(l) ==
    /\ IsLetters(Head(l))
    /\ \/ Head(l) \notin OpcodeMnemonics
       \/ Head(l) = "sys" /\ ~(Len(l) > 2 /\ l[3] \in SyscallMnemonics)

NoMnemonic(l) == ~IsLetters(Head(l)) /\ Head(l) # ":"

-----------------------------------------------------------------------------
(* Properties.                                                             *)

HasAssembled == user = "assembler" /\ phase = "finished"
GivenUp == user = "nobody" \/ (user = "assembler" /\ phase = "failed")

(* assembler.c accepts what is well formed and nothing else, across lines, *)
(* blanks, and names used before their label or never given one.  Two      *)
(* lines are treated as an error without being refused and reported: an    *)
(* unknown mnemonic is reported and something is emitted for it, and a     *)
(* line that starts with neither a letter nor a colon is refused silently. *)
AcceptsWellFormed ==
    \A lines \in IF HasAssembled \/ GivenUp THEN {Lines} ELSE {} :
        /\ HasAssembled /\ reports = 0 => WellFormed(lines)
        /\ HasAssembled /\ reports > 0 => \E l \in Range(lines) \ {<< >>} : UnknownMnemonic(l)
        /\ GivenUp => ~WellFormed(lines)
        /\ GivenUp /\ reports = 0 => \E l \in Range(lines) \ {<< >>} : NoMnemonic(l)

(* Instructions that refer to names, referring to their symbols.           *)
Resolved(s) ==
    [k \in DOMAIN s |-> [s[k] EXCEPT !.arg = IF s[k].op = "loc" THEN symbols[@] ELSE @]]

(* What is assembled without a report is what the lines say: their         *)
(* instructions in order with their arguments, names that are the same     *)
(* being the same symbol, each placed where its label is.                  *)
AssemblesWhatIsWritten ==
    \A lines \in IF HasAssembled /\ reports = 0 THEN {Lines} ELSE {} :
        /\ source = Resolved(Instructions(lines)[Len(lines)])
        /\ \A k \in DOMAIN lines :
              IsReference(lines[k]) =>
                  placed[symbols[Tail(lines[k])] + 1] = Len(Instructions(lines)[k])
=============================================================================
