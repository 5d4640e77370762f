------------------------------- MODULE Emitter -------------------------------
(***************************************************************************)
(* lib/emitter/emitter.c over the layout of lib/bytecode/bytecode.c:       *)
(* instructions are written one byteword after another, words after        *)
(* padding, and the symbols they refer to are replaced by locations at the *)
(* end.                                                                    *)
(*                                                                         *)
(* A byteword is a number below Base (2^16 in the code), a word WordLen of *)
(* them, the lowest first.  The block is aligned (malloc), so an address   *)
(* is aligned when its offset in the block is.  One operation stands for   *)
(* all those of FOR_OPERATIONS and FOR_SYSCALLS with its kind of argument. *)
(***************************************************************************)
EXTENDS Integers, Sequences

CONSTANTS
    Base,       \* of bytewords
    WordLen,    \* bytewords of a word: 4
    Arguments,  \* what constants and indices the emitter may be given
    MaxEmitted, \* bound of the model: instructions emitted
    MaxSymbols  \* bound of the model: symbols made

(* The locations of n instructions, each a few bytewords, padding and a    *)
(* word at most, and the end of them are words other than the last, which  *)
(* is no location: code is in memory, whose bytewords words can number.    *)
Fits(n) == n * (2 * WordLen + 1) < Base ^ WordLen - 1

ASSUME EmitterAssumption ==
    /\ Base \in Nat /\ Base > 5
    /\ WordLen \in Nat \ {0}
    /\ Arguments \subseteq 0 .. Base ^ WordLen - 1
    /\ MaxEmitted \in Nat /\ MaxSymbols \in Nat
    /\ Fits(MaxEmitted) /\ MaxSymbols < Base ^ WordLen

(* What exponentiation is, of which the provers know nothing.              *)
ASSUME PowersOfBase ==
    /\ Base ^ 0 = 1
    /\ \A j \in 0 .. WordLen - 1 : Base ^ (j + 1) = Base * Base ^ j

VARIABLES
    instructions,         \* bytewords
    symbol_locations,     \* of each symbol, or UNSET_LOCATION
    symbol_ref_locations, \* where locations were written, before padding
    next_symbol,
    phase,                \* "emitting", "linking", "finished" or "failed"
    i,                    \* the next reference to patch
    source,               \* history variable: the instructions emitted
    placed                \* history variable: how many instructions were
                          \* emitted before a symbol was placed

vars == <<instructions, symbol_locations, symbol_ref_locations, next_symbol,
          phase, i, source, placed>>

history == <<source, placed>>

Byteword == 0 .. Base - 1
WordValue == 0 .. Base ^ WordLen - 1
UNSET_LOCATION == Base ^ WordLen - 1

(* The bytewords before the argument: the opcode, and the code of a system *)
(* call.                                                                   *)
Lead == [nop |-> <<0>>, res |-> <<1>>, sca |-> <<2>>, loc |-> <<3>>,
         var |-> <<4>>, hi |-> <<5, 0>>, dbg |-> <<5, 1>>]

ArgKind == [nop |-> "none", res |-> "imb", sca |-> "imw", loc |-> "loc",
            var |-> "var", hi |-> "none", dbg |-> "var"]

Operations == DOMAIN Lead

Narrow(kind) == kind \in {"imb", "var"}
Wide(kind)   == kind \in {"imw", "loc"}

-----------------------------------------------------------------------------
(* Writing: bytecode_write_* and emit_*.                                   *)

(* The offset of the first word at or after an offset.                     *)
align_up(p) == ((p + WordLen - 1) \div WordLen) * WordLen

Bytewords(w) == [j \in 1 .. WordLen |-> (w \div Base ^ (j - 1)) % Base]

Padded_Never(s) == s

Padded(s) == s \o [j \in 1 .. align_up(Len(s)) - Len(s) |-> 0]

(* An index or an immediate is cut to a byteword (FIXME at bytecode.c:78). *)
Written(s, kind, x) ==
    CASE kind = "none" -> s
      [] Narrow(kind)  -> Append(s, x % Base)
      [] Wide(kind)    -> Padded(s) \o Bytewords(x)

Init ==
    /\ instructions = << >>
    /\ symbol_locations = << >>
    /\ symbol_ref_locations = << >>
    /\ next_symbol = 0
    /\ phase = "emitting"
    /\ i = 0
    /\ source = << >>
    /\ placed = << >>

Emitting == phase = "emitting"

Symbols == 0 .. next_symbol - 1

Write(op, x) ==
    /\ \E s \in {instructions \o Lead[op]} :
          /\ instructions' = Written(s, ArgKind[op], x)
          /\ symbol_ref_locations' = IF ArgKind[op] = "loc"
                                     THEN Append(symbol_ref_locations, Len(s))
                                     ELSE symbol_ref_locations
    /\ source' = Append(source, [op |-> op, arg |-> x])

Emit(op, x) ==
    /\ Emitting /\ Len(source) < MaxEmitted
    /\ Write(op, x)
    /\ UNCHANGED <<symbol_locations, next_symbol, phase, i, placed>>

EmitPlain == \E op \in Operations : ArgKind[op] = "none" /\ Emit(op, 0)

EmitArgument ==
    \E op \in Operations, x \in Arguments :
        (Narrow(ArgKind[op]) \/ ArgKind[op] = "imw") /\ Emit(op, x)

EmitReference ==
    \E op \in Operations, s \in Symbols : ArgKind[op] = "loc" /\ Emit(op, s)

-----------------------------------------------------------------------------
(* Symbols.                                                                *)

Unset_One(n) == <<UNSET_LOCATION>>

Unset(n) == [s \in 1 .. n |-> UNSET_LOCATION]

(* emit_many_new_symbols; emit_new_symbol makes one.                       *)
MakeSymbols(n) ==
    /\ next_symbol' = next_symbol + n
    /\ symbol_locations' = symbol_locations \o Unset(n)
    /\ placed' = placed \o [s \in 1 .. n |-> -1]

NewSymbols(n) ==
    /\ Emitting /\ next_symbol + n <= MaxSymbols
    /\ MakeSymbols(n)
    /\ UNCHANGED <<instructions, symbol_ref_locations, phase, i, source>>

IsUnset(s) == symbol_locations[s + 1] = UNSET_LOCATION

(* emit_symbol_location; it refuses a symbol that has its location.        *)
PlaceSymbol(s) ==
    /\ Emitting /\ IsUnset(s)
    /\ symbol_locations' = [symbol_locations EXCEPT ![s + 1] = Len(instructions)]
    /\ placed' = [placed EXCEPT ![s + 1] = Len(source)]
    /\ UNCHANGED <<instructions, symbol_ref_locations, next_symbol, phase, i, source>>

-----------------------------------------------------------------------------
(* Reading: bytecode_read_*, as the linker, the machine and the            *)
(* disassembler do, from an offset.                                        *)

(* The byteword at an offset; past the block, one that was never written.  *)
At(s, p) == IF p < Len(s) THEN s[p + 1] ELSE -1

WordAt(s, p) ==
    LET Sum[j \in 0 .. WordLen] ==
            IF j = 0 THEN 0 ELSE Sum[j - 1] + At(s, p + j - 1) * Base ^ (j - 1)
    IN  Sum[WordLen]

ReadWord(s, p) == WordAt(s, align_up(p))

-----------------------------------------------------------------------------
(* emitter_finish, one action per reference.                               *)

Finish ==
    /\ Emitting
    /\ phase' = "linking"
    /\ UNCHANGED <<instructions, symbol_locations, symbol_ref_locations,
                   next_symbol, i, history>>

Linking == phase = "linking" /\ i < Len(symbol_ref_locations)

RefLocation == symbol_ref_locations[i + 1]
SymbolLocation == symbol_locations[ReadWord(instructions, RefLocation) + 1]

(* Not after the last instruction, or unset.                               *)
InCode_OrEnd(location) == location <= Len(instructions)

InCode(location) == location < Len(instructions)

(* bytecode_write_word_at zeroes the padding again.                        *)
PatchedFrom_Unaligned(s, p, w) ==
    [k \in DOMAIN s |-> IF k \in p + 1 .. p + WordLen THEN Bytewords(w)[k - p] ELSE s[k]]

Patched(s, p, w) ==
    LET a == align_up(p)
    IN  [k \in DOMAIN s |->
            IF k \in p + 1 .. a THEN 0
            ELSE IF k \in a + 1 .. a + WordLen THEN Bytewords(w)[k - a]
            ELSE s[k]]

PatchReference ==
    /\ Linking
    /\ InCode(SymbolLocation)
    /\ instructions' = Patched(instructions, RefLocation, SymbolLocation)
    /\ i' = i + 1
    /\ UNCHANGED <<symbol_locations, symbol_ref_locations, next_symbol, phase, history>>

(* The caller gives up (assembler.c:440); what was patched stays so.       *)
RefuseReference ==
    /\ Linking
    /\ ~InCode(SymbolLocation)
    /\ phase' = "failed"
    /\ UNCHANGED <<instructions, symbol_locations, symbol_ref_locations,
                   next_symbol, i, history>>

AllPatched ==
    /\ phase = "linking"
    /\ i = Len(symbol_ref_locations)
    /\ phase' = "finished"
    /\ UNCHANGED <<instructions, symbol_locations, symbol_ref_locations,
                   next_symbol, i, history>>

Next ==
    \/ EmitPlain \/ EmitArgument \/ EmitReference
    \/ \E n \in 1 .. MaxSymbols : NewSymbols(n)
    \/ \E s \in Symbols : PlaceSymbol(s)
    \/ Finish \/ PatchReference \/ RefuseReference \/ AllPatched

Spec == Init /\ [][Next]_vars

-----------------------------------------------------------------------------
(* Properties.                                                             *)

(* Bytewords are bytewords, and the block has no location that could be    *)
(* taken for an unset one.                                                 *)
TypeOK ==
    /\ instructions \in Seq(Byteword)
    /\ Len(instructions) < UNSET_LOCATION
    /\ next_symbol \in Nat
    /\ Len(symbol_locations) = next_symbol
    /\ symbol_locations \in Seq(0 .. Len(instructions) \union {UNSET_LOCATION})
    /\ symbol_ref_locations \in Seq(0 .. Len(instructions) - 1)
    /\ phase \in {"emitting", "linking", "finished", "failed"}
    /\ i \in 0 .. Len(symbol_ref_locations)

(* What a reader that starts at offset p makes of the instruction there:   *)
(* how the machine (vm.c:137-180) and the disassembler fetch one.          *)
HasLead(p, op) ==
    \A j \in DOMAIN Lead[op] : At(instructions, p + j - 1) = Lead[op][j]

ArgumentAt(p, kind) ==
    CASE kind = "none" -> 0
      [] Narrow(kind)  -> At(instructions, p)
      [] Wide(kind)    -> ReadWord(instructions, p)

AfterArgument(p, kind) ==
    CASE kind = "none" -> p
      [] Narrow(kind)  -> p + 1
      [] Wide(kind)    -> align_up(p) + WordLen

InstructionAt(p) ==
    LET at == {o \in Operations : HasLead(p, o)}
        op == IF at = {} THEN "nop" ELSE CHOOSE o \in at : TRUE
    IN  [op |-> op, arg |-> ArgumentAt(p + Len(Lead[op]), ArgKind[op])]

(* Where the instruction after the one at p starts.                        *)
Following(p) ==
    LET op == InstructionAt(p).op
    IN  AfterArgument(p + Len(Lead[op]), ArgKind[op])

(* Where a reader finds the k-th instruction emitted, from 0.              *)
StartOf ==
    LET Start[k \in 0 .. Len(source)] ==
            IF k = 0 THEN 0 ELSE Following(Start[k - 1])
    IN  Start

(* An argument as it should be read: a reference that is linked is the     *)
(* location of the instruction its symbol was placed before.               *)
Expected(instruction, linked) ==
    LET kind == ArgKind[instruction.op]
    IN  CASE Narrow(kind) -> instruction.arg % Base
          [] kind = "loc" /\ linked -> StartOf[placed[instruction.arg + 1]]
          [] OTHER -> instruction.arg

(* A reader finds the instructions that were emitted, one after another to *)
(* the end of the block: writers, which pad by length, and readers, which  *)
(* align addresses, agree on where every word is.                          *)
ReadsAs(linked) ==
    /\ StartOf[Len(source)] = Len(instructions)
    /\ \A k \in 1 .. Len(source) :
          InstructionAt(StartOf[k - 1]) =
              [source[k] EXCEPT !.arg = Expected(source[k], linked)]

ReadsBack == phase = "emitting" => ReadsAs(FALSE)

(* Linking changes the references, each to the start of the instruction    *)
(* its symbol was placed before, and nothing else.                         *)
LinksToTargets == phase = "finished" => ReadsAs(TRUE)

(* Linking fails exactly if a symbol that is referred to was never placed, *)
(* or was placed after the last instruction (assembler.c:440 reports it as *)
(* undefined).                                                             *)
Dangling(s) == placed[s + 1] \in {-1, Len(source)}

References == {source[k].arg : k \in {n \in 1 .. Len(source) : source[n].op = "loc"}}

FailsOnDangling ==
    /\ phase = "failed" => \E s \in References : Dangling(s)
    /\ phase = "finished" => ~\E s \in References : Dangling(s)
=============================================================================
