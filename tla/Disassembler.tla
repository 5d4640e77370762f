---------------------------- MODULE Disassembler ----------------------------
(***************************************************************************)
(* lib/disassembler/disassembler.c over what the emitter has finished.     *)
(*                                                                         *)
(* The text it makes is a sequence of lines: an instruction with its       *)
(* argument, or a label, which is named after its location.                *)
(***************************************************************************)
EXTENDS Assembler

Line(op, arg) == [op |-> op, arg |-> arg]
Label(location) == Line(":", location)

IsSyscall(op) == Head(Lead[op]) = Head(Lead["hi"])

(* Where the reader's ip is after k instructions, and how many there are   *)
(* to the end of the block.                                                *)
Ip ==
    LET Place[k \in 0 .. Len(instructions)] == IF k = 0 THEN 0 ELSE Following(Place[k - 1])
    IN  Place

Turns == CHOOSE n \in 0 .. Len(instructions) : Ip[n] = Len(instructions)

Refers(line) == ArgKind[line.op] = "loc"

(* register_symbols: the locations referred to, in order of reference.     *)
SymbolLocations ==
    LET Among[k \in 0 .. Turns] ==
            IF k = 0 THEN << >>
            ELSE IF Refers(InstructionAt(Ip[k - 1]))
                 THEN Append(Among[k - 1], InstructionAt(Ip[k - 1]).arg)
                 ELSE Among[k - 1]
    IN  Among[Turns]

Disassembler == [symbol_locations |-> SymbolLocations, index |-> 0, dst |-> << >>]

(* The next symbol gets its label if its location is p.                    *)
Labelled(d, p) ==
    IF d.index < Len(d.symbol_locations) /\ d.symbol_locations[d.index + 1] = p
    THEN [d EXCEPT !.index = @ + 1, !.dst = Append(@, Label(p))]
    ELSE d

DisassembleOne(d, p) ==
    [d EXCEPT !.dst = Append(@, Line(InstructionAt(p).op, InstructionAt(p).arg))]

Turn_LabelAfter(d, p) == Labelled(DisassembleOne(d, p), p)

Turn(d, p) == DisassembleOne(Labelled(d, p), p)

After ==
    LET Done[k \in 0 .. Turns] ==
            IF k = 0 THEN Disassembler ELSE Turn(Done[k - 1], Ip[k - 1])
    IN  Done

(* The text, or none: the case of a system call runs into the next one,    *)
(* which is exit(-1).                                                      *)
Disassembled ==
    IF \E k \in 0 .. Turns - 1 : IsSyscall(InstructionAt(Ip[k]).op) THEN {}
    ELSE {Labelled(After[Turns], Ip[Turns]).dst}

-----------------------------------------------------------------------------
(* The lines that were emitted, and those of them before which there is a  *)
(* label: those referred to, up to the first reference that does not go    *)
(* further than the one before it.                                         *)
EmittedLines == [k \in DOMAIN source |-> Line(source[k].op, Expected(source[k], TRUE))]

Targets(lines) ==
    LET refs == {k \in DOMAIN lines : Refers(lines[k])}
        ascends(n) == \A j, k \in refs : j < k /\ k <= n => lines[j].arg < lines[k].arg
    IN  {lines[n].arg : n \in {m \in refs : ascends(m)}}

WithLabels(lines, targets) ==
    LET Upto[k \in 0 .. Len(lines)] ==
            IF k = 0 THEN << >>
            ELSE IF StartOf[k - 1] \in targets
                 THEN Append(Append(Upto[k - 1], Label(StartOf[k - 1])), lines[k])
                 ELSE Append(Upto[k - 1], lines[k])
    IN  Upto[Len(lines)]

(* The disassembly has the instructions that were emitted, in order, and a *)
(* label before each one a reference goes to, but only up to the first     *)
(* reference that does not go further than the one before it: labels are   *)
(* looked for in the order of the references, so the label of this one and *)
(* of all later ones are lost (disassembler.c:143).  Code with a system    *)
(* call is not disassembled, the process exits (disassembler.c:121).       *)
DisassemblesInstructions ==
    \A lines \in IF phase = "finished" THEN {EmittedLines} ELSE {} :
        /\ Disassembled = {} <=> \E k \in DOMAIN source : IsSyscall(source[k].op)
        /\ Disassembled \subseteq {WithLabels(lines, Targets(lines))}
=============================================================================
