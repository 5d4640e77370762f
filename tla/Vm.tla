--------------------------------- MODULE Vm ---------------------------------
(***************************************************************************)
(* The virtual machine of lib/vm/vm.c: its two growable memory blocks, the *)
(* offsets it keeps into them and one action per operation it dispatches.  *)
(*                                                                         *)
(* Memory is counted in words: a VmFrame is two of them, and every size    *)
(* the code computes in bytes is a multiple of a word.  A pointer into a   *)
(* block is its offset from the block's start.  A location is the index of *)
(* an instruction, from 0, and an instruction is a record of its operation *)
(* and its argument: how instructions are laid out in bytewords is the     *)
(* business of lib/bytecode/bytecode.c.                                    *)
(*                                                                         *)
(* An access outside a block, and the traps of module Operations, are      *)
(* undefined behaviour: the machine stops in status "undefined".           *)
(***************************************************************************)
EXTENDS Operations, Sequences

CONSTANTS
    Programs,    \* the instruction sequences the machine may be given
    StackBlock,  \* words first allocated to the value stack: 8 in the code
    FrameBlock,  \* words first allocated to the frames: 8 (64 bytes)
    FrameWords,  \* words of a VmFrame: 2
    MaxStack     \* bound of the model: no step is taken at this stack height

ASSUME VmAssumption ==
    /\ StackBlock \in Nat \ {0}
    /\ FrameBlock \in Nat
    /\ FrameWords = 2
    /\ MaxStack \in Nat
    /\ \A p \in Programs :
          /\ p \in Seq([op : STRING, arg : Nat])
          /\ \A i \in DOMAIN p : p[i].op \in {"sca", "loc"} => p[i].arg \in Word

VARIABLES
    bytecode,    \* the instructions; the machine never writes them
    ip,          \* index of the next instruction
    value_stack, \* data, top and capacity of the expression stack
    frames,      \* words, block, top, local_variables and capacity
    live,        \* history variable: the base and return address of each
                 \* call in progress, as they were when it was made
    status,      \* "running", "exited", "invalid" or "undefined"
    output       \* what the last step asked of the VmSystem

vars == <<bytecode, ip, value_stack, frames, live, status, output>>

NoOutput == [call |-> "none", var |-> 0, val |-> 0]
Output(call, var, val) == [call |-> call, var |-> var, val |-> val]

Op  == bytecode[ip + 1].op
Arg == bytecode[ip + 1].arg

-----------------------------------------------------------------------------
(* The value stack.  A cell that was never pushed to is 0 here; none is    *)
(* read.                                                                   *)

(* realloc keeps the cells both blocks have.                               *)
Realloc(cells, size) ==
    [i \in 0 .. size - 1 |-> IF i \in DOMAIN cells THEN cells[i] ELSE 0]

Grown(vs) ==
    [vs EXCEPT !.capacity = 2 * @, !.data = Realloc(@, 2 * vs.capacity)]

push_Unchecked(vs, w) == [vs EXCEPT !.data[vs.top] = w, !.top = @ + 1]

push(vs, w) ==
    LET s == IF vs.top = vs.capacity THEN Grown(vs) ELSE vs
    IN  [s EXCEPT !.data[vs.top] = w, !.top = @ + 1]

pop(vs, n) == [vs EXCEPT !.top = @ - n]

Top   == value_stack.data[value_stack.top - 1]
Below == value_stack.data[value_stack.top - 2]

-----------------------------------------------------------------------------
(* The frames.                                                             *)

Larger(m, n) == IF m >= n THEN m ELSE n

(* The new block is asked for with the old capacity (vm.c:68).             *)
frames_alloc(fs, size) ==
    IF fs.capacity >= fs.top + size
    THEN [fs EXCEPT !.top = @ + size]
    ELSE [fs EXCEPT !.words    = Realloc(@, fs.capacity),
                    !.block    = fs.capacity,
                    !.top      = @ + size,
                    !.capacity = Larger(2 * @, fs.top + size)]

(* All the words in use are in the block.                                  *)
Backed(fs) == fs.top <= fs.block

(* A VmFrame is its return address, then the offset of the caller's        *)
(* variables; the callee's variables start right after it.                 *)
PushFrame_SavesCallee(return_ip) ==
    LET fs == frames_alloc(frames, FrameWords)
    IN  [fs EXCEPT !.words = [@ EXCEPT ![frames.top] = return_ip,
                                       ![frames.top + 1] = fs.top],
                   !.local_variables = fs.top]

PushFrame(return_ip) ==
    LET fs == frames_alloc(frames, FrameWords)
    IN  [fs EXCEPT !.words = [@ EXCEPT ![frames.top] = return_ip,
                                       ![frames.top + 1] = frames.local_variables],
                   !.local_variables = fs.top]

(* memset of the words just reserved.                                      *)
Reserve_Dirty(n) == frames_alloc(frames, n)

Reserve(n) ==
    LET fs == frames_alloc(frames, n)
    IN  [fs EXCEPT !.words = [i \in DOMAIN @ |->
                                 IF frames.top <= i /\ i < fs.top THEN 0 ELSE @[i]]]

Frame == frames.local_variables - FrameWords
ReturnIp == frames.words[Frame]
ReturnLocalVariables == frames.words[Frame + 1]

PopFrame_KeepsFrame ==
    [frames EXCEPT !.top = frames.local_variables,
                   !.local_variables = ReturnLocalVariables]

PopFrame ==
    [frames EXCEPT !.top = Frame, !.local_variables = ReturnLocalVariables]

Address_FromStart(i) == i

Address(i) == frames.local_variables + i
InBlock(i) == Address(i) < frames.block

(* Past the variables in use the block holds what earlier calls left.      *)
Reads(i) ==
    IF Address(i) < frames.top THEN {frames.words[Address(i)]} ELSE Word

-----------------------------------------------------------------------------
Init ==
    /\ bytecode \in Programs
    /\ ip = 0
    /\ value_stack = [data     |-> [i \in 0 .. StackBlock - 1 |-> 0],
                      top      |-> 0,
                      capacity |-> StackBlock]
    /\ frames = [words           |-> [i \in 0 .. FrameBlock - 1 |-> 0],
                 block           |-> FrameBlock,
                 top             |-> 0,
                 local_variables |-> 0,
                 capacity        |-> FrameBlock]
    /\ live = << [base |-> 0, return_ip |-> 0] >>
    /\ status = "running"
    /\ output = NoOutput

Running == status = "running" /\ value_stack.top < MaxStack

(* The next instruction is op, and its operands are on the value stack.    *)
Executes(op) ==
    /\ Running
    /\ ip < Len(bytecode)
    /\ Op = op
    /\ value_stack.top >= Pops(op)
    /\ UNCHANGED bytecode

Silently == output' = NoOutput /\ UNCHANGED status
Advance  == ip' = ip + 1
FramesUnchanged == UNCHANGED <<frames, live>>

-----------------------------------------------------------------------------
OpNop ==
    /\ Executes("nop") /\ Silently /\ Advance
    /\ UNCHANGED value_stack /\ FramesUnchanged

OpCal ==
    /\ Executes("cal") /\ Silently
    /\ Backed(frames_alloc(frames, FrameWords))
    /\ frames' = PushFrame(ip + 1)
    /\ live' = Append(live, [base |-> frames.top + FrameWords, return_ip |-> ip + 1])
    /\ ip' = Top
    /\ value_stack' = pop(value_stack, 1)

OpRes ==
    /\ Executes("res") /\ Silently /\ Advance
    /\ Backed(frames_alloc(frames, Arg))
    /\ frames' = Reserve(Arg)
    /\ UNCHANGED <<value_stack, live>>

OpRet ==
    /\ Executes("ret") /\ Silently
    /\ Frame >= 0
    /\ ip' = ReturnIp
    /\ frames' = PopFrame
    /\ live' = SubSeq(live, 1, Len(live) - 1)
    /\ UNCHANGED value_stack

OpScaLoc ==
    /\ Executes("sca") \/ Executes("loc")
    /\ Silently /\ Advance
    /\ value_stack' = push(value_stack, Arg)
    /\ FramesUnchanged

OpVar ==
    /\ Executes("var") /\ Silently /\ Advance
    /\ InBlock(Arg)
    /\ \E w \in Reads(Arg) : value_stack' = push(value_stack, w)
    /\ FramesUnchanged

OpSet ==
    /\ Executes("set") /\ Silently /\ Advance
    /\ InBlock(Arg)
    /\ frames' = [frames EXCEPT !.words[Address(Arg)] = Top]
    /\ value_stack' = pop(value_stack, 1)
    /\ UNCHANGED live

OpPop ==
    /\ Executes("pop") /\ Silently /\ Advance
    /\ value_stack' = pop(value_stack, 1)
    /\ FramesUnchanged

OpJmp ==
    /\ Executes("jmp") /\ Silently
    /\ ip' = Arg
    /\ UNCHANGED value_stack /\ FramesUnchanged

ConditionalJump(op, taken) ==
    /\ Executes(op) /\ Silently
    /\ ip' = IF taken THEN Arg ELSE ip + 1
    /\ value_stack' = pop(value_stack, 1)
    /\ FramesUnchanged

OpJnz_TakenOnZero == ConditionalJump("jnz", Top = 0)

OpJnz == ConditionalJump("jnz", Top # 0)
OpJze == ConditionalJump("jze", Top = 0)

OpUnary ==
    \E op \in UnaryOperations :
        /\ Executes(op) /\ Silently /\ Advance
        /\ \E w \in UnaryOutcomes(op, Top) \ {Trap} :
               value_stack' = push(pop(value_stack, 1), w)
        /\ FramesUnchanged

OpBinary ==
    \E op \in BinaryOperations :
        /\ Executes(op) /\ Silently /\ Advance
        /\ \E w \in BinaryOutcomes(op, Below, Top) \ {Trap} :
               value_stack' = push(pop(value_stack, 2), w)
        /\ FramesUnchanged

Sys ==
    \E op \in {"sys nop", "sys hi", "sys bye"} :
        /\ Executes(op) /\ Advance
        /\ output' = Output(op, 0, 0)
        /\ UNCHANGED <<value_stack, status>> /\ FramesUnchanged

SysDbg ==
    /\ Executes("sys dbg") /\ Advance
    /\ InBlock(Arg)
    /\ \E w \in Reads(Arg) : output' = Output("sys dbg", Arg, w)
    /\ UNCHANGED <<value_stack, status>> /\ FramesUnchanged

SysExit ==
    /\ Executes("sys exit") /\ Advance
    /\ output' = Output("sys exit", 0, Top)
    /\ value_stack' = pop(value_stack, 1)
    /\ status' = "exited"
    /\ FramesUnchanged

(* An operation or a system call that is not dispatched is reported, and   *)
(* the machine stops.                                                      *)
Invalid ==
    /\ Running
    /\ ip < Len(bytecode)
    /\ Op \notin Dispatched
    /\ status' = "invalid"
    /\ output' = NoOutput
    /\ Advance
    /\ UNCHANGED <<bytecode, value_stack>> /\ FramesUnchanged

-----------------------------------------------------------------------------
(* Undefined behaviour.                                                    *)

Stops == status' = "undefined" /\ output' = NoOutput /\ UNCHANGED <<bytecode, ip>>

(* The instructions have no end marker; nothing checks that ip is inside.  *)
FetchOutside ==
    /\ Running
    /\ ip >= Len(bytecode)
    /\ Stops
    /\ UNCHANGED value_stack /\ FramesUnchanged

(* pop does not check that the stack holds a word.                         *)
Underflow ==
    /\ Running
    /\ ip < Len(bytecode)
    /\ value_stack.top < Pops(Op)
    /\ Stops
    /\ UNCHANGED value_stack /\ FramesUnchanged

(* The frame of the caller would start before the block.                   *)
ReturnOutside ==
    /\ Executes("ret")
    /\ Frame < 0
    /\ Stops
    /\ UNCHANGED value_stack /\ FramesUnchanged

VariableOutside ==
    /\ \E op \in {"var", "set", "sys dbg"} : Executes(op)
    /\ ~InBlock(Arg)
    /\ Stops
    /\ UNCHANGED value_stack /\ FramesUnchanged

(* The frames grew but their block did not: the frame, or the zeros of the *)
(* new variables, are written past its end.                                *)
FramesOutside ==
    /\ Executes("cal") \/ Executes("res")
    /\ LET size == IF Op = "cal" THEN FrameWords ELSE Arg
       IN  /\ ~Backed(frames_alloc(frames, size))
           /\ frames' = frames_alloc(frames, size)
    /\ Stops
    /\ UNCHANGED <<value_stack, live>>

Trapped ==
    /\ \/ \E op \in UnaryOperations :
             Executes(op) /\ Trap \in UnaryOutcomes(op, Top)
       \/ \E op \in BinaryOperations :
             Executes(op) /\ Trap \in BinaryOutcomes(op, Below, Top)
    /\ Stops
    /\ UNCHANGED value_stack /\ FramesUnchanged

Next ==
    \/ OpNop \/ OpCal \/ OpRes \/ OpRet \/ OpScaLoc \/ OpVar \/ OpSet \/ OpPop
    \/ OpJmp \/ OpJnz \/ OpJze \/ OpUnary \/ OpBinary
    \/ Sys \/ SysDbg \/ SysExit \/ Invalid
    \/ FetchOutside \/ Underflow \/ ReturnOutside \/ VariableOutside
    \/ FramesOutside \/ Trapped

(* vm_run is a loop around run_one.                                        *)
Spec == Init /\ [][Next]_vars
FairSpec == Spec /\ WF_vars(Next)

-----------------------------------------------------------------------------
(* Properties.                                                             *)

(* One past the last variable of the k-th call in progress.                *)
VariablesEnd(k) ==
    IF k = Len(live) THEN frames.top ELSE live[k + 1].base - FrameWords

(* Every part of the machine has its type: the value stack is never taller *)
(* than its block, and a cell in use and a variable of any call in         *)
(* progress hold a word, not part of a frame.                              *)
TypeOK ==
    /\ bytecode \in Seq([op : STRING, arg : Nat])
    /\ ip \in Nat
    /\ value_stack \in [data : [0 .. value_stack.capacity - 1 -> Nat],
                        top : 0 .. value_stack.capacity,
                        capacity : Nat \ {0}]
    /\ \A i \in 0 .. value_stack.top - 1 : value_stack.data[i] \in Word
    /\ frames \in [words : [0 .. frames.block - 1 -> Nat],
                   block : Nat, top : Nat, local_variables : 0 .. frames.top,
                   capacity : Nat]
    /\ live \in Seq([base : Nat, return_ip : Nat])
    /\ status \in {"running", "exited", "invalid", "undefined"}
    /\ output \in [call : {"none"} \union Syscalls, var : Nat, val : Word]
    /\ status # "undefined" =>
          \A k \in 1 .. Len(live) :
              \A i \in live[k].base .. VariablesEnd(k) - 1 : frames.words[i] \in Word

(* The frames tile the block: the saved offsets lead from local_variables  *)
(* down through the calls in progress to offset 0, no frame overlaps the   *)
(* variables of its caller, and each still holds the return address it was *)
(* made with (op_cal, op_ret, op_set, frames_alloc), whatever variables    *)
(* the program addresses.                                                  *)
FramesChained ==
    status # "undefined" =>
        /\ live # << >>
        /\ live[1].base = 0
        /\ live[Len(live)].base = frames.local_variables
        /\ \A k \in 2 .. Len(live) :
              /\ live[k - 1].base <= live[k].base - FrameWords
              /\ frames.words[live[k].base - FrameWords] = live[k].return_ip
              /\ frames.words[live[k].base - FrameWords + 1] = live[k - 1].base
        /\ frames.local_variables <= frames.top
        /\ frames.top <= frames.block
        /\ frames.block = frames.capacity

(* No step writes below the variables of the current call: whatever index  *)
(* a program sets, its callers' variables and frames stay as they are.     *)
CallersUntouched ==
    [][\A i \in 0 .. frames.local_variables - 1 :
           frames'.words[i] = frames.words[i]]_vars

(* Every call returns to where it was made, with its caller's variables    *)
(* and with the words above them given back (op_cal against op_ret).       *)
ReturnsToCaller ==
    [][Len(live') < Len(live) =>
           /\ ip' = live[Len(live)].return_ip
           /\ frames'.local_variables = live[Len(live) - 1].base
           /\ frames'.top = live[Len(live)].base - FrameWords]_vars

(* vm.c:57 of frames_alloc: it "reserves `size` bytes".  The bytes are     *)
(* there only if the block reaches as far as the top it moves.             *)
ReservedIsBacked == Backed(frames)
=============================================================================
