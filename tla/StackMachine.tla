---------------------------- MODULE StackMachine ----------------------------
(***************************************************************************)
(* What the virtual machine promises, without its memory: an expression    *)
(* stack and a stack of calls, each with the variables it has reserved.    *)
(* The operations are those documented in lib/bytecode/bytecode.h; module  *)
(* Vm lays this state out in the two memory blocks of lib/vm/vm.c and      *)
(* implements this specification.                                          *)
(*                                                                         *)
(* A program that breaks the machine's contract (takes a word from an      *)
(* empty stack, returns from no call, leaves its instructions, divides by  *)
(* zero) has undefined behaviour: status "undefined", of which nothing     *)
(* more is said.  So has one whose calls and variables need more than      *)
(* FrameBlock words at once.  A variable that was not reserved reads as    *)
(* any word or is undefined behaviour; setting it changes no variable.     *)
(***************************************************************************)
EXTENDS Operations, Sequences

CONSTANTS
    Programs,    \* the instruction sequences the machine may be given
    FrameBlock,  \* words in the frame block
    FrameWords   \* words a call takes besides its variables

VARIABLES
    bytecode, \* the instructions; never changes
    ip,       \* index of the next instruction, from 0
    stack,    \* the expression stack, its top last
    calls,    \* calls in progress, the current one last
    space,    \* words in use by the calls
    status,   \* "running", "exited", "invalid" or "undefined"
    output    \* the system call of the last step

vars == <<bytecode, ip, stack, calls, space, status, output>>

NoOutput == [call |-> "none", var |-> 0, val |-> 0]
Output(call, var, val) == [call |-> call, var |-> var, val |-> val]

Op  == bytecode[ip + 1].op
Arg == bytecode[ip + 1].arg

Current == calls[Len(calls)]
Locals  == Current.locals

Pushed(s, w) == Append(s, w)
Popped(n) == SubSeq(stack, 1, Len(stack) - n)
Top == stack[Len(stack)]
Below == stack[Len(stack) - 1]

Init ==
    /\ bytecode \in Programs
    /\ ip = 0
    /\ stack = << >>
    /\ calls = << [return_ip |-> 0, locals |-> << >>] >>
    /\ space = 0
    /\ status = "running"
    /\ output = NoOutput

(* The next instruction exists, is op, and finds its operands.             *)
Executes(op) ==
    /\ status = "running"
    /\ ip < Len(bytecode)
    /\ Op = op
    /\ Len(stack) >= Pops(op)
    /\ UNCHANGED bytecode

Silently == output' = NoOutput /\ UNCHANGED status
Advance == ip' = ip + 1

-----------------------------------------------------------------------------
Nop ==
    /\ Executes("nop") /\ Silently /\ Advance
    /\ UNCHANGED <<stack, calls, space>>

Cal ==
    /\ Executes("cal") /\ Silently
    /\ space + FrameWords <= FrameBlock
    /\ ip' = Top
    /\ stack' = Popped(1)
    /\ calls' = Append(calls, [return_ip |-> ip + 1, locals |-> << >>])
    /\ space' = space + FrameWords

Res ==
    /\ Executes("res") /\ Silently /\ Advance
    /\ space + Arg <= FrameBlock
    /\ calls' = [calls EXCEPT ![Len(calls)].locals = @ \o [i \in 1 .. Arg |-> 0]]
    /\ space' = space + Arg
    /\ UNCHANGED stack

Ret ==
    /\ Executes("ret") /\ Silently
    /\ Len(calls) > 1
    /\ ip' = Current.return_ip
    /\ calls' = SubSeq(calls, 1, Len(calls) - 1)
    /\ space' = space - Len(Locals) - FrameWords
    /\ UNCHANGED stack

Constant ==
    /\ Executes("sca") \/ Executes("loc")
    /\ Silently /\ Advance
    /\ stack' = Pushed(stack, Arg)
    /\ UNCHANGED <<calls, space>>

(* The values a variable may be read as.                                   *)
Reads(i) == IF i < Len(Locals) THEN {Locals[i + 1]} ELSE Word

Var ==
    /\ Executes("var") /\ Silently /\ Advance
    /\ \E w \in Reads(Arg) : stack' = Pushed(stack, w)
    /\ UNCHANGED <<calls, space>>

Set ==
    /\ Executes("set") /\ Silently /\ Advance
    /\ calls' = IF Arg < Len(Locals)
                THEN [calls EXCEPT ![Len(calls)].locals[Arg + 1] = Top]
                ELSE calls
    /\ stack' = Popped(1)
    /\ UNCHANGED space

Pop ==
    /\ Executes("pop") /\ Silently /\ Advance
    /\ stack' = Popped(1)
    /\ UNCHANGED <<calls, space>>

Jmp ==
    /\ Executes("jmp") /\ Silently
    /\ ip' = Arg
    /\ UNCHANGED <<stack, calls, space>>

ConditionalJump(op, taken) ==
    /\ Executes(op) /\ Silently
    /\ ip' = IF taken THEN Arg ELSE ip + 1
    /\ stack' = Popped(1)
    /\ UNCHANGED <<calls, space>>

Jnz == ConditionalJump("jnz", Top # 0)
Jze == ConditionalJump("jze", Top = 0)

Unary ==
    \E op \in UnaryOperations :
        /\ Executes(op) /\ Silently /\ Advance
        /\ \E w \in UnaryOutcomes(op, Top) \ {Trap} :
               stack' = Pushed(Popped(1), w)
        /\ UNCHANGED <<calls, space>>

Binary ==
    \E op \in BinaryOperations :
        /\ Executes(op) /\ Silently /\ Advance
        /\ \E w \in BinaryOutcomes(op, Below, Top) \ {Trap} :
               stack' = Pushed(Popped(2), w)
        /\ UNCHANGED <<calls, space>>

Sys ==
    \E op \in {"sys nop", "sys hi", "sys bye"} :
        /\ Executes(op) /\ Advance
        /\ output' = Output(op, 0, 0)
        /\ UNCHANGED <<stack, calls, space, status>>

SysDbg ==
    /\ Executes("sys dbg") /\ Advance
    /\ \E w \in Reads(Arg) : output' = Output("sys dbg", Arg, w)
    /\ UNCHANGED <<stack, calls, space, status>>

SysExit ==
    /\ Executes("sys exit") /\ Advance
    /\ output' = Output("sys exit", 0, Top)
    /\ stack' = Popped(1)
    /\ status' = "exited"
    /\ UNCHANGED <<calls, space>>

(* An operation or a system call that is not dispatched is reported.       *)
Invalid ==
    /\ status = "running"
    /\ ip < Len(bytecode)
    /\ Op \notin Dispatched
    /\ status' = "invalid"
    /\ output' = NoOutput
    /\ Advance
    /\ UNCHANGED <<bytecode, stack, calls, space>>

-----------------------------------------------------------------------------
(* The ways a program can break the contract.                              *)
Breaks ==
    ip < Len(bytecode) /\ Len(stack) >= Pops(Op) =>
        \/ Op = "ret" /\ Len(calls) = 1
        \/ AddressesVariable(Op) /\ Arg >= Len(Locals)
        \/ Op = "cal" /\ space + FrameWords > FrameBlock
        \/ Op = "res" /\ space + Arg > FrameBlock
        \/ Op \in UnaryOperations /\ Trap \in UnaryOutcomes(Op, Top)
        \/ Op \in BinaryOperations /\ Trap \in BinaryOutcomes(Op, Below, Top)

Undefined ==
    /\ status = "running"
    /\ Breaks
    /\ status' = "undefined"
    /\ output' = NoOutput
    /\ stack' = << >>
    /\ calls' = << >>
    /\ space' = 0
    /\ UNCHANGED <<bytecode, ip>>

Next ==
    \/ Nop \/ Cal \/ Res \/ Ret \/ Constant \/ Var \/ Set \/ Pop
    \/ Jmp \/ Jnz \/ Jze \/ Unary \/ Binary
    \/ Sys \/ SysDbg \/ SysExit \/ Invalid \/ Undefined

Spec == Init /\ [][Next]_vars
=============================================================================
