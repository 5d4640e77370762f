---------------------------- MODULE VmRefinement ----------------------------
(***************************************************************************)
(* The virtual machine's memory, read as the state of a stack machine: the *)
(* words below the top of the value stack are the expression stack, and    *)
(* the words between two frames are the variables of a call.               *)
(***************************************************************************)
EXTENDS Vm

Defined == status # "undefined"

(* The expression stack the block of the value stack holds.                *)
StackOf ==
    IF Defined THEN [i \in 1 .. value_stack.top |-> value_stack.data[i - 1]]
               ELSE << >>

(* The variables of the k-th call, in the words between two frames.        *)
LocalsOf(k) ==
    [i \in 1 .. VariablesEnd(k) - live[k].base |->
        frames.words[live[k].base + i - 1]]

CallsOf ==
    IF Defined
    THEN [k \in 1 .. Len(live) |->
             [return_ip |-> live[k].return_ip, locals |-> LocalsOf(k)]]
    ELSE << >>

SpaceOf == IF Defined THEN frames.top ELSE 0

Abstract == INSTANCE StackMachine
                WITH stack <- StackOf, calls <- CallsOf, space <- SpaceOf

(* The machine computes on its two memory blocks what the stack machine    *)
(* computes on sequences: growing a block loses nothing, a call finds its  *)
(* variables zeroed and its caller's intact, and behaviour is undefined    *)
(* only where the stack machine says so.                                   *)
ImplementsStackMachine == Abstract!Spec
=============================================================================
