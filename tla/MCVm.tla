-------------------------------- MODULE MCVm --------------------------------
(***************************************************************************)
(* Programs for model-checking the virtual machine.                        *)
(***************************************************************************)
EXTENDS VmRefinement

I(op, arg) == [op |-> op, arg |-> arg]

SeqsUpTo(S, n) == UNION {[1 .. k -> S] : k \in 1 .. n}

(* Every operation there is on every pair of operands.                     *)
OperandPrograms ==
    {<<I("sca", l), I("sca", r), I(op, 0)>> :
        l \in Word, r \in Word, op \in Dispatched \union {"leu", "sys ?"}}

(* Every program of up to four instructions that call, return, reserve,    *)
(* address variables (reserved or not) and loop.                           *)
CallPrograms ==
    SeqsUpTo({I("res", 1), I("set", 0), I("set", 2), I("var", 0), I("var", 3),
              I("loc", 0), I("loc", 3), I("cal", 0), I("ret", 0), I("jze", 0)}, 4)

SmallPrograms == OperandPrograms \union CallPrograms

(* Sums 0 to n by calling itself n times; a call takes three words of the  *)
(* frames and keeps n on the expression stack across the inner call.       *)
Sum(n) ==
    <<I("sca", n), I("loc", 4), I("cal", 0), I("sys exit", 0),
      I("res", 1), I("set", 0), I("var", 0), I("jze", 16),
      I("var", 0), I("var", 0), I("sca", 1), I("sbu", 0),
      I("loc", 4), I("cal", 0), I("adu", 0), I("ret", 0),
      I("sca", 0), I("ret", 0)>>

(* The programs of tests/tests/vm.                                         *)
Ones == WordCount - 1

FunctionCall ==
    <<I("loc", 3), I("cal", 0), I("sys exit", 0),
      I("res", 1), I("sys hi", 0), I("sca", 21), I("loc", 12), I("cal", 0),
      I("set", 0), I("sys dbg", 0), I("sca", Ones), I("ret", 0),
      I("res", 1), I("set", 0), I("var", 0), I("var", 0), I("adu", 0), I("ret", 0)>>

SayBoth ==
    <<I("sca", 0), I("loc", 8), I("cal", 0),
      I("sca", 1), I("loc", 8), I("cal", 0),
      I("sca", 0), I("sys exit", 0),
      I("jnz", 11), I("sys hi", 0), I("ret", 0),
      I("sys bye", 0), I("ret", 0)>>

Combination ==
    <<I("sca", 0), I("loc", 5), I("cal", 0), I("sca", 0), I("sys exit", 0),
      I("res", 1), I("loc", 11), I("cal", 0), I("set", 0), I("sys dbg", 0), I("ret", 0),
      I("res", 1), I("set", 0), I("var", 0), I("sca", 0), I("not", 0), I("lor", 0),
      I("ret", 0)>>

Fibonacci ==
    <<I("res", 1), I("sca", 7), I("loc", 8), I("cal", 0), I("set", 0),
      I("sys dbg", 0), I("sca", 0), I("sys exit", 0),
      I("res", 3), I("set", 0), I("var", 0), I("sca", 1), I("gtu", 0), I("jnz", 16),
      I("var", 0), I("ret", 0),
      I("sca", 0), I("set", 1), I("sca", 1), I("set", 2),
      I("var", 1), I("var", 2), I("adu", 0), I("var", 2), I("set", 1), I("set", 2),
      I("var", 0), I("sca", Ones), I("adu", 0), I("set", 0),
      I("var", 0), I("sca", 2), I("geu", 0), I("jnz", 20),
      I("var", 2), I("ret", 0)>>

WholePrograms ==
    {Sum(n) : n \in 0 .. 6} \union {FunctionCall, SayBoth, Combination, Fibonacci}

(* What a program is to ask of the system.  A sum of more than 3 needs     *)
(* more than the 14 words of the frame block, and its run is undefined.    *)
Exit(w) == Output("sys exit", 0, w)
Answers ==
    {<<Sum(n), {Exit((n * (n + 1)) \div 2)}>> : n \in 0 .. 3} \union
    {<<FunctionCall, {Output("sys hi", 0, 0), Output("sys dbg", 0, 42), Exit(Ones)}>>,
     <<SayBoth, {Output("sys hi", 0, 0), Output("sys bye", 0, 0), Exit(0)}>>,
     <<Combination, {Output("sys dbg", 0, Ones), Exit(0)}>>,
     <<Fibonacci, {Output("sys dbg", 0, 13), Exit(0)}>>}

(* Every program whose calls fit in the frame block exits, having asked    *)
(* the system for all its answers on the way and for nothing else: those   *)
(* the asserts of tests/tests/vm compare, and the sums.                    *)
ProgramsAnswer ==
    \A a \in Answers :
        bytecode = a[1] =>
            /\ \A o \in a[2] : <>(output = o)
            /\ [](output \in a[2] \union {NoOutput})
            /\ <>(status = "exited")
=============================================================================
