------------------------------ MODULE Compiler ------------------------------
(***************************************************************************)
(* A program from its syntax tree to its last instruction: module Analyzer *)
(* types it, module Generator makes its code, and module Vm runs it.       *)
(*                                                                         *)
(* Nothing in the library calls the generator and the machine one after    *)
(* the other; this is what its tests do.  The code in front of the         *)
(* module's own, which calls its last function with an argument and exits  *)
(* with the result, is that of tests/tests/vm.                             *)
(***************************************************************************)
EXTENDS Analyzer, Generator, Semantics, FiniteSets

CONSTANTS
    StackBlock, FrameBlock, FrameWords, MaxStack, \* as in Vm
    ArgumentWords \* the words functions on integers are called with

VARIABLES
    emitter,    \* code and places of symbols
    expected,   \* history variable: what the call should yield
    bytecode, ip, value_stack, frames, live, status, output \* as in Vm

Machine == INSTANCE Vm WITH Programs <- {<< >>}

generator_vars == <<emitter, expected>>
machine_vars == <<bytecode, ip, value_stack, frames, live, status, output>>
vars == <<analyzer_vars, generator_vars, machine_vars>>

ProgramInit ==
    /\ Init
    /\ emitter = emitter_new
    /\ expected = Nothing
    /\ Machine!Init

Analyze ==
    /\ AnalyzeNext
    /\ UNCHANGED <<generator_vars, machine_vars>>

-----------------------------------------------------------------------------
Accepted == phase = "analyzed" /\ data.errors = << >> /\ ~data.undefined

(* The function that is called: the value of the last constant.            *)
Entry == constants[Len(constants)].value

Arguments ==
    CASE Entry.input.type = TYPE_UNIT -> {<< >>}
      [] Entry.input.type = TYPE_BOOL -> {<<Truth(TRUE)>>, <<Truth(FALSE)>>}
      [] OTHER -> {<<w>> : w \in ArgumentWords}

Code(op, arg) == [op |-> op, arg |-> arg]

(* The result of type Unit is no word, and the exit code is 0.             *)
Prologue(words) ==
    [k \in DOMAIN words |-> Code("sca", words[k])]
        \o <<Code("loc", Entry.function_id), Code("cal", 0)>>
        \o (IF Entry.output_type = TYPE_UNIT THEN <<Code("sca", 0)>> ELSE << >>)
        \o <<Code("sys exit", 0)>>

(* AstData.functions, by their numbers.                                    *)
Functions == UNION {FunctionsIn(constants[k].value) : k \in DOMAIN constants}
FunctionNumbered(n) == The({f \in Functions : f.function_id = n})
FunctionCount == 1 + Greatest({f.function_id : f \in Functions})

(* The exit code that the expected value makes.                            *)
ExitCode == IF expected.kind = "word" THEN expected.word ELSE 0

(* The calls inside one another that are allowed for: each takes a frame   *)
(* and at most one variable, in the first block of frames.                 *)
MaxDepth == FrameBlock \div (FrameWords + 1)

Meaning(words) ==
    Applied(constants, Entry, IF words = << >> THEN Nothing ELSE WordIs(words[1]),
            MaxDepth)

(* A module with errors goes no further (result.h:11).                     *)
StartGenerating ==
    /\ Accepted
    /\ \E words \in Arguments :
          /\ expected' = Meaning(words)
          /\ emitter' = emit_many_new_symbols(
                            [emitter_new EXCEPT !.code = Prologue(words)], FunctionCount)
    /\ phase' = "generating"
    /\ i' = 0
    /\ UNCHANGED <<constants, data, global_scope, machine_vars>>

GenerateFunction ==
    /\ phase = "generating"
    /\ i < FunctionCount
    /\ emitter' = generate_function(emitter, data.bindings, constants,
                                    FunctionNumbered(i))
    /\ i' = i + 1
    /\ UNCHANGED <<constants, data, global_scope, phase, expected, machine_vars>>

Generated == phase = "generating" /\ i = FunctionCount

FinishEmitter ==
    /\ Generated
    /\ CanFinish(emitter)
    /\ bytecode' = emitter_finish(emitter)
    /\ phase' = "running"
    /\ UNCHANGED <<constants, data, global_scope, i, generator_vars,
                   ip, value_stack, frames, live, status, output>>

Run ==
    /\ phase = "running"
    /\ Machine!Next
    /\ UNCHANGED <<analyzer_vars, generator_vars>>

Next == Analyze \/ StartGenerating \/ GenerateFunction \/ FinishEmitter \/ Run

(* Each step follows the one before it in one thread.  The property that   *)
(* needs fairness starts when the code is generated.                       *)
Spec == ProgramInit /\ [][Next]_vars /\ WF_vars(FinishEmitter) /\ WF_vars(Run)

-----------------------------------------------------------------------------
(* Properties.                                                             *)

(* The tables are well formed: scopes are inside older ones, so the search *)
(* of find_binding ends, every id is that of an entry, and every type is   *)
(* one that is registered, or invalid.                                     *)
TypeOK ==
    LET b == data.bindings
        ids == {[kind |-> "type", index |-> k - 1] : k \in DOMAIN b.type}
                 \union {[kind |-> "value", index |-> k - 1] : k \in DOMAIN b.value}
        typeIds == {TYPE_INVALID} \union 0 .. Len(data.types.types) - 1
    IN  /\ \A k \in DOMAIN b.scopes :
              LET s == b.scopes[k]
              IN  /\ s.parent.scope \in -1 .. k - 2
                  /\ s.parent.scope >= 0 =>
                        s.parent.pos \in 0 .. Len(Scope(b, s.parent.scope).sequential)
                  /\ s.unordered \in Seq(ids)
                  /\ s.sequential \in Seq(ids)
        /\ \A k \in DOMAIN b.value : b.value[k].type \in typeIds
        /\ Cardinality(Registered(data.types)) <= MaxFunctionTypes
        /\ data.undefined \in BOOLEAN
        /\ phase \in {"registering", "typing", "analyzing", "analyzed",
                      "generating", "running"}

(* Every function has an id of its own type.                               *)
TypedAsSigned ==
    \A f \in Functions :
        f.type = TYPE_INVALID
            \/ get_type(data.types, f.type).function
                  = FunctionType(f.input.type, f.output_type)

(* tests/tests/ast/identity_fn.c:29 asserts that a function type           *)
(* registered again is the one it was: every function type has one id.     *)
OneIdForEachFunctionType ==
    \A m, n \in Registered(data.types) :
        get_type(data.types, m).function = get_type(data.types, n).function => m = n

(* The analyzer accepts exactly the modules that are well typed: names     *)
(* mean what is innermost, wherever constants are defined, no function     *)
(* uses the variables of another, and errors are found whatever was found  *)
(* before (analyze_module2 and what it calls).  It relies on the ids of    *)
(* function types: two types with one id can make it accept more, two ids  *)
(* of one type less.                                                       *)
AcceptsWellTyped ==
    (phase = "analyzed" \/ data.undefined) /\ TypedAsSigned =>
        /\ Accepted => WellTyped(constants)
        /\ OneIdForEachFunctionType /\ WellTyped(constants) => Accepted

(* The code computes what the program means: it can be linked and run, and *)
(* exits with the value its tree has (generator.c, with analyzer.c, vm.c). *)
ComputesValue ==
    (Generated /\ expected # TooDeep)
        ~> (status = "exited" /\ output = Machine!Output("sys exit", 0, ExitCode))

(* A program that exits has used up what it put on the value stack, and    *)
(* has returned from all its calls: every expression leaves its words and  *)
(* no more, every pattern takes its own (generate_pattern_match,           *)
(* generate_conditional).                                                  *)
LeavesNothing ==
    status = "exited" => value_stack.top = 0 /\ frames.top = 0 /\ Len(live) = 1

(* result.h:10: errors "have been contained and that the current stage can *)
(* continue like no errors have occured".                                  *)
ErrorsAreContained == ~data.undefined
=============================================================================
