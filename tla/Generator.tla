----------------------------- MODULE Generator ------------------------------
(***************************************************************************)
(* lib/generator/generator.c: the code of a module that was analyzed       *)
(* without errors.                                                         *)
(*                                                                         *)
(* g is the emitter: the code so far, whose locations count instructions,  *)
(* and the place of each symbol in it.  How it becomes bytewords, and the  *)
(* linking of symbols there, is module Emitter.                            *)
(***************************************************************************)
EXTENDS Bindings, Operations

UNSET == -1

emitter_new == [code |-> << >>, places |-> << >>]

emit(g, op, arg) == [g EXCEPT !.code = Append(@, [op |-> op, arg |-> arg])]

emit_many_new_symbols(g, n) ==
    [g EXCEPT !.places = @ \o [s \in 1 .. n |-> UNSET]]

(* The symbol that is made next; symbols count from 0.                     *)
NextSymbol(g) == Len(g.places)

(* A symbol keeps the first place it is given.                             *)
emit_symbol_location(g, s) ==
    IF g.places[s + 1] # UNSET THEN g
    ELSE [g EXCEPT !.places[s + 1] = Len(g.code)]

-----------------------------------------------------------------------------
(* The variables of a store, one instruction for each word.                *)

Instructions(op, store) ==
    [k \in 1 .. store.size |-> [op |-> op, arg |-> store.index + k - 1]]

Backwards(s) == [k \in DOMAIN s |-> s[Len(s) + 1 - k]]

generate_pattern_match_Never(g, b, f) == g

(* The argument is taken off the stack, its last word first.               *)
generate_pattern_match(g, b, f) ==
    [g EXCEPT !.code =
        @ \o Backwards(Instructions("set", get_binding(b, f.input.binding).store))]

(* A function is known by its number, which is its symbol.                 *)
generate_variable(g, b, cs, e) ==
    LET store == get_binding(b, e.binding).store
    IN  IF store.kind = "constant"
        THEN emit(g, "loc", cs[store.constant].value.function_id)
        ELSE [g EXCEPT !.code = @ \o Instructions("var", store)]

LiteralWord_One(e) == e.value

(* -literal_bool: all ones for true.                                       *)
LiteralWord(e) == IF e.kind = "bool" THEN (-e.value) % WordCount ELSE e.value

Operation(operator) == IF operator = "call" THEN "cal" ELSE operator

RECURSIVE generate_expression(_, _, _, _)

(* The symbol after the alternatives is made when the first one is done.   *)
generate_conditional(g, b, cs, e) ==
    LET if_false == NextSymbol(g)
        c == generate_expression(emit_many_new_symbols(g, 1), b, cs, e.condition)
        t == generate_expression(emit(c, "jze", if_false), b, cs, e.if_true)
        after_else == NextSymbol(t)
        j == emit(emit_many_new_symbols(t, 1), "jmp", after_else)
        f == generate_expression(emit_symbol_location(j, if_false), b, cs,
                                 e.otherwise[1])
    IN  IF e.otherwise = << >> THEN emit_symbol_location(t, if_false)
        ELSE emit_symbol_location(f, after_else)

(* b are the bindings of the module, cs its constants.                     *)
generate_expression(g, b, cs, e) ==
    CASE e.kind = "variable" -> generate_variable(g, b, cs, e)
      [] e.kind = "function" -> emit(g, "loc", e.function_id)
      [] e.kind \in LiteralKinds -> emit(g, "sca", LiteralWord(e))
      [] e.kind = "not" -> emit(generate_expression(g, b, cs, e.operand), "not", 0)
      [] e.kind = "binary" ->
           LET first  == generate_expression(g, b, cs, e.first)
               second == generate_expression(first, b, cs, e.second)
           IN  emit(second, Operation(e.operator), 0)
      [] e.kind = "conditional" -> generate_conditional(g, b, cs, e)

generate_function(g, b, cs, f) ==
    LET p == emit_symbol_location(g, f.function_id)
        r == IF f.variable_space > 0 THEN emit(p, "res", f.variable_space) ELSE p
        m == generate_pattern_match(r, b, f)
    IN  emit(generate_expression(m, b, cs, f.output), "ret", 0)

-----------------------------------------------------------------------------
(* emitter_finish.                                                         *)

IsReference(instruction) == instruction.op \in {"loc", "jmp", "jnz", "jze"}

PlaceOf(g, instruction) == g.places[instruction.arg + 1]

CanFinish(g) ==
    \A k \in DOMAIN g.code :
        IsReference(g.code[k]) => PlaceOf(g, g.code[k]) \in 0 .. Len(g.code) - 1

emitter_finish(g) ==
    [k \in DOMAIN g.code |->
        IF IsReference(g.code[k]) THEN [g.code[k] EXCEPT !.arg = PlaceOf(g, g.code[k])]
                                  ELSE g.code[k]]
=============================================================================
