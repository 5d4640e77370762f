------------------------------ MODULE Analyzer ------------------------------
(***************************************************************************)
(* lib/analyzer/analyzer.c: resolves the names of a module and types its   *)
(* expressions, in three passes over its constants.                        *)
(*                                                                         *)
(* The tables (bindings, types) and what was reported are threaded through *)
(* the functions of the analyzer as one record d.  A function that writes  *)
(* to the tree returns [d, e]: the tables and its expression, annotated.   *)
(*                                                                         *)
(* Reading a table at an invalid id is undefined behaviour: d.undefined is *)
(* set, and nothing is claimed of what follows.                            *)
(***************************************************************************)
EXTENDS Bindings

CONSTANT Sources  \* the modules, as sequences of constant definitions

VARIABLES
    constants,    \* the module under analysis, annotated
    data,         \* bindings, types, errors, undefined
    global_scope, \* the scope of the constants
    phase,        \* "registering", "typing", "analyzing", then "analyzed"
    i             \* the next constant of the pass

analyzer_vars == <<constants, data, global_scope, phase, i>>

-----------------------------------------------------------------------------
(* Reports.                                                                *)

Report(d, code) == [d EXCEPT !.errors = Append(@, code)]

OutOfBounds(d) == [d EXCEPT !.undefined = TRUE]

(* The report names both types, whose entries it reads.                    *)
mismatched_types(d, expected, found) ==
    LET r == Report(d, "MISMATCHED_TYPES")
    IN  IF TYPE_INVALID \in {expected, found} THEN OutOfBounds(r) ELSE r

Result(d, e, type) == [d |-> d, e |-> [e EXCEPT !.type = type]]

(* env is where the analyzer is: a location and the function around it.    *)
Env(location, function_id) == [location |-> location, function_id |-> function_id]

Find(d, env, name) == find_binding(d.bindings, env.location, name)
The(S) == CHOOSE x \in S : TRUE

-----------------------------------------------------------------------------
(* resolve_type, and the two parts of analyze_function_signature.          *)

(* The type of a binding that was found, and the tables: with a report if  *)
(* there is none.                                                          *)
TypeOfBinding(d, found) ==
    IF found = {}
    THEN [d |-> Report(d, "BINDING_NOT_FOUND"), type |-> TYPE_INVALID]
    ELSE IF The(found).kind # "type"
    THEN [d |-> Report(d, "INVALID_BINDING_KIND"), type |-> TYPE_INVALID]
    ELSE [d |-> d, type |-> get_binding(d.bindings, The(found)).type]

resolve_type(d, env, name) == TypeOfBinding(d, Find(d, env, name))

(* The variable of a function's input gets the next words of the           *)
(* function's variables.  Its scope is new, so its name is available.      *)
BindInput(d, env, f, type) ==
    LET size == SizeOf(d.types, type)
        b    == ValueBinding(f.input.name, type,
                             VariableStore(f.variable_space, size, f.function_id))
    IN  [d |-> [d EXCEPT !.bindings = push_value_binding(@, env.location.scope, b)],
         e |-> [f EXCEPT !.variable_space = @ + size,
                         !.input.binding = NextValue(d.bindings)]]

analyze_variable_def(d, env, f) ==
    LET r == resolve_type(d, env, f.input.type_name)
    IN  BindInput(r.d, env, f, r.type)

(* The type name of the input is resolved again, now after the variable;   *)
(* the two types can only differ if one of them is invalid.                *)
TypeInput(v, at) ==
    LET r == resolve_type(v.d, Env(Location(at.scope, 1), v.e.function_id),
                          v.e.input.type_name)
    IN  [d |-> r.d, e |-> [v.e EXCEPT !.input.scope = at.scope, !.input.type = r.type]]

analyze_pattern(d, env, f) ==
    LET s  == [d EXCEPT !.bindings = scope_new(@, env.location)]
        at == LastScope(s.bindings)
    IN  TypeInput(analyze_variable_def(s, Env(at, f.function_id), f), at)

TypeOutput(p, env) ==
    LET r == resolve_type(p.d, env, p.e.output_type_name)
    IN  [d |-> r.d, e |-> [p.e EXCEPT !.output_type = r.type]]

(* The input is two scopes inside; the output type is resolved outside.    *)
analyze_function_signature(d, env, f) ==
    LET s == [d EXCEPT !.bindings = scope_new(@, env.location)]
    IN  TypeOutput(analyze_pattern(s, Env(LastScope(s.bindings), f.function_id), f), env)

(* get_or_register_function_type of a function's signature; the name of a  *)
(* new type is made from those of its input and output.                    *)
TypeFunction(r) ==
    LET d     == r.d
        f     == r.e
        t     == FunctionType(f.input.type, f.output_type)
        found == Lookup(d.types, t)
    IN  IF found # NoId THEN Result(d, f, found)
        ELSE IF TYPE_INVALID \in {t.input, t.output}
        THEN Result(OutOfBounds(d), f, TYPE_INVALID)
        ELSE Result([d EXCEPT !.types = register_type(@, t)], f, Len(d.types.types))

-----------------------------------------------------------------------------
(* Expressions.                                                            *)

Captured_Never(env, store) == FALSE

(* A variable belongs to another function than the one it is used in.      *)
Captured(env, store) ==
    store.kind = "variable" /\ store.function_id # env.function_id

(* The error with which a variable is refused; none if it denotes a value. *)
RefusalOf(d, env, name) ==
    LET found == Find(d, env, name)
    IN  IF found = {} THEN <<"BINDING_NOT_FOUND">>
        ELSE IF The(found).kind # "value" THEN <<"INVALID_BINDING_KIND">>
        ELSE IF Captured(env, get_binding(d.bindings, The(found)).store)
        THEN <<"BINDING_NOT_FOUND">>
        ELSE << >>

(* A variable that is refused keeps an invalid binding, whose type is read *)
(* all the same (analyzer.c:438).                                          *)
analyze_variable_ref(d, env, e) ==
    LET refusal == RefusalOf(d, env, e.name)
        id      == The(Find(d, env, e.name))
    IN  IF refusal # << >>
        THEN Result(OutOfBounds(Report(d, refusal[1])), e, TYPE_INVALID)
        ELSE Result(d, [e EXCEPT !.binding = id], get_binding(d.bindings, id).type)

LiteralType(kind) ==
    CASE kind = "bool"  -> TYPE_BOOL
      [] kind = "uint"  -> TYPE_UINT
      [] kind = "int"   -> TYPE_INT
      [] kind = "float" -> TYPE_FLOAT

type_call(d, e) ==
    LET callee == get_type(d.types, e.second.type)
        input  == callee.function.input
    IN  IF e.second.type = TYPE_INVALID
        THEN Result(d, e, TYPE_INVALID)
        ELSE IF callee.kind # "function"
        THEN Result(Report(d, "MISMATCHED_TYPES"), e, TYPE_INVALID)
        ELSE Result(IF input = e.first.type THEN d
                    ELSE mismatched_types(d, input, e.first.type),
                    e, callee.function.output)

type_bitwise_binary(d, e) ==
    LET type == e.first.type
    IN  IF type # e.second.type
        THEN Result(mismatched_types(d, type, e.second.type), e, TYPE_INVALID)
        ELSE IF type \in {TYPE_BOOL, TYPE_UINT, TYPE_INT}
        THEN Result(d, e, type)
        ELSE Result(IF type = TYPE_INVALID THEN d
                    ELSE mismatched_types(d, TYPE_BOOL, type),
                    e, TYPE_INVALID)

(* A report if a type is neither the expected one nor invalid.             *)
Require(d, expected, found) ==
    IF found \in {expected, TYPE_INVALID} THEN d
    ELSE mismatched_types(d, expected, found)

type_conditional(d, e) ==
    LET c == Require(d, TYPE_BOOL, e.condition.type)
        if_true == e.if_true.type
        if_false == e.otherwise[1].type
    IN  IF e.otherwise = << >>
        THEN Result(Require(c, TYPE_UNIT, if_true), e, TYPE_UNIT)
        ELSE IF if_true # if_false /\ TYPE_INVALID \notin {if_true, if_false}
        THEN Result(mismatched_types(c, if_true, if_false), e, TYPE_INVALID)
        ELSE Result(c, e, IF if_true = TYPE_INVALID THEN TYPE_INVALID ELSE if_false)

RECURSIVE analyze_expression(_, _, _)

analyze_unary_operation(d, env, e) ==
    LET r == analyze_expression(d, env, e.operand)
    IN  Result(Require(r.d, TYPE_BOOL, r.e.type), [e EXCEPT !.operand = r.e], TYPE_BOOL)

analyze_binary_operation(d, env, e) ==
    LET r == analyze_expression(d, env, e.first)
        s == analyze_expression(r.d, env, e.second)
        typed == [e EXCEPT !.first = r.e, !.second = s.e]
    IN  IF e.operator = "call" THEN type_call(s.d, typed)
                               ELSE type_bitwise_binary(s.d, typed)

analyze_conditional(d, env, e) ==
    LET r == analyze_expression(d, env, e.condition)
        s == analyze_expression(r.d, env, e.if_true)
        t == analyze_expression(s.d, env, e.otherwise[1])
    IN  IF e.otherwise = << >>
        THEN type_conditional(s.d, [e EXCEPT !.condition = r.e, !.if_true = s.e])
        ELSE type_conditional(t.d, [e EXCEPT !.condition = r.e, !.if_true = s.e,
                                             !.otherwise = <<t.e>>])

(* The scope of the body is inside that of the input, after its variable.  *)
analyze_function_body(signed) ==
    LET f == signed.e
        s == [signed.d EXCEPT !.bindings =
                 scope_new(@, scope_end_location(@, f.input.scope))]
        r == analyze_expression(s, Env(LastScope(s.bindings), f.function_id), f.output)
    IN  [d |-> Require(r.d, f.output_type, r.e.type), e |-> [f EXCEPT !.output = r.e]]

analyze_expression(d, env, e) ==
    CASE e.kind = "variable" -> analyze_variable_ref(d, env, e)
      [] e.kind \in LiteralKinds -> Result(d, e, LiteralType(e.kind))
      [] e.kind = "not" -> analyze_unary_operation(d, env, e)
      [] e.kind = "binary" -> analyze_binary_operation(d, env, e)
      [] e.kind = "conditional" -> analyze_conditional(d, env, e)
      [] e.kind = "function" ->
           TypeFunction(analyze_function_body(analyze_function_signature(d, env, e)))

-----------------------------------------------------------------------------
(* The passes of analyze_module2 over the constants.                       *)

ModuleEnv == Env(scope_end_location(data.bindings, global_scope), 0)

Init ==
    \E source \in Sources :
        /\ constants = Parsed(source)
        /\ global_scope = 1
        /\ data = [bindings  |-> scope_new(DefaultBindings, Location(ROOT_SCOPE_ID, 0)),
                   types     |-> type_registry_new,
                   errors    |-> << >>,
                   undefined |-> FALSE]
        /\ phase = "registering"
        /\ i = 1

(* After the last constant of a pass, the next pass starts.                *)
Pass(this, next) ==
    /\ phase = this
    /\ i \in DOMAIN constants
    /\ ~data.undefined
    /\ IF i = Len(constants) THEN phase' = next /\ i' = 1
                              ELSE i' = i + 1 /\ UNCHANGED phase
    /\ UNCHANGED global_scope

RegisterConstant ==
    /\ Pass("registering", "typing")
    /\ LET c == constants[i]
           b == ValueBinding(c.name, TYPE_INVALID, ConstantStore(i))
       IN  IF Available(data.bindings, ModuleEnv.location, c.name)
           THEN /\ data' = [data EXCEPT !.bindings =
                               insert_value_binding(@, global_scope, b)]
                /\ constants' = [constants EXCEPT ![i].binding =
                                    NextValue(data.bindings)]
           ELSE /\ data' = Report(data, "DUPLICATE_BINDING_NAME")
                /\ UNCHANGED constants

(* The type is written to the constant's binding, which is out of bounds   *)
(* if its name was refused (analyzer.c:253).                               *)
WithType(d, c) ==
    IF c.binding = BINDING_ID_INVALID THEN OutOfBounds(d)
    ELSE [d EXCEPT !.bindings.value[c.binding.index + 1].type = c.value.type]

TypeConstant ==
    /\ Pass("typing", "analyzing")
    /\ IF constants[i].value.kind = "function"
       THEN LET r == TypeFunction(analyze_function_signature(data, ModuleEnv,
                                                             constants[i].value))
                c == [constants[i] EXCEPT !.value = r.e, !.type = r.e.type]
            IN  /\ constants' = [constants EXCEPT ![i] = c]
                /\ data' = WithType(r.d, c)
       ELSE /\ data' = Report(data, "EXPECTED_CONSTANT")
            /\ UNCHANGED constants

AnalyzeConstant ==
    /\ Pass("analyzing", "analyzed")
    /\ LET value == constants[i].value
           r == IF value.kind = "function" THEN analyze_function_body([d |-> data, e |-> value])
                ELSE analyze_expression(data, ModuleEnv, value)
       IN  /\ data' = r.d
           /\ constants' = [constants EXCEPT ![i].value = r.e]

AnalyzeNext == RegisterConstant \/ TypeConstant \/ AnalyzeConstant

AnalyzerSpec == Init /\ [][AnalyzeNext]_analyzer_vars
=============================================================================
