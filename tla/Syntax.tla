------------------------------- MODULE Syntax -------------------------------
(***************************************************************************)
(* The syntax tree of lib/ast/expression.h as the parser leaves it: every  *)
(* type and binding is still invalid, and functions are numbered.          *)
(*                                                                         *)
(* The parser makes no arithmetic operation and no negation, although the  *)
(* tree and the analyzer have cases for them; neither do these trees.      *)
(***************************************************************************)
EXTENDS Integers, Sequences

(* The types every program starts with, by id (type.c, TypeKind).          *)
ScalarNames == <<"Unit", "Bool", "UInt", "Int", "Float">>

TYPE_INVALID == -1
TYPE_UNIT  == 0
TYPE_BOOL  == 1
TYPE_UINT  == 2
TYPE_INT   == 3
TYPE_FLOAT == 4

(* (BindingId)-1: its highest bit says value, its index is past any table. *)
BINDING_ID_INVALID == [kind |-> "value", index |-> -1]

-----------------------------------------------------------------------------
(* Expressions.                                                            *)

Variable(name) ==
    [kind |-> "variable", name |-> name, binding |-> BINDING_ID_INVALID,
     type |-> TYPE_INVALID]

(* A literal's value is a word; a boolean's is 0 or 1.                     *)
Literal(kind, value) == [kind |-> kind, value |-> value, type |-> TYPE_INVALID]

LiteralKinds == {"bool", "uint", "int", "float"}

Not(operand) == [kind |-> "not", operand |-> operand, type |-> TYPE_INVALID]

(* The operands in the order they are computed: the argument of a call     *)
(* comes before its callee.                                                *)
Binary(operator, first, second) ==
    [kind |-> "binary", operator |-> operator, first |-> first,
     second |-> second, type |-> TYPE_INVALID]

Call(callee, argument) == Binary("call", argument, callee)

(* otherwise holds the expression after `else`, if there is one.           *)
Conditional(condition, if_true, otherwise) ==
    [kind |-> "conditional", condition |-> condition, if_true |-> if_true,
     otherwise |-> otherwise, type |-> TYPE_INVALID]

(* fn name: type_name -> output_type_name => output                        *)
Function(name, type_name, output_type_name, output) ==
    [kind |-> "function",
     input |-> [name |-> name, type_name |-> type_name, type |-> TYPE_INVALID,
                binding |-> BINDING_ID_INVALID, scope |-> 0],
     output_type_name |-> output_type_name, output_type |-> TYPE_INVALID,
     output |-> output, function_id |-> 0, variable_space |-> 0,
     type |-> TYPE_INVALID]

(* name :: value;                                                          *)
ConstantDef(name, value) ==
    [name |-> name, value |-> value, binding |-> BINDING_ID_INVALID,
     type |-> TYPE_INVALID]

-----------------------------------------------------------------------------
(* A function is numbered when it is complete, after those inside it       *)
(* (parser.c:840).                                                         *)

RECURSIVE Numbered(_, _)

(* The expression with its functions numbered from n, and the next number. *)
Numbered(e, n) ==
    CASE e.kind = "not" ->
           LET r == Numbered(e.operand, n)
           IN  [e |-> [e EXCEPT !.operand = r.e], n |-> r.n]
      [] e.kind = "binary" ->
           LET written_first == IF e.operator = "call" THEN e.second ELSE e.first
               written_last  == IF e.operator = "call" THEN e.first ELSE e.second
               r == Numbered(written_first, n)
               s == Numbered(written_last, r.n)
           IN  [e |-> IF e.operator = "call"
                      THEN [e EXCEPT !.first = s.e, !.second = r.e]
                      ELSE [e EXCEPT !.first = r.e, !.second = s.e],
                n |-> s.n]
      [] e.kind = "conditional" ->
           LET r == Numbered(e.condition, n)
               s == Numbered(e.if_true, r.n)
               t == IF e.otherwise = << >> THEN [e |-> << >>, n |-> s.n]
                    ELSE LET u == Numbered(e.otherwise[1], s.n)
                         IN  [e |-> <<u.e>>, n |-> u.n]
           IN  [e |-> [e EXCEPT !.condition = r.e, !.if_true = s.e,
                                !.otherwise = t.e],
                n |-> t.n]
      [] e.kind = "function" ->
           LET r == Numbered(e.output, n)
           IN  [e |-> [e EXCEPT !.output = r.e, !.function_id = r.n],
                n |-> r.n + 1]
      [] OTHER -> [e |-> e, n |-> n]

(* The constants of a module, their functions numbered one after another.  *)
Parsed(constants) ==
    LET From[k \in 0 .. Len(constants)] ==
            IF k = 0 THEN [cs |-> << >>, n |-> 0]
            ELSE LET r == Numbered(constants[k].value, From[k - 1].n)
                 IN  [cs |-> Append(From[k - 1].cs,
                                    [constants[k] EXCEPT !.value = r.e]),
                      n  |-> r.n]
    IN  From[Len(constants)].cs

RECURSIVE FunctionsIn(_)

(* AstData.functions: the functions of an expression, as a set of nodes.   *)
FunctionsIn(e) ==
    CASE e.kind = "not" -> FunctionsIn(e.operand)
      [] e.kind = "binary" -> FunctionsIn(e.first) \union FunctionsIn(e.second)
      [] e.kind = "conditional" ->
           FunctionsIn(e.condition) \union FunctionsIn(e.if_true)
               \union UNION {FunctionsIn(e.otherwise[k]) : k \in DOMAIN e.otherwise}
      [] e.kind = "function" -> {e} \union FunctionsIn(e.output)
      [] OTHER -> {}
=============================================================================
