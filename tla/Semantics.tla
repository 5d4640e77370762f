----------------------------- MODULE Semantics ------------------------------
(***************************************************************************)
(* What programs mean: which are well typed, and what a function yields.   *)
(* The reference for the analyzer and the generator: it knows neither      *)
(* scopes nor type ids nor code, and takes a tree as it was written.       *)
(*                                                                         *)
(* A value is a word, nothing (of type Unit) or a function; there are no   *)
(* closures, since a function has no access to the variables around it.    *)
(***************************************************************************)
EXTENDS Syntax, Operations

-----------------------------------------------------------------------------
(* Types.                                                                  *)

Scalar(name) == [in |-> "", out |-> name]
Arrow(in, out) == [in |-> in, out |-> out]
Ill == Scalar("ill typed")

Names(cs) == {cs[k].name : k \in DOMAIN cs}
Constant(cs, name) == cs[CHOOSE k \in DOMAIN cs : cs[k].name = name].value

Signature(f) == Arrow(f.input.type_name, f.output_type_name)

(* own is the variable in scope, hidden those of the functions around.     *)
RECURSIVE TypeOf(_, _, _, _)

(* A function whose names denote types and whose output has the type it    *)
(* says.  A name denotes what is innermost.                                *)
FunctionIsWellTyped(cs, hidden, f) ==
    LET IsType(name) == /\ \E k \in DOMAIN ScalarNames : ScalarNames[k] = name
                        /\ name \notin hidden \union Names(cs)
        own == [name |-> f.input.name, type |-> Scalar(f.input.type_name)]
    IN  /\ IsType(f.input.type_name)
        /\ IsType(f.output_type_name)
        /\ f.input.name # f.input.type_name
        /\ TypeOf(cs, own, hidden, f.output) = Scalar(f.output_type_name)

TypeOf(cs, own, hidden, e) ==
    CASE e.kind = "bool"  -> Scalar("Bool")
      [] e.kind = "uint"  -> Scalar("UInt")
      [] e.kind = "int"   -> Scalar("Int")
      [] e.kind = "float" -> Scalar("Float")
      [] e.kind = "variable" ->
           IF e.name = own.name THEN own.type
           ELSE IF e.name \in Names(cs) \ hidden THEN Signature(Constant(cs, e.name))
           ELSE Ill
      [] e.kind = "not" ->
           IF TypeOf(cs, own, hidden, e.operand) = Scalar("Bool") THEN Scalar("Bool")
           ELSE Ill
      [] e.kind = "binary" ->
           LET first  == TypeOf(cs, own, hidden, e.first)
               second == TypeOf(cs, own, hidden, e.second)
           IN  IF e.operator = "call"
               THEN IF second.in # "" /\ first = Scalar(second.in)
                    THEN Scalar(second.out)
                    ELSE Ill
               ELSE IF first = second /\ first \in {Scalar("Bool"), Scalar("UInt"), Scalar("Int")}
                    THEN first
                    ELSE Ill
      [] e.kind = "conditional" ->
           LET if_true  == TypeOf(cs, own, hidden, e.if_true)
               if_false == IF e.otherwise = << >> THEN Scalar("Unit")
                           ELSE TypeOf(cs, own, hidden, e.otherwise[1])
           IN  IF /\ TypeOf(cs, own, hidden, e.condition) = Scalar("Bool")
                  /\ if_true = if_false
               THEN if_true
               ELSE Ill
      [] e.kind = "function" ->
           IF FunctionIsWellTyped(cs, hidden \union {own.name}, e)
           THEN Signature(e)
           ELSE Ill

WellTyped(cs) ==
    /\ \A k, l \in DOMAIN cs : cs[k].name = cs[l].name => k = l
    /\ \A k \in DOMAIN cs :
          cs[k].value.kind = "function" /\ FunctionIsWellTyped(cs, {}, cs[k].value)

-----------------------------------------------------------------------------
(* Values, of well-typed programs.                                         *)

WordIs(w)     == [kind |-> "word", word |-> w]
FunctionIs(f) == [kind |-> "function", function |-> f]
Nothing       == [kind |-> "nothing"]
(* More calls inside one another than were allowed for.                    *)
TooDeep       == [kind |-> "too deep"]

MeaningOf(e) == IF e.kind = "bool" THEN Truth(e.value = 1) ELSE e.value

RECURSIVE Value(_, _, _, _)

(* What f yields for an argument, with at most depth calls inside one      *)
(* another.                                                                *)
Applied(cs, f, argument, depth) ==
    IF depth = 0 THEN TooDeep
    ELSE Value(cs, [name |-> f.input.name, value |-> argument], f.output, depth - 1)

Value(cs, own, e, depth) ==
    CASE e.kind \in {"bool", "uint", "int", "float"} -> WordIs(MeaningOf(e))
      [] e.kind = "variable" ->
           IF e.name = own.name THEN own.value ELSE FunctionIs(Constant(cs, e.name))
      [] e.kind = "function" -> FunctionIs(e)
      [] e.kind = "not" ->
           LET v == Value(cs, own, e.operand, depth)
           IN  IF v = TooDeep THEN TooDeep ELSE WordIs(WordCount - 1 - v.word)
      [] e.kind = "binary" ->
           LET v == Value(cs, own, e.first, depth)
               w == Value(cs, own, e.second, depth)
           IN  IF TooDeep \in {v, w} THEN TooDeep
               ELSE IF e.operator = "call" THEN Applied(cs, w.function, v, depth)
               ELSE WordIs(BitResult(e.operator, v.word, w.word))
      [] e.kind = "conditional" ->
           LET v == Value(cs, own, e.condition, depth)
           IN  IF v = TooDeep THEN TooDeep
               ELSE IF v.word # 0 THEN Value(cs, own, e.if_true, depth)
               ELSE IF e.otherwise = << >> THEN Nothing
               ELSE Value(cs, own, e.otherwise[1], depth)
=============================================================================
