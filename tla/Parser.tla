------------------------------- MODULE Parser -------------------------------
(***************************************************************************)
(* lib/parser/parser.c: a module is read from its tokens, one constant     *)
(* after another, by recursive descent.                                    *)
(*                                                                         *)
(* What a function of the parser leaves is a record: the parser s, how the *)
(* function ended, and what it wrote to its destination.  It ends in       *)
(* "ok", in "error", or "outside", when it has read a token past the last  *)
(* one, and what happens then is undefined.  The parser s is the position, *)
(* the functions that are complete and the number of reports.  Names are   *)
(* texts; ranges of text are left out.                                     *)
(***************************************************************************)
EXTENDS Tokenizer, Literals, Syntax

VARIABLES
    entry,              \* "parse_module" or "parse_expression"
    parser,             \* as above, between two constants
    global_constants,
    expression,         \* what parse_expression sets
    accepted            \* history variable: the tokens each constant is made of

parser_vars == <<entry, parser, global_constants, expression, accepted>>

(* Whatever an ExpressionId that was never written denotes.                *)
Uninitialized == [kind |-> "uninitialized"]

Ok(s, e)   == [s |-> s, outcome |-> "ok", e |-> e]
Error(s)   == [s |-> s, outcome |-> "error", e |-> Uninitialized]
Outside(s) == [s |-> s, outcome |-> "outside", e |-> Uninitialized]

(* The next step of a function, unless the last one returned an error.     *)
Then(r, Step(_)) == IF r.outcome = "ok" THEN Step(r) ELSE r

AtEnd(s) == s.pos = Len(tokens)
Kind(s)  == IF AtEnd(s) THEN "end" ELSE tokens[s.pos + 1].kind

(* The text of the token at hand: token_range.                             *)
TokenText(s) ==
    LET token == tokens[s.pos + 1] IN Text(token.pos, RangeEnd(token))

Advance(s) == [s EXCEPT !.pos = @ + 1]
Report(s)  == [s EXCEPT !.reports = @ + 1]

(* parser_match, and unexpected_token when there is no match.              *)
Expect_Silent(s, kind) == IF Kind(s) = kind THEN Ok(Advance(s), TokenText(s)) ELSE Error(s)

Expect(s, kind) == IF Kind(s) = kind THEN Ok(Advance(s), TokenText(s)) ELSE Error(Report(s))

(* The same without a report, and without asking for the end.              *)
Require(s, kind) ==
    IF AtEnd(s) THEN Outside(s)
    ELSE IF Kind(s) = kind THEN Ok(Advance(s), TokenText(s))
    ELSE Error(s)

parse_identifier(s) == Expect(s, "IDENTIFIER")
parse_type_name(s)  == parse_identifier(s)

-----------------------------------------------------------------------------
(* Expressions.                                                            *)

PRECEDENCE_ANY == 0
PRECEDENCE_BITWISE_INFIX == 1
PRECEDENCE_PREFIX == 2
PRECEDENCE_FUNCTION_CALL == 3

(* The binary operators, by the token they are recognised by.              *)
BinaryOperators == {"PAREN_LEFT", "TUBE", "AMPERSAND", "HAT"}

OperatorFor(kind) ==
    CASE kind = "PAREN_LEFT" -> "call"
      [] kind = "TUBE"       -> "lor"
      [] kind = "AMPERSAND"  -> "and"
      [] kind = "HAT"        -> "xor"

PrecedenceOf(kind) ==
    IF kind = "PAREN_LEFT" THEN PRECEDENCE_FUNCTION_CALL ELSE PRECEDENCE_BITWISE_INFIX

(* A parenthesis is not consumed: it belongs to the argument.              *)
AfterOperator(s) == IF Kind(s) = "PAREN_LEFT" THEN s ELSE Advance(s)

(* An operator that binds no tighter than the one before ends its operand. *)
Continues_RightToLeft(kind, prev) == kind \in BinaryOperators /\ PrecedenceOf(kind) >= prev

Continues(kind, prev) == kind \in BinaryOperators /\ PrecedenceOf(kind) > prev

Joined_Swapped(operator, lhs, rhs) ==
    IF operator = "call" THEN Call(rhs, lhs) ELSE Binary(operator, rhs, lhs)

Joined(operator, lhs, rhs) ==
    IF operator = "call" THEN Call(lhs, rhs) ELSE Binary(operator, lhs, rhs)

(* A function is pushed, and numbered, when it is complete.                *)
PushFunction(s, f) == [s EXCEPT !.functions = Append(@, f)]
WithId_AfterPush(s, f) == [f EXCEPT !.function_id = Len(s.functions) + 1]

WithId(s, f) == [f EXCEPT !.function_id = Len(s.functions)]

Numeral(s, number) ==
    Ok(Advance(IF number.overflowed THEN Report(s) ELSE s),
       Literal(number.kind, number.value))

(* The end of a parenthesis, whatever became of what is in it; a missing   *)
(* one is reported with the token that is there instead.                   *)
Closed(inner) ==
    IF inner.outcome = "outside" THEN inner
    ELSE IF Kind(inner.s) = "PAREN_RIGHT" THEN Ok(Advance(inner.s), inner.e)
    ELSE IF AtEnd(inner.s) THEN Outside(inner.s)
    ELSE Error(Report(inner.s))

RECURSIVE parse_expression_precedence(_, _)
RECURSIVE try_parse_expression_continue(_, _, _)

parse_expression2(s) == parse_expression_precedence(s, PRECEDENCE_ANY)

(* fn name: type -> type => expression; s is past the fn.                  *)
parse_function(s) ==
    Then(parse_identifier(s), LAMBDA name :
    Then(Expect(name.s, "COLON"), LAMBDA colon :
    Then(parse_type_name(colon.s), LAMBDA input :
    Then(Expect(input.s, "ARROW"), LAMBDA arrow :
    Then(parse_type_name(arrow.s), LAMBDA result :
    Then(Expect(result.s, "DOUBLE_ARROW"), LAMBDA double_arrow :
    Then(parse_expression2(double_arrow.s), LAMBDA output :
        Ok(output.s, Function(name.e, input.e, result.e, output.e)))))))))

(* The expression after `else`, if there is an else; r holds what is before. *)
parse_else(r, condition) ==
    IF AtEnd(r.s) THEN Outside(r.s)
    ELSE IF Kind(r.s) = "else"
    THEN Then(Require(Advance(r.s), "DOUBLE_ARROW"), LAMBDA arrow :
         Then(parse_expression2(arrow.s), LAMBDA if_false :
             Ok(if_false.s, Conditional(condition, r.e, <<if_false.e>>))))
    ELSE Ok(r.s, Conditional(condition, r.e, << >>))

(* if condition => expression [else => expression]; s is past the if.      *)
parse_conditional(s) ==
    Then(parse_expression2(s), LAMBDA condition :
    Then(Require(condition.s, "DOUBLE_ARROW"), LAMBDA arrow :
    Then(parse_expression2(arrow.s), LAMBDA if_true :
        parse_else(if_true, condition.e))))

parse_expression_primary(s) ==
    CASE Kind(s) = "PAREN_LEFT" -> Closed(parse_expression2(Advance(s)))
      [] Kind(s) = "fn" ->
           Then(parse_function(Advance(s)), LAMBDA f :
               Ok(PushFunction(f.s, WithId(f.s, f.e)), WithId(f.s, f.e)))
      [] Kind(s) = "if" -> parse_conditional(Advance(s))
      [] Kind(s) = "false" -> Ok(Advance(s), Literal("bool", 0))
      [] Kind(s) = "true"  -> Ok(Advance(s), Literal("bool", 1))
      [] Kind(s) = "IDENTIFIER" -> Ok(Advance(s), Variable(TokenText(s)))
      [] Kind(s) = "INTEGER" -> Numeral(s, parse_integer(TokenText(s)))
      [] Kind(s) = "FLOAT"   -> Numeral(s, parse_float(TokenText(s)))
      [] OTHER -> Error(s)

parse_expression_head(s) ==
    IF Kind(s) = "BANG"
    THEN Then(parse_expression_precedence(Advance(s), PRECEDENCE_PREFIX), LAMBDA operand :
             Ok(operand.s, Not(operand.e)))
    ELSE parse_expression_primary(s)

parse_expression_precedence(s, prev) ==
    Then(parse_expression_head(s), LAMBDA head :
        try_parse_expression_continue(head.s, head.e, prev))

try_parse_expression_continue(s, lhs, prev) ==
    IF ~Continues(Kind(s), prev) THEN Ok(s, lhs)
    ELSE Then(parse_expression_precedence(AfterOperator(s), PrecedenceOf(Kind(s))),
              LAMBDA rhs :
                  try_parse_expression_continue(
                      rhs.s, Joined(OperatorFor(Kind(s)), lhs, rhs.e), prev))

-----------------------------------------------------------------------------
(* Modules.                                                                *)

(* name :: expression;                                                     *)
parse_constant(s) ==
    Then(parse_identifier(s), LAMBDA name :
    Then(Expect(name.s, "COLON_COLON"), LAMBDA colons :
    Then(parse_expression2(colons.s), LAMBDA value :
    Then(Expect(value.s, "SEMICOLON"), LAMBDA end :
        Ok(end.s, ConstantDef(name.e, value.e))))))

(* How many parentheses are open at each token from p, as far as           *)
(* parser_skip_until counts them.                                          *)
Depth_BelowZero(p) ==
    LET Before[k \in p .. Len(tokens)] ==
            IF k = p THEN 0
            ELSE CASE tokens[k].kind = "PAREN_LEFT" -> Before[k - 1] + 1
                   [] tokens[k].kind = "PAREN_RIGHT" -> Before[k - 1] - 1
                   [] OTHER -> Before[k - 1]
    IN  Before

Depth(p) ==
    LET Before[k \in p .. Len(tokens)] ==
            IF k = p THEN 0
            ELSE CASE tokens[k].kind = "PAREN_LEFT" -> Before[k - 1] + 1
                   [] tokens[k].kind = "PAREN_RIGHT" /\ Before[k - 1] > 0 -> Before[k - 1] - 1
                   [] OTHER -> Before[k - 1]
    IN  Before

SkipUntil(p, kind) ==
    LET depth == Depth(p)
        stops == {q \in p .. Len(tokens) :
                     q = Len(tokens) \/ (tokens[q + 1].kind = kind /\ depth[q] = 0)}
    IN  CHOOSE q \in stops : \A k \in stops : q <= k

(* Where parsing goes on after an error at p: behind the next semicolon, or *)
(* behind the end of the tokens if there is none.                          *)
Recovered_OnePast(p) == SkipUntil(p, "SEMICOLON") + 2
Recovered_BeforeIt(p) == SkipUntil(p, "SEMICOLON")

Recovered(p) == SkipUntil(p, "SEMICOLON") + 1

ParserInit ==
    /\ entry \in {"parse_module", "parse_expression"}
    /\ expression = Uninitialized
    /\ parser = [pos |-> 0, functions |-> << >>, reports |-> 0]
    /\ global_constants = << >>
    /\ accepted = << >>

Parsing(function) == phase = "tokenized" /\ entry = function

(* parse_module2, one action per constant.                                 *)
ParseConstant ==
    /\ Parsing("parse_module") /\ parser.pos < Len(tokens)
    /\ \E r \in {parse_constant(parser)} :
          \/ /\ r.outcome = "ok"
             /\ parser' = r.s
             /\ global_constants' = Append(global_constants, r.e)
             /\ accepted' = Append(accepted, <<parser.pos, r.s.pos>>)
             /\ UNCHANGED phase
          \/ /\ r.outcome = "error"
             /\ parser' = [r.s EXCEPT !.pos = Recovered(@)]
             /\ UNCHANGED <<phase, global_constants, accepted>>
          \/ /\ r.outcome = "outside"
             /\ parser' = r.s
             /\ phase' = "undefined"
             /\ UNCHANGED <<global_constants, accepted>>
    /\ UNCHANGED <<source, pos, tokens, _end_pos, error, entry, expression>>

(* The loop runs on, with tokens from outside the array.                   *)
PastTheEnd ==
    /\ Parsing("parse_module") /\ parser.pos > Len(tokens)
    /\ phase' = "undefined"
    /\ UNCHANGED <<source, pos, tokens, _end_pos, error, parser_vars>>

EndOfTokens ==
    /\ Parsing("parse_module") /\ parser.pos = Len(tokens)
    /\ phase' = "parsed"
    /\ UNCHANGED <<source, pos, tokens, _end_pos, error, parser_vars>>

(* parse_expression: one expression, whatever comes after it.              *)
ParseExpression ==
    /\ Parsing("parse_expression")
    /\ \E r \in {parse_expression2(parser)} :
          /\ parser' = r.s
          /\ expression' = r.e
          /\ phase' = IF r.outcome = "outside" THEN "undefined" ELSE "parsed"
    /\ UNCHANGED <<source, pos, tokens, _end_pos, error, entry, global_constants, accepted>>

Parse == ParseConstant \/ PastTheEnd \/ EndOfTokens \/ ParseExpression
=============================================================================
