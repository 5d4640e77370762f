------------------------------- MODULE Grammar -------------------------------
(***************************************************************************)
(* How a tree is written: the reference for the parser.  It puts the fewest *)
(* parentheses the grammar allows, and is not derived from the parser.     *)
(*                                                                         *)
(* From the loosest: `|`, `&` and `^`, which have one precedence and group *)
(* to the left; `!`; calls.  A function or a conditional extends as far to *)
(* the right as it can, and an `else` belongs to the nearest `if`.         *)
(***************************************************************************)
EXTENDS Tokenizer, Syntax, SequencesExt

Lexeme(kind) == <<Spelling(kind)>>

Parenthesized(lexemes) == Lexeme("PAREN_LEFT") \o lexemes \o Lexeme("PAREN_RIGHT")

InfixLexeme(operator) ==
    CASE operator = "lor" -> Lexeme("TUBE")
      [] operator = "and" -> Lexeme("AMPERSAND")
      [] operator = "xor" -> Lexeme("HAT")

NumberText(sign, n) ==
    LET digits == ToString(n)
    IN  sign \o [k \in 1 .. (IF n < 10 THEN 1 ELSE 2) |->
                    IF n < 10 THEN digits
                    ELSE ToString(IF k = 1 THEN n \div 10 ELSE n % 10)]

LiteralText(e) ==
    CASE e.kind = "bool" -> IF e.value = 1 THEN Spelling("true") ELSE Spelling("false")
      [] e.kind = "uint" -> NumberText(<< >>, e.value)
      [] e.kind = "int"  -> IF e.value < 0 THEN NumberText(<<"-">>, -e.value)
                            ELSE NumberText(<<"+">>, e.value)
      [] OTHER -> <<"0">>

Infix(e) == e.kind = "binary" /\ e.operator # "call"
(* What extends to the right.                                              *)
Open(e) == e.kind \in {"function", "conditional"}

Strength(e) == IF Infix(e) THEN 1 ELSE IF e.kind = "not" THEN 2 ELSE 3

(* An else written after the expression would become part of it.           *)
RECURSIVE TakesElse(_)

TakesElse(e) ==
    CASE e.kind = "conditional" -> e.otherwise = << >> \/ TakesElse(e.otherwise[1])
      [] e.kind = "function" -> TakesElse(e.output)
      [] e.kind = "not" -> TakesElse(e.operand)
      [] Infix(e) -> TakesElse(e.second)
      [] OTHER -> FALSE

RECURSIVE Written(_, _)

(* An operand of something as strong as least; last says whether nothing   *)
(* follows that an open expression would take in.                          *)
Operand(e, least, last) ==
    IF Strength(e) < least \/ (Open(e) /\ ~last)
    THEN Parenthesized(Written(e, TRUE))
    ELSE Written(e, last)

Written(e, last) ==
    CASE e.kind \in LiteralKinds -> <<LiteralText(e)>>
      [] e.kind = "variable" -> <<e.name>>
      [] e.kind = "not" -> Lexeme("BANG") \o Operand(e.operand, 2, last)
      [] e.kind = "binary" ->
           IF e.operator = "call"
           THEN Operand(e.second, 3, FALSE) \o Parenthesized(Written(e.first, TRUE))
           ELSE Operand(e.first, 1, FALSE) \o InfixLexeme(e.operator)
                    \o Operand(e.second, 2, last)
      [] e.kind = "conditional" ->
           Lexeme("if") \o Written(e.condition, TRUE) \o Lexeme("DOUBLE_ARROW")
             \o (IF e.otherwise # << >> /\ TakesElse(e.if_true)
                 THEN Parenthesized(Written(e.if_true, TRUE))
                 ELSE Written(e.if_true, TRUE))
             \o (IF e.otherwise = << >> THEN << >>
                 ELSE Lexeme("else") \o Lexeme("DOUBLE_ARROW") \o Written(e.otherwise[1], TRUE))
      [] e.kind = "function" ->
           Lexeme("fn") \o <<e.input.name>> \o Lexeme("COLON") \o <<e.input.type_name>>
             \o Lexeme("ARROW") \o <<e.output_type_name>> \o Lexeme("DOUBLE_ARROW")
             \o Written(e.output, TRUE)
      [] OTHER -> <<<<"?">>>>

WrittenConstant(c) ==
    <<c.name>> \o Lexeme("COLON_COLON") \o Written(c.value, TRUE) \o Lexeme("SEMICOLON")

WrittenModule(constants) == FlattenSeq([k \in DOMAIN constants |-> WrittenConstant(constants[k])])

(* Lexemes with a space between them.                                      *)
Spaced(lexemes) ==
    FlattenSeq([k \in DOMAIN lexemes |-> IF k = 1 THEN lexemes[k] ELSE <<" ">> \o lexemes[k]])
=============================================================================
