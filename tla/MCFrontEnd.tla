----------------------------- MODULE MCFrontEnd -----------------------------
(***************************************************************************)
(* Texts for model-checking the front end.                                 *)
(***************************************************************************)
EXTENDS FrontEnd

SeqsUpTo(S, n) == UNION {[1 .. k -> S] : k \in 0 .. n}

Case(text, function, from, trees) ==
    [text |-> text, entry |-> function, written |-> [from |-> from, trees |-> trees]]

-----------------------------------------------------------------------------
(* Any characters: of numbers, of punctuation, of words, and some of each. *)
Texts ==
    SeqsUpTo({" ", "1", ".", "e", "+", "x"}, 4)
        \union [1 .. 5 -> {"1", ".", "e", "-"}]
        \union SeqsUpTo({":", "=", "-", ">", " ", "?", "|", "1"}, 3)
        \union SeqsUpTo({"f", "n", "e", "l", "_", "1", " "}, 3)
        \union SeqsUpTo({"ctl", "-", "1", " "}, 3)
        \union {<<"f", "a", "l", "s">> \o t : t \in SeqsUpTo({"e", "_", "1"}, 2)}

TextCases == {Case(t, "parse_expression", "nothing", << >>) : t \in Texts}

-----------------------------------------------------------------------------
(* Any tokens, alone and before a constant that is well formed.            *)
W(kind) == Spelling(kind)
Name(c) == <<c>>

ModuleLexemes ==
    {Name("x"), W("COLON_COLON"), W("SEMICOLON"), W("PAREN_LEFT"), W("PAREN_RIGHT"),
     W("BANG"), W("true")}
ExpressionLexemes ==
    {Name("x"), W("fn"), W("if"), W("else"), W("COLON"), W("ARROW"), W("DOUBLE_ARROW"),
     W("PAREN_LEFT"), W("PAREN_RIGHT"), W("BANG"), W("TUBE"), W("SEMICOLON")}
ParenthesisLexemes == {Name("x"), W("PAREN_LEFT"), W("PAREN_RIGHT"), W("HAT")}
ConditionalLexemes == {Name("x"), W("if"), W("else"), W("DOUBLE_ARROW")}

Follower == ConstantDef(Name("y"), Literal("bool", 1))
Before == <<Name("x"), W("COLON_COLON")>>

TailCase(lexemes) ==
    Case(Spaced(lexemes \o Lexeme("SEMICOLON") \o WrittenConstant(Follower)),
         "parse_module", "tail", <<Follower>>)

Soups ==
    {<<Name("x")>> \o l : l \in SeqsUpTo(ModuleLexemes, 3)}
        \union {Before \o l : l \in SeqsUpTo(ExpressionLexemes, 3)}
        \union {Before \o l : l \in [1 .. 4 -> ParenthesisLexemes]}

SoupCases ==
    {Case(Spaced(l), "parse_module", "nothing", << >>) : l \in Soups}
        \union {TailCase(l) : l \in Soups}
        \union {Case(Spaced(l), "parse_expression", "nothing", << >>) :
                   l \in [1 .. 4 -> ParenthesisLexemes]
                         \union {<<W("if")>> \o c : c \in SeqsUpTo(ConditionalLexemes, 4)}}

-----------------------------------------------------------------------------
(* Expressions up to three operators deep.                                 *)
X == Variable(Name("x"))
Y == Variable(Name("y"))
One == Literal("uint", 1)

Fn(e) == Function(Name("x"), Name("B"), Name("B"), e)

Shallow ==
    {X, One, Literal("int", -12), Literal("bool", 0), Not(X), Binary("lor", X, Y),
     Call(X, Y), Conditional(X, Y, << >>), Conditional(X, Y, <<One>>), Fn(Y)}

Over(S, T) ==
    {Not(e) : e \in S} \union {Fn(e) : e \in S}
        \union {Binary("and", e, f) : e \in S, f \in T}
        \union {Binary("xor", f, e) : e \in S, f \in T}
        \union {Call(e, f) : e \in S, f \in T} \union {Call(f, e) : e \in S, f \in T}
        \union {Conditional(e, f, << >>) : e \in S, f \in T}
        \union {Conditional(f, e, << >>) : e \in S, f \in T}
        \union {Conditional(e, f, <<X>>) : e \in S, f \in T}
        \union {Conditional(X, e, <<f>>) : e \in S, f \in T}
        \union {Conditional(f, X, <<e>>) : e \in S, f \in T}

Expressions == Over(Shallow, Shallow)
Deep == Over(Over(Shallow, {X}), {Y})

ExpressionCases ==
    {Case(Spaced(Written(e, TRUE) \o Lexeme("SEMICOLON")), "parse_expression", "expression", e) :
        e \in Expressions}

ModuleCases ==
    {Case(Spaced(WrittenModule(cs)), "parse_module", "module", cs) :
        cs \in {<<ConstantDef(Name("x"), e), ConstantDef(Name("y"), Fn(X))>> : e \in Deep}
               \union {<< >>}}

-----------------------------------------------------------------------------
(* Numbers about the limits of six bits, three digits and ten to the 4th.  *)
MinusFour == -4

Digits1 == [1 .. 1 -> {"0", "1", "3", "6", "9"}]
Digits2 == [1 .. 2 -> {"0", "1", "2", "3", "4", "6"}]
Digits3 == [1 .. 3 -> {"0", "1", "6", "7"}]
Digits4 == [1 .. 4 -> {"0", "1"}]

SignTexts == {<< >>, <<"+">>, <<"-">>}
ShortExponents == {<< >>, <<"e", "2">>, <<"e", "-", "2">>, <<"e", "+", "9">>}
LongExponents ==
    {<<"e", "1", "4">>, <<"e", "1", "6">>, <<"e", "-", "1", "6">>, <<"e", "6", "6">>}

Pointed(m, k) == SubSeq(m, 1, k) \o <<".">> \o SubSeq(m, k + 1, Len(m))

IntegerTexts == {s \o d : s \in SignTexts, d \in Digits1 \union Digits2 \union Digits3}
FloatTexts(M, E) ==
    {s \o Pointed(m, 1) \o e : s \in SignTexts, m \in M, e \in E}
        \union {m \o e : m \in M, e \in E \ {<< >>}}
        \union {Pointed(m, Len(m) - 1) \o e : m \in M, e \in E}

NumberCases(T) == {Case(t, "parse_expression", "nothing", << >>) : t \in T}

LiteralCases ==
    NumberCases(IntegerTexts
                \union FloatTexts(Digits2 \union Digits3, ShortExponents \union LongExponents)
                \union FloatTexts(Digits4, ShortExponents))

-----------------------------------------------------------------------------
AllCases == TextCases \union SoupCases \union ExpressionCases \union ModuleCases \union LiteralCases
=============================================================================
