------------------------------ MODULE FrontEnd ------------------------------
(***************************************************************************)
(* A text is cut into tokens and its tokens are parsed, as every user of   *)
(* tokenize, parse_module and parse_expression does (tests/tests/common.c  *)
(* and the tests of the tree).                                             *)
(***************************************************************************)
EXTENDS Parser, Grammar, Tokens, FiniteSets

CONSTANT Cases  \* what to parse: a text, which function parses it, and the
                \* trees the text was written from, if it was:
                \*   "module"      those constants and nothing else,
                \*   "tail"        something, and at the end those constants,
                \*   "expression"  that expression,
                \*   "nothing"

VARIABLE written    \* history variable: what the text was written from

vars == <<tokenizer_vars, parser_vars, written>>

FrontEndInit ==
    /\ \E case \in Cases :
          source = case.text /\ entry = case.entry /\ written = case.written
    /\ Init /\ ParserInit

Next ==
    \/ Tokenize /\ UNCHANGED <<parser_vars, written>>
    \/ Parse /\ UNCHANGED written

Spec == FrontEndInit /\ [][Next]_vars

(* The loop of tokenize runs on as long as it can.                         *)
FairSpec == Spec /\ WF_vars(Tokenize /\ UNCHANGED <<parser_vars, written>>)

-----------------------------------------------------------------------------
(* Properties of both.                                                     *)

TypeOK ==
    /\ TokenizerTypeOK
    /\ phase \in {"tokenizing", "refused", "tokenized", "parsed", "undefined"}
    /\ parser.pos \in 0 .. Len(tokens) + 1
    /\ parser.reports \in Nat
    /\ Len(accepted) = Len(global_constants)
    /\ \A k \in DOMAIN parser.functions : parser.functions[k].function_id = k - 1

(* A text is cut to its end exactly if no character of it is without a     *)
(* class: tokenize_one (tokenizer.c:185) says that there is more and does  *)
(* not move.  The loop of parse_module2 ends, for every turn of it, also   *)
(* one that recovers from an error, consumes a token.                      *)
EndsUnlessStrange ==
    /\ Classified => <>TokenizingEnds
    /\ ~Classified => []~TokenizingEnds
    /\ [][phase = "tokenized" => parser'.pos > parser.pos \/ phase' # phase]_vars

-----------------------------------------------------------------------------
(* Properties of trees.                                                    *)

(* What was written is read: precedences, associativity, the reach of      *)
(* functions and conditionals, and the numbers of functions.               *)
ReadsWhatIsWritten ==
    phase \in {"parsed", "undefined"} =>
        CASE written.from = "module" ->
               /\ global_constants = Parsed(written.trees)
               /\ parser.reports = 0 /\ phase = "parsed"
          [] written.from = "expression" ->
               /\ expression = Numbered(written.trees, 0).e
               /\ parser.reports = 0 /\ phase = "parsed"
          [] OTHER -> TRUE

Count(kind, k, l) == Cardinality({n \in k .. l : tokens[n].kind = kind})

Closes(k) ==
    \E l \in k + 1 .. Len(tokens) : Count("PAREN_LEFT", k, l) = Count("PAREN_RIGHT", k, l)

ParenthesesClose == \A k \in DOMAIN tokens : tokens[k].kind = "PAREN_LEFT" => Closes(k)

(* Whatever is wrong with one constant, those after its semicolon are      *)
(* read, and parsing stays inside the tokens, if its parentheses close     *)
(* (parser_skip_until counts them from where the error is).                *)
RecoversAtSemicolon ==
    (written.from = "tail" /\ ParenthesesClose) =>
        /\ phase # "undefined"
        /\ phase = "parsed" => IsSuffix(written.trees, global_constants)

(* Parsing leaves the tokens only if they do not end with a semicolon, or  *)
(* if a parenthesis does not close (parser.c:182, 44, 510-520).            *)
StaysInside ==
    phase = "undefined" =>
        tokens[Len(tokens)].kind # "SEMICOLON" \/ ~ParenthesesClose

RECURSIVE Complete(_)

Complete(e) ==
    CASE e.kind = "uninitialized" -> FALSE
      [] e.kind = "not" -> Complete(e.operand)
      [] e.kind = "binary" -> Complete(e.first) /\ Complete(e.second)
      [] e.kind = "conditional" ->
           /\ Complete(e.condition) /\ Complete(e.if_true)
           /\ \A k \in DOMAIN e.otherwise : Complete(e.otherwise[k])
      [] e.kind = "function" -> Complete(e.output)
      [] OTHER -> TRUE

Parentheses == {Spelling("PAREN_LEFT"), Spelling("PAREN_RIGHT")}

(* Numbers are all alike here.                                             *)
Skeleton(lexemes) ==
    LET plain == SelectSeq(lexemes, LAMBDA l : l \notin Parentheses)
    IN  [k \in DOMAIN plain |-> IF AllIn(Unsigned(plain[k]), Digit \union {".", "e", "+", "-"})
                                   /\ Unsigned(plain[k]) # << >> /\ Unsigned(plain[k])[1] \in Digit
                                THEN <<"0">> ELSE plain[k]]

(* A constant that is accepted is made of the very tokens it was read      *)
(* from, but for parentheses: nothing is dropped and nothing made up,      *)
(* except where an expression in parentheses was given up (parser.c:773).  *)
NothingIsLost ==
    \A k \in DOMAIN accepted :
        Complete(global_constants[k].value) =>
            Skeleton([n \in 1 .. accepted[k][2] - accepted[k][1] |->
                         Word(tokens[accepted[k][1] + n])])
                = Skeleton(WrittenConstant(global_constants[k]))

(* Where an expression has to begin, and what begins one.                  *)
BeforeExpression ==
    {"COLON_COLON", "DOUBLE_ARROW", "PAREN_LEFT", "BANG", "TUBE", "AMPERSAND", "HAT", "if"}
Atom  == {"IDENTIFIER", "true", "false", "INTEGER", "FLOAT"}
Beginner == Atom \union {"PAREN_LEFT", "BANG", "fn", "if"}

KindAt(k) == IF k \in DOMAIN tokens THEN tokens[k].kind ELSE "end"

ExpressionMissing ==
    \E k \in DOMAIN tokens : KindAt(k) \in BeforeExpression /\ KindAt(k + 1) \notin Beginner

(* An arrow may be missing, unless it is there right after a condition of  *)
(* one token, and after every else.                                        *)
ArrowMissing ==
    \E k \in DOMAIN tokens :
        \/ KindAt(k) = "if" /\ ~(KindAt(k + 1) \in Atom /\ KindAt(k + 2) = "DOUBLE_ARROW")
        \/ KindAt(k) = "else" /\ KindAt(k + 1) # "DOUBLE_ARROW"

(* A module about which nothing is reported was read as a whole: every     *)
(* token is in one of its constants, in order, and no constant has a part  *)
(* that was never written.  Two errors are not reported: an expression     *)
(* that cannot begin (parser.c:834, and the end of the tokens at 729 and   *)
(* 763), also in parentheses, where it is not even an error (parser.c:773),*)
(* and an arrow that a conditional lacks (parser.c:510, 520).  Any other   *)
(* error is told, whatever is wrong with the constants before it.          *)
NothingIsLostSilently ==
    (phase = "parsed" /\ entry = "parse_module" /\ parser.reports = 0
        /\ ~ExpressionMissing /\ ~ArrowMissing) =>
            Skeleton([k \in DOMAIN tokens |-> Word(tokens[k])])
                = Skeleton(WrittenModule(global_constants))

-----------------------------------------------------------------------------
(* Properties of numbers: of an expression that is one token.              *)

IsNumber(kind) ==
    /\ phase = "parsed" /\ entry = "parse_expression"
    /\ Len(tokens) = 1 /\ tokens[1].kind = kind /\ Word(tokens[1]) = source

IntegersAreExact ==
    IsNumber("INTEGER") =>
        /\ IsExact(Integer(expression.kind, expression.value, parser.reports > 0), source)
        /\ parser.reports <= 1

FloatText == Unsigned(source)
FloatValue == expression.value.magnitude

(* Digits that there is no room for.                                       *)
Excess == digits_read(MantissaOf(FloatText)) - MaxDigits
Extreme == ExponentOf(ExponentText(FloatText)).extreme

FloatsAreExact ==
    IsNumber("FLOAT") =>
        /\ expression.value.negative <=> Sign(source) = -1
        /\ (Excess <= 0 /\ ~Extreme) =>
               FloatValue = build_positive_f64(Digits(FloatText), Power(FloatText))
        /\ (Excess <= 0 /\ Extreme
                /\ (Sign(ExponentText(FloatText)) = -1 \/ Digits(FloatText) = 0)) =>
               FloatValue = ZERO
        /\ (Excess > 0 /\ Excess <= Decimals(FloatText) /\ ~Contains(FloatText, "e")) =>
               FloatValue = build_positive_f64(Digits(FloatText) \div 10 ^ Excess,
                                               Power(FloatText) + Excess)

(* An integer literal has the value that is written, or it is reported as  *)
(* too large, also where what is left of its magnitude is small            *)
(* (parser.c:293).  A float is the number that is written, to be rounded,  *)
(* if it has no more digits than are read and its exponent is not an       *)
(* extreme one; beyond these limits it is zero where it should be, and cut *)
(* after the last digit that is read.  It is neither if an exponent or the *)
(* point comes after the digits that are read, or if the exponent is       *)
(* extreme and positive (parser.c:418-455).                                *)
LiteralsAreExact == IntegersAreExact /\ FloatsAreExact
=============================================================================
