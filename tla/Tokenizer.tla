------------------------------ MODULE Tokenizer ------------------------------
(***************************************************************************)
(* lib/tokenizer/tokenizer.c and lib/tokens/token.c: a text is cut into    *)
(* tokens, one call of tokenize_one at a time.                             *)
(*                                                                         *)
(* A text is a sequence of characters and ends with a NUL that is not part *)
(* of it, as those of source.c do; the code reads that far.  Characters    *)
(* are those its classes and spellings tell apart; "ctl" stands for every  *)
(* control character and every byte that is not ASCII, which have no class *)
(* in the C locale.                                                        *)
(***************************************************************************)
EXTENDS Integers, Sequences

NUL == "nul"
Space  == {" "}
Digit  == {"0", "1", "2", "3", "4", "5", "6", "7", "8", "9"}
Letter == {"a", "b", "e", "f", "i", "l", "n", "r", "s", "t", "u", "x", "y", "B"}
Punctuation == {"(", ")", ":", "=", "-", ">", ";", "!", "|", "&", "^", "+", "*",
                "/", "%", ".", "?"}
WordChar == Letter \union Digit \union {"_"}
Char == Space \union WordChar \union Punctuation \union {"ctl"}

VARIABLES
    source,
    pos,        \* of the next character
    tokens,
    _end_pos,   \* where names and numbers end, by where they start
    error,
    phase       \* "tokenizing"; "tokenized", or "refused" with nothing returned

tokenizer_vars == <<source, pos, tokens, _end_pos, error, phase>>

-----------------------------------------------------------------------------
(* Kinds of tokens: TokenKind and token_kind_table.                        *)

PunctuationSpelling ==
    [PAREN_LEFT |-> <<"(">>, PAREN_RIGHT |-> <<")">>, COLON |-> <<":">>,
     COLON_COLON |-> <<":", ":">>, EQUAL |-> <<"=">>, COLON_EQUAL |-> <<":", "=">>,
     ARROW |-> <<"-", ">">>, DOUBLE_ARROW |-> <<"=", ">">>, SEMICOLON |-> <<";">>,
     BANG |-> <<"!">>, TUBE |-> <<"|">>, AMPERSAND |-> <<"&">>, HAT |-> <<"^">>,
     PLUS |-> <<"+">>, MINUS |-> <<"-">>, ASTERISK |-> <<"*">>, SLASH |-> <<"/">>,
     PERCENT |-> <<"%">>]

KeywordSpelling ==
    [let |-> <<"l", "e", "t">>, fn |-> <<"f", "n">>,
     false |-> <<"f", "a", "l", "s", "e">>, true |-> <<"t", "r", "u", "e">>,
     if |-> <<"i", "f">>, elif |-> <<"e", "l", "i", "f">>, else |-> <<"e", "l", "s", "e">>]

(* In the order of the enumeration, which is that of the search.           *)
KeywordOrder == <<"let", "fn", "false", "true", "if", "elif", "else">>

PunctuationKind == DOMAIN PunctuationSpelling
Keyword == DOMAIN KeywordSpelling
SizedKind == {"IDENTIFIER", "INTEGER", "FLOAT"}
TokenKind == PunctuationKind \union Keyword \union SizedKind

Spelling(kind) ==
    IF kind \in Keyword THEN KeywordSpelling[kind] ELSE PunctuationSpelling[kind]

TokenAt(kind, p) == [kind |-> kind, pos |-> p]

-----------------------------------------------------------------------------
(* Reading the text.                                                       *)

CharAt(p) == IF p < Len(source) THEN source[p + 1] ELSE NUL

(* Where a run of characters of a class that starts at p ends.             *)
RunEnd(p, class) ==
    CHOOSE q \in p .. Len(source) :
        CharAt(q) \notin class /\ \A k \in p .. q - 1 : CharAt(k) \in class

Text(p, q) == SubSeq(source, p + 1, q)

(* strncmp with n no more than the length of the spelling.                 *)
IsAt(p, spelling) == \A k \in DOMAIN spelling : CharAt(p + k - 1) = spelling[k]

(* The end of what a token stands for: token_range.                        *)
RangeEnd(token) ==
    IF token.kind \in SizedKind THEN _end_pos[token.pos]
    ELSE token.pos + Len(Spelling(token.kind))

WithEnd(p, q) ==
    [x \in DOMAIN _end_pos \union {p} |-> IF x = p THEN q ELSE _end_pos[x]]

-----------------------------------------------------------------------------
(* tokenize_one, one action per kind of token.                             *)

Init ==
    /\ source \in Seq(Char)
    /\ pos = 0
    /\ tokens = << >>
    /\ _end_pos = << >>
    /\ error = FALSE
    /\ phase = "tokenizing"

(* skip_whitespace, before every token.                                    *)
Start == RunEnd(pos, Space)

Tokenizing == phase = "tokenizing"

(* The longest punctuation there is at p, if there is one.                 *)
PunctuationAt(p) == {kind \in PunctuationKind : IsAt(p, PunctuationSpelling[kind])}

Longest(kinds) ==
    CHOOSE kind \in kinds :
        \A other \in kinds :
            Len(PunctuationSpelling[other]) <= Len(PunctuationSpelling[kind])

TokenizePunctuation ==
    /\ Tokenizing
    /\ CharAt(Start) \in Punctuation
    /\ \E kinds \in {PunctuationAt(Start)} :
          IF kinds = {}
          THEN /\ pos' = Start + 1
               /\ error' = TRUE
               /\ UNCHANGED tokens
          ELSE /\ pos' = Start + Len(PunctuationSpelling[Longest(kinds)])
               /\ tokens' = Append(tokens, TokenAt(Longest(kinds), Start))
               /\ UNCHANGED error
    /\ UNCHANGED <<source, _end_pos, phase>>

(* strncmp compares as many characters as the word has: any keyword that   *)
(* begins with the word will do, the first one first.                      *)
Abbreviates(word, kind) ==
    /\ Len(word) <= Len(KeywordSpelling[kind])
    /\ SubSeq(KeywordSpelling[kind], 1, Len(word)) = word

KeywordFor(word) ==
    LET fits == {k \in DOMAIN KeywordOrder : Abbreviates(word, KeywordOrder[k])}
    IN  IF fits = {} THEN "IDENTIFIER"
        ELSE KeywordOrder[CHOOSE k \in fits : \A l \in fits : k <= l]

TokenizeWord ==
    /\ Tokenizing
    /\ CharAt(Start) \in Letter \union {"_"}
    /\ \E end \in {RunEnd(Start, WordChar)} : \E kind \in {KeywordFor(Text(Start, end))} :
          /\ pos' = end
          /\ tokens' = Append(tokens, TokenAt(kind, Start))
          /\ _end_pos' = IF kind = "IDENTIFIER" THEN WithEnd(Start, end) ELSE _end_pos
    /\ UNCHANGED <<source, error, phase>>

-----------------------------------------------------------------------------
(* Numbers.                                                                *)

(* remove_number_sign: a sign right before the digits is taken back.       *)
SignBefore_Any(p) == tokens # << >> /\ tokens[Len(tokens)].kind \in {"PLUS", "MINUS"}

SignBefore(p) ==
    /\ tokens # << >>
    /\ tokens[Len(tokens)].pos + 1 = p
    /\ tokens[Len(tokens)].kind \in {"PLUS", "MINUS"}

(* What is consumed of a fraction: nothing if no digit follows its point.  *)
FractionEnd(p) ==
    IF CharAt(p) = "." /\ CharAt(p + 1) \in Digit THEN RunEnd(p + 1, Digit) ELSE p

(* Where the digits of an exponent have to be.                             *)
ExponentDigits(p) == IF CharAt(p + 1) \in {"+", "-"} THEN p + 2 ELSE p + 1

HasExponent(p) == CharAt(p) = "e"
ExponentIsEmpty(p) == HasExponent(p) /\ CharAt(ExponentDigits(p)) \notin Digit

ExponentEnd(p) == IF HasExponent(p) THEN RunEnd(ExponentDigits(p), Digit) ELSE p

(* The number whose digits end at whole, its fraction at fraction, its     *)
(* exponent at exponent; it is a float as soon as there is a point.        *)
Number(whole, fraction, exponent) ==
    [end     |-> RunEnd(exponent, WordChar),
     invalid |-> ExponentIsEmpty(fraction) \/ CharAt(exponent) \in WordChar,
     kind    |-> IF CharAt(whole) = "." \/ (HasExponent(fraction) /\ ~ExponentIsEmpty(fraction))
                 THEN "FLOAT" ELSE "INTEGER"]

NumberAt(p) ==
    LET whole == RunEnd(p, Digit)
        fraction == FractionEnd(whole)
    IN  Number(whole, fraction, ExponentEnd(fraction))

PushNumber(number, start, before) ==
    /\ pos' = number.end
    /\ tokens' = Append(before, TokenAt(number.kind, start))
    /\ _end_pos' = WithEnd(start, number.end)
    /\ error' = (error \/ number.invalid)

(* An invalid number is reported and pushed all the same.                  *)
TokenizeNumber ==
    /\ Tokenizing
    /\ CharAt(Start) \in Digit
    /\ \E number \in {NumberAt(Start)} :
          IF SignBefore(Start)
          THEN PushNumber(number, Start - 1, SubSeq(tokens, 1, Len(tokens) - 1))
          ELSE PushNumber(number, Start, tokens)
    /\ UNCHANGED <<source, phase>>

-----------------------------------------------------------------------------
(* A character of no class: tokenize_one says that there is more, and the  *)
(* loop runs on with what was skipped before it.                           *)
TokenizeOther ==
    /\ Tokenizing
    /\ CharAt(Start) = "ctl"
    /\ pos' = Start
    /\ UNCHANGED <<source, tokens, _end_pos, error, phase>>

(* tokenize returns; the caller's stream is set if there was no error.     *)
EndOfText ==
    /\ Tokenizing
    /\ Start = Len(source)
    /\ pos' = Start
    /\ phase' = IF error THEN "refused" ELSE "tokenized"
    /\ UNCHANGED <<source, tokens, _end_pos, error>>

Tokenize ==
    \/ TokenizePunctuation \/ TokenizeWord \/ TokenizeNumber
    \/ TokenizeOther \/ EndOfText

-----------------------------------------------------------------------------
(* Properties.                                                             *)

TokenizerTypeOK ==
    /\ source \in Seq(Char)
    /\ pos \in 0 .. Len(source)
    /\ tokens \in Seq([kind : TokenKind, pos : 0 .. Len(source) - 1])
    /\ DOMAIN _end_pos \subseteq 0 .. Len(source) - 1
    /\ \A p \in DOMAIN _end_pos : _end_pos[p] \in p + 1 .. pos
    /\ error \in BOOLEAN
=============================================================================
