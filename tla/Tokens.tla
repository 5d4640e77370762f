-------------------------------- MODULE Tokens --------------------------------
(***************************************************************************)
(* What the tokens of a text should be, said of the text and not of the    *)
(* steps of the tokenizer; and the tokenizer on its own, with whoever asks *)
(* for its tokens: the parser reads them and changes none (FrontEnd).      *)
(***************************************************************************)
EXTENDS Tokenizer, Literals

(* The caller has its tokens.                                              *)
HandOver ==
    /\ phase = "tokenized"
    /\ phase' \in {"parsed", "undefined"}
    /\ UNCHANGED <<source, pos, tokens, _end_pos, error>>

TokenizerNext == Tokenize \/ HandOver

TokenizerSpec == Init /\ [][TokenizerNext]_tokenizer_vars

-----------------------------------------------------------------------------
(* Properties of tokens.                                                   *)

Tokenized == phase = "tokenized"

(* Where a token ends in the text; a keyword that was abbreviated ends     *)
(* before its range does.                                                  *)
TokenEnd(token) ==
    IF token.kind \in Keyword THEN RunEnd(token.pos, WordChar) ELSE RangeEnd(token)

Word(token) == Text(token.pos, TokenEnd(token))

AllIn(text, class) == \A k \in DOMAIN text : text[k] \in class

IsWhole(text) == text # << >> /\ AllIn(text, Digit)

IsExponent(text) == text # << >> /\ IsWhole(Unsigned(text))

(* digits, then a point and digits, or an exponent, or both                *)
IsReal(text) ==
    LET m == MantissaOf(text)
        points == {k \in DOMAIN m : m[k] = "."}
    IN  /\ \/ points = {} /\ IsWhole(m) /\ Contains(text, "e")
           \/ \E p \in points : IsWhole(SubSeq(m, 1, p - 1)) /\ IsWhole(SubSeq(m, p + 1, Len(m)))
        /\ Contains(text, "e") => IsExponent(ExponentText(text))

(* A token is what its kind says.                                          *)
IsSpelled(token, word) ==
    CASE token.kind = "IDENTIFIER" ->
           AllIn(word, WordChar) /\ word[1] \notin Digit /\ \A k \in Keyword : word # Spelling(k)
      [] token.kind = "INTEGER" -> IsExponent(word)
      [] token.kind = "FLOAT" -> IsReal(Unsigned(word))
      [] token.kind \in Keyword -> IsPrefix(word, Spelling(token.kind))
      [] OTHER -> word = Spelling(token.kind)

(* Two tokens that touch could not have been one: a word or a number goes  *)
(* on as long as it can, a sign belongs to the number after it, and of two *)
(* punctuation marks that fit the longer one is taken.                     *)
Separate(first, second) ==
    LET f == Word(first)
        s == Word(second)
    IN  /\ ~(f[Len(f)] \in WordChar /\ s[1] \in WordChar)
        /\ ~(first.kind \in {"PLUS", "MINUS"} /\ s[1] \in Digit)
        /\ \A k \in PunctuationKind : f \o <<s[1]>> # Spelling(k)

(* The tokens of a text that is not refused are the text: in its order,    *)
(* with nothing but space between them, each spelled as its kind is (a     *)
(* keyword may be abbreviated: README.md names values `e` and `f`, which   *)
(* tokenizer.c:70 takes for `elif` and `fn`).                              *)
(* (Numbers are pushed even when they are invalid, and a sign that was a   *)
(* token is taken back, tokenizer.c:95-171.)                               *)
TokensAreTheText ==
    Tokenized =>
        LET StartOf(k) == IF k > Len(tokens) THEN Len(source) ELSE tokens[k].pos
            EndOf(k)   == IF k = 0 THEN 0 ELSE TokenEnd(tokens[k])
        IN  /\ \A k \in 0 .. Len(tokens) :
                  /\ EndOf(k) <= StartOf(k + 1)
                  /\ AllIn(Text(EndOf(k), StartOf(k + 1)), Space)
            /\ \A k \in DOMAIN tokens :
                  Word(tokens[k]) # << >> /\ IsSpelled(tokens[k], Word(tokens[k]))
            /\ \A k \in 1 .. Len(tokens) - 1 :
                  EndOf(k) = StartOf(k + 1) => Separate(tokens[k], tokens[k + 1])

Classified == \A k \in DOMAIN source : source[k] # "ctl"
TokenizingEnds == phase # "tokenizing"
=============================================================================
