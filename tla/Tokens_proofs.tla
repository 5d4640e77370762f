---------------------------- MODULE Tokens_proofs ----------------------------
(***************************************************************************)
(* Proofs about module Tokens: the tokens of a text of any length that is  *)
(* not refused are the text; a text with a character of no class is never  *)
(* done, and every turn over any other advances.                           *)
(*                                                                         *)
(* The invariant says that the text is cut up to where it has been read    *)
(* (CutIn): there are tokens, each of them good, with gaps between them.   *)
(* That a token is good is said of the text, the token and its end only,   *)
(* so that it stays so while more is read.  It says that the token could   *)
(* not have gone on; for a sign that is known only from the next token     *)
(* (NoSign), or it would have been taken back.  There is one exception: a  *)
(* number may end at a point that no digit follows, which is no token:     *)
(* the text is doomed to be refused, by the next step (Doomed).            *)
(*                                                                         *)
(* The operators of Tokenizer that read the text are restated with the     *)
(* text as a parameter (CharIn, RunIn, Part, EndIn, IsIn), so that what    *)
(* is proved of it holds before and after a step.                          *)
(*                                                                         *)
(* Last, the numbers of Literals, which are parsed from such tokens: the   *)
(* magnitude of an integer is the value of the digits, or the flag is set; *)
(* a float is its digits times ten to its exponent.                        *)
(***************************************************************************)
EXTENDS Tokens, Induction, SequenceTheorems, FiniteSetTheorems

-----------------------------------------------------------------------------
(* Characters and spellings.                                               *)

CharIn(src, p) == IF p < Len(src) THEN src[p + 1] ELSE NUL

RunIn(src, p, class) ==
    CHOOSE q \in p .. Len(src) :
        CharIn(src, q) \notin class /\ \A k \in p .. q - 1 : CharIn(src, k) \in class

LEMMA SameChar == \A p : CharAt(p) = CharIn(source, p)
  BY DEF CharAt, CharIn

LEMMA SameRun == \A p, class : RunEnd(p, class) = RunIn(source, p, class)
  BY DEF RunEnd, RunIn, CharAt, CharIn

LEMMA Alphabet ==
    /\ NUL \notin Char /\ "ctl" \in Char
    /\ Space \subseteq Char /\ Digit \subseteq WordChar /\ Letter \subseteq WordChar
    /\ "_" \in WordChar
    /\ WordChar \subseteq Char /\ Punctuation \subseteq Char
    /\ WordChar \intersect Punctuation = {} /\ Space \intersect Punctuation = {}
    /\ Space \intersect WordChar = {} /\ Letter \intersect Digit = {} /\ "_" \notin Digit
    /\ {".", "+", "-"} \subseteq Punctuation /\ "e" \in Letter
    /\ "ctl" \notin Space \union WordChar \union Punctuation
    /\ Char = Space \union Digit \union Letter \union {"_"} \union Punctuation \union {"ctl"}
  BY DEF NUL, Char, Space, WordChar, Letter, Digit, Punctuation

LEMMA PunctuationFacts ==
    /\ \A k \in PunctuationKind :
          /\ PunctuationSpelling[k] \in Seq(Punctuation)
          /\ Len(PunctuationSpelling[k]) \in {1, 2}
          /\ PunctuationSpelling[k][1] # "."
<1>1. PunctuationKind =
         {"PAREN_LEFT", "PAREN_RIGHT", "COLON", "COLON_COLON", "EQUAL", "COLON_EQUAL", "ARROW",
          "DOUBLE_ARROW", "SEMICOLON", "BANG", "TUBE", "AMPERSAND", "HAT", "PLUS", "MINUS",
          "ASTERISK", "SLASH", "PERCENT"}
  BY DEF PunctuationKind, PunctuationSpelling
<1> DEFINE One(k, a) == PunctuationSpelling[k] = <<a>> /\ a \in Punctuation /\ a # "."
           Two(k, a, b) == /\ PunctuationSpelling[k] = <<a, b>>
                           /\ a \in Punctuation /\ b \in Punctuation /\ a # "."
           Fine(s) == s \in Seq(Punctuation) /\ Len(s) \in {1, 2} /\ s[1] # "."
<1>2. /\ One("PAREN_LEFT", "(") /\ One("PAREN_RIGHT", ")") /\ One("COLON", ":")
      /\ Two("COLON_COLON", ":", ":") /\ One("EQUAL", "=") /\ Two("COLON_EQUAL", ":", "=")
      /\ Two("ARROW", "-", ">") /\ Two("DOUBLE_ARROW", "=", ">") /\ One("SEMICOLON", ";")
      /\ One("BANG", "!") /\ One("TUBE", "|") /\ One("AMPERSAND", "&") /\ One("HAT", "^")
      /\ One("PLUS", "+") /\ One("MINUS", "-") /\ One("ASTERISK", "*") /\ One("SLASH", "/")
      /\ One("PERCENT", "%")
  BY DEF PunctuationSpelling, Punctuation
<1> HIDE DEF One, Two
<1>3. \A k \in PunctuationKind : (\E a : One(k, a)) \/ (\E a, b : Two(k, a, b))
  BY <1>1, <1>2, Zenon
<1>4. \A k, a : One(k, a) => Fine(PunctuationSpelling[k])
  <2>1. \A a \in Punctuation : a # "." => Fine(<<a>>)
    OBVIOUS
  <2> HIDE DEF Fine
  <2>2. QED
    BY <2>1, Zenon DEF One
<1>5. \A k, a, b : Two(k, a, b) => Fine(PunctuationSpelling[k])
  <2>1. \A a, b \in Punctuation : a # "." => Fine(<<a, b>>)
    OBVIOUS
  <2> HIDE DEF Fine
  <2>2. QED
    BY <2>1, Zenon DEF Two
<1>6. QED
  BY <1>3, <1>4, <1>5, Zenon

LEMMA KindFacts ==
    /\ PunctuationKind \intersect (Keyword \union SizedKind) = {}
    /\ Keyword \intersect SizedKind = {}
    /\ {"PLUS", "MINUS"} \subseteq PunctuationKind
    /\ PunctuationSpelling["PLUS"] = <<"+">> /\ PunctuationSpelling["MINUS"] = <<"-">>
  BY DEF PunctuationKind, PunctuationSpelling, Keyword, KeywordSpelling, SizedKind

LEMMA KeywordFacts ==
    /\ \A k \in Keyword : KeywordSpelling[k] \in Seq(Letter)
    /\ DOMAIN KeywordOrder = 1 .. 7
    /\ \A n \in 1 .. 7 : KeywordOrder[n] \in Keyword
    /\ \A k \in Keyword : \E n \in 1 .. 7 : KeywordOrder[n] = k
<1>1. Keyword = {"let", "fn", "false", "true", "if", "elif", "else"}
  BY DEF Keyword, KeywordSpelling
<1>2. /\ KeywordSpelling["let"] = <<"l", "e", "t">>
      /\ KeywordSpelling["fn"] = <<"f", "n">>
      /\ KeywordSpelling["false"] = <<"f", "a", "l", "s", "e">>
      /\ KeywordSpelling["true"] = <<"t", "r", "u", "e">>
      /\ KeywordSpelling["if"] = <<"i", "f">>
      /\ KeywordSpelling["elif"] = <<"e", "l", "i", "f">>
      /\ KeywordSpelling["else"] = <<"e", "l", "s", "e">>
  BY DEF KeywordSpelling
<1>3. {"l", "e", "t", "f", "n", "a", "s", "r", "u", "i"} \subseteq Letter
  BY DEF Letter
<1>4. /\ <<"l", "e", "t">> \in Seq(Letter) /\ <<"f", "n">> \in Seq(Letter)
      /\ <<"f", "a", "l", "s", "e">> \in Seq(Letter) /\ <<"t", "r", "u", "e">> \in Seq(Letter)
      /\ <<"i", "f">> \in Seq(Letter) /\ <<"e", "l", "i", "f">> \in Seq(Letter)
      /\ <<"e", "l", "s", "e">> \in Seq(Letter)
  BY <1>3
<1>5. \A k \in Keyword : KeywordSpelling[k] \in Seq(Letter)
  BY <1>1, <1>2, <1>4, Zenon
<1>6. DOMAIN KeywordOrder = 1 .. 7
  BY DEF KeywordOrder
<1>7. \A n \in 1 .. 7 : KeywordOrder[n] \in Keyword
  BY <1>1 DEF KeywordOrder
<1>8. \A k \in Keyword : \E n \in 1 .. 7 : KeywordOrder[n] = k
  <2>1. /\ KeywordOrder[1] = "let" /\ KeywordOrder[2] = "fn" /\ KeywordOrder[3] = "false"
        /\ KeywordOrder[4] = "true" /\ KeywordOrder[5] = "if" /\ KeywordOrder[6] = "elif"
        /\ KeywordOrder[7] = "else"
    BY DEF KeywordOrder
  <2>2. {1, 2, 3, 4, 5, 6, 7} \subseteq 1 .. 7
    OBVIOUS
  <2>3. QED
    BY <1>1, <2>1, <2>2
<1>9. QED
  BY <1>5, <1>6, <1>7, <1>8

-----------------------------------------------------------------------------
(* Texts and runs.                                                         *)

LEMMA CharFacts ==
    ASSUME NEW src \in Seq(Char)
    PROVE  /\ Len(src) \in Nat
           /\ \A p \in Nat : p < Len(src) => CharIn(src, p) = src[p + 1] /\ src[p + 1] \in Char
           /\ \A p \in Nat : p >= Len(src) => CharIn(src, p) = NUL
           /\ \A p \in Nat : CharIn(src, p) \in Char <=> p < Len(src)
<1>1. Len(src) \in Nat /\ \A k \in 1 .. Len(src) : src[k] \in Char
  OBVIOUS
<1>2. \A p \in Nat : p < Len(src) => p + 1 \in 1 .. Len(src)
  BY <1>1
<1>3. \A p \in Nat : p < Len(src) => CharIn(src, p) = src[p + 1] /\ src[p + 1] \in Char
  BY <1>1, <1>2 DEF CharIn
<1>4. \A p \in Nat : p >= Len(src) => CharIn(src, p) = NUL
  BY <1>1 DEF CharIn
<1>5. NUL \notin Char
  BY Alphabet
<1>6. \A p \in Nat : p < Len(src) \/ p >= Len(src)
  BY <1>1
<1>7. \A p \in Nat : CharIn(src, p) \in Char <=> p < Len(src)
  <2>1. \A p \in Nat : p >= Len(src) => ~(p < Len(src))
    BY <1>1
  <2>2. QED
    BY <1>3, <1>4, <1>5, <1>6, <2>1, Zenon
<1>8. QED
  BY <1>1, <1>3, <1>4, <1>7

LEMMA RunFacts ==
    ASSUME NEW src \in Seq(Char), NEW class, class \subseteq Char, NEW p \in 0 .. Len(src)
    PROVE  /\ RunIn(src, p, class) \in p .. Len(src)
           /\ CharIn(src, RunIn(src, p, class)) \notin class
           /\ \A k \in p .. RunIn(src, p, class) - 1 : CharIn(src, k) \in class
<1> DEFINE n == Len(src)
           T == {q \in p .. n : CharIn(src, q) \notin class}
<1>1. n \in T
  <2>1. n \in Nat /\ n \in p .. n /\ n >= n
    BY CharFacts
  <2>2. CharIn(src, n) = NUL
    BY <2>1, CharFacts
  <2>3. NUL \notin class
    BY Alphabet
  <2>4. QED
    BY <2>1, <2>2, <2>3
<1>2. PICK q \in T : \A k \in T : ~(k < q)
  <2>1. T \subseteq Nat /\ T # {}
    BY <1>1
  <2> HIDE DEF T
  <2>2. QED
    BY <2>1, LeastElement
<1>3. \A k \in p .. q - 1 : CharIn(src, k) \in class
  <2>1. \A k \in p .. q - 1 : k < q /\ k \in p .. n
    OBVIOUS
  <2>2. QED
    BY <1>2, <2>1
<1>4. \E r \in p .. n : CharIn(src, r) \notin class /\ \A k \in p .. r - 1 : CharIn(src, k) \in class
  BY <1>2, <1>3
<1>5. QED
  BY <1>4 DEF RunIn

(* A run is empty exactly if it does not begin.                            *)
LEMMA RunBegins ==
    ASSUME NEW src \in Seq(Char), NEW class, class \subseteq Char, NEW p \in 0 .. Len(src)
    PROVE  /\ CharIn(src, p) \in class => RunIn(src, p, class) \in p + 1 .. Len(src)
           /\ CharIn(src, p) \notin class => RunIn(src, p, class) = p
<1> DEFINE q == RunIn(src, p, class)
<1>1. q \in p .. Len(src) /\ CharIn(src, q) \notin class /\ Len(src) \in Nat
  BY RunFacts, CharFacts
<1>2. q # p => CharIn(src, p) \in class
  <2>1. q # p => p \in p .. q - 1
    BY <1>1
  <2>2. QED
    BY <2>1, RunFacts
<1>3. CharIn(src, p) \in class => q # p
  BY <1>1
<1> HIDE DEF q
<1>4. CharIn(src, p) \in class => q \in p + 1 .. Len(src)
  BY <1>1, <1>3
<1>5. QED
  BY <1>2, <1>4 DEF q

(* The characters of a part of a text.                                     *)
Part(src, a, b) == SubSeq(src, a + 1, b)

LEMMA PartFacts ==
    ASSUME NEW src \in Seq(Char), NEW a \in Nat, NEW b \in Nat, a <= b, b <= Len(src)
    PROVE  /\ Part(src, a, b) \in Seq(Char)
           /\ Len(Part(src, a, b)) = b - a
           /\ \A k \in 1 .. b - a : Part(src, a, b)[k] = CharIn(src, (a + k) - 1)
<1>1. /\ a + 1 \in Int /\ b \in Int /\ Len(src) \in Nat
      /\ \A k \in a + 1 .. b : src[k] \in Char
  OBVIOUS
<1>2. \A k \in 1 .. Len(src) : src[k] \in Char
  OBVIOUS
<1>3. /\ Part(src, a, b) \in Seq(Char)
      /\ Len(Part(src, a, b)) = IF a + 1 <= b THEN (b - (a + 1)) + 1 ELSE 0
      /\ \A k \in 1 .. (b - (a + 1)) + 1 : Part(src, a, b)[k] = src[((a + 1) + k) - 1]
  BY <1>1, SubSeqProperties DEF Part
<1>4. \A k \in 1 .. b - a : src[((a + 1) + k) - 1] = CharIn(src, (a + k) - 1)
  <2>1. \A k \in 1 .. b - a : /\ (a + k) - 1 \in Nat /\ (a + k) - 1 < Len(src)
                              /\ ((a + k) - 1) + 1 = ((a + 1) + k) - 1
    BY <1>1
  <2>2. QED
    BY <2>1 DEF CharIn
<1>5. (b - (a + 1)) + 1 = b - a /\ (a + 1 <= b \/ b - a = 0)
  OBVIOUS
<1>6. QED
  BY <1>3, <1>4, <1>5

(* A part of a part.                                                       *)
LEMMA PartOfPart ==
    ASSUME NEW src \in Seq(Char), NEW a \in Nat, NEW b \in Nat, a <= b, b <= Len(src),
           NEW i \in 1 .. (b - a) + 1, NEW j \in i - 1 .. b - a
    PROVE  SubSeq(Part(src, a, b), i, j) = Part(src, (a + i) - 1, a + j)
<1>1. /\ a + 1 \in 1 .. Len(src) + 1 /\ b \in a .. Len(src) /\ i \in 1 .. (b - (a + 1)) + 2
      /\ Len(src) \in Nat
  OBVIOUS
<1>2. Part(src, a, b) \in Seq(Char) /\ Len(Part(src, a, b)) = b - a
  BY PartFacts
<1>3. Part(src, (a + i) - 1, a + j) \in Seq(Char)
      /\ Len(Part(src, (a + i) - 1, a + j)) = (j - i) + 1
      /\ \A k \in 1 .. (j - i) + 1 :
            Part(src, (a + i) - 1, a + j)[k] = CharIn(src, (((a + i) - 1) + k) - 1)
  <2>1. (a + i) - 1 \in Nat /\ a + j \in Nat /\ (a + i) - 1 <= a + j /\ a + j <= Len(src)
        /\ (a + j) - ((a + i) - 1) = (j - i) + 1
    BY <1>1
  <2> DEFINE x == (a + i) - 1
             y == a + j
  <2> HIDE DEF x, y
  <2>2. /\ Part(src, x, y) \in Seq(Char) /\ Len(Part(src, x, y)) = y - x
        /\ \A k \in 1 .. y - x : Part(src, x, y)[k] = CharIn(src, (x + k) - 1)
    <3>1. x \in Nat /\ y \in Nat /\ x <= y /\ y <= Len(src)
      BY <2>1 DEF x, y
    <3>2. QED
      BY <3>1, PartFacts
  <2>3. QED
    BY <2>1, <2>2 DEF x, y
<1>4. /\ SubSeq(Part(src, a, b), i, j) \in Seq(Char)
      /\ Len(SubSeq(Part(src, a, b), i, j)) = (j - i) + 1
      /\ \A k \in 1 .. (j - i) + 1 :
            SubSeq(Part(src, a, b), i, j)[k] = Part(src, a, b)[(i + k) - 1]
  <2> DEFINE t == Part(src, a, b)
  <2>1. i \in Int /\ j \in Int /\ \A k \in i .. j : t[k] \in Char
    <3>1. \A k \in 1 .. Len(t) : t[k] \in Char
      BY <1>2
    <3>2. \A k \in i .. j : k \in 1 .. b - a
      OBVIOUS
    <3>3. QED
      BY <1>2, <3>1, <3>2
  <2>2. (i <= j \/ j = i - 1) /\ (j = i - 1 => (j - i) + 1 = 0)
    OBVIOUS
  <2> HIDE DEF t
  <2>3. /\ SubSeq(t, i, j) \in Seq(Char)
        /\ Len(SubSeq(t, i, j)) = IF i <= j THEN (j - i) + 1 ELSE 0
        /\ \A k \in 1 .. (j - i) + 1 : SubSeq(t, i, j)[k] = t[(i + k) - 1]
    BY <2>1, SubSeqProperties
  <2>4. QED
    BY <2>2, <2>3 DEF t
<1>5. \A k \in 1 .. (j - i) + 1 :
         Part(src, a, b)[(i + k) - 1] = CharIn(src, (((a + i) - 1) + k) - 1)
  <2>1. \A k \in 1 .. (j - i) + 1 :
           (i + k) - 1 \in 1 .. b - a /\ (a + ((i + k) - 1)) - 1 = (((a + i) - 1) + k) - 1
    OBVIOUS
  <2>2. QED
    BY <2>1, PartFacts
<1> DEFINE s == SubSeq(Part(src, a, b), i, j)
           t == Part(src, (a + i) - 1, a + j)
<1>6. /\ s \in Seq(Char) /\ t \in Seq(Char) /\ Len(s) = Len(t)
      /\ \A k \in 1 .. Len(s) : s[k] = t[k]
  BY <1>3, <1>4, <1>5
<1> HIDE DEF s, t
<1>7. s = t
  BY <1>6, SeqEqual
<1>8. QED
  BY <1>7 DEF s, t

LEMMA AllInPart ==
    ASSUME NEW src \in Seq(Char), NEW a \in Nat, NEW b \in Nat, a <= b, b <= Len(src),
           NEW class, \A k \in a .. b - 1 : CharIn(src, k) \in class
    PROVE  AllIn(Part(src, a, b), class)
<1>1. DOMAIN Part(src, a, b) = 1 .. b - a
  BY PartFacts
<1>2. \A k \in 1 .. b - a : (a + k) - 1 \in a .. b - 1
  OBVIOUS
<1>3. \A k \in 1 .. b - a : Part(src, a, b)[k] = CharIn(src, (a + k) - 1)
  BY PartFacts
<1>4. QED
  BY <1>1, <1>2, <1>3, Zenon DEF AllIn

-----------------------------------------------------------------------------
(* A text that has been cut up to p.                                       *)

Token == [kind : TokenKind, pos : Nat]

EndIn(src, ends, t) ==
    IF t.kind \in Keyword THEN RunIn(src, t.pos, WordChar)
    ELSE IF t.kind \in SizedKind THEN ends[t.pos]
    ELSE t.pos + Len(Spelling(t.kind))

(* A token that is spelled as it should be and could not have gone on.     *)
Good(src, t, end) ==
    /\ t \in Token /\ end \in Nat /\ t.pos < end /\ end <= Len(src)
    /\ IsSpelled(t, Part(src, t.pos, end))
    /\ t.kind \in PunctuationKind =>
          \A k \in PunctuationKind :
              PunctuationSpelling[t.kind] \o <<CharIn(src, end)>> # PunctuationSpelling[k]
    /\ t.kind \notin PunctuationKind =>
          /\ CharIn(src, end) \notin WordChar
          /\ CharIn(src, t.pos) \in WordChar \/ t.pos + 1 < end

Known(ends, t) == t.kind \in SizedKind => t.pos \in DOMAIN ends

Gap(src, a, b) == a <= b /\ \A k \in a .. b - 1 : CharIn(src, k) \in Space

(* A sign that is no part of the number after it is not next to it.        *)
NoSign(src, s, p) ==
    s.kind \in {"PLUS", "MINUS"} /\ s.pos + 1 = p => CharIn(src, p) \notin Digit

CutIn(src, ts, ends, p) ==
    /\ p \in 0 .. Len(src)
    /\ ts \in Seq(Token)
    /\ \A k \in 1 .. Len(ts) :
          /\ Good(src, ts[k], EndIn(src, ends, ts[k]))
          /\ Known(ends, ts[k])
          /\ EndIn(src, ends, ts[k]) <= p
          /\ \A l \in k + 1 .. Len(ts) : EndIn(src, ends, ts[k]) <= ts[l].pos
    /\ \A k \in 1 .. Len(ts) - 1 :
          /\ Gap(src, EndIn(src, ends, ts[k]), ts[k + 1].pos)
          /\ NoSign(src, ts[k], ts[k + 1].pos)
    /\ ts = << >> => Gap(src, 0, p)
    /\ ts # << >> => Gap(src, 0, ts[1].pos) /\ Gap(src, EndIn(src, ends, ts[Len(ts)]), p)

LEMMA SameEnd == \A t : TokenEnd(t) = EndIn(source, _end_pos, t)
  BY SameRun DEF TokenEnd, RangeEnd, EndIn

LEMMA GapsJoin ==
    ASSUME NEW src, NEW a \in Nat, NEW b \in Nat, NEW c \in Nat, Gap(src, a, b), Gap(src, b, c)
    PROVE  Gap(src, a, c)
<1>1. \A k \in a .. c - 1 : k \in a .. b - 1 \/ k \in b .. c - 1
  OBVIOUS
<1>2. QED
  BY <1>1 DEF Gap

LEMMA EndsAreNaturals ==
    ASSUME NEW src, NEW ts, NEW ends, NEW p, CutIn(src, ts, ends, p)
    PROVE  /\ Len(ts) \in Nat
           /\ \A k \in 1 .. Len(ts) :
                 /\ ts[k] \in Token /\ ts[k].pos \in Nat /\ EndIn(src, ends, ts[k]) \in Nat
                 /\ ts[k].pos < EndIn(src, ends, ts[k])
<1>1. \A t \in Token : t.pos \in Nat
  BY DEF Token
<1>2. ts \in Seq(Token) /\ \A k \in 1 .. Len(ts) : Good(src, ts[k], EndIn(src, ends, ts[k]))
  BY DEF CutIn
<1>3. \A t, e : Good(src, t, e) => t \in Token /\ e \in Nat /\ t.pos < e
  BY DEF Good
<1>4. Len(ts) \in Nat
  BY <1>2
<1>5. QED
  BY <1>1, <1>2, <1>3, <1>4, Zenon

(* Space may be skipped.                                                   *)
LEMMA SkipSpace ==
    ASSUME NEW src, NEW ts, NEW ends, NEW p, NEW q \in 0 .. Len(src),
           CutIn(src, ts, ends, p), Gap(src, p, q), Len(src) \in Nat
    PROVE  CutIn(src, ts, ends, q)
<1>1. p \in Nat /\ q \in Nat /\ p <= q
  BY DEF CutIn, Gap
<1>2. ts = << >> => Gap(src, 0, q)
  BY <1>1, GapsJoin DEF CutIn
<1>3. ts # << >> => Gap(src, EndIn(src, ends, ts[Len(ts)]), q)
  <2>1. ts # << >> => Len(ts) \in 1 .. Len(ts)
    BY DEF CutIn
  <2>2. ts # << >> => EndIn(src, ends, ts[Len(ts)]) \in Nat
    BY <2>1, EndsAreNaturals
  <2>3. QED
    BY <1>1, <2>2, GapsJoin DEF CutIn
<1>4. \A k \in 1 .. Len(ts) : EndIn(src, ends, ts[k]) <= q
  <2>1. \A k \in 1 .. Len(ts) : EndIn(src, ends, ts[k]) <= p /\ EndIn(src, ends, ts[k]) \in Nat
    BY EndsAreNaturals DEF CutIn
  <2>2. QED
    BY <1>1, <2>1
<1>5. QED
  BY <1>2, <1>3, <1>4 DEF CutIn

(* The last token is taken back, and the text is cut up to where it began. *)
LEMMA TakeBack ==
    ASSUME NEW src, NEW ts, NEW ends, NEW p, Len(src) \in Nat,
           CutIn(src, ts, ends, p), ts # << >>
    PROVE  CutIn(src, SubSeq(ts, 1, Len(ts) - 1), ends, ts[Len(ts)].pos)
<1> DEFINE n == Len(ts)
           us == SubSeq(ts, 1, n - 1)
           q == ts[n].pos
<1>1. /\ n \in Nat \ {0} /\ ts \in Seq(Token) /\ n \in 1 .. n
      /\ p \in 0 .. Len(src)
  BY DEF CutIn
<1>2. /\ us \in Seq(Token) /\ Len(us) = n - 1
      /\ \A k \in 1 .. n - 1 : us[k] = ts[k] /\ k \in 1 .. n /\ n \in k + 1 .. n
  <2>1. /\ 1 \in Int /\ n - 1 \in Int /\ \A k \in 1 .. n - 1 : ts[k] \in Token
    BY <1>1
  <2>2. (1 <= n - 1 \/ n - 1 = 0) /\ ((n - 1) - 1) + 1 = n - 1
    <3>1. n \in Nat \ {0}
      BY <1>1
    <3> HIDE DEF n
    <3>2. QED
      BY <3>1
  <2>3. /\ us \in Seq(Token) /\ Len(us) = IF 1 <= n - 1 THEN ((n - 1) - 1) + 1 ELSE 0
        /\ \A k \in 1 .. ((n - 1) - 1) + 1 : us[k] = ts[(1 + k) - 1]
    BY <2>1, SubSeqProperties
  <2>4. \A k \in 1 .. n - 1 : (1 + k) - 1 = k /\ k \in 1 .. n /\ n \in k + 1 .. n
    BY <1>1
  <2> HIDE DEF us, n
  <2>5. QED
    BY <2>2, <2>3, <2>4
<1>3. q \in 0 .. Len(src)
  <2>1. q \in Nat /\ EndIn(src, ends, ts[n]) \in Nat /\ q < EndIn(src, ends, ts[n])
    BY <1>1, EndsAreNaturals
  <2>2. EndIn(src, ends, ts[n]) <= p
    BY <1>1 DEF CutIn
  <2>3. QED
    BY <1>1, <2>1, <2>2
<1>4. \A k \in 1 .. n - 1 :
          /\ Good(src, ts[k], EndIn(src, ends, ts[k]))
          /\ Known(ends, ts[k])
          /\ EndIn(src, ends, ts[k]) <= q
          /\ \A l \in k + 1 .. n - 1 : EndIn(src, ends, ts[k]) <= ts[l].pos
  <2>1. \A k \in 1 .. n - 1 : \A l \in k + 1 .. n - 1 : l \in k + 1 .. n
    BY <1>1
  <2>2. QED
    BY <1>1, <1>2, <2>1 DEF CutIn
<1>5. \A k \in 1 .. (n - 1) - 1 :
          /\ Gap(src, EndIn(src, ends, ts[k]), ts[k + 1].pos)
          /\ NoSign(src, ts[k], ts[k + 1].pos)
          /\ us[k] = ts[k] /\ us[k + 1] = ts[k + 1]
  <2>1. \A k \in 1 .. (n - 1) - 1 : k \in 1 .. n - 1 /\ k + 1 \in 1 .. n - 1
    BY <1>1
  <2>2. QED
    BY <1>1, <1>2, <2>1 DEF CutIn
<1>6. \A k \in 1 .. n - 1 : \A l \in k + 1 .. n - 1 : us[l] = ts[l]
  <2>1. \A k \in 1 .. n - 1 : \A l \in k + 1 .. n - 1 : l \in 1 .. n - 1
    BY <1>1
  <2>2. QED
    BY <1>2, <2>1
<1>7. us = << >> => Gap(src, 0, q)
  <2>1. us = << >> => n = 1
    <3>1. us = << >> => Len(us) = 0
      <4> HIDE DEF us
      <4>1. QED
        OBVIOUS
    <3>2. Len(us) = n - 1 /\ n \in Nat
      BY <1>1, <1>2
    <3> HIDE DEF us, n
    <3>3. QED
      BY <3>1, <3>2
  <2>2. Gap(src, 0, ts[1].pos)
    BY DEF CutIn
  <2>3. QED
    BY <2>1, <2>2
<1>8. us # << >> => Gap(src, 0, us[1].pos) /\ Gap(src, EndIn(src, ends, us[n - 1]), q)
  <2>1. us # << >> => n - 1 \in 1 .. n - 1 /\ 1 \in 1 .. n - 1 /\ (n - 1) + 1 = n
    BY <1>1, <1>2
  <2>2. Gap(src, 0, ts[1].pos)
    BY DEF CutIn
  <2>3. \A k \in 1 .. n - 1 : Gap(src, EndIn(src, ends, ts[k]), ts[k + 1].pos)
    BY DEF CutIn
  <2>4. QED
    BY <1>2, <2>1, <2>2, <2>3
<1> HIDE DEF n, us, q
<1>9. CutIn(src, us, ends, q)
  BY <1>2, <1>3, <1>4, <1>5, <1>6, <1>7, <1>8 DEF CutIn
<1>10. QED
  BY <1>9 DEF us, q, n

(* One more token, from where the text was cut up to.                      *)
LEMMA OneMore ==
    ASSUME NEW src, NEW ts, NEW ends, NEW p, NEW ends2, NEW t, NEW end, Len(src) \in Nat,
           CutIn(src, ts, ends, p), t.pos = p, Good(src, t, end),
           Known(ends2, t), EndIn(src, ends2, t) = end,
           \A x \in DOMAIN ends : x # p => x \in DOMAIN ends2 /\ ends2[x] = ends[x],
           ts # << >> => NoSign(src, ts[Len(ts)], p)
    PROVE  CutIn(src, Append(ts, t), ends2, end)
<1> DEFINE n == Len(ts)
           us == Append(ts, t)
           E(k) == EndIn(src, ends, ts[k])
<1>1. /\ n \in Nat /\ ts \in Seq(Token) /\ p \in 0 .. Len(src)
      /\ t \in Token /\ end \in 0 .. Len(src) /\ p < end
  BY EndsAreNaturals DEF CutIn, Good
<1>2. /\ us \in Seq(Token) /\ Len(us) = n + 1 /\ us # << >>
      /\ \A k \in 1 .. n : us[k] = ts[k] /\ k \in 1 .. n + 1
      /\ us[n + 1] = t
  BY <1>1, AppendProperties
<1>3. \A k \in 1 .. n : ts[k].pos < p /\ E(k) <= p /\ E(k) \in Nat /\ ts[k].pos \in Nat
  <2>1. \A k \in 1 .. n : /\ ts[k].pos \in Nat /\ E(k) \in Nat /\ ts[k].pos < E(k)
    BY EndsAreNaturals
  <2>2. \A k \in 1 .. n : E(k) <= p
    BY DEF CutIn
  <2> HIDE DEF E, n
  <2>3. QED
    BY <1>1, <2>1, <2>2
<1>4. \A k \in 1 .. n : EndIn(src, ends2, ts[k]) = E(k) /\ Known(ends2, ts[k])
  <2>1. ASSUME NEW k \in 1 .. n PROVE EndIn(src, ends2, ts[k]) = E(k) /\ Known(ends2, ts[k])
    <3>1. Known(ends, ts[k]) /\ ts[k].pos # p
      BY <1>1, <1>3 DEF CutIn
    <3>2. QED
      BY <3>1 DEF Known, EndIn
  <2>2. QED
    BY <2>1
<1>5. /\ \A k \in 1 .. n :
            /\ Good(src, us[k], EndIn(src, ends2, us[k]))
            /\ Known(ends2, us[k])
            /\ EndIn(src, ends2, us[k]) <= end
            /\ \A l \in k + 1 .. n + 1 : EndIn(src, ends2, us[k]) <= us[l].pos
  <2>1. ASSUME NEW k \in 1 .. n
        PROVE  /\ Good(src, us[k], EndIn(src, ends2, us[k]))
               /\ Known(ends2, us[k])
               /\ EndIn(src, ends2, us[k]) <= end
               /\ \A l \in k + 1 .. n + 1 : EndIn(src, ends2, us[k]) <= us[l].pos
    <3>1. us[k] = ts[k] /\ EndIn(src, ends2, us[k]) = E(k) /\ Known(ends2, us[k])
      BY <1>2, <1>4
    <3>2. Good(src, ts[k], E(k))
      BY DEF CutIn
    <3>3. E(k) <= end
      BY <1>1, <1>3
    <3>4. ASSUME NEW l \in k + 1 .. n + 1 PROVE E(k) <= us[l].pos
      <4>1. CASE l = n + 1
        <5>1. us[l].pos = p
          BY <4>1, <1>2
        <5>2. QED
          BY <5>1, <1>3
      <4>2. CASE l # n + 1
        <5>1. l \in k + 1 .. n /\ l \in 1 .. n
          BY <4>2, <1>1
        <5>2. E(k) <= ts[l].pos
          BY <5>1 DEF CutIn
        <5>3. QED
          BY <5>1, <5>2, <1>2
      <4>3. QED
        BY <4>1, <4>2
    <3> HIDE DEF us, E
    <3>5. QED
      BY <3>1, <3>2, <3>3, <3>4
  <2> HIDE DEF us
  <2>2. QED
    BY <2>1
<1>6. /\ Good(src, us[n + 1], EndIn(src, ends2, us[n + 1]))
      /\ Known(ends2, us[n + 1])
      /\ EndIn(src, ends2, us[n + 1]) = end
  <2> HIDE DEF us
  <2>1. QED
    BY <1>2
<1>7. \A k \in 1 .. n + 1 :
          /\ Good(src, us[k], EndIn(src, ends2, us[k]))
          /\ Known(ends2, us[k])
          /\ EndIn(src, ends2, us[k]) <= end
          /\ \A l \in k + 1 .. n + 1 : EndIn(src, ends2, us[k]) <= us[l].pos
  <2>1. \A l \in (n + 1) + 1 .. n + 1 : FALSE
    BY <1>1
  <2>2. \A k \in 1 .. n + 1 : k \in 1 .. n \/ k = n + 1
    BY <1>1
  <2>3. end <= end
    BY <1>1
  <2> HIDE DEF us, n
  <2>4. QED
    BY <1>5, <1>6, <2>1, <2>2, <2>3, Zenon
<1>8. \A k \in 1 .. n :
          /\ Gap(src, EndIn(src, ends2, us[k]), us[k + 1].pos)
          /\ NoSign(src, us[k], us[k + 1].pos)
  <2>1. ASSUME NEW k \in 1 .. n
        PROVE  /\ Gap(src, EndIn(src, ends2, us[k]), us[k + 1].pos)
               /\ NoSign(src, us[k], us[k + 1].pos)
    <3>1. us[k] = ts[k] /\ EndIn(src, ends2, us[k]) = E(k)
      BY <1>2, <1>4
    <3>2. CASE k = n
      <4>1. ts # << >> /\ us[k + 1].pos = p
        BY <1>2, <3>2
      <4>2. Gap(src, E(n), p)
        BY <4>1 DEF CutIn
      <4> HIDE DEF us, E
      <4>3. QED
        BY <3>1, <3>2, <4>1, <4>2
    <3>3. CASE k # n
      <4>1. k \in 1 .. n - 1 /\ k + 1 \in 1 .. n
        BY <1>1, <3>3
      <4>2. Gap(src, E(k), ts[k + 1].pos) /\ NoSign(src, ts[k], ts[k + 1].pos)
        BY <4>1 DEF CutIn
      <4>3. us[k + 1] = ts[k + 1]
        BY <1>2, <4>1
      <4> HIDE DEF us, E
      <4>4. QED
        BY <3>1, <4>2, <4>3
    <3>4. QED
      BY <3>2, <3>3
  <2> HIDE DEF us
  <2>2. QED
    BY <2>1
<1>9. Gap(src, 0, us[1].pos)
  <2>1. CASE ts = << >>
    <3>1. n = 0 /\ us[1].pos = p /\ Gap(src, 0, p)
      BY <2>1, <1>2 DEF CutIn
    <3>2. QED
      BY <3>1
  <2>2. CASE ts # << >>
    <3>1. Gap(src, 0, ts[1].pos) /\ 1 \in 1 .. n
      BY <1>1, <2>2 DEF CutIn
    <3>2. us[1] = ts[1]
      BY <3>1, <1>2
    <3> HIDE DEF us
    <3>3. QED
      BY <3>1, <3>2
  <2>3. QED
    BY <2>1, <2>2
<1>10. Gap(src, end, end)
  BY <1>1 DEF Gap
<1>11. Len(us) - 1 = n
  <2> HIDE DEF us, n
  <2>1. QED
    BY <1>1, <1>2
<1> HIDE DEF us, n
<1>12. CutIn(src, us, ends2, end)
  BY <1>1, <1>2, <1>6, <1>7, <1>8, <1>9, <1>10, <1>11 DEF CutIn
<1>13. QED
  BY <1>12 DEF us

-----------------------------------------------------------------------------
(* Words.                                                                  *)

LEMMA KeywordForFacts ==
    ASSUME NEW word \in Seq(Char)
    PROVE  \/ KeywordFor(word) = "IDENTIFIER" /\ \A k \in Keyword : ~Abbreviates(word, k)
           \/ KeywordFor(word) \in Keyword /\ Abbreviates(word, KeywordFor(word))
<1> DEFINE fits == {n \in DOMAIN KeywordOrder : Abbreviates(word, KeywordOrder[n])}
<1>1. KeywordFor(word) = IF fits = {} THEN "IDENTIFIER"
                         ELSE KeywordOrder[CHOOSE k \in fits : \A l \in fits : k <= l]
  BY DEF KeywordFor
<1>2. CASE fits = {}
  <2>1. \A k \in Keyword : \E n \in DOMAIN KeywordOrder : KeywordOrder[n] = k
    BY KeywordFacts
  <2>2. \A k \in Keyword : ~Abbreviates(word, k)
    BY <1>2, <2>1
  <2>3. QED
    BY <1>1, <1>2, <2>2
<1>3. CASE fits # {}
  <2>1. fits \subseteq 1 .. 7
    BY KeywordFacts
  <2>2. PICK n \in fits : \A l \in fits : ~(l < n)
    <3>1. fits \subseteq Nat
      BY <2>1
    <3> HIDE DEF fits
    <3>2. QED
      BY <1>3, <3>1, LeastElement
  <2>3. \A l \in fits : n <= l
    BY <2>1, <2>2
  <2> DEFINE m == CHOOSE k \in fits : \A l \in fits : k <= l
  <2>4. m \in fits
    <3> HIDE DEF fits
    <3>1. QED
      BY <2>3
  <2>5. KeywordFor(word) = KeywordOrder[m]
    BY <1>1, <1>3
  <2>6. Abbreviates(word, KeywordOrder[m]) /\ m \in 1 .. 7
    BY <2>1, <2>4
  <2> HIDE DEF m, fits
  <2>7. KeywordOrder[m] \in Keyword
    BY <2>6, KeywordFacts
  <2>8. QED
    BY <2>5, <2>6, <2>7
<1>4. QED
  BY <1>2, <1>3

(* What a word begins with.                                                *)
Opening == Letter \union {"_"}

LEMMA OpeningFacts == Opening \subseteq WordChar /\ Opening \intersect Digit = {}
  BY Alphabet, Zenon DEF Opening

(* How a token of each kind should be spelled.                             *)
LEMMA SpelledFacts ==
    \A t, word :
        /\ t.kind = "IDENTIFIER" =>
              (IsSpelled(t, word) <=>
                  /\ AllIn(word, WordChar) /\ word[1] \notin Digit
                  /\ \A k \in Keyword : word # Spelling(k))
        /\ t.kind = "INTEGER" => (IsSpelled(t, word) <=> IsExponent(word))
        /\ t.kind = "FLOAT" => (IsSpelled(t, word) <=> IsReal(Unsigned(word)))
        /\ t.kind \in Keyword => (IsSpelled(t, word) <=> IsPrefix(word, Spelling(t.kind)))
        /\ t.kind \in PunctuationKind =>
              (IsSpelled(t, word) <=> word = PunctuationSpelling[t.kind])
<1>1. /\ \A k \in Keyword : k # "IDENTIFIER" /\ k # "INTEGER" /\ k # "FLOAT"
      /\ \A k \in PunctuationKind : /\ k # "IDENTIFIER" /\ k # "INTEGER" /\ k # "FLOAT"
                                   /\ k \notin Keyword
  BY KindFacts DEF SizedKind
<1>2. "IDENTIFIER" # "INTEGER" /\ "IDENTIFIER" # "FLOAT" /\ "INTEGER" # "FLOAT"
  OBVIOUS
<1>3. \A k : k \notin Keyword => Spelling(k) = PunctuationSpelling[k]
  BY DEF Spelling
<1>4. ASSUME NEW t, NEW word, t.kind = "IDENTIFIER"
      PROVE  IsSpelled(t, word) <=>
                  /\ AllIn(word, WordChar) /\ word[1] \notin Digit
                  /\ \A k \in Keyword : word # Spelling(k)
  BY <1>4, <1>1, Zenon DEF IsSpelled
<1>5. ASSUME NEW t, NEW word, t.kind = "INTEGER" PROVE IsSpelled(t, word) <=> IsExponent(word)
  BY <1>5, <1>1, <1>2, Zenon DEF IsSpelled
<1>6. ASSUME NEW t, NEW word, t.kind = "FLOAT" PROVE IsSpelled(t, word) <=> IsReal(Unsigned(word))
  BY <1>6, <1>1, <1>2, Zenon DEF IsSpelled
<1>7. ASSUME NEW t, NEW word, t.kind \in Keyword
      PROVE  IsSpelled(t, word) <=> IsPrefix(word, Spelling(t.kind))
  BY <1>7, <1>1, Zenon DEF IsSpelled
<1>8. ASSUME NEW t, NEW word, t.kind \in PunctuationKind
      PROVE  IsSpelled(t, word) <=> word = PunctuationSpelling[t.kind]
  BY <1>8, <1>1, <1>3, Zenon DEF IsSpelled
<1>9. QED
  BY <1>4, <1>5, <1>6, <1>7, <1>8, Zenon

LEMMA WordIsGood ==
    ASSUME NEW src \in Seq(Char), NEW p \in 0 .. Len(src),
           CharIn(src, p) \in Opening,
           NEW end \in Nat, end = RunIn(src, p, WordChar),
           NEW kind, kind = KeywordFor(Part(src, p, end))
    PROVE  /\ kind \in Keyword \union {"IDENTIFIER"}
           /\ Good(src, TokenAt(kind, p), end)
           /\ CharIn(src, p) \notin Digit
<1> DEFINE word == Part(src, p, end)
<1>1. CharIn(src, p) \in WordChar /\ CharIn(src, p) \notin Digit
  BY OpeningFacts
<1>2. /\ p \in Nat /\ end \in p + 1 .. Len(src) /\ Len(src) \in Nat
      /\ CharIn(src, end) \notin WordChar
      /\ \A k \in p .. end - 1 : CharIn(src, k) \in WordChar
  <2>1. WordChar \subseteq Char
    BY Alphabet
  <2>2. RunIn(src, p, WordChar) \in p + 1 .. Len(src)
    BY <1>1, <2>1, RunBegins
  <2>3. /\ CharIn(src, RunIn(src, p, WordChar)) \notin WordChar
        /\ \A k \in p .. RunIn(src, p, WordChar) - 1 : CharIn(src, k) \in WordChar
    BY <2>1, RunFacts
  <2>4. Len(src) \in Nat /\ p \in Nat
    BY CharFacts
  <2>5. QED
    BY <2>2, <2>3, <2>4, Zenon
<1>3. end \in Nat /\ p < end /\ end <= Len(src) /\ p <= end
  BY <1>2
<1>4. /\ word \in Seq(Char) /\ Len(word) = end - p
      /\ \A k \in 1 .. end - p : word[k] = CharIn(src, (p + k) - 1)
  BY <1>2, <1>3, PartFacts
<1>5. AllIn(word, WordChar)
  BY <1>2, <1>3, AllInPart
<1>6. word[1] = CharIn(src, p)
  <2>1. 1 \in 1 .. end - p /\ (p + 1) - 1 = p
    BY <1>2
  <2>2. QED
    BY <1>4, <2>1
<1> HIDE DEF word
<1>7. \/ kind = "IDENTIFIER" /\ \A k \in Keyword : ~Abbreviates(word, k)
      \/ kind \in Keyword /\ Abbreviates(word, kind)
  BY <1>4, KeywordForFacts DEF word
<1>8. ASSUME NEW k \in Keyword, word = KeywordSpelling[k] PROVE Abbreviates(word, k)
  <2>1. SubSeq(word, 1, Len(word)) = word
    BY <1>4, SubSeqFull
  <2>2. Len(word) <= Len(word)
    BY <1>2, <1>4
  <2>3. QED
    BY <1>8, <2>1, <2>2 DEF Abbreviates
<1>9. TokenAt(kind, p).kind = kind /\ TokenAt(kind, p).pos = p
  BY DEF TokenAt
<1>10. kind \notin PunctuationKind /\ kind \in TokenKind
  BY <1>7, KindFacts DEF SizedKind, TokenKind
<1>11. IsSpelled(TokenAt(kind, p), word)
  <2>1. CASE kind = "IDENTIFIER"
    <3>1. \A k \in Keyword : word # Spelling(k)
      BY <2>1, <1>7, <1>8, KindFacts DEF Spelling, SizedKind
    <3>2. QED
      BY <2>1, <3>1, <1>1, <1>5, <1>6, <1>9, SpelledFacts
  <2>2. CASE kind \in Keyword
    <3>1. kind \notin {"IDENTIFIER", "INTEGER", "FLOAT"}
      BY <2>2, KindFacts DEF SizedKind
    <3>2. SubSeq(word, 1, Len(word)) = word
      BY <1>4, SubSeqFull
    <3>3. Abbreviates(word, kind)
      BY <2>2, <3>1, <1>7
    <3>4. IsPrefix(word, Spelling(kind))
      BY <2>2, <3>2, <3>3 DEF IsPrefix, Abbreviates, Spelling
    <3>5. QED
      BY <2>2, <3>4, <1>9, SpelledFacts
  <2>3. QED
    BY <2>1, <2>2, <1>7
<1>12. TokenAt(kind, p) \in Token
  BY <1>10, <1>2 DEF TokenAt, Token
<1>13. Good(src, TokenAt(kind, p), end)
  BY <1>1, <1>2, <1>3, <1>9, <1>10, <1>11, <1>12 DEF Good, word
<1>14. QED
  BY <1>1, <1>7, <1>13

-----------------------------------------------------------------------------
(* Punctuation.                                                            *)

IsIn(src, p, spelling) == \A k \in DOMAIN spelling : CharIn(src, p + k - 1) = spelling[k]

LEMMA SameIs == \A p, spelling : IsAt(p, spelling) <=> IsIn(source, p, spelling)
  BY Zenon DEF IsAt, IsIn, CharAt, CharIn

(* Where it is said to be it is, and inside the text.                      *)
LEMMA IsInFacts ==
    ASSUME NEW src \in Seq(Char), NEW p \in Nat, NEW spelling \in Seq(Punctuation),
           Len(spelling) \in {1, 2}
    PROVE  IsIn(src, p, spelling) <=>
              p + Len(spelling) <= Len(src) /\ Part(src, p, p + Len(spelling)) = spelling
<1> DEFINE n == Len(spelling)
<1>1. /\ n \in Nat /\ n >= 1 /\ DOMAIN spelling = 1 .. n /\ Len(src) \in Nat
      /\ \A k \in 1 .. n : spelling[k] \in Punctuation
  <2>1. Len(src) \in Nat
    BY CharFacts
  <2>2. n \in Nat /\ n >= 1 /\ DOMAIN spelling = 1 .. n
    <3>1. n \in Nat /\ DOMAIN spelling = 1 .. n
      OBVIOUS
    <3>2. n = 1 \/ n = 2
      OBVIOUS
    <3> HIDE DEF n
    <3>3. QED
      BY <3>1, <3>2
  <2>3. \A k \in 1 .. n : spelling[k] \in Punctuation
    OBVIOUS
  <2>4. QED
    BY <2>1, <2>2, <2>3
<1>2. IsIn(src, p, spelling) <=> \A k \in 1 .. n : CharIn(src, (p + k) - 1) = spelling[k]
  <2>1. \A k \in 1 .. n : p + k - 1 = (p + k) - 1
    BY <1>1
  <2>2. \A k \in 1 .. n : CharIn(src, p + k - 1) = CharIn(src, (p + k) - 1)
    BY <2>1
  <2>3. QED
    BY <1>1, <2>2, Zenon DEF IsIn
<1>3. ASSUME IsIn(src, p, spelling)
      PROVE  p + n <= Len(src) /\ Part(src, p, p + n) = spelling
  <2>1. p + n <= Len(src)
    <3>1. n \in 1 .. n /\ (p + n) - 1 \in Nat
      BY <1>1
    <3>2. CharIn(src, (p + n) - 1) \in Char
      BY <1>2, <1>1, <1>3, <3>1, Alphabet
    <3>3. (p + n) - 1 < Len(src)
      BY <3>1, <3>2, CharFacts
    <3>4. QED
      BY <1>1, <3>3
  <2>2. p + n \in Nat /\ p <= p + n /\ (p + n) - p = n
    BY <1>1
  <2> DEFINE q == p + n
  <2> HIDE DEF q
  <2>3. /\ Part(src, p, q) \in Seq(Char) /\ Len(Part(src, p, q)) = q - p
        /\ \A k \in 1 .. q - p : Part(src, p, q)[k] = CharIn(src, (p + k) - 1)
    <3>1. q \in Nat /\ p <= q /\ q <= Len(src)
      BY <2>1, <2>2 DEF q
    <3>2. QED
      BY <3>1, PartFacts
  <2>4. \A k \in 1 .. n : CharIn(src, (p + k) - 1) = spelling[k]
    BY <1>2, <1>3
  <2>5. spelling \in Seq(Char)
    <3>1. Punctuation \subseteq Char
      BY Alphabet
    <3>2. \A k \in 1 .. n : spelling[k] \in Char
      BY <1>1, <3>1
    <3>3. spelling \in [1 .. n -> Char]
      BY <1>1, <3>2
    <3>4. QED
      BY <1>1, <3>3
  <2> DEFINE w == Part(src, p, q)
  <2>6. w \in Seq(Char) /\ Len(w) = n /\ \A k \in 1 .. n : w[k] = spelling[k]
    BY <2>2, <2>3, <2>4 DEF q
  <2> HIDE DEF w
  <2>7. w = spelling
    BY <2>5, <2>6, SeqEqual
  <2>8. QED
    BY <2>1, <2>7 DEF w, q
<1>4. ASSUME p + n <= Len(src), Part(src, p, p + n) = spelling
      PROVE  IsIn(src, p, spelling)
  <2> DEFINE q == p + n
  <2>1. q \in Nat /\ p <= q /\ q <= Len(src) /\ q - p = n
    BY <1>1, <1>4
  <2> HIDE DEF q, n
  <2>2. \A k \in 1 .. q - p : Part(src, p, q)[k] = CharIn(src, (p + k) - 1)
    BY <2>1, PartFacts
  <2>3. QED
    BY <1>2, <1>1, <1>4, <2>1, <2>2 DEF q
<1>5. QED
  BY <1>3, <1>4

LEMMA LongestFacts ==
    ASSUME NEW kinds, kinds \subseteq PunctuationKind, kinds # {}
    PROVE  /\ Longest(kinds) \in kinds
           /\ \A k \in kinds :
                 Len(PunctuationSpelling[k]) <= Len(PunctuationSpelling[Longest(kinds)])
<1>1. \A k \in kinds : Len(PunctuationSpelling[k]) \in {1, 2}
  BY PunctuationFacts
<1>2. \E kind \in kinds :
         \A k \in kinds : Len(PunctuationSpelling[k]) <= Len(PunctuationSpelling[kind])
  <2> DEFINE L(k) == Len(PunctuationSpelling[k])
  <2>1. \A k \in kinds : L(k) = 1 \/ L(k) = 2
    BY <1>1
  <2>2. PICK k1 \in kinds : TRUE
    OBVIOUS
  <2> HIDE DEF L
  <2>3. CASE \E k \in kinds : L(k) = 2
    <3>1. PICK k2 \in kinds : L(k2) = 2
      BY <2>3
    <3>2. \A k \in kinds : L(k) <= L(k2)
      BY <2>1, <3>1
    <3>3. QED
      BY <3>2 DEF L
  <2>4. CASE ~\E k \in kinds : L(k) = 2
    <3>1. \A k \in kinds : L(k) <= L(k1)
      BY <2>1, <2>2, <2>4
    <3>2. QED
      BY <2>2, <3>1 DEF L
  <2>5. QED
    BY <2>3, <2>4
<1>3. QED
  BY <1>2 DEF Longest

(* The longest mark there is could not have gone on.                       *)
LEMMA MarkIsGood ==
    ASSUME NEW src \in Seq(Char), NEW p \in 0 .. Len(src),
           NEW kinds, kinds = {k \in PunctuationKind : IsIn(src, p, PunctuationSpelling[k])},
           kinds # {},
           NEW kind, kind = Longest(kinds),
           NEW end, end = p + Len(PunctuationSpelling[kind])
    PROVE  /\ kind \in PunctuationKind
           /\ Good(src, TokenAt(kind, p), end)
<1> DEFINE sp == PunctuationSpelling[kind]
           n == Len(sp)
           c == CharIn(src, end)
<1>1. /\ kind \in kinds /\ kind \in PunctuationKind
      /\ \A k \in kinds : Len(PunctuationSpelling[k]) <= n
  BY LongestFacts
<1>2. /\ sp \in Seq(Punctuation) /\ n \in {1, 2} /\ IsIn(src, p, sp)
      /\ n \in Nat /\ p \in Nat /\ Len(src) \in Nat
  BY <1>1, PunctuationFacts, CharFacts
<1>3. end = p + n /\ end \in Nat /\ p < end
  <2>1. n = 1 \/ n = 2
    BY <1>2
  <2>2. end = p + n
    OBVIOUS
  <2> HIDE DEF n
  <2>3. QED
    BY <1>2, <2>1, <2>2
<1>4. end <= Len(src) /\ Part(src, p, end) = sp
  <2> HIDE DEF sp
  <2>1. p + Len(sp) <= Len(src) /\ Part(src, p, p + Len(sp)) = sp
    BY <1>2, IsInFacts
  <2>2. QED
    BY <1>3, <2>1
<1>5. ASSUME NEW k \in PunctuationKind, sp \o <<c>> = PunctuationSpelling[k] PROVE FALSE
  <2> DEFINE sk == PunctuationSpelling[k]
             S == Punctuation \union {c}
  <2>1. sp \in Seq(S) /\ c \in S
    <3>1. Punctuation \subseteq S
      OBVIOUS
    <3>2. \A j \in 1 .. Len(sp) : sp[j] \in Punctuation
      BY <1>2
    <3> HIDE DEF S, sp
    <3>3. sp \in [1 .. Len(sp) -> S]
      <4>1. DOMAIN sp = 1 .. Len(sp) /\ sp = [j \in 1 .. Len(sp) |-> sp[j]]
        BY <1>2
      <4>2. QED
        BY <4>1, <3>1, <3>2
    <3>4. QED
      BY <3>3, <1>2 DEF n, S
  <2> HIDE DEF S, sp, c
  <2>2. Append(sp, c) = sk
    BY <2>1, <1>5, AppendIsConcat DEF sp
  <2>3. /\ Len(Append(sp, c)) = Len(sp) + 1
        /\ \A j \in 1 .. Len(sp) : Append(sp, c)[j] = sp[j]
        /\ Append(sp, c)[Len(sp) + 1] = c
    BY <2>1, AppendProperties
  <2> HIDE DEF sk
  <2>4. Len(sk) = n + 1 /\ (\A j \in 1 .. n : sk[j] = sp[j]) /\ sk[n + 1] = c
    BY <2>2, <2>3
  <2>5. sk \in Seq(Punctuation) /\ DOMAIN sk = 1 .. n + 1
    <3>1. sk \in Seq(Punctuation)
      BY <1>5, PunctuationFacts DEF sk
    <3>2. QED
      BY <3>1, <2>4
  <2>6. \A j \in 1 .. n : CharIn(src, p + j - 1) = sp[j]
    BY <1>2 DEF IsIn
  <2>7. CharIn(src, p + (n + 1) - 1) = c
    <3>1. p + (n + 1) - 1 = p + n
      BY <1>2
    <3>2. QED
      BY <3>1, <1>3 DEF c
  <2>8. IsIn(src, p, sk)
    <3>1. ASSUME NEW j \in 1 .. n + 1 PROVE CharIn(src, p + j - 1) = sk[j]
      <4>1. CASE j = n + 1
        BY <4>1, <2>4, <2>7
      <4>2. CASE j # n + 1
        <5>1. j \in 1 .. n
          BY <4>2, <1>2
        <5>2. QED
          BY <5>1, <2>4, <2>6
      <4>3. QED
        BY <4>1, <4>2
    <3>2. QED
      BY <3>1, <2>5 DEF IsIn
  <2>9. k \in kinds
    BY <2>8, <1>5 DEF sk
  <2>10. Len(sk) <= n
    BY <1>1, <2>9 DEF sk
  <2>11. QED
    BY <2>4, <2>10, <1>2
<1>6. TokenAt(kind, p).kind = kind /\ TokenAt(kind, p).pos = p
  BY DEF TokenAt
<1>7. IsSpelled(TokenAt(kind, p), Part(src, p, end))
  BY <1>1, <1>4, <1>6, SpelledFacts
<1>8. TokenAt(kind, p) \in Token
  BY <1>1, <1>2 DEF TokenAt, Token, TokenKind
<1> HIDE DEF sp, n, c
<1>9. Good(src, TokenAt(kind, p), end)
  BY <1>1, <1>3, <1>4, <1>5, <1>6, <1>7, <1>8 DEF Good, sp, c
<1>10. QED
  BY <1>1, <1>9

-----------------------------------------------------------------------------
(* Numbers.                                                                *)

Digital(src, a, b) == a < b /\ b <= Len(src) /\ \A k \in a .. b - 1 : CharIn(src, k) \in Digit

Classless(src, a, b) == \E k \in a .. b - 1 : CharIn(src, k) = "ctl"

(* Whole digits end at w, a fraction at r, an exponent at x.               *)
Shape(src, p, w, r, x) ==
    /\ w \in Nat /\ r \in Nat /\ x \in Nat /\ x <= Len(src)
    /\ Digital(src, p, w)
    /\ \/ r = w
       \/ CharIn(src, w) = "." /\ Digital(src, w + 1, r)
    /\ \/ x = r /\ CharIn(src, r) # "e"
       \/ /\ CharIn(src, r) = "e"
          /\ \E d \in {r + 1, r + 2} :
                /\ d = r + 2 => CharIn(src, r + 1) \in {"+", "-"}
                /\ Digital(src, d, x)

LEMMA SymbolFacts ==
    /\ "." \notin WordChar /\ "." \in Punctuation /\ "." \in Char /\ "." \notin Space
    /\ "+" \notin WordChar /\ "+" \in Punctuation /\ "-" \notin WordChar /\ "-" \in Punctuation
    /\ "e" \in WordChar /\ "e" \notin Digit /\ "." # "e"
    /\ "." # "ctl" /\ "e" # "ctl" /\ "+" # "ctl" /\ "-" # "ctl"
    /\ Digit \subseteq WordChar /\ WordChar \subseteq Char /\ Digit \subseteq Char
    /\ "ctl" \notin WordChar /\ "ctl" \notin Digit
  BY Alphabet, Zenon DEF Digit, Letter

(* Digits end in the text, whatever comes after them.                      *)
LEMMA DigitsEnd ==
    ASSUME NEW src \in Seq(Char), NEW p \in 0 .. Len(src)
    PROVE  /\ RunIn(src, p, Digit) \in p .. Len(src)
           /\ CharIn(src, p) \in Digit => Digital(src, p, RunIn(src, p, Digit))
           /\ CharIn(src, p) \notin Digit => RunIn(src, p, Digit) = p
           /\ CharIn(src, RunIn(src, p, Digit)) \notin Digit
           /\ ~Classless(src, p, RunIn(src, p, Digit))
<1>1. Digit \subseteq Char /\ "ctl" \notin Digit /\ Len(src) \in Nat
  BY SymbolFacts, CharFacts
<1>2. /\ RunIn(src, p, Digit) \in p .. Len(src)
      /\ CharIn(src, RunIn(src, p, Digit)) \notin Digit
      /\ \A k \in p .. RunIn(src, p, Digit) - 1 : CharIn(src, k) \in Digit
  BY <1>1, RunFacts
<1>3. /\ CharIn(src, p) \in Digit => RunIn(src, p, Digit) \in p + 1 .. Len(src)
      /\ CharIn(src, p) \notin Digit => RunIn(src, p, Digit) = p
  BY <1>1, RunBegins
<1> DEFINE q == RunIn(src, p, Digit)
<1> HIDE DEF q
<1>4. CharIn(src, p) \in Digit => p < q /\ q <= Len(src)
  BY <1>1, <1>3 DEF q
<1>5. QED
  BY <1>1, <1>2, <1>3, <1>4 DEF Digital, Classless, q

(* A character before the end of a text.                                   *)
LEMMA CharInside ==
    ASSUME NEW src \in Seq(Char), NEW p \in 0 .. Len(src), CharIn(src, p) \in Char
    PROVE  p < Len(src) /\ p + 1 \in 0 .. Len(src)
<1>1. p \in Nat /\ Len(src) \in Nat /\ p < Len(src)
  BY CharFacts
<1>2. QED
  BY <1>1

LEMMA NoneJoin ==
    ASSUME NEW src, NEW a \in Int, NEW b \in Int, NEW c \in Int,
           ~Classless(src, a, b), ~Classless(src, b, c)
    PROVE  ~Classless(src, a, c)
<1>1. \A k \in a .. c - 1 : k \in a .. b - 1 \/ k \in b .. c - 1
  OBVIOUS
<1>2. QED
  BY <1>1 DEF Classless

LEMMA OneIsNone ==
    ASSUME NEW src, NEW a \in Int, CharIn(src, a) # "ctl"
    PROVE  ~Classless(src, a, a + 1)
<1>1. \A k \in a .. (a + 1) - 1 : k = a
  OBVIOUS
<1>2. QED
  BY <1>1 DEF Classless

LEMMA FractionFacts ==
    ASSUME source \in Seq(Char), NEW w \in 0 .. Len(source), NEW r, r = FractionEnd(w)
    PROVE  /\ r \in w .. Len(source)
           /\ ~Classless(source, w, r)
           /\ r = w \/ (CharIn(source, w) = "." /\ Digital(source, w + 1, r))
<1>1. w \in Nat /\ w \in Int /\ Len(source) \in Nat /\ w + 1 \in Int
  BY CharFacts
<1>2. CASE CharIn(source, w) = "." /\ CharIn(source, w + 1) \in Digit
  <2>1. r = RunIn(source, w + 1, Digit)
    BY <1>2, SameChar, SameRun DEF FractionEnd
  <2>2. w + 1 \in 0 .. Len(source)
    BY <1>2, SymbolFacts, CharInside
  <2>3. /\ r \in w + 1 .. Len(source) /\ Digital(source, w + 1, r)
        /\ ~Classless(source, w + 1, r)
    BY <1>2, <2>1, <2>2, DigitsEnd
  <2>4. ~Classless(source, w, w + 1)
    BY <1>1, <1>2, SymbolFacts, OneIsNone
  <2>5. r \in Int /\ r \in w .. Len(source)
    BY <1>1, <2>3
  <2>6. ~Classless(source, w, r)
    BY <1>1, <2>3, <2>4, <2>5, NoneJoin
  <2>7. QED
    BY <1>2, <2>3, <2>5, <2>6
<1>3. CASE ~(CharIn(source, w) = "." /\ CharIn(source, w + 1) \in Digit)
  <2>1. r = w
    BY <1>3, SameChar DEF FractionEnd
  <2>2. \A k \in w .. w - 1 : FALSE
    BY <1>1
  <2>3. QED
    BY <1>1, <2>1, <2>2 DEF Classless
<1>4. QED
  BY <1>2, <1>3

LEMMA ExponentFacts ==
    ASSUME source \in Seq(Char), NEW r \in 0 .. Len(source), NEW x, x = ExponentEnd(r)
    PROVE  /\ x \in r .. Len(source)
           /\ ~Classless(source, r, x)
           /\ ~HasExponent(r) => x = r /\ CharIn(source, r) # "e"
           /\ HasExponent(r) => CharIn(source, r) = "e"
           /\ HasExponent(r) /\ ~ExponentIsEmpty(r) =>
                 \E d \in {r + 1, r + 2} :
                     /\ d = r + 2 => CharIn(source, r + 1) \in {"+", "-"}
                     /\ Digital(source, d, x)
<1>1. r \in Nat /\ r \in Int /\ Len(source) \in Nat /\ r + 1 \in Int /\ r + 1 \in Nat
      /\ (r + 1) + 1 = r + 2 /\ r + 1 # r + 2
  BY CharFacts
<1>2. HasExponent(r) <=> CharIn(source, r) = "e"
  BY SameChar DEF HasExponent
<1>3. CASE HasExponent(r)
  <2> DEFINE d == ExponentDigits(r)
  <2>1. r + 1 \in 0 .. Len(source) /\ ~Classless(source, r, r + 1)
    <3>1. CharIn(source, r) \in Char /\ CharIn(source, r) # "ctl"
      BY <1>2, <1>3, SymbolFacts
    <3>2. QED
      BY <1>1, <3>1, CharInside, OneIsNone
  <2>2. /\ d \in {r + 1, r + 2} /\ d \in 0 .. Len(source)
        /\ d = r + 2 => CharIn(source, r + 1) \in {"+", "-"}
        /\ ~Classless(source, r, d)
    <3>1. CASE CharIn(source, r + 1) \in {"+", "-"}
      <4>1. CharIn(source, r + 1) \in Char /\ CharIn(source, r + 1) # "ctl"
        BY <3>1, SymbolFacts, Alphabet
      <4>2. r + 2 \in 0 .. Len(source)
        BY <1>1, <2>1, <4>1, CharInside
      <4>3. ~Classless(source, r + 1, (r + 1) + 1)
        BY <1>1, <4>1, OneIsNone
      <4>4. d = r + 2
        BY <3>1, SameChar DEF ExponentDigits
      <4>5. ~Classless(source, r, r + 2)
        BY <1>1, <2>1, <4>3, NoneJoin
      <4> HIDE DEF d
      <4>6. QED
        BY <3>1, <4>2, <4>4, <4>5
    <3>2. CASE CharIn(source, r + 1) \notin {"+", "-"}
      <4>1. d = r + 1
        BY <3>2, SameChar DEF ExponentDigits
      <4> HIDE DEF d
      <4>2. QED
        BY <1>1, <2>1, <4>1
    <3>3. QED
      BY <3>1, <3>2
  <2>3. x = RunIn(source, d, Digit)
    BY <1>3, SameRun DEF ExponentEnd
  <2>4. ExponentIsEmpty(r) <=> CharIn(source, d) \notin Digit
    BY <1>3, SameChar DEF ExponentIsEmpty
  <2> HIDE DEF d
  <2>5. /\ x \in d .. Len(source) /\ ~Classless(source, d, x)
        /\ CharIn(source, d) \in Digit => Digital(source, d, x)
    BY <2>2, <2>3, DigitsEnd
  <2>6. d \in Int /\ x \in Int /\ x \in r .. Len(source)
    BY <1>1, <2>2, <2>5
  <2>7. ~Classless(source, r, x)
    BY <1>1, <2>2, <2>5, <2>6, NoneJoin
  <2>8. QED
    BY <1>2, <1>3, <2>2, <2>4, <2>5, <2>6, <2>7
<1>4. CASE ~HasExponent(r)
  <2>1. x = r
    BY <1>4 DEF ExponentEnd
  <2>2. \A k \in r .. r - 1 : FALSE
    BY <1>1
  <2>3. QED
    BY <1>1, <1>2, <1>4, <2>1, <2>2 DEF Classless
<1>5. QED
  BY <1>3, <1>4

(* What tokenize_number finds, where there is a digit.                     *)
LEMMA NumberFacts ==
    ASSUME source \in Seq(Char), NEW p \in 0 .. Len(source), CharIn(source, p) \in Digit,
           NEW number, number = NumberAt(p)
    PROVE  /\ number.kind \in {"INTEGER", "FLOAT"}
           /\ number.invalid \in BOOLEAN
           /\ number.end \in p + 1 .. Len(source)
           /\ CharIn(source, number.end) \notin WordChar
           /\ ~Classless(source, p, number.end)
           /\ ~number.invalid =>
                 \E w, r \in Nat :
                    /\ Shape(source, p, w, r, number.end)
                    /\ number.kind = "FLOAT" <=>
                          CharIn(source, w) = "." \/ CharIn(source, r) = "e"
<1> DEFINE w == RunEnd(p, Digit)
           r == FractionEnd(w)
           x == ExponentEnd(r)
           end == RunEnd(x, WordChar)
<1>1. number = Number(w, r, x)
  BY DEF NumberAt
<1>2. /\ number.end = end
      /\ number.invalid <=> ExponentIsEmpty(r) \/ CharAt(x) \in WordChar
      /\ number.kind = IF CharAt(w) = "." \/ (HasExponent(r) /\ ~ExponentIsEmpty(r))
                       THEN "FLOAT" ELSE "INTEGER"
      /\ number.invalid \in BOOLEAN
  <2> HIDE DEF w, r, x
  <2>1. /\ number.end = RunEnd(x, WordChar)
        /\ number.kind = IF CharAt(w) = "." \/ (HasExponent(r) /\ ~ExponentIsEmpty(r))
                         THEN "FLOAT" ELSE "INTEGER"
    BY <1>1 DEF Number
  <2> DEFINE B == ExponentIsEmpty(r) \/ CharAt(x) \in WordChar
  <2>2. number.invalid = B /\ B \in BOOLEAN
    <3>1. number = [end |-> RunEnd(x, WordChar), invalid |-> B,
                    kind |-> IF CharAt(w) = "." \/ (HasExponent(r) /\ ~ExponentIsEmpty(r))
                             THEN "FLOAT" ELSE "INTEGER"]
      BY <1>1, Zenon DEF Number
    <3>2. B \in BOOLEAN
      BY Zenon
    <3> HIDE DEF B
    <3>3. QED
      BY <3>1, <3>2
  <2>3. QED
    BY <2>1, <2>2, Zenon
<1>3. p \in Nat /\ p \in Int /\ Len(source) \in Nat
  BY CharFacts
<1>4. /\ w \in p .. Len(source) /\ Digital(source, p, w) /\ ~Classless(source, p, w)
  BY SameRun, DigitsEnd
<1>5. w \in p + 1 .. Len(source) /\ w \in 0 .. Len(source) /\ w \in Int /\ w \in Nat
  BY <1>3, <1>4 DEF Digital
<1> HIDE DEF w
<1>6. /\ r \in w .. Len(source) /\ ~Classless(source, w, r)
      /\ r = w \/ (CharIn(source, w) = "." /\ Digital(source, w + 1, r))
  BY <1>5, FractionFacts
<1>7. r \in 0 .. Len(source) /\ r \in Int /\ r \in Nat
  BY <1>3, <1>5, <1>6
<1> HIDE DEF r
<1>8. /\ x \in r .. Len(source) /\ ~Classless(source, r, x)
      /\ ~HasExponent(r) => x = r /\ CharIn(source, r) # "e"
      /\ HasExponent(r) => CharIn(source, r) = "e"
      /\ HasExponent(r) /\ ~ExponentIsEmpty(r) =>
            \E d \in {r + 1, r + 2} :
                /\ d = r + 2 => CharIn(source, r + 1) \in {"+", "-"}
                /\ Digital(source, d, x)
  BY <1>7, ExponentFacts
<1>9. x \in 0 .. Len(source) /\ x \in Int /\ x \in Nat /\ x <= Len(source)
  BY <1>3, <1>7, <1>8
<1> HIDE DEF x
<1>10. /\ end \in x .. Len(source) /\ CharIn(source, end) \notin WordChar
       /\ ~Classless(source, x, end)
       /\ CharIn(source, x) \notin WordChar => end = x
  <2>1. WordChar \subseteq Char /\ "ctl" \notin WordChar
    BY SymbolFacts
  <2>2. /\ RunIn(source, x, WordChar) \in x .. Len(source)
        /\ CharIn(source, RunIn(source, x, WordChar)) \notin WordChar
        /\ \A k \in x .. RunIn(source, x, WordChar) - 1 : CharIn(source, k) \in WordChar
    BY <1>9, <2>1, RunFacts
  <2>3. CharIn(source, x) \notin WordChar => RunIn(source, x, WordChar) = x
    BY <1>9, <2>1, RunBegins
  <2>4. end = RunIn(source, x, WordChar)
    BY SameRun
  <2> HIDE DEF end
  <2>5. QED
    BY <2>1, <2>2, <2>3, <2>4 DEF Classless
<1> HIDE DEF end
<1>11. end \in Int /\ end \in p + 1 .. Len(source)
  BY <1>3, <1>5, <1>6, <1>7, <1>8, <1>9, <1>10
<1>12. ~Classless(source, p, end)
  <2>1. ~Classless(source, p, r)
    BY <1>3, <1>4, <1>5, <1>6, <1>7, NoneJoin
  <2>2. ~Classless(source, p, x)
    BY <1>3, <1>7, <1>8, <1>9, <2>1, NoneJoin
  <2>3. QED
    BY <1>3, <1>9, <1>10, <1>11, <2>2, NoneJoin
<1>13. ASSUME ~number.invalid
       PROVE  /\ Shape(source, p, w, r, end)
              /\ number.kind = "FLOAT" <=> CharIn(source, w) = "." \/ CharIn(source, r) = "e"
  <2>1. ~ExponentIsEmpty(r) /\ CharIn(source, x) \notin WordChar
    BY <1>2, <1>13, SameChar
  <2>2. end = x
    BY <1>10, <2>1
  <2>3. HasExponent(r) <=> CharIn(source, r) = "e"
    BY <1>8
  <2>4. Shape(source, p, w, r, end)
    BY <1>4, <1>5, <1>6, <1>7, <1>8, <1>9, <2>1, <2>2, <2>3 DEF Shape
  <2>5. number.kind = "FLOAT" <=> CharIn(source, w) = "." \/ CharIn(source, r) = "e"
    BY <1>2, <2>1, <2>3, SameChar
  <2>6. QED
    BY <2>4, <2>5
<1>14. QED
  BY <1>2, <1>5, <1>7, <1>10, <1>11, <1>12, <1>13

LEMMA WholePart ==
    ASSUME NEW src \in Seq(Char), NEW a \in Nat, NEW b \in Nat, Digital(src, a, b)
    PROVE  IsWhole(Part(src, a, b)) /\ Part(src, a, b) # << >>
<1>1. a <= b /\ b <= Len(src) /\ b - a > 0 /\ \A k \in a .. b - 1 : CharIn(src, k) \in Digit
  BY DEF Digital
<1>2. AllIn(Part(src, a, b), Digit)
  BY <1>1, AllInPart
<1>3. Len(Part(src, a, b)) = b - a
  BY <1>1, PartFacts
<1>4. Part(src, a, b) # << >>
  BY <1>1, <1>3
<1>5. QED
  BY <1>2, <1>4 DEF IsWhole

(* A sign does not count.                                                  *)
LEMMA UnsignedPart ==
    ASSUME NEW src \in Seq(Char), NEW a \in Nat, NEW b \in Nat, a < b, b <= Len(src)
    PROVE  /\ CharIn(src, a) \in {"+", "-"} => Unsigned(Part(src, a, b)) = Part(src, a + 1, b)
           /\ CharIn(src, a) \notin {"+", "-"} => Unsigned(Part(src, a, b)) = Part(src, a, b)
<1> DEFINE t == Part(src, a, b)
<1>1. /\ t \in Seq(Char) /\ Len(t) = b - a
      /\ \A k \in 1 .. b - a : t[k] = CharIn(src, (a + k) - 1)
  <2>1. a <= b
    OBVIOUS
  <2>2. QED
    BY <2>1, PartFacts
<1>2. t[1] = CharIn(src, a)
  <2>1. 1 \in 1 .. b - a /\ (a + 1) - 1 = a
    OBVIOUS
  <2>2. QED
    BY <1>1, <2>1
<1>3. Tail(t) = SubSeq(t, 2, b - a)
  <2>1. t # << >>
    BY <1>1
  <2> HIDE DEF t
  <2>2. QED
    BY <1>1, <2>1, TailIsSubSeq
<1>4. SubSeq(t, 2, b - a) = Part(src, a + 1, b)
  <2>1. 2 \in 1 .. (b - a) + 1 /\ b - a \in 2 - 1 .. b - a /\ (a + 2) - 1 = a + 1
        /\ a + (b - a) = b /\ a <= b
    OBVIOUS
  <2>2. SubSeq(t, 2, b - a) = Part(src, (a + 2) - 1, a + (b - a))
    BY <2>1, PartOfPart
  <2>3. QED
    BY <2>1, <2>2
<1> HIDE DEF t
<1>5. QED
  BY <1>2, <1>3, <1>4 DEF Unsigned, Signs, t

LEMMA DigitFacts ==
    \A c \in Digit : c # "e" /\ c # "." /\ c # "+" /\ c # "-" /\ c # "ctl"
  BY SymbolFacts, Zenon DEF Digit

(* Where there is an exponent, and what is before it and after it.         *)
LEMMA ExponentIsAt ==
    ASSUME NEW src \in Seq(Char), NEW p \in Nat, NEW w \in Nat, NEW r \in Nat, NEW x \in Nat,
           Shape(src, p, w, r, x)
    PROVE  /\ p < w /\ w <= r /\ r <= x /\ x <= Len(src)
           /\ \A k \in p .. r - 1 : CharIn(src, k) # "e"
           /\ CharIn(src, r) # "e" => x = r
           /\ CharIn(src, r) = "e" =>
                 r + 1 < x /\ \A k \in r + 1 .. x - 1 : CharIn(src, k) # "e"
<1>1. p < w /\ w <= r /\ \A k \in p .. r - 1 : CharIn(src, k) # "e"
  <2>1. p < w /\ \A k \in p .. w - 1 : CharIn(src, k) # "e"
    BY DigitFacts DEF Shape, Digital
  <2>2. CASE r = w
    BY <2>1, <2>2
  <2>3. CASE r # w
    <3>1. /\ CharIn(src, w) = "." /\ w + 1 < r
          /\ \A k \in w + 1 .. r - 1 : CharIn(src, k) # "e"
      BY <2>3, DigitFacts DEF Shape, Digital
    <3>2. \A k \in p .. r - 1 : k \in p .. w - 1 \/ k = w \/ k \in w + 1 .. r - 1
      OBVIOUS
    <3>3. QED
      BY <2>1, <3>1, <3>2, SymbolFacts
  <2>4. QED
    BY <2>2, <2>3
<1>2. CASE CharIn(src, r) # "e"
  BY <1>1, <1>2 DEF Shape
<1>3. CASE CharIn(src, r) = "e"
  <2>1. PICK d \in {r + 1, r + 2} : /\ d = r + 2 => CharIn(src, r + 1) \in {"+", "-"}
                                    /\ Digital(src, d, x)
    BY <1>3 DEF Shape
  <2>2. d < x /\ \A k \in d .. x - 1 : CharIn(src, k) # "e"
    BY <2>1, DigitFacts DEF Digital
  <2>3. d = r + 2 => CharIn(src, r + 1) # "e"
    BY <2>1, SymbolFacts
  <2>4. \A k \in r + 1 .. x - 1 : k \in d .. x - 1 \/ (d = r + 2 /\ k = r + 1)
    BY <2>1
  <2>5. \A k \in r + 1 .. x - 1 : CharIn(src, k) # "e"
    BY <2>2, <2>3, <2>4
  <2>6. r + 1 < x
    BY <2>1, <2>2
  <2>7. x <= Len(src)
    BY DEF Shape
  <2>8. QED
    BY <1>1, <1>3, <2>5, <2>6, <2>7
<1>4. QED
  BY <1>2, <1>3

LEMMA MantissaPart ==
    ASSUME NEW src \in Seq(Char), NEW p \in Nat, NEW w \in Nat, NEW r \in Nat, NEW x \in Nat,
           Shape(src, p, w, r, x)
    PROVE  /\ MantissaOf(Part(src, p, x)) = Part(src, p, r)
           /\ Contains(Part(src, p, x), "e") <=> CharIn(src, r) = "e"
           /\ CharIn(src, r) = "e" => ExponentText(Part(src, p, x)) = Part(src, r + 1, x)
<1> DEFINE u == Part(src, p, x)
           n == x - p
           e == (r - p) + 1
<1>1. /\ p < w /\ w <= r /\ r <= x /\ x <= Len(src)
      /\ \A k \in p .. r - 1 : CharIn(src, k) # "e"
      /\ CharIn(src, r) # "e" => x = r
      /\ CharIn(src, r) = "e" => r + 1 < x /\ \A k \in r + 1 .. x - 1 : CharIn(src, k) # "e"
  BY ExponentIsAt
<1>2. p <= x /\ n \in Nat /\ e \in Nat /\ e >= 1
  BY <1>1
<1>3. u \in Seq(Char) /\ Len(u) = n /\ \A k \in 1 .. n : u[k] = CharIn(src, (p + k) - 1)
  BY <1>1, <1>2, PartFacts
<1>4. DOMAIN u = 1 .. n
  BY <1>3
<1>5. CASE CharIn(src, r) # "e"
  <2>1. \A k \in 1 .. n : (p + k) - 1 \in p .. r - 1
    BY <1>1, <1>5
  <2>2. \A k \in 1 .. n : u[k] # "e"
    BY <1>1, <1>3, <2>1
  <2>3. ~Contains(u, "e")
    BY <1>3, <2>2 DEF Contains
  <2>4. MantissaOf(u) = u
    BY <2>3 DEF MantissaOf
  <2>5. QED
    BY <1>1, <1>5, <2>3, <2>4
<1>6. CASE CharIn(src, r) = "e"
  <2>1. e \in 1 .. n /\ (p + e) - 1 = r
    BY <1>1, <1>2, <1>6
  <2>2. u[e] = "e"
    BY <1>3, <1>6, <2>1
  <2>3. \A k \in 1 .. n : u[k] = "e" => k = e
    <3>1. \A k \in 1 .. n : k # e => \/ (p + k) - 1 \in p .. r - 1
                                     \/ (p + k) - 1 \in r + 1 .. x - 1
      BY <1>1
    <3>2. QED
      BY <1>1, <1>3, <1>6, <3>1
  <2>4. Contains(u, "e")
    BY <1>3, <2>1, <2>2 DEF Contains
  <2> DEFINE c == CHOOSE k \in DOMAIN u : u[k] = "e"
  <2>5. c = e
    <3>1. \E k \in DOMAIN u : u[k] = "e"
      BY <1>4, <2>1, <2>2
    <3>2. c \in DOMAIN u /\ u[c] = "e"
      BY <3>1, Zenon
    <3>3. QED
      BY <1>4, <2>3, <3>2, Zenon
  <2>6. /\ MantissaOf(u) = SubSeq(u, 1, c - 1)
        /\ ExponentText(u) = SubSeq(u, 1 + c, Len(u))
    BY <2>4 DEF MantissaOf, ExponentText
  <2> HIDE DEF c
  <2>7. MantissaOf(u) = SubSeq(u, 1, r - p) /\ ExponentText(u) = SubSeq(u, (r - p) + 2, n)
    <3>1. e - 1 = r - p /\ 1 + e = (r - p) + 2
      BY <1>1
    <3> HIDE DEF e, u, n
    <3>2. QED
      BY <1>3, <2>5, <2>6, <3>1
  <2>8. SubSeq(u, 1, r - p) = Part(src, p, r)
    <3>1. /\ 1 \in 1 .. (x - p) + 1 /\ r - p \in 1 - 1 .. x - p
          /\ (p + 1) - 1 = p /\ p + (r - p) = r
      BY <1>1, <1>2
    <3>2. SubSeq(u, 1, r - p) = Part(src, (p + 1) - 1, p + (r - p))
      BY <1>1, <1>2, <3>1, PartOfPart
    <3>3. QED
      BY <3>1, <3>2
  <2>9. SubSeq(u, (r - p) + 2, n) = Part(src, r + 1, x)
    <3> DEFINE i == (r - p) + 2
    <3>1. /\ i \in 1 .. (x - p) + 1 /\ n \in i - 1 .. x - p
          /\ (p + i) - 1 = r + 1 /\ p + n = x
      BY <1>1, <1>2, <1>6
    <3> HIDE DEF i, n
    <3>2. SubSeq(u, i, n) = Part(src, (p + i) - 1, p + n)
      BY <1>1, <1>2, <3>1, PartOfPart
    <3>3. QED
      BY <3>1, <3>2 DEF i
  <2>10. QED
    BY <1>6, <2>4, <2>7, <2>8, <2>9
<1>7. QED
  BY <1>5, <1>6

LEMMA ExponentPart ==
    ASSUME NEW src \in Seq(Char), NEW p \in Nat, NEW w \in Nat, NEW r \in Nat, NEW x \in Nat,
           Shape(src, p, w, r, x), CharIn(src, r) = "e"
    PROVE  IsExponent(Part(src, r + 1, x))
<1>1. PICK d \in {r + 1, r + 2} : /\ d = r + 2 => CharIn(src, r + 1) \in {"+", "-"}
                                  /\ Digital(src, d, x)
  BY SymbolFacts DEF Shape
<1>2. d \in Nat /\ d < x /\ x <= Len(src) /\ r + 1 \in Nat /\ r + 1 < x /\ r + 1 <= x
      /\ (r + 1) + 1 = r + 2 /\ r + 1 # r + 2
  BY <1>1 DEF Digital
<1>3. IsWhole(Part(src, d, x))
  BY <1>1, <1>2, WholePart
<1>4. Unsigned(Part(src, r + 1, x)) = Part(src, d, x)
  <2>1. CASE d = r + 2
    BY <1>1, <1>2, <2>1, UnsignedPart
  <2>2. CASE d # r + 2
    <3>1. d = r + 1 /\ d \in d .. x - 1
      BY <1>1, <1>2, <2>2
    <3>2. CharIn(src, r + 1) \in Digit
      BY <1>1, <3>1 DEF Digital
    <3>3. CharIn(src, r + 1) \notin {"+", "-"}
      BY <3>2, DigitFacts
    <3>4. QED
      BY <1>2, <3>1, <3>3, UnsignedPart
  <2>3. QED
    BY <2>1, <2>2
<1>5. Part(src, r + 1, x) # << >>
  <2>1. Len(Part(src, r + 1, x)) = x - (r + 1)
    BY <1>2, PartFacts
  <2>2. QED
    BY <1>2, <2>1
<1>6. QED
  BY <1>3, <1>4, <1>5 DEF IsExponent

(* What has a point or an exponent is spelled as a real number, unless its *)
(* point is still to come.                                                 *)
LEMMA RealPart ==
    ASSUME NEW src \in Seq(Char), NEW p \in Nat, NEW w \in Nat, NEW r \in Nat, NEW x \in Nat,
           Shape(src, p, w, r, x), CharIn(src, w) = "." \/ CharIn(src, r) = "e"
    PROVE  IsReal(Part(src, p, x)) \/ CharIn(src, x) = "."
<1> DEFINE u == Part(src, p, x)
           m == Part(src, p, r)
<1>1. p < w /\ w <= r /\ r <= x /\ x <= Len(src) /\ p <= r /\ r <= Len(src)
      /\ (CharIn(src, r) # "e" => x = r)
  <2>1. p < w /\ w <= r /\ r <= x /\ x <= Len(src) /\ (CharIn(src, r) # "e" => x = r)
    BY ExponentIsAt
  <2>2. p <= r /\ r <= Len(src)
    <3>1. Len(src) \in Nat
      BY CharFacts
    <3>2. QED
      BY <2>1, <3>1
  <2>3. QED
    BY <2>1, <2>2
<1>2. /\ MantissaOf(u) = m
      /\ Contains(u, "e") <=> CharIn(src, r) = "e"
      /\ CharIn(src, r) = "e" => ExponentText(u) = Part(src, r + 1, x)
  BY MantissaPart
<1>3. Contains(u, "e") => IsExponent(ExponentText(u))
  BY <1>2, ExponentPart
<1>4. m \in Seq(Char) /\ Len(m) = r - p /\ \A k \in 1 .. r - p : m[k] = CharIn(src, (p + k) - 1)
  BY <1>1, PartFacts
<1>5. DOMAIN m = 1 .. r - p
  BY <1>1, <1>4
<1> DEFINE points == {k \in DOMAIN m : m[k] = "."}
<1> HIDE DEF u, m
<1>6. CASE r = w
  <2>1. Digital(src, p, r)
    BY <1>6 DEF Shape
  <2>2. IsWhole(m)
    BY <2>1, WholePart DEF m
  <2>3. points = {}
    <3>1. \A k \in DOMAIN m : m[k] \in Digit
      BY <2>2 DEF IsWhole, AllIn
    <3>2. QED
      BY <3>1, DigitFacts
  <2>4. CASE CharIn(src, r) = "e"
    BY <1>2, <1>3, <2>2, <2>3, <2>4, Zenon DEF IsReal, u
  <2>5. CASE CharIn(src, r) # "e"
    BY <1>1, <1>6, <2>5
  <2>6. QED
    BY <2>4, <2>5
<1>7. CASE r # w
  <2>1. CharIn(src, w) = "." /\ Digital(src, w + 1, r) /\ Digital(src, p, w)
    BY <1>7 DEF Shape
  <2> DEFINE j == (w - p) + 1
  <2>2. j \in 1 .. r - p /\ (p + j) - 1 = w /\ w + 1 < r
    BY <1>1, <2>1 DEF Digital
  <2>3. j \in points
    BY <1>4, <1>5, <2>1, <2>2
  <2>4. SubSeq(m, 1, j - 1) = Part(src, p, w)
    <3>1. /\ 1 \in 1 .. (r - p) + 1 /\ j - 1 \in 1 - 1 .. r - p
          /\ (p + 1) - 1 = p /\ p + (j - 1) = w
      BY <1>1, <2>2
    <3> HIDE DEF j
    <3>2. SubSeq(m, 1, j - 1) = Part(src, (p + 1) - 1, p + (j - 1))
      BY <1>1, <3>1, PartOfPart DEF m
    <3>3. QED
      BY <3>1, <3>2
  <2>5. SubSeq(m, j + 1, Len(m)) = Part(src, w + 1, r)
    <3>1. /\ j + 1 \in 1 .. (r - p) + 1 /\ r - p \in (j + 1) - 1 .. r - p
          /\ (p + (j + 1)) - 1 = w + 1 /\ p + (r - p) = r
      BY <1>1, <2>2
    <3> HIDE DEF j
    <3>2. SubSeq(m, j + 1, r - p) = Part(src, (p + (j + 1)) - 1, p + (r - p))
      BY <1>1, <3>1, PartOfPart DEF m
    <3>3. QED
      BY <1>4, <3>1, <3>2
  <2>6. IsWhole(SubSeq(m, 1, j - 1))
    BY <2>1, <2>4, WholePart
  <2>7. IsWhole(SubSeq(m, j + 1, Len(m)))
    <3>1. w + 1 \in Nat
      OBVIOUS
    <3>2. QED
      BY <2>1, <2>5, <3>1, WholePart
  <2> HIDE DEF j
  <2>8. \E q \in points : IsWhole(SubSeq(m, 1, q - 1)) /\ IsWhole(SubSeq(m, q + 1, Len(m)))
    BY <2>3, <2>6, <2>7
  <2>9. QED
    BY <1>2, <1>3, <2>8, Zenon DEF IsReal, u
<1>8. QED
  BY <1>6, <1>7

(* A number that is not reported is spelled as its kind is, with its sign  *)
(* or without, unless a point comes next.                                  *)
LEMMA NumberIsGood ==
    ASSUME source \in Seq(Char), NEW p \in 0 .. Len(source), CharIn(source, p) \in Digit,
           NEW number, number = NumberAt(p), ~number.invalid,
           NEW s \in Nat, s = p \/ (s + 1 = p /\ CharIn(source, s) \in {"+", "-"})
    PROVE  Good(source, TokenAt(number.kind, s), number.end) \/ CharIn(source, number.end) = "."
<1> DEFINE x == number.end
           kind == number.kind
<1>1. /\ kind \in {"INTEGER", "FLOAT"} /\ x \in p + 1 .. Len(source)
      /\ CharIn(source, x) \notin WordChar
  BY NumberFacts
<1>2. PICK w, r \in Nat : /\ Shape(source, p, w, r, x)
                          /\ kind = "FLOAT" <=> CharIn(source, w) = "." \/ CharIn(source, r) = "e"
  BY NumberFacts
<1>3. /\ p \in Nat /\ x \in Nat /\ Len(source) \in Nat /\ s < x /\ p < x /\ x <= Len(source)
      /\ s <= x
  <2>1. p \in Nat /\ Len(source) \in Nat
    BY CharFacts
  <2> HIDE DEF x
  <2>2. QED
    BY <1>1, <2>1
<1> HIDE DEF x, kind
<1> DEFINE word == Part(source, s, x)
<1>4. Unsigned(word) = Part(source, p, x)
  <2>1. CASE s = p
    <3>1. CharIn(source, s) \notin {"+", "-"}
      BY <2>1, DigitFacts
    <3>2. QED
      BY <1>3, <2>1, <3>1, UnsignedPart
  <2>2. CASE s # p
    BY <1>3, <2>2, UnsignedPart
  <2>3. QED
    BY <2>1, <2>2
<1>5. word # << >>
  <2>1. Len(word) = x - s
    BY <1>3, PartFacts
  <2> HIDE DEF word
  <2>2. QED
    BY <1>3, <2>1
<1> DEFINE t == TokenAt(kind, s)
<1>6. t.kind = kind /\ t.pos = s
  BY DEF TokenAt
<1>7. kind \notin PunctuationKind /\ kind \in TokenKind
  BY <1>1, KindFacts DEF SizedKind, TokenKind
<1>8. t \in Token
  BY <1>7 DEF TokenAt, Token
<1> HIDE DEF t, word
<1>9. IsSpelled(t, word) \/ CharIn(source, x) = "."
  <2>1. CASE kind = "FLOAT"
    <3>1. IsReal(Part(source, p, x)) \/ CharIn(source, x) = "."
      BY <1>2, <1>3, <2>1, RealPart
    <3>2. QED
      BY <1>4, <1>6, <2>1, <3>1, SpelledFacts
  <2>2. CASE kind # "FLOAT"
    <3>1. kind = "INTEGER"
      BY <1>1, <2>2
    <3>2. CharIn(source, w) # "." /\ CharIn(source, r) # "e"
      BY <1>2, <2>2
    <3>3. Digital(source, p, x)
      BY <1>2, <3>2 DEF Shape
    <3>4. IsWhole(Part(source, p, x))
      BY <1>3, <3>3, WholePart
    <3>5. IsExponent(word)
      BY <1>4, <1>5, <3>4 DEF IsExponent
    <3>6. QED
      BY <1>6, <3>1, <3>5, SpelledFacts
  <2>3. QED
    BY <2>1, <2>2
<1>10. CharIn(source, s) \in WordChar \/ s + 1 < x
  <2>1. CASE s = p
    BY <2>1, SymbolFacts
  <2>2. CASE s + 1 = p
    BY <1>3, <2>2
  <2>3. QED
    BY <2>1, <2>2
<1>11. QED
  BY <1>1, <1>3, <1>6, <1>7, <1>8, <1>9, <1>10 DEF Good, t, word, x, kind

-----------------------------------------------------------------------------
(* The invariant.                                                          *)

TypesIn(src, p, ts, ends) ==
    /\ src \in Seq(Char)
    /\ p \in 0 .. Len(src)
    /\ ts \in Seq([kind : TokenKind, pos : 0 .. Len(src) - 1])
    /\ DOMAIN ends \subseteq 0 .. Len(src) - 1
    /\ \A x \in DOMAIN ends : ends[x] \in x + 1 .. p

(* After a number that has a point but no fraction there is only an error. *)
Doomed == Tokenizing /\ CharIn(source, pos) = "."

IInv ==
    /\ TypesIn(source, pos, tokens, _end_pos)
    /\ error \in BOOLEAN
    /\ phase \in {"tokenizing", "refused", "tokenized", "parsed", "undefined"}
    /\ ~Tokenizing => pos = Len(source)
    /\ phase = "tokenized" => ~error
    /\ ~Classless(source, 0, pos)
    /\ error \/ Doomed \/ CutIn(source, tokens, _end_pos, pos)

LEMMA SameTypes == TokenizerTypeOK <=> TypesIn(source, pos, tokens, _end_pos) /\ error \in BOOLEAN
  BY DEF TokenizerTypeOK, TypesIn

LEMMA StartFacts ==
    ASSUME source \in Seq(Char), pos \in 0 .. Len(source)
    PROVE  /\ Start \in pos .. Len(source) /\ Start \in 0 .. Len(source)
           /\ Gap(source, pos, Start)
           /\ CharIn(source, Start) \notin Space
           /\ ~Classless(source, pos, Start)
           /\ CharIn(source, pos) \notin Space => Start = pos
<1>1. Space \subseteq Char /\ "ctl" \notin Space
  BY Alphabet, Zenon
<1>2. Start = RunIn(source, pos, Space)
  BY SameRun DEF Start
<1>3. /\ Start \in pos .. Len(source) /\ CharIn(source, Start) \notin Space
      /\ \A k \in pos .. Start - 1 : CharIn(source, k) \in Space
  BY <1>1, <1>2, RunFacts
<1>4. CharIn(source, pos) \notin Space => Start = pos
  BY <1>1, <1>2, RunBegins
<1>5. pos <= Start /\ Start \in 0 .. Len(source)
  <2>1. Len(source) \in Nat
    BY CharFacts
  <2>2. QED
    BY <1>3, <2>1
<1>6. QED
  BY <1>1, <1>3, <1>4, <1>5 DEF Gap, Classless

LEMMA PushTypes ==
    ASSUME NEW src, NEW p, NEW ts, NEW ends, TypesIn(src, p, ts, ends),
           NEW kind \in TokenKind, NEW s \in 0 .. Len(src) - 1, NEW q \in p .. Len(src), s < q
    PROVE  /\ TypesIn(src, q, Append(ts, TokenAt(kind, s)), ends)
           /\ \A g : /\ DOMAIN g \subseteq DOMAIN ends \union {s}
                     /\ \A x \in DOMAIN g : g[x] = IF x = s THEN q ELSE ends[x]
                     => TypesIn(src, q, Append(ts, TokenAt(kind, s)), g)
<1>1. /\ src \in Seq(Char) /\ p \in 0 .. Len(src) /\ Len(src) \in Nat
      /\ DOMAIN ends \subseteq 0 .. Len(src) - 1
      /\ \A x \in DOMAIN ends : ends[x] \in x + 1 .. p
  BY DEF TypesIn
<1> DEFINE T == [kind : TokenKind, pos : 0 .. Len(src) - 1]
<1>2. TokenAt(kind, s) \in T
  BY DEF TokenAt
<1>3. Append(ts, TokenAt(kind, s)) \in Seq(T)
  <2>1. ts \in Seq(T)
    BY DEF TypesIn
  <2> HIDE DEF T
  <2>2. QED
    BY <1>2, <2>1, AppendProperties
<1>4. q \in 0 .. Len(src) /\ \A x \in DOMAIN ends : ends[x] \in x + 1 .. q /\ x \in Nat
  BY <1>1
<1>5. TypesIn(src, q, Append(ts, TokenAt(kind, s)), ends)
  BY <1>1, <1>3, <1>4 DEF TypesIn
<1>6. ASSUME NEW g, DOMAIN g \subseteq DOMAIN ends \union {s},
             \A x \in DOMAIN g : g[x] = IF x = s THEN q ELSE ends[x]
      PROVE  TypesIn(src, q, Append(ts, TokenAt(kind, s)), g)
  <2>1. s \in Nat /\ q \in s + 1 .. q
    BY <1>1
  <2>2. DOMAIN g \subseteq 0 .. Len(src) - 1 /\ \A x \in DOMAIN g : g[x] \in x + 1 .. q
    BY <1>1, <1>4, <1>6, <2>1
  <2>3. QED
    BY <1>1, <1>3, <1>4, <2>2 DEF TypesIn
<1>7. QED
  BY <1>5, <1>6, Zenon

LEMMA CutToStart ==
    ASSUME IInv, Tokenizing, ~error, CharIn(source, Start) # "."
    PROVE  CutIn(source, tokens, _end_pos, Start)
<1>1. source \in Seq(Char) /\ pos \in 0 .. Len(source) /\ Len(source) \in Nat
  BY CharFacts DEF IInv, TypesIn
<1>2. /\ Start \in 0 .. Len(source) /\ Gap(source, pos, Start)
      /\ CharIn(source, pos) \notin Space => Start = pos
  BY <1>1, StartFacts
<1>3. ~Doomed
  BY <1>2, SymbolFacts DEF Doomed
<1>4. CutIn(source, tokens, _end_pos, pos)
  BY <1>3 DEF IInv
<1>5. QED
  BY <1>1, <1>2, <1>4, SkipSpace

(* What every step that pushes a token keeps.                              *)
LEMMA Steps ==
    ASSUME IInv, NEW q \in Start .. Len(source), ~Classless(source, Start, q)
    PROVE  /\ source \in Seq(Char) /\ Len(source) \in Nat
           /\ pos \in 0 .. Len(source) /\ Start \in 0 .. Len(source)
           /\ q \in pos .. Len(source) /\ q \in 0 .. Len(source)
           /\ ~Classless(source, 0, q)
<1>1. source \in Seq(Char) /\ pos \in 0 .. Len(source) /\ Len(source) \in Nat
  BY CharFacts DEF IInv, TypesIn
<1>2. Start \in pos .. Len(source) /\ Start \in 0 .. Len(source) /\ ~Classless(source, pos, Start)
  BY <1>1, StartFacts
<1>3. q \in pos .. Len(source) /\ q \in 0 .. Len(source)
      /\ pos \in Int /\ Start \in Int /\ q \in Int /\ 0 \in Int
  BY <1>1, <1>2
<1>4. ~Classless(source, 0, pos)
  BY DEF IInv
<1>5. ~Classless(source, 0, Start)
  BY <1>2, <1>3, <1>4, NoneJoin
<1>6. ~Classless(source, 0, q)
  BY <1>3, <1>5, NoneJoin
<1>7. QED
  BY <1>1, <1>2, <1>3, <1>6

LEMMA PunctuationStep ==
    ASSUME IInv, TokenizePunctuation PROVE IInv'
<1> DEFINE kinds == PunctuationAt(Start)
           c == CharIn(source, Start)
<1>1. /\ Tokenizing /\ c \in Punctuation
      /\ source' = source /\ _end_pos' = _end_pos /\ phase' = phase
  BY SameChar DEF TokenizePunctuation
<1>2. /\ kinds = {} => pos' = Start + 1 /\ error' = TRUE /\ tokens' = tokens
      /\ kinds # {} => /\ pos' = Start + Len(PunctuationSpelling[Longest(kinds)])
                       /\ tokens' = Append(tokens, TokenAt(Longest(kinds), Start))
                       /\ error' = error
  BY DEF TokenizePunctuation
<1>3. kinds = {k \in PunctuationKind : IsIn(source, Start, PunctuationSpelling[k])}
  BY SameIs DEF PunctuationAt
<1> HIDE DEF kinds
<1>4. /\ source \in Seq(Char) /\ pos \in 0 .. Len(source) /\ Len(source) \in Nat
      /\ Start \in 0 .. Len(source) /\ Start \in pos .. Len(source)
  <2>1. source \in Seq(Char) /\ pos \in 0 .. Len(source)
    BY DEF IInv, TypesIn
  <2>2. QED
    BY <2>1, CharFacts, StartFacts
<1>5. Start + 1 \in 0 .. Len(source) /\ ~Classless(source, Start, Start + 1) /\ Start < Len(source)
  <2>1. c \in Char /\ c # "ctl"
    BY <1>1, Alphabet
  <2>2. QED
    BY <1>4, <2>1, CharInside, OneIsNone
<1>6. phase' = "tokenizing" /\ phase = "tokenizing"
  BY <1>1 DEF Tokenizing
<1>7. CASE kinds = {}
  <2>1. Start + 1 \in Start .. Len(source) /\ Start + 1 \in pos .. Len(source)
    BY <1>4, <1>5
  <2>2. ~Classless(source, 0, Start + 1)
    BY <1>5, <2>1, Steps
  <2>3. TypesIn(source, Start + 1, tokens, _end_pos)
    <3>1. \A x \in DOMAIN _end_pos : _end_pos[x] \in x + 1 .. Start + 1
      <4>1. \A x \in DOMAIN _end_pos : _end_pos[x] \in x + 1 .. pos /\ x \in Nat
        BY <1>4 DEF IInv, TypesIn
      <4>2. QED
        BY <1>4, <2>1, <4>1
    <3>2. QED
      BY <1>5, <3>1 DEF IInv, TypesIn
  <2>4. QED
    BY <1>1, <1>2, <1>6, <1>7, <2>2, <2>3 DEF IInv, Tokenizing
<1>8. CASE kinds # {}
  <2> DEFINE kind == Longest(kinds)
             q == Start + Len(PunctuationSpelling[kind])
  <2>1. kind \in PunctuationKind /\ Good(source, TokenAt(kind, Start), q)
    BY <1>3, <1>4, <1>8, MarkIsGood
  <2>2. kind \in kinds /\ Len(PunctuationSpelling[kind]) \in {1, 2}
        /\ PunctuationSpelling[kind] \in Seq(Punctuation)
        /\ PunctuationSpelling[kind][1] # "."
    <3>1. kinds \subseteq PunctuationKind
      BY <1>3
    <3>2. QED
      BY <1>8, <2>1, <3>1, LongestFacts, PunctuationFacts
  <2>3. \A j \in 1 .. Len(PunctuationSpelling[kind]) :
           CharIn(source, Start + j - 1) = PunctuationSpelling[kind][j]
    BY <1>3, <2>2 DEF IsIn
  <2>4. c # "."
    <3>1. 1 \in 1 .. Len(PunctuationSpelling[kind]) /\ Start + 1 - 1 = Start
      BY <1>4, <2>2
    <3>2. QED
      BY <2>2, <2>3, <3>1
  <2>5. q \in Start + 1 .. Len(source) /\ Start \in 0 .. Len(source) - 1 /\ Start < q
    <3>1. q \in Nat /\ q <= Len(source) /\ TokenAt(kind, Start).pos < q
      BY <2>1 DEF Good
    <3>2. TokenAt(kind, Start).pos = Start
      BY DEF TokenAt
    <3> HIDE DEF q
    <3>3. QED
      BY <1>4, <3>1, <3>2
  <2>6. ~Classless(source, Start, q)
    <3> DEFINE n == Len(PunctuationSpelling[kind])
    <3>1. ASSUME NEW k \in Start .. q - 1 PROVE CharIn(source, k) # "ctl"
      <4>1. n \in Nat /\ q = Start + n
        BY <2>2
      <4> HIDE DEF q, n
      <4>2. (k - Start) + 1 \in 1 .. n /\ Start + ((k - Start) + 1) - 1 = k
        BY <1>4, <4>1
      <4>3. CharIn(source, k) = PunctuationSpelling[kind][(k - Start) + 1]
        BY <2>3, <4>2 DEF n
      <4>4. PunctuationSpelling[kind][(k - Start) + 1] \in Punctuation
        BY <2>2, <4>2 DEF n
      <4>5. QED
        BY <4>3, <4>4, Alphabet
    <3>2. QED
      BY <3>1 DEF Classless
  <2> HIDE DEF q
  <2>7. q \in Start .. Len(source) /\ q \in pos .. Len(source)
    BY <1>4, <2>5
  <2>8. ~Classless(source, 0, q)
    BY <2>6, <2>7, Steps
  <2>9. TypesIn(source, q, Append(tokens, TokenAt(kind, Start)), _end_pos)
    <3>1. TypesIn(source, pos, tokens, _end_pos)
      BY DEF IInv
    <3>2. kind \in TokenKind
      BY <2>1 DEF TokenKind
    <3> HIDE DEF kind
    <3>3. QED
      BY <2>5, <2>7, <3>1, <3>2, PushTypes
  <2>10. ~error => CutIn(source, Append(tokens, TokenAt(kind, Start)), _end_pos, q)
    <3> SUFFICES ASSUME ~error
                 PROVE  CutIn(source, Append(tokens, TokenAt(kind, Start)), _end_pos, q)
      OBVIOUS
    <3> DEFINE t == TokenAt(kind, Start)
    <3>1. CutIn(source, tokens, _end_pos, Start)
      BY <1>1, <2>4, CutToStart
    <3>2. t.pos = Start /\ t.kind = kind
      BY DEF TokenAt
    <3>3. kind \notin SizedKind /\ kind \notin Keyword
      BY <2>1, KindFacts
    <3>4. Known(_end_pos, t) /\ EndIn(source, _end_pos, t) = q
      BY <3>2, <3>3 DEF Known, EndIn, Spelling, q
    <3>5. tokens # << >> => NoSign(source, tokens[Len(tokens)], Start)
      <4>1. c \notin Digit
        BY <1>1, Alphabet
      <4>2. QED
        BY <4>1 DEF NoSign
    <3>6. Good(source, t, q)
      BY <2>1 DEF q
    <3> HIDE DEF t, kind
    <3>7. QED
      BY <1>4, <3>1, <3>2, <3>4, <3>5, <3>6, OneMore DEF t
  <2> HIDE DEF kind
  <2>11. pos' = q /\ tokens' = Append(tokens, TokenAt(kind, Start)) /\ error' = error
    BY <1>2, <1>8 DEF q, kind
  <2>12. QED
    BY <1>1, <1>6, <2>8, <2>9, <2>10, <2>11 DEF IInv, Tokenizing
<1>9. QED
  BY <1>7, <1>8

LEMMA WordStep ==
    ASSUME IInv, TokenizeWord PROVE IInv'
<1>1. /\ Tokenizing /\ CharIn(source, Start) \in Opening
      /\ source' = source /\ error' = error /\ phase' = phase
  BY SameChar, Zenon DEF TokenizeWord, Opening
<1>2. PICK end, kind :
         /\ end = RunEnd(Start, WordChar) /\ kind = KeywordFor(Text(Start, end))
         /\ pos' = end
         /\ tokens' = Append(tokens, TokenAt(kind, Start))
         /\ _end_pos' = IF kind = "IDENTIFIER" THEN WithEnd(Start, end) ELSE _end_pos
  BY Zenon DEF TokenizeWord
<1>3. end = RunIn(source, Start, WordChar) /\ kind = KeywordFor(Part(source, Start, end))
  BY <1>2, SameRun, Zenon DEF Text, Part
<1>4. /\ source \in Seq(Char) /\ pos \in 0 .. Len(source) /\ Len(source) \in Nat
      /\ Start \in 0 .. Len(source) /\ Start \in pos .. Len(source)
  <2>1. source \in Seq(Char) /\ pos \in 0 .. Len(source)
    BY DEF IInv, TypesIn
  <2>2. QED
    BY <2>1, CharFacts, StartFacts
<1>5. WordChar \subseteq Char /\ CharIn(source, Start) \in WordChar
  BY <1>1, OpeningFacts, SymbolFacts
<1>6. end \in Start + 1 .. Len(source) /\ \A k \in Start .. end - 1 : CharIn(source, k) \in WordChar
  BY <1>3, <1>4, <1>5, RunBegins, RunFacts
<1>7. /\ end \in Nat /\ end \in Start .. Len(source) /\ end \in pos .. Len(source)
      /\ Start \in 0 .. Len(source) - 1 /\ Start < end
  BY <1>4, <1>6
<1>8. ~Classless(source, Start, end)
  BY <1>6, SymbolFacts DEF Classless
<1>9. ~Classless(source, 0, end)
  BY <1>7, <1>8, Steps
<1>10. /\ kind \in Keyword \union {"IDENTIFIER"}
       /\ Good(source, TokenAt(kind, Start), end)
       /\ CharIn(source, Start) \notin Digit
  BY <1>1, <1>3, <1>4, <1>7, WordIsGood
<1>11. kind \in TokenKind /\ (kind # "IDENTIFIER" => kind \in Keyword /\ kind \notin SizedKind)
  BY <1>10, KindFacts DEF TokenKind, SizedKind
<1> DEFINE t == TokenAt(kind, Start)
           g == WithEnd(Start, end)
<1>12. t.pos = Start /\ t.kind = kind
  BY DEF TokenAt
<1>13. TypesIn(source, end, tokens', _end_pos')
  <2>1. TypesIn(source, pos, tokens, _end_pos)
    BY DEF IInv
  <2>2. DOMAIN g \subseteq DOMAIN _end_pos \union {Start}
        /\ \A x \in DOMAIN g : g[x] = IF x = Start THEN end ELSE _end_pos[x]
    BY DEF WithEnd
  <2> HIDE DEF g
  <2>3. /\ TypesIn(source, end, Append(tokens, TokenAt(kind, Start)), _end_pos)
        /\ TypesIn(source, end, Append(tokens, TokenAt(kind, Start)), g)
    BY <1>7, <1>11, <2>1, <2>2, PushTypes
  <2> HIDE DEF t
  <2>4. QED
    BY <1>2, <2>3 DEF t, g
<1>14. ~error => CutIn(source, tokens', _end_pos', end)
  <2> SUFFICES ASSUME ~error PROVE CutIn(source, tokens', _end_pos', end)
    OBVIOUS
  <2>1. CutIn(source, tokens, _end_pos, Start)
    BY <1>1, <1>5, SymbolFacts, CutToStart
  <2>2. tokens # << >> => NoSign(source, tokens[Len(tokens)], Start)
    BY <1>10 DEF NoSign
  <2>3. CASE kind = "IDENTIFIER"
    <3>1. Known(g, t) /\ EndIn(source, g, t) = end
      <4>1. Start \in DOMAIN g /\ g[Start] = end
        BY DEF WithEnd
      <4>2. kind \in SizedKind /\ kind \notin Keyword
        BY <2>3, KindFacts DEF SizedKind
      <4> HIDE DEF g, t
      <4>3. QED
        BY <1>12, <4>1, <4>2 DEF Known, EndIn
    <3>2. \A x \in DOMAIN _end_pos : x # Start => x \in DOMAIN g /\ g[x] = _end_pos[x]
      BY DEF WithEnd
    <3> HIDE DEF g, t
    <3>3. CutIn(source, Append(tokens, t), g, end)
      BY <1>4, <1>10, <1>12, <2>1, <2>2, <3>1, <3>2, OneMore DEF t
    <3>4. QED
      BY <1>2, <2>3, <3>3 DEF g, t
  <2>4. CASE kind # "IDENTIFIER"
    <3>1. Known(_end_pos, t) /\ EndIn(source, _end_pos, t) = end
      BY <1>3, <1>11, <1>12, <2>4 DEF Known, EndIn
    <3> HIDE DEF t
    <3>2. CutIn(source, Append(tokens, t), _end_pos, end)
      BY <1>4, <1>10, <1>12, <2>1, <2>2, <3>1, OneMore DEF t
    <3>3. QED
      BY <1>2, <2>4, <3>2 DEF t
  <2>5. QED
    BY <2>3, <2>4
<1>15. phase' = "tokenizing" /\ phase = "tokenizing"
  BY <1>1 DEF Tokenizing
<1>16. QED
  BY <1>1, <1>2, <1>9, <1>13, <1>14, <1>15 DEF IInv, Tokenizing

(* A number is pushed over what there was before it, from s.               *)
LEMMA NumberPushed ==
    ASSUME IInv, Tokenizing, CharIn(source, Start) \in Digit,
           NEW number, number = NumberAt(Start),
           NEW s \in Nat, s = Start \/ s + 1 = Start,
           error \/ s = Start \/ CharIn(source, s) \in {"+", "-"},
           NEW us, us \in Seq([kind : TokenKind, pos : 0 .. Len(source) - 1]),
           ~error => CutIn(source, us, _end_pos, s),
           error \/ (us # << >> => NoSign(source, us[Len(us)], s)),
           PushNumber(number, s, us), source' = source, phase' = phase
    PROVE  IInv'
<1>1. /\ source \in Seq(Char) /\ pos \in 0 .. Len(source) /\ Len(source) \in Nat
      /\ Start \in 0 .. Len(source) /\ Start \in pos .. Len(source)
  <2>1. source \in Seq(Char) /\ pos \in 0 .. Len(source)
    BY DEF IInv, TypesIn
  <2>2. QED
    BY <2>1, CharFacts, StartFacts
<1> DEFINE end == number.end
           kind == number.kind
           t == TokenAt(kind, s)
           g == WithEnd(s, end)
<1>2. /\ kind \in {"INTEGER", "FLOAT"} /\ number.invalid \in BOOLEAN
      /\ end \in Start + 1 .. Len(source) /\ ~Classless(source, Start, end)
  BY <1>1, NumberFacts
<1>3. /\ pos' = end /\ tokens' = Append(us, t) /\ _end_pos' = g
      /\ error' = (error \/ number.invalid)
  BY DEF PushNumber
<1>4. ~error /\ ~number.invalid => Good(source, t, end) \/ CharIn(source, end) = "."
  BY <1>1, NumberIsGood
<1>5. t.pos = s /\ t.kind = kind
  BY DEF TokenAt
<1> HIDE DEF end, kind
<1>6. /\ end \in Nat /\ end \in Start .. Len(source) /\ end \in pos .. Len(source)
      /\ s \in 0 .. Len(source) - 1 /\ s < end
  BY <1>1, <1>2
<1>7. ~Classless(source, 0, end)
  BY <1>2, <1>6, Steps
<1>8. kind \in TokenKind /\ kind \in SizedKind /\ kind \notin Keyword
  BY <1>2, KindFacts DEF TokenKind, SizedKind
<1>9. TypesIn(source, end, Append(us, t), g)
  <2>1. TypesIn(source, pos, us, _end_pos)
    BY DEF IInv, TypesIn
  <2>2. DOMAIN g \subseteq DOMAIN _end_pos \union {s}
        /\ \A x \in DOMAIN g : g[x] = IF x = s THEN end ELSE _end_pos[x]
    BY DEF WithEnd
  <2> HIDE DEF g
  <2>3. QED
    BY <1>6, <1>8, <2>1, <2>2, PushTypes
<1>10. ASSUME ~error, Good(source, t, end) PROVE CutIn(source, Append(us, t), g, end)
  <2>1. CutIn(source, us, _end_pos, s)
    BY <1>10
  <2>2. Known(g, t) /\ EndIn(source, g, t) = end
    <3>1. s \in DOMAIN g /\ g[s] = end
      BY DEF WithEnd
    <3> HIDE DEF g, t
    <3>2. QED
      BY <1>5, <1>8, <3>1 DEF Known, EndIn
  <2>3. \A x \in DOMAIN _end_pos : x # s => x \in DOMAIN g /\ g[x] = _end_pos[x]
    BY DEF WithEnd
  <2> HIDE DEF g, t
  <2>4. QED
    BY <1>1, <1>5, <1>10, <2>1, <2>2, <2>3, OneMore
<1> HIDE DEF g, t
<1>11. phase' = "tokenizing" /\ phase = "tokenizing" /\ error \in BOOLEAN
  BY DEF Tokenizing, IInv
<1>12. error' \/ Doomed' \/ CutIn(source, tokens', _end_pos', pos')
  <2>1. CASE error \/ number.invalid
    BY <1>3, <2>1
  <2>2. CASE ~error /\ ~number.invalid /\ Good(source, t, end)
    BY <1>3, <1>10, <2>2
  <2>3. CASE ~error /\ ~number.invalid /\ CharIn(source, end) = "."
    BY <1>3, <1>11, <2>3 DEF Doomed, Tokenizing
  <2>4. QED
    BY <1>2, <1>4, <2>1, <2>2, <2>3
<1>13. error' \in BOOLEAN
  BY <1>2, <1>3, <1>11
<1>14. QED
  BY <1>3, <1>7, <1>9, <1>11, <1>12, <1>13 DEF IInv, Tokenizing

(* The sign that is taken back is the character before the number.         *)
LEMMA SignIsBefore ==
    ASSUME NEW src \in Seq(Char), NEW ts, NEW ends, NEW p, CutIn(src, ts, ends, p),
           ts # << >>, ts[Len(ts)].kind \in {"PLUS", "MINUS"}
    PROVE  CharIn(src, ts[Len(ts)].pos) \in {"+", "-"}
<1> DEFINE t == ts[Len(ts)]
           end == EndIn(src, ends, t)
<1>1. Len(ts) \in 1 .. Len(ts) /\ Len(ts) \in Nat
  BY EmptySeq DEF CutIn
<1>2. t \in Token /\ t.pos \in Nat /\ end \in Nat /\ Good(src, t, end)
  BY <1>1, EndsAreNaturals DEF CutIn
<1>3. t.kind \in PunctuationKind
      /\ (PunctuationSpelling[t.kind] = <<"+">> \/ PunctuationSpelling[t.kind] = <<"-">>)
  BY KindFacts
<1>4. Part(src, t.pos, end) = PunctuationSpelling[t.kind]
  BY <1>2, <1>3, SpelledFacts DEF Good
<1>5. t.pos < end /\ end <= Len(src)
  BY <1>2 DEF Good
<1> HIDE DEF t, end
<1>6. Part(src, t.pos, end)[1] = CharIn(src, (t.pos + 1) - 1)
  <2>1. 1 \in 1 .. end - t.pos
    BY <1>2, <1>5
  <2>2. PICK a \in Nat : a = t.pos
    BY <1>2
  <2>3. a <= end /\ end <= Len(src) /\ end \in Nat
    BY <1>2, <1>5, <2>2
  <2>4. \A k \in 1 .. end - a : Part(src, a, end)[k] = CharIn(src, (a + k) - 1)
    BY <2>3, PartFacts
  <2>5. QED
    BY <2>1, <2>2, <2>4
<1>7. (t.pos + 1) - 1 = t.pos
  BY <1>2
<1>8. QED
  BY <1>3, <1>4, <1>6, <1>7 DEF t

LEMMA NumberStep ==
    ASSUME IInv, TokenizeNumber PROVE IInv'
<1>1. /\ Tokenizing /\ CharIn(source, Start) \in Digit
      /\ source' = source /\ phase' = phase
  BY SameChar DEF TokenizeNumber
<1>2. PICK number :
         /\ number = NumberAt(Start)
         /\ IF SignBefore(Start)
            THEN PushNumber(number, Start - 1, SubSeq(tokens, 1, Len(tokens) - 1))
            ELSE PushNumber(number, Start, tokens)
  BY Zenon DEF TokenizeNumber
<1>3. /\ source \in Seq(Char) /\ pos \in 0 .. Len(source) /\ Len(source) \in Nat
      /\ Start \in 0 .. Len(source) /\ Start \in Nat
  <2>1. source \in Seq(Char) /\ pos \in 0 .. Len(source)
    BY DEF IInv, TypesIn
  <2>2. QED
    BY <2>1, CharFacts, StartFacts
<1>4. ~error => CutIn(source, tokens, _end_pos, Start)
  BY <1>1, CutToStart, SymbolFacts, DigitFacts
<1> DEFINE T == [kind : TokenKind, pos : 0 .. Len(source) - 1]
<1>5. tokens \in Seq(T)
  BY DEF IInv, TypesIn
<1>6. CASE SignBefore(Start)
  <2>1. PICK s : s = Start - 1
    OBVIOUS
  <2>2. PICK us : us = SubSeq(tokens, 1, Len(tokens) - 1)
    OBVIOUS
  <2>3. /\ tokens # << >> /\ tokens[Len(tokens)].pos + 1 = Start
        /\ tokens[Len(tokens)].kind \in {"PLUS", "MINUS"}
    BY <1>6 DEF SignBefore
  <2>4. Len(tokens) \in Nat /\ Len(tokens) \in 1 .. Len(tokens) /\ tokens[Len(tokens)] \in T
    <3> HIDE DEF T
    <3>1. QED
      BY <1>5, <2>3, EmptySeq, ElementOfSeq, LenProperties
  <2>5. s = tokens[Len(tokens)].pos /\ s + 1 = Start /\ s \in Nat
    BY <1>3, <2>1, <2>3, <2>4
  <2>6. us \in Seq(T)
    <3> HIDE DEF T
    <3>1. QED
      BY <1>5, <2>2, <2>4, SubSeqProperties
  <2>7. ~error => CutIn(source, us, _end_pos, s)
    BY <1>3, <1>4, <2>2, <2>3, <2>5, TakeBack
  <2>8. error \/ CharIn(source, s) \in {"+", "-"}
    BY <1>3, <1>4, <2>3, <2>5, SignIsBefore
  <2>9. error \/ (us # << >> => NoSign(source, us[Len(us)], s))
    BY <2>8, DigitFacts DEF NoSign
  <2>10. PushNumber(number, s, us)
    BY <1>2, <1>6, <2>1, <2>2
  <2>11. QED
    BY <1>1, <1>2, <2>5, <2>6, <2>7, <2>8, <2>9, <2>10, NumberPushed
<1>7. CASE ~SignBefore(Start)
  <2>1. PICK s : s = Start
    OBVIOUS
  <2>2. PICK us : us = tokens
    OBVIOUS
  <2>3. us # << >> => NoSign(source, us[Len(us)], s)
    BY <1>7, <2>1, <2>2 DEF SignBefore, NoSign
  <2>4. PushNumber(number, s, us)
    BY <1>2, <1>7, <2>1, <2>2
  <2>5. QED
    BY <1>1, <1>2, <1>3, <1>4, <1>5, <2>1, <2>2, <2>3, <2>4, NumberPushed
<1>8. QED
  BY <1>6, <1>7

LEMMA TypesGrow ==
    ASSUME NEW src, NEW p, NEW ts, NEW ends, TypesIn(src, p, ts, ends), NEW q \in p .. Len(src),
           Len(src) \in Nat
    PROVE  TypesIn(src, q, ts, ends)
<1>1. p \in 0 .. Len(src) /\ \A x \in DOMAIN ends : ends[x] \in x + 1 .. p /\ x \in Int
  BY DEF TypesIn
<1>2. q \in 0 .. Len(src) /\ \A x \in DOMAIN ends : ends[x] \in x + 1 .. q
  BY <1>1
<1>3. QED
  BY <1>2 DEF TypesIn

(* Space is skipped, and nothing else.                                     *)
LEMMA ToStart ==
    ASSUME IInv, Tokenizing, CharIn(source, Start) # "."
    PROVE  /\ TypesIn(source, Start, tokens, _end_pos)
           /\ ~Classless(source, 0, Start)
           /\ error \/ CutIn(source, tokens, _end_pos, Start)
<1>1. source \in Seq(Char) /\ pos \in 0 .. Len(source) /\ Len(source) \in Nat
  BY CharFacts DEF IInv, TypesIn
<1>2. Start \in pos .. Len(source) /\ Start \in 0 .. Len(source)
  BY <1>1, StartFacts
<1>3. Start \in Start .. Len(source) /\ ~Classless(source, Start, Start)
  BY <1>1, <1>2 DEF Classless
<1>4. ~Classless(source, 0, Start)
  BY <1>3, Steps
<1>5. TypesIn(source, Start, tokens, _end_pos)
  BY <1>1, <1>2, TypesGrow DEF IInv
<1>6. QED
  BY <1>4, <1>5, CutToStart

LEMMA OtherStep ==
    ASSUME IInv, TokenizeOther PROVE IInv'
<1>1. /\ Tokenizing /\ CharIn(source, Start) = "ctl" /\ pos' = Start
      /\ source' = source /\ tokens' = tokens /\ _end_pos' = _end_pos
      /\ error' = error /\ phase' = phase
  BY SameChar DEF TokenizeOther
<1>2. /\ TypesIn(source, Start, tokens, _end_pos)
      /\ ~Classless(source, 0, Start)
      /\ error \/ CutIn(source, tokens, _end_pos, Start)
  BY <1>1, SymbolFacts, ToStart
<1>3. QED
  BY <1>1, <1>2 DEF IInv, Tokenizing

LEMMA EndStep ==
    ASSUME IInv, EndOfText PROVE IInv'
<1>1. /\ Tokenizing /\ Start = Len(source) /\ pos' = Start
      /\ source' = source /\ tokens' = tokens /\ _end_pos' = _end_pos
      /\ error' = error /\ phase' = IF error THEN "refused" ELSE "tokenized"
  BY DEF EndOfText
<1>2. CharIn(source, Start) # "."
  <2>1. source \in Seq(Char)
    BY DEF IInv, TypesIn
  <2>2. Start \in Nat /\ Start >= Len(source)
    BY <1>1, <2>1, CharFacts
  <2>3. CharIn(source, Start) = NUL
    BY <2>1, <2>2, CharFacts
  <2>4. QED
    BY <2>3, SymbolFacts, Alphabet
<1>3. /\ TypesIn(source, Start, tokens, _end_pos)
      /\ ~Classless(source, 0, Start)
      /\ error \/ CutIn(source, tokens, _end_pos, Start)
  BY <1>1, <1>2, ToStart
<1>4. phase' \in {"tokenizing", "refused", "tokenized", "parsed", "undefined"}
      /\ (phase' = "tokenized" => ~error')
  BY <1>1
<1>5. error \in BOOLEAN
  BY DEF IInv
<1>6. QED
  BY <1>1, <1>3, <1>4, <1>5 DEF IInv

LEMMA HandOverStep ==
    ASSUME IInv, HandOver PROVE IInv'
<1>1. /\ phase = "tokenized" /\ phase' \in {"parsed", "undefined"} /\ pos' = pos
      /\ source' = source /\ tokens' = tokens /\ _end_pos' = _end_pos /\ error' = error
  BY DEF HandOver
<1>2. ~Tokenizing /\ ~Tokenizing'
  BY <1>1 DEF Tokenizing
<1>3. QED
  BY <1>1, <1>2 DEF IInv, Doomed

LEMMA StillStep ==
    ASSUME IInv, UNCHANGED tokenizer_vars PROVE IInv'
BY DEF IInv, Doomed, Tokenizing, tokenizer_vars

LEMMA InitKeeps ==
    ASSUME Init PROVE IInv
<1>1. /\ source \in Seq(Char) /\ pos = 0 /\ tokens = << >> /\ _end_pos = << >>
      /\ error = FALSE /\ phase = "tokenizing"
  BY DEF Init
<1>2. Len(source) \in Nat /\ pos \in 0 .. Len(source)
  BY <1>1, CharFacts
<1>3. DOMAIN _end_pos = {} /\ Len(tokens) = 0
  BY <1>1
<1>4. TypesIn(source, pos, tokens, _end_pos)
  <2> DEFINE T == [kind : TokenKind, pos : 0 .. Len(source) - 1]
  <2>1. tokens \in Seq(T)
    <3> HIDE DEF T
    <3>1. QED
      BY <1>1
  <2>2. QED
    BY <1>1, <1>2, <1>3, <2>1 DEF TypesIn
<1>5. ~Classless(source, 0, pos)
  BY <1>1 DEF Classless
<1>6. CutIn(source, tokens, _end_pos, pos)
  <2>1. tokens \in Seq(Token)
    <3>1. << >> \in Seq(Token)
      OBVIOUS
    <3>2. QED
      BY <1>1, <3>1
  <2>2. Gap(source, 0, pos)
    BY <1>1 DEF Gap
  <2>3. QED
    BY <1>1, <1>2, <1>3, <2>1, <2>2 DEF CutIn
<1>7. QED
  BY <1>1, <1>4, <1>5, <1>6 DEF IInv, Tokenizing

LEMMA NextKeeps ==
    ASSUME IInv, [TokenizerNext]_tokenizer_vars PROVE IInv'
<1>1. CASE TokenizePunctuation
  BY <1>1, PunctuationStep
<1>2. CASE TokenizeWord
  BY <1>2, WordStep
<1>3. CASE TokenizeNumber
  BY <1>3, NumberStep
<1>4. CASE TokenizeOther
  BY <1>4, OtherStep
<1>5. CASE EndOfText
  BY <1>5, EndStep
<1>6. CASE HandOver
  BY <1>6, HandOverStep
<1>7. CASE UNCHANGED tokenizer_vars
  BY <1>7, StillStep
<1>8. QED
  BY <1>1, <1>2, <1>3, <1>4, <1>5, <1>6, <1>7 DEF TokenizerNext, Tokenize

LEMMA SpecKeeps == TokenizerSpec => []IInv
<1>1. Init => IInv
  BY InitKeeps
<1>2. IInv /\ [TokenizerNext]_tokenizer_vars => IInv'
  BY NextKeeps
<1>3. QED
  BY <1>1, <1>2, PTL DEF TokenizerSpec

-----------------------------------------------------------------------------
(* Why a text that has been cut is right.                                  *)

(* Two tokens that touch could not have been one.                          *)
LEMMA TouchIsSeparate ==
    ASSUME NEW src \in Seq(Char), NEW first, NEW second, NEW e \in Nat, NEW e2 \in Nat,
           Good(src, first, e), Good(src, second, e2), second.pos = e,
           first.kind \in {"PLUS", "MINUS"} => first.pos + 1 = e,
           NoSign(src, first, second.pos)
    PROVE  LET f == Part(src, first.pos, e)
               s == Part(src, e, e2)
           IN  /\ ~(f[Len(f)] \in WordChar /\ s[1] \in WordChar)
               /\ ~(first.kind \in {"PLUS", "MINUS"} /\ s[1] \in Digit)
               /\ \A k \in PunctuationKind : f \o <<s[1]>> # Spelling(k)
<1> DEFINE f == Part(src, first.pos, e)
           s == Part(src, e, e2)
<1>1. PICK a \in Nat : a = first.pos
  BY DEF Good, Token
<1>2. /\ a < e /\ e < e2 /\ e <= Len(src) /\ e2 <= Len(src) /\ a <= e /\ e <= e2
  BY <1>1 DEF Good
<1>3. /\ f \in Seq(Char) /\ Len(f) = e - a
      /\ \A k \in 1 .. e - a : f[k] = CharIn(src, (a + k) - 1)
  BY <1>1, <1>2, PartFacts
<1>4. s[1] = CharIn(src, e)
  <2>1. \A k \in 1 .. e2 - e : s[k] = CharIn(src, (e + k) - 1)
    BY <1>2, PartFacts
  <2>2. 1 \in 1 .. e2 - e /\ (e + 1) - 1 = e
    BY <1>2
  <2>3. QED
    BY <2>1, <2>2
<1>5. IsSpelled(first, f)
  BY DEF Good
<1> HIDE DEF f, s
<1> DEFINE n == e - a
<1>6. n \in Nat /\ 1 \in 1 .. n /\ n \in 1 .. n /\ Len(f) = n /\ (a + 1) - 1 = a
  BY <1>2, <1>3
<1>7. f[1] = CharIn(src, a)
  BY <1>3, <1>6
<1>8. first.kind \in PunctuationKind =>
         f = PunctuationSpelling[first.kind] /\ f \in Seq(Punctuation)
  BY <1>5, SpelledFacts, PunctuationFacts
<1> HIDE DEF n
<1>9. ~(f[Len(f)] \in WordChar /\ s[1] \in WordChar)
  <2>1. CASE first.kind \in PunctuationKind
    <3>1. f[Len(f)] \in Punctuation
      BY <1>6, <1>8, <2>1, ElementOfSeq
    <3>2. QED
      BY <3>1, Alphabet
  <2>2. CASE first.kind \notin PunctuationKind
    BY <1>4, <2>2 DEF Good
  <2>3. QED
    BY <2>1, <2>2
<1>10. ~(first.kind \in {"PLUS", "MINUS"} /\ s[1] \in Digit)
  BY <1>4 DEF NoSign
<1>11. ASSUME NEW k \in PunctuationKind PROVE f \o <<s[1]>> # Spelling(k)
  <2>1. Spelling(k) = PunctuationSpelling[k]
    BY KindFacts DEF Spelling
  <2>2. CASE first.kind \in PunctuationKind
    BY <1>4, <1>8, <2>1, <2>2 DEF Good
  <2>3. CASE first.kind \notin PunctuationKind
    <3> SUFFICES ASSUME f \o <<s[1]>> = PunctuationSpelling[k] PROVE FALSE
      BY <2>1
    <3> DEFINE g == f \o <<s[1]>>
    <3>1. Len(g) = n + 1 /\ g[1] = f[1]
      <4>1. PICK c : c = s[1]
        OBVIOUS
      <4>2. Len(f \o <<c>>) = n + 1 /\ (f \o <<c>>)[1] = f[1]
        BY <1>3, <1>6
      <4>3. QED
        BY <4>1, <4>2
    <3>2. g \in Seq(Punctuation) /\ Len(g) \in {1, 2}
      BY PunctuationFacts
    <3> HIDE DEF g
    <3>3. n = 1 /\ 1 \in 1 .. Len(g)
      BY <1>6, <3>1, <3>2
    <3>4. CharIn(src, a) \in Punctuation
      BY <1>7, <3>1, <3>2, <3>3, ElementOfSeq
    <3>5. CharIn(src, a) \in WordChar \/ a + 1 < e
      BY <1>1, <2>3 DEF Good
    <3>6. ~(a + 1 < e)
      BY <1>2, <3>3 DEF n
    <3>7. QED
      BY <3>4, <3>5, <3>6, Alphabet
  <2>4. QED
    BY <2>2, <2>3
<1>12. QED
  BY <1>9, <1>10, <1>11 DEF f, s

(* A text that has been cut to its end.                                    *)
LEMMA CutIsRight ==
    ASSUME source \in Seq(Char), CutIn(source, tokens, _end_pos, Len(source))
    PROVE  TokensAreTheText
<1> DEFINE StartOf(k) == IF k > Len(tokens) THEN Len(source) ELSE tokens[k].pos
           EndOf(k)   == IF k = 0 THEN 0 ELSE TokenEnd(tokens[k])
           E(k)       == EndIn(source, _end_pos, tokens[k])
<1>1. \A a, b : Text(a, b) = Part(source, a, b)
  BY DEF Text, Part
<1>2. \A t : TokenEnd(t) = EndIn(source, _end_pos, t)
  BY SameEnd
<1>3. \A t : Word(t) = Part(source, t.pos, EndIn(source, _end_pos, t))
  BY <1>1, <1>2 DEF Word
<1>4. Len(tokens) \in Nat /\ Len(source) \in Nat /\ tokens \in Seq(Token)
  BY CharFacts, EndsAreNaturals DEF CutIn
<1>5. \A k \in 1 .. Len(tokens) :
         /\ tokens[k] \in Token /\ tokens[k].pos \in Nat /\ E(k) \in Nat
         /\ tokens[k].pos < E(k)
  BY EndsAreNaturals
<1>6. \A k \in 1 .. Len(tokens) : Good(source, tokens[k], E(k))
  BY DEF CutIn
<1>7. \A k \in 1 .. Len(tokens) : E(k) <= Len(source)
  BY <1>6 DEF Good
<1> HIDE DEF E
<1>8. ASSUME NEW k \in 0 .. Len(tokens)
      PROVE  /\ StartOf(k + 1) \in Nat /\ EndOf(k) \in Nat /\ StartOf(k + 1) <= Len(source)
             /\ Gap(source, EndOf(k), StartOf(k + 1))
  <2>1. EndOf(k) \in Nat /\ (k # 0 => EndOf(k) = E(k))
    BY <1>2, <1>4, <1>5 DEF E
  <2>2. CASE k = Len(tokens)
    <3>1. StartOf(k + 1) = Len(source)
      BY <1>4, <2>2
    <3>2. CASE k = 0
      <4>1. tokens = << >>
        BY <1>4, <2>2, <3>2, EmptySeq
      <4>2. Gap(source, 0, Len(source))
        BY <4>1 DEF CutIn
      <4>3. QED
        BY <1>4, <2>1, <3>1, <3>2, <4>2
    <3>3. CASE k # 0
      <4>1. tokens # << >>
        BY <1>4, <2>2, <3>3, EmptySeq
      <4>2. Gap(source, E(Len(tokens)), Len(source))
        BY <4>1 DEF CutIn, E
      <4>3. QED
        BY <1>4, <2>1, <2>2, <3>1, <3>3, <4>2
    <3>4. QED
      BY <3>2, <3>3
  <2>3. CASE k # Len(tokens)
    <3>1. k + 1 \in 1 .. Len(tokens) /\ StartOf(k + 1) = tokens[k + 1].pos
      BY <1>4, <2>3
    <3>2. tokens[k + 1].pos \in Nat /\ tokens[k + 1].pos <= Len(source)
      <4>1. PICK j \in 1 .. Len(tokens) : j = k + 1
        BY <3>1
      <4>2. tokens[j].pos \in Nat /\ tokens[j].pos < E(j) /\ E(j) <= Len(source) /\ E(j) \in Nat
        BY <1>5, <1>7
      <4>3. tokens[j].pos <= Len(source)
        BY <1>4, <4>2
      <4>4. QED
        BY <4>1, <4>2, <4>3
    <3>3. CASE k = 0
      <4>1. tokens # << >>
        BY <1>4, <2>3, <3>3, EmptySeq
      <4>2. Gap(source, 0, tokens[1].pos)
        BY <4>1 DEF CutIn
      <4>3. QED
        BY <2>1, <3>1, <3>2, <3>3, <4>2
    <3>4. CASE k # 0
      <4>1. k \in 1 .. Len(tokens) - 1
        BY <1>4, <2>3, <3>4
      <4>2. Gap(source, E(k), tokens[k + 1].pos)
        BY <4>1 DEF CutIn, E
      <4>3. QED
        BY <2>1, <3>1, <3>2, <3>4, <4>2
    <3>5. QED
      BY <3>3, <3>4
  <2>4. QED
    BY <2>2, <2>3
<1>9. ASSUME NEW k \in 0 .. Len(tokens)
      PROVE  EndOf(k) <= StartOf(k + 1) /\ AllIn(Text(EndOf(k), StartOf(k + 1)), Space)
  <2>1. PICK a \in Nat, b \in Nat : a = EndOf(k) /\ b = StartOf(k + 1)
    BY <1>8
  <2>2. a <= b /\ b <= Len(source) /\ \A j \in a .. b - 1 : CharIn(source, j) \in Space
    BY <1>8, <2>1 DEF Gap
  <2>3. AllIn(Part(source, a, b), Space)
    BY <2>2, AllInPart
  <2> HIDE DEF StartOf, EndOf
  <2>4. QED
    BY <1>1, <2>1, <2>2, <2>3
<1>10. ASSUME NEW k \in DOMAIN tokens
       PROVE  Word(tokens[k]) # << >> /\ IsSpelled(tokens[k], Word(tokens[k]))
  <2>1. k \in 1 .. Len(tokens)
    BY <1>4, LenProperties
  <2>2. PICK a \in Nat, b \in Nat : a = tokens[k].pos /\ b = E(k)
    BY <1>5, <2>1
  <2>3. a < b /\ b <= Len(source) /\ a <= b
    BY <1>5, <1>7, <2>1, <2>2
  <2>4. Word(tokens[k]) = Part(source, a, b)
    BY <1>3, <2>2 DEF E
  <2>5. Len(Part(source, a, b)) = b - a /\ Part(source, a, b) # << >>
    <3>1. Len(Part(source, a, b)) = b - a
      BY <2>3, PartFacts
    <3>2. QED
      BY <2>3, <3>1
  <2>6. IsSpelled(tokens[k], Part(source, a, b))
    BY <1>6, <2>1, <2>2 DEF Good
  <2>7. QED
    BY <2>4, <2>5, <2>6
<1>11. ASSUME NEW k \in 1 .. Len(tokens) - 1, EndOf(k) = StartOf(k + 1)
       PROVE  Separate(tokens[k], tokens[k + 1])
  <2>1. k \in 1 .. Len(tokens) /\ k + 1 \in 1 .. Len(tokens) /\ k # 0
    BY <1>4
  <2>2. PICK first, second : first = tokens[k] /\ second = tokens[k + 1]
    BY Zenon
  <2>3. PICK e \in Nat, e2 \in Nat : e = E(k) /\ e2 = E(k + 1)
    BY <1>5, <2>1
  <2>4. Good(source, first, e) /\ Good(source, second, e2)
    BY <1>6, <2>1, <2>2, <2>3
  <2>5. second.pos = e
    <3>1. EndOf(k) = E(k)
      BY <1>2, <2>1 DEF E
    <3>2. StartOf(k + 1) = tokens[k + 1].pos
      BY <1>4, <2>1
    <3>3. QED
      BY <1>11, <2>2, <2>3, <3>1, <3>2
  <2>6. NoSign(source, first, second.pos)
    BY <2>2, <2>3 DEF CutIn
  <2>7. first.kind \in {"PLUS", "MINUS"} => first.pos + 1 = e
    <3> SUFFICES ASSUME first.kind \in {"PLUS", "MINUS"} PROVE first.pos + 1 = e
      OBVIOUS
    <3>1. first.kind \in PunctuationKind /\ first.kind \notin Keyword
          /\ first.kind \notin SizedKind /\ Len(PunctuationSpelling[first.kind]) = 1
      <4>1. PunctuationSpelling[first.kind] = <<"+">> \/ PunctuationSpelling[first.kind] = <<"-">>
        BY KindFacts
      <4>2. Len(<<"+">>) = 1 /\ Len(<<"-">>) = 1
        OBVIOUS
      <4>3. QED
        BY <4>1, <4>2, KindFacts
    <3>2. e = EndIn(source, _end_pos, first)
      BY <2>2, <2>3 DEF E
    <3>3. EndIn(source, _end_pos, first) = first.pos + Len(Spelling(first.kind))
      BY <3>1 DEF EndIn
    <3>4. Spelling(first.kind) = PunctuationSpelling[first.kind]
      BY <3>1 DEF Spelling
    <3>5. QED
      BY <3>1, <3>2, <3>3, <3>4
  <2>8. Word(first) = Part(source, first.pos, e) /\ Word(second) = Part(source, e, e2)
    BY <1>3, <2>2, <2>3, <2>5 DEF E
  <2>9. Separate(first, second)
    BY <2>4, <2>5, <2>6, <2>7, <2>8, TouchIsSeparate, Zenon DEF Separate
  <2>10. QED
    BY <2>2, <2>3, <2>9
<1> HIDE DEF StartOf, EndOf
<1>12. QED
  BY <1>9, <1>10, <1>11, Zenon DEF TokensAreTheText, StartOf, EndOf

-----------------------------------------------------------------------------
(* The theorems.                                                           *)

(* tokenizer.c and token.c: positions and kinds are what they should be,   *)
(* and the end of a name or a number is after its start and no further     *)
(* than what has been read.                                                *)
THEOREM TokenizerTypeCorrect == TokenizerSpec => []TokenizerTypeOK
<1>1. IInv => TokenizerTypeOK
  BY SameTypes DEF IInv
<1>2. QED
  BY <1>1, SpecKeeps, PTL

(* tokenize: of any text that it does not refuse, the tokens are the text, *)
(* in its order, with only space between them, each spelled as its kind,   *)
(* and no two that touch could have been one.                              *)
THEOREM TokensAreCut == TokenizerSpec => []TokensAreTheText
<1>1. ASSUME IInv PROVE TokensAreTheText
  <2>1. CASE Tokenized
    <3>1. ~Tokenizing /\ ~error /\ pos = Len(source)
      BY <1>1, <2>1 DEF IInv, Tokenized, Tokenizing
    <3>2. CutIn(source, tokens, _end_pos, pos) /\ source \in Seq(Char)
      BY <1>1, <3>1 DEF IInv, Doomed, TypesIn
    <3>3. CutIn(source, tokens, _end_pos, Len(source))
      BY <3>1, <3>2
    <3>4. QED
      BY <3>2, <3>3, CutIsRight
  <2>2. CASE ~Tokenized
    BY <2>2 DEF TokensAreTheText
  <2>3. QED
    BY <2>1, <2>2
<1>2. QED
  BY <1>1, SpecKeeps, PTL

LEMMA SourceStays ==
    ASSUME [TokenizerNext]_tokenizer_vars PROVE source' = source
BY DEF TokenizerNext, Tokenize, TokenizePunctuation, TokenizeWord, TokenizeNumber, TokenizeOther,
       EndOfText, HandOver, tokenizer_vars

(* tokenize_one: a text with a character of no class, a control character  *)
(* or a byte that is not ASCII, is never done: the loop in tokenize turns  *)
(* at it for ever and neither returns tokens nor refuses.                  *)
THEOREM StrangeTextsNeverEnd == TokenizerSpec => (~Classified => []~TokenizingEnds)
<1>1. ASSUME IInv, ~Classified PROVE ~TokenizingEnds
  <2>1. source \in Seq(Char) /\ Len(source) \in Nat /\ ~Classless(source, 0, pos)
    BY <1>1, CharFacts DEF IInv, TypesIn
  <2>2. PICK k \in DOMAIN source : source[k] = "ctl"
    BY <1>1 DEF Classified
  <2>3. k \in 1 .. Len(source) /\ k \in Nat
    BY <2>1, <2>2, LenProperties
  <2>4. k - 1 \in 0 .. Len(source) - 1 /\ k - 1 \in Nat /\ k - 1 < Len(source) /\ (k - 1) + 1 = k
    BY <2>1, <2>3
  <2>5. CharIn(source, k - 1) = "ctl"
    BY <2>2, <2>4 DEF CharIn
  <2>6. pos # Len(source)
    BY <2>1, <2>4, <2>5 DEF Classless
  <2>7. QED
    BY <1>1, <2>6 DEF IInv, Tokenizing, TokenizingEnds
<1>2. ASSUME ~Classified, [TokenizerNext]_tokenizer_vars PROVE ~Classified'
  BY <1>2, SourceStays DEF Classified
<1>3. QED
  BY <1>1, <1>2, SpecKeeps, PTL DEF TokenizerSpec

(* tokenize_one: in any other text every turn of the loop reads at least   *)
(* one character or is the last: there are no more turns than characters.  *)
THEOREM TurnsAdvance ==
    TokenizerSpec => (Classified => [][Tokenizing /\ ~TokenizingEnds' => pos' > pos]_tokenizer_vars)
<1>1. ASSUME IInv, Classified, TokenizerNext, Tokenizing, ~TokenizingEnds' PROVE pos' > pos
  <2>1. /\ source \in Seq(Char) /\ Len(source) \in Nat /\ pos \in 0 .. Len(source)
        /\ Start \in pos .. Len(source) /\ Start \in 0 .. Len(source)
    <3>1. source \in Seq(Char) /\ pos \in 0 .. Len(source)
      BY <1>1 DEF IInv, TypesIn
    <3>2. QED
      BY <3>1, CharFacts, StartFacts
  <2>2. SUFFICES pos' \in Int /\ pos' > Start
    BY <2>1
  <2>3. CASE TokenizePunctuation
    <3> DEFINE kinds == PunctuationAt(Start)
    <3>1. /\ kinds = {} => pos' = Start + 1
          /\ kinds # {} => pos' = Start + Len(PunctuationSpelling[Longest(kinds)])
      BY <2>3 DEF TokenizePunctuation
    <3>2. kinds \subseteq PunctuationKind
      BY DEF PunctuationAt
    <3> HIDE DEF kinds
    <3>3. kinds # {} => Len(PunctuationSpelling[Longest(kinds)]) \in {1, 2}
      BY <3>2, LongestFacts, PunctuationFacts
    <3>4. CASE kinds = {}
      BY <2>1, <3>1, <3>4
    <3>5. CASE kinds # {}
      <4>1. PICK n \in {1, 2} : n = Len(PunctuationSpelling[Longest(kinds)])
        BY <3>3, <3>5
      <4>2. pos' = Start + n
        BY <3>1, <3>5, <4>1
      <4>3. QED
        BY <2>1, <4>2
    <3>6. QED
      BY <3>4, <3>5
  <2>4. CASE TokenizeWord
    <3>1. pos' = RunIn(source, Start, WordChar) /\ CharIn(source, Start) \in Opening
      BY <2>4, SameChar, SameRun, Zenon DEF TokenizeWord, Opening
    <3>2. WordChar \subseteq Char /\ CharIn(source, Start) \in WordChar
      BY <3>1, OpeningFacts, SymbolFacts
    <3>3. pos' \in Start + 1 .. Len(source)
      BY <2>1, <3>1, <3>2, RunBegins
    <3>4. QED
      BY <2>1, <3>3
  <2>5. CASE TokenizeNumber
    <3>1. CharIn(source, Start) \in Digit
      BY <2>5, SameChar DEF TokenizeNumber
    <3>2. PICK number : number = NumberAt(Start) /\ pos' = number.end
      BY <2>5, Zenon DEF TokenizeNumber, PushNumber
    <3>3. pos' \in Start + 1 .. Len(source)
      BY <2>1, <3>1, <3>2, NumberFacts
    <3>4. QED
      BY <2>1, <3>3
  <2>6. CASE TokenizeOther
    <3>1. CharIn(source, Start) = "ctl"
      BY <2>6, SameChar DEF TokenizeOther
    <3>2. Start < Len(source) /\ Start + 1 \in DOMAIN source
      <4>1. Start < Len(source) /\ Start \in Nat
        <5>1. CharIn(source, Start) \in Char
          BY <3>1, Alphabet
        <5>2. Start < Len(source)
          BY <2>1, <5>1, CharInside
        <5>3. QED
          BY <2>1, <5>2
      <4>2. Start + 1 \in 1 .. Len(source)
        BY <2>1, <4>1
      <4>3. QED
        BY <2>1, <4>1, <4>2, LenProperties
    <3>3. source[Start + 1] = "ctl"
      BY <3>1, <3>2 DEF CharIn
    <3>4. QED
      BY <1>1, <3>2, <3>3 DEF Classified
  <2>7. CASE EndOfText
    BY <1>1, <2>7 DEF EndOfText, TokenizingEnds
  <2>8. CASE HandOver
    BY <1>1, <2>8 DEF HandOver, Tokenizing
  <2>9. QED
    BY <1>1, <2>3, <2>4, <2>5, <2>6, <2>7, <2>8 DEF TokenizerNext, Tokenize
<1>2. ASSUME Classified, [TokenizerNext]_tokenizer_vars PROVE Classified'
  BY <1>2, SourceStays DEF Classified
<1>3. IInv /\ Classified /\ [TokenizerNext]_tokenizer_vars
      => [Tokenizing /\ ~TokenizingEnds' => pos' > pos]_tokenizer_vars
  BY <1>1
<1>4. QED
  BY <1>2, <1>3, SpecKeeps, PTL DEF TokenizerSpec

-----------------------------------------------------------------------------
(* Integer literals: what is computed digit after digit, V[k] and M[k]     *)
(* after k of them.                                                        *)

LEMMA DigitValues == \A d \in Digit : DigitValue[d] \in 0 .. 9
<1> DEFINE order == <<"0", "1", "2", "3", "4", "5", "6", "7", "8", "9">>
<1>1. DigitValue = [d \in {order[k] : k \in 1 .. 10} |-> (CHOOSE k \in 1 .. 10 : order[k] = d) - 1]
  BY Zenon DEF DigitValue
<1>2. \A d \in Digit : d \in {order[k] : k \in 1 .. 10}
  <2>1. Digit = {"0", "1", "2", "3", "4", "5", "6", "7", "8", "9"}
    BY DEF Digit
  <2>2. /\ order[1] = "0" /\ order[2] = "1" /\ order[3] = "2" /\ order[4] = "3"
        /\ order[5] = "4" /\ order[6] = "5" /\ order[7] = "6" /\ order[8] = "7"
        /\ order[9] = "8" /\ order[10] = "9"
    OBVIOUS
  <2>3. /\ 1 \in 1 .. 10 /\ 2 \in 1 .. 10 /\ 3 \in 1 .. 10 /\ 4 \in 1 .. 10 /\ 5 \in 1 .. 10
        /\ 6 \in 1 .. 10 /\ 7 \in 1 .. 10 /\ 8 \in 1 .. 10 /\ 9 \in 1 .. 10 /\ 10 \in 1 .. 10
    OBVIOUS
  <2> HIDE DEF order
  <2>4. QED
    BY <2>1, <2>2, <2>3, Zenon
<1> HIDE DEF order
<1>3. ASSUME NEW d \in {order[k] : k \in 1 .. 10} PROVE (CHOOSE k \in 1 .. 10 : order[k] = d) \in 1 .. 10
  <2>1. PICK k \in 1 .. 10 : order[k] = d
    OBVIOUS
  <2>2. QED
    BY <2>1
<1>4. \A n \in 1 .. 10 : n - 1 \in 0 .. 9
  OBVIOUS
<1>5. ASSUME NEW d \in Digit PROVE DigitValue[d] \in 0 .. 9
  <2> DEFINE n == CHOOSE k \in 1 .. 10 : order[k] = d
  <2>1. n \in 1 .. 10 /\ DigitValue[d] = n - 1
    BY <1>1, <1>2, <1>3
  <2> HIDE DEF n
  <2>2. QED
    BY <1>4, <2>1
<1>6. QED
  BY <1>5

IsValue(V, s, n) ==
    /\ V[0] = 0 /\ \A k \in 1 .. n : V[k] = 10 * V[k - 1] + DigitValue[s[k]]
    /\ DecimalValue(s) = V[n]

LEMMA ValueUnfolds ==
    ASSUME NEW n \in Nat, NEW s, Len(s) = n, \A k \in 1 .. n : s[k] \in Digit
    PROVE  \E V \in [0 .. n -> Nat] : IsValue(V, s, n)
<1> DEFINE Step(k, v) == 10 * v + DigitValue[s[k]]
           F == [k \in 1 .. n |-> [v \in Nat |-> Step(k, v)]]
           Upto[k \in 0 .. Len(s)] == IF k = 0 THEN 0 ELSE 10 * Upto[k - 1] + DigitValue[s[k]]
<1>1. ASSUME NEW k \in 1 .. n, NEW v \in Nat PROVE F[k][v] = Step(k, v) /\ F[k][v] \in Nat
  <2>1. DigitValue[s[k]] \in Nat
    BY DigitValues
  <2>2. F[k][v] = Step(k, v)
    OBVIOUS
  <2>3. QED
    BY <2>1, <2>2
<1>2. PICK f \in [0 .. n -> Nat] : Runs(f, 0, F, n)
  <2>1. StepsWithin(F, n, Nat) /\ 0 \in Nat
    BY <1>1 DEF StepsWithin
  <2> HIDE DEF F
  <2>2. QED
    BY <2>1, RecursionExists
<1>3. f[0] = 0 /\ \A k \in 1 .. n : f[k] = Step(k, f[k - 1])
  <2>1. \A k \in 1 .. n : f[k - 1] \in Nat
    OBVIOUS
  <2> HIDE DEF F, Step
  <2>2. QED
    BY <1>1, <1>2, <2>1 DEF Runs
<1> HIDE DEF F
<1>4. f = [k \in 0 .. Len(s) |-> IF k = 0 THEN 0 ELSE 10 * f[k - 1] + DigitValue[s[k]]]
  <2>1. \A k \in 0 .. n : k # 0 => k \in 1 .. n
    OBVIOUS
  <2>2. \A k \in 0 .. n : f[k] = IF k = 0 THEN 0 ELSE 10 * f[k - 1] + DigitValue[s[k]]
    BY <1>3, <2>1, Zenon
  <2>3. f = [k \in 0 .. n |-> f[k]]
    OBVIOUS
  <2>4. QED
    BY <2>2, <2>3, Zenon
<1>5. Upto = [k \in 0 .. Len(s) |-> IF k = 0 THEN 0 ELSE 10 * Upto[k - 1] + DigitValue[s[k]]]
  BY <1>4, Zenon
<1>6. DecimalValue(s) = Upto[n]
  BY DEF DecimalValue
<1> HIDE DEF Upto
<1>7. \A k \in 0 .. n : Upto[k] = f[k]
  <2>1. Upto[0] = f[0]
    BY <1>3, <1>5
  <2>2. \A k \in 0 .. n - 1 : Upto[k] = f[k] => Upto[k + 1] = f[k + 1]
    <3> SUFFICES ASSUME NEW k \in 0 .. n - 1, Upto[k] = f[k] PROVE Upto[k + 1] = f[k + 1]
      OBVIOUS
    <3>1. k + 1 \in 1 .. n /\ k + 1 \in 0 .. Len(s) /\ k + 1 # 0 /\ (k + 1) - 1 = k
      OBVIOUS
    <3>2. Upto[k + 1] = Step(k + 1, Upto[k])
      BY <1>5, <3>1
    <3>3. QED
      BY <1>3, <3>1, <3>2
  <2>3. n \in Nat
    OBVIOUS
  <2>4. QED
    BY ONLY <2>1, <2>2, <2>3, SameRecursion, Zenon
<1> HIDE DEF Step
<1>8. DecimalValue(s) = f[n]
  BY <1>6, <1>7
<1>9. \A k \in 1 .. n : f[k] = 10 * f[k - 1] + DigitValue[s[k]]
  BY <1>3, Zenon DEF Step
<1>10. IsValue(f, s, n)
  BY <1>3, <1>8, <1>9, Zenon DEF IsValue
<1>11. QED
  BY <1>2, <1>10, Zenon

(* The magnitude is the value, reduced once it has overflowed.             *)
Computed(m, overflowed) == [magnitude |-> m, overflowed |-> overflowed]

LEMMA WithDigitIs ==
    ASSUME NEW m \in Nat, NEW b \in BOOLEAN, NEW d
    PROVE  WithDigit(Computed(m, b), d) =
               IF b THEN Computed(m, b)
               ELSE IF m * 10 >= Limit THEN Computed((m * 10) % Limit, TRUE)
               ELSE Computed((m * 10 + DigitValue[d]) % Limit, m * 10 + DigitValue[d] >= Limit)
<1> DEFINE c == Computed(m, b)
<1>1. c.magnitude = m /\ c.overflowed = b
  BY DEF Computed
<1> HIDE DEF c
<1>2. WithDigit(c, d) =
          IF c.overflowed THEN c
          ELSE IF c.magnitude * 10 >= Limit THEN Computed((c.magnitude * 10) % Limit, TRUE)
          ELSE Computed((c.magnitude * 10 + DigitValue[d]) % Limit,
                        c.magnitude * 10 + DigitValue[d] >= Limit)
  BY Zenon DEF WithDigit, Computed
<1>3. QED
  BY <1>1, <1>2, Zenon DEF c

LEMMA Limits == Limit \in Nat \ {0} /\ Half \in Nat \ {0} /\ Limit = 2 * Half
  BY LimitAssumption

LEMMA RestOfLimit == \A u \in Nat : u % Limit \in Nat /\ (u < Limit => u % Limit = u)
<1> DEFINE L == Limit
<1>1. L \in Nat \ {0}
  BY Limits
<1> HIDE DEF L
<1>2. \A u \in Nat : u % L \in Nat /\ (u < L => u % L = u)
  BY <1>1
<1>3. QED
  BY <1>2 DEF L

IsMagnitude(M, s, n) ==
    /\ M[0] = Computed(0, FALSE) /\ Magnitude(s) = M[n]
    /\ \A k \in 1 .. n : M[k] = WithDigit(M[k - 1], s[k])

LEMMA MagnitudeUnfolds ==
    ASSUME NEW n \in Nat, NEW s, Len(s) = n, \A k \in 1 .. n : s[k] \in Digit
    PROVE  \E M : IsMagnitude(M, s, n)
<1> DEFINE V == {Computed(y[1], y[2]) : y \in Nat \X BOOLEAN}
           F == [k \in 1 .. n |-> [c \in V |-> WithDigit(c, s[k])]]
           Upto[k \in 0 .. Len(s)] ==
               IF k = 0 THEN [magnitude |-> 0, overflowed |-> FALSE]
               ELSE WithDigit(Upto[k - 1], s[k])
<1>1. \A m \in Nat, b \in BOOLEAN : Computed(m, b) \in V
  <2> SUFFICES ASSUME NEW m \in Nat, NEW b \in BOOLEAN PROVE Computed(m, b) \in V
    OBVIOUS
  <2>1. <<m, b>> \in Nat \X BOOLEAN /\ <<m, b>>[1] = m /\ <<m, b>>[2] = b
    OBVIOUS
  <2>2. QED
    BY <2>1, Zenon
<1>2. ASSUME NEW k \in 1 .. n, NEW c \in V PROVE F[k][c] = WithDigit(c, s[k]) /\ F[k][c] \in V
  <2>1. F[k][c] = WithDigit(c, s[k])
    <3> HIDE DEF V
    <3>1. QED
      OBVIOUS
  <2>2. PICK y \in Nat \X BOOLEAN : c = Computed(y[1], y[2])
    BY <1>2, Zenon
  <2> DEFINE m == y[1]
             b == y[2]
             d == DigitValue[s[k]]
  <2>3. m \in Nat /\ b \in BOOLEAN
    BY Zenon
  <2>4. d \in Nat
    BY DigitValues
  <2> HIDE DEF m, b, V
  <2>5. (m * 10) % Limit \in Nat /\ (m * 10 + d) % Limit \in Nat
    <3>1. m * 10 \in Nat /\ m * 10 + d \in Nat
      BY <2>3, <2>4
    <3>2. QED
      BY <3>1, RestOfLimit
  <2>6. (m * 10 + d >= Limit) \in BOOLEAN /\ TRUE \in BOOLEAN
    OBVIOUS
  <2>7. WithDigit(Computed(m, b), s[k]) =
            IF b THEN Computed(m, b)
            ELSE IF m * 10 >= Limit THEN Computed((m * 10) % Limit, TRUE)
            ELSE Computed((m * 10 + d) % Limit, m * 10 + d >= Limit)
    BY <2>3, WithDigitIs, Zenon
  <2>8. WithDigit(Computed(m, b), s[k]) \in V
    BY <1>1, <2>3, <2>5, <2>6, <2>7, Zenon
  <2>9. QED
    BY <2>1, <2>2, <2>8 DEF m, b
<1>3. Computed(0, FALSE) \in V
  BY <1>1
<1> DEFINE a == Computed(0, FALSE)
<1>4. PICK f \in [0 .. n -> V] : Runs(f, a, F, n)
  <2>1. StepsWithin(F, n, V) /\ a \in V
    BY <1>2, <1>3 DEF StepsWithin
  <2> HIDE DEF F, V, a
  <2>2. QED
    BY <2>1, RecursionExists
<1>5. f[0] = a /\ \A k \in 1 .. n : f[k] = WithDigit(f[k - 1], s[k])
  <2>1. \A k \in 1 .. n : f[k - 1] \in V
    <3> HIDE DEF V
    <3>1. QED
      OBVIOUS
  <2> HIDE DEF F, V, a
  <2>2. QED
    BY <1>2, <1>4, <2>1 DEF Runs
<1> HIDE DEF F, V
<1>6. a = [magnitude |-> 0, overflowed |-> FALSE]
  BY DEF Computed
<1> HIDE DEF a
<1>7. f = [k \in 0 .. Len(s) |-> IF k = 0 THEN [magnitude |-> 0, overflowed |-> FALSE]
                                 ELSE WithDigit(f[k - 1], s[k])]
  <2>1. \A k \in 0 .. n : k # 0 => k \in 1 .. n
    OBVIOUS
  <2>2. \A k \in 0 .. n : f[k] = IF k = 0 THEN [magnitude |-> 0, overflowed |-> FALSE]
                                 ELSE WithDigit(f[k - 1], s[k])
    BY <1>5, <1>6, <2>1, Zenon
  <2>3. f = [k \in 0 .. n |-> f[k]]
    OBVIOUS
  <2>4. QED
    BY <2>2, <2>3, Zenon
<1>8. Upto = [k \in 0 .. Len(s) |-> IF k = 0 THEN [magnitude |-> 0, overflowed |-> FALSE]
                                    ELSE WithDigit(Upto[k - 1], s[k])]
  BY <1>7, Zenon
<1>9. Magnitude(s) = Upto[n]
  BY DEF Magnitude
<1> HIDE DEF Upto
<1>10. \A k \in 1 .. n : Upto[k] = WithDigit(Upto[k - 1], s[k])
  <2> SUFFICES ASSUME NEW k \in 1 .. n PROVE Upto[k] = WithDigit(Upto[k - 1], s[k])
    OBVIOUS
  <2>1. k \in 0 .. Len(s) /\ k # 0
    OBVIOUS
  <2>2. QED
    BY <1>8, <2>1, Zenon
<1>11. Upto[0] = Computed(0, FALSE)
  <2>1. 0 \in 0 .. Len(s)
    OBVIOUS
  <2>2. QED
    BY <1>6, <1>8, <2>1, Zenon DEF a
<1>12. IsMagnitude(Upto, s, n)
  BY <1>9, <1>10, <1>11, Zenon DEF IsMagnitude
<1>13. QED
  BY <1>12, Zenon

(* It has overflowed if and only if the value does not fit a word.         *)
LEMMA MagnitudeIsValue ==
    ASSUME NEW n \in Nat, NEW s, Len(s) = n, \A k \in 1 .. n : s[k] \in Digit
    PROVE  \E m \in Nat, b \in BOOLEAN :
              /\ Magnitude(s) = Computed(m, b)
              /\ DecimalValue(s) \in Nat
              /\ b <=> DecimalValue(s) >= Limit
              /\ ~b => m = DecimalValue(s)
<1>a. PICK V \in [0 .. n -> Nat] : IsValue(V, s, n)
  BY ValueUnfolds, Zenon
<1>1. /\ V \in [0 .. n -> Nat]
      /\ V[0] = 0 /\ \A k \in 1 .. n : V[k] = 10 * V[k - 1] + DigitValue[s[k]]
      /\ DecimalValue(s) = V[n]
  BY <1>a, Zenon DEF IsValue
<1>b. PICK M : IsMagnitude(M, s, n)
  BY MagnitudeUnfolds, Zenon
<1>2. /\ M[0] = Computed(0, FALSE) /\ Magnitude(s) = M[n]
      /\ \A k \in 1 .. n : M[k] = WithDigit(M[k - 1], s[k])
  BY <1>b, Zenon DEF IsMagnitude
<1> DEFINE Agrees(k, m, b) == M[k] = Computed(m, b) /\ (b <=> V[k] >= Limit) /\ (~b => m = V[k])
           S == {k \in 0 .. n : \E m \in Nat : \E b \in BOOLEAN : Agrees(k, m, b)}
<1>3. 0 \in S
  <2>1. Agrees(0, 0, FALSE)
    BY <1>1, <1>2, Limits
  <2>2. 0 \in Nat /\ FALSE \in BOOLEAN /\ 0 \in 0 .. n
    OBVIOUS
  <2> HIDE DEF Agrees
  <2>3. QED
    BY <2>1, <2>2, Zenon
<1>4. ASSUME NEW k \in S \intersect 0 .. n - 1 PROVE k + 1 \in S
  <2>1. k + 1 \in 1 .. n /\ k + 1 \in 0 .. n /\ (k + 1) - 1 = k /\ k \in 0 .. n
    OBVIOUS
  <2>2. PICK m \in Nat : \E c \in BOOLEAN : Agrees(k, m, c)
    <3> HIDE DEF Agrees
    <3>1. QED
      OBVIOUS
  <2>3. PICK b \in BOOLEAN : Agrees(k, m, b)
    <3> HIDE DEF Agrees
    <3>1. QED
      BY <2>2, Zenon
  <2> DEFINE d == DigitValue[s[k + 1]]
             v == V[k]
             w == V[k + 1]
  <2>4. d \in 0 .. 9
    BY <2>1, DigitValues
  <2>5. v \in Nat /\ w \in Nat /\ w = 10 * v + d
    BY <1>1, <2>1
  <2>6. M[k + 1] = IF b THEN Computed(m, b)
                   ELSE IF m * 10 >= Limit THEN Computed((m * 10) % Limit, TRUE)
                   ELSE Computed((m * 10 + d) % Limit, m * 10 + d >= Limit)
    <3>1. M[k + 1] = WithDigit(Computed(m, b), s[k + 1])
      BY <1>2, <2>1, <2>3
    <3>2. QED
      BY <3>1, WithDigitIs, Zenon
  <2> HIDE DEF d
  <2>7. CASE b
    <3>1. V[k + 1] >= Limit
      BY <2>3, <2>4, <2>5, <2>7, Limits
    <3>2. Agrees(k + 1, m, b)
      BY <2>6, <2>7, <3>1, Zenon
    <3> HIDE DEF Agrees
    <3>3. QED
      BY <2>1, <3>2
  <2>8. CASE ~b /\ m * 10 >= Limit
    <3>1. V[k + 1] >= Limit
      BY <2>3, <2>4, <2>5, <2>8, Limits
    <3>2. Agrees(k + 1, (m * 10) % Limit, TRUE)
      BY <2>6, <2>8, <3>1, Zenon
    <3>3. (m * 10) % Limit \in Nat
      <4>1. m * 10 \in Nat
        OBVIOUS
      <4>2. QED
        BY <4>1, RestOfLimit
    <3> HIDE DEF Agrees
    <3>4. QED
      BY <2>1, <3>2, <3>3
  <2>9. CASE ~b /\ ~(m * 10 >= Limit)
    <3> DEFINE u == m * 10 + d
    <3>1. u = w /\ u \in Nat
      BY <2>3, <2>4, <2>5, <2>9
    <3>2. M[k + 1] = Computed(u % Limit, u >= Limit)
      BY <2>6, <2>9, Zenon
    <3> HIDE DEF u
    <3>3. u % Limit \in Nat
      BY <3>1, RestOfLimit
    <3>4. CASE u >= Limit
      <4>1. M[k + 1] = Computed(u % Limit, TRUE)
        BY <3>2, <3>4, Zenon
      <4>2. Agrees(k + 1, u % Limit, TRUE)
        BY <3>1, <3>4, <4>1
      <4> HIDE DEF Agrees
      <4>3. QED
        BY <2>1, <3>3, <4>2
    <3>5. CASE ~(u >= Limit)
      <4>1. M[k + 1] = Computed(u % Limit, FALSE)
        <5>1. (u >= Limit) = FALSE
          BY <3>5
        <5>2. QED
          BY <3>2, <5>1, Zenon
      <4>2. u % Limit = u
        BY <3>1, <3>5, RestOfLimit, Limits
      <4>3. Agrees(k + 1, u, FALSE)
        BY <3>1, <3>5, <4>1, <4>2
      <4> HIDE DEF Agrees
      <4>4. QED
        BY <2>1, <3>1, <4>3
    <3>6. QED
      BY <3>4, <3>5
  <2>10. QED
    BY <2>7, <2>8, <2>9
<1>5. n \in S
  <2>1. n \in 0 .. n
    OBVIOUS
  <2> HIDE DEF S
  <2>2. QED
    BY <1>3, <1>4, <2>1, IntervalInduction
<1>6. PICK m \in Nat : \E c \in BOOLEAN : Agrees(n, m, c)
  <2> HIDE DEF Agrees
  <2>1. QED
    BY <1>5
<1>7. PICK b \in BOOLEAN : Agrees(n, m, b)
  <2> HIDE DEF Agrees
  <2>1. QED
    BY <1>6, Zenon
<1>8. V[n] \in Nat
  OBVIOUS
<1>9. QED
  BY <1>1, <1>2, <1>7, <1>8, Zenon

LEMMA SignIs ==
    ASSUME NEW text
    PROVE  \/ text[1] = "+" /\ Sign(text) = 1 /\ Unsigned(text) = Tail(text)
           \/ text[1] = "-" /\ Sign(text) = -1 /\ Unsigned(text) = Tail(text)
           \/ text[1] \notin Signs /\ Sign(text) = 0 /\ Unsigned(text) = text
<1>1. CASE text[1] = "+"
  BY <1>1 DEF Sign, Unsigned, Signs
<1>2. CASE text[1] = "-"
  BY <1>2 DEF Sign, Unsigned, Signs
<1>3. CASE text[1] # "+" /\ text[1] # "-"
  BY <1>3 DEF Sign, Unsigned, Signs
<1>4. QED
  BY <1>1, <1>2, <1>3

(* Every integer literal is the number that is written, for words of any   *)
(* size, or it overflows, exactly if its value is none of a word, signed   *)
(* where the literal has a sign: also the least signed one, and where what *)
(* is left of a magnitude that overflowed is small (parser.c:261).         *)
THEOREM IntegerLiteralsAreExact ==
    ASSUME NEW text \in Seq(Char), IsExponent(text)
    PROVE  IsExact(parse_integer(text), text)
<1> DEFINE u == Unsigned(text)
           D == DecimalValue(u)
           value == SignedValue(text)
           fits == IF Sign(text) = 0 THEN value < Limit ELSE value \in -Half .. Half - 1
           literal == parse_integer(text)
<1>1. u \in Seq(Char) /\ \A k \in 1 .. Len(u) : u[k] \in Digit
  <2>1. text # << >> /\ AllIn(u, Digit)
    BY DEF IsExponent, IsWhole
  <2>2. u = text \/ u = Tail(text)
    BY SignIs
  <2>3. u \in Seq(Char)
    <3> HIDE DEF u
    <3>1. QED
      BY <2>1, <2>2
  <2> HIDE DEF u
  <2>4. QED
    BY <2>1, <2>3 DEF AllIn
<1>2. PICK m \in Nat : \E c \in BOOLEAN :
         Magnitude(u) = Computed(m, c) /\ D \in Nat /\ (c <=> D >= Limit) /\ (~c => m = D)
  <2>1. Len(u) \in Nat
    BY <1>1
  <2> HIDE DEF u
  <2>2. QED
    BY <1>1, <2>1, MagnitudeIsValue
<1>3. PICK b \in BOOLEAN :
         Magnitude(u) = Computed(m, b) /\ D \in Nat /\ (b <=> D >= Limit) /\ (~b => m = D)
  BY <1>2, Zenon
<1> DEFINE c == Computed(m, b)
<1>4. c.magnitude = m /\ c.overflowed = b
  BY DEF Computed
<1>5. Limit \in Nat \ {0} /\ Half \in Nat \ {0} /\ Limit = 2 * Half
  BY Limits
<1> HIDE DEF D, u, c
<1>6. CASE Sign(text) = 0
  <2>1. literal = UnsignedInteger(c) /\ value = D
    <3>1. u = text
      BY <1>6, SignIs DEF u
    <3>2. Sign(text) # -1
      BY <1>6
    <3>3. QED
      BY <1>3, <1>6, <3>1, <3>2, Zenon DEF parse_integer, SignedValue, D, u, c
  <2>2. literal = Integer("uint", IF b THEN 0 ELSE m, b)
    BY <1>4, <2>1, Zenon DEF UnsignedInteger
  <2>3. literal.kind = "uint" /\ literal.value = (IF b THEN 0 ELSE m) /\ literal.overflowed = b
    <3> HIDE DEF literal
    <3>1. QED
      BY <2>2, Zenon DEF Integer
  <2> HIDE DEF literal, value
  <2>4. fits <=> ~b
    BY <1>3, <1>5, <1>6, <2>1
  <2>5. fits => literal.value = value
    BY <1>3, <2>1, <2>3, <2>4
  <2> HIDE DEF fits
  <2>6. literal.overflowed <=> ~fits
    BY <2>3, <2>4, Zenon
  <2>7. QED
    BY <1>6, <2>3, <2>5, <2>6, Zenon DEF IsExact, fits, value, literal
<1>7. CASE Sign(text) # 0
  <2> DEFINE sign == Sign(text)
             ok == IF sign = 1 THEN m < Half ELSE m <= Half
  <2>1. u = Tail(text) /\ sign \in {1, -1}
    BY <1>7, SignIs DEF u
  <2>2. literal = SignedInteger(sign, c) /\ value = sign * D
    <3>1. literal = SignedInteger(sign, c)
      BY <1>3, <1>7, <2>1, Zenon DEF parse_integer, c
    <3>2. value = IF sign = -1 THEN -D ELSE D
      BY <2>1, Zenon DEF SignedValue, D, u
    <3>3. QED
      BY <1>3, <2>1, <3>1, <3>2
  <2>3. literal = Integer("int", IF ok THEN sign * m ELSE 0, b \/ ~ok)
    BY <1>4, <2>2, Zenon DEF SignedInteger
  <2>4. literal.kind = "int" /\ literal.value = (IF ok THEN sign * m ELSE 0)
        /\ literal.overflowed = (b \/ ~ok)
    <3> HIDE DEF literal, ok
    <3>1. QED
      BY <2>3, Zenon DEF Integer
  <2> HIDE DEF literal, value
  <2>5. fits <=> ~b /\ ok
    BY <1>3, <1>5, <1>7, <2>1, <2>2
  <2>6. fits => literal.value = value
    BY <1>3, <2>2, <2>4, <2>5
  <2> HIDE DEF fits, ok
  <2>7. literal.overflowed <=> ~fits
    BY <2>4, <2>5, Zenon
  <2>8. QED
    BY <1>7, <2>4, <2>6, <2>7, Zenon DEF IsExact, fits, value, literal
<1>8. QED
  BY <1>6, <1>7

-----------------------------------------------------------------------------
(* Real numbers.                                                           *)

LEMMA DigitsHaveValues == Digit \subseteq DOMAIN DigitValue /\ DigitValue["0"] = 0
<1> DEFINE order == <<"0", "1", "2", "3", "4", "5", "6", "7", "8", "9">>
           n == CHOOSE k \in 1 .. 10 : order[k] = "0"
<1>1. DigitValue = [d \in {order[k] : k \in 1 .. 10} |-> (CHOOSE k \in 1 .. 10 : order[k] = d) - 1]
  BY Zenon DEF DigitValue
<1>2. /\ order[1] = "0" /\ order[2] = "1" /\ order[3] = "2" /\ order[4] = "3"
      /\ order[5] = "4" /\ order[6] = "5" /\ order[7] = "6" /\ order[8] = "7"
      /\ order[9] = "8" /\ order[10] = "9"
  OBVIOUS
<1>3. \A d \in Digit : d \in {order[k] : k \in 1 .. 10}
  <2>1. Digit = {"0", "1", "2", "3", "4", "5", "6", "7", "8", "9"}
    BY DEF Digit
  <2>2. /\ 1 \in 1 .. 10 /\ 2 \in 1 .. 10 /\ 3 \in 1 .. 10 /\ 4 \in 1 .. 10 /\ 5 \in 1 .. 10
        /\ 6 \in 1 .. 10 /\ 7 \in 1 .. 10 /\ 8 \in 1 .. 10 /\ 9 \in 1 .. 10 /\ 10 \in 1 .. 10
    OBVIOUS
  <2> HIDE DEF order
  <2>3. QED
    BY <1>2, <2>1, <2>2, Zenon
<1> HIDE DEF order
<1>4. Digit \subseteq DOMAIN DigitValue
  BY <1>1, <1>3
<1>5. n = 1
  <2>1. \A k \in 1 .. 10 : k = 1 \/ k = 2 \/ k = 3 \/ k = 4 \/ k = 5 \/ k = 6 \/ k = 7 \/ k = 8
                           \/ k = 9 \/ k = 10
    OBVIOUS
  <2>2. \A k \in 1 .. 10 : order[k] = "0" => k = 1
    BY <1>2, <2>1, Zenon
  <2>3. 1 \in 1 .. 10
    OBVIOUS
  <2>4. QED
    BY <1>2, <2>2, <2>3, Zenon
<1>6. DigitValue["0"] = n - 1
  <2>1. "0" \in Digit
    BY DEF Digit
  <2>2. QED
    BY <1>1, <1>3, <2>1, Zenon
<1>7. QED
  BY <1>4, <1>5, <1>6

(* A mantissa has a digit at its end, and no "e".                          *)
LEMMA MantissaEnds ==
    ASSUME NEW m \in Seq(Char),
           \/ IsWhole(m)
           \/ \E p \in {k \in DOMAIN m : m[k] = "."} :
                 IsWhole(SubSeq(m, 1, p - 1)) /\ IsWhole(SubSeq(m, p + 1, Len(m)))
    PROVE  Len(m) \in Nat \ {0} /\ m[Len(m)] \in Digit /\ \A k \in 1 .. Len(m) : m[k] # "e"
<1>1. Len(m) \in Nat /\ DOMAIN m = 1 .. Len(m) /\ \A k \in 1 .. Len(m) : m[k] \in Char
  OBVIOUS
<1>2. CASE IsWhole(m)
  <2>1. \A k \in 1 .. Len(m) : m[k] \in Digit
    BY <1>1, <1>2 DEF IsWhole, AllIn
  <2>2. Len(m) # 0
    BY <1>2 DEF IsWhole
  <2>3. QED
    BY <1>1, <2>1, <2>2, DigitFacts
<1>3. CASE \E p \in {k \in DOMAIN m : m[k] = "."} :
              IsWhole(SubSeq(m, 1, p - 1)) /\ IsWhole(SubSeq(m, p + 1, Len(m)))
  <2>1. PICK p \in 1 .. Len(m) : /\ m[p] = "."
                                 /\ IsWhole(SubSeq(m, 1, p - 1))
                                 /\ IsWhole(SubSeq(m, p + 1, Len(m)))
    BY <1>1, <1>3
  <2> DEFINE n == Len(m)
             a == SubSeq(m, 1, p - 1)
             b == SubSeq(m, p + 1, n)
  <2>2. a \in Seq(Char) /\ Len(a) = p - 1 /\ \A k \in 1 .. p - 1 : a[k] = m[k]
    <3>1. \A k \in 1 .. p - 1 : m[k] \in Char
      BY <1>1
    <3>2. QED
      BY <1>1, <3>1, SubSeqProperties
  <2>3. b \in Seq(Char) /\ Len(b) = n - p /\ \A k \in 1 .. n - p : b[k] = m[p + k]
    <3>1. \A k \in p + 1 .. n : m[k] \in Char
      BY <1>1
    <3>a. n \in Nat /\ p \in 1 .. n
      BY <1>1
    <3> HIDE DEF n
    <3> DEFINE q == p + 1
    <3>2. q \in Int /\ n \in Int /\ (IF q <= n THEN (n - q) + 1 ELSE 0) = n - p
          /\ (n - q) + 1 = n - p
      BY <3>a
    <3>3. \A k \in 1 .. n - p : (q + k) - 1 = p + k
      BY <3>a
    <3> HIDE DEF q
    <3>4. /\ SubSeq(m, q, n) \in Seq(Char)
          /\ Len(SubSeq(m, q, n)) = n - p
          /\ \A k \in 1 .. n - p : SubSeq(m, q, n)[k] = m[(q + k) - 1]
      BY <3>1, <3>2, SubSeqProperties DEF q
    <3>5. QED
      BY <3>3, <3>4, Zenon DEF q
  <2>4. /\ \A k \in 1 .. p - 1 : m[k] \in Digit
        /\ \A k \in 1 .. n - p : m[p + k] \in Digit
        /\ n - p # 0
    <3> HIDE DEF a, b
    <3>1. IsWhole(a) /\ IsWhole(b)
      BY <2>1 DEF a, b
    <3>2. /\ \A k \in 1 .. p - 1 : a[k] \in Digit
          /\ \A k \in 1 .. n - p : b[k] \in Digit
      BY <2>2, <2>3, <3>1 DEF IsWhole, AllIn
    <3>3. Len(b) # 0
      BY <2>3, <3>1 DEF IsWhole
    <3>4. QED
      BY <2>2, <2>3, <3>2, <3>3
  <2>5. n - p \in 1 .. n - p /\ p + (n - p) = n /\ n \in Nat \ {0}
    <3>1. n \in Nat /\ p \in 1 .. n
      BY <1>1
    <3> HIDE DEF n
    <3>2. QED
      BY <2>4, <3>1
  <2>6. \A k \in 1 .. n : k \in 1 .. p - 1 \/ k = p \/ (k - p \in 1 .. n - p /\ p + (k - p) = k)
    BY <1>1
  <2>7. m[n] \in Digit
    BY <2>4, <2>5
  <2> HIDE DEF n
  <2>8. \A k \in 1 .. n : m[k] # "e"
    BY <2>1, <2>4, <2>6, DigitFacts, SymbolFacts, Zenon
  <2>9. QED
    BY <2>5, <2>7, <2>8 DEF n
<1>4. QED
  BY <1>2, <1>3

(* A real number has a mantissa of l characters, and maybe an exponent.    *)
IsCut(u, l) ==
    /\ l \in 1 .. Len(u) /\ u[l] \in Digit /\ \A k \in 1 .. l : u[k] # "e"
    /\ MantissaOf(u) = SubSeq(u, 1, l)
    /\ IF l < Len(u)
       THEN /\ u[l + 1] = "e" /\ ExponentText(u) = SubSeq(u, l + 2, Len(u))
            /\ IsExponent(ExponentText(u))
       ELSE ExponentText(u) = <<"0">>

LEMMA RealIsCut ==
    ASSUME NEW u \in Seq(Char), IsReal(u)
    PROVE  \E l \in 1 .. Len(u) : IsCut(u, l)
<1> DEFINE m == MantissaOf(u)
           n == Len(u)
           c == CHOOSE k \in DOMAIN u : u[k] = "e"
<1>1. n \in Nat /\ DOMAIN u = 1 .. n /\ \A k \in 1 .. n : u[k] \in Char
  OBVIOUS
<1>2. /\ \/ IsWhole(m)
         \/ \E p \in {k \in DOMAIN m : m[k] = "."} :
               IsWhole(SubSeq(m, 1, p - 1)) /\ IsWhole(SubSeq(m, p + 1, Len(m)))
      /\ Contains(u, "e") => IsExponent(ExponentText(u))
  BY Zenon DEF IsReal
<1>3. CASE ~Contains(u, "e")
  <2>1. m = u /\ ExponentText(u) = <<"0">>
    BY <1>3, Zenon DEF MantissaOf, ExponentText
  <2>2. n \in Nat \ {0} /\ u[n] \in Digit /\ \A k \in 1 .. n : u[k] # "e"
    BY <1>2, <2>1, MantissaEnds
  <2>3. SubSeq(u, 1, n) = u
    OBVIOUS
  <2>4. n \in 1 .. n /\ ~(n < n)
    BY <2>2
  <2>5. IsCut(u, n)
    BY <2>1, <2>2, <2>3, <2>4, Zenon DEF IsCut
  <2>6. QED
    BY <2>4, <2>5, Zenon
<1>4. CASE Contains(u, "e")
  <2>1. c \in 1 .. n /\ u[c] = "e"
    <3>1. \E k \in DOMAIN u : u[k] = "e"
      BY <1>1, <1>4 DEF Contains
    <3>2. QED
      BY <1>1, <3>1, Zenon
  <2>2. m = SubSeq(u, 1, c - 1) /\ ExponentText(u) = SubSeq(u, 1 + c, n)
    BY <1>4, Zenon DEF MantissaOf, ExponentText
  <2> HIDE DEF c, m
  <2> DEFINE l == c - 1
  <2>3. l \in 0 .. n - 1 /\ l + 1 = c /\ 1 + c = l + 2
    BY <1>1, <2>1
  <2>4. m \in Seq(Char) /\ Len(m) = l /\ \A k \in 1 .. l : m[k] = u[k]
    <3>1. \A k \in 1 .. l : u[k] \in Char
      BY <1>1, <2>3
    <3> HIDE DEF n
    <3>2. QED
      BY <2>2, <2>3, <3>1, SubSeqProperties
  <2> HIDE DEF l, n
  <2>5. l \in Nat \ {0} /\ m[l] \in Digit /\ \A k \in 1 .. l : m[k] # "e"
    BY <1>2, <2>4, MantissaEnds
  <2>6. l \in 1 .. n /\ l \in 1 .. l /\ l < n
    BY <1>1, <2>3, <2>5
  <2>7. IsCut(u, l)
    BY <1>2, <1>4, <2>1, <2>2, <2>3, <2>4, <2>5, <2>6, Zenon DEF IsCut, l, m, n
  <2>8. QED
    BY <2>6, <2>7, Zenon DEF n
<1>5. QED
  BY <1>3, <1>4

(* There is room for all its digits: it is read to its end, which is       *)
(* where the exponent is looked for, for the last of them is there.        *)
LEMMA MantissaIsRead ==
    ASSUME NEW u \in Seq(Char), NEW l, IsCut(u, l), digits_read(MantissaOf(u)) <= MaxDigits
    PROVE  MantissaText(u) = SubSeq(u, 1, l)
<1> DEFINE n == Len(u)
           D(j) == {i \in 1 .. j : u[i] \in DOMAIN DigitValue}
           ends == {k \in 0 .. n : \/ k = n
                                   \/ u[k + 1] = "e"
                                   \/ digits_read(SubSeq(u, 1, k)) = MaxDigits}
           least == CHOOSE k \in ends : \A j \in ends : k <= j
<1>1. n \in Nat /\ DOMAIN u = 1 .. n /\ \A k \in 1 .. n : u[k] \in Char
  OBVIOUS
<1>2. l \in 1 .. n /\ u[l] \in Digit /\ (\A k \in 1 .. l : u[k] # "e") /\ (l < n => u[l + 1] = "e")
  BY DEF IsCut
<1>3. ASSUME NEW k \in 0 .. n PROVE digits_read(SubSeq(u, 1, k)) = Cardinality(D(k))
  <2> DEFINE t == SubSeq(u, 1, k)
  <2>1. t \in Seq(Char) /\ Len(t) = k /\ \A i \in 1 .. k : t[i] = u[i]
    <3>1. \A i \in 1 .. k : u[i] \in Char
      BY <1>1
    <3> HIDE DEF n
    <3>2. QED
      BY <1>1, <3>1, SubSeqProperties
  <2> HIDE DEF t
  <2>2. DOMAIN t = 1 .. k
    BY <2>1
  <2>3. {i \in DOMAIN t : t[i] \in DOMAIN DigitValue} = D(k)
    BY <2>1, <2>2
  <2>4. QED
    BY <2>3, Zenon DEF digits_read, t, D
<1> HIDE DEF n, D
<1>a. l \in Nat /\ l <= n /\ l \in 0 .. n /\ l \in 1 .. l /\ (~(l < n) => l = n)
  BY <1>1, <1>2
<1>b. \A k \in ends : k \in 0 .. n
  OBVIOUS
<1>4. l \in ends
  BY <1>2, <1>a, Zenon
<1>5. ASSUME NEW k \in ends PROVE l <= k
  <2>a. k \in Nat
    BY <1>1, <1>b
  <2>1. SUFFICES ASSUME k < l PROVE FALSE
    <3> HIDE DEF ends
    <3>1. QED
      BY <1>a, <2>a
  <2>2. k \in 0 .. n /\ l \in 0 .. n /\ k # n /\ u[k + 1] # "e"
    <3>1. k \in 0 .. n /\ k + 1 \in 1 .. l /\ k # n
      <4> HIDE DEF ends
      <4>1. QED
        BY <1>1, <1>a, <1>b, <2>a, <2>1
    <3>2. QED
      BY <1>2, <1>a, <3>1, Zenon
  <2>3. Cardinality(D(k)) = MaxDigits
    <3>1. digits_read(SubSeq(u, 1, k)) = MaxDigits
      BY <2>2
    <3>2. QED
      BY <1>3, <2>2, <3>1, Zenon
  <2>4. Cardinality(D(l)) <= MaxDigits
    <3>1. MantissaOf(u) = SubSeq(u, 1, l)
      BY DEF IsCut
    <3> HIDE DEF ends
    <3>2. QED
      BY <1>3, <2>2, <3>1
  <2>5. D(k) \subseteq D(l) /\ l \in D(l) /\ l \notin D(k)
    <3> HIDE DEF ends
    <3>1. \A i \in 1 .. k : i \in 1 .. l
      BY <1>a, <2>a, <2>1
    <3>2. u[l] \in DOMAIN DigitValue
      BY <1>2, DigitsHaveValues, Zenon
    <3>3. l \in 1 .. l /\ l \notin 1 .. k
      BY <1>a, <2>a, <2>1
    <3>4. QED
      BY <3>1, <3>2, <3>3, Zenon DEF D
  <2>6. IsFiniteSet(D(l))
    <3> HIDE DEF ends
    <3>1. IsFiniteSet(1 .. l)
      <4>1. 1 \in Int /\ l \in Int
        BY <1>a
      <4>2. QED
        BY <4>1, FS_Interval, Zenon
    <3>a. D(l) \subseteq 1 .. l
      BY Zenon DEF D
    <3>2. QED
      BY <3>1, <3>a, FS_Subset
  <2>7. /\ Cardinality(D(k)) <= Cardinality(D(l)) /\ Cardinality(D(k)) # Cardinality(D(l))
        /\ Cardinality(D(k)) \in Nat /\ Cardinality(D(l)) \in Nat
    <3>1. IsFiniteSet(D(k)) /\ Cardinality(D(k)) <= Cardinality(D(l))
          /\ (Cardinality(D(l)) = Cardinality(D(k)) => D(l) = D(k))
      BY <2>5, <2>6, FS_Subset
    <3>2. Cardinality(D(k)) \in Nat /\ Cardinality(D(l)) \in Nat
      BY <2>6, <3>1, FS_CardinalityType
    <3>3. QED
      BY <2>5, <3>1, <3>2
  <2>8. QED
    BY <2>3, <2>4, <2>7
<1>6. \A k \in ends : k \in Nat
  <2> HIDE DEF ends
  <2>1. QED
    BY <1>1, <1>b
<1>7. MantissaText(u) = SubSeq(u, 1, least)
  BY Zenon DEF MantissaText, n
<1> HIDE DEF ends
<1>8. least \in ends /\ \A j \in ends : least <= j
  BY <1>4, <1>5, Zenon
<1>9. least = l
  BY <1>4, <1>5, <1>6, <1>8
<1>10. QED
  BY <1>7, <1>9

(* An exponent that is not extreme is the number that is written.          *)
LEMMA ExponentIsRead ==
    ASSUME NEW text \in Seq(Char), IsExponent(text), ~ExponentOf(text).extreme
    PROVE  /\ ExponentOf(text).bias = SignedValue(text) /\ SignedValue(text) \in Int
<1> DEFINE u == Unsigned(text)
           D == DecimalValue(u)
           M == Magnitude(u)
           h == (Half - 1) \div 2
           extreme == M.overflowed \/ M.magnitude >= h
           bias == IF extreme THEN 0 ELSE IF Sign(text) >= 0 THEN M.magnitude ELSE -M.magnitude
<1>1. u \in Seq(Char) /\ \A k \in 1 .. Len(u) : u[k] \in Digit
  <2>1. text # << >> /\ AllIn(u, Digit)
    BY DEF IsExponent, IsWhole
  <2>2. u = text \/ u = Tail(text)
    BY SignIs
  <2>3. u \in Seq(Char)
    <3> HIDE DEF u
    <3>1. QED
      BY <2>1, <2>2
  <2> HIDE DEF u
  <2>4. QED
    BY <2>1, <2>3 DEF AllIn
<1>2. PICK m \in Nat : \E c \in BOOLEAN :
         M = Computed(m, c) /\ D \in Nat /\ (c <=> D >= Limit) /\ (~c => m = D)
  <2>1. Len(u) \in Nat
    BY <1>1
  <2> HIDE DEF u
  <2>2. QED
    BY <1>1, <2>1, MagnitudeIsValue
<1>3. PICK b \in BOOLEAN :
         M = Computed(m, b) /\ D \in Nat /\ (b <=> D >= Limit) /\ (~b => m = D)
  BY <1>2, Zenon
<1>4. M.magnitude = m /\ M.overflowed = b
  <2> HIDE DEF M
  <2>1. QED
    BY <1>3 DEF Computed
<1>5. ExponentOf(text) = [bias |-> bias, extreme |-> extreme]
  BY Zenon DEF ExponentOf
<1> HIDE DEF extreme
<1>6. ExponentOf(text).bias = bias /\ ExponentOf(text).extreme = extreme
  <2> HIDE DEF bias
  <2>1. QED
    BY <1>5
<1>7. ~extreme
  BY <1>6, Zenon
<1>8. ~M.overflowed
  BY <1>7, Zenon DEF extreme
<1>9. m = D /\ D \in Nat
  BY <1>3, <1>4, <1>8, Zenon
<1> HIDE DEF M, D
<1>10. ExponentOf(text).bias = IF Sign(text) >= 0 THEN D ELSE -D
  BY <1>4, <1>6, <1>7, <1>9, Zenon
<1>11. CASE Sign(text) = -1
  <2>1. u = Tail(text)
    BY <1>11, SignIs
  <2>2. SignedValue(text) = -D
    BY <1>11, <2>1, Zenon DEF SignedValue, D
  <2>3. ~(Sign(text) >= 0)
    BY <1>11
  <2>4. -D \in Int
    BY <1>9
  <2>5. QED
    BY <1>10, <2>2, <2>3, <2>4, Zenon
<1>12. CASE Sign(text) # -1
  <2>1. Sign(text) >= 0
    <3>1. Sign(text) = 1 \/ Sign(text) = 0
      BY <1>12, SignIs
    <3>2. QED
      BY <3>1
  <2>2. SignedValue(text) = D
    BY <1>12, Zenon DEF SignedValue, D
  <2>3. D \in Int
    BY <1>9
  <2>4. QED
    BY <1>10, <2>1, <2>2, <2>3, Zenon
<1>13. QED
  BY <1>11, <1>12

LEMMA NoExponentIsZero == SignedValue(<<"0">>) = 0
<1> DEFINE s == <<"0">>
<1>1. Len(s) = 1 /\ s[1] = "0"
  OBVIOUS
<1>2. "0" \in Digit /\ "0" # "+" /\ "0" # "-"
  BY Zenon DEF Digit
<1> HIDE DEF s
<1>3. Sign(s) = 0 /\ Unsigned(s) = s
  BY <1>1, <1>2, SignIs
<1>4. \A k \in 1 .. 1 : s[k] \in Digit
  BY <1>1, <1>2
<1>5. PICK V \in [0 .. 1 -> Nat] : IsValue(V, s, 1)
  BY <1>1, <1>4, ValueUnfolds
<1>6. V[0] = 0 /\ V[1] = 10 * V[0] + DigitValue["0"] /\ DecimalValue(s) = V[1]
  <2>1. 1 \in 1 .. 1 /\ 1 - 1 = 0
    OBVIOUS
  <2>2. V[1] = 10 * V[1 - 1] + DigitValue[s[1]]
    BY <1>5, <2>1, Zenon DEF IsValue
  <2>3. V[0] = 0 /\ DecimalValue(s) = V[1]
    BY <1>5, Zenon DEF IsValue
  <2>4. QED
    BY <1>1, <2>1, <2>2, <2>3
<1>7. DecimalValue(s) = 0
  BY <1>6, DigitsHaveValues
<1>8. Sign(s) # -1
  BY <1>3
<1>9. QED
  BY <1>3, <1>7, <1>8, Zenon DEF SignedValue, s

LEMMA DecimalsAreCounted ==
    ASSUME NEW m \in Seq(Char)
    PROVE  Decimals(m) \in Int
<1> DEFINE c == CHOOSE k \in DOMAIN m : m[k] = "."
<1>1. Len(m) \in Int /\ DOMAIN m = 1 .. Len(m)
  OBVIOUS
<1>2. CASE Contains(m, ".")
  <2>1. c \in 1 .. Len(m)
    <3>1. \E k \in DOMAIN m : m[k] = "."
      BY <1>1, <1>2 DEF Contains
    <3>2. QED
      BY <1>1, <3>1, Zenon
  <2>2. Decimals(m) = Len(m) - c
    BY <1>2, Zenon DEF Decimals
  <2> HIDE DEF c
  <2>3. QED
    BY <1>1, <2>1, <2>2
<1>3. CASE ~Contains(m, ".")
  BY <1>3 DEF Decimals
<1>4. QED
  BY <1>2, <1>3

(* Every float literal is the number that is written, to be rounded: its   *)
(* digits, with the point where it is, times ten to its exponent, if it    *)
(* has no more digits than are read and its exponent is not an extreme one *)
(* (parser.c:418-455), whatever the sizes of a word and of a mantissa.     *)
(* The loop that reads the digits then stops where the exponent begins,    *)
(* and not before, though it stops at the last digit there is room for.    *)
THEOREM FloatLiteralsAreExact ==
    ASSUME NEW text \in Seq(Char), text # << >>, IsReal(Unsigned(text)),
           digits_read(MantissaOf(Unsigned(text))) <= MaxDigits,
           ~ExponentOf(ExponentText(Unsigned(text))).extreme
    PROVE  LET literal == parse_float(text)
           IN  /\ literal.value.magnitude
                      = build_positive_f64(Digits(Unsigned(text)), Power(Unsigned(text)))
               /\ literal.value.negative <=> Sign(text) = -1
<1> DEFINE u == Unsigned(text)
           m == MantissaOf(u)
           x == ExponentText(u)
           n == Len(u)
<1>1. u \in Seq(Char)
  <2>1. u = text \/ u = Tail(text)
    BY SignIs
  <2> HIDE DEF u
  <2>2. QED
    BY <2>1
<1> HIDE DEF u
<1>2. PICK l \in 1 .. Len(u) : IsCut(u, l)
  BY <1>1, RealIsCut DEF u
<1>3. m = SubSeq(u, 1, l) /\ MantissaText(u) = m
  <2>1. m = SubSeq(u, 1, l)
    BY <1>2 DEF IsCut
  <2>2. digits_read(m) <= MaxDigits
    BY DEF u
  <2>3. QED
    BY <1>1, <1>2, <2>1, <2>2, MantissaIsRead
<1>4. m \in Seq(Char) /\ Len(m) = l /\ l \in Nat /\ n \in Nat
  <2>1. \A k \in 1 .. l : u[k] \in Char
    BY <1>1, <1>2
  <2>2. l \in Nat /\ n \in Nat /\ 1 <= l /\ (l - 1) + 1 = l
    BY <1>1, <1>2
  <2> HIDE DEF m
  <2>3. QED
    BY <1>3, <2>1, <2>2, SubSeqProperties
<1> HIDE DEF m, n
<1>5. ExponentAfter(u, m).extreme = FALSE /\ ExponentAfter(u, m).bias = SignedValue(x)
      /\ SignedValue(x) \in Int
  <2>1. CASE l < n
    <3>1. u[l + 1] = "e" /\ x = SubSeq(u, l + 2, n) /\ IsExponent(x)
      BY <1>2, <2>1, Zenon DEF IsCut, n
    <3>2. ExponentAfter(u, m) = ExponentOf(SubSeq(u, l + 2, n))
      BY <1>4, <2>1, <3>1, Zenon DEF ExponentAfter, n
    <3>3. x \in Seq(Char)
      <4>1. \A k \in l + 2 .. n : u[k] \in Char
        <5>1. \A k \in l + 2 .. n : k \in 1 .. n
          BY <1>4
        <5>2. \A k \in 1 .. n : u[k] \in Char
          BY <1>1 DEF n
        <5>3. QED
          BY <5>1, <5>2
      <4>2. l + 2 \in Int /\ n \in Int
        BY <1>4
      <4> HIDE DEF x
      <4>3. QED
        BY <3>1, <4>1, <4>2, SubSeqProperties
    <3>4. ExponentAfter(u, m) = ExponentOf(x)
      BY <3>1, <3>2, Zenon
    <3>5. ~ExponentOf(x).extreme
      BY DEF u
    <3>6. ExponentOf(x).extreme \in BOOLEAN
      BY DEF ExponentOf
    <3> HIDE DEF x
    <3>7. QED
      BY <3>1, <3>3, <3>4, <3>5, <3>6, ExponentIsRead, Zenon
  <2>2. CASE ~(l < n)
    <3>1. x = <<"0">>
      BY <1>2, <2>2, Zenon DEF IsCut, n
    <3>2. ExponentAfter(u, m) = NoExponent
      BY <1>4, <2>2, Zenon DEF ExponentAfter, n
    <3>3. SignedValue(x) = 0
      BY <3>1, NoExponentIsZero, Zenon
    <3>4. NoExponent.extreme = FALSE /\ NoExponent.bias = 0
      BY DEF NoExponent
    <3>5. 0 \in Int
      OBVIOUS
    <3>6. QED
      BY <3>2, <3>3, <3>4, <3>5, Zenon
  <2>3. QED
    BY <2>1, <2>2
<1>6. FloatMagnitude(u, m) = build_positive_f64(Digits(u), Power(u))
  <2> DEFINE e == ExponentAfter(u, m)
             d == Decimals(m)
  <2>1. FloatMagnitude(u, m) = Scaled(DecimalValue(DigitsIn(m)), -d, e)
    BY Zenon DEF FloatMagnitude
  <2>2. FloatMagnitude(u, m) = build_positive_f64(DecimalValue(DigitsIn(m)), -d + e.bias)
    BY <1>5, <2>1, Zenon DEF Scaled
  <2>3. Digits(u) = DecimalValue(DigitsIn(m)) /\ Power(u) = SignedValue(x) - d
    BY Zenon DEF Digits, Power, m
  <2>4. -d + e.bias = SignedValue(x) - d
    <3>1. d \in Int
      BY <1>4, DecimalsAreCounted
    <3> HIDE DEF d, e, x
    <3>2. -d + SignedValue(x) = SignedValue(x) - d
      BY <1>5, <3>1
    <3>3. QED
      BY <1>5, <3>2, Zenon DEF e
  <2>5. QED
    BY <2>2, <2>3, <2>4, Zenon
<1> DEFINE v == [negative |-> Sign(text) = -1, magnitude |-> FloatMagnitude(u, m)]
<1>7. parse_float(text) = [kind |-> "float", value |-> v, overflowed |-> FALSE]
  BY <1>3, Zenon DEF parse_float, u
<1>8. v.magnitude = FloatMagnitude(u, m) /\ (v.negative <=> Sign(text) = -1)
  OBVIOUS
<1> HIDE DEF v
<1>9. parse_float(text).value = v
  BY <1>7
<1>10. QED
  BY <1>6, <1>8, <1>9, Zenon DEF u
=============================================================================
