---------------------------- MODULE MCAssembler ----------------------------
(***************************************************************************)
(* Texts for model-checking the assembler.                                 *)
(***************************************************************************)
EXTENDS Disassembler

SeqsUpTo(S, n) == UNION {[1 .. k -> S] : k \in 0 .. n}

Ns == {0, 5, 6, 647, 648}

(* No two runs of letters, or of digits, are next to each other.           *)
Separate(s) ==
    \A k \in 1 .. Len(s) - 1 :
        ~\/ IsLetters(s[k]) /\ IsLetters(s[k + 1])
         \/ s[k] \in Numeral /\ s[k + 1] \in Numeral

-----------------------------------------------------------------------------
(* Lines of every form, in every order.                                    *)
A == <<":", "a">>
A1 == <<":", "a", "_", "5">>

Lines3 ==
    {<< >>, A, A1 \o <<" ">>, <<" ", "nop">>, <<"loc", " ">> \o A, <<"loc", " ", " ">> \o A1,
     <<"sca", " ", "-", "5", " ">>, <<"sys", " ", " ", "hi">>, <<"sys", " ", "dbg", " ", "%", "5">>,
     <<"foo">>, <<"(">>}

Break == <<"\n">>
LineTexts ==
    {l \o Break \o m : l, m \in Lines3} \union {l \o Break \o m \o Break \o n : l, m, n \in Lines3}

(* Arguments of every form.                                                *)
Heads == {<<"res">>, <<"sca">>, <<"var">>, <<"loc">>, <<"sys", " ", "dbg">>, <<"sys">>, <<"nop">>, <<":", "a">>}
ArgumentLexemes == {" ", "5", "-", "%", ":", "a"}
ArgumentTexts == {h \o a : h \in Heads, a \in SeqsUpTo(ArgumentLexemes, 4)}

Limits ==
    {h \o <<" ">> \o s \o <<ToString(n)>> :
        h \in {<<"res">>, <<"sca">>, <<"var">>, <<"var", " ", "%">>, <<"sys", " ", "dbg", " ", "%">>},
        s \in {<< >>, <<"+">>, <<"-">>}, n \in Ns}

(* Anything.                                                               *)
Soups == SeqsUpTo({"nop", "loc", "a", " ", "\n", ":", "_"}, 5)

AllTexts == {t \in LineTexts \union ArgumentTexts \union Limits \union Soups : Separate(t)}
=============================================================================
