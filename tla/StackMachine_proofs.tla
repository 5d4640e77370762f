------------------------- MODULE StackMachine_proofs -------------------------
(***************************************************************************)
(* Proof that the machine of module Vm implements the stack machine of     *)
(* module StackMachine, for every set of programs, every width of words    *)
(* and every size of the memory blocks: a step on the two blocks is a step *)
(* of the stack machine, and behaviour is undefined only where that of the *)
(* stack machine is.                                                       *)
(***************************************************************************)
EXTENDS VmRefinement, Vm_proofs

(* The sequences a value stack and the frames stand for, as functions of   *)
(* them, so that what is said of them can be carried over a step.          *)
Words(vs) == [i \in 1 .. vs.top |-> vs.data[i - 1]]

End(l, fs, k) == IF k = Len(l) THEN fs.top ELSE l[k + 1].base - FrameWords

Variables(l, fs, k) == [i \in 1 .. End(l, fs, k) - l[k].base |-> fs.words[l[k].base + i - 1]]

Calls(l, fs) ==
    [k \in 1 .. Len(l) |-> [return_ip |-> l[k].return_ip, locals |-> Variables(l, fs, k)]]

(* A call that fits in the first block of the frames fits in this one.     *)
BlockInv == status # "undefined" => frames.block = FrameBlock

-----------------------------------------------------------------------------
(* The value stack.                                                        *)

LEMMA WordsAreSeq ==
    ASSUME NEW vs, StackTyped(vs)
    PROVE  /\ Words(vs) \in Seq(Word)
           /\ Len(Words(vs)) = vs.top
           /\ vs.top \in Nat
           /\ DOMAIN Words(vs) = 1 .. vs.top
           /\ \A i \in 1 .. vs.top : Words(vs)[i] = vs.data[i - 1]
<1>1. vs.top \in Nat /\ \A i \in 0 .. vs.top - 1 : vs.data[i] \in Word
  BY DEF StackTyped
<1>2. \A i \in 1 .. vs.top : vs.data[i - 1] \in Word
  BY <1>1
<1>3. QED
  BY <1>1, <1>2 DEF Words

LEMMA PushedWords ==
    ASSUME NEW vs, StackTyped(vs), NEW w \in Word
    PROVE  Words(push(vs, w)) = Append(Words(vs), w)
<1> DEFINE p == push(vs, w)
<1>1. StackTyped(p) /\ p.top = vs.top + 1
  BY PushKeepsType
<1>2. /\ vs.capacity \in Nat \ {0} /\ vs.top \in 0 .. vs.capacity
      /\ vs.data \in [0 .. vs.capacity - 1 -> Nat]
  BY DEF StackTyped
<1>3. p.data[vs.top] = w /\ \A i \in 0 .. vs.top - 1 : p.data[i] = vs.data[i]
  <2> DEFINE s == IF vs.top = vs.capacity THEN Grown(vs) ELSE vs
  <2>1. /\ s = [data |-> s.data, top |-> s.top, capacity |-> s.capacity]
        /\ 0 .. vs.top \subseteq DOMAIN s.data
        /\ \A i \in 0 .. vs.top - 1 : s.data[i] = vs.data[i]
    <3>1. CASE vs.top = vs.capacity
      <4>1. s = [data |-> Realloc(vs.data, 2 * vs.capacity), top |-> vs.top,
                 capacity |-> 2 * vs.capacity]
        BY <3>1 DEF Grown, StackTyped
      <4>2. QED
        BY <1>2, <3>1, <4>1 DEF Realloc
    <3>2. CASE vs.top # vs.capacity
      BY <1>2, <3>2 DEF StackTyped
    <3>3. QED
      BY <3>1, <3>2
  <2> HIDE DEF s
  <2>2. p = [s EXCEPT !.data[vs.top] = w, !.top = @ + 1]
    BY DEF push, s
  <2> HIDE DEF p
  <2>3. p.data = [s.data EXCEPT ![vs.top] = w]
    BY <2>1, <2>2
  <2>4. QED
    BY <1>2, <2>1, <2>3
<1> HIDE DEF p
<1>4. /\ Words(vs) \in Seq(Word) /\ Len(Words(vs)) = vs.top /\ vs.top \in Nat
      /\ \A i \in 1 .. vs.top : Words(vs)[i] = vs.data[i - 1]
  BY WordsAreSeq
<1>5. /\ Words(p) \in Seq(Word) /\ Len(Words(p)) = vs.top + 1
      /\ \A i \in 1 .. vs.top + 1 : Words(p)[i] = p.data[i - 1]
  BY <1>1, WordsAreSeq
<1>6. /\ Append(Words(vs), w) \in Seq(Word) /\ Len(Append(Words(vs), w)) = vs.top + 1
      /\ Append(Words(vs), w)[vs.top + 1] = w
      /\ \A i \in 1 .. vs.top : Append(Words(vs), w)[i] = Words(vs)[i]
  BY <1>4
<1>7. ASSUME NEW i \in 1 .. vs.top + 1
      PROVE  Words(p)[i] = Append(Words(vs), w)[i]
  <2>1. CASE i = vs.top + 1
    BY <1>3, <1>4, <1>5, <1>6, <2>1
  <2>2. CASE i # vs.top + 1
    <3>1. i \in 1 .. vs.top /\ i - 1 \in 0 .. vs.top - 1
      BY <1>4, <2>2
    <3>2. QED
      BY <1>3, <1>4, <1>5, <1>6, <3>1
  <2>3. QED
    BY <2>1, <2>2
<1>8. QED
  BY <1>5, <1>6, <1>7, SeqEqual DEF p

LEMMA PoppedWords ==
    ASSUME NEW vs, StackTyped(vs), NEW n \in Nat, vs.top >= n
    PROVE  Words(pop(vs, n)) = SubSeq(Words(vs), 1, Len(Words(vs)) - n)
<1> DEFINE p == pop(vs, n)
           s == SubSeq(Words(vs), 1, Len(Words(vs)) - n)
<1>1. StackTyped(p) /\ p.top = vs.top - n
  BY PopKeepsType
<1>2. p.data = vs.data
  BY DEF pop, StackTyped
<1> HIDE DEF p
<1>3. /\ Words(vs) \in Seq(Word) /\ Len(Words(vs)) = vs.top /\ vs.top \in Nat
      /\ \A i \in 1 .. vs.top : Words(vs)[i] = vs.data[i - 1]
  BY WordsAreSeq
<1>4. /\ Words(p) \in Seq(Word) /\ Len(Words(p)) = vs.top - n
      /\ \A i \in 1 .. vs.top - n : Words(p)[i] = vs.data[i - 1]
  BY <1>1, <1>2, WordsAreSeq
<1>5. vs.top - n \in 0 .. vs.top
  BY <1>3
<1>6. /\ s \in Seq(Word) /\ Len(s) = vs.top - n
      /\ \A i \in 1 .. vs.top - n : s[i] = Words(vs)[i]
  BY <1>3, <1>5, SubSeqProperties
<1>7. \A i \in 1 .. vs.top - n : i \in 1 .. vs.top
  <2>1. vs.top \in Nat /\ n \in Nat
    BY <1>3
  <2>2. \A x, y \in Nat : \A i \in 1 .. x - y : i \in 1 .. x
    OBVIOUS
  <2>3. QED
    BY <2>1, <2>2
<1> HIDE DEF s
<1>8. \A i \in 1 .. vs.top - n : Words(p)[i] = s[i]
  BY <1>3, <1>4, <1>6, <1>7
<1>9. QED
  BY <1>4, <1>6, <1>8, SeqEqual DEF p, s
-----------------------------------------------------------------------------
(* The frames.                                                             *)

(* What the layout says of one call, in terms of End.                      *)
LEMMA CallFacts ==
    ASSUME FramesInv, Layout, NEW k \in 1 .. Len(live)
    PROVE  /\ live[k].base \in Nat /\ live[k].return_ip \in Nat
           /\ End(live, frames, k) \in Nat
           /\ live[k].base <= End(live, frames, k)
           /\ End(live, frames, k) <= frames.top
           /\ k # Len(live) => /\ End(live, frames, k) <= frames.local_variables - FrameWords
                               /\ k + 1 \in 1 .. Len(live)
           /\ k = Len(live) => /\ live[k].base = frames.local_variables
                               /\ End(live, frames, k) = frames.top
           /\ \A i \in live[k].base .. End(live, frames, k) - 1 :
                 frames.words[i] \in Word
<1>1. /\ live \in Seq([base : Nat, return_ip : Nat]) /\ Len(live) \in Nat
      /\ frames.top \in Nat /\ frames.local_variables \in 0 .. frames.top /\ FrameWords = 2
  BY VmAssumption DEF FramesInv, FramesTyped
<1>2. live[k] \in [base : Nat, return_ip : Nat]
  BY <1>1, ElementOfSeq
<1>3. End(live, frames, k) = VariablesEnd(k)
  BY DEF End, VariablesEnd
<1>4. \A i \in live[k].base .. End(live, frames, k) - 1 : frames.words[i] \in Word
  BY <1>3 DEF Layout, VariablesAreWords
<1>5. End(live, frames, k) \in Int /\ End(live, frames, k) <= frames.top
  BY <1>3, VariablesEndBelow
<1>6. CASE k = Len(live)
  <2>1. live[k].base = frames.local_variables /\ End(live, frames, k) = frames.top
    BY <1>6 DEF Layout, Chained, End
  <2>2. QED
    BY <1>1, <1>2, <1>4, <1>6, <2>1
<1>7. CASE k # Len(live)
  <2>1. k + 1 \in 1 .. Len(live) /\ k + 1 \in 2 .. Len(live) /\ (k + 1) - 1 = k
    BY <1>1, <1>7
  <2>2. End(live, frames, k) = live[k + 1].base - FrameWords
    BY <1>7 DEF End
  <2>3. live[k + 1].base \in Nat /\ live[k + 1].base <= frames.local_variables
    BY <2>1, BasesBelow
  <2>4. live[k].base <= live[k + 1].base - FrameWords
    BY <2>1 DEF Layout, Chained
  <2>5. live[k].base \in Nat /\ live[k].return_ip \in Nat
    BY <1>2
  <2>6. /\ End(live, frames, k) \in Nat
        /\ live[k].base <= End(live, frames, k)
        /\ End(live, frames, k) <= frames.local_variables - FrameWords
    <3> DEFINE e == End(live, frames, k)
               b == live[k].base
               c == live[k + 1].base
    <3>1. /\ e = c - FrameWords /\ c \in Nat /\ c <= frames.local_variables
          /\ b <= c - FrameWords /\ b \in Nat
      BY <2>2, <2>3, <2>4, <2>5
    <3> HIDE DEF b, c, e
    <3>2. e \in Nat /\ b <= e /\ e <= frames.local_variables - FrameWords
      BY <1>1, <3>1
    <3>3. QED
      BY <3>2 DEF b, e
  <2>7. QED
    BY <1>4, <1>5, <1>7, <2>1, <2>5, <2>6
<1>8. QED
  BY <1>6, <1>7

CallRecord == [return_ip : Nat, locals : Seq(Word)]

LEMMA VariablesAreSeq ==
    ASSUME FramesInv, Layout, NEW k \in 1 .. Len(live)
    PROVE  /\ Variables(live, frames, k) \in Seq(Word)
           /\ Len(Variables(live, frames, k)) = End(live, frames, k) - live[k].base
           /\ \A i \in 1 .. End(live, frames, k) - live[k].base :
                 Variables(live, frames, k)[i] = frames.words[live[k].base + i - 1]
<1> DEFINE b == live[k].base
           n == End(live, frames, k) - b
<1>1. b \in Nat /\ n \in Nat /\ End(live, frames, k) = b + n
  BY CallFacts
<1>2. \A i \in b .. b + n - 1 : frames.words[i] \in Word
  BY <1>1, CallFacts
<1>3. Variables(live, frames, k) = [i \in 1 .. n |-> frames.words[b + i - 1]]
  BY DEF Variables
<1> HIDE DEF b, n
<1>4. \A i \in 1 .. n : frames.words[b + i - 1] \in Word
  BY <1>1, <1>2
<1> DEFINE f == [i \in 1 .. n |-> frames.words[b + i - 1]]
<1>5. f \in [1 .. n -> Word] /\ \A i \in 1 .. n : f[i] = frames.words[b + i - 1]
  BY <1>4
<1>6. f \in Seq(Word) /\ Len(f) = n
  <2> HIDE DEF f
  <2>1. QED
    BY <1>1, <1>5
<1>7. QED
  BY <1>3, <1>5, <1>6 DEF b, n

LEMMA CallsAreSeq ==
    ASSUME FramesInv, Layout
    PROVE  /\ Calls(live, frames) \in Seq(CallRecord)
           /\ Len(Calls(live, frames)) = Len(live)
           /\ Len(live) \in Nat \ {0}
           /\ \A k \in 1 .. Len(live) :
                 Calls(live, frames)[k] =
                     [return_ip |-> live[k].return_ip, locals |-> Variables(live, frames, k)]
<1>1. Len(live) \in Nat \ {0}
  BY DEF FramesInv, Layout, Chained
<1>2. \A k \in 1 .. Len(live) :
         [return_ip |-> live[k].return_ip, locals |-> Variables(live, frames, k)] \in CallRecord
  BY CallFacts, VariablesAreSeq DEF CallRecord
<1>3. QED
  BY <1>1, <1>2 DEF Calls

(* The abstract state of a machine that is not in status "undefined".      *)
LEMMA StateIs ==
    status # "undefined" =>
        /\ StackOf = Words(value_stack)
        /\ CallsOf = Calls(live, frames)
        /\ SpaceOf = frames.top
<1>1. \A k \in 1 .. Len(live) : LocalsOf(k) = Variables(live, frames, k)
  BY DEF LocalsOf, Variables, VariablesEnd, End
<1>2. QED
  BY <1>1 DEF StackOf, Words, CallsOf, Calls, SpaceOf, Defined

LEMMA StateWillBe ==
    status' # "undefined" =>
        /\ StackOf' = Words(value_stack')
        /\ CallsOf' = Calls(live', frames')
        /\ SpaceOf' = frames'.top
<1>1. \A k \in 1 .. Len(live') : LocalsOf(k)' = Variables(live', frames', k)
  BY DEF LocalsOf, Variables, VariablesEnd, End
<1>2. QED
  BY <1>1 DEF StackOf, Words, CallsOf, Calls, SpaceOf, Defined
-----------------------------------------------------------------------------
(* Changes of the frames.                                                  *)

LEMMA SameVariables ==
    ASSUME NEW l, NEW fs, NEW k, l[k].base \in Nat, End(l, fs, k) \in Nat,
           NEW m, NEW gs, m[k].base = l[k].base, End(m, gs, k) = End(l, fs, k),
           \A i \in l[k].base .. End(l, fs, k) - 1 : gs.words[i] = fs.words[i]
    PROVE  Variables(m, gs, k) = Variables(l, fs, k)
<1> DEFINE b == l[k].base
           n == End(l, fs, k) - b
<1>1. b \in Nat /\ n \in Int /\ End(l, fs, k) = b + n
  OBVIOUS
<1>2. /\ Variables(l, fs, k) = [i \in 1 .. n |-> fs.words[b + i - 1]]
      /\ Variables(m, gs, k) = [i \in 1 .. n |-> gs.words[b + i - 1]]
  BY DEF Variables
<1>3. \A i \in b .. b + n - 1 : gs.words[i] = fs.words[i]
  BY <1>1
<1> HIDE DEF b, n
<1>4. \A i \in 1 .. n : gs.words[b + i - 1] = fs.words[b + i - 1]
  BY <1>1, <1>3
<1>5. QED
  BY <1>2, <1>4

(* A step that leaves the callers' words as they are changes the variables *)
(* of the current call only.                                               *)
LEMMA CurrentChanges ==
    ASSUME FramesInv, Layout, NEW gs,
           \A i \in 0 .. frames.local_variables - 1 : gs.words[i] = frames.words[i]
    PROVE  Calls(live, gs) =
              [Calls(live, frames) EXCEPT ![Len(live)].locals = Variables(live, gs, Len(live))]
<1> DEFINE n == Len(live)
           C == Calls(live, frames)
<1>1. /\ n \in Nat \ {0} /\ DOMAIN C = 1 .. n /\ FrameWords = 2
      /\ frames.local_variables \in Nat
      /\ \A k \in 1 .. n :
            C[k] = [return_ip |-> live[k].return_ip, locals |-> Variables(live, frames, k)]
  BY CallsAreSeq, VmAssumption DEF Calls, FramesInv, FramesTyped
<1>2. ASSUME NEW k \in 1 .. n, k # n
      PROVE  Variables(live, gs, k) = Variables(live, frames, k)
  <2>1. /\ live[k].base \in Nat /\ End(live, frames, k) \in Nat
        /\ End(live, frames, k) <= frames.local_variables - FrameWords
    BY <1>2, CallFacts
  <2>2. End(live, gs, k) = End(live, frames, k)
    BY <1>2 DEF End
  <2>3. \A i \in live[k].base .. End(live, frames, k) - 1 :
           i \in 0 .. frames.local_variables - 1
    BY <1>1, <2>1
  <2>4. \A i \in live[k].base .. End(live, frames, k) - 1 : gs.words[i] = frames.words[i]
    BY <2>3
  <2>5. QED
    BY <2>1, <2>2, <2>4, SameVariables
<1>3. Calls(live, gs) =
         [k \in 1 .. n |-> [return_ip |-> live[k].return_ip, locals |-> Variables(live, gs, k)]]
  BY DEF Calls
<1> HIDE DEF C
<1>4. [C EXCEPT ![n].locals = Variables(live, gs, n)] =
         [C EXCEPT ![n] = [return_ip |-> live[n].return_ip, locals |-> Variables(live, gs, n)]]
  <2>1. n \in 1 .. n
    BY <1>1
  <2> DEFINE r == C[n]
             V == Variables(live, gs, n)
  <2>2. r = [return_ip |-> live[n].return_ip, locals |-> Variables(live, frames, n)]
    BY <1>1, <2>1
  <2>3. [C EXCEPT ![n].locals = V] = [C EXCEPT ![n] = [r EXCEPT !.locals = V]]
    OBVIOUS
  <2> HIDE DEF V
  <2>4. [r EXCEPT !.locals = V] = [return_ip |-> live[n].return_ip, locals |-> V]
    BY <2>2
  <2>5. QED
    BY <2>3, <2>4 DEF V
<1>5. \A k \in 1 .. n : k # n =>
         [return_ip |-> live[k].return_ip, locals |-> Variables(live, gs, k)] = C[k]
  BY <1>1, <1>2
<1>6. /\ C = [k \in 1 .. n |-> C[k]]
      /\ [C EXCEPT ![n] = [return_ip |-> live[n].return_ip, locals |-> Variables(live, gs, n)]] =
            [k \in 1 .. n |-> IF k = n THEN [return_ip |-> live[n].return_ip,
                                             locals |-> Variables(live, gs, n)]
                                       ELSE C[k]]
  BY <1>1 DEF C, Calls
<1>7. QED
  BY <1>3, <1>4, <1>5, <1>6 DEF C

LEMMA CallAdded ==
    ASSUME FramesInv, Layout, NEW r \in [base : Nat, return_ip : Nat],
           r.base = frames.top + FrameWords,
           NEW gs, gs.top = r.base,
           \A i \in 0 .. frames.top - 1 : gs.words[i] = frames.words[i]
    PROVE  Calls(Append(live, r), gs) =
              Append(Calls(live, frames), [return_ip |-> r.return_ip, locals |-> << >>])
<1> DEFINE n == Len(live)
           m == Append(live, r)
           C == Calls(live, frames)
           c == [return_ip |-> r.return_ip, locals |-> << >>]
<1>1. live \in Seq([base : Nat, return_ip : Nat]) /\ live # << >> /\ FrameWords = 2
  BY VmAssumption DEF FramesInv, Layout, Chained
<1>2. /\ n \in Nat \ {0} /\ Len(m) = n + 1 /\ m[n + 1] = r
      /\ \A k \in 1 .. n : m[k] = live[k]
  BY <1>1, AppendFacts
<1>3. frames.top \in Nat
  BY DEF FramesInv, FramesTyped
<1> HIDE DEF m, n
<1>4. ASSUME NEW k \in 1 .. n
      PROVE  Variables(m, gs, k) = Variables(live, frames, k)
  <2>1. /\ live[k].base \in Nat /\ End(live, frames, k) \in Nat
        /\ End(live, frames, k) <= frames.top
    BY CallFacts DEF n
  <2>2. End(m, gs, k) = End(live, frames, k)
    <3>1. k # Len(m)
      BY <1>2
    <3>2. CASE k = n
      <4>1. End(m, gs, k) = r.base - FrameWords
        BY <1>2, <3>1, <3>2 DEF End
      <4>2. End(live, frames, k) = frames.top
        BY <3>2 DEF End, n
      <4>3. r.base - FrameWords = frames.top
        BY <1>1, <1>3
      <4>4. QED
        BY <4>1, <4>2, <4>3
    <3>3. CASE k # n
      <4>1. k + 1 \in 1 .. n
        BY <1>2, <3>3
      <4>2. QED
        BY <1>2, <3>1, <3>3, <4>1 DEF End, n
    <3>4. QED
      BY <3>2, <3>3
  <2>3. \A i \in live[k].base .. End(live, frames, k) - 1 : i \in 0 .. frames.top - 1
    BY <1>3, <2>1
  <2>4. \A i \in live[k].base .. End(live, frames, k) - 1 : gs.words[i] = frames.words[i]
    BY <2>3
  <2>5. m[k].base = live[k].base
    BY <1>2
  <2>6. QED
    BY <2>1, <2>2, <2>4, <2>5, SameVariables
<1>5. Variables(m, gs, n + 1) = << >>
  <2>1. End(m, gs, n + 1) = gs.top /\ m[n + 1].base = gs.top /\ gs.top \in Nat
    BY <1>2 DEF End
  <2>2. 1 .. gs.top - gs.top = {}
    BY <2>1
  <2>3. QED
    BY <2>1, <2>2 DEF Variables
<1>6. Calls(m, gs) =
         [k \in 1 .. n + 1 |-> [return_ip |-> m[k].return_ip, locals |-> Variables(m, gs, k)]]
  BY <1>2 DEF Calls
<1>7. /\ C \in Seq(CallRecord) /\ Len(C) = n
      /\ \A k \in 1 .. n :
            C[k] = [return_ip |-> live[k].return_ip, locals |-> Variables(live, frames, k)]
  BY CallsAreSeq DEF n
<1>8. c \in CallRecord
  BY DEF CallRecord
<1> HIDE DEF C, c
<1>9. Append(C, c) = [k \in 1 .. n + 1 |-> IF k = n + 1 THEN c ELSE C[k]]
  <2> DEFINE s == Append(C, c)
  <2>1. C # << >>
    BY <1>2, <1>7
  <2>2. /\ s \in Seq(CallRecord) /\ Len(s) = n + 1 /\ s[n + 1] = c
        /\ \A k \in 1 .. n : s[k] = C[k]
    BY <1>7, <1>8, <2>1, AppendFacts
  <2> HIDE DEF s
  <2>3. s = [k \in 1 .. n + 1 |-> s[k]]
    BY <1>2, <2>2
  <2>4. \A k \in 1 .. n + 1 : s[k] = IF k = n + 1 THEN c ELSE C[k]
    BY <1>2, <2>2
  <2>5. QED
    BY <2>3, <2>4 DEF s
<1>10. \A k \in 1 .. n + 1 :
          [return_ip |-> m[k].return_ip, locals |-> Variables(m, gs, k)] =
              IF k = n + 1 THEN c ELSE C[k]
  <2> SUFFICES ASSUME NEW k \in 1 .. n + 1
               PROVE  [return_ip |-> m[k].return_ip, locals |-> Variables(m, gs, k)] =
                          IF k = n + 1 THEN c ELSE C[k]
    OBVIOUS
  <2>1. CASE k = n + 1
    BY <1>2, <1>5, <2>1 DEF c
  <2>2. CASE k # n + 1
    <3>1. k \in 1 .. n
      BY <1>2, <2>2
    <3>2. QED
      BY <1>2, <1>4, <1>7, <2>2, <3>1
  <2>3. QED
    BY <2>1, <2>2
<1>11. QED
  BY <1>6, <1>9, <1>10 DEF m, C, c

LEMMA CallRemoved ==
    ASSUME FramesInv, Layout, Len(live) >= 2, NEW gs, gs.words = frames.words,
           gs.top = frames.local_variables - FrameWords
    PROVE  Calls(SubSeq(live, 1, Len(live) - 1), gs) =
              SubSeq(Calls(live, frames), 1, Len(live) - 1)
<1> DEFINE n == Len(live)
           m == SubSeq(live, 1, n - 1)
           C == Calls(live, frames)
<1>1. live \in Seq([base : Nat, return_ip : Nat]) /\ n \in Nat /\ n >= 2
  BY DEF FramesInv
<1>2. Len(m) = n - 1 /\ \A k \in 1 .. n - 1 : m[k] = live[k]
  <2>1. \A k \in 1 .. Len(live) : live[k] \in [base : Nat, return_ip : Nat]
    BY <1>1, ElementOfSeq
  <2>2. \A k \in 1 .. n - 1 : k \in 1 .. Len(live)
    BY <1>1
  <2>3. 1 \in Int /\ n - 1 \in Int /\ 1 <= n - 1
    BY <1>1
  <2> HIDE DEF n
  <2>4. QED
    BY <1>1, <2>1, <2>2, <2>3, SubSeqProperties
<1>3. live[n].base = frames.local_variables
  BY DEF Layout, Chained
<1> HIDE DEF m, n
<1>4. ASSUME NEW k \in 1 .. n - 1
      PROVE  Variables(m, gs, k) = Variables(live, frames, k)
  <2>0. k \in 1 .. n /\ k # n
    BY <1>1
  <2>1. live[k].base \in Nat /\ End(live, frames, k) \in Nat
    BY <2>0, CallFacts DEF n
  <2>2. End(m, gs, k) = End(live, frames, k)
    <3>1. CASE k = n - 1
      <4>1. End(m, gs, k) = gs.top
        BY <1>2, <3>1 DEF End
      <4>2. k + 1 = n
        BY <1>1, <3>1
      <4>3. End(live, frames, k) = live[n].base - FrameWords
        BY <2>0, <4>2 DEF End, n
      <4>4. QED
        BY <1>3, <4>1, <4>3
    <3>2. CASE k # n - 1
      <4>1. k + 1 \in 1 .. n - 1
        BY <1>1, <3>2
      <4>2. QED
        BY <1>2, <2>0, <3>2, <4>1 DEF End, n
    <3>3. QED
      BY <3>1, <3>2
  <2>3. m[k].base = live[k].base
    BY <1>2
  <2>4. QED
    BY <2>1, <2>2, <2>3, SameVariables
<1>5. Calls(m, gs) =
         [k \in 1 .. n - 1 |-> [return_ip |-> m[k].return_ip, locals |-> Variables(m, gs, k)]]
  BY <1>2 DEF Calls
<1>6. /\ C \in Seq(CallRecord) /\ Len(C) = n
      /\ \A k \in 1 .. n :
            C[k] = [return_ip |-> live[k].return_ip, locals |-> Variables(live, frames, k)]
  BY CallsAreSeq DEF n
<1> HIDE DEF C
<1>7. /\ SubSeq(C, 1, n - 1) \in Seq(CallRecord) /\ Len(SubSeq(C, 1, n - 1)) = n - 1
      /\ \A k \in 1 .. n - 1 : SubSeq(C, 1, n - 1)[k] = C[k]
  <2>1. 1 \in Int /\ n - 1 \in Int /\ \A k \in 1 .. n - 1 : C[k] \in CallRecord
    BY <1>1, <1>6
  <2>2. QED
    BY <1>1, <2>1, SubSeqProperties
<1>8. \A k \in 1 .. n - 1 :
         [return_ip |-> m[k].return_ip, locals |-> Variables(m, gs, k)] = SubSeq(C, 1, n - 1)[k]
  <2> SUFFICES ASSUME NEW k \in 1 .. n - 1
               PROVE  [return_ip |-> m[k].return_ip, locals |-> Variables(m, gs, k)] =
                          SubSeq(C, 1, n - 1)[k]
    OBVIOUS
  <2>1. k \in 1 .. n
    BY <1>1
  <2>2. QED
    BY <1>2, <1>4, <1>6, <1>7, <2>1
<1> DEFINE s == SubSeq(C, 1, n - 1)
<1>9. s = [k \in 1 .. n - 1 |-> s[k]]
  <2> HIDE DEF s
  <2>1. s \in Seq(CallRecord) /\ Len(s) = n - 1
    BY <1>7 DEF s
  <2>2. QED
    BY <1>1, <2>1
<1>10. QED
  BY <1>5, <1>8, <1>9 DEF m, C, n
-----------------------------------------------------------------------------
(* The stack machine's operations are those of the machine.                *)

LEMMA SameOperations ==
    /\ Abstract!BinaryOperations = BinaryOperations
    /\ Abstract!UnaryOperations = UnaryOperations
    /\ Abstract!Dispatched = Dispatched
    /\ Abstract!Word = Word
    /\ Abstract!Trap = Trap
    /\ Abstract!NoOutput = NoOutput
    /\ Abstract!Op = Op /\ Abstract!Arg = Arg
    /\ \A call, v, w : Abstract!Output(call, v, w) = Output(call, v, w)
<1>1. /\ Abstract!BinaryOperations = BinaryOperations
      /\ Abstract!UnaryOperations = UnaryOperations
  BY DEF Abstract!BinaryOperations, Abstract!UnaryOperations, Abstract!Comparisons,
         Abstract!UnsignedComparisons, Abstract!SignedComparisons,
         Abstract!FloatComparisons, Abstract!BitOperations, Abstract!UnsignedArithmetic,
         Abstract!SignedArithmetic, Abstract!FloatArithmetic,
         BinaryOperations, UnaryOperations, Comparisons, UnsignedComparisons,
         SignedComparisons, FloatComparisons, BitOperations, UnsignedArithmetic,
         SignedArithmetic, FloatArithmetic
<1>2. Abstract!Dispatched = Dispatched
  BY <1>1 DEF Abstract!Dispatched, Dispatched, Abstract!ControlOperations,
              ControlOperations, Abstract!Syscalls, Syscalls
<1>3. Abstract!Word = Word /\ Abstract!Trap = Trap
  BY DEF Abstract!Word, Word, Abstract!WordCount, WordCount, Abstract!Trap, Trap
<1>4. Abstract!NoOutput = NoOutput /\ Abstract!Op = Op /\ Abstract!Arg = Arg
  BY DEF Abstract!NoOutput, NoOutput, Abstract!Op, Op, Abstract!Arg, Arg
<1>5. \A call, v, w : Abstract!Output(call, v, w) = Output(call, v, w)
  BY DEF Abstract!Output, Output
<1>6. QED
  BY <1>1, <1>2, <1>3, <1>4, <1>5

LEMMA SamePops == \A op : Abstract!Pops(op) = Pops(op)
BY SameOperations DEF Abstract!Pops, Pops

LEMMA SameUnary == \A op, w : Abstract!UnaryOutcomes(op, w) = UnaryOutcomes(op, w)
BY DEF Abstract!UnaryOutcomes, UnaryOutcomes, Abstract!SignedOutcomes, SignedOutcomes,
       Abstract!InSignedRange, InSignedRange, Abstract!Signed, Signed,
       Abstract!SignBit, SignBit, Abstract!WordCount, WordCount, Abstract!Word, Word,
       Abstract!Trap, Trap

LEMMA SameBinary ==
    \A op, lhs, rhs : Abstract!BinaryOutcomes(op, lhs, rhs) = BinaryOutcomes(op, lhs, rhs)
BY DEF Abstract!BinaryOutcomes, BinaryOutcomes, Abstract!ArithmeticOutcomes,
       ArithmeticOutcomes, Abstract!DivisionOutcomes, DivisionOutcomes,
       Abstract!Quotient, Quotient, Abstract!Magnitude, Magnitude,
       Abstract!SignedOutcomes, SignedOutcomes, Abstract!InSignedRange, InSignedRange,
       Abstract!Signed, Signed, Abstract!SignBit, SignBit, Abstract!WordCount, WordCount,
       Abstract!Word, Word, Abstract!Trap, Trap, Abstract!BitResult, BitResult,
       Abstract!Bits, Bits, Abstract!FromBits, FromBits, Abstract!Holds, Holds,
       Abstract!Truth, Truth, Abstract!Comparisons, Comparisons,
       Abstract!UnsignedComparisons, UnsignedComparisons,
       Abstract!SignedComparisons, SignedComparisons,
       Abstract!FloatComparisons, FloatComparisons,
       Abstract!BitOperations, BitOperations, Abstract!FloatArithmetic, FloatArithmetic
-----------------------------------------------------------------------------
(* What the stack machine sees.                                            *)

LEMMA SameStackState ==
    ASSUME IInv, status # "undefined"
    PROVE  /\ StackOf = Words(value_stack)
           /\ value_stack.top \in Nat
           /\ Len(StackOf) = value_stack.top
           /\ value_stack.top >= 1 => Abstract!Top = Top
           /\ value_stack.top >= 2 => Abstract!Below = Below
<1>1. StackTyped(value_stack) /\ StackOf = Words(value_stack)
  BY StateIs DEF IInv, ControlInv
<1>2. /\ Len(StackOf) = value_stack.top /\ value_stack.top \in Nat
      /\ \A i \in 1 .. value_stack.top : StackOf[i] = value_stack.data[i - 1]
  BY <1>1, WordsAreSeq
<1>3. ASSUME value_stack.top >= 1 PROVE Abstract!Top = Top
  BY <1>2, <1>3 DEF Abstract!Top, Top
<1>4. ASSUME value_stack.top >= 2 PROVE Abstract!Below = Below
  <2>1. value_stack.top - 1 \in 1 .. value_stack.top
    BY <1>2, <1>4
  <2>2. (value_stack.top - 1) - 1 = value_stack.top - 2
    BY <1>2
  <2>3. StackOf[value_stack.top - 1] = value_stack.data[value_stack.top - 2]
    BY <1>2, <2>1, <2>2
  <2>4. QED
    BY <1>2, <2>3 DEF Abstract!Below, Below
<1>5. QED
  BY <1>1, <1>2, <1>3, <1>4

LEMMA SameCallState ==
    ASSUME IInv, status # "undefined"
    PROVE  LET n == Len(live)
           IN  /\ CallsOf = Calls(live, frames) /\ SpaceOf = frames.top
               /\ n \in Nat \ {0} /\ Len(CallsOf) = n
               /\ CallsOf \in Seq(CallRecord)
               /\ CallsOf[n] = [return_ip |-> live[n].return_ip,
                                locals |-> Variables(live, frames, n)]
               /\ Abstract!Current = CallsOf[n]
               /\ Abstract!Locals = Variables(live, frames, n)
               /\ Abstract!Locals \in Seq(Word)
               /\ frames.top \in Nat /\ frames.local_variables \in 0 .. frames.top
               /\ Len(Abstract!Locals) = frames.top - frames.local_variables
               /\ \A i \in 1 .. frames.top - frames.local_variables :
                     Abstract!Locals[i] = frames.words[frames.local_variables + i - 1]
<1> DEFINE n == Len(live)
<1>1. FramesInv /\ Layout /\ CallsOf = Calls(live, frames) /\ SpaceOf = frames.top
  BY StateIs DEF IInv, FramesInv
<1>2. /\ CallsOf \in Seq(CallRecord) /\ Len(CallsOf) = n /\ n \in Nat \ {0} /\ n \in 1 .. n
      /\ CallsOf[n] = [return_ip |-> live[n].return_ip,
                       locals |-> Variables(live, frames, n)]
  BY <1>1, CallsAreSeq
<1>3. Abstract!Current = CallsOf[n] /\ Abstract!Locals = Variables(live, frames, n)
  BY <1>2 DEF Abstract!Current, Abstract!Locals
<1>4. live[n].base = frames.local_variables /\ End(live, frames, n) = frames.top
  BY <1>1, <1>2, CallFacts
<1>5. /\ Abstract!Locals \in Seq(Word)
      /\ Len(Abstract!Locals) = frames.top - frames.local_variables
      /\ \A i \in 1 .. frames.top - frames.local_variables :
            Abstract!Locals[i] = frames.words[frames.local_variables + i - 1]
  BY <1>1, <1>2, <1>3, <1>4, VariablesAreSeq
<1>6. frames.top \in Nat /\ frames.local_variables \in 0 .. frames.top
  BY <1>1 DEF FramesInv, FramesTyped
<1>7. QED
  BY <1>1, <1>2, <1>3, <1>5, <1>6

LEMMA SameReads ==
    ASSUME IInv, status # "undefined", NEW v \in Nat
    PROVE  /\ Abstract!Reads(v) = Reads(v)
           /\ v < Len(Abstract!Locals) <=> Address(v) < frames.top
<1>1. /\ frames.top \in Nat /\ frames.local_variables \in 0 .. frames.top
      /\ Len(Abstract!Locals) = frames.top - frames.local_variables
      /\ \A i \in 1 .. frames.top - frames.local_variables :
            Abstract!Locals[i] = frames.words[frames.local_variables + i - 1]
  BY SameCallState
<1>2. v < Len(Abstract!Locals) <=> Address(v) < frames.top
  BY <1>1 DEF Address
<1>3. CASE v < Len(Abstract!Locals)
  <2>1. v + 1 \in 1 .. frames.top - frames.local_variables
    BY <1>1, <1>3
  <2>2. frames.local_variables + (v + 1) - 1 = frames.local_variables + v
    BY <1>1
  <2>3. Abstract!Locals[v + 1] = frames.words[Address(v)]
    BY <1>1, <2>1, <2>2 DEF Address
  <2>4. QED
    BY <1>2, <1>3, <2>3 DEF Abstract!Reads, Reads
<1>4. CASE ~(v < Len(Abstract!Locals))
  BY <1>2, <1>4, SameOperations DEF Abstract!Reads, Reads
<1>5. QED
  BY <1>2, <1>3, <1>4

LEMMA SameExecutes ==
    ASSUME IInv, NEW op, Executes(op)
    PROVE  /\ Abstract!Executes(op)
           /\ status = "running" /\ op = Op
           /\ Silently => Abstract!Silently /\ status' = "running"
           /\ Advance => Abstract!Advance
<1>1. status = "running" /\ ip < Len(bytecode) /\ Op = op /\ value_stack.top >= Pops(op)
  BY DEF Executes, Running
<1>2. Abstract!Executes(op)
  BY <1>1, SameOperations, SamePops, SameStackState DEF Abstract!Executes, Executes
<1>3. QED
  BY <1>1, <1>2, SameOperations
  DEF Silently, Abstract!Silently, Advance, Abstract!Advance

-----------------------------------------------------------------------------
(* Steps on one of the blocks.                                             *)

LEMMA CallsKept ==
    ASSUME status # "undefined", status' # "undefined", FramesUnchanged
    PROVE  UNCHANGED <<CallsOf, SpaceOf>>
BY StateIs, StateWillBe DEF FramesUnchanged

LEMMA StackKept ==
    ASSUME status # "undefined", status' # "undefined", UNCHANGED value_stack
    PROVE  UNCHANGED StackOf
BY StateIs, StateWillBe

LEMMA StackPops ==
    ASSUME IInv, status # "undefined", status' # "undefined",
           NEW n \in Nat, value_stack.top >= n, value_stack' = pop(value_stack, n)
    PROVE  StackOf' = Abstract!Popped(n)
<1>1. StackTyped(value_stack)
  BY DEF IInv, ControlInv
<1>2. Words(pop(value_stack, n)) = SubSeq(Words(value_stack), 1, Len(Words(value_stack)) - n)
  BY <1>1, PoppedWords
<1>3. QED
  BY <1>2, StateIs, StateWillBe DEF Abstract!Popped

LEMMA StackPushes ==
    ASSUME IInv, status # "undefined", status' # "undefined",
           NEW w \in Word, value_stack' = push(value_stack, w)
    PROVE  StackOf' = Abstract!Pushed(StackOf, w)
<1>1. StackTyped(value_stack)
  BY DEF IInv, ControlInv
<1>2. Words(push(value_stack, w)) = Append(Words(value_stack), w)
  BY <1>1, PushedWords
<1>3. QED
  BY <1>2, StateIs, StateWillBe DEF Abstract!Pushed

LEMMA StackReplaces ==
    ASSUME IInv, status # "undefined", status' # "undefined", NEW w \in Word,
           NEW n \in Nat, value_stack.top >= n,
           value_stack' = push(pop(value_stack, n), w)
    PROVE  StackOf' = Abstract!Pushed(Abstract!Popped(n), w)
<1>1. StackTyped(value_stack) /\ StackTyped(pop(value_stack, n))
  BY PopKeepsType DEF IInv, ControlInv
<1>2. Words(pop(value_stack, n)) = SubSeq(Words(value_stack), 1, Len(Words(value_stack)) - n)
  BY <1>1, PoppedWords
<1>3. Words(value_stack') = Append(Words(pop(value_stack, n)), w)
  BY <1>1, PushedWords
<1>4. QED
  BY <1>2, <1>3, StateIs, StateWillBe DEF Abstract!Pushed, Abstract!Popped
-----------------------------------------------------------------------------
(* Each step of the machine is one of the stack machine.                   *)

LEMMA QuietMaps ==
    ASSUME IInv, OpNop \/ OpJmp \/ Sys
    PROVE  Abstract!Next
<1>1. CASE OpNop
  <2>1. Executes("nop") /\ Silently /\ Advance /\ UNCHANGED value_stack /\ FramesUnchanged
    BY <1>1 DEF OpNop
  <2>2. Abstract!Nop
    BY <2>1, SameExecutes, CallsKept, StackKept DEF Abstract!Nop
  <2>3. QED
    BY <2>2 DEF Abstract!Next
<1>2. CASE OpJmp
  <2>1. Executes("jmp") /\ Silently /\ ip' = Arg /\ UNCHANGED value_stack /\ FramesUnchanged
    BY <1>2 DEF OpJmp
  <2>2. Abstract!Jmp
    BY <2>1, SameExecutes, SameOperations, CallsKept, StackKept DEF Abstract!Jmp
  <2>3. QED
    BY <2>2 DEF Abstract!Next
<1>3. CASE Sys
  <2>1. PICK op \in {"sys nop", "sys hi", "sys bye"} :
           /\ Executes(op) /\ Advance /\ output' = Output(op, 0, 0)
           /\ UNCHANGED <<value_stack, status>> /\ FramesUnchanged
    BY <1>3 DEF Sys
  <2>2. Abstract!Executes(op) /\ Abstract!Advance /\ status = "running" /\ status' = "running"
    BY <2>1, SameExecutes
  <2>3. UNCHANGED <<StackOf, CallsOf, SpaceOf>> /\ output' = Abstract!Output(op, 0, 0)
    BY <2>1, <2>2, SameOperations, CallsKept, StackKept
  <2>4. Abstract!Sys
    BY <2>1, <2>2, <2>3 DEF Abstract!Sys
  <2>5. QED
    BY <2>4 DEF Abstract!Next
<1>4. QED
  BY <1>1, <1>2, <1>3

LEMMA JumpsAndPopMap ==
    ASSUME IInv, OpPop \/ OpJnz \/ OpJze \/ SysExit
    PROVE  Abstract!Next
<1>1. PICK op \in {"pop", "jnz", "jze", "sys exit"} : Executes(op) /\ op = Op
  BY DEF OpPop, OpJnz, OpJze, ConditionalJump, SysExit, Executes
<1>2. /\ Abstract!Executes(op) /\ status = "running"
      /\ Silently => Abstract!Silently /\ status' = "running"
      /\ Advance => Abstract!Advance
  BY <1>1, SameExecutes
<1>3. value_stack' = pop(value_stack, 1) /\ FramesUnchanged /\ status' # "undefined"
  BY <1>2 DEF OpPop, OpJnz, OpJze, ConditionalJump, SysExit
<1>4. value_stack.top >= 1
  BY <1>1, PopsCounted DEF Executes
<1>5. StackOf' = Abstract!Popped(1) /\ UNCHANGED <<CallsOf, SpaceOf>> /\ Abstract!Top = Top
  BY <1>2, <1>3, <1>4, StackPops, CallsKept, SameStackState
<1>6. CASE OpPop
  <2>1. op = "pop" /\ Abstract!Silently /\ Abstract!Advance
    BY <1>1, <1>2, <1>6 DEF OpPop, Executes
  <2>2. Abstract!Pop
    BY <1>2, <1>5, <2>1 DEF Abstract!Pop
  <2>3. QED
    BY <2>2 DEF Abstract!Next
<1>7. CASE OpJnz
  <2>1. /\ op = "jnz" /\ Abstract!Silently
        /\ ip' = IF Top # 0 THEN Arg ELSE ip + 1
    BY <1>1, <1>2, <1>7 DEF OpJnz, ConditionalJump, Executes
  <2>2. Abstract!Jnz
    BY <1>2, <1>5, <2>1, SameOperations DEF Abstract!Jnz, Abstract!ConditionalJump
  <2>3. QED
    BY <2>2 DEF Abstract!Next
<1>8. CASE OpJze
  <2>1. /\ op = "jze" /\ Abstract!Silently
        /\ ip' = IF Top = 0 THEN Arg ELSE ip + 1
    BY <1>1, <1>2, <1>8 DEF OpJze, ConditionalJump, Executes
  <2>2. Abstract!Jze
    BY <1>2, <1>5, <2>1, SameOperations DEF Abstract!Jze, Abstract!ConditionalJump
  <2>3. QED
    BY <2>2 DEF Abstract!Next
<1>9. CASE SysExit
  <2>1. /\ op = "sys exit" /\ Abstract!Advance
        /\ output' = Output("sys exit", 0, Top) /\ status' = "exited"
    BY <1>1, <1>2, <1>9 DEF SysExit, Executes
  <2>2. Abstract!SysExit
    BY <1>2, <1>5, <2>1, SameOperations DEF Abstract!SysExit
  <2>3. QED
    BY <2>2 DEF Abstract!Next
<1>10. QED
  BY <1>6, <1>7, <1>8, <1>9

LEMMA PushesMap ==
    ASSUME IInv, OpScaLoc \/ OpVar
    PROVE  Abstract!Next
<1>1. CASE OpScaLoc
  <2>1. PICK op \in {"sca", "loc"} : Executes(op) /\ op = Op
    BY <1>1 DEF OpScaLoc, Executes
  <2>2. Silently /\ Advance /\ value_stack' = push(value_stack, Arg) /\ FramesUnchanged
    BY <1>1 DEF OpScaLoc
  <2>3. Arg \in Word
    BY <2>1, Instruction DEF Executes, IInv
  <2>4. /\ Abstract!Executes(op) /\ status = "running" /\ status' = "running"
        /\ Abstract!Silently /\ Abstract!Advance
    BY <2>1, <2>2, SameExecutes
  <2>5. StackOf' = Abstract!Pushed(StackOf, Arg) /\ UNCHANGED <<CallsOf, SpaceOf>>
    BY <2>2, <2>3, <2>4, StackPushes, CallsKept
  <2>6. Abstract!Constant
    BY <2>1, <2>4, <2>5, SameOperations DEF Abstract!Constant
  <2>7. QED
    BY <2>6 DEF Abstract!Next
<1>2. CASE OpVar
  <2>1. Executes("var") /\ Silently /\ Advance /\ FramesUnchanged
    BY <1>2 DEF OpVar
  <2>2. PICK w \in Reads(Arg) : value_stack' = push(value_stack, w)
    BY <1>2 DEF OpVar
  <2>3. /\ Abstract!Executes("var") /\ status = "running" /\ status' = "running"
        /\ Abstract!Silently /\ Abstract!Advance
    BY <2>1, SameExecutes
  <2>4. Arg \in Nat /\ FramesInv /\ Layout
    BY <2>1, Executing
  <2>5. w \in Word /\ w \in Abstract!Reads(Abstract!Arg)
    BY <2>2, <2>3, <2>4, ReadsAreWords, SameReads, SameOperations
  <2>6. StackOf' = Abstract!Pushed(StackOf, w) /\ UNCHANGED <<CallsOf, SpaceOf>>
    BY <2>1, <2>2, <2>3, <2>5, StackPushes, CallsKept
  <2>7. Abstract!Var
    BY <2>3, <2>5, <2>6 DEF Abstract!Var
  <2>8. QED
    BY <2>7 DEF Abstract!Next
<1>3. QED
  BY <1>1, <1>2

LEMMA SysDbgMaps ==
    ASSUME IInv, SysDbg
    PROVE  Abstract!Next
<1>1. /\ Executes("sys dbg") /\ Advance /\ UNCHANGED <<value_stack, status>>
      /\ FramesUnchanged
  BY DEF SysDbg
<1>2. PICK w \in Reads(Arg) : output' = Output("sys dbg", Arg, w)
  BY DEF SysDbg
<1>3. /\ Abstract!Executes("sys dbg") /\ status = "running" /\ status' = "running"
      /\ Abstract!Advance
  BY <1>1, SameExecutes
<1>4. Arg \in Nat
  BY <1>1, Executing
<1>5. w \in Abstract!Reads(Abstract!Arg)
  BY <1>2, <1>3, <1>4, SameReads, SameOperations
<1>6. /\ UNCHANGED <<StackOf, CallsOf, SpaceOf>>
      /\ output' = Abstract!Output("sys dbg", Abstract!Arg, w)
  BY <1>1, <1>2, <1>3, SameOperations, CallsKept, StackKept
<1>7. Abstract!SysDbg
  BY <1>1, <1>3, <1>5, <1>6 DEF Abstract!SysDbg
<1>8. QED
  BY <1>7 DEF Abstract!Next

LEMMA UnaryMaps ==
    ASSUME IInv, OpUnary
    PROVE  Abstract!Next
<1>1. PICK op \in UnaryOperations :
         /\ Executes(op) /\ Silently /\ Advance /\ FramesUnchanged
         /\ \E w \in UnaryOutcomes(op, Top) \ {Trap} :
                value_stack' = push(pop(value_stack, 1), w)
  BY DEF OpUnary
<1>2. PICK w \in UnaryOutcomes(op, Top) \ {Trap} : value_stack' = push(pop(value_stack, 1), w)
  BY <1>1
<1>3. /\ Abstract!Executes(op) /\ status = "running" /\ status' = "running"
      /\ Abstract!Silently /\ Abstract!Advance
  BY <1>1, SameExecutes
<1>4. StackTyped(value_stack) /\ value_stack.top >= 1
  BY <1>1, Executing, PopsCounted
<1>5. w \in Word /\ Abstract!Top = Top
  BY <1>2, <1>3, <1>4, Operands, UnaryYieldsWord, SameStackState
<1>6. /\ StackOf' = Abstract!Pushed(Abstract!Popped(1), w)
      /\ UNCHANGED <<CallsOf, SpaceOf>>
  BY <1>1, <1>2, <1>3, <1>4, <1>5, StackReplaces, CallsKept
<1>7. w \in Abstract!UnaryOutcomes(op, Abstract!Top) \ {Abstract!Trap}
  BY <1>5, SameUnary, SameOperations
<1>8. Abstract!Unary
  BY <1>3, <1>6, <1>7, SameOperations DEF Abstract!Unary
<1>9. QED
  BY <1>8 DEF Abstract!Next

LEMMA BinaryMaps ==
    ASSUME IInv, OpBinary
    PROVE  Abstract!Next
<1>1. PICK op \in BinaryOperations :
         /\ Executes(op) /\ Silently /\ Advance /\ FramesUnchanged
         /\ \E w \in BinaryOutcomes(op, Below, Top) \ {Trap} :
                value_stack' = push(pop(value_stack, 2), w)
  BY DEF OpBinary
<1>2. PICK w \in BinaryOutcomes(op, Below, Top) \ {Trap} :
         value_stack' = push(pop(value_stack, 2), w)
  BY <1>1
<1>3. /\ Abstract!Executes(op) /\ status = "running" /\ status' = "running"
      /\ Abstract!Silently /\ Abstract!Advance
  BY <1>1, SameExecutes
<1>4. StackTyped(value_stack) /\ value_stack.top >= 2 /\ value_stack.top >= 1
  <2>1. value_stack.top >= Pops(op) /\ Pops(op) = 2 /\ value_stack.top \in Nat
    BY <1>1, <1>3, Executing, PopsCounted, SameStackState
  <2>2. QED
    BY <1>1, <2>1, Executing
<1>5. w \in Word /\ Abstract!Top = Top /\ Abstract!Below = Below
  BY <1>2, <1>3, <1>4, Operands, BinaryYieldsWord, SameStackState
<1>6. /\ StackOf' = Abstract!Pushed(Abstract!Popped(2), w)
      /\ UNCHANGED <<CallsOf, SpaceOf>>
  BY <1>1, <1>2, <1>3, <1>4, <1>5, StackReplaces, CallsKept
<1>7. w \in Abstract!BinaryOutcomes(op, Abstract!Below, Abstract!Top) \ {Abstract!Trap}
  BY <1>5, SameBinary, SameOperations
<1>8. Abstract!Binary
  BY <1>3, <1>6, <1>7, SameOperations DEF Abstract!Binary
<1>9. QED
  BY <1>8 DEF Abstract!Next

LEMMA InvalidMaps ==
    ASSUME IInv, Invalid
    PROVE  Abstract!Next
<1>1. /\ status = "running" /\ ip < Len(bytecode) /\ Op \notin Dispatched
      /\ status' = "invalid" /\ output' = NoOutput /\ Advance
      /\ UNCHANGED <<bytecode, value_stack>> /\ FramesUnchanged
  BY DEF Invalid, Running
<1>2. UNCHANGED <<StackOf, CallsOf, SpaceOf>>
  BY <1>1, CallsKept, StackKept
<1>3. Abstract!Invalid
  BY <1>1, <1>2, SameOperations DEF Abstract!Invalid, Advance, Abstract!Advance
<1>4. QED
  BY <1>3 DEF Abstract!Next
-----------------------------------------------------------------------------
(* What the four operations on the frames leave there.                     *)

LEMMA AfterSet ==
    ASSUME IInv, OpSet
    PROVE  /\ frames'.words = [frames.words EXCEPT ![Address(Arg)] = Top]
           /\ frames'.top = frames.top /\ frames'.block = frames.block
           /\ frames'.local_variables = frames.local_variables
           /\ Address(Arg) \in DOMAIN frames.words
           /\ \A i \in 0 .. frames.local_variables - 1 : frames'.words[i] = frames.words[i]
<1>1. /\ FramesTyped(frames) /\ Layout /\ Arg \in Nat
  BY Executing DEF OpSet, FramesInv
<1>2. /\ frames.words \in [0 .. frames.block - 1 -> Nat] /\ frames.block \in Nat
      /\ frames.top \in Nat /\ frames.local_variables \in 0 .. frames.top
  BY <1>1 DEF FramesTyped
<1>3. frames' = [words |-> [frames.words EXCEPT ![Address(Arg)] = Top],
                 block |-> frames.block, top |-> frames.top,
                 local_variables |-> frames.local_variables,
                 capacity |-> frames.capacity]
  BY <1>1 DEF OpSet, FramesTyped
<1>4. Address(Arg) \in 0 .. frames.block - 1
  BY <1>1, <1>2 DEF OpSet, InBlock, Address
<1>5. \A i \in 0 .. frames.local_variables - 1 : i # Address(Arg)
  BY <1>1, <1>2 DEF Address
<1>6. \A i \in 0 .. frames.local_variables - 1 : i \in DOMAIN frames.words
  BY <1>1, <1>2 DEF Layout, Chained
<1>7. QED
  BY <1>2, <1>3, <1>4, <1>5, <1>6

LEMMA AfterRes ==
    ASSUME IInv, OpRes
    PROVE  /\ frames'.words = [i \in DOMAIN frames.words |->
                                 IF frames.top <= i /\ i < frames.top + Arg
                                 THEN 0 ELSE frames.words[i]]
           /\ frames'.top = frames.top + Arg /\ frames'.block = frames.block
           /\ DOMAIN frames.words = 0 .. frames.block - 1
           /\ frames.top + Arg <= frames.block
<1>1. FramesTyped(frames) /\ Layout /\ Arg \in Nat
  BY Executing DEF OpRes, FramesInv
<1> DEFINE fs == frames_alloc(frames, Arg)
<1>2. fs = [frames EXCEPT !.top = @ + Arg] /\ frames.top + Arg <= frames.block
  BY <1>1, BackedNeedsNoGrowth DEF OpRes, Layout
<1>3. /\ fs.words = frames.words /\ fs.top = frames.top + Arg /\ fs.block = frames.block
      /\ fs = [words |-> fs.words, block |-> fs.block, top |-> fs.top,
               local_variables |-> fs.local_variables, capacity |-> fs.capacity]
  BY <1>1, <1>2 DEF FramesTyped
<1> DEFINE words == [i \in DOMAIN fs.words |->
                        IF frames.top <= i /\ i < fs.top THEN 0 ELSE fs.words[i]]
<1>4. frames' = [fs EXCEPT !.words = words]
  BY DEF OpRes, Reserve
<1> HIDE DEF fs
<1>5. frames'.words = words /\ frames'.top = fs.top /\ frames'.block = fs.block
  BY <1>3, <1>4
<1>6. DOMAIN frames.words = 0 .. frames.block - 1
  BY <1>1 DEF FramesTyped
<1>7. QED
  BY <1>2, <1>3, <1>5, <1>6

LEMMA AfterCal ==
    ASSUME IInv, OpCal
    PROVE  /\ frames'.top = frames.top + FrameWords /\ frames'.block = frames.block
           /\ \A i \in 0 .. frames.top - 1 : frames'.words[i] = frames.words[i]
           /\ frames.top + FrameWords <= frames.block
<1>1. FramesTyped(frames) /\ Layout /\ FrameWords = 2
  BY Executing, VmAssumption DEF OpCal, FramesInv
<1> DEFINE fs == frames_alloc(frames, FrameWords)
<1>2. fs = [frames EXCEPT !.top = @ + FrameWords] /\ frames.top + FrameWords <= frames.block
  BY <1>1, BackedNeedsNoGrowth DEF OpCal, Layout
<1>3. /\ fs.words = frames.words /\ fs.top = frames.top + FrameWords
      /\ fs.block = frames.block
      /\ fs = [words |-> fs.words, block |-> fs.block, top |-> fs.top,
               local_variables |-> fs.local_variables, capacity |-> fs.capacity]
  BY <1>1, <1>2 DEF FramesTyped
<1> DEFINE words == [fs.words EXCEPT ![frames.top] = ip + 1,
                                     ![frames.top + 1] = frames.local_variables]
<1>4. frames' = [fs EXCEPT !.words = words, !.local_variables = fs.top]
  BY DEF OpCal, PushFrame
<1> HIDE DEF fs
<1>5. frames'.words = words /\ frames'.top = fs.top /\ frames'.block = fs.block
  <2> HIDE DEF words
  <2>1. QED
    BY <1>3, <1>4
<1>6. /\ frames.words \in [0 .. frames.block - 1 -> Nat] /\ frames.block \in Nat
      /\ frames.top \in Nat
  BY <1>1 DEF FramesTyped
<1>7. \A i \in 0 .. frames.top - 1 :
         i \in DOMAIN frames.words /\ i # frames.top /\ i # frames.top + 1
  BY <1>1, <1>2, <1>6
<1>8. QED
  BY <1>2, <1>3, <1>5, <1>7

LEMMA AfterRet ==
    ASSUME IInv, OpRet
    PROVE  /\ frames'.words = frames.words /\ frames'.block = frames.block
           /\ frames'.top = frames.local_variables - FrameWords
<1>1. FramesTyped(frames)
  BY Executing DEF OpRet, FramesInv
<1>2. QED
  BY <1>1 DEF OpRet, PopFrame, FramesTyped, Frame

LEMMA SetMaps ==
    ASSUME IInv, OpSet
    PROVE  Abstract!Next
<1> DEFINE n == Len(live)
           V == Variables(live, frames, n)
           a == Arg + 1
<1>1. Executes("set") /\ Silently /\ Advance /\ live' = live
      /\ value_stack' = pop(value_stack, 1)
  BY DEF OpSet
<1>2. /\ Abstract!Executes("set") /\ status = "running" /\ status' = "running"
      /\ Abstract!Silently /\ Abstract!Advance
  BY <1>1, SameExecutes
<1>3. /\ FramesInv /\ Layout /\ Arg \in Nat /\ value_stack.top >= 1
      /\ frames.local_variables \in Nat /\ frames.top \in Nat
  <2>1. FramesInv /\ Layout /\ Arg \in Nat /\ value_stack.top >= Pops("set")
    BY <1>1, Executing
  <2>2. Pops("set") = 1
    BY PopsCounted
  <2>3. QED
    BY <2>1, <2>2 DEF FramesInv, FramesTyped
<1>4. StackOf' = Abstract!Popped(1) /\ Abstract!Top = Top
  BY <1>1, <1>2, <1>3, StackPops, SameStackState
<1>5. /\ CallsOf = Calls(live, frames) /\ SpaceOf = frames.top
      /\ CallsOf' = Calls(live, frames') /\ SpaceOf' = frames'.top
  BY <1>1, <1>2, StateIs, StateWillBe
<1>6. /\ n \in Nat \ {0} /\ n \in 1 .. n /\ Len(CallsOf) = n /\ Abstract!Locals = V
      /\ Len(V) = frames.top - frames.local_variables
      /\ CallsOf[n].locals = V /\ DOMAIN CallsOf = 1 .. n
      /\ CallsOf[n] = [return_ip |-> live[n].return_ip, locals |-> V]
      /\ \A i \in 1 .. frames.top - frames.local_variables :
            V[i] = frames.words[frames.local_variables + i - 1]
  BY <1>2, <1>5, SameCallState DEF Calls
<1>7. /\ frames'.words = [frames.words EXCEPT ![Address(Arg)] = Top]
      /\ frames'.top = frames.top
      /\ Address(Arg) \in DOMAIN frames.words
      /\ \A i \in 0 .. frames.local_variables - 1 : frames'.words[i] = frames.words[i]
  BY AfterSet
<1> DEFINE W == Variables(live, frames', n)
<1>8. CallsOf' = [CallsOf EXCEPT ![n].locals = W]
  BY <1>3, <1>5, <1>7, CurrentChanges
<1>9. live[n].base = frames.local_variables
  BY <1>3 DEF Layout, Chained
<1>10. W = [i \in 1 .. frames.top - frames.local_variables |->
              IF i = a THEN Top ELSE V[i]]
  <2>1. W = [i \in 1 .. frames.top - frames.local_variables |->
               frames'.words[frames.local_variables + i - 1]]
    BY <1>7, <1>9 DEF Variables, End
  <2>2. ASSUME NEW i \in 1 .. frames.top - frames.local_variables
        PROVE  frames'.words[frames.local_variables + i - 1] = IF i = a THEN Top ELSE V[i]
    <3>1. CASE i = a
      <4>1. frames.local_variables + i - 1 = Address(Arg)
        BY <1>3, <3>1 DEF Address
      <4>2. QED
        BY <1>7, <3>1, <4>1
    <3>2. CASE i # a
      <4>1. frames.local_variables + i - 1 # Address(Arg)
        BY <1>3, <3>2 DEF Address
      <4>2. frames'.words[frames.local_variables + i - 1] =
               frames.words[frames.local_variables + i - 1]
        BY <1>7, <4>1
      <4>3. QED
        BY <1>6, <3>2, <4>2
    <3>3. QED
      BY <3>1, <3>2
  <2> HIDE DEF V, W
  <2>3. QED
    BY <2>1, <2>2
<1>11. V = [i \in 1 .. frames.top - frames.local_variables |-> V[i]]
  BY <1>9 DEF Variables, End
<1> HIDE DEF V, W
<1>12. CallsOf' = IF Arg < Len(V) THEN [CallsOf EXCEPT ![n].locals[Arg + 1] = Top]
                                  ELSE CallsOf
  <2>1. CASE Arg < Len(V)
    <3>1. [V EXCEPT ![a] = Top] =
             [i \in 1 .. frames.top - frames.local_variables |->
                 IF i = a THEN Top ELSE V[i]]
      BY <1>11
    <3>2. W = [V EXCEPT ![a] = Top]
      BY <1>10, <3>1
    <3>3. [CallsOf EXCEPT ![n].locals[a] = Top] =
             [CallsOf EXCEPT ![n].locals = [CallsOf[n].locals EXCEPT ![a] = Top]]
      OBVIOUS
    <3>4. QED
      BY <1>6, <1>8, <2>1, <3>2, <3>3
  <2>2. CASE ~(Arg < Len(V))
    <3>1. \A i \in 1 .. frames.top - frames.local_variables : i # a
      BY <1>3, <1>6, <2>2
    <3>2. W = V
      BY <1>10, <1>11, <3>1
    <3>3. CallsOf = [k \in 1 .. n |-> CallsOf[k]]
      BY <1>5 DEF Calls, n
    <3> DEFINE r == CallsOf[n]
    <3>4. [CallsOf EXCEPT ![n].locals = W] = [CallsOf EXCEPT ![n] = [r EXCEPT !.locals = W]]
      OBVIOUS
    <3>5. [r EXCEPT !.locals = V] = r
      BY <1>6
    <3>6. [CallsOf EXCEPT ![n] = r] = CallsOf
      BY <1>6, <3>3
    <3>7. QED
      BY <1>8, <2>2, <3>2, <3>4, <3>5, <3>6
  <2>3. QED
    BY <2>1, <2>2
<1>13. SpaceOf' = SpaceOf
  BY <1>5, <1>7
<1>14. Abstract!Set
  BY <1>2, <1>4, <1>6, <1>12, <1>13, SameOperations DEF Abstract!Set
<1>15. QED
  BY <1>14 DEF Abstract!Next

LEMMA ConcatFacts ==
    ASSUME NEW S, NEW s \in Seq(S), NEW t \in Seq(S)
    PROVE  /\ s \o t \in Seq(S) /\ Len(s \o t) = Len(s) + Len(t)
           /\ \A i \in 1 .. Len(s) : (s \o t)[i] = s[i]
           /\ \A i \in Len(s) + 1 .. Len(s) + Len(t) : (s \o t)[i] = t[i - Len(s)]
OBVIOUS

LEMMA ResMaps ==
    ASSUME IInv, BlockInv, OpRes
    PROVE  Abstract!Next
<1> DEFINE n == Len(live)
           V == Variables(live, frames, n)
           Z == [i \in 1 .. Arg |-> 0]
           W == Variables(live, frames', n)
           lv == frames.local_variables
           size == frames.top - lv
<1>1. Executes("res") /\ Silently /\ Advance /\ live' = live /\ value_stack' = value_stack
  BY DEF OpRes
<1>2. /\ Abstract!Executes("res") /\ status = "running" /\ status' = "running"
      /\ Abstract!Silently /\ Abstract!Advance
  BY <1>1, SameExecutes
<1>3. /\ FramesInv /\ Layout /\ Arg \in Nat
      /\ lv \in Nat /\ frames.top \in Nat /\ lv <= frames.top
  BY <1>1, Executing DEF FramesInv, FramesTyped
<1>4. UNCHANGED StackOf
  BY <1>1, <1>2, StackKept
<1>5. /\ CallsOf = Calls(live, frames) /\ SpaceOf = frames.top
      /\ CallsOf' = Calls(live, frames') /\ SpaceOf' = frames'.top
  BY <1>1, <1>2, StateIs, StateWillBe
<1>6. /\ n \in Nat \ {0} /\ n \in 1 .. n /\ Len(CallsOf) = n
      /\ V \in Seq(Word) /\ Len(V) = size
      /\ CallsOf[n].locals = V
      /\ \A i \in 1 .. size : V[i] = frames.words[lv + i - 1]
  BY <1>2, SameCallState
<1>7. /\ frames'.words = [i \in DOMAIN frames.words |->
                             IF frames.top <= i /\ i < frames.top + Arg
                             THEN 0 ELSE frames.words[i]]
      /\ frames'.top = frames.top + Arg
      /\ DOMAIN frames.words = 0 .. frames.block - 1
      /\ frames.top + Arg <= frames.block
      /\ frames.block = FrameBlock /\ FrameBlock \in Nat
  BY <1>2, AfterRes, VmAssumption DEF BlockInv
<1>8. CallsOf' = [CallsOf EXCEPT ![n].locals = W]
  <2>1. \A i \in 0 .. lv - 1 : frames'.words[i] = frames.words[i]
    BY <1>3, <1>7
  <2>2. QED
    BY <1>3, <1>5, <2>1, CurrentChanges
<1>9. live[n].base = lv
  BY <1>3 DEF Layout, Chained
<1>10. W = [i \in 1 .. size + Arg |-> frames'.words[lv + i - 1]]
  <2>1. W = [i \in 1 .. (frames.top + Arg) - lv |-> frames'.words[lv + i - 1]]
    BY <1>7, <1>9 DEF Variables, End
  <2>2. (frames.top + Arg) - lv = size + Arg
    BY <1>3
  <2> HIDE DEF size
  <2>3. QED
    BY <2>1, <2>2
<1>11. /\ Z \in Seq(Word) /\ Len(Z) = Arg
       /\ \A i \in 1 .. Arg : Z[i] = 0
  BY <1>3, WordFacts
<1>12. \A i \in 1 .. size + Arg :
          frames'.words[lv + i - 1] = IF i <= size THEN V[i] ELSE 0
  <2> SUFFICES ASSUME NEW i \in 1 .. size + Arg
               PROVE  frames'.words[lv + i - 1] = IF i <= size THEN V[i] ELSE 0
    OBVIOUS
  <2>1. lv + i - 1 \in DOMAIN frames.words /\ lv + i - 1 < frames.top + Arg
    BY <1>3, <1>7
  <2>2. frames.top <= lv + i - 1 <=> ~(i <= size)
    BY <1>3
  <2>3. CASE i <= size
    <3>1. i \in 1 .. size
      BY <1>3, <2>3
    <3>2. QED
      BY <1>6, <1>7, <2>1, <2>2, <2>3, <3>1
  <2>4. CASE ~(i <= size)
    BY <1>7, <2>1, <2>2, <2>4
  <2>5. QED
    BY <2>3, <2>4
<1>s. size \in Nat
  BY <1>3
<1> HIDE DEF V, W, Z, size
<1>13. W = V \o Z
  <2> DEFINE s == V \o Z
  <2>1. /\ s \in Seq(Word) /\ Len(s) = size + Arg
        /\ \A i \in 1 .. size : s[i] = V[i]
        /\ \A i \in size + 1 .. size + Arg : s[i] = Z[i - size]
    <3>1. /\ V \o Z \in Seq(Word) /\ Len(V \o Z) = Len(V) + Len(Z)
          /\ \A i \in 1 .. Len(V) : (V \o Z)[i] = V[i]
          /\ \A i \in Len(V) + 1 .. Len(V) + Len(Z) : (V \o Z)[i] = Z[i - Len(V)]
      <4>1. V \in Seq(Word) /\ Z \in Seq(Word)
        BY <1>6, <1>11
      <4>2. QED
        BY <4>1, ConcatFacts
    <3>2. Len(V) = size /\ Len(Z) = Arg
      BY <1>6, <1>11
    <3>3. QED
      BY <3>1, <3>2
  <2>2. \A i \in 1 .. size + Arg : s[i] = IF i <= size THEN V[i] ELSE 0
    <3> SUFFICES ASSUME NEW i \in 1 .. size + Arg
                 PROVE  s[i] = IF i <= size THEN V[i] ELSE 0
      OBVIOUS
    <3> HIDE DEF s
    <3>1. CASE i <= size
      BY <1>s, <2>1, <3>1
    <3>2. CASE ~(i <= size)
      <4>1. i - size \in 1 .. Arg /\ i \in size + 1 .. size + Arg
        BY <1>3, <1>s, <3>2
      <4>2. QED
        BY <1>11, <2>1, <3>2, <4>1
    <3>3. QED
      BY <3>1, <3>2
  <2> HIDE DEF s
  <2>3. s = [i \in 1 .. size + Arg |-> s[i]]
    BY <1>3, <1>s, <2>1
  <2>4. QED
    BY <1>10, <1>12, <2>2, <2>3 DEF s
<1>14. [CallsOf EXCEPT ![n].locals = @ \o Z] = [CallsOf EXCEPT ![n].locals = V \o Z]
  <2>1. [CallsOf EXCEPT ![n].locals = @ \o Z] =
           [CallsOf EXCEPT ![n].locals = CallsOf[n].locals \o Z]
    OBVIOUS
  <2>2. QED
    BY <1>6, <2>1
<1>15. CallsOf' = [CallsOf EXCEPT ![Len(CallsOf)].locals =
                                     @ \o [i \in 1 .. Abstract!Arg |-> 0]]
  BY <1>6, <1>8, <1>13, <1>14, SameOperations DEF Z
<1>16. SpaceOf + Abstract!Arg <= FrameBlock /\ SpaceOf' = SpaceOf + Abstract!Arg
  BY <1>5, <1>7, SameOperations
<1>17. Abstract!Res
  BY <1>2, <1>4, <1>15, <1>16 DEF Abstract!Res
<1>18. QED
  BY <1>17 DEF Abstract!Next

LEMMA CalMaps ==
    ASSUME IInv, BlockInv, OpCal
    PROVE  Abstract!Next
<1> DEFINE r == [base |-> frames.top + FrameWords, return_ip |-> ip + 1]
<1>1. /\ Executes("cal") /\ Silently /\ ip' = Top
      /\ live' = Append(live, r) /\ value_stack' = pop(value_stack, 1)
  BY DEF OpCal
<1>2. /\ Abstract!Executes("cal") /\ status = "running" /\ status' = "running"
      /\ Abstract!Silently
  BY <1>1, SameExecutes
<1>3. FramesInv /\ Layout /\ ip + 1 \in Nat /\ value_stack.top >= Pops("cal")
  BY <1>1, Executing
<1>4. Pops("cal") = 1
  BY PopsCounted
<1>5. value_stack.top >= 1
  BY <1>3, <1>4
<1>6. StackOf' = Abstract!Popped(1) /\ Abstract!Top = Top
  BY <1>1, <1>2, <1>5, StackPops, SameStackState
<1>7. /\ frames'.top = frames.top + FrameWords
      /\ \A i \in 0 .. frames.top - 1 : frames'.words[i] = frames.words[i]
      /\ frames.top + FrameWords <= FrameBlock
  BY <1>2, AfterCal DEF BlockInv
<1>8. /\ CallsOf = Calls(live, frames) /\ SpaceOf = frames.top
      /\ CallsOf' = Calls(Append(live, r), frames') /\ SpaceOf' = frames'.top
  BY <1>1, <1>2, StateIs, StateWillBe
<1>9. r \in [base : Nat, return_ip : Nat]
  <2>1. frames.top + FrameWords \in Nat
    BY <1>3, VmAssumption DEF FramesInv, FramesTyped
  <2>2. QED
    BY <1>3, <2>1
<1>10. r.base = frames.top + FrameWords /\ r.return_ip = ip + 1
  OBVIOUS
<1> HIDE DEF r
<1>11. CallsOf' = Append(CallsOf, [return_ip |-> ip + 1, locals |-> << >>])
  BY <1>3, <1>7, <1>8, <1>9, <1>10, CallAdded
<1>12. Abstract!Cal
  BY <1>1, <1>2, <1>6, <1>7, <1>8, <1>11 DEF Abstract!Cal
<1>13. QED
  BY <1>12 DEF Abstract!Next

LEMMA RetMaps ==
    ASSUME IInv, OpRet
    PROVE  Abstract!Next
<1> DEFINE n == Len(live)
<1>1. /\ Executes("ret") /\ Silently /\ ip' = ReturnIp /\ Frame >= 0
      /\ live' = SubSeq(live, 1, n - 1) /\ value_stack' = value_stack
  BY DEF OpRet
<1>2. /\ Abstract!Executes("ret") /\ status = "running" /\ status' = "running"
      /\ Abstract!Silently
  BY <1>1, SameExecutes
<1>3. FramesInv /\ Layout
  BY <1>1, Executing
<1>4. n \in Nat /\ n >= 2 /\ ReturnIp = live[n].return_ip
  BY <1>1, <1>3, ReturnStep
<1>5. /\ CallsOf = Calls(live, frames) /\ Len(CallsOf) = n /\ SpaceOf = frames.top
      /\ Abstract!Current = CallsOf[n]
      /\ CallsOf[n] = [return_ip |-> live[n].return_ip,
                       locals |-> Variables(live, frames, n)]
      /\ Len(Abstract!Locals) = frames.top - frames.local_variables
      /\ frames.top \in Nat /\ frames.local_variables \in 0 .. frames.top
  BY <1>2, SameCallState
<1>6. /\ frames'.words = frames.words
      /\ frames'.top = frames.local_variables - FrameWords
  BY AfterRet
<1>7. /\ CallsOf' = Calls(SubSeq(live, 1, n - 1), frames') /\ SpaceOf' = frames'.top
      /\ UNCHANGED StackOf
  BY <1>1, <1>2, StateWillBe, StackKept
<1>8. CallsOf' = SubSeq(CallsOf, 1, Len(CallsOf) - 1)
  BY <1>3, <1>4, <1>5, <1>6, <1>7, CallRemoved
<1>9. SpaceOf' = SpaceOf - Len(Abstract!Locals) - FrameWords
  <2>1. FrameWords = 2
    BY VmAssumption
  <2>2. QED
    BY <1>5, <1>6, <1>7, <2>1
<1>10. Len(CallsOf) > 1 /\ ip' = Abstract!Current.return_ip
  BY <1>1, <1>4, <1>5
<1>11. Abstract!Ret
  BY <1>2, <1>7, <1>8, <1>9, <1>10 DEF Abstract!Ret
<1>12. QED
  BY <1>11 DEF Abstract!Next
-----------------------------------------------------------------------------
(* Behaviour is undefined only where that of the stack machine is.         *)

LEMMA StopsMap ==
    ASSUME status = "running", Stops, Abstract!Breaks
    PROVE  Abstract!Next
<1>1. status' = "undefined" /\ output' = NoOutput /\ UNCHANGED <<bytecode, ip>>
  BY DEF Stops
<1>2. StackOf' = << >> /\ CallsOf' = << >> /\ SpaceOf' = 0
  BY <1>1 DEF StackOf, CallsOf, SpaceOf, Defined
<1>3. Abstract!Undefined
  BY <1>1, <1>2, SameOperations DEF Abstract!Undefined
<1>4. QED
  BY <1>3 DEF Abstract!Next

LEMMA OutsideBreaks ==
    ASSUME IInv, FetchOutside \/ Underflow
    PROVE  Abstract!Breaks
<1>1. status = "running"
  BY DEF FetchOutside, Underflow, Running
<1>2. Len(StackOf) = value_stack.top /\ Abstract!Pops(Abstract!Op) = Pops(Op)
  BY <1>1, SameStackState, SamePops, SameOperations
<1>3. CASE FetchOutside
  <2>1. ip >= Len(bytecode) /\ ip \in Nat /\ Len(bytecode) \in Nat
    BY <1>3, VmAssumption DEF FetchOutside, IInv, ControlInv
  <2>2. ~(ip < Len(bytecode))
    BY <2>1
  <2>3. QED
    BY <2>2 DEF Abstract!Breaks
<1>4. CASE Underflow
  <2>1. value_stack.top < Pops(Op) /\ value_stack.top \in Nat
    BY <1>1, <1>4, SameStackState DEF Underflow
  <2>2. Pops(Op) \in Int
    BY DEF Pops
  <2>3. ~(value_stack.top >= Pops(Op))
    BY <2>1, <2>2
  <2>4. QED
    BY <1>2, <2>3 DEF Abstract!Breaks
<1>5. QED
  BY <1>3, <1>4

LEMMA ReturnBreaks ==
    ASSUME IInv, ReturnOutside
    PROVE  Abstract!Breaks
<1>1. Executes("ret") /\ Frame < 0
  BY DEF ReturnOutside
<1>2. status = "running" /\ Op = "ret" /\ FramesInv /\ Layout
  BY <1>1, Executing
<1>3. Len(CallsOf) = Len(live) /\ Len(live) \in Nat \ {0}
  BY <1>2, SameCallState
<1>4. Len(live) = 1
  <2> DEFINE n == Len(live)
  <2>1. n \in 1 .. Len(live) /\ live[n].base = frames.local_variables
    BY <1>2, <1>3 DEF Layout, Chained
  <2>2. n # 1 => live[n].base - FrameWords \in Nat
    BY <1>2, <2>1, BasesBelow
  <2>3. n # 1 => Frame \in Nat
    BY <2>1, <2>2 DEF Frame
  <2>4. QED
    BY <1>1, <2>3
<1>5. QED
  BY <1>2, <1>3, <1>4, SameOperations DEF Abstract!Breaks

LEMMA VariableBreaks ==
    ASSUME IInv, VariableOutside
    PROVE  Abstract!Breaks
<1>1. ~InBlock(Arg)
  BY DEF VariableOutside
<1>2. /\ status = "running" /\ FramesInv /\ Layout /\ Arg \in Nat
      /\ Abstract!AddressesVariable(Abstract!Op)
  <2>1. PICK op \in {"var", "set", "sys dbg"} : Executes(op)
    BY DEF VariableOutside
  <2>2. QED
    BY <2>1, Executing, SameOperations DEF Abstract!AddressesVariable
<1>3. /\ frames.top \in Nat /\ frames.local_variables \in 0 .. frames.top
      /\ frames.block \in Nat /\ frames.top <= frames.block
  BY <1>2 DEF FramesInv, FramesTyped, Layout, Chained
<1>4. ~(Address(Arg) < frames.block)
  BY <1>1 DEF InBlock
<1>5. ~(Arg < Len(Abstract!Locals))
  <2>1. Arg \in Nat
    BY <1>2
  <2>2. Address(Arg) < frames.top => Address(Arg) < frames.block
    BY <1>3, <2>1 DEF Address
  <2>3. ~(Address(Arg) < frames.top)
    BY <1>4, <2>2
  <2>4. QED
    BY <1>2, <2>1, <2>3, SameReads
<1>6. Abstract!Arg >= Len(Abstract!Locals)
  <2> DEFINE m == Len(Abstract!Locals)
  <2>1. m = frames.top - frames.local_variables
    BY <1>2, SameCallState
  <2>2. Arg \in Nat /\ Abstract!Arg = Arg
    BY <1>2, SameOperations
  <2>3. ~(Arg < m)
    BY <1>5
  <2> HIDE DEF m
  <2>4. Arg >= m
    BY <1>3, <2>1, <2>2, <2>3
  <2>5. QED
    BY <2>2, <2>4 DEF m
<1>7. QED
  BY <1>2, <1>6 DEF Abstract!Breaks

LEMMA FramesBreak ==
    ASSUME IInv, BlockInv, FramesOutside
    PROVE  Abstract!Breaks
<1>1. PICK op \in {"cal", "res"} : Executes(op)
  BY DEF FramesOutside
<1> DEFINE size == IF Op = "cal" THEN FrameWords ELSE Arg
<1>2. status = "running" /\ Op = op /\ FramesInv /\ Layout /\ Arg \in Nat
  BY <1>1, Executing
<1>3. ~Backed(frames_alloc(frames, size))
  BY DEF FramesOutside
<1>4. size \in Nat /\ FrameBlock \in Nat
  BY <1>2, VmAssumption
<1>5. /\ frames.top \in Nat /\ frames.block \in Nat /\ FramesTyped(frames)
      /\ frames.capacity = frames.block /\ frames.block = FrameBlock
  BY <1>2 DEF FramesInv, FramesTyped, Layout, Chained, BlockInv
<1>6. SpaceOf = frames.top
  BY <1>2, SameCallState
<1> HIDE DEF size
<1>7. frames.top + size > FrameBlock
  <2> SUFFICES ASSUME frames.capacity >= frames.top + size PROVE FALSE
    BY <1>4, <1>5
  <2>1. frames_alloc(frames, size) = [frames EXCEPT !.top = @ + size]
    BY DEF frames_alloc
  <2>2. /\ frames_alloc(frames, size).top = frames.top + size
        /\ frames_alloc(frames, size).block = frames.block
    BY <1>5, <2>1 DEF FramesTyped
  <2>3. QED
    BY <1>3, <1>5, <2>2 DEF Backed
<1>8. \/ Abstract!Op = "cal" /\ SpaceOf + FrameWords > FrameBlock
      \/ Abstract!Op = "res" /\ SpaceOf + Abstract!Arg > FrameBlock
  BY <1>1, <1>2, <1>6, <1>7, SameOperations DEF size
<1>9. QED
  BY <1>8 DEF Abstract!Breaks

LEMMA TrapBreaks ==
    ASSUME IInv, Trapped
    PROVE  Abstract!Breaks
<1>1. CASE \E op \in UnaryOperations : Executes(op) /\ Trap \in UnaryOutcomes(op, Top)
  <2>1. PICK op \in UnaryOperations : Executes(op) /\ Trap \in UnaryOutcomes(op, Top)
    BY <1>1
  <2>2. status = "running" /\ Op = op /\ value_stack.top >= Pops(op) /\ Pops(op) = 1
    BY <2>1, Executing, PopsCounted
  <2>3. Abstract!Top = Top
    BY <2>2, SameStackState
  <2>4. QED
    BY <2>1, <2>2, <2>3, SameOperations, SameUnary DEF Abstract!Breaks
<1>2. CASE \E op \in BinaryOperations : Executes(op) /\ Trap \in BinaryOutcomes(op, Below, Top)
  <2>1. PICK op \in BinaryOperations : Executes(op) /\ Trap \in BinaryOutcomes(op, Below, Top)
    BY <1>2
  <2>2. status = "running" /\ Op = op /\ value_stack.top >= Pops(op) /\ Pops(op) = 2
    BY <2>1, Executing, PopsCounted
  <2>3. value_stack.top >= 1 /\ value_stack.top >= 2
    <3>1. value_stack.top \in Nat
      BY <2>2, SameStackState
    <3>2. QED
      BY <2>2, <3>1
  <2>4. Abstract!Top = Top /\ Abstract!Below = Below
    BY <2>2, <2>3, SameStackState
  <2>5. QED
    BY <2>1, <2>2, <2>4, SameOperations, SameBinary DEF Abstract!Breaks
<1>3. QED
  BY <1>1, <1>2 DEF Trapped
-----------------------------------------------------------------------------
(* The refinement.                                                         *)

(* No step that the machine survives moves the frames to another block.    *)
LEMMA NextKeepsBlock == IInv /\ BlockInv /\ [Next]_vars => BlockInv'
<1> SUFFICES ASSUME IInv, BlockInv, [Next]_vars, status' # "undefined"
             PROVE  frames'.block = FrameBlock
  BY DEF BlockInv
<1>1. CASE OpCal
  BY <1>1, AfterCal DEF BlockInv, OpCal, Executes, Running
<1>2. CASE OpRes
  BY <1>2, AfterRes DEF BlockInv, OpRes, Executes, Running
<1>3. CASE OpRet
  BY <1>3, AfterRet DEF BlockInv, OpRet, Executes, Running
<1>4. CASE OpSet
  BY <1>4, AfterSet DEF BlockInv, OpSet, Executes, Running
<1>5. CASE FramesUnchanged /\ status # "undefined"
  BY <1>5 DEF BlockInv, FramesUnchanged
<1>6. CASE UNCHANGED vars
  BY <1>6 DEF BlockInv, vars
<1>7. QED
  BY <1>1, <1>2, <1>3, <1>4, <1>5, <1>6
  DEF Next, OpNop, OpScaLoc, OpVar, OpPop, OpJmp, OpJnz, OpJze, ConditionalJump,
      OpUnary, OpBinary, Sys, SysDbg, SysExit, Invalid, FetchOutside, Underflow,
      ReturnOutside, VariableOutside, FramesOutside, Trapped, Executes, Running, Stops

LEMMA StepMaps == IInv /\ BlockInv /\ [Next]_vars => [Abstract!Next]_Abstract!vars
<1> SUFFICES ASSUME IInv, BlockInv, [Next]_vars
             PROVE  Abstract!Next \/ UNCHANGED Abstract!vars
  OBVIOUS
<1>1. CASE UNCHANGED vars
  <2>1. UNCHANGED <<bytecode, ip, status, output>>
    BY <1>1 DEF vars
  <2>2. UNCHANGED <<StackOf, CallsOf, SpaceOf>>
    <3>1. CASE status # "undefined"
      BY <1>1, <3>1, CallsKept, StackKept DEF vars, FramesUnchanged
    <3>2. CASE status = "undefined"
      BY <2>1, <3>2 DEF StackOf, CallsOf, SpaceOf, Defined
    <3>3. QED
      BY <3>1, <3>2
  <2>3. QED
    BY <2>1, <2>2 DEF Abstract!vars
<1>2. CASE OpNop \/ OpJmp \/ Sys \/ OpPop \/ OpJnz \/ OpJze \/ SysExit \/ OpScaLoc \/ OpVar
  BY <1>2, QuietMaps, JumpsAndPopMap, PushesMap
<1>3. CASE SysDbg \/ OpUnary \/ OpBinary \/ Invalid \/ OpSet \/ OpRes \/ OpCal \/ OpRet
  BY <1>3, SysDbgMaps, UnaryMaps, BinaryMaps, InvalidMaps, SetMaps, ResMaps, CalMaps,
     RetMaps
<1>4. CASE FetchOutside \/ Underflow \/ ReturnOutside \/ VariableOutside
           \/ FramesOutside \/ Trapped
  <2>1. Abstract!Breaks
    BY <1>4, OutsideBreaks, ReturnBreaks, VariableBreaks, FramesBreak, TrapBreaks
  <2>2. status = "running" /\ Stops
    BY <1>4 DEF FetchOutside, Underflow, ReturnOutside, VariableOutside, FramesOutside,
                Trapped, Executes, Running
  <2>3. QED
    BY <2>1, <2>2, StopsMap
<1>5. QED
  BY <1>1, <1>2, <1>3, <1>4 DEF Next

LEMMA InitMaps == Init => Abstract!Init /\ BlockInv
<1> SUFFICES ASSUME Init PROVE Abstract!Init /\ BlockInv
  OBVIOUS
<1>1. /\ bytecode \in Programs /\ ip = 0 /\ status = "running" /\ output = NoOutput
      /\ value_stack.top = 0
      /\ frames.top = 0 /\ frames.block = FrameBlock
      /\ live = << [base |-> 0, return_ip |-> 0] >>
  BY DEF Init
<1>2. StackOf = << >> /\ SpaceOf = 0
  BY <1>1 DEF StackOf, SpaceOf, Defined
<1>3. CallsOf = << [return_ip |-> 0, locals |-> << >>] >>
  <2>1. Len(live) = 1 /\ live[1] = [base |-> 0, return_ip |-> 0]
    BY <1>1
  <2>2. Variables(live, frames, 1) = << >>
    BY <1>1, <2>1 DEF Variables, End
  <2>3. CallsOf = [k \in 1 .. 1 |-> [return_ip |-> live[k].return_ip,
                                     locals |-> Variables(live, frames, k)]]
    BY <1>1, <2>1, StateIs DEF Calls
  <2>4. DOMAIN CallsOf = 1 .. 1 /\ CallsOf[1] = [return_ip |-> 0, locals |-> << >>]
    BY <2>1, <2>2, <2>3
  <2>5. QED
    BY <2>3, <2>4
<1>4. QED
  BY <1>1, <1>2, <1>3, SameOperations DEF Abstract!Init, BlockInv

(* The machine computes on its two memory blocks what the stack machine    *)
(* computes on sequences (vm_run, push, pop, frames_alloc, op_cal, op_ret, *)
(* op_set): growing the value stack loses nothing, a call finds its        *)
(* variables zeroed and its caller's intact, and behaviour is undefined    *)
(* only where the stack machine says so.                                   *)
THEOREM MachineImplementsStackMachine == Spec => ImplementsStackMachine
<1>1. IInv /\ BlockInv /\ [Next]_vars => BlockInv'
  BY NextKeepsBlock
<1>2. Init => Abstract!Init /\ BlockInv
  BY InitMaps
<1>3. IInv /\ BlockInv /\ [Next]_vars => [Abstract!Next]_Abstract!vars
  BY StepMaps
<1>4. QED
  BY <1>1, <1>2, <1>3, Invariant, PTL DEF Spec, ImplementsStackMachine, Abstract!Spec
=============================================================================
