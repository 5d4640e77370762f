-------------------------- MODULE SourceText_proofs --------------------------
(***************************************************************************)
(* Proofs about module SourceText, for texts of every length: the table of *)
(* line starts is right, the search for a position inside the text keeps   *)
(* the invariant the code's comment claims and never leaves the table, and *)
(* its answer is the position's line and column.                           *)
(***************************************************************************)
EXTENDS SourceText, FiniteSetTheorems, SequenceTheorems, TLAPS

(* The entries that start a line: all of them, but for the last one when   *)
(* the table is closed.                                                    *)
Lines == IF phase = "scanning" THEN Len(line_indices) ELSE Len(line_indices) - 1

(* The k-th line starts after k - 1 newlines, the last of them just before *)
(* it.                                                                     *)
StartsLine(p, k) ==
    /\ p \in 0 .. i
    /\ p # 0 => p - 1 \in newlines
    /\ Cardinality(NewlinesBefore(p)) = k - 1

(* What both loops know of the table.                                      *)
Table ==
    /\ Lines \in Nat \ {0}
    /\ \A k \in 1 .. Lines : StartsLine(line_indices[k], k)
    /\ line_indices[1] = 0
    /\ \A k \in 1 .. Lines - 1, n \in newlines :
          n < line_indices[k] \/ line_indices[k + 1] - 1 <= n
    /\ \A n \in newlines : n < line_indices[Lines] \/ i <= n
    /\ Lines = 1 + Cardinality(NewlinesBefore(i))
    /\ phase # "scanning" => i = length /\ line_indices[Len(line_indices)] = length

InsideText == index < length => phase # "outside"

IInv == TypeOK /\ Table /\ SearchInvariant /\ PositionCorrect /\ InsideText

-----------------------------------------------------------------------------
(* The newlines before a position are finitely many, and one more than     *)
(* those before the previous position if there is one there.               *)
LEMMA NewlinesCount ==
    ASSUME length \in Nat, newlines \in SUBSET (0 .. length - 1),
           NEW p \in Nat
    PROVE  /\ IsFiniteSet(NewlinesBefore(p))
           /\ Cardinality(NewlinesBefore(p)) \in Nat
           /\ Cardinality(NewlinesBefore(p + 1)) =
                 IF p \in newlines THEN Cardinality(NewlinesBefore(p)) + 1
                                   ELSE Cardinality(NewlinesBefore(p))
<1>1. IsFiniteSet(newlines)
  <2>1. IsFiniteSet(0 .. length - 1)
    BY FS_Interval
  <2>2. QED
    BY <2>1, FS_Subset
<1>2. IsFiniteSet(NewlinesBefore(p))
  BY <1>1, FS_Subset DEF NewlinesBefore
<1>3. Cardinality(NewlinesBefore(p)) \in Nat
  BY <1>2, FS_CardinalityType
<1> \A n \in newlines : n \in Nat
  OBVIOUS
<1>4. CASE p \in newlines
  <2>1. NewlinesBefore(p + 1) = NewlinesBefore(p) \union {p}
    <3>1. \A n \in newlines : n < p + 1 <=> n < p \/ n = p
      OBVIOUS
    <3>2. QED
      BY <1>4, <3>1 DEF NewlinesBefore
  <2>2. p \notin NewlinesBefore(p)
    BY DEF NewlinesBefore
  <2>3. Cardinality(NewlinesBefore(p) \union {p}) = Cardinality(NewlinesBefore(p)) + 1
    BY <1>2, <2>2, FS_AddElement
  <2>4. QED
    BY <1>2, <1>3, <1>4, <2>1, <2>3
<1>5. CASE p \notin newlines
  <2>1. NewlinesBefore(p + 1) = NewlinesBefore(p)
    <3>1. \A n \in newlines : n < p + 1 <=> n < p
      BY <1>5
    <3>2. QED
      BY <3>1 DEF NewlinesBefore
  <2>2. QED
    BY <1>2, <1>3, <1>5, <2>1
<1>6. QED
  BY <1>4, <1>5

(* No newline comes before position 0.                                     *)
LEMMA NoNewlineBeforeZero ==
    ASSUME length \in Nat, newlines \in SUBSET (0 .. length - 1)
    PROVE  Cardinality(NewlinesBefore(0)) = 0
<1>1. NewlinesBefore(0) = {}
  <2>1. \A n \in newlines : ~(n < 0)
    OBVIOUS
  <2>2. QED
    BY <2>1 DEF NewlinesBefore
<1>2. QED
  BY <1>1, FS_EmptySet

LEMMA InitInvariant == Init => IInv
<1> SUFFICES ASSUME Init PROVE IInv
  OBVIOUS
<1>1. TypeOK
  BY MaxLengthAssumption DEF Init, TypeOK
<1>2. Cardinality(NewlinesBefore(0)) = 0
  BY <1>1, NoNewlineBeforeZero DEF TypeOK
<1>3. Table
  BY <1>1, <1>2 DEF Init, TypeOK, Table, Lines, StartsLine
<1>4. SearchInvariant /\ PositionCorrect /\ InsideText
  BY DEF Init, SearchInvariant, PositionCorrect, InsideText
<1>5. QED
  BY <1>1, <1>3, <1>4 DEF IInv

-----------------------------------------------------------------------------
(* The pass over the text extends the table by the line a newline starts.  *)
LEMMA ScanOneKeepsInvariant == IInv /\ ScanOne => IInv'
<1> SUFFICES ASSUME IInv, ScanOne PROVE IInv'
  OBVIOUS
<1> USE DEF ScanOne, text
<1>1. /\ length \in Nat /\ newlines \in SUBSET (0 .. length - 1)
      /\ i \in Nat /\ i < length /\ phase = "scanning"
      /\ line_indices \in Seq(0 .. length)
      /\ Len(line_indices) \in Nat
  BY DEF IInv, TypeOK
<1>n. \A n \in newlines : n \in Nat
  BY <1>1
<1>2. TypeOK'
  <2>1. line_indices' \in Seq(0 .. length)
    <3>1. CASE i \in newlines
      <4>1. i + 1 \in 0 .. length
        BY <1>1
      <4>2. Append(line_indices, i + 1) \in Seq(0 .. length)
        BY <1>1, <4>1
      <4>3. QED
        BY <3>1, <4>2 DEF LineStart
    <3>2. CASE i \notin newlines
      BY <1>1, <3>2
    <3>3. QED
      BY <3>1, <3>2
  <2>2. i' \in 0 .. length
    BY <1>1
  <2>3. QED
    BY <2>1, <2>2 DEF IInv, TypeOK
<1>3. \A p : NewlinesBefore(p)' = NewlinesBefore(p)
  BY DEF NewlinesBefore
<1>4. Cardinality(NewlinesBefore(i + 1)) =
         IF i \in newlines THEN Cardinality(NewlinesBefore(i)) + 1
                           ELSE Cardinality(NewlinesBefore(i))
  BY <1>1, NewlinesCount
<1>5. Table'
  <2>1. CASE i \in newlines
    <3>1. /\ line_indices' = Append(line_indices, i + 1)
          /\ Lines = Len(line_indices) /\ Lines' = Lines + 1
      BY <1>1, <2>1 DEF Lines, LineStart
    <3>2. \A k \in 1 .. Lines : line_indices'[k] = line_indices[k]
      BY <1>1, <3>1
    <3>a. Lines \in Nat \ {0}
      BY DEF IInv, Table
    <3>3. line_indices'[Lines'] = i + 1
      BY <1>1, <3>1
    <3>4. \A k \in 1 .. Lines' : StartsLine(line_indices[k], k)'
      <4>1. \A k \in 1 .. Lines : StartsLine(line_indices[k], k)'
        BY <1>1, <1>3, <3>1, <3>2 DEF IInv, Table, StartsLine
      <4>2. StartsLine(line_indices[Lines], Lines)'
        <5>1. Lines = 1 + Cardinality(NewlinesBefore(i))
          BY DEF IInv, Table
        <5>2. Cardinality(NewlinesBefore(i)) \in Nat
          BY <1>1, NewlinesCount
        <5>3. Cardinality(NewlinesBefore(i + 1)) = Lines' - 1
          BY <1>4, <2>1, <3>1, <5>1, <5>2
        <5>4. (i + 1) \in 0 .. i' /\ (i + 1) - 1 \in newlines
          BY <1>1, <2>1
        <5>5. QED
          BY <1>3, <3>3, <5>3, <5>4 DEF StartsLine
      <4>3. QED
        BY <3>a, <3>1, <4>1, <4>2
    <3>5. /\ Lines' \in Nat \ {0} /\ line_indices'[1] = 0
          /\ Lines' = 1 + Cardinality(NewlinesBefore(i + 1))
      <4>1. line_indices[1] = 0 /\ Lines = 1 + Cardinality(NewlinesBefore(i))
        BY DEF IInv, Table
      <4>2. Cardinality(NewlinesBefore(i)) \in Nat
        BY <1>1, NewlinesCount
      <4>3. QED
        BY <1>4, <2>1, <3>a, <3>1, <3>2, <4>1, <4>2
    <3>6. \A k \in 1 .. Lines' - 1, n \in newlines :
             n < line_indices'[k] \/ line_indices'[k + 1] - 1 <= n
      <4> SUFFICES ASSUME NEW k \in 1 .. Lines' - 1, NEW n \in newlines
                   PROVE  n < line_indices'[k] \/ line_indices'[k + 1] - 1 <= n
        OBVIOUS
      <4>1. k \in 1 .. Lines /\ line_indices'[k] = line_indices[k]
        BY <3>a, <3>1, <3>2
      <4>2. CASE k = Lines
        <5>1. n < line_indices[Lines] \/ i <= n
          BY DEF IInv, Table
        <5>2. line_indices'[k + 1] = i + 1
          BY <3>1, <3>3, <4>2
        <5>3. n < line_indices[Lines] \/ (i + 1) - 1 <= n
          BY <1>1, <5>1
        <5>4. QED
          BY <4>1, <4>2, <5>2, <5>3
      <4>3. CASE k # Lines
        <5>1. k \in 1 .. Lines - 1 /\ k + 1 \in 1 .. Lines
          BY <3>a, <4>1, <4>3
        <5>2. n < line_indices[k] \/ line_indices[k + 1] - 1 <= n
          BY <5>1 DEF IInv, Table
        <5>3. QED
          BY <3>2, <4>1, <5>1, <5>2
      <4>4. QED
        BY <4>2, <4>3
    <3>7. \A n \in newlines : n < line_indices'[Lines'] \/ i + 1 <= n
      <4>1. \A n \in newlines : n < i + 1 \/ i + 1 <= n
        BY <1>1, <1>n
      <4>2. QED
        BY <3>3, <4>1
    <3>8. QED
      BY <1>1, <1>3, <3>4, <3>5, <3>6, <3>7 DEF Table
  <2>2. CASE i \notin newlines
    <3>1. line_indices' = line_indices /\ Lines' = Lines
      BY <1>1, <2>2 DEF Lines
    <3>2. \A k \in 1 .. Lines : StartsLine(line_indices[k], k)'
      BY <1>1, <1>3, <3>1 DEF IInv, Table, StartsLine
    <3>3. \A n \in newlines : n < line_indices[Lines] \/ i + 1 <= n
      BY <1>1, <2>2 DEF IInv, Table
    <3>4. QED
      BY <1>1, <1>3, <1>4, <2>2, <3>1, <3>2, <3>3 DEF IInv, Table
  <2>3. QED
    BY <2>1, <2>2
<1>6. SearchInvariant' /\ PositionCorrect' /\ InsideText'
  BY <1>1 DEF SearchInvariant, PositionCorrect, InsideText
<1>7. QED
  BY <1>2, <1>5, <1>6 DEF IInv

(* Closing the table keeps it, and leaves the search between its first     *)
(* entry and its end.                                                      *)
LEMMA ScanEndKeepsInvariant == IInv /\ ScanEnd => IInv'
<1> SUFFICES ASSUME IInv, ScanEnd PROVE IInv'
  OBVIOUS
<1> USE DEF ScanEnd, text
<1>1. /\ length \in Nat /\ i = length /\ phase = "scanning" /\ phase' = "searching"
      /\ line_indices \in Seq(0 .. length)
      /\ line_indices' = Append(line_indices, length)
      /\ index \in 0 .. length
  BY DEF IInv, TypeOK
<1>2. TypeOK'
  BY <1>1 DEF IInv, TypeOK
<1>3. \A p : NewlinesBefore(p)' = NewlinesBefore(p)
  BY DEF NewlinesBefore
<1>4. Lines' = Lines /\ Lines = Len(line_indices)
  BY <1>1 DEF Lines
<1>5. \A k \in 1 .. Lines : line_indices'[k] = line_indices[k]
  BY <1>1, <1>4
<1>6. line_indices'[Len(line_indices')] = length
  BY <1>1
<1>7. Table'
  <2>1. \A k \in 1 .. Lines : StartsLine(line_indices[k], k)'
    BY <1>1, <1>3, <1>5 DEF IInv, Table, StartsLine
  <2>2. QED
    BY <1>1, <1>3, <1>4, <1>5, <1>6, <2>1 DEF IInv, Table
<1>8. SearchInvariant'
  BY <1>1, <1>2, <1>4, <1>5 DEF IInv, Table, SearchInvariant, TypeOK, data
<1>9. PositionCorrect' /\ InsideText'
  BY <1>1 DEF PositionCorrect, InsideText
<1>10. QED
  BY <1>2, <1>7, <1>8, <1>9 DEF IInv

-----------------------------------------------------------------------------
(* The search leaves the table alone.                                      *)
LEMMA SearchKeepsTable ==
    ASSUME Table, phase = "searching", phase' # "scanning",
           UNCHANGED <<text, i, line_indices>>
    PROVE  Table'
<1>1. /\ Lines' = Lines
      /\ \A p : NewlinesBefore(p)' = NewlinesBefore(p)
  BY DEF Lines, NewlinesBefore, text
<1>2. \A k \in 1 .. Lines : StartsLine(line_indices[k], k)'
  BY <1>1 DEF Table, StartsLine, text
<1>3. QED
  BY <1>1, <1>2 DEF Table, text

(* The middle of the search is inside the table, between its bounds.       *)
LEMMA MiddleInside ==
    ASSUME TypeOK, SearchInvariant, phase = "searching", index < length
    PROVE  /\ Middle \in Nat
           /\ start <= Middle
           /\ Middle < end
           /\ Inside(Middle)
           /\ Len(line_indices) \in Nat
<1>1. /\ start \in Nat /\ end \in Nat /\ start < end /\ end <= Len(line_indices)
      /\ Len(line_indices) \in Nat
  BY DEF TypeOK, SearchInvariant
<1>2. Middle \in Nat /\ start <= Middle /\ Middle < end
  BY <1>1 DEF Middle
<1>3. QED
  BY <1>1, <1>2 DEF Inside

(* An entry of the table is a position in the text.                        *)
LEMMA DataInText ==
    ASSUME TypeOK, NEW k \in Nat, Inside(k)
    PROVE  data(k) \in 0 .. length
<1>1. line_indices \in Seq(0 .. length) /\ Len(line_indices) \in Nat
  BY DEF TypeOK
<1>2. k + 1 \in 1 .. Len(line_indices)
  BY <1>1 DEF Inside
<1>3. QED
  BY <1>1, <1>2, ElementOfSeq DEF data

LEMMA SearchBelowKeepsInvariant == IInv /\ SearchBelow => IInv'
<1> SUFFICES ASSUME IInv, SearchBelow PROVE IInv'
  OBVIOUS
<1> USE DEF SearchBelow, text
<1>1. Table'
  BY SearchKeepsTable DEF IInv
<1>2. Middle \in Nat
  BY DEF IInv, TypeOK, Middle
<1>3. TypeOK'
  BY <1>2 DEF IInv, TypeOK
<1>4. SearchInvariant'
  <2> SUFFICES ASSUME index < length
               PROVE  /\ start < Middle /\ Middle <= Len(line_indices)
                      /\ data(start) <= index /\ index < data(Middle)
    BY DEF SearchInvariant, data
  <2>1. start <= Middle /\ Inside(Middle) /\ Len(line_indices) \in Nat
    BY MiddleInside DEF IInv
  <2>2. data(start) <= index /\ index < data(Middle)
    BY DEF IInv, SearchInvariant, Before
  <2>3. start # Middle
    <3>1. line_indices \in Seq(0 .. length) /\ index \in Nat /\ start \in Nat
      BY DEF IInv, TypeOK
    <3>2. data(Middle) \in 0 .. length
      BY <1>2, <2>1, DataInText DEF IInv
    <3>3. QED
      BY <2>2, <3>1, <3>2
  <2>4. QED
    BY <1>2, <2>1, <2>2, <2>3 DEF Inside, IInv, TypeOK
<1>5. PositionCorrect' /\ InsideText'
  BY DEF IInv, PositionCorrect, InsideText
<1>6. QED
  BY <1>1, <1>3, <1>4, <1>5 DEF IInv

LEMMA SearchAboveKeepsInvariant == IInv /\ SearchAbove => IInv'
<1> SUFFICES ASSUME IInv, SearchAbove PROVE IInv'
  OBVIOUS
<1> USE DEF SearchAbove, NextStart, text
<1>1. Table'
  BY SearchKeepsTable DEF IInv
<1>2. Middle \in Nat
  BY DEF IInv, TypeOK, Middle
<1>3. TypeOK'
  BY <1>2 DEF IInv, TypeOK
<1>4. SearchInvariant'
  <2> SUFFICES ASSUME index < length
               PROVE  /\ Middle + 1 < end /\ end <= Len(line_indices)
                      /\ data(Middle + 1) <= index
                      /\ end < Len(line_indices) => index < data(end)
    BY DEF SearchInvariant, data
  <2>1. /\ Middle < end /\ Len(line_indices) \in Nat /\ end \in Nat
        /\ line_indices \in Seq(0 .. length) /\ index \in Nat
    BY MiddleInside DEF IInv, TypeOK
  <2>2. /\ end <= Len(line_indices)
        /\ end < Len(line_indices) => index < data(end)
    BY DEF IInv, SearchInvariant
  <2>3. Inside(Middle + 1) /\ data(Middle + 1) <= index
    BY DEF After
  <2>4. data(Middle + 1) \in 0 .. length
    BY <1>2, <2>3, DataInText DEF IInv
  <2>5. Middle + 1 # end
    BY <2>1, <2>2, <2>3, <2>4 DEF Inside
  <2>6. QED
    BY <1>2, <2>1, <2>2, <2>3, <2>5
<1>5. PositionCorrect' /\ InsideText'
  BY DEF IInv, PositionCorrect, InsideText
<1>6. QED
  BY <1>1, <1>3, <1>4, <1>5 DEF IInv

(* The line found is the one the position is in: the newlines before the   *)
(* position are those before the line.                                     *)
LEMMA FoundKeepsInvariant == IInv /\ Found => IInv'
<1> SUFFICES ASSUME IInv, Found PROVE IInv'
  OBVIOUS
<1> USE DEF Found, text
<1>1. Table'
  BY SearchKeepsTable DEF IInv
<1> DEFINE m == Middle
           first == data(m)
           next == data(m + 1)
<1>2. /\ m \in Nat /\ index \in Nat /\ length \in Nat /\ i = length
      /\ newlines \in SUBSET (0 .. length - 1) /\ index <= length
      /\ Len(line_indices) \in Nat
  BY DEF IInv, TypeOK, Middle, Table
<1>3. first \in 0 .. length /\ next \in 0 .. length
  BY <1>2, DataInText DEF IInv
<1>4. first <= index /\ index < next
  BY <1>2, <1>3 DEF Before, After
<1>5. TypeOK'
  BY <1>2, <1>3, <1>4 DEF IInv, TypeOK
<1>6. Lines = Len(line_indices) - 1 /\ m + 1 \in 1 .. Lines
  BY <1>2 DEF Lines, Inside
<1>7. StartsLine(first, m + 1)
  BY <1>6 DEF IInv, Table, data
<1>8. \A n \in newlines : n < first \/ next - 1 <= n
  <2>1. CASE m + 1 = Lines
    <3>1. next = length
      BY <1>2, <1>6, <2>1 DEF IInv, Table, data
    <3>2. \A n \in newlines : n < first \/ length <= n
      BY <1>2, <2>1 DEF IInv, Table, data
    <3>3. QED
      BY <1>2, <3>1, <3>2
  <2>2. CASE m + 1 # Lines
    <3>1. m + 1 \in 1 .. Lines - 1
      BY <1>2, <1>6, <2>2
    <3>2. \A n \in newlines : n < line_indices[m + 1] \/ line_indices[(m + 1) + 1] - 1 <= n
      BY <3>1 DEF IInv, Table
    <3>3. QED
      BY <3>2 DEF data
  <2>3. QED
    BY <2>1, <2>2
<1>9. \A n \in newlines : n \in Nat /\ (n < first \/ index <= n)
  BY <1>2, <1>3, <1>4, <1>8
<1>10. NewlinesBefore(index) = NewlinesBefore(first)
  <2>1. \A n \in newlines : n < index <=> n < first
    BY <1>2, <1>3, <1>4, <1>9
  <2>2. QED
    BY <2>1 DEF NewlinesBefore
<1>11. Cardinality(NewlinesBefore(index)) = m
  BY <1>2, <1>7, <1>10 DEF StartsLine
<1>12. PositionCorrect'
  <2>1. index - (index - first) = first
    BY <1>2, <1>3
  <2>2. /\ position'.line = m /\ index' - position'.column = first
        /\ index' = index /\ newlines' = newlines
    BY <2>1
  <2>3. NewlinesBefore(index)' = NewlinesBefore(index)
    BY <2>2 DEF NewlinesBefore
  <2>4. first \in 0 .. index /\ (first # 0 => first - 1 \in newlines)
    BY <1>2, <1>3, <1>4, <1>7 DEF StartsLine
  <2>5. QED
    BY <1>9, <1>11, <2>2, <2>3, <2>4 DEF PositionCorrect
<1>13. SearchInvariant' /\ InsideText'
  BY DEF SearchInvariant, InsideText
<1>14. QED
  BY <1>1, <1>5, <1>12, <1>13 DEF IInv

(* The search reads outside the table only for the end of the text.        *)
LEMMA ReadOutsideKeepsInvariant == IInv /\ ReadOutside => IInv'
<1> SUFFICES ASSUME IInv, ReadOutside PROVE IInv'
  OBVIOUS
<1> USE DEF ReadOutside, text
<1>1. Table'
  BY SearchKeepsTable DEF IInv
<1>2. TypeOK'
  BY DEF IInv, TypeOK
<1>3. ~(index < length)
  <2> SUFFICES ASSUME index < length PROVE FALSE
    OBVIOUS
  <2>1. Middle \in Nat /\ Inside(Middle) /\ Len(line_indices) \in Nat
    BY MiddleInside DEF IInv
  <2>2. data(Middle) = length
    <3>1. Middle + 1 = Len(line_indices)
      BY <2>1 DEF Inside
    <3>2. QED
      BY <3>1 DEF data, IInv, Table
  <2>3. QED
    BY <2>1, <2>2 DEF Before
<1>4. SearchInvariant' /\ PositionCorrect' /\ InsideText'
  BY <1>3 DEF SearchInvariant, PositionCorrect, InsideText
<1>5. QED
  BY <1>1, <1>2, <1>4 DEF IInv

LEMMA StutterKeepsInvariant == IInv /\ UNCHANGED vars => IInv'
<1> SUFFICES ASSUME IInv, UNCHANGED vars PROVE IInv'
  OBVIOUS
<1>1. /\ Lines' = Lines
      /\ \A p : NewlinesBefore(p)' = NewlinesBefore(p)
      /\ \A k : data(k)' = data(k)
  BY DEF vars, text, Lines, NewlinesBefore, data
<1>2. TypeOK' /\ InsideText'
  BY DEF IInv, TypeOK, InsideText, vars, text
<1>3. Table'
  BY <1>1 DEF IInv, Table, StartsLine, vars, text
<1>4. SearchInvariant' /\ PositionCorrect'
  BY <1>1 DEF IInv, SearchInvariant, PositionCorrect, vars, text
<1>5. QED
  BY <1>2, <1>3, <1>4 DEF IInv

-----------------------------------------------------------------------------
(* Both loops keep the invariant: the table is right so far, and the       *)
(* position asked for is between the bounds of the search.                 *)
THEOREM Invariant == Spec => []IInv
<1>1. IInv /\ [Next]_vars => IInv'
  BY ScanOneKeepsInvariant, ScanEndKeepsInvariant, SearchBelowKeepsInvariant,
     SearchAboveKeepsInvariant, FoundKeepsInvariant,
     ReadOutsideKeepsInvariant, StutterKeepsInvariant
  DEF Next
<1>2. QED
  BY <1>1, InitInvariant, PTL DEF Spec

(* Every variable of the two loops has its type.                           *)
THEOREM TypeCorrect == Spec => []TypeOK
BY Invariant, PTL DEF IInv

(* While a position inside the text is searched for, it is between the     *)
(* entries at `start` and `end` (source.c:25-26).                          *)
THEOREM SearchKeepsBounds == Spec => []SearchInvariant
BY Invariant, PTL DEF IInv

(* The entries of the table are the starts of the lines, in order          *)
(* (source_text_new).                                                      *)
THEOREM TableIsRight == Spec => []LinesInOrder
<1>1. IInv => LinesInOrder
  BY DEF IInv, Table, StartsLine, Lines, LinesInOrder
<1>2. QED
  BY <1>1, Invariant, PTL

(* The answer of source_text_position is the line and the column of the    *)
(* position asked for, in texts of every length.                           *)
THEOREM AnswersAreRight == Spec => []PositionCorrect
BY Invariant, PTL DEF IInv

(* No read of the search for a position before the end of the text is      *)
(* outside the table.                                                      *)
THEOREM NeverOutside == Spec => [](index < length => ReadsInside)
<1>1. IInv => (index < length => ReadsInside)
  BY DEF IInv, InsideText, ReadsInside
<1>2. QED
  BY <1>1, Invariant, PTL
=============================================================================
