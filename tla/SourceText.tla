----------------------------- MODULE SourceText -----------------------------
(***************************************************************************)
(* lib/source/source.c: the table of line starts source_text_new builds in *)
(* one pass over a text, and the binary search source_text_position does   *)
(* in it, one action per iteration of either loop.                         *)
(*                                                                         *)
(* A text is its length and the set of the positions of its newlines.  A   *)
(* read past the end of the table is undefined behaviour: the search stops *)
(* in phase "outside".                                                     *)
(***************************************************************************)
EXTENDS Integers, Sequences, FiniteSets

CONSTANT MaxLength  \* bound of the model: the longest text

ASSUME MaxLengthAssumption == MaxLength \in Nat

VARIABLES
    length,       \* index of the terminating '\0'
    newlines,     \* positions of the '\n'
    index,        \* the position asked for
    phase,        \* "scanning", "searching", "found" or "outside"
    i,            \* position of the scan
    line_indices, \* position of the first character of each line, then length
    start, end,   \* bounds of the search
    position      \* the answer

vars == <<length, newlines, index, phase, i, line_indices, start, end, position>>

text == <<length, newlines, index>>

(* line_indices.data[k], and whether it is inside the array.               *)
data(k)   == line_indices[k + 1]
Inside(k) == k < Len(line_indices)

Init ==
    /\ length \in 0 .. MaxLength
    /\ newlines \in SUBSET (0 .. length - 1)
    /\ index \in 0 .. length
    /\ phase = "scanning"
    /\ i = 0
    /\ line_indices = <<0>>
    /\ start = 0
    /\ end = 0
    /\ position = [line |-> 0, column |-> 0]

-----------------------------------------------------------------------------
(* source_text_new.                                                        *)

LineStart_AtNewline(p) == p
LineStart_SkipsOne(p) == p + 2

LineStart(p) == p + 1

ScanOne ==
    /\ phase = "scanning"
    /\ i < length
    /\ i' = i + 1
    /\ line_indices' = IF i \in newlines THEN Append(line_indices, LineStart(i))
                                         ELSE line_indices
    /\ UNCHANGED <<text, phase, start, end, position>>

(* The text ends: its length closes the table and the search can begin.    *)
ScanEnd ==
    /\ phase = "scanning"
    /\ i = length
    /\ line_indices' = Append(line_indices, length)
    /\ start' = 0
    /\ end' = Len(line_indices')
    /\ phase' = "searching"
    /\ UNCHANGED <<text, i, position>>

-----------------------------------------------------------------------------
(* source_text_position.                                                   *)

Middle_RoundedUp == (start + end + 1) \div 2

Middle == (start + end) \div 2

(* Case (1): the line starts after the index.                              *)
Before_AtStart(k) == Inside(k) /\ index <= data(k)

Before(k) == Inside(k) /\ index < data(k)

(* Case (2): the next line starts at the index or before it.               *)
After_Strictly(k) ==
    Inside(k) /\ Inside(k + 1) /\ index >= data(k) /\ data(k + 1) < index

After(k) == Inside(k) /\ Inside(k + 1) /\ index >= data(k) /\ data(k + 1) <= index

SearchBelow ==
    /\ phase = "searching"
    /\ Before(Middle)
    /\ end' = Middle
    /\ UNCHANGED <<text, phase, i, line_indices, start, position>>

NextStart == Middle + 1

SearchAbove ==
    /\ phase = "searching"
    /\ After(Middle)
    /\ start' = NextStart
    /\ UNCHANGED <<text, phase, i, line_indices, end, position>>

Found ==
    /\ phase = "searching"
    /\ Inside(Middle) /\ Inside(Middle + 1)
    /\ ~Before(Middle) /\ ~After(Middle)
    /\ position' = [line |-> Middle, column |-> index - data(Middle)]
    /\ phase' = "found"
    /\ UNCHANGED <<text, i, line_indices, start, end>>

ReadOutside ==
    /\ phase = "searching"
    /\ \/ ~Inside(Middle)
       \/ ~Before(Middle) /\ ~Inside(Middle + 1)
    /\ phase' = "outside"
    /\ UNCHANGED <<text, i, line_indices, start, end, position>>

Next ==
    \/ ScanOne \/ ScanEnd
    \/ SearchBelow \/ SearchAbove \/ Found \/ ReadOutside

(* Both loops run to their end once entered.                               *)
Spec == Init /\ [][Next]_vars /\ WF_vars(Next)

-----------------------------------------------------------------------------
(* Properties.                                                             *)

TypeOK ==
    /\ length \in Nat
    /\ newlines \in SUBSET (0 .. length - 1)
    /\ index \in 0 .. length
    /\ phase \in {"scanning", "searching", "found", "outside"}
    /\ i \in 0 .. length
    /\ line_indices \in Seq(0 .. length)
    /\ start \in Nat
    /\ end \in Nat
    /\ position \in [line : Nat, column : Nat]

NewlinesBefore(p) == {n \in newlines : n < p}

(* While a position inside the text is searched for, the comment of        *)
(* source.c:25-26 holds: "index at `start` <= `index` < index at `end`",   *)
(* the end of the table standing for an index above all.                   *)
SearchInvariant ==
    phase = "searching" /\ index < length =>
        /\ start < end
        /\ end <= Len(line_indices)
        /\ data(start) <= index
        /\ end < Len(line_indices) => index < data(end)

(* The table of line starts, the last entry apart, is complete and in      *)
(* order: the k-th entry starts the line after k newlines, whatever the    *)
(* text.                                                                   *)
LinesInOrder ==
    LET lines == IF phase = "scanning" THEN Len(line_indices)
                                       ELSE Len(line_indices) - 1
    IN  /\ \A k \in 1 .. lines :
              /\ Cardinality(NewlinesBefore(line_indices[k])) = k - 1
              /\ line_indices[k] # 0 => line_indices[k] - 1 \in newlines
        /\ lines = 1 + Cardinality(NewlinesBefore(i))

(* An answer is right: the line counts the newlines before the position,   *)
(* and the column the characters after the last of them.                   *)
PositionCorrect ==
    phase = "found" =>
        LET first == index - position.column
        IN  /\ position.line = Cardinality(NewlinesBefore(index))
            /\ first \in 0 .. index
            /\ first # 0 => first - 1 \in newlines
            /\ \A n \in newlines : n < first \/ index <= n

(* Every position inside the text is found, and within the table: the      *)
(* "infinite descent" of source.c:49-56.                                   *)
FindsPosition == index < length => <>(phase = "found")

(* source.c:25-26: "index at `start` <= `index` < index at `end`" is an    *)
(* invariant of the search, whatever the position, so that no iteration    *)
(* reads outside the table.                                                *)
ReadsInside == phase # "outside"
=============================================================================
