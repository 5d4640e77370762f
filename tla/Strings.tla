------------------------------- MODULE Strings -------------------------------
(***************************************************************************)
(* The users of a block of memory (module Buf): the allocator itself, the  *)
(* arrays of lib/util/collections/array.h and the strings of               *)
(* lib/util/collections/string.c, with read_file.  A behaviour is about    *)
(* one of them and makes calls in any order, until there is no memory:     *)
(* what happens then is undefined.                                         *)
(*                                                                         *)
(* An array of elements of several bytes gives the capacity of its block   *)
(* up to a whole element.  A string is an array of characters with a NUL   *)
(* at its end that its length does not count, or no block at all.          *)
(*                                                                         *)
(* Two history variables say what the block should hold: expected, a cell  *)
(* for each one in use (Unset where anything may be), and regions, those   *)
(* handed out.  Every call writes cells of its own.                        *)
(***************************************************************************)
EXTENDS Buf

CONSTANTS
    ElementSize,     \* bytes of an element of the array
    FirstCapacities, \* of the block of the allocator
    Lengths,         \* of what is reserved, allocated or written in one call
    Alignments,
    FileSizes,
    ReadChunk,       \* room read_file asks for: 64 in the code
    MaxCalls         \* bound of the model: calls made

ASSUME StringsAssumption ==
    /\ ElementSize \in Nat \ {0} /\ ReadChunk \in Nat \ {0} /\ MaxCalls \in Nat
    /\ Alignments \subseteq Nat \ {0}
    /\ Lengths \subseteq Nat /\ FileSizes \subseteq Nat
    /\ FirstCapacities \subseteq 0 .. Memory
    /\ Memory \in Nat /\ (Memory + 1) % ElementSize = 0 \* so that Room tells

VARIABLES
    used,     \* as what: "buf", "array" or "string"
    object,   \* the struct of that name
    expected,
    regions,
    taken,    \* the last cells taken out, and what they should be
    reading,  \* the call of read_file, its file and its errno
    calls

vars == <<used, object, expected, regions, taken, reading, calls>>

NUL == 0
Least(a, b) == IF a <= b THEN a ELSE b
EmptyArray == [data |-> <<>>, len |-> 0, capacity |-> 0]
NotReading == [status |-> "idle"]

Init ==
    /\ \/ used = "buf" /\ \E capacity \in FirstCapacities : object = buf_new(capacity)
       \/ used \in {"array", "string"} /\ object = EmptyArray
    /\ expected = <<>> /\ regions = {}
    /\ taken = [got |-> <<>>, want |-> <<>>]
    /\ reading = NotReading
    /\ calls = 0

(* What the struct says is allocated, which is allocated unless there was  *)
(* no memory for it.                                                       *)
Room == CASE used = "buf"    -> object.capacity
          [] used = "array"  -> object.capacity * ElementSize
          [] used = "string" -> object.capacity

OutOfMemory == Room > Memory

(* What the next call writes.                                              *)
NewCells(n) == [k \in 1 .. n |-> 16 * (calls + 1) + k]

Calls(as) ==
    /\ used = as /\ reading.status # "reading" /\ calls < MaxCalls
    /\ ~OutOfMemory
    /\ calls' = calls + 1 /\ UNCHANGED used

-----------------------------------------------------------------------------
(* The allocator.  The cells skipped to align the cursor may hold anything.*)

Padded(size) == expected \o Block(size - Len(expected))

Handed(next, cells, alignment) ==
    LET start == next.size - Len(cells)
    IN  /\ object' = next
        /\ expected' = Padded(start) \o cells
        /\ regions' = regions \cup
               {[start |-> start, size |-> Len(cells), alignment |-> alignment]}

Moved(next) ==
    object' = next /\ expected' = Padded(next.size) /\ UNCHANGED regions

BufReserve(n) ==
    Calls("buf") /\ Moved(buf_reserve(object, n)) /\ UNCHANGED <<taken, reading>>

BufAlign(alignment) ==
    /\ Calls("buf")
    /\ \/ Moved(buf_align(object, alignment))
       \/ Moved(buf_align_or_grow(object, alignment))
    /\ UNCHANGED <<taken, reading>>

BufAlloc(n, alignment) ==
    /\ Calls("buf")
    /\ LET next == buf_alloc(object, n, alignment)
       IN  IF Allocable(object, n, alignment)
           THEN Handed(next, Block(n), alignment) ELSE Moved(next)
    /\ UNCHANGED <<taken, reading>>

BufAllocOrGrow(n, alignment) ==
    /\ Calls("buf")
    /\ Handed(buf_alloc_or_grow(object, n, alignment), Block(n), alignment)
    /\ UNCHANGED <<taken, reading>>

BufExtend(n, alignment) ==
    /\ Calls("buf")
    /\ LET next == buf_extend(object, NewCells(n), alignment)
       IN  IF Allocable(object, n, alignment)
           THEN Handed(next, NewCells(n), alignment) ELSE Moved(next)
    /\ UNCHANGED <<taken, reading>>

BufExtendOrGrow(n, alignment) ==
    /\ Calls("buf")
    /\ Handed(buf_extend_or_grow(object, NewCells(n), alignment), NewCells(n), alignment)
    /\ UNCHANGED <<taken, reading>>

(* Takes the last n cells: a region they reach into is gone.               *)
BufCut(n) ==
    /\ Calls("buf") /\ n <= object.size
    /\ object' = buf_cut(object, n)
    /\ taken' = [got |-> CutCells(object, n),
                 want |-> SubSeq(expected, Len(expected) - n + 1, Len(expected))]
    /\ expected' = SubSeq(expected, 1, Len(expected) - n)
    /\ regions' = {r \in regions : r.start + r.size <= object.size - n}
    /\ UNCHANGED reading

-----------------------------------------------------------------------------
(* Arrays, of elements of e bytes.                                         *)

AsBuf(e, array) ==
    [data |-> array.data, size |-> array.len * e, capacity |-> array.capacity * e]

OfBuf(e, buf) ==
    [data |-> buf.data, len |-> buf.size \div e, capacity |-> buf.capacity \div e]

array_buf_reserve(e, array, additional) ==
    OfBuf(e, buf_reserve(AsBuf(e, array), additional * e))

array_buf_extend(e, array, cells) ==
    OfBuf(e, buf_extend_or_grow(AsBuf(e, array), cells, 1))

array_buf_push(e, array, cells) == array_buf_extend(e, array, cells)

ArrayReserve(n) ==
    /\ Calls("array")
    /\ object' = array_buf_reserve(ElementSize, object, n)
    /\ UNCHANGED <<expected, regions, taken, reading>>

ArrayExtend(n) ==
    /\ Calls("array")
    /\ object' = array_buf_extend(ElementSize, object, NewCells(n * ElementSize))
    /\ expected' = expected \o NewCells(n * ElementSize)
    /\ UNCHANGED <<regions, taken, reading>>

ArrayPush ==
    /\ Calls("array")
    /\ object' = array_buf_push(ElementSize, object, NewCells(ElementSize))
    /\ expected' = expected \o NewCells(ElementSize)
    /\ UNCHANGED <<regions, taken, reading>>

ArrayPop ==
    LET left == Len(expected) - ElementSize
    IN  /\ Calls("array") /\ object.len > 0
        /\ object' = [object EXCEPT !.len = object.len - 1]
        /\ taken' = [got |-> CutCells(AsBuf(ElementSize, object), ElementSize),
                     want |-> SubSeq(expected, left + 1, Len(expected))]
        /\ expected' = SubSeq(expected, 1, left)
        /\ UNCHANGED <<regions, reading>>

-----------------------------------------------------------------------------
(* Strings.                                                                *)

NoBlock(string) == string.data = <<>>

to_array(string) ==
    [string EXCEPT !.len = IF NoBlock(string) THEN 0 ELSE string.len + 1]

from_array(array) ==
    [array EXCEPT !.len = IF array.len # 0 THEN array.len - 1 ELSE 0]

string_buf_reserve(string, additional) ==
    LET array == to_array(string)
        bytes == IF array.len = 0 THEN additional + 1 ELSE additional
        reserved == array_buf_reserve(1, array, bytes)
    IN  IF additional = 0 THEN string
        ELSE from_array(IF array.len = 0 THEN array_buf_push(1, reserved, <<NUL>>)
                        ELSE reserved)

string_buf_extend_slice(string, cells) ==
    LET array == to_array(string_buf_reserve(string, Len(cells)))
        open  == [array EXCEPT !.len = IF array.len # 0 THEN array.len - 1 ELSE 0]
    IN  from_array(array_buf_push(1, array_buf_extend(1, open, cells), <<NUL>>))

(* vsnprintf cuts what it writes to the capacity, and ends it with a NUL.  *)
Printed(string, cells) ==
    IF string.capacity = 0 THEN string.data
    ELSE Written(string.data, 0,
            SubSeq(cells, 1, Least(Len(cells), string.capacity - 1)) \o <<NUL>>)

format(cells) ==
    LET string == string_buf_reserve(EmptyArray, Len(cells))
    IN  [string EXCEPT !.data = Printed(string, cells), !.len = Len(cells)]

StringReserve(n) ==
    /\ Calls("string")
    /\ object' = string_buf_reserve(object, n)
    /\ UNCHANGED <<expected, regions, taken, reading>>

(* string_buf_push and string_buf_extend are this function on one          *)
(* character and on the characters up to a NUL.                            *)
StringExtend(n) ==
    /\ Calls("string")
    /\ object' = string_buf_extend_slice(object, NewCells(n))
    /\ expected' = expected \o NewCells(n)
    /\ UNCHANGED <<regions, taken, reading>>

Format(n) ==
    /\ Calls("string")
    /\ object' = format(NewCells(n))
    /\ expected' = NewCells(n)
    /\ UNCHANGED <<regions, taken, reading>>

-----------------------------------------------------------------------------
(* read_file.  The file has size characters, at of which were read; errno  *)
(* is zero or not, and is what it was when the call was made until memory  *)
(* is allocated (try_realloc clears it) or a read fails (sets it).         *)

ReadFile(size, errno) ==
    /\ Calls("string")
    /\ reading' = [status |-> "reading", size |-> size, at |-> 0, eof |-> FALSE,
                   failed |-> FALSE, errno |-> errno, stale |-> errno, result |-> 0]
    /\ UNCHANGED <<object, expected, regions, taken>>

Request_NoRoomForNUL(string) == string.capacity - string.len
Request(string) == string.capacity - string.len - 1

(* What fread may do when asked for request characters: read them all,     *)
(* come to the end of the file, or fail after any number of them.          *)
Fread(file, request, n) ==
    LET left == file.size - file.at
        read == [file EXCEPT !.at = file.at + n]
    IN  IF n = request THEN {read}
        ELSE {[read EXCEPT !.failed = TRUE, !.errno = 1]} \cup
             (IF n = left THEN {[read EXCEPT !.eof = TRUE]} ELSE {})

Returned_AlwaysZero(file, result) == [file EXCEPT !.status = "returned", !.result = 0]
Returned(file, result) == [file EXCEPT !.status = "returned", !.result = result]

ReadMore ==
    LET string == string_buf_reserve(object, ReadChunk)
        file == IF string.capacity = object.capacity THEN reading
                ELSE [reading EXCEPT !.errno = 0]
        left == file.size - file.at
    IN  /\ reading.status = "reading" /\ ~reading.eof /\ ~OutOfMemory
        /\ \E n \in 0 .. Least(Request(string), left) :
           \E after \in Fread(file, Request(string), n) :
              LET cells == [k \in 1 .. n |-> file.at + k]
              IN  IF n = 0
                  THEN object' = string /\ reading' = Returned(after, after.errno)
                       /\ UNCHANGED expected
                  ELSE /\ object' = [string EXCEPT
                              !.data = Written(string.data, string.len, cells \o <<NUL>>),
                              !.len = string.len + n]
                       /\ reading' = after
                       /\ expected' = expected \o cells
        /\ UNCHANGED <<used, regions, taken, calls>>

ReadEnd ==
    /\ reading.status = "reading" /\ reading.eof /\ ~OutOfMemory
    /\ reading' = Returned(reading, 0)
    /\ UNCHANGED <<used, object, expected, regions, taken, calls>>

-----------------------------------------------------------------------------
Next ==
    \/ \E n \in Lengths : BufReserve(n)
    \/ \E alignment \in Alignments : BufAlign(alignment)
    \/ \E n \in Lengths, alignment \in Alignments :
          \/ BufAlloc(n, alignment) \/ BufAllocOrGrow(n, alignment)
          \/ BufExtend(n, alignment) \/ BufExtendOrGrow(n, alignment)
    \/ \E n \in Lengths : BufCut(n)
    \/ \E n \in Lengths : ArrayReserve(n) \/ ArrayExtend(n)
    \/ ArrayPush \/ ArrayPop
    \/ \E n \in Lengths : StringReserve(n) \/ StringExtend(n) \/ Format(n)
    \/ \E size \in FileSizes, errno \in {0, 1} : ReadFile(size, errno)
    \/ ReadMore \/ ReadEnd

(* Weak fairness of the loop of read_file, whose steps are enabled exactly *)
(* while it is reading and there is memory.                                *)
Fairness ==
    []<>(reading.status # "reading" \/ OutOfMemory) \/ []<><<ReadMore \/ ReadEnd>>_vars

Spec == Init /\ [][Next]_vars /\ Fairness

-----------------------------------------------------------------------------
Matches(cells, want) ==
    Len(want) <= Len(cells)
        /\ \A i \in DOMAIN want : want[i] = Unset \/ want[i] = cells[i]

InUse == CASE used = "buf"    -> object.size
           [] used = "array"  -> object.len * ElementSize
           [] used = "string" -> object.len

(* Through growth, alignment, cuts and reads in pieces, the block holds    *)
(* what was written to it and gives it back, while there is memory: its    *)
(* fields never claim more than was allocated, no cell in use is lost or   *)
(* overwritten (buf.c:23, array.h:89), and a string that has a block ends  *)
(* with a NUL after its characters, inside the block (string.c:69-112).    *)
HoldsWhatWasPut ==
    ~OutOfMemory =>
        /\ InUse = Len(expected) /\ InUse <= Room /\ Room <= Len(object.data)
        /\ Matches(object.data, expected)
        /\ Matches(taken.got, taken.want)
        /\ used = "string" /\ ~NoBlock(object) =>
              InUse < Room /\ object.data[object.len + 1] = NUL

(* Regions handed out by buf.c are aligned, inside the part of the block   *)
(* in use and apart from each other, also after an allocation that failed  *)
(* once its cursor had moved (buf.c:49) and after cells were cut off.      *)
RegionsApart ==
    ~OutOfMemory =>
        \A r \in regions :
            /\ r.start % r.alignment = 0
            /\ r.start + r.size <= InUse /\ InUse <= Len(object.data)
            /\ \A s \in regions \ {r} :
                  r.start + r.size <= s.start \/ s.start + s.size <= r.start

(* read_file returns, however its file is cut into pieces and wherever it  *)
(* fails (string.c:103), while there is memory.  If it returns 0 the whole *)
(* file is in the string; another value means that a read failed, or that  *)
(* the file was empty and errno held the error of an earlier call, which   *)
(* read_file does not clear and returns as its own (string.c:108).         *)
ReadsFile ==
    (reading.status = "reading") ~>
        \/ OutOfMemory
        \/ /\ reading.status = "returned"
           /\ IF reading.result = 0 THEN reading.at = reading.size
              ELSE reading.failed \/ (reading.stale # 0 /\ reading.size = 0)
=============================================================================
