-------------------------------- MODULE Buf --------------------------------
(***************************************************************************)
(* The block of memory of lib/util/alloc/buf.c, used as an allocator that  *)
(* hands out regions one after another, and as the storage of every array  *)
(* (lib/util/collections/array.h), which makes a Buf of its fields, calls  *)
(* one function and takes the fields back.                                 *)
(*                                                                         *)
(* data is what the block really holds, as many cells as were allocated,   *)
(* whatever capacity says; a write that does not fit is lost.  Allocation  *)
(* can fail, and malloc_or_exit and realloc_or_exit do not exit: they log  *)
(* the error, and the block stays as it was under its new capacity.        *)
(***************************************************************************)
EXTENDS Integers, Sequences

CONSTANT Memory \* the largest block there is memory for

Unset == -1 \* a cell nobody has written

Block(n) == [i \in 1 .. n |-> Unset]

Realloc(data, n) ==
    IF n > Memory THEN data
    ELSE IF n <= Len(data) THEN SubSeq(data, 1, n)
    ELSE data \o Block(n - Len(data))

(* memcpy to the cells after the first at ones.                            *)
Written(data, at, cells) ==
    IF at + Len(cells) > Len(data) THEN data
    ELSE SubSeq(data, 1, at) \o cells \o SubSeq(data, at + Len(cells) + 1, Len(data))

align_up_size(size, alignment) ==
    ((size + (alignment - 1)) \div alignment) * alignment

-----------------------------------------------------------------------------
buf_new(capacity) == [data |-> Block(capacity), size |-> 0, capacity |-> capacity]

buf_has_capacity_for(buf, additional) == buf.size + additional <= buf.capacity

NextCapacity(capacity) == IF capacity <= 5 THEN 8 ELSE (3 * capacity) \div 2

buf_reserve_for(buf, min_capacity) ==
    LET next == NextCapacity(buf.capacity)
        new_capacity == IF min_capacity >= next THEN min_capacity ELSE next
    IN  IF min_capacity <= buf.capacity THEN buf
        ELSE [buf EXCEPT !.data = Realloc(buf.data, new_capacity), !.capacity = new_capacity]

buf_reserve(buf, additional) == buf_reserve_for(buf, buf.size + additional)

(* Whether the cursor may move up to a multiple of alignment: not to the   *)
(* end of the block, even if nothing is to be put there.                   *)
Alignable(buf, alignment) == align_up_size(buf.size, alignment) < buf.capacity

buf_align(buf, alignment) ==
    IF Alignable(buf, alignment)
    THEN [buf EXCEPT !.size = align_up_size(buf.size, alignment)]
    ELSE buf

buf_align_or_grow(buf, alignment) ==
    LET new_size == align_up_size(buf.size, alignment)
    IN  [buf_reserve_for(buf, new_size) EXCEPT !.size = new_size]

Advanced(buf, size) == [buf EXCEPT !.size = buf.size + size]

(* buf_alloc returns no region if the cursor cannot be aligned or if there *)
(* is not enough room after it, and has then moved it all the same.        *)
Allocable_NoRoom(buf, size, alignment) == Alignable(buf, alignment)
Allocable(buf, size, alignment) ==
    Alignable(buf, alignment) /\ buf_has_capacity_for(buf_align(buf, alignment), size)

buf_alloc(buf, size, alignment) ==
    LET aligned == buf_align(buf, alignment)
    IN  IF Allocable(buf, size, alignment) THEN Advanced(aligned, size) ELSE aligned

buf_alloc_or_grow(buf, size, alignment) ==
    Advanced(buf_reserve(buf_align_or_grow(buf, alignment), size), size)

(* The last cells of buf, which the two functions below have just reserved *)
(* for src.                                                                *)
Filled(buf, src) ==
    [buf EXCEPT !.data = Written(buf.data, buf.size - Len(src), src)]

buf_extend(buf, src, alignment) ==
    LET allocated == buf_alloc(buf, Len(src), alignment)
    IN  IF Allocable(buf, Len(src), alignment) THEN Filled(allocated, src) ELSE allocated

buf_extend_or_grow(buf, src, alignment) ==
    Filled(buf_alloc_or_grow(buf, Len(src), alignment), src)

(* The cells buf_cut copies to its destination, and what it leaves.        *)
CutCells(buf, size) == SubSeq(buf.data, buf.size - size + 1, buf.size)
buf_cut(buf, size)  == [buf EXCEPT !.size = buf.size - size]
=============================================================================
