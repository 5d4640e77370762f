---------------------------- MODULE Strings_proofs ----------------------------
(***************************************************************************)
(* Proofs about module Strings, for blocks, regions, alignments and files  *)
(* of every size and for any sequence of calls, those that are refused     *)
(* included: the regions a block hands out are aligned, inside it and      *)
(* apart, and blocks, arrays and strings hold what was put in them.        *)
(***************************************************************************)
EXTENDS Strings, SequenceTheorems, TLAPS

(* A block as the functions of buf.c leave it: its cursor is within its    *)
(* capacity, which was allocated if there was memory for it.               *)
Bufs == [data : Seq(Int), size : Nat, capacity : Nat]

GoodBuf(b) ==
    /\ b \in Bufs
    /\ b.size <= b.capacity
    /\ b.capacity <= Memory => b.capacity <= Len(b.data)

(* A region below size.                                                    *)
GoodRegion(r, size) ==
    /\ r \in [start : Nat, size : Nat, alignment : Nat \ {0}]
    /\ r.start % r.alignment = 0
    /\ r.start + r.size <= size

Apart(r, s) == r.start + r.size <= s.start \/ s.start + s.size <= r.start

GoodRegions(size) ==
    /\ \A r \in regions : GoodRegion(r, size)
    /\ \A r \in regions : \A s \in regions \ {r} : Apart(r, s)

IInv ==
    /\ calls \in Nat
    /\ used = "buf" => GoodBuf(object) /\ GoodRegions(object.size)
    /\ used # "buf" => regions = {}
    /\ reading.status = "reading" => used # "buf"

-----------------------------------------------------------------------------
(* Cells and alignment.                                                    *)

LEMMA BlockFacts ==
    ASSUME NEW n \in Nat
    PROVE  Block(n) \in Seq(Int) /\ Len(Block(n)) = n
  BY DEF Block, Unset

LEMMA NewCellsFacts ==
    ASSUME NEW n \in Nat, calls \in Nat
    PROVE  NewCells(n) \in Seq(Int) /\ Len(NewCells(n)) = n
  BY DEF NewCells

LEMMA ReallocFacts ==
    ASSUME NEW data \in Seq(Int), NEW n \in Nat, Memory \in Nat
    PROVE  /\ Realloc(data, n) \in Seq(Int)
           /\ n <= Memory => Len(Realloc(data, n)) = n
<1>1. CASE n > Memory
  BY <1>1 DEF Realloc
<1>2. CASE n <= Memory /\ n <= Len(data)
  BY <1>2, SubSeqProperties DEF Realloc
<1>3. CASE n <= Memory /\ n > Len(data)
  <2>1. n - Len(data) \in Nat
    BY <1>3
  <2>2. Block(n - Len(data)) \in Seq(Int) /\ Len(Block(n - Len(data))) = n - Len(data)
    BY <2>1, BlockFacts
  <2>3. /\ data \o Block(n - Len(data)) \in Seq(Int)
        /\ Len(data \o Block(n - Len(data))) = Len(data) + (n - Len(data))
    BY <2>2, ConcatProperties
  <2>4. QED
    BY <1>3, <2>3 DEF Realloc
<1>4. QED
  BY <1>1, <1>2, <1>3

LEMMA WrittenFacts ==
    ASSUME NEW data \in Seq(Int), NEW cells \in Seq(Int), NEW at \in Nat
    PROVE  Written(data, at, cells) \in Seq(Int) /\ Len(Written(data, at, cells)) = Len(data)
<1>1. CASE at + Len(cells) > Len(data)
  BY <1>1 DEF Written
<1>2. CASE at + Len(cells) <= Len(data)
  <2> DEFINE before == SubSeq(data, 1, at)
             after == SubSeq(data, at + Len(cells) + 1, Len(data))
  <2>1. before \in Seq(Int) /\ Len(before) = at
    BY <1>2, SubSeqProperties
  <2>2. after \in Seq(Int) /\ Len(after) = Len(data) - (at + Len(cells))
    BY <1>2, SubSeqProperties
  <2>3. Written(data, at, cells) = (before \o cells) \o after
    <3>1. ~(at + Len(cells) > Len(data))
      BY <1>2
    <3>2. QED
      BY <3>1, Zenon DEF Written
  <2> HIDE DEF before, after
  <2>4. before \o cells \in Seq(Int) /\ Len(before \o cells) = at + Len(cells)
    BY <2>1, ConcatProperties
  <2>5. /\ (before \o cells) \o after \in Seq(Int)
        /\ Len((before \o cells) \o after) = Len(before \o cells) + Len(after)
    BY <2>2, <2>4, ConcatProperties
  <2>6. QED
    BY <2>2, <2>3, <2>4, <2>5
<1>3. QED
  BY <1>1, <1>2

LEMMA QuotientFacts ==
    ASSUME NEW n \in Nat, NEW a \in Nat \ {0}
    PROVE  n \div a \in Nat /\ (n \div a) * a <= n /\ n < (n \div a) * a + a
  BY SMT

LEMMA MultipleFacts ==
    ASSUME NEW q \in Nat, NEW a \in Nat \ {0}
    PROVE  q * a \in Nat /\ (q * a) % a = 0
  BY SMT

(* align_up_size yields a multiple of the alignment that is not below.     *)
LEMMA AlignsUp ==
    ASSUME NEW n \in Nat, NEW a \in Nat \ {0}
    PROVE  /\ align_up_size(n, a) \in Nat
           /\ n <= align_up_size(n, a)
           /\ align_up_size(n, a) % a = 0
<1> DEFINE q == (n + (a - 1)) \div a
           p == q * a
<1>1. n + (a - 1) \in Nat
  OBVIOUS
<1>2. q \in Nat /\ n + (a - 1) < p + a
  BY <1>1, QuotientFacts
<1>3. p \in Nat /\ p % a = 0
  BY <1>2, MultipleFacts
<1>4. align_up_size(n, a) = p
  BY DEF align_up_size
<1> HIDE DEF q, p
<1>5. n <= p
  BY <1>2, <1>3
<1>6. QED
  BY <1>3, <1>4, <1>5

-----------------------------------------------------------------------------
(* The functions of buf.c keep a block good, and say where its cursor is.  *)

LEMMA ReservesFor ==
    ASSUME NEW b, GoodBuf(b), NEW m \in Nat, Memory \in Nat
    PROVE  /\ GoodBuf(buf_reserve_for(b, m))
           /\ buf_reserve_for(b, m).size = b.size
           /\ m <= buf_reserve_for(b, m).capacity
<1> DEFINE next == NextCapacity(b.capacity)
           new_capacity == IF m >= next THEN m ELSE next
           r == buf_reserve_for(b, m)
<1>1. /\ b \in Bufs /\ b.data \in Seq(Int) /\ b.size \in Nat /\ b.capacity \in Nat
      /\ b.size <= b.capacity
      /\ b.capacity <= Memory => b.capacity <= Len(b.data)
  BY DEF GoodBuf, Bufs
<1>2. CASE m <= b.capacity
  BY <1>1, <1>2 DEF buf_reserve_for, GoodBuf
<1>3. CASE ~(m <= b.capacity)
  <2>1. next \in Nat
    BY <1>1 DEF NextCapacity
  <2>2. new_capacity \in Nat /\ m <= new_capacity
    BY <2>1
  <2> HIDE DEF next
  <2>3. r = [b EXCEPT !.data = Realloc(b.data, new_capacity), !.capacity = new_capacity]
    BY <1>3 DEF buf_reserve_for, next
  <2> HIDE DEF new_capacity, r
  <2>4. /\ Realloc(b.data, new_capacity) \in Seq(Int)
        /\ new_capacity <= Memory => Len(Realloc(b.data, new_capacity)) = new_capacity
    BY <1>1, <2>2, ReallocFacts
  <2>5. /\ r \in Bufs /\ r.size = b.size /\ r.capacity = new_capacity
        /\ r.data = Realloc(b.data, new_capacity)
    BY <1>1, <2>2, <2>3, <2>4 DEF Bufs
  <2>6. r.size <= r.capacity /\ m <= r.capacity
    BY <1>1, <1>3, <2>2, <2>5
  <2>7. r.capacity <= Memory => r.capacity <= Len(r.data)
    BY <2>2, <2>4, <2>5
  <2>8. QED
    BY <2>5, <2>6, <2>7 DEF GoodBuf, r
<1>4. QED
  BY <1>2, <1>3

LEMMA Reserves ==
    ASSUME NEW b, GoodBuf(b), NEW n \in Nat, Memory \in Nat
    PROVE  /\ GoodBuf(buf_reserve(b, n))
           /\ buf_reserve(b, n).size = b.size
           /\ b.size + n <= buf_reserve(b, n).capacity
<1>1. b.size + n \in Nat
  BY DEF GoodBuf, Bufs
<1>2. QED
  BY <1>1, ReservesFor DEF buf_reserve

(* Moving the cursor within the capacity.                                  *)
LEMMA Moves ==
    ASSUME NEW b, GoodBuf(b), NEW n \in Nat, n <= b.capacity
    PROVE  /\ GoodBuf([b EXCEPT !.size = n])
           /\ [b EXCEPT !.size = n].size = n
           /\ [b EXCEPT !.size = n].capacity = b.capacity
<1>1. /\ [b EXCEPT !.size = n] \in Bufs
      /\ [b EXCEPT !.size = n].size = n
      /\ [b EXCEPT !.size = n].capacity = b.capacity
      /\ [b EXCEPT !.size = n].data = b.data
  BY DEF GoodBuf, Bufs
<1>2. QED
  BY <1>1 DEF GoodBuf

LEMMA Advances ==
    ASSUME NEW b, GoodBuf(b), NEW n \in Nat, b.size + n <= b.capacity
    PROVE  GoodBuf(Advanced(b, n)) /\ Advanced(b, n).size = b.size + n
<1>1. b.size + n \in Nat
  BY DEF GoodBuf, Bufs
<1>2. QED
  BY <1>1, Moves DEF Advanced

LEMMA Aligns ==
    ASSUME NEW b, GoodBuf(b), NEW a \in Nat \ {0}
    PROVE  /\ GoodBuf(buf_align(b, a))
           /\ b.size <= buf_align(b, a).size
           /\ Alignable(b, a) => buf_align(b, a).size = align_up_size(b.size, a)
<1>1. b.size \in Nat /\ b.capacity \in Nat
  BY DEF GoodBuf, Bufs
<1>2. align_up_size(b.size, a) \in Nat /\ b.size <= align_up_size(b.size, a)
  BY <1>1, AlignsUp
<1>3. CASE Alignable(b, a)
  <2>1. align_up_size(b.size, a) <= b.capacity
    BY <1>1, <1>2, <1>3 DEF Alignable
  <2>2. buf_align(b, a) = [b EXCEPT !.size = align_up_size(b.size, a)]
    BY <1>3 DEF buf_align
  <2>3. QED
    BY <1>2, <2>1, <2>2, Moves
<1>4. CASE ~Alignable(b, a)
  BY <1>1, <1>4 DEF buf_align
<1>5. QED
  BY <1>3, <1>4

LEMMA AlignsOrGrows ==
    ASSUME NEW b, GoodBuf(b), NEW a \in Nat \ {0}, Memory \in Nat
    PROVE  /\ GoodBuf(buf_align_or_grow(b, a))
           /\ buf_align_or_grow(b, a).size = align_up_size(b.size, a)
<1>1. align_up_size(b.size, a) \in Nat
  BY AlignsUp DEF GoodBuf, Bufs
<1>2. /\ GoodBuf(buf_reserve_for(b, align_up_size(b.size, a)))
      /\ align_up_size(b.size, a) <= buf_reserve_for(b, align_up_size(b.size, a)).capacity
  BY <1>1, ReservesFor
<1>3. QED
  BY <1>1, <1>2, Moves DEF buf_align_or_grow

(* An allocation that is not refused puts its region after the aligned     *)
(* cursor.                                                                 *)
LEMMA Allocates ==
    ASSUME NEW b, GoodBuf(b), NEW n \in Nat, NEW a \in Nat \ {0}
    PROVE  /\ GoodBuf(buf_alloc(b, n, a))
           /\ b.size <= buf_alloc(b, n, a).size
           /\ Allocable(b, n, a) =>
                  buf_alloc(b, n, a).size = align_up_size(b.size, a) + n
<1> DEFINE aligned == buf_align(b, a)
<1>1. /\ GoodBuf(aligned) /\ b.size <= aligned.size
      /\ Alignable(b, a) => aligned.size = align_up_size(b.size, a)
  BY Aligns
<1>2. b.size \in Nat /\ aligned.size \in Nat
  BY <1>1 DEF GoodBuf, Bufs
<1>3. CASE Allocable(b, n, a)
  <2>1. Alignable(b, a) /\ aligned.size + n <= aligned.capacity
    BY <1>3 DEF Allocable, buf_has_capacity_for
  <2>2. buf_alloc(b, n, a) = Advanced(aligned, n)
    BY <1>3 DEF buf_alloc
  <2> HIDE DEF aligned
  <2>3. GoodBuf(Advanced(aligned, n)) /\ Advanced(aligned, n).size = aligned.size + n
    BY <1>1, <2>1, Advances
  <2>4. QED
    BY <1>1, <1>2, <2>1, <2>2, <2>3
<1>4. CASE ~Allocable(b, n, a)
  BY <1>1, <1>4 DEF buf_alloc
<1>5. QED
  BY <1>3, <1>4

LEMMA AllocatesOrGrows ==
    ASSUME NEW b, GoodBuf(b), NEW n \in Nat, NEW a \in Nat \ {0}, Memory \in Nat
    PROVE  /\ GoodBuf(buf_alloc_or_grow(b, n, a))
           /\ buf_alloc_or_grow(b, n, a).size = align_up_size(b.size, a) + n
<1> DEFINE aligned == buf_align_or_grow(b, a)
           reserved == buf_reserve(aligned, n)
<1>1. GoodBuf(aligned) /\ aligned.size = align_up_size(b.size, a)
  BY AlignsOrGrows
<1> HIDE DEF aligned
<1>2. /\ GoodBuf(reserved) /\ reserved.size = aligned.size
      /\ aligned.size + n <= reserved.capacity
  BY <1>1, Reserves
<1>3. buf_alloc_or_grow(b, n, a) = Advanced(reserved, n)
  BY DEF buf_alloc_or_grow, aligned
<1> HIDE DEF reserved
<1>4. QED
  BY <1>1, <1>2, <1>3, Advances

LEMMA Fills ==
    ASSUME NEW b, GoodBuf(b), NEW src \in Seq(Int), Len(src) <= b.size
    PROVE  GoodBuf(Filled(b, src)) /\ Filled(b, src).size = b.size
<1> DEFINE data == Written(b.data, b.size - Len(src), src)
<1>1. b.size - Len(src) \in Nat /\ b.data \in Seq(Int) /\ b \in Bufs
  BY DEF GoodBuf, Bufs
<1>2. data \in Seq(Int) /\ Len(data) = Len(b.data)
  BY <1>1, WrittenFacts
<1> HIDE DEF data
<1>3. Filled(b, src) = [b EXCEPT !.data = data]
  BY DEF Filled, data
<1>4. /\ [b EXCEPT !.data = data] \in Bufs
      /\ [b EXCEPT !.data = data].size = b.size
      /\ [b EXCEPT !.data = data].capacity = b.capacity
      /\ [b EXCEPT !.data = data].data = data
  BY <1>1, <1>2 DEF Bufs
<1>5. QED
  BY <1>2, <1>3, <1>4 DEF GoodBuf

LEMMA Extends ==
    ASSUME NEW b, GoodBuf(b), NEW src \in Seq(Int), NEW a \in Nat \ {0}
    PROVE  /\ GoodBuf(buf_extend(b, src, a))
           /\ b.size <= buf_extend(b, src, a).size
           /\ Allocable(b, Len(src), a) =>
                  buf_extend(b, src, a).size = align_up_size(b.size, a) + Len(src)
<1> DEFINE allocated == buf_alloc(b, Len(src), a)
<1>1. /\ GoodBuf(allocated) /\ b.size <= allocated.size
      /\ Allocable(b, Len(src), a) => allocated.size = align_up_size(b.size, a) + Len(src)
  BY Allocates
<1>2. align_up_size(b.size, a) \in Nat
  BY AlignsUp DEF GoodBuf, Bufs
<1>3. CASE Allocable(b, Len(src), a)
  <2>1. buf_extend(b, src, a) = Filled(allocated, src)
    BY <1>3 DEF buf_extend
  <2> HIDE DEF allocated
  <2>2. Len(src) <= allocated.size
    BY <1>1, <1>2, <1>3
  <2>3. QED
    BY <1>1, <1>3, <2>1, <2>2, Fills
<1>4. CASE ~Allocable(b, Len(src), a)
  BY <1>1, <1>4 DEF buf_extend
<1>5. QED
  BY <1>3, <1>4

LEMMA ExtendsOrGrows ==
    ASSUME NEW b, GoodBuf(b), NEW src \in Seq(Int), NEW a \in Nat \ {0}, Memory \in Nat
    PROVE  /\ GoodBuf(buf_extend_or_grow(b, src, a))
           /\ buf_extend_or_grow(b, src, a).size = align_up_size(b.size, a) + Len(src)
<1> DEFINE allocated == buf_alloc_or_grow(b, Len(src), a)
<1>1. GoodBuf(allocated) /\ allocated.size = align_up_size(b.size, a) + Len(src)
  <2>1. Len(src) \in Nat
    OBVIOUS
  <2>2. QED
    BY <2>1, AllocatesOrGrows
<1>2. align_up_size(b.size, a) \in Nat
  BY AlignsUp DEF GoodBuf, Bufs
<1>3. buf_extend_or_grow(b, src, a) = Filled(allocated, src)
  BY DEF buf_extend_or_grow
<1> HIDE DEF allocated
<1>4. QED
  BY <1>1, <1>2, <1>3, Fills

-----------------------------------------------------------------------------
(* The two ways a call of the allocator changes the regions.               *)

(* A region is added after those there were.                               *)
LEMMA Hands ==
    ASSUME IInv, used = "buf", NEW next, GoodBuf(next),
           NEW cells \in Seq(Int), NEW a \in Nat \ {0},
           next.size = align_up_size(object.size, a) + Len(cells),
           Handed(next, cells, a)
    PROVE  GoodBuf(object') /\ GoodRegions(object.size)'
<1> DEFINE start == align_up_size(object.size, a)
           new == [start |-> start, size |-> Len(cells), alignment |-> a]
<1>1. /\ object.size \in Nat
      /\ \A r \in regions : GoodRegion(r, object.size)
      /\ \A r \in regions : \A s \in regions \ {r} : Apart(r, s)
  BY DEF IInv, GoodRegions, GoodBuf, Bufs
<1>2. start \in Nat /\ object.size <= start /\ start % a = 0
  BY <1>1, AlignsUp
<1> HIDE DEF start
<1>3. next.size = start + Len(cells) /\ next.size - Len(cells) = start
  BY <1>2 DEF start
<1>4. object' = next /\ regions' = regions \cup {new}
  BY <1>3 DEF Handed
<1>5. /\ GoodRegion(new, next.size)
      /\ \A r \in regions : GoodRegion(r, next.size) /\ Apart(r, new) /\ Apart(new, r)
  <2>1. GoodRegion(new, next.size)
    BY <1>2, <1>3 DEF GoodRegion
  <2>2. ASSUME NEW r \in regions
        PROVE  GoodRegion(r, next.size) /\ Apart(r, new) /\ Apart(new, r)
    <3>1. /\ r \in [start : Nat, size : Nat, alignment : Nat \ {0}]
          /\ r.start % r.alignment = 0 /\ r.start + r.size <= object.size
      BY <1>1 DEF GoodRegion
    <3>2. r.start + r.size <= start /\ r.start + r.size <= next.size
      BY <1>1, <1>2, <1>3, <3>1
    <3>3. QED
      BY <3>1, <3>2 DEF GoodRegion, Apart
  <2>3. QED
    BY <2>1, <2>2
<1> HIDE DEF new
<1>6. /\ \A r \in regions' : GoodRegion(r, next.size)
      /\ \A r \in regions' : \A s \in regions' \ {r} : Apart(r, s)
  BY <1>1, <1>4, <1>5
<1>7. QED
  BY <1>4, <1>6 DEF GoodRegions

(* The cursor moves up, and regions stay as they are.                      *)
LEMMA MovesOn ==
    ASSUME IInv, used = "buf", NEW next, GoodBuf(next), object.size <= next.size,
           Moved(next)
    PROVE  GoodBuf(object') /\ GoodRegions(object.size)'
<1>1. object' = next /\ regions' = regions
  BY DEF Moved
<1>2. /\ object.size \in Nat /\ next.size \in Nat
      /\ \A r \in regions : GoodRegion(r, object.size)
      /\ \A r \in regions : \A s \in regions \ {r} : Apart(r, s)
  BY DEF IInv, GoodRegions, GoodBuf, Bufs
<1>3. \A r \in regions : GoodRegion(r, next.size)
  BY <1>2 DEF GoodRegion
<1>4. QED
  BY <1>1, <1>2, <1>3 DEF GoodRegions

LEMMA Cuts ==
    ASSUME IInv, used = "buf", NEW n \in Nat, BufCut(n)
    PROVE  GoodBuf(object') /\ GoodRegions(object.size)'
<1>1. /\ n <= object.size /\ object' = [object EXCEPT !.size = object.size - n]
      /\ regions' = {r \in regions : r.start + r.size <= object.size - n}
  BY DEF BufCut, buf_cut
<1>2. /\ GoodBuf(object) /\ object.size \in Nat /\ object.capacity \in Nat
      /\ object.size <= object.capacity
      /\ \A r \in regions : GoodRegion(r, object.size)
      /\ \A r \in regions : \A s \in regions \ {r} : Apart(r, s)
  BY DEF IInv, GoodRegions, GoodBuf, Bufs
<1>3. object.size - n \in Nat /\ object.size - n <= object.capacity
  BY <1>1, <1>2
<1>4. GoodBuf(object') /\ object'.size = object.size - n
  BY <1>1, <1>2, <1>3, Moves
<1>5. \A r \in regions' : GoodRegion(r, object'.size)
  BY <1>1, <1>2, <1>4 DEF GoodRegion
<1>6. \A r \in regions' : \A s \in regions' \ {r} : Apart(r, s)
  BY <1>1, <1>2
<1>7. QED
  BY <1>4, <1>5, <1>6 DEF GoodRegions

(* Every call of the allocator keeps its block and its regions good.       *)
LEMMA AllocatorKeeps ==
    ASSUME IInv, used = "buf",
           \/ \E n \in Lengths : BufReserve(n)
           \/ \E alignment \in Alignments : BufAlign(alignment)
           \/ \E n \in Lengths, alignment \in Alignments :
                 \/ BufAlloc(n, alignment) \/ BufAllocOrGrow(n, alignment)
                 \/ BufExtend(n, alignment) \/ BufExtendOrGrow(n, alignment)
           \/ \E n \in Lengths : BufCut(n)
    PROVE  GoodBuf(object') /\ GoodRegions(object.size)'
<1>1. /\ Memory \in Nat /\ GoodBuf(object) /\ object.size \in Nat /\ calls \in Nat
      /\ \A n \in Lengths : n \in Nat
      /\ \A a \in Alignments : a \in Nat \ {0}
  BY StringsAssumption DEF IInv, GoodBuf, Bufs
<1>2. ASSUME NEW n \in Lengths, BufReserve(n)
      PROVE  GoodBuf(object') /\ GoodRegions(object.size)'
  <2>1. /\ GoodBuf(buf_reserve(object, n)) /\ buf_reserve(object, n).size = object.size
        /\ Moved(buf_reserve(object, n))
    BY <1>1, <1>2, Reserves DEF BufReserve
  <2>2. object.size <= buf_reserve(object, n).size
    BY <1>1, <2>1
  <2>3. QED
    BY <2>1, <2>2, MovesOn
<1>3. ASSUME NEW a \in Alignments, BufAlign(a)
      PROVE  GoodBuf(object') /\ GoodRegions(object.size)'
  <2>1. CASE Moved(buf_align(object, a))
    BY <1>1, <2>1, Aligns, MovesOn
  <2>2. CASE Moved(buf_align_or_grow(object, a))
    <3>1. /\ GoodBuf(buf_align_or_grow(object, a))
          /\ object.size <= buf_align_or_grow(object, a).size
      BY <1>1, AlignsOrGrows, AlignsUp
    <3>2. QED
      BY <2>2, <3>1, MovesOn
  <2>3. QED
    BY <1>3, <2>1, <2>2 DEF BufAlign
<1>4. ASSUME NEW n \in Lengths, NEW a \in Alignments, BufAlloc(n, a)
      PROVE  GoodBuf(object') /\ GoodRegions(object.size)'
  <2> DEFINE next == buf_alloc(object, n, a)
  <2>1. /\ GoodBuf(next) /\ object.size <= next.size
        /\ Allocable(object, n, a) => next.size = align_up_size(object.size, a) + n
    BY <1>1, Allocates
  <2>2. Block(n) \in Seq(Int) /\ Len(Block(n)) = n
    BY <1>1, BlockFacts
  <2>3. IF Allocable(object, n, a) THEN Handed(next, Block(n), a) ELSE Moved(next)
    BY <1>4 DEF BufAlloc
  <2> HIDE DEF next
  <2>4. CASE Allocable(object, n, a)
    BY <1>1, <2>1, <2>2, <2>3, <2>4, Hands
  <2>5. CASE ~Allocable(object, n, a)
    BY <2>1, <2>3, <2>5, MovesOn
  <2>6. QED
    BY <2>4, <2>5
<1>5. ASSUME NEW n \in Lengths, NEW a \in Alignments, BufAllocOrGrow(n, a)
      PROVE  GoodBuf(object') /\ GoodRegions(object.size)'
  <2> DEFINE next == buf_alloc_or_grow(object, n, a)
  <2>1. GoodBuf(next) /\ next.size = align_up_size(object.size, a) + n
    BY <1>1, AllocatesOrGrows
  <2>2. Block(n) \in Seq(Int) /\ Len(Block(n)) = n
    BY <1>1, BlockFacts
  <2>3. Handed(next, Block(n), a)
    BY <1>5 DEF BufAllocOrGrow
  <2> HIDE DEF next
  <2>4. QED
    BY <1>1, <2>1, <2>2, <2>3, Hands
<1>6. ASSUME NEW n \in Lengths, NEW a \in Alignments, BufExtend(n, a)
      PROVE  GoodBuf(object') /\ GoodRegions(object.size)'
  <2> DEFINE next == buf_extend(object, NewCells(n), a)
  <2>1. NewCells(n) \in Seq(Int) /\ Len(NewCells(n)) = n
    BY <1>1, NewCellsFacts
  <2>2. /\ GoodBuf(next) /\ object.size <= next.size
        /\ Allocable(object, n, a) => next.size = align_up_size(object.size, a) + n
    BY <1>1, <2>1, Extends
  <2>3. IF Allocable(object, n, a) THEN Handed(next, NewCells(n), a) ELSE Moved(next)
    BY <1>6 DEF BufExtend
  <2> HIDE DEF next
  <2>4. CASE Allocable(object, n, a)
    BY <1>1, <2>1, <2>2, <2>3, <2>4, Hands
  <2>5. CASE ~Allocable(object, n, a)
    BY <2>2, <2>3, <2>5, MovesOn
  <2>6. QED
    BY <2>4, <2>5
<1>7. ASSUME NEW n \in Lengths, NEW a \in Alignments, BufExtendOrGrow(n, a)
      PROVE  GoodBuf(object') /\ GoodRegions(object.size)'
  <2> DEFINE next == buf_extend_or_grow(object, NewCells(n), a)
  <2>1. NewCells(n) \in Seq(Int) /\ Len(NewCells(n)) = n
    BY <1>1, NewCellsFacts
  <2>2. GoodBuf(next) /\ next.size = align_up_size(object.size, a) + n
    BY <1>1, <2>1, ExtendsOrGrows
  <2>3. Handed(next, NewCells(n), a)
    BY <1>7 DEF BufExtendOrGrow
  <2> HIDE DEF next
  <2>4. QED
    BY <1>1, <2>1, <2>2, <2>3, Hands
<1>8. ASSUME NEW n \in Lengths, BufCut(n)
      PROVE  GoodBuf(object') /\ GoodRegions(object.size)'
  BY <1>1, <1>8, Cuts
<1>9. QED
  BY <1>2, <1>3, <1>4, <1>5, <1>6, <1>7, <1>8

-----------------------------------------------------------------------------
(* What the allocator may do, and what the others may: they leave the      *)
(* regions, of which they have none, and what is used.                     *)

AllocatorStep ==
    \/ \E n \in Lengths : BufReserve(n)
    \/ \E alignment \in Alignments : BufAlign(alignment)
    \/ \E n \in Lengths, alignment \in Alignments :
          \/ BufAlloc(n, alignment) \/ BufAllocOrGrow(n, alignment)
          \/ BufExtend(n, alignment) \/ BufExtendOrGrow(n, alignment)
    \/ \E n \in Lengths : BufCut(n)

OtherStep ==
    \/ \E n \in Lengths : ArrayReserve(n) \/ ArrayExtend(n)
    \/ ArrayPush \/ ArrayPop
    \/ \E n \in Lengths : StringReserve(n) \/ StringExtend(n) \/ Format(n)
    \/ \E size \in FileSizes, errno \in {0, 1} : ReadFile(size, errno)
    \/ ReadMore \/ ReadEnd

LEMMA AllocatorFrame ==
    ASSUME AllocatorStep
    PROVE  /\ used = "buf" /\ used' = used /\ calls' = calls + 1
           /\ reading' = reading /\ reading.status # "reading"
  BY DEF AllocatorStep, BufReserve, BufAlign, BufAlloc, BufAllocOrGrow, BufExtend,
         BufExtendOrGrow, BufCut, Calls

LEMMA OtherFrame ==
    ASSUME OtherStep, IInv
    PROVE  /\ used # "buf" /\ used' = used /\ regions' = regions
           /\ calls' = calls \/ calls' = calls + 1
<1>1. CASE \E n \in Lengths : ArrayReserve(n) \/ ArrayExtend(n)
  BY <1>1 DEF ArrayReserve, ArrayExtend, Calls
<1>2. CASE ArrayPush
  BY <1>2 DEF ArrayPush, Calls
<1>3. CASE ArrayPop
  BY <1>3 DEF ArrayPop, Calls
<1>4. CASE \E n \in Lengths : StringReserve(n) \/ StringExtend(n) \/ Format(n)
  BY <1>4 DEF StringReserve, StringExtend, Format, Calls
<1>5. CASE \E size \in FileSizes, errno \in {0, 1} : ReadFile(size, errno)
  BY <1>5 DEF ReadFile, Calls
<1>6. CASE ReadMore
  <2>1. reading.status = "reading" /\ UNCHANGED <<used, regions, taken, calls>>
    BY <1>6, Zenon DEF ReadMore
  <2>2. QED
    BY <2>1 DEF IInv
<1>7. CASE ReadEnd
  BY <1>7 DEF ReadEnd, IInv
<1>8. QED
  BY <1>1, <1>2, <1>3, <1>4, <1>5, <1>6, <1>7 DEF OtherStep

LEMMA Initially == ASSUME Init PROVE IInv
<1>1. calls \in Nat /\ regions = {} /\ reading.status # "reading"
  BY DEF Init, NotReading
<1>2. CASE used = "buf"
  <2>1. PICK capacity \in FirstCapacities : object = buf_new(capacity)
    BY <1>2 DEF Init
  <2>2. capacity \in Nat /\ Block(capacity) \in Seq(Int) /\ Len(Block(capacity)) = capacity
    BY StringsAssumption, BlockFacts
  <2>3. GoodBuf(object)
    BY <2>1, <2>2 DEF buf_new, GoodBuf, Bufs
  <2>4. QED
    BY <1>1, <1>2, <2>3 DEF IInv, GoodRegions
<1>3. CASE used # "buf"
  BY <1>1, <1>3 DEF IInv
<1>4. QED
  BY <1>2, <1>3

LEMMA StepKeeps == ASSUME IInv, [Next]_vars PROVE IInv'
<1>1. CASE AllocatorStep
  <2>1. /\ used = "buf" /\ used' = used /\ calls' = calls + 1
        /\ reading' = reading /\ reading.status # "reading"
    BY <1>1, AllocatorFrame
  <2>2. GoodBuf(object') /\ GoodRegions(object.size)'
    BY <1>1, <2>1, AllocatorKeeps DEF AllocatorStep
  <2>3. calls' \in Nat
    BY <2>1 DEF IInv
  <2>4. QED
    BY <2>1, <2>2, <2>3 DEF IInv
<1>2. CASE OtherStep
  <2>1. /\ used # "buf" /\ used' = used /\ regions' = regions
        /\ calls' = calls \/ calls' = calls + 1
    BY <1>2, OtherFrame
  <2>2. calls' \in Nat
    BY <2>1 DEF IInv
  <2>3. QED
    BY <2>1, <2>2 DEF IInv
<1>3. CASE UNCHANGED vars
  BY <1>3 DEF vars, IInv, GoodRegions
<1>4. QED
  BY <1>1, <1>2, <1>3 DEF Next, AllocatorStep, OtherStep

LEMMA KeepsApart == ASSUME IInv PROVE RegionsApart
<1> SUFFICES ASSUME ~OutOfMemory, NEW r \in regions
             PROVE  /\ r.start % r.alignment = 0
                    /\ r.start + r.size <= InUse /\ InUse <= Len(object.data)
                    /\ \A s \in regions \ {r} :
                          r.start + r.size <= s.start \/ s.start + s.size <= r.start
  BY DEF RegionsApart
<1>1. used = "buf" /\ GoodBuf(object) /\ GoodRegions(object.size)
  BY DEF IInv
<1>2. InUse = object.size /\ Room = object.capacity
  BY <1>1 DEF InUse, Room
<1>3. /\ object.size \in Nat /\ object.capacity \in Nat /\ Memory \in Nat
      /\ object.data \in Seq(Int)
      /\ object.size <= object.capacity
      /\ object.capacity <= Memory => object.capacity <= Len(object.data)
  BY <1>1, StringsAssumption DEF GoodBuf, Bufs
<1>4. object.size <= Len(object.data)
  BY <1>2, <1>3 DEF OutOfMemory
<1>5. QED
  BY <1>1, <1>2, <1>4 DEF GoodRegions, GoodRegion, Apart

(* The regions buf.c hands out are aligned, inside its block and apart     *)
(* from each other, whatever is reserved, aligned, allocated, refused and  *)
(* cut, for any sizes, as long as there is memory.                         *)
THEOREM RegionsStayApart == Spec => []RegionsApart
<1>1. Init => IInv
  BY Initially
<1>2. IInv /\ [Next]_vars => IInv'
  BY StepKeeps
<1>3. IInv => RegionsApart
  BY KeepsApart
<1>4. QED
  BY <1>1, <1>2, <1>3, PTL DEF Spec

-----------------------------------------------------------------------------
(***************************************************************************)
(* What the block holds (HoldsWhatWasPut).  Every function of buf.c keeps  *)
(* what it should hold, or asks for more memory than there is; arrays and  *)
(* strings are such blocks, the latter with a NUL after its characters.    *)
(***************************************************************************)

LEMMA Concat ==
    ASSUME NEW s \in Seq(Int), NEW t \in Seq(Int)
    PROVE  /\ s \o t \in Seq(Int) /\ Len(s \o t) = Len(s) + Len(t)
           /\ Len(s) \in Nat /\ Len(t) \in Nat
           /\ \A i \in 1 .. Len(s) : (s \o t)[i] = s[i]
           /\ \A i \in 1 .. Len(t) : (s \o t)[Len(s) + i] = t[i]
<1>1. /\ s \o t \in Seq(Int) /\ Len(s \o t) = Len(s) + Len(t)
      /\ \A i \in 1 .. Len(s) + Len(t) :
             (s \o t)[i] = IF i <= Len(s) THEN s[i] ELSE t[i - Len(s)]
  BY ConcatProperties
<1>2. Len(s) \in Nat /\ Len(t) \in Nat
  OBVIOUS
<1>3. \A i \in 1 .. Len(s) : (s \o t)[i] = s[i]
  BY <1>1, <1>2
<1>4. ASSUME NEW i \in 1 .. Len(t) PROVE (s \o t)[Len(s) + i] = t[i]
  <2>1. /\ Len(s) + i \in 1 .. Len(s) + Len(t) /\ ~(Len(s) + i <= Len(s))
        /\ (Len(s) + i) - Len(s) = i
    BY <1>2
  <2>2. QED
    BY <1>1, <2>1
<1>5. QED
  BY <1>1, <1>2, <1>3, <1>4

LEMMA Associative ==
    ASSUME NEW s \in Seq(Int), NEW t \in Seq(Int), NEW u \in Seq(Int)
    PROVE  (s \o t) \o u = s \o (t \o u)
  BY ConcatAssociative

LEMMA MatchesDef ==
    ASSUME NEW cells \in Seq(Int), NEW want \in Seq(Int)
    PROVE  Matches(cells, want) <=>
               /\ Len(want) <= Len(cells)
               /\ \A i \in 1 .. Len(want) : want[i] = Unset \/ want[i] = cells[i]
<1>1. DOMAIN want = 1 .. Len(want)
  BY LenProperties
<1>2. QED
  BY <1>1, Zenon DEF Matches

(* What is wanted may be put together from what the cells are to hold up   *)
(* to a place and from there on.                                           *)
LEMMA MatchesConcat ==
    ASSUME NEW cells \in Seq(Int), NEW w \in Seq(Int), NEW v \in Seq(Int),
           Len(w) + Len(v) <= Len(cells),
           \A i \in 1 .. Len(w) : w[i] = Unset \/ w[i] = cells[i],
           \A i \in 1 .. Len(v) : v[i] = Unset \/ v[i] = cells[Len(w) + i]
    PROVE  Matches(cells, w \o v)
<1>1. /\ w \o v \in Seq(Int) /\ Len(w \o v) = Len(w) + Len(v)
      /\ Len(w) \in Nat /\ Len(v) \in Nat
      /\ \A i \in 1 .. Len(w) : (w \o v)[i] = w[i]
      /\ \A i \in 1 .. Len(v) : (w \o v)[Len(w) + i] = v[i]
  BY Concat
<1>2. ASSUME NEW i \in 1 .. Len(w \o v)
      PROVE  (w \o v)[i] = Unset \/ (w \o v)[i] = cells[i]
  <2>1. CASE i <= Len(w)
    <3>1. i \in 1 .. Len(w)
      BY <1>1, <2>1
    <3>2. QED
      BY <1>1, <3>1
  <2>2. CASE ~(i <= Len(w))
    <3>1. PICK j \in 1 .. Len(v) : i = Len(w) + j
      <4>1. i - Len(w) \in 1 .. Len(v) /\ i = Len(w) + (i - Len(w))
        BY <1>1, <2>2
      <4>2. QED
        BY <4>1
    <3>2. QED
      BY <1>1, <3>1
  <2>3. QED
    BY <2>1, <2>2
<1>3. QED
  BY <1>1, <1>2, MatchesDef

LEMMA MatchesPrefix ==
    ASSUME NEW cells \in Seq(Int), NEW w \in Seq(Int), NEW v \in Seq(Int),
           Matches(cells, w \o v)
    PROVE  Matches(cells, w)
<1>1. /\ w \o v \in Seq(Int) /\ Len(w \o v) = Len(w) + Len(v)
      /\ Len(w) \in Nat /\ Len(v) \in Nat /\ Len(cells) \in Nat
      /\ \A i \in 1 .. Len(w) : (w \o v)[i] = w[i]
  BY Concat
<1>2. /\ Len(w \o v) <= Len(cells)
      /\ \A i \in 1 .. Len(w \o v) : (w \o v)[i] = Unset \/ (w \o v)[i] = cells[i]
  BY <1>1, MatchesDef, Zenon
<1>3. Len(w) <= Len(cells) /\ \A i \in 1 .. Len(w) : i \in 1 .. Len(w \o v)
  BY <1>1, <1>2
<1>4. \A i \in 1 .. Len(w) : w[i] = Unset \/ w[i] = cells[i]
  BY <1>1, <1>2, <1>3, Zenon
<1>5. QED
  BY <1>3, <1>4, MatchesDef, Zenon

LEMMA MatchesBlock ==
    ASSUME NEW cells \in Seq(Int), NEW w \in Seq(Int), Matches(cells, w),
           NEW n \in Nat, Len(w) + n <= Len(cells)
    PROVE  /\ w \o Block(n) \in Seq(Int) /\ Len(w \o Block(n)) = Len(w) + n
           /\ Matches(cells, w \o Block(n))
<1>1. Block(n) \in Seq(Int) /\ Len(Block(n)) = n
  BY BlockFacts
<1>2. \A i \in 1 .. Len(Block(n)) : Block(n)[i] = Unset
  BY <1>1 DEF Block
<1>3. \A i \in 1 .. Len(w) : w[i] = Unset \/ w[i] = cells[i]
  BY MatchesDef
<1>4. Matches(cells, w \o Block(n))
  BY <1>1, <1>2, <1>3, MatchesConcat
<1>5. QED
  BY <1>1, <1>4, Concat

LEMMA ReallocMatches ==
    ASSUME NEW data \in Seq(Int), NEW w \in Seq(Int), Matches(data, w),
           NEW n \in Nat, Len(w) <= n, n <= Memory, Memory \in Nat
    PROVE  Matches(Realloc(data, n), w)
<1>1. /\ Realloc(data, n) \in Seq(Int) /\ Len(Realloc(data, n)) = n
      /\ Len(w) \in Nat /\ Len(data) \in Nat /\ Len(w) <= Len(data)
      /\ \A i \in 1 .. Len(w) : w[i] = Unset \/ w[i] = data[i]
  <2>1. Realloc(data, n) \in Seq(Int) /\ Len(Realloc(data, n)) = n
    BY ReallocFacts
  <2>2. Len(w) \in Nat /\ Len(data) \in Nat
    OBVIOUS
  <2>3. QED
    BY <2>1, <2>2, MatchesDef, Zenon
<1>2. ASSUME NEW i \in 1 .. Len(w) PROVE Realloc(data, n)[i] = data[i]
  <2>1. CASE n <= Len(data)
    <3>1. Realloc(data, n) = SubSeq(data, 1, n)
      BY <1>1, <2>1 DEF Realloc
    <3>2. i \in 1 .. n /\ i \in 1 .. (n - 1) + 1
      BY <1>1
    <3>3. SubSeq(data, 1, n)[i] = data[i]
      BY <1>1, <2>1, <3>2
    <3>4. QED
      BY <3>1, <3>3
  <2>2. CASE ~(n <= Len(data))
    <3>1. Realloc(data, n) = data \o Block(n - Len(data))
      BY <1>1, <2>2 DEF Realloc
    <3>2. Block(n - Len(data)) \in Seq(Int)
      BY <1>1, <2>2, BlockFacts
    <3>3. i \in 1 .. Len(data)
      BY <1>1
    <3>4. QED
      BY <3>1, <3>2, <3>3, Concat
  <2>3. QED
    BY <2>1, <2>2
<1>3. QED
  BY <1>1, <1>2, MatchesDef

(* The cells written follow those there were.                              *)
LEMMA WrittenMatches ==
    ASSUME NEW data \in Seq(Int), NEW w \in Seq(Int), Matches(data, w),
           NEW cells \in Seq(Int), Len(w) + Len(cells) <= Len(data)
    PROVE  Matches(Written(data, Len(w), cells), w \o cells)
<1> DEFINE before == SubSeq(data, 1, Len(w))
           after == SubSeq(data, Len(w) + Len(cells) + 1, Len(data))
           new == Written(data, Len(w), cells)
<1>1. /\ Len(w) \in Nat /\ Len(cells) \in Nat /\ Len(data) \in Nat /\ Len(w) <= Len(data)
      /\ \A i \in 1 .. Len(w) : w[i] = Unset \/ w[i] = data[i]
  BY MatchesDef
<1>2. /\ before \in Seq(Int) /\ Len(before) = Len(w)
      /\ \A i \in 1 .. Len(w) : before[i] = data[i]
  BY <1>1, SubSeqProperties
<1>3. after \in Seq(Int)
  BY <1>1, SubSeqProperties
<1>4. new = (before \o cells) \o after
  <2>1. ~(Len(w) + Len(cells) > Len(data))
    BY <1>1
  <2>2. QED
    BY <2>1, Zenon DEF Written
<1>5. new \in Seq(Int) /\ Len(new) = Len(data)
  BY <1>1, WrittenFacts
<1> HIDE DEF before, after, new
<1>6. /\ before \o cells \in Seq(Int) /\ Len(before \o cells) = Len(w) + Len(cells)
      /\ \A i \in 1 .. Len(w) : (before \o cells)[i] = before[i]
      /\ \A i \in 1 .. Len(cells) : (before \o cells)[Len(w) + i] = cells[i]
  <2>1. /\ before \o cells \in Seq(Int)
        /\ Len(before \o cells) = Len(before) + Len(cells)
        /\ \A i \in 1 .. Len(before) : (before \o cells)[i] = before[i]
        /\ \A i \in 1 .. Len(cells) : (before \o cells)[Len(before) + i] = cells[i]
    BY <1>2, Concat, Zenon
  <2>2. QED
    BY ONLY <1>2, <2>1, Zenon
<1>7. \A i \in 1 .. Len(w) + Len(cells) : new[i] = (before \o cells)[i]
  BY <1>3, <1>4, <1>6, Concat
<1>8. ASSUME NEW i \in 1 .. Len(w) PROVE w[i] = Unset \/ w[i] = new[i]
  <2>1. i \in 1 .. Len(w) + Len(cells)
    BY <1>1
  <2>2. new[i] = data[i]
    BY <1>2, <1>6, <1>7, <2>1, Zenon
  <2>3. QED
    BY <1>1, <2>2, Zenon
<1>9. ASSUME NEW i \in 1 .. Len(cells) PROVE cells[i] = new[Len(w) + i]
  <2>1. Len(w) + i \in 1 .. Len(w) + Len(cells)
    BY <1>1
  <2>2. QED
    BY <1>6, <1>7, <2>1, Zenon
<1>10. Matches(new, w \o cells)
  BY <1>1, <1>5, <1>8, <1>9, MatchesConcat
<1>11. QED
  BY <1>10 DEF new

LEMMA MatchesFirst ==
    ASSUME NEW cells \in Seq(Int), NEW w \in Seq(Int), Matches(cells, w),
           NEW n \in 0 .. Len(w)
    PROVE  /\ SubSeq(w, 1, n) \in Seq(Int) /\ Len(SubSeq(w, 1, n)) = n
           /\ Matches(cells, SubSeq(w, 1, n))
<1>1. /\ SubSeq(w, 1, n) \in Seq(Int) /\ Len(SubSeq(w, 1, n)) = n
      /\ \A i \in 1 .. n : SubSeq(w, 1, n)[i] = w[i]
  BY SubSeqProperties
<1>2. /\ Len(w) \in Nat /\ Len(cells) \in Nat /\ Len(w) <= Len(cells)
      /\ \A i \in 1 .. Len(w) : w[i] = Unset \/ w[i] = cells[i]
  BY MatchesDef
<1>3. n <= Len(cells) /\ \A i \in 1 .. n : i \in 1 .. Len(w)
  BY <1>2
<1>4. \A i \in 1 .. n : SubSeq(w, 1, n)[i] = Unset \/ SubSeq(w, 1, n)[i] = cells[i]
  BY <1>1, <1>2, <1>3, Zenon
<1>5. Matches(cells, SubSeq(w, 1, n))
  BY <1>1, <1>3, <1>4, MatchesDef, Zenon
<1>6. QED
  BY <1>1, <1>5

(* The last n of the cells in use hold the last n of what is wanted.       *)
LEMMA MatchesLast ==
    ASSUME NEW cells \in Seq(Int), NEW w \in Seq(Int), Matches(cells, w),
           NEW n \in 0 .. Len(w)
    PROVE  Matches(SubSeq(cells, (Len(w) - n) + 1, Len(w)),
                   SubSeq(w, (Len(w) - n) + 1, Len(w)))
<1> DEFINE m == (Len(w) - n) + 1
           k == Len(w)
<1>1. /\ m \in 1 .. k + 1 /\ k \in Nat /\ Len(cells) \in Nat /\ k <= Len(cells)
      /\ (k - m) + 1 = n /\ (m <= k <=> n # 0)
      /\ \A i \in 1 .. k : w[i] = Unset \/ w[i] = cells[i]
  BY MatchesDef
<1>2. k = Len(w)
  OBVIOUS
<1> HIDE DEF m, k
<1>3. \A i \in m .. k : i \in 1 .. k /\ w[i] \in Int /\ cells[i] \in Int
  BY <1>1, <1>2
<1>4. /\ SubSeq(w, m, k) \in Seq(Int)
      /\ Len(SubSeq(w, m, k)) = IF m <= k THEN k - m + 1 ELSE 0
      /\ \A i \in 1 .. k - m + 1 : SubSeq(w, m, k)[i] = w[m + i - 1]
  BY <1>1, <1>3, SubSeqProperties
<1>5. /\ SubSeq(cells, m, k) \in Seq(Int)
      /\ Len(SubSeq(cells, m, k)) = IF m <= k THEN k - m + 1 ELSE 0
      /\ \A i \in 1 .. k - m + 1 : SubSeq(cells, m, k)[i] = cells[m + i - 1]
  BY <1>1, <1>3, SubSeqProperties
<1>6. Len(SubSeq(w, m, k)) = n /\ Len(SubSeq(cells, m, k)) = n
  BY <1>1, <1>4, <1>5
<1>7. ASSUME NEW i \in 1 .. n
      PROVE  SubSeq(w, m, k)[i] = Unset \/ SubSeq(w, m, k)[i] = SubSeq(cells, m, k)[i]
  <2>1. i \in 1 .. k - m + 1 /\ m + i - 1 \in 1 .. k
    BY <1>1
  <2>2. QED
    BY <1>1, <1>4, <1>5, <2>1
<1>8. Matches(SubSeq(cells, m, k), SubSeq(w, m, k))
  <2>1. n <= n
    OBVIOUS
  <2>2. QED
    BY <1>4, <1>5, <1>6, <1>7, <2>1, MatchesDef, Zenon
<1>9. QED
  BY <1>8 DEF m, k
-----------------------------------------------------------------------------
(* A block holds what it should, as far as its cursor goes, or there was   *)
(* no memory for it.                                                       *)

Holding(b, want) ==
    /\ b \in Bufs
    /\ Len(want) = b.size
    /\ b.size <= b.capacity /\ b.capacity <= Len(b.data) /\ b.capacity <= Memory
    /\ Matches(b.data, want)

Lost(b) == b \in Bufs /\ b.capacity > Memory

Fair(b, want) == Holding(b, want) \/ Lost(b)

LEMMA BufFields ==
    ASSUME NEW b, NEW w, Fair(b, w)
    PROVE  b \in Bufs /\ b.data \in Seq(Int) /\ b.size \in Nat /\ b.capacity \in Nat
  BY DEF Fair, Holding, Lost, Bufs

LEMMA PadNothing ==
    ASSUME NEW w \in Seq(Int)
    PROVE  w \o Block(0) = w
<1>1. Block(0) \in Seq(Int) /\ Len(Block(0)) = 0
  BY BlockFacts
<1>2. Block(0) = << >>
  BY <1>1
<1>3. QED
  BY <1>2, ConcatEmptySeq

LEMMA ReserveKeeps ==
    ASSUME NEW b, NEW w \in Seq(Int), Fair(b, w), NEW m \in Nat, Memory \in Nat
    PROVE  /\ Fair(buf_reserve_for(b, m), w)
           /\ buf_reserve_for(b, m).size = b.size
           /\ m <= buf_reserve_for(b, m).capacity
           /\ b.capacity <= buf_reserve_for(b, m).capacity
<1> DEFINE next == NextCapacity(b.capacity)
           n == IF m >= next THEN m ELSE next
           r == buf_reserve_for(b, m)
<1>1. b \in Bufs /\ b.data \in Seq(Int) /\ b.size \in Nat /\ b.capacity \in Nat
  BY BufFields
<1>2. CASE m <= b.capacity
  BY <1>1, <1>2 DEF buf_reserve_for
<1>3. CASE ~(m <= b.capacity)
  <2>1. next \in Nat
    BY <1>1 DEF NextCapacity
  <2>2. n \in Nat /\ m <= n
    BY <2>1
  <2> HIDE DEF next
  <2>3. r = [b EXCEPT !.data = Realloc(b.data, n), !.capacity = n]
    BY <1>3 DEF buf_reserve_for, next
  <2> HIDE DEF n, r
  <2>4. /\ Realloc(b.data, n) \in Seq(Int)
        /\ n <= Memory => Len(Realloc(b.data, n)) = n
    BY <1>1, <2>2, ReallocFacts
  <2>5. /\ r \in Bufs /\ r.size = b.size /\ r.capacity = n /\ r.data = Realloc(b.data, n)
    BY <1>1, <2>2, <2>3, <2>4 DEF Bufs
  <2>6. b.capacity <= n
    BY <1>1, <1>3, <2>2
  <2>7. CASE n > Memory
    BY <2>2, <2>5, <2>6, <2>7 DEF Fair, Lost, r
  <2>8. CASE ~(n > Memory)
    <3>1. n <= Memory /\ b.capacity <= Memory
      BY <1>1, <2>2, <2>6, <2>8
    <3>2. Holding(b, w)
      BY <1>1, <3>1 DEF Fair, Lost
    <3>3. Len(w) <= n
      BY <1>1, <2>2, <2>6, <3>2 DEF Holding
    <3>4. Matches(r.data, w)
      BY <1>1, <2>2, <2>5, <3>1, <3>2, <3>3, ReallocMatches DEF Holding
    <3>5. /\ Len(w) = r.size /\ r.size <= r.capacity /\ r.capacity <= Len(r.data)
          /\ r.capacity <= Memory
      BY <1>1, <2>2, <2>4, <2>5, <2>6, <3>1, <3>2 DEF Holding
    <3>6. Fair(r, w)
      BY <2>5, <3>4, <3>5 DEF Fair, Holding
    <3>7. QED
      BY <2>2, <2>5, <2>6, <3>6 DEF r
  <2>9. QED
    BY <2>7, <2>8
<1>4. QED
  BY <1>2, <1>3

(* The cells the cursor passes may hold anything.                          *)
LEMMA AdvanceKeeps ==
    ASSUME NEW b, NEW w \in Seq(Int), Fair(b, w), NEW n \in Nat,
           b.size <= n, n <= b.capacity
    PROVE  /\ Fair([b EXCEPT !.size = n], w \o Block(n - b.size))
           /\ [b EXCEPT !.size = n].size = n
           /\ [b EXCEPT !.size = n].capacity = b.capacity
<1> DEFINE r == [b EXCEPT !.size = n]
           k == n - b.size
<1>1. b \in Bufs /\ b.data \in Seq(Int) /\ b.size \in Nat /\ b.capacity \in Nat
  BY BufFields
<1>2. r \in Bufs /\ r.size = n /\ r.capacity = b.capacity /\ r.data = b.data
  BY <1>1 DEF Bufs
<1>3. k \in Nat /\ b.size + k = n
  BY <1>1
<1> HIDE DEF r, k
<1>4. CASE Holding(b, w)
  <2>1. Matches(b.data, w) /\ Len(w) + k <= Len(b.data) /\ Len(w) + k = n
    BY <1>1, <1>3, <1>4 DEF Holding
  <2>2. Len(w \o Block(k)) = n /\ Matches(b.data, w \o Block(k))
    BY <1>1, <1>3, <2>1, MatchesBlock
  <2>3. QED
    BY <1>2, <1>4, <2>2 DEF Fair, Holding, r, k
<1>5. CASE Lost(b)
  BY <1>2, <1>5 DEF Fair, Lost, r
<1>6. QED
  BY <1>4, <1>5 DEF Fair

(* What is written takes the place of the last cells.                      *)
LEMMA FillKeeps ==
    ASSUME NEW b, NEW w \in Seq(Int), NEW src \in Seq(Int),
           Fair(b, w \o Block(Len(src))), Len(src) <= b.size
    PROVE  /\ Fair(Filled(b, src), w \o src)
           /\ Filled(b, src).size = b.size /\ Filled(b, src).capacity = b.capacity
<1> DEFINE at == b.size - Len(src)
           data == Written(b.data, at, src)
           r == Filled(b, src)
<1>1. b \in Bufs /\ b.data \in Seq(Int) /\ b.size \in Nat /\ b.capacity \in Nat
      /\ Len(src) \in Nat /\ Len(w) \in Nat
  BY BufFields
<1>2. at \in Nat
  BY <1>1
<1> HIDE DEF at
<1>3. data \in Seq(Int) /\ Len(data) = Len(b.data)
  BY <1>1, <1>2, WrittenFacts
<1>4. r = [b EXCEPT !.data = data]
  BY DEF Filled, at
<1> HIDE DEF data, r
<1>5. /\ r \in Bufs /\ r.size = b.size /\ r.capacity = b.capacity /\ r.data = data
  BY <1>1, <1>3, <1>4 DEF Bufs
<1>6. CASE Holding(b, w \o Block(Len(src)))
  <2>1. Len(w \o Block(Len(src))) = Len(w) + Len(src)
    <3>1. Block(Len(src)) \in Seq(Int) /\ Len(Block(Len(src))) = Len(src)
      BY <1>1, BlockFacts
    <3>2. QED
      BY <3>1, Concat
  <2>2. /\ Len(w) + Len(src) = b.size /\ b.size <= Len(b.data)
        /\ Len(w) = at
    BY <1>1, <1>6, <2>1 DEF Holding, at
  <2>3. Matches(b.data, w)
    BY <1>1, <1>6, BlockFacts, MatchesPrefix DEF Holding
  <2>4. Matches(data, w \o src)
    <3>1. Len(w) + Len(src) <= Len(b.data)
      BY <2>2
    <3>2. Matches(Written(b.data, Len(w), src), w \o src)
      BY <1>1, <2>3, <3>1, WrittenMatches
    <3>3. QED
      BY <2>2, <3>2, Zenon DEF data
  <2>5. Len(w \o src) = r.size
    BY <1>5, <2>2, Concat
  <2>6. QED
    BY <1>3, <1>5, <1>6, <2>4, <2>5 DEF Fair, Holding, r
<1>7. CASE Lost(b)
  BY <1>5, <1>7 DEF Fair, Lost, r
<1>8. QED
  BY <1>6, <1>7 DEF Fair

LEMMA FirstKeeps ==
    ASSUME NEW b, NEW w \in Seq(Int), Holding(b, w), NEW n \in 0 .. b.size
    PROVE  /\ Holding([b EXCEPT !.size = n], SubSeq(w, 1, n))
           /\ SubSeq(w, 1, n) \in Seq(Int)
<1> DEFINE r == [b EXCEPT !.size = n]
<1>1. /\ b \in Bufs /\ b.data \in Seq(Int) /\ b.size \in Nat /\ b.capacity \in Nat
      /\ Len(w) = b.size /\ b.size <= b.capacity /\ b.capacity <= Len(b.data)
      /\ b.capacity <= Memory /\ Matches(b.data, w)
  BY DEF Holding, Bufs
<1>2. r \in Bufs /\ r.size = n /\ r.capacity = b.capacity /\ r.data = b.data
  BY <1>1 DEF Bufs
<1> HIDE DEF r
<1>3. n \in 0 .. Len(w) /\ n <= b.capacity
  BY <1>1
<1>4. /\ SubSeq(w, 1, n) \in Seq(Int) /\ Len(SubSeq(w, 1, n)) = n
      /\ Matches(b.data, SubSeq(w, 1, n))
  BY <1>1, <1>3, MatchesFirst
<1>5. QED
  BY <1>1, <1>2, <1>3, <1>4 DEF Holding, r

(* The functions of buf.c, as in the lemmas on the cursor above.           *)
LEMMA AlignKeeps ==
    ASSUME NEW b, NEW w \in Seq(Int), Fair(b, w), NEW a \in Nat \ {0}
    PROVE  /\ Fair(buf_align(b, a), w \o Block(buf_align(b, a).size - b.size))
           /\ b.size <= buf_align(b, a).size
           /\ Alignable(b, a) => buf_align(b, a).size = align_up_size(b.size, a)
<1>1. b.size \in Nat /\ b.capacity \in Nat
  BY BufFields
<1>2. align_up_size(b.size, a) \in Nat /\ b.size <= align_up_size(b.size, a)
  BY <1>1, AlignsUp
<1>3. CASE Alignable(b, a)
  <2>1. align_up_size(b.size, a) <= b.capacity
    BY <1>1, <1>2, <1>3 DEF Alignable
  <2>2. buf_align(b, a) = [b EXCEPT !.size = align_up_size(b.size, a)]
    BY <1>3 DEF buf_align
  <2>3. /\ Fair(buf_align(b, a), w \o Block(align_up_size(b.size, a) - b.size))
        /\ buf_align(b, a).size = align_up_size(b.size, a)
    BY <1>2, <2>1, <2>2, AdvanceKeeps
  <2>4. QED
    BY <1>2, <2>3, Zenon
<1>4. CASE ~Alignable(b, a)
  <2>1. buf_align(b, a) = b
    BY <1>4 DEF buf_align
  <2>2. b.size - b.size = 0 /\ b.size <= b.size
    BY <1>1
  <2>3. QED
    BY <1>4, <2>1, <2>2, PadNothing, Zenon
<1>5. QED
  BY <1>3, <1>4

LEMMA AlignOrGrowKeeps ==
    ASSUME NEW b, NEW w \in Seq(Int), Fair(b, w), NEW a \in Nat \ {0}, Memory \in Nat
    PROVE  /\ Fair(buf_align_or_grow(b, a),
                   w \o Block(align_up_size(b.size, a) - b.size))
           /\ buf_align_or_grow(b, a).size = align_up_size(b.size, a)
           /\ b.capacity <= buf_align_or_grow(b, a).capacity
<1> DEFINE n == align_up_size(b.size, a)
           r == buf_reserve_for(b, n)
<1>1. b.size \in Nat
  BY BufFields
<1>2. n \in Nat /\ b.size <= n
  BY <1>1, AlignsUp
<1>3. buf_align_or_grow(b, a) = [r EXCEPT !.size = n]
  BY DEF buf_align_or_grow
<1> HIDE DEF n
<1>4. Fair(r, w) /\ r.size = b.size /\ n <= r.capacity /\ b.capacity <= r.capacity
  BY <1>2, ReserveKeeps
<1> HIDE DEF r
<1>5. /\ Fair([r EXCEPT !.size = n], w \o Block(n - r.size))
      /\ [r EXCEPT !.size = n].size = n
      /\ [r EXCEPT !.size = n].capacity = r.capacity
  BY <1>2, <1>4, AdvanceKeeps
<1>6. QED
  BY <1>3, <1>4, <1>5, Zenon DEF n

LEMMA AllocKeeps ==
    ASSUME NEW b, NEW w \in Seq(Int), Fair(b, w), NEW n \in Nat, NEW a \in Nat \ {0}
    PROVE  IF Allocable(b, n, a)
           THEN /\ Fair(buf_alloc(b, n, a),
                        (w \o Block(align_up_size(b.size, a) - b.size)) \o Block(n))
                /\ buf_alloc(b, n, a).size = align_up_size(b.size, a) + n
           ELSE /\ Fair(buf_alloc(b, n, a), w \o Block(buf_alloc(b, n, a).size - b.size))
                /\ b.size <= buf_alloc(b, n, a).size
<1> DEFINE aligned == buf_align(b, a)
           pad == align_up_size(b.size, a) - b.size
<1>1. /\ Fair(aligned, w \o Block(aligned.size - b.size)) /\ b.size <= aligned.size
      /\ Alignable(b, a) => aligned.size = align_up_size(b.size, a)
  BY AlignKeeps
<1>2. /\ b.size \in Nat /\ aligned.size \in Nat /\ aligned.capacity \in Nat
  BY <1>1, BufFields
<1>3. CASE Allocable(b, n, a)
  <2>1. /\ aligned.size = align_up_size(b.size, a)
        /\ aligned.size + n <= aligned.capacity
    BY <1>1, <1>3 DEF Allocable, buf_has_capacity_for
  <2>2. buf_alloc(b, n, a) = [aligned EXCEPT !.size = aligned.size + n]
    BY <1>3 DEF buf_alloc, Advanced
  <2>3. Fair(aligned, w \o Block(pad))
    BY <1>1, <2>1, Zenon
  <2>4. w \o Block(pad) \in Seq(Int)
    <3>1. pad \in Nat
      BY <1>1, <1>2, <2>1
    <3> HIDE DEF pad
    <3>2. Block(pad) \in Seq(Int)
      BY <3>1, BlockFacts
    <3>3. QED
      BY <3>2, Concat
  <2> HIDE DEF aligned, pad
  <2>5. aligned.size + n \in Nat /\ aligned.size <= aligned.size + n
        /\ (aligned.size + n) - aligned.size = n
    BY <1>2
  <2> DEFINE k == aligned.size + n
  <2>6. k \in Nat /\ aligned.size <= k /\ k <= aligned.capacity /\ k - aligned.size = n
    BY <2>1, <2>5
  <2> HIDE DEF k
  <2>7. /\ Fair([aligned EXCEPT !.size = k], (w \o Block(pad)) \o Block(k - aligned.size))
        /\ [aligned EXCEPT !.size = k].size = k
    BY <2>3, <2>4, <2>6, AdvanceKeeps
  <2>8. buf_alloc(b, n, a) = [aligned EXCEPT !.size = k]
    BY <2>2 DEF k
  <2>9. /\ Fair(buf_alloc(b, n, a), (w \o Block(pad)) \o Block(n))
        /\ buf_alloc(b, n, a).size = k
    BY <2>6, <2>7, <2>8, Zenon
  <2>10. k = align_up_size(b.size, a) + n
    BY <2>1, Zenon DEF k
  <2>11. QED
    BY <1>3, <2>9, <2>10, Zenon DEF pad
<1>4. CASE ~Allocable(b, n, a)
  <2>1. buf_alloc(b, n, a) = aligned
    BY <1>4 DEF buf_alloc
  <2>2. QED
    BY <1>1, <1>4, <2>1, Zenon
<1>5. QED
  BY <1>3, <1>4

LEMMA AllocOrGrowKeeps ==
    ASSUME NEW b, NEW w \in Seq(Int), Fair(b, w), NEW n \in Nat, NEW a \in Nat \ {0},
           Memory \in Nat
    PROVE  /\ Fair(buf_alloc_or_grow(b, n, a),
                   (w \o Block(align_up_size(b.size, a) - b.size)) \o Block(n))
           /\ buf_alloc_or_grow(b, n, a).size = align_up_size(b.size, a) + n
           /\ b.capacity <= buf_alloc_or_grow(b, n, a).capacity
<1> DEFINE start == align_up_size(b.size, a)
           v == w \o Block(start - b.size)
           aligned == buf_align_or_grow(b, a)
           r == buf_reserve_for(aligned, aligned.size + n)
<1>1. b.size \in Nat /\ b.capacity \in Nat
  BY BufFields
<1>2. start \in Nat /\ start - b.size \in Nat
  <2>1. start \in Nat /\ b.size <= start
    BY <1>1, AlignsUp
  <2> HIDE DEF start
  <2>2. QED
    BY <1>1, <2>1
<1>3. Fair(aligned, v) /\ aligned.size = start /\ b.capacity <= aligned.capacity
  BY AlignOrGrowKeeps
<1>4. buf_alloc_or_grow(b, n, a) = [r EXCEPT !.size = r.size + n]
  BY DEF buf_alloc_or_grow, Advanced, buf_reserve
<1>5. v \in Seq(Int)
  BY <1>2, BlockFacts, Concat
<1> HIDE DEF start, v, aligned
<1>6. start + n \in Nat /\ start <= start + n /\ (start + n) - start = n
  BY <1>2
<1>7. /\ Fair(r, v) /\ r.size = start /\ start + n <= r.capacity
      /\ aligned.capacity <= r.capacity
  BY <1>3, <1>5, <1>6, ReserveKeeps
<1> HIDE DEF r
<1>8. /\ Fair([r EXCEPT !.size = start + n], v \o Block((start + n) - r.size))
      /\ [r EXCEPT !.size = start + n].size = start + n
      /\ [r EXCEPT !.size = start + n].capacity = r.capacity
  BY <1>5, <1>6, <1>7, AdvanceKeeps
<1>9. /\ Fair(buf_alloc_or_grow(b, n, a), v \o Block(n))
      /\ buf_alloc_or_grow(b, n, a).size = start + n
      /\ buf_alloc_or_grow(b, n, a).capacity = r.capacity
  BY <1>4, <1>6, <1>7, <1>8, Zenon
<1>10. b.capacity <= r.capacity
  <2>1. aligned.capacity \in Nat /\ r.capacity \in Nat
    BY <1>3, <1>7, BufFields
  <2>2. QED
    BY <1>1, <1>3, <1>7, <2>1
<1>11. QED
  BY <1>9, <1>10, Zenon DEF v, start

LEMMA ExtendKeeps ==
    ASSUME NEW b, NEW w \in Seq(Int), Fair(b, w), NEW src \in Seq(Int), NEW a \in Nat \ {0}
    PROVE  IF Allocable(b, Len(src), a)
           THEN /\ Fair(buf_extend(b, src, a),
                        (w \o Block(align_up_size(b.size, a) - b.size)) \o src)
                /\ buf_extend(b, src, a).size = align_up_size(b.size, a) + Len(src)
           ELSE /\ Fair(buf_extend(b, src, a), w \o Block(buf_extend(b, src, a).size - b.size))
                /\ b.size <= buf_extend(b, src, a).size
<1> DEFINE n == Len(src)
           start == align_up_size(b.size, a)
           r == buf_alloc(b, n, a)
           v == w \o Block(start - b.size)
<1>1. n \in Nat /\ b.size \in Nat
  BY BufFields
<1>2. start \in Nat /\ start - b.size \in Nat
  <2>1. start \in Nat /\ b.size <= start
    BY <1>1, AlignsUp
  <2> HIDE DEF start
  <2>2. QED
    BY <1>1, <2>1
<1>3. v \in Seq(Int)
  BY <1>2, BlockFacts, Concat
<1>4. IF Allocable(b, n, a)
      THEN Fair(r, v \o Block(n)) /\ r.size = start + n
      ELSE Fair(r, w \o Block(r.size - b.size)) /\ b.size <= r.size
  <2> HIDE DEF n
  <2>1. QED
    BY <1>1, AllocKeeps
<1>5. CASE Allocable(b, Len(src), a)
  <2>1. buf_extend(b, src, a) = Filled(r, src)
    BY <1>5 DEF buf_extend
  <2>2. Fair(r, v \o Block(Len(src))) /\ r.size = start + n
    BY <1>4, <1>5, Zenon DEF n
  <2> HIDE DEF r, v, start
  <2>3. Len(src) <= r.size
    BY <1>1, <1>2, <2>2
  <2>4. Fair(Filled(r, src), v \o src) /\ Filled(r, src).size = r.size
    BY <1>3, <2>2, <2>3, FillKeeps
  <2>5. QED
    BY <1>5, <2>1, <2>2, <2>4, Zenon DEF v, start, n
<1>6. CASE ~Allocable(b, Len(src), a)
  <2>1. buf_extend(b, src, a) = r
    BY <1>6 DEF buf_extend
  <2>2. QED
    BY <1>4, <1>6, <2>1, Zenon DEF n
<1>7. QED
  BY <1>5, <1>6

LEMMA ExtendOrGrowKeeps ==
    ASSUME NEW b, NEW w \in Seq(Int), Fair(b, w), NEW src \in Seq(Int),
           NEW a \in Nat \ {0}, Memory \in Nat
    PROVE  /\ Fair(buf_extend_or_grow(b, src, a),
                   (w \o Block(align_up_size(b.size, a) - b.size)) \o src)
           /\ buf_extend_or_grow(b, src, a).size = align_up_size(b.size, a) + Len(src)
           /\ b.capacity <= buf_extend_or_grow(b, src, a).capacity
<1> DEFINE n == Len(src)
           start == align_up_size(b.size, a)
           r == buf_alloc_or_grow(b, n, a)
           v == w \o Block(start - b.size)
<1>1. n \in Nat /\ b.size \in Nat
  BY BufFields
<1>2. start \in Nat /\ start - b.size \in Nat
  <2>1. start \in Nat /\ b.size <= start
    BY <1>1, AlignsUp
  <2> HIDE DEF start
  <2>2. QED
    BY <1>1, <2>1
<1>3. v \in Seq(Int)
  BY <1>2, BlockFacts, Concat
<1>4. Fair(r, v \o Block(n)) /\ r.size = start + n /\ b.capacity <= r.capacity
  <2> HIDE DEF n
  <2>1. QED
    BY <1>1, AllocOrGrowKeeps
<1>5. buf_extend_or_grow(b, src, a) = Filled(r, src)
  BY DEF buf_extend_or_grow
<1> HIDE DEF r, v, start
<1>6. Len(src) <= r.size
  BY <1>1, <1>2, <1>4
<1>7. /\ Fair(Filled(r, src), v \o src) /\ Filled(r, src).size = r.size
      /\ Filled(r, src).capacity = r.capacity
  BY <1>3, <1>4, <1>6, FillKeeps
<1>8. QED
  BY <1>4, <1>5, <1>7, Zenon DEF v, start, n

-----------------------------------------------------------------------------
(* An array is a block whose sizes are those of whole elements.            *)

Arrays == [data : Seq(Int), len : Nat, capacity : Nat]

LEMMA AsBufFields ==
    ASSUME NEW e \in Nat \ {0}, NEW array \in Arrays
    PROVE  /\ AsBuf(e, array) \in Bufs
           /\ AsBuf(e, array).data = array.data
           /\ AsBuf(e, array).size = array.len * e
           /\ AsBuf(e, array).capacity = array.capacity * e
<1>1. array.data \in Seq(Int) /\ array.len \in Nat /\ array.capacity \in Nat
  BY DEF Arrays
<1>2. array.len * e \in Nat /\ array.capacity * e \in Nat
  BY <1>1
<1>3. QED
  BY <1>1, <1>2 DEF AsBuf, Bufs

(* A whole number of elements that is within the capacity is within the    *)
(* capacity given up to a whole element.                                   *)
LEMMA WholeElements ==
    ASSUME NEW n \in Nat, NEW c \in Nat, NEW e \in Nat \ {0}
    PROVE  /\ n \div e \in Nat
           /\ (n \div e) * e <= n
           /\ n % e = 0 => (n \div e) * e = n
           /\ c % e = 0 /\ c <= n => c <= (n \div e) * e
<1> DEFINE q == n \div e
           p == c \div e
<1>1. /\ q \in Nat /\ q * e <= n /\ n < q * e + e /\ q * e \in Nat
      /\ n % e = 0 => q * e = n
  BY SMT
<1>2. c % e = 0 => p \in Nat /\ p * e = c
  BY SMT
<1>3. ASSUME c % e = 0, c <= n PROVE c <= q * e
  <2>1. p \in Nat /\ p * e = c
    BY <1>2, <1>3
  <2> HIDE DEF q, p
  <2>2. SUFFICES ASSUME q < p PROVE FALSE
    BY <1>1, <2>1, <1>3
  <2>3. (q + 1) * e <= p * e
    BY <1>1, <2>1, <2>2
  <2>4. (q + 1) * e = q * e + e
    BY <1>1
  <2>5. QED
    BY <1>1, <1>3, <2>1, <2>3, <2>4
<1>4. QED
  BY <1>1, <1>3

(* Taking the fields back keeps what the block holds.                      *)
LEMMA OfBufKeeps ==
    ASSUME NEW e \in Nat \ {0}, NEW b, NEW w \in Seq(Int), Fair(b, w), b.size % e = 0,
           Memory \in Nat, (Memory + 1) % e = 0
    PROVE  /\ OfBuf(e, b) \in Arrays
           /\ Fair(AsBuf(e, OfBuf(e, b)), w)
           /\ AsBuf(e, OfBuf(e, b)).size = b.size
           /\ OfBuf(e, b).capacity = b.capacity \div e
           /\ OfBuf(e, b).len = b.size \div e
<1> DEFINE len == b.size \div e
           capacity == b.capacity \div e
           array == OfBuf(e, b)
           r == AsBuf(e, array)
<1>1. b \in Bufs /\ b.data \in Seq(Int) /\ b.size \in Nat /\ b.capacity \in Nat
  BY BufFields
<1>2. Memory + 1 \in Nat
  OBVIOUS
<1>3. len \in Nat /\ len * e = b.size
  BY <1>1, WholeElements
<1>4. /\ capacity \in Nat /\ capacity * e <= b.capacity
      /\ b.size <= b.capacity => b.size <= capacity * e
      /\ Memory + 1 <= b.capacity => Memory + 1 <= capacity * e
  BY <1>1, <1>2, WholeElements
<1>5. array = [data |-> b.data, len |-> len, capacity |-> capacity]
  BY DEF OfBuf
<1> HIDE DEF len, capacity, array
<1>6. /\ array \in Arrays /\ array.data = b.data /\ array.len = len
      /\ array.capacity = capacity
  BY <1>1, <1>3, <1>4, <1>5 DEF Arrays
<1>7. /\ r \in Bufs /\ r.data = b.data /\ r.size = b.size /\ r.capacity = capacity * e
  BY <1>3, <1>6, AsBufFields
<1> DEFINE c == capacity * e
<1>8. /\ c \in Nat /\ c <= b.capacity
      /\ b.size <= b.capacity => b.size <= c
      /\ Memory + 1 <= b.capacity => Memory + 1 <= c
      /\ r.capacity = c
  BY <1>4, <1>7
<1> HIDE DEF r, c
<1>9. CASE Holding(b, w)
  <2>1. /\ Len(w) = b.size /\ b.size <= b.capacity /\ b.capacity <= Len(b.data)
        /\ b.capacity <= Memory /\ Matches(b.data, w) /\ Len(b.data) \in Nat
    BY <1>1, <1>9 DEF Holding
  <2>2. /\ r.size <= r.capacity /\ r.capacity <= Len(r.data) /\ r.capacity <= Memory
    BY <1>1, <1>7, <1>8, <2>1
  <2>3. Holding(r, w)
    BY <1>7, <2>1, <2>2, Zenon DEF Holding
  <2>4. QED
    BY <1>6, <1>7, <2>3 DEF Fair, r, array, len, capacity
<1>10. CASE Lost(b)
  <2>1. r.capacity > Memory
    BY <1>1, <1>8, <1>10 DEF Lost
  <2>2. Lost(r)
    BY <1>7, <2>1 DEF Lost
  <2>3. QED
    BY <1>6, <1>7, <2>2 DEF Fair, r, array, len, capacity
<1>11. QED
  BY <1>9, <1>10 DEF Fair

LEMMA ArrayReserveKeeps ==
    ASSUME NEW e \in Nat \ {0}, NEW array \in Arrays, NEW w \in Seq(Int),
           Fair(AsBuf(e, array), w), NEW n \in Nat,
           Memory \in Nat, (Memory + 1) % e = 0
    PROVE  /\ array_buf_reserve(e, array, n) \in Arrays
           /\ Fair(AsBuf(e, array_buf_reserve(e, array, n)), w)
           /\ AsBuf(e, array_buf_reserve(e, array, n)).size = AsBuf(e, array).size
           /\ AsBuf(e, array).size + n * e <= AsBuf(e, array_buf_reserve(e, array, n)).capacity
<1> DEFINE b == AsBuf(e, array)
           more == n * e
           r == buf_reserve_for(b, b.size + more)
<1>1. /\ b.size = array.len * e /\ array.len \in Nat
  BY AsBufFields DEF Arrays
<1>2. more \in Nat /\ more % e = 0 /\ b.size \in Nat /\ b.size % e = 0
  BY <1>1, MultipleFacts, Zenon
<1>3. array_buf_reserve(e, array, n) = OfBuf(e, r)
  BY DEF array_buf_reserve, buf_reserve
<1>4. (b.size + more) % e = 0
  <2>1. (array.len + n) * e = array.len * e + n * e /\ array.len + n \in Nat
    BY <1>1
  <2>2. ((array.len + n) * e) % e = 0
    BY <2>1, MultipleFacts
  <2>3. QED
    BY <1>1, <2>1, <2>2
<1> HIDE DEF b, more
<1>5. /\ Fair(r, w) /\ r.size = b.size /\ b.size + more <= r.capacity
  <2>1. b.size + more \in Nat
    BY <1>2
  <2>2. QED
    BY <2>1, ReserveKeeps DEF b
<1> HIDE DEF r
<1>6. r.capacity \in Nat
  BY <1>5, BufFields
<1>7. /\ OfBuf(e, r) \in Arrays /\ Fair(AsBuf(e, OfBuf(e, r)), w)
      /\ AsBuf(e, OfBuf(e, r)).size = r.size
      /\ OfBuf(e, r).capacity = r.capacity \div e
  BY <1>2, <1>5, OfBufKeeps
<1>8. AsBuf(e, OfBuf(e, r)).capacity = (r.capacity \div e) * e
  BY <1>7, AsBufFields
<1>9. b.size + more <= (r.capacity \div e) * e
  <2>1. b.size + more \in Nat
    BY <1>2
  <2>2. QED
    BY <1>4, <1>5, <1>6, <2>1, WholeElements, Zenon
<1>10. QED
  BY <1>3, <1>5, <1>7, <1>8, <1>9, Zenon DEF b, more

LEMMA ArrayExtendKeeps ==
    ASSUME NEW e \in Nat \ {0}, NEW array \in Arrays, NEW w \in Seq(Int),
           Fair(AsBuf(e, array), w), NEW cells \in Seq(Int), Len(cells) % e = 0,
           Memory \in Nat, (Memory + 1) % e = 0
    PROVE  /\ array_buf_extend(e, array, cells) \in Arrays
           /\ Fair(AsBuf(e, array_buf_extend(e, array, cells)), w \o cells)
           /\ AsBuf(e, array_buf_extend(e, array, cells)).size
                  = AsBuf(e, array).size + Len(cells)
           /\ array.capacity * e <= array_buf_extend(e, array, cells).capacity * e
<1> DEFINE b == AsBuf(e, array)
           r == buf_extend_or_grow(b, cells, 1)
           k == Len(cells) \div e
<1>1. /\ b.size = array.len * e /\ array.len \in Nat
      /\ b.capacity = array.capacity * e /\ array.capacity \in Nat
  BY AsBufFields DEF Arrays
<1>2. b.size \in Nat /\ Len(cells) \in Nat
  BY <1>1
<1>3. align_up_size(b.size, 1) = b.size
  <2> HIDE DEF b
  <2>1. QED
    BY <1>2 DEF align_up_size
<1>4. array_buf_extend(e, array, cells) = OfBuf(e, r)
  BY DEF array_buf_extend
<1>5. (b.size + Len(cells)) % e = 0
  <2>1. k \in Nat /\ k * e = Len(cells)
    BY <1>2, WholeElements
  <2> HIDE DEF k
  <2>2. (array.len + k) * e = array.len * e + k * e /\ array.len + k \in Nat
    BY <1>1, <2>1
  <2>3. ((array.len + k) * e) % e = 0
    BY <2>2, MultipleFacts
  <2>4. QED
    BY <1>1, <2>1, <2>2, <2>3
<1>6. /\ Fair(r, (w \o Block(align_up_size(b.size, 1) - b.size)) \o cells)
      /\ r.size = align_up_size(b.size, 1) + Len(cells)
      /\ b.capacity <= r.capacity
  <2>1. Fair(b, w) /\ 1 \in Nat \ {0}
    OBVIOUS
  <2> HIDE DEF b
  <2>2. QED
    BY <2>1, ExtendOrGrowKeeps, Zenon
<1> HIDE DEF b, r
<1>7. align_up_size(b.size, 1) - b.size = 0
  BY <1>2, <1>3
<1>8. w \o Block(0) = w
  BY PadNothing
<1>9. Fair(r, w \o cells) /\ r.size = b.size + Len(cells)
  BY <1>3, <1>6, <1>7, <1>8, Zenon
<1>10. w \o cells \in Seq(Int) /\ r.size % e = 0
  BY <1>5, <1>9, Concat
<1>11. /\ OfBuf(e, r) \in Arrays /\ Fair(AsBuf(e, OfBuf(e, r)), w \o cells)
       /\ AsBuf(e, OfBuf(e, r)).size = r.size
       /\ OfBuf(e, r).capacity = r.capacity \div e
  BY <1>9, <1>10, OfBufKeeps
<1>12. array.capacity * e <= (r.capacity \div e) * e
  <2>1. array.capacity * e \in Nat /\ (array.capacity * e) % e = 0
    BY <1>1, MultipleFacts
  <2>2. r.capacity \in Nat /\ array.capacity * e <= r.capacity
    BY <1>1, <1>6, BufFields
  <2>3. QED
    BY <2>1, <2>2, WholeElements, Zenon
<1>13. QED
  BY <1>4, <1>9, <1>11, <1>12, Zenon DEF b

-----------------------------------------------------------------------------
(* A string has a NUL after its characters, or no block at all.            *)

StringHolds(s, w) ==
    /\ s \in Arrays
    /\ \/ s = EmptyArray /\ w = << >>
       \/ Holding(AsBuf(1, [s EXCEPT !.len = s.len + 1]), w \o <<NUL>>)

StringFair(s, w) ==
    s \in Arrays /\ (StringHolds(s, w) \/ s.capacity > Memory)

LEMMA EmptyFacts ==
    /\ EmptyArray \in Arrays /\ EmptyArray.data = << >> /\ EmptyArray.len = 0
    /\ EmptyArray.capacity = 0
    /\ << >> \in Seq(Int) /\ Len(<< >>) = 0
  BY DEF EmptyArray, Arrays

LEMMA EmptyHolds == ASSUME Memory \in Nat PROVE Holding(AsBuf(1, EmptyArray), << >>)
<1> DEFINE b == AsBuf(1, EmptyArray)
<1>1. b \in Bufs /\ b.data = << >> /\ b.size = 0 /\ b.capacity = 0
  BY EmptyFacts, AsBufFields
<1> HIDE DEF b
<1>2. Matches(<< >>, << >>)
  <2>1. ASSUME NEW w \in Seq(Int) PROVE Matches(w, w)
    <3>1. Len(w) <= Len(w) /\ \A i \in 1 .. Len(w) : w[i] = w[i]
      OBVIOUS
    <3>2. QED
      BY <3>1, MatchesDef, Zenon
  <2>2. << >> \in Seq(Int)
    BY EmptyFacts
  <2>3. QED
    BY <2>1, <2>2, Zenon
<1>3. Holding(b, << >>)
  BY <1>1, <1>2, EmptyFacts DEF Holding
<1>4. QED
  BY <1>3 DEF b

LEMMA SetLen ==
    ASSUME NEW s \in Arrays, NEW n \in Nat
    PROVE  /\ [s EXCEPT !.len = n] \in Arrays
           /\ [s EXCEPT !.len = n].data = s.data
           /\ [s EXCEPT !.len = n].len = n
           /\ [s EXCEPT !.len = n].capacity = s.capacity
           /\ AsBuf(1, [s EXCEPT !.len = n]) = [AsBuf(1, s) EXCEPT !.size = n]
<1>1. s.data \in Seq(Int) /\ s.len \in Nat /\ s.capacity \in Nat
  BY DEF Arrays
<1>2. /\ [s EXCEPT !.len = n] \in Arrays
      /\ [s EXCEPT !.len = n].data = s.data
      /\ [s EXCEPT !.len = n].len = n
      /\ [s EXCEPT !.len = n].capacity = s.capacity
  BY DEF Arrays
<1>3. n * 1 = n
  OBVIOUS
<1>4. AsBuf(1, [s EXCEPT !.len = n]) = [AsBuf(1, s) EXCEPT !.size = n]
  BY <1>2, <1>3 DEF AsBuf
<1>5. QED
  BY <1>2, <1>4

LEMMA NULFacts ==
    /\ NUL \in Int /\ NUL # Unset
    /\ <<NUL>> \in Seq(Int) /\ Len(<<NUL>>) = 1 /\ <<NUL>>[1] = NUL
    /\ \A w \in Seq(Int) : w \o <<NUL>> \in Seq(Int) /\ Len(w \o <<NUL>>) = Len(w) + 1
                           /\ (w \o <<NUL>>)[Len(w) + 1] = NUL
<1>1. NUL \in Int /\ NUL # Unset
  BY DEF NUL, Unset
<1>2. <<NUL>> \in Seq(Int) /\ Len(<<NUL>>) = 1 /\ <<NUL>>[1] = NUL
  BY <1>1
<1>3. ASSUME NEW w \in Seq(Int)
      PROVE  /\ w \o <<NUL>> \in Seq(Int) /\ Len(w \o <<NUL>>) = Len(w) + 1
             /\ (w \o <<NUL>>)[Len(w) + 1] = NUL
  BY <1>2, Concat
<1>4. QED
  BY <1>1, <1>2, <1>3

LEMMA OneByte ==
    ASSUME NEW a \in Arrays
    PROVE  /\ AsBuf(1, a) \in Bufs /\ AsBuf(1, a).data = a.data
           /\ AsBuf(1, a).size = a.len /\ AsBuf(1, a).capacity = a.capacity
           /\ a.data \in Seq(Int) /\ a.len \in Nat /\ a.capacity \in Nat
<1>1. a.data \in Seq(Int) /\ a.len \in Nat /\ a.capacity \in Nat
  BY DEF Arrays
<1>2. /\ AsBuf(1, a) \in Bufs /\ AsBuf(1, a).data = a.data
      /\ AsBuf(1, a).size = a.len * 1 /\ AsBuf(1, a).capacity = a.capacity * 1
  BY AsBufFields
<1>3. QED
  BY <1>1, <1>2

LEMMA FromArrayKeeps ==
    ASSUME NEW a \in Arrays, NEW w \in Seq(Int), Fair(AsBuf(1, a), w \o <<NUL>>),
           Memory \in Nat
    PROVE  /\ StringFair(from_array(a), w)
           /\ from_array(a).capacity = a.capacity
           /\ a.len # 0 => from_array(a).len = a.len - 1
<1> DEFINE n == IF a.len # 0 THEN a.len - 1 ELSE 0
           s == from_array(a)
<1>1. /\ AsBuf(1, a).size = a.len /\ AsBuf(1, a).capacity = a.capacity
      /\ a.data \in Seq(Int) /\ a.len \in Nat /\ a.capacity \in Nat
  BY OneByte
<1>2. n \in Nat /\ (a.len # 0 => n = a.len - 1 /\ n + 1 = a.len)
  BY <1>1
<1>3. s = [a EXCEPT !.len = n]
  BY DEF from_array
<1> HIDE DEF n, s
<1>4. s \in Arrays /\ s.data = a.data /\ s.len = n /\ s.capacity = a.capacity
  BY <1>2, <1>3, SetLen
<1>5. CASE Holding(AsBuf(1, a), w \o <<NUL>>)
  <2>1. Len(w \o <<NUL>>) = a.len /\ Len(w \o <<NUL>>) = Len(w) + 1 /\ Len(w) \in Nat
    BY <1>1, <1>5, NULFacts DEF Holding
  <2>2. a.len # 0
    BY <2>1
  <2>3. [s EXCEPT !.len = s.len + 1] = a
    BY <1>1, <1>2, <1>3, <1>4, <2>2 DEF Arrays
  <2>4. Holding(AsBuf(1, [s EXCEPT !.len = s.len + 1]), w \o <<NUL>>)
    BY <1>5, <2>3, Zenon
  <2>5. QED
    BY <1>2, <1>4, <2>4, Zenon DEF StringFair, StringHolds, s
<1>6. CASE Lost(AsBuf(1, a))
  <2>1. s.capacity > Memory
    BY <1>1, <1>4, <1>6 DEF Lost
  <2>2. QED
    BY <1>2, <1>4, <2>1, Zenon DEF StringFair, s
<1>7. QED
  BY <1>5, <1>6 DEF Fair

(* A string of which the block holds what it should.                       *)
LEMMA BlockFactsOfString ==
    ASSUME NEW s \in Arrays, NEW w \in Seq(Int), Memory \in Nat,
           Holding(AsBuf(1, [s EXCEPT !.len = s.len + 1]), w \o <<NUL>>)
    PROVE  /\ s.len = Len(w) /\ s.len + 1 <= s.capacity
           /\ s.capacity <= Len(s.data) /\ s.capacity <= Memory
           /\ s.len \in Nat /\ s.capacity \in Nat /\ Len(s.data) \in Nat
           /\ ~NoBlock(s)
           /\ to_array(s) = [s EXCEPT !.len = s.len + 1]
           /\ to_array(s) \in Arrays /\ to_array(s).len = s.len + 1
           /\ Matches(s.data, w \o <<NUL>>)
<1> DEFINE a == [s EXCEPT !.len = s.len + 1]
<1>1. s.data \in Seq(Int) /\ s.len \in Nat /\ s.capacity \in Nat /\ Len(s.data) \in Nat
  BY OneByte
<1>2. s.len + 1 \in Nat
  BY <1>1
<1>3. a \in Arrays /\ a.data = s.data /\ a.len = s.len + 1 /\ a.capacity = s.capacity
  BY <1>2, SetLen
<1>4. to_array(s) = IF NoBlock(s) THEN [s EXCEPT !.len = 0] ELSE a
  BY DEF to_array
<1> HIDE DEF a
<1>5. Holding(AsBuf(1, a), w \o <<NUL>>)
  BY DEF a
<1>6. /\ AsBuf(1, a).size = s.len + 1 /\ AsBuf(1, a).capacity = s.capacity
      /\ AsBuf(1, a).data = s.data
  BY <1>3, OneByte, Zenon
<1>7. /\ Len(w \o <<NUL>>) = s.len + 1 /\ s.len + 1 <= s.capacity
      /\ s.capacity <= Len(s.data) /\ s.capacity <= Memory
      /\ Matches(s.data, w \o <<NUL>>)
  BY <1>5, <1>6, Zenon DEF Holding
<1>8. Len(w \o <<NUL>>) = Len(w) + 1 /\ Len(w) \in Nat
  BY NULFacts
<1>9. s.len = Len(w)
  BY <1>1, <1>7, <1>8
<1>10. ~NoBlock(s)
  <2>1. Len(s.data) # 0
    BY <1>1, <1>7
  <2>2. s.data # << >>
    BY <2>1
  <2>3. QED
    BY <2>2 DEF NoBlock
<1>11. QED
  BY <1>1, <1>3, <1>4, <1>7, <1>9, <1>10, Zenon DEF a

LEMMA EmptyToArray == to_array(EmptyArray) = EmptyArray
  BY DEF to_array, EmptyArray, NoBlock

(* A reservation leaves the characters, and room for those asked for and a *)
(* NUL.                                                                    *)
LEMMA StringReserveKeeps ==
    ASSUME NEW s, NEW w \in Seq(Int), StringHolds(s, w), NEW n \in Nat,
           Memory \in Nat
    PROVE  /\ StringFair(string_buf_reserve(s, n), w)
           /\ n # 0 => string_buf_reserve(s, n).len + n + 1
                           <= string_buf_reserve(s, n).capacity
<1> DEFINE r == string_buf_reserve(s, n)
           array == to_array(s)
<1>1. s \in Arrays /\ s.len \in Nat
  BY OneByte DEF StringHolds
<1>2. 1 \in Nat \ {0} /\ (Memory + 1) % 1 = 0 /\ Len(<<NUL>>) % 1 = 0
  BY NULFacts
<1>3. CASE n = 0
  <2>1. r = s
    BY <1>3 DEF string_buf_reserve
  <2>2. QED
    BY <1>1, <1>3, <2>1 DEF StringFair
<1>4. CASE n # 0 /\ s = EmptyArray /\ w = << >>
  <2> DEFINE reserved == array_buf_reserve(1, EmptyArray, n + 1)
             pushed == array_buf_push(1, reserved, <<NUL>>)
  <2>1. r = from_array(pushed)
    BY <1>4, EmptyToArray, EmptyFacts DEF string_buf_reserve
  <2>2. n + 1 \in Nat /\ (n + 1) * 1 = n + 1
    OBVIOUS
  <2>3. Fair(AsBuf(1, EmptyArray), << >>) /\ AsBuf(1, EmptyArray).size = 0
    BY EmptyHolds, EmptyFacts, OneByte DEF Fair
  <2>4. /\ reserved \in Arrays /\ Fair(AsBuf(1, reserved), << >>)
        /\ AsBuf(1, reserved).size = AsBuf(1, EmptyArray).size
        /\ AsBuf(1, EmptyArray).size + (n + 1) * 1 <= AsBuf(1, reserved).capacity
    BY <1>2, <2>2, <2>3, EmptyFacts, ArrayReserveKeeps, Zenon
  <2> HIDE DEF reserved
  <2>5. /\ pushed \in Arrays /\ Fair(AsBuf(1, pushed), << >> \o <<NUL>>)
        /\ AsBuf(1, pushed).size = AsBuf(1, reserved).size + Len(<<NUL>>)
        /\ reserved.capacity * 1 <= pushed.capacity * 1
    BY <1>2, <2>4, EmptyFacts, NULFacts, ArrayExtendKeeps, Zenon DEF array_buf_push
  <2> HIDE DEF pushed
  <2>6. /\ reserved.capacity \in Nat /\ AsBuf(1, reserved).capacity = reserved.capacity
        /\ pushed.capacity \in Nat /\ AsBuf(1, pushed).size = pushed.len
        /\ pushed.len \in Nat
    BY <2>4, <2>5, OneByte
  <2>7. pushed.len = 1
    <3>1. Len(<<NUL>>) = 1 /\ 0 + 1 = 1
      BY NULFacts
    <3>2. QED
      BY <2>3, <2>4, <2>5, <2>6, <3>1, Zenon
  <2>8. n + 1 <= pushed.capacity
    BY <2>2, <2>3, <2>4, <2>5, <2>6
  <2>9. /\ StringFair(from_array(pushed), << >>)
        /\ from_array(pushed).capacity = pushed.capacity
        /\ pushed.len # 0 => from_array(pushed).len = pushed.len - 1
    BY <2>5, EmptyFacts, FromArrayKeeps, Zenon
  <2>10. from_array(pushed).len = 0
    BY <2>7, <2>9
  <2>11. StringFair(r, w) /\ r.len = 0 /\ r.capacity = pushed.capacity
    BY <1>4, <2>1, <2>9, <2>10, Zenon
  <2>12. r.len + n + 1 <= r.capacity
    BY <2>8, <2>11
  <2>13. QED
    BY <2>11, <2>12
<1>5. CASE n # 0 /\ Holding(AsBuf(1, [s EXCEPT !.len = s.len + 1]), w \o <<NUL>>)
  <2> DEFINE reserved == array_buf_reserve(1, array, n)
  <2>1. /\ array \in Arrays /\ array.len = s.len + 1
        /\ array = [s EXCEPT !.len = s.len + 1]
    BY <1>1, <1>5, BlockFactsOfString
  <2>2. r = from_array(reserved)
    <3>1. array.len # 0
      BY <1>1, <2>1
    <3>2. QED
      BY <1>5, <3>1, Zenon DEF string_buf_reserve
  <2>3. Fair(AsBuf(1, array), w \o <<NUL>>) /\ w \o <<NUL>> \in Seq(Int)
    BY <1>5, <2>1, NULFacts, Zenon DEF Fair
  <2> HIDE DEF array
  <2>4. /\ reserved \in Arrays /\ Fair(AsBuf(1, reserved), w \o <<NUL>>)
        /\ AsBuf(1, reserved).size = AsBuf(1, array).size
        /\ AsBuf(1, array).size + n * 1 <= AsBuf(1, reserved).capacity
    BY <1>2, <2>1, <2>3, ArrayReserveKeeps, Zenon
  <2> HIDE DEF reserved
  <2>5. /\ AsBuf(1, reserved).capacity = reserved.capacity /\ reserved.capacity \in Nat
        /\ AsBuf(1, reserved).size = reserved.len /\ AsBuf(1, array).size = array.len
    BY <2>1, <2>4, OneByte
  <2>6. reserved.len = s.len + 1 /\ reserved.len + n <= reserved.capacity
        /\ reserved.len # 0
    BY <1>1, <2>1, <2>4, <2>5
  <2>7. /\ StringFair(from_array(reserved), w)
        /\ from_array(reserved).capacity = reserved.capacity
        /\ reserved.len # 0 => from_array(reserved).len = reserved.len - 1
    BY <2>4, FromArrayKeeps, Zenon
  <2>8. /\ StringFair(r, w) /\ r.capacity = reserved.capacity /\ r.len = reserved.len - 1
    BY <2>2, <2>6, <2>7, Zenon
  <2>9. r.len + n + 1 <= r.capacity
    BY <1>1, <2>6, <2>8
  <2>10. QED
    BY <2>8, <2>9
<1>6. QED
  BY <1>3, <1>4, <1>5 DEF StringHolds

LEMMA ExtendSliceKeeps ==
    ASSUME NEW s, NEW w \in Seq(Int), StringHolds(s, w), NEW cells \in Seq(Int),
           Memory \in Nat
    PROVE  StringFair(string_buf_extend_slice(s, cells), w \o cells)
<1> DEFINE n == Len(cells)
           r == string_buf_reserve(s, n)
           array == to_array(r)
           open == [array EXCEPT !.len = IF array.len # 0 THEN array.len - 1 ELSE 0]
           extended == array_buf_extend(1, open, cells)
           pushed == array_buf_push(1, extended, <<NUL>>)
<1>1. string_buf_extend_slice(s, cells) = from_array(pushed)
  BY DEF string_buf_extend_slice
<1>2. /\ 1 \in Nat \ {0} /\ (Memory + 1) % 1 = 0 /\ Len(<<NUL>>) % 1 = 0
      /\ n \in Nat /\ Len(cells) % 1 = 0
  <2>1. \A k \in Nat : k % 1 = 0
    OBVIOUS
  <2>2. n \in Nat /\ Memory + 1 \in Nat /\ Len(<<NUL>>) \in Nat
    BY NULFacts
  <2>3. QED
    BY <2>1, <2>2
<1>3. StringFair(r, w)
  <2> HIDE DEF n
  <2>1. QED
    BY <1>2, StringReserveKeeps
<1> HIDE DEF r
<1>4. open \in Arrays /\ Fair(AsBuf(1, open), w)
  <2>1. r \in Arrays /\ r.len \in Nat /\ r.data \in Seq(Int) /\ r.capacity \in Nat
    BY <1>3, OneByte DEF StringFair
  <2>2. CASE r = EmptyArray /\ w = << >>
    <3>1. array = EmptyArray
      BY <2>2, EmptyToArray
    <3>2. open = EmptyArray
      BY <3>1 DEF EmptyArray
    <3>3. QED
      BY <2>2, <3>2, EmptyFacts, EmptyHolds DEF Fair
  <2>3. CASE Holding(AsBuf(1, [r EXCEPT !.len = r.len + 1]), w \o <<NUL>>)
    <3>1. /\ r.len = Len(w) /\ array = [r EXCEPT !.len = r.len + 1]
          /\ array \in Arrays /\ array.len = r.len + 1
      BY <2>1, <2>3, BlockFactsOfString
    <3>2. Holding(AsBuf(1, array), w \o <<NUL>>)
      BY <2>3, <3>1, Zenon
    <3>3. open = [array EXCEPT !.len = r.len]
      <4> HIDE DEF array
      <4>1. array.len # 0 /\ array.len - 1 = r.len
        BY <2>1, <3>1
      <4>2. QED
        BY <4>1
    <3> HIDE DEF array, open
    <3>4. /\ open \in Arrays /\ AsBuf(1, open) = [AsBuf(1, array) EXCEPT !.size = r.len]
      BY <2>1, <3>1, <3>3, SetLen, Zenon
    <3>5. AsBuf(1, array).size = array.len /\ w \o <<NUL>> \in Seq(Int)
      BY <3>1, OneByte, NULFacts
    <3>6. r.len \in 0 .. AsBuf(1, array).size
      BY <2>1, <3>1, <3>5
    <3>7. Holding(AsBuf(1, open), SubSeq(w \o <<NUL>>, 1, r.len))
      <4> DEFINE b == AsBuf(1, array)
      <4>1. b.size \in Nat /\ Holding(b, w \o <<NUL>>) /\ r.len \in 0 .. b.size
        BY <2>1, <3>1, <3>2, <3>5, <3>6
      <4> HIDE DEF b
      <4>2. Holding([b EXCEPT !.size = r.len], SubSeq(w \o <<NUL>>, 1, r.len))
        BY <3>5, <4>1, FirstKeeps
      <4>3. QED
        BY <3>4, <4>2, Zenon DEF b
    <3>8. SubSeq(w \o <<NUL>>, 1, Len(w)) = w
      <4>1. /\ SubSeq(w \o <<NUL>>, 1, Len(w)) \in Seq(Int)
            /\ Len(SubSeq(w \o <<NUL>>, 1, Len(w))) = Len(w)
            /\ \A i \in 1 .. Len(w) : SubSeq(w \o <<NUL>>, 1, Len(w))[i] = (w \o <<NUL>>)[i]
        BY <3>5, NULFacts, SubSeqProperties
      <4>2. \A i \in 1 .. Len(w) : (w \o <<NUL>>)[i] = w[i]
        BY NULFacts, Concat
      <4> DEFINE v == SubSeq(w \o <<NUL>>, 1, Len(w))
      <4>3. v \in Seq(Int) /\ Len(v) = Len(w) /\ \A i \in 1 .. Len(v) : v[i] = w[i]
        BY <4>1, <4>2, Zenon
      <4> HIDE DEF v
      <4>4. v = w
        BY <4>3, SeqEqual, Zenon
      <4>5. QED
        BY <4>4 DEF v
    <3>9. QED
      BY <3>1, <3>4, <3>7, <3>8, Zenon DEF Fair
  <2>4. CASE r.capacity > Memory
    <3> DEFINE k == IF array.len # 0 THEN array.len - 1 ELSE 0
               j == IF NoBlock(r) THEN 0 ELSE r.len + 1
    <3>1. j \in Nat /\ array = [r EXCEPT !.len = j]
      BY <2>1 DEF to_array
    <3> HIDE DEF j
    <3>2. array \in Arrays /\ array.capacity = r.capacity /\ array.len = j
      <4>1. /\ [r EXCEPT !.len = j] \in Arrays
            /\ [r EXCEPT !.len = j].capacity = r.capacity
            /\ [r EXCEPT !.len = j].len = j
        BY <2>1, <3>1, SetLen
      <4> HIDE DEF array
      <4>2. QED
        BY <3>1, <4>1, Zenon
    <3> HIDE DEF array
    <3>3. k \in Nat /\ open = [array EXCEPT !.len = k]
      BY <3>1, <3>2
    <3> HIDE DEF k, open
    <3>4. open \in Arrays /\ open.capacity = r.capacity
      BY <3>2, <3>3, SetLen, Zenon
    <3>5. AsBuf(1, open) \in Bufs /\ AsBuf(1, open).capacity = r.capacity
      BY <3>4, OneByte, Zenon
    <3>6. Lost(AsBuf(1, open))
      BY <2>4, <3>5 DEF Lost
    <3>7. QED
      BY <3>4, <3>6 DEF Fair
  <2>5. QED
    BY <1>3, <2>2, <2>3, <2>4 DEF StringFair, StringHolds
<1> HIDE DEF open
<1>5. extended \in Arrays /\ Fair(AsBuf(1, extended), w \o cells)
  BY <1>2, <1>4, ArrayExtendKeeps, Zenon
<1>6. w \o cells \in Seq(Int)
  BY Concat
<1> HIDE DEF extended
<1>7. pushed \in Arrays /\ Fair(AsBuf(1, pushed), (w \o cells) \o <<NUL>>)
  BY <1>2, <1>5, <1>6, NULFacts, ArrayExtendKeeps, Zenon DEF array_buf_push
<1> HIDE DEF pushed
<1>8. StringFair(from_array(pushed), w \o cells)
  BY <1>6, <1>7, FromArrayKeeps, Zenon
<1>9. QED
  BY <1>1, <1>8, Zenon

(* Characters and a NUL written after those there are.                     *)
LEMMA WriteKeeps ==
    ASSUME NEW s \in Arrays, NEW w \in Seq(Int), NEW cells \in Seq(Int),
           s.len = Len(w), s.capacity <= Len(s.data), s.capacity <= Memory,
           s.len + Len(cells) + 1 <= s.capacity, Matches(s.data, w), Memory \in Nat
    PROVE  StringFair([s EXCEPT !.data = Written(s.data, s.len, cells \o <<NUL>>),
                                !.len = s.len + Len(cells)], w \o cells)
<1> DEFINE text == cells \o <<NUL>>
           data == Written(s.data, s.len, text)
           n == s.len + Len(cells)
           r == [s EXCEPT !.data = data, !.len = n]
           a == [r EXCEPT !.len = r.len + 1]
<1>1. /\ s.data \in Seq(Int) /\ s.len \in Nat /\ s.capacity \in Nat
      /\ Len(cells) \in Nat /\ Len(s.data) \in Nat
  BY OneByte
<1>2. text \in Seq(Int) /\ Len(text) = Len(cells) + 1
  BY NULFacts
<1> HIDE DEF text
<1>3. data \in Seq(Int) /\ Len(data) = Len(s.data)
  BY <1>1, <1>2, WrittenFacts
<1>4. Matches(data, w \o text)
  <2>1. Len(w) + Len(text) <= Len(s.data)
    BY <1>1, <1>2
  <2>2. Matches(Written(s.data, Len(w), text), w \o text)
    BY <1>1, <1>2, <2>1, WrittenMatches
  <2>3. QED
    BY <2>2, Zenon
<1>5. n \in Nat /\ n + 1 \in Nat
  BY <1>1
<1> HIDE DEF data, n
<1>6. r \in Arrays /\ r.data = data /\ r.len = n /\ r.capacity = s.capacity
  BY <1>1, <1>3, <1>5 DEF Arrays
<1> HIDE DEF r
<1>7. /\ a \in Arrays /\ a.data = data /\ a.len = n + 1 /\ a.capacity = s.capacity
  BY <1>5, <1>6, SetLen, Zenon
<1> HIDE DEF a
<1>8. /\ AsBuf(1, a) \in Bufs /\ AsBuf(1, a).data = data
      /\ AsBuf(1, a).size = n + 1 /\ AsBuf(1, a).capacity = s.capacity
  BY <1>7, OneByte, Zenon
<1>9. (w \o cells) \o <<NUL>> = w \o text
  BY NULFacts, Associative, Zenon DEF text
<1>10. Len(w \o text) = n + 1
  <2>1. Len(w \o text) = Len(w) + Len(text)
    BY <1>2, Concat
  <2>2. QED
    BY <1>1, <1>2, <2>1 DEF n
<1>11. n + 1 <= s.capacity /\ s.capacity <= Len(data)
  BY <1>1, <1>3 DEF n
<1>12. Holding(AsBuf(1, a), (w \o cells) \o <<NUL>>)
  BY <1>4, <1>8, <1>9, <1>10, <1>11, Zenon DEF Holding
<1>13. StringFair(r, w \o cells)
  BY <1>6, <1>12, Zenon DEF StringFair, StringHolds, a
<1>14. QED
  BY <1>13, Zenon DEF r, data, n, text

LEMMA SameArray ==
    ASSUME NEW a \in Arrays, NEW b \in Arrays,
           a.data = b.data, a.len = b.len, a.capacity = b.capacity
    PROVE  a = b
  BY DEF Arrays

LEMMA AppendKeeps ==
    ASSUME NEW s, NEW w \in Seq(Int), StringFair(s, w), NEW cells \in Seq(Int),
           s.len + Len(cells) + 1 <= s.capacity, Memory \in Nat
    PROVE  StringFair([s EXCEPT !.data = Written(s.data, s.len, cells \o <<NUL>>),
                                !.len = s.len + Len(cells)], w \o cells)
<1>1. /\ s \in Arrays /\ s.data \in Seq(Int) /\ s.len \in Nat /\ s.capacity \in Nat
      /\ Len(cells) \in Nat
  BY OneByte DEF StringFair
<1>2. CASE s = EmptyArray
  BY <1>1, <1>2, EmptyFacts
<1>3. CASE Holding(AsBuf(1, [s EXCEPT !.len = s.len + 1]), w \o <<NUL>>)
  <2>1. /\ s.len = Len(w) /\ s.capacity <= Len(s.data) /\ s.capacity <= Memory
        /\ Matches(s.data, w \o <<NUL>>)
    BY <1>1, <1>3, BlockFactsOfString
  <2>2. Matches(s.data, w)
    BY <1>1, <2>1, NULFacts, MatchesPrefix
  <2>3. QED
    BY <1>1, <2>1, <2>2, WriteKeeps
<1>4. CASE s.capacity > Memory
  <2> DEFINE data == Written(s.data, s.len, cells \o <<NUL>>)
             n == s.len + Len(cells)
  <2>1. data \in Seq(Int) /\ n \in Nat
    <3>1. cells \o <<NUL>> \in Seq(Int)
      BY NULFacts
    <3>2. data \in Seq(Int)
      BY <1>1, <3>1, WrittenFacts
    <3>3. QED
      BY <1>1, <3>2
  <2> HIDE DEF data, n
  <2>2. /\ [s EXCEPT !.data = data, !.len = n] \in Arrays
        /\ [s EXCEPT !.data = data, !.len = n].capacity = s.capacity
    BY <1>1, <2>1 DEF Arrays
  <2>3. QED
    BY <1>4, <2>2, Zenon DEF StringFair, data, n
<1>5. QED
  BY <1>2, <1>3, <1>4 DEF StringFair, StringHolds

LEMMA FormatKeeps ==
    ASSUME NEW cells \in Seq(Int), Memory \in Nat
    PROVE  StringFair(format(cells), cells)
<1> DEFINE n == Len(cells)
           s == string_buf_reserve(EmptyArray, n)
           data == Printed(s, cells)
<1>1. n \in Nat /\ << >> \in Seq(Int) /\ StringHolds(EmptyArray, << >>)
  BY EmptyFacts DEF StringHolds
<1>2. format(cells) = [s EXCEPT !.data = data, !.len = n]
  BY DEF format
<1>3. CASE n = 0
  <2>1. s = EmptyArray /\ cells = << >>
    BY <1>3 DEF string_buf_reserve
  <2>2. data = << >>
    BY <2>1, EmptyFacts DEF Printed
  <2>3. format(cells) = EmptyArray
    <3>1. [EmptyArray EXCEPT !.data = << >>, !.len = 0] = EmptyArray
      <4> DEFINE a == [EmptyArray EXCEPT !.data = << >>, !.len = 0]
      <4>1. /\ a \in Arrays /\ a.data = << >> /\ a.len = 0
            /\ a.capacity = EmptyArray.capacity
        <5>1. 0 \in Nat
          OBVIOUS
        <5>2. QED
          BY <5>1, EmptyFacts DEF Arrays
      <4> HIDE DEF a
      <4>2. a = EmptyArray
        BY <4>1, EmptyFacts, SameArray, Zenon
      <4>3. QED
        BY <4>2 DEF a
    <3>2. QED
      BY <1>2, <1>3, <2>1, <2>2, <3>1, Zenon
  <2>4. QED
    BY <1>1, <2>1, <2>3 DEF StringFair, StringHolds
<1>4. CASE n # 0
  <2>1. StringFair(s, << >>) /\ s.len + n + 1 <= s.capacity
    BY <1>1, <1>4, StringReserveKeeps, Zenon
  <2>2. /\ s \in Arrays /\ s.data \in Seq(Int) /\ s.len \in Nat /\ s.capacity \in Nat
    BY <2>1, OneByte DEF StringFair
  <2>3. data = Written(s.data, 0, cells \o <<NUL>>)
    <3>1. s.capacity # 0 /\ n <= s.capacity - 1
      BY <1>1, <2>1, <2>2
    <3>2. SubSeq(cells, 1, Least(Len(cells), s.capacity - 1)) = cells
      <4>1. Least(Len(cells), s.capacity - 1) = Len(cells)
        BY <3>1 DEF Least
      <4>2. SubSeq(cells, 1, Len(cells)) = cells
        BY SubSeqFull
      <4>3. QED
        BY <4>1, <4>2, Zenon
    <3>3. QED
      BY <3>1, <3>2, Zenon DEF Printed
  <2> HIDE DEF s
  <2>4. CASE s.capacity <= Memory
    <3>1. s # EmptyArray
      BY <1>1, <2>1, <2>2, EmptyFacts
    <3>2. Holding(AsBuf(1, [s EXCEPT !.len = s.len + 1]), << >> \o <<NUL>>)
      BY <2>1, <2>2, <2>4, <3>1 DEF StringFair, StringHolds
    <3>3. s.len = 0
      BY <1>1, <2>2, <3>2, EmptyFacts, BlockFactsOfString
    <3>4. StringFair([s EXCEPT !.data = Written(s.data, s.len, cells \o <<NUL>>),
                               !.len = s.len + Len(cells)], << >> \o cells)
      BY <1>1, <2>1, AppendKeeps
    <3>5. << >> \o cells = cells /\ s.len + Len(cells) = n
      BY <1>1, <3>3, ConcatEmptySeq
    <3>6. QED
      BY <1>2, <2>3, <3>3, <3>4, <3>5, Zenon
  <2>5. CASE s.capacity > Memory
    <3>1. data \in Seq(Int)
      <4>1. cells \o <<NUL>> \in Seq(Int) /\ 0 \in Nat
        BY NULFacts
      <4>2. Written(s.data, 0, cells \o <<NUL>>) \in Seq(Int)
        BY <2>2, <4>1, WrittenFacts
      <4>3. QED
        BY <2>3, <4>2, Zenon
    <3> HIDE DEF data
    <3>2. format(cells) \in Arrays /\ format(cells).capacity > Memory
      <4> HIDE DEF n
      <4>1. /\ [s EXCEPT !.data = data, !.len = n] \in Arrays
            /\ [s EXCEPT !.data = data, !.len = n].capacity = s.capacity
        BY <1>1, <2>2, <3>1 DEF Arrays
      <4>2. QED
        BY <1>2, <2>5, <4>1, Zenon
    <3>3. QED
      BY <3>2 DEF StringFair
  <2>6. QED
    BY <2>2, <2>4, <2>5
<1>5. QED
  BY <1>3, <1>4

-----------------------------------------------------------------------------
(* The invariant: what is used holds what is expected, and a file is read  *)
(* into a string.                                                          *)

Files == [status : {"reading"}, size : Nat, at : Nat, eof : BOOLEAN,
          failed : BOOLEAN, errno : Nat, stale : Nat, result : Nat]

Content ==
    /\ expected \in Seq(Int)
    /\ used = "buf" => Fair(object, expected)
    /\ used = "array" => object \in Arrays /\ Fair(AsBuf(ElementSize, object), expected)
    /\ used = "string" => StringFair(object, expected)
    /\ Matches(taken.got, taken.want)

HInv ==
    /\ calls \in Nat
    /\ used \in {"buf", "array", "string"}
    /\ reading.status = "reading" => used = "string" /\ reading \in Files
    /\ Content

LEMMA Constants ==
    /\ ElementSize \in Nat \ {0} /\ ReadChunk \in Nat \ {0} /\ Memory \in Nat
    /\ (Memory + 1) % ElementSize = 0
    /\ \A n \in Lengths : n \in Nat
    /\ \A a \in Alignments : a \in Nat \ {0}
    /\ \A n \in FileSizes : n \in Nat
    /\ \A n \in FirstCapacities : n \in Nat /\ n <= Memory
  BY StringsAssumption

(* While there is memory, the block is not lost.                           *)
LEMMA BufHolds ==
    ASSUME HInv, used = "buf", ~OutOfMemory
    PROVE  Holding(object, expected) /\ Len(expected) = object.size /\ object.size \in Nat
<1>1. Fair(object, expected) /\ object.size \in Nat /\ object.capacity \in Nat
  BY BufFields DEF HInv, Content
<1>2. object.capacity <= Memory
  BY <1>1, Constants DEF OutOfMemory, Room
<1>3. QED
  BY <1>1, <1>2, Constants DEF Fair, Lost, Holding

LEMMA ArrayHolds ==
    ASSUME HInv, used = "array", ~OutOfMemory
    PROVE  object \in Arrays /\ Holding(AsBuf(ElementSize, object), expected)
<1> DEFINE b == AsBuf(ElementSize, object)
<1>1. object \in Arrays /\ Fair(b, expected) /\ b.capacity = object.capacity * ElementSize
  BY Constants, AsBufFields DEF HInv, Content
<1>2. ~(b.capacity > Memory)
  BY <1>1, Zenon DEF OutOfMemory, Room
<1>3. QED
  BY <1>1, <1>2 DEF Fair, Lost

LEMMA StringHoldsIt ==
    ASSUME HInv, used = "string", ~OutOfMemory
    PROVE  object \in Arrays /\ StringHolds(object, expected)
<1>1. StringFair(object, expected) /\ ~(object.capacity > Memory)
  BY DEF HInv, Content, OutOfMemory, Room
<1>2. QED
  BY <1>1 DEF StringFair

-----------------------------------------------------------------------------
(* The calls of the allocator.                                             *)

LEMMA MovedHolds ==
    ASSUME HInv, used = "buf", ~OutOfMemory, NEW next,
           Fair(next, expected \o Block(next.size - object.size)),
           object.size <= next.size, Moved(next)
    PROVE  expected' \in Seq(Int) /\ Fair(object', expected')
<1>1. Len(expected) = object.size /\ object.size \in Nat /\ next.size \in Nat
  BY BufHolds, BufFields
<1>2. object' = next /\ expected' = expected \o Block(next.size - object.size)
  BY <1>1, Zenon DEF Moved, Padded
<1>3. Block(next.size - object.size) \in Seq(Int)
  BY <1>1, BlockFacts
<1>4. expected \o Block(next.size - object.size) \in Seq(Int)
  BY <1>3, Concat DEF HInv, Content
<1>5. QED
  BY <1>2, <1>4, Zenon

LEMMA HandedHolds ==
    ASSUME HInv, used = "buf", ~OutOfMemory, NEW next, NEW cells \in Seq(Int),
           NEW a \in Nat \ {0},
           Fair(next, (expected \o Block(align_up_size(object.size, a) - object.size)) \o cells),
           next.size = align_up_size(object.size, a) + Len(cells),
           Handed(next, cells, a)
    PROVE  expected' \in Seq(Int) /\ Fair(object', expected')
<1> DEFINE start == align_up_size(object.size, a)
           pad == Block(start - object.size)
<1>1. Len(expected) = object.size /\ object.size \in Nat
  BY BufHolds
<1>2. start \in Nat /\ object.size <= start
  BY <1>1, AlignsUp
<1> HIDE DEF start
<1>3. next.size - Len(cells) = start
  BY <1>2 DEF start
<1>4. object' = next /\ expected' = (expected \o pad) \o cells
  BY <1>1, <1>3, Zenon DEF Handed, Padded
<1>5. pad \in Seq(Int)
  BY <1>1, <1>2, BlockFacts
<1> HIDE DEF pad
<1>6. (expected \o pad) \o cells \in Seq(Int)
  BY <1>5, Concat DEF HInv, Content
<1>7. QED
  BY <1>4, <1>6, Zenon DEF pad, start

LEMMA CutHolds ==
    ASSUME HInv, used = "buf", ~OutOfMemory, NEW n \in Nat, BufCut(n)
    PROVE  /\ expected' \in Seq(Int) /\ Fair(object', expected')
           /\ Matches(taken'.got, taken'.want)
<1>1. /\ Holding(object, expected) /\ Len(expected) = object.size /\ object.size \in Nat
      /\ expected \in Seq(Int) /\ object.data \in Seq(Int)
  BY BufHolds DEF HInv, Content, Holding, Bufs
<1> DEFINE k == object.size - n
           m == Len(expected)
<1>2. /\ n <= object.size /\ object' = [object EXCEPT !.size = k]
      /\ taken' = [got |-> SubSeq(object.data, (object.size - n) + 1, object.size),
                   want |-> SubSeq(expected, (m - n) + 1, m)]
      /\ expected' = SubSeq(expected, 1, m - n)
  BY DEF BufCut, buf_cut, CutCells
<1>3. k \in 0 .. object.size /\ m - n = k /\ n \in 0 .. m
  BY <1>1, <1>2
<1>4. Holding([object EXCEPT !.size = k], SubSeq(expected, 1, k)) /\ SubSeq(expected, 1, k) \in Seq(Int)
  <2> HIDE DEF k
  <2>1. QED
    BY <1>1, <1>3, FirstKeeps
<1>5. Matches(SubSeq(object.data, (m - n) + 1, m), SubSeq(expected, (m - n) + 1, m))
  BY <1>1, <1>3, MatchesLast DEF Holding
<1> HIDE DEF k
<1>6. taken' = [got |-> SubSeq(object.data, (m - n) + 1, m),
                want |-> SubSeq(expected, (m - n) + 1, m)]
  BY <1>1, <1>2, Zenon
<1>7. Matches(taken'.got, taken'.want)
  <2> DEFINE g == SubSeq(object.data, (m - n) + 1, m)
             h == SubSeq(expected, (m - n) + 1, m)
  <2>1. Matches(g, h) /\ taken' = [got |-> g, want |-> h]
    BY <1>5, <1>6
  <2> HIDE DEF g, h
  <2>2. taken'.got = g /\ taken'.want = h
    BY <2>1
  <2>3. QED
    BY <2>1, <2>2, Zenon
<1>8. expected' = SubSeq(expected, 1, k)
  BY <1>2, <1>3, Zenon
<1>9. QED
  BY <1>2, <1>4, <1>7, <1>8, Zenon DEF Fair

(* A call of the allocator that does not take cells out.                   *)
LEMMA AllocatorHolds ==
    ASSUME HInv, used = "buf", ~OutOfMemory,
           \/ \E n \in Lengths : BufReserve(n)
           \/ \E alignment \in Alignments : BufAlign(alignment)
           \/ \E n \in Lengths, alignment \in Alignments :
                 \/ BufAlloc(n, alignment) \/ BufAllocOrGrow(n, alignment)
                 \/ BufExtend(n, alignment) \/ BufExtendOrGrow(n, alignment)
    PROVE  expected' \in Seq(Int) /\ Fair(object', expected') /\ taken' = taken
<1>1. /\ expected \in Seq(Int) /\ Fair(object, expected) /\ object.size \in Nat
      /\ calls \in Nat /\ Memory \in Nat
  BY Constants, BufFields DEF HInv, Content
<1>2. ASSUME NEW n \in Lengths, BufReserve(n)
      PROVE  expected' \in Seq(Int) /\ Fair(object', expected') /\ taken' = taken
  <2> DEFINE next == buf_reserve(object, n)
  <2>1. n \in Nat /\ object.size + n \in Nat
    BY <1>1, Constants
  <2>2. Fair(next, expected) /\ next.size = object.size
    BY <1>1, <2>1, ReserveKeeps DEF buf_reserve
  <2>3. Moved(next) /\ taken' = taken
    BY <1>2 DEF BufReserve
  <2> HIDE DEF next
  <2>4. /\ next.size - object.size = 0 /\ object.size <= next.size
        /\ expected \o Block(0) = expected
    BY <1>1, <2>2, PadNothing
  <2>5. Fair(next, expected \o Block(next.size - object.size))
    BY <2>2, <2>4, Zenon
  <2>6. QED
    BY <2>3, <2>4, <2>5, MovedHolds
<1>3. ASSUME NEW a \in Alignments, BufAlign(a)
      PROVE  expected' \in Seq(Int) /\ Fair(object', expected') /\ taken' = taken
  <2>1. a \in Nat \ {0} /\ taken' = taken
    BY <1>3, Constants DEF BufAlign
  <2>2. CASE Moved(buf_align(object, a))
    <3>1. /\ Fair(buf_align(object, a),
                  expected \o Block(buf_align(object, a).size - object.size))
          /\ object.size <= buf_align(object, a).size
      BY <1>1, <2>1, AlignKeeps
    <3>2. QED
      BY <2>1, <2>2, <3>1, MovedHolds
  <2>3. CASE Moved(buf_align_or_grow(object, a))
    <3> DEFINE next == buf_align_or_grow(object, a)
    <3>1. /\ Fair(next, expected \o Block(align_up_size(object.size, a) - object.size))
          /\ next.size = align_up_size(object.size, a)
      BY <1>1, <2>1, AlignOrGrowKeeps
    <3>2. object.size <= align_up_size(object.size, a)
      BY <1>1, <2>1, AlignsUp
    <3> HIDE DEF next
    <3>3. Fair(next, expected \o Block(next.size - object.size)) /\ object.size <= next.size
      BY <3>1, <3>2, Zenon
    <3>4. QED
      BY <2>1, <2>3, <3>3, MovedHolds DEF next
  <2>4. QED
    BY <1>3, <2>2, <2>3 DEF BufAlign
<1>4. ASSUME NEW n \in Lengths, NEW a \in Alignments, BufAlloc(n, a)
      PROVE  expected' \in Seq(Int) /\ Fair(object', expected') /\ taken' = taken
  <2> DEFINE next == buf_alloc(object, n, a)
             pad == Block(align_up_size(object.size, a) - object.size)
  <2>1. n \in Nat /\ a \in Nat \ {0} /\ taken' = taken
    BY <1>4, Constants DEF BufAlloc
  <2>2. IF Allocable(object, n, a)
        THEN /\ Fair(next, (expected \o pad) \o Block(n))
             /\ next.size = align_up_size(object.size, a) + n
        ELSE /\ Fair(next, expected \o Block(next.size - object.size))
             /\ object.size <= next.size
    BY <1>1, <2>1, AllocKeeps
  <2>3. Block(n) \in Seq(Int) /\ Len(Block(n)) = n
    BY <2>1, BlockFacts
  <2>4. IF Allocable(object, n, a) THEN Handed(next, Block(n), a) ELSE Moved(next)
    BY <1>4 DEF BufAlloc
  <2> HIDE DEF next
  <2>5. CASE Allocable(object, n, a)
    BY <2>1, <2>2, <2>3, <2>4, <2>5, HandedHolds
  <2>6. CASE ~Allocable(object, n, a)
    BY <2>1, <2>2, <2>4, <2>6, MovedHolds
  <2>7. QED
    BY <2>5, <2>6
<1>5. ASSUME NEW n \in Lengths, NEW a \in Alignments, BufAllocOrGrow(n, a)
      PROVE  expected' \in Seq(Int) /\ Fair(object', expected') /\ taken' = taken
  <2> DEFINE next == buf_alloc_or_grow(object, n, a)
             pad == Block(align_up_size(object.size, a) - object.size)
  <2>1. n \in Nat /\ a \in Nat \ {0} /\ taken' = taken
    BY <1>5, Constants DEF BufAllocOrGrow
  <2>2. /\ Fair(next, (expected \o pad) \o Block(n))
        /\ next.size = align_up_size(object.size, a) + n
    BY <1>1, <2>1, AllocOrGrowKeeps
  <2>3. Block(n) \in Seq(Int) /\ Len(Block(n)) = n
    BY <2>1, BlockFacts
  <2>4. Handed(next, Block(n), a)
    BY <1>5 DEF BufAllocOrGrow
  <2> HIDE DEF next
  <2>5. QED
    BY <2>1, <2>2, <2>3, <2>4, HandedHolds
<1>6. ASSUME NEW n \in Lengths, NEW a \in Alignments, BufExtend(n, a)
      PROVE  expected' \in Seq(Int) /\ Fair(object', expected') /\ taken' = taken
  <2> DEFINE cells == NewCells(n)
             next == buf_extend(object, cells, a)
             pad == Block(align_up_size(object.size, a) - object.size)
  <2>1. n \in Nat /\ a \in Nat \ {0} /\ taken' = taken
    BY <1>6, Constants DEF BufExtend
  <2>2. cells \in Seq(Int) /\ Len(cells) = n
    BY <1>1, <2>1, NewCellsFacts
  <2>3. IF Allocable(object, n, a) THEN Handed(next, cells, a) ELSE Moved(next)
    BY <1>6 DEF BufExtend
  <2> HIDE DEF cells
  <2>4. IF Allocable(object, Len(cells), a)
        THEN /\ Fair(next, (expected \o pad) \o cells)
             /\ next.size = align_up_size(object.size, a) + Len(cells)
        ELSE /\ Fair(next, expected \o Block(next.size - object.size))
             /\ object.size <= next.size
    BY <1>1, <2>1, <2>2, ExtendKeeps
  <2> HIDE DEF next
  <2>5. CASE Allocable(object, n, a)
    <3>1. /\ Fair(next, (expected \o pad) \o cells) /\ Handed(next, cells, a)
          /\ next.size = align_up_size(object.size, a) + Len(cells)
      BY <2>2, <2>3, <2>4, <2>5, Zenon
    <3>2. QED
      BY <2>1, <2>2, <3>1, HandedHolds
  <2>6. CASE ~Allocable(object, n, a)
    <3>1. /\ Fair(next, expected \o Block(next.size - object.size)) /\ Moved(next)
          /\ object.size <= next.size
      BY <2>2, <2>3, <2>4, <2>6, Zenon
    <3>2. QED
      BY <2>1, <3>1, MovedHolds
  <2>7. QED
    BY <2>5, <2>6
<1>7. ASSUME NEW n \in Lengths, NEW a \in Alignments, BufExtendOrGrow(n, a)
      PROVE  expected' \in Seq(Int) /\ Fair(object', expected') /\ taken' = taken
  <2> DEFINE cells == NewCells(n)
             next == buf_extend_or_grow(object, cells, a)
             pad == Block(align_up_size(object.size, a) - object.size)
  <2>1. n \in Nat /\ a \in Nat \ {0} /\ taken' = taken
    BY <1>7, Constants DEF BufExtendOrGrow
  <2>2. cells \in Seq(Int) /\ Len(cells) = n
    BY <1>1, <2>1, NewCellsFacts
  <2>3. Handed(next, cells, a)
    BY <1>7 DEF BufExtendOrGrow
  <2> HIDE DEF cells
  <2>4. /\ Fair(next, (expected \o pad) \o cells)
        /\ next.size = align_up_size(object.size, a) + Len(cells)
    BY <1>1, <2>1, <2>2, ExtendOrGrowKeeps
  <2> HIDE DEF next
  <2>5. QED
    BY <2>1, <2>2, <2>3, <2>4, HandedHolds
<1>8. QED
  BY <1>2, <1>3, <1>4, <1>5, <1>6, <1>7

LEMMA AllocatorGuard ==
    ASSUME AllocatorStep
    PROVE  ~OutOfMemory
  BY DEF AllocatorStep, BufReserve, BufAlign, BufAlloc, BufAllocOrGrow, BufExtend,
         BufExtendOrGrow, BufCut, Calls

LEMMA AllocatorKeepsContent ==
    ASSUME HInv, AllocatorStep
    PROVE  HInv'
<1>1. /\ used = "buf" /\ used' = used /\ calls' = calls + 1
      /\ reading' = reading /\ reading.status # "reading" /\ ~OutOfMemory
  BY AllocatorFrame, AllocatorGuard
<1>2. /\ expected' \in Seq(Int) /\ Fair(object', expected')
      /\ Matches(taken'.got, taken'.want)
  <2>1. CASE \E n \in Lengths : BufCut(n)
    BY <1>1, <2>1, Constants, CutHolds
  <2>2. CASE ~\E n \in Lengths : BufCut(n)
    <3>1. expected' \in Seq(Int) /\ Fair(object', expected') /\ taken' = taken
      BY <1>1, <2>2, AllocatorHolds DEF AllocatorStep
    <3>2. QED
      BY <3>1 DEF HInv, Content
  <2>3. QED
    BY <2>1, <2>2
<1>3. calls' \in Nat
  BY <1>1 DEF HInv
<1>4. QED
  BY <1>1, <1>2, <1>3 DEF HInv, Content

-----------------------------------------------------------------------------
(* The calls on an array.                                                  *)

ArrayStep ==
    \/ \E n \in Lengths : ArrayReserve(n) \/ ArrayExtend(n)
    \/ ArrayPush \/ ArrayPop

LEMMA ArrayFrame ==
    ASSUME ArrayStep
    PROVE  /\ used = "array" /\ used' = used /\ calls' = calls + 1 /\ ~OutOfMemory
           /\ reading' = reading /\ reading.status # "reading"
  BY DEF ArrayStep, ArrayReserve, ArrayExtend, ArrayPush, ArrayPop, Calls

LEMMA ExtendHolds ==
    ASSUME HInv, used = "array", ~OutOfMemory, NEW n \in Nat,
           object' = array_buf_extend(ElementSize, object, NewCells(n * ElementSize)),
           expected' = expected \o NewCells(n * ElementSize)
    PROVE  /\ expected' \in Seq(Int) /\ object' \in Arrays
           /\ Fair(AsBuf(ElementSize, object'), expected')
<1> DEFINE cells == NewCells(n * ElementSize)
           e == ElementSize
<1>1. /\ e \in Nat \ {0} /\ Memory \in Nat /\ (Memory + 1) % e = 0 /\ calls \in Nat
      /\ expected \in Seq(Int) /\ object \in Arrays /\ Fair(AsBuf(e, object), expected)
  BY Constants DEF HInv, Content
<1>2. n * e \in Nat /\ (n * e) % e = 0
  BY <1>1, MultipleFacts
<1>3. cells \in Seq(Int) /\ Len(cells) = n * e
  BY <1>1, <1>2, NewCellsFacts
<1> HIDE DEF cells
<1>4. Len(cells) % e = 0
  BY <1>2, <1>3, Zenon
<1>5. /\ array_buf_extend(e, object, cells) \in Arrays
      /\ Fair(AsBuf(e, array_buf_extend(e, object, cells)), expected \o cells)
  BY <1>1, <1>3, <1>4, ArrayExtendKeeps, Zenon
<1>6. expected \o cells \in Seq(Int)
  BY <1>1, <1>3, Concat
<1>7. QED
  BY <1>5, <1>6, Zenon DEF cells

LEMMA PopHolds ==
    ASSUME HInv, ArrayPop
    PROVE  /\ expected' \in Seq(Int) /\ object' \in Arrays
           /\ Fair(AsBuf(ElementSize, object'), expected')
           /\ Matches(taken'.got, taken'.want)
<1> DEFINE e == ElementSize
           b == AsBuf(e, object)
           m == Len(expected)
           left == m - e
           k == object.len - 1
           array == [object EXCEPT !.len = k]
<1>1. used = "array" /\ ~OutOfMemory /\ object.len > 0
  BY DEF ArrayPop, Calls
<1>2. /\ e \in Nat \ {0} /\ expected \in Seq(Int)
      /\ object \in Arrays /\ Holding(b, expected)
  BY <1>1, Constants, ArrayHolds DEF HInv, Content
<1>3. /\ b \in Bufs /\ b.data = object.data /\ b.size = object.len * e
      /\ b.capacity = object.capacity * e
      /\ object.len \in Nat /\ object.capacity \in Nat /\ object.data \in Seq(Int)
  BY <1>2, AsBufFields DEF Arrays
<1>4. object' = array /\ expected' = SubSeq(expected, 1, left)
      /\ taken' = [got |-> SubSeq(b.data, (b.size - e) + 1, b.size),
                   want |-> SubSeq(expected, left + 1, m)]
  BY DEF ArrayPop, CutCells
<1>5. /\ m = b.size /\ b.size \in Nat /\ k \in Nat /\ k * e = b.size - e
      /\ left \in 0 .. b.size /\ e \in 0 .. m /\ left = k * e
  <2>1. m = b.size
    BY <1>2 DEF Holding
  <2>2. k \in Nat /\ object.len = k + 1
    BY <1>1, <1>3
  <2> HIDE DEF k
  <2>3. (k + 1) * e = k * e + e /\ k * e \in Nat
    BY <1>2, <2>2
  <2> DEFINE p == k * e
  <2>4. p \in Nat /\ b.size = p + e
    BY <1>3, <2>2, <2>3
  <2> HIDE DEF p, b, e
  <2>5. e \in Nat
    BY <1>2
  <2>6. QED
    BY <2>1, <2>2, <2>4, <2>5 DEF p
<1>6. /\ array \in Arrays /\ array.len = k /\ array.data = object.data
      /\ array.capacity = object.capacity
  BY <1>2, <1>5, SetLen
<1>7. AsBuf(e, array) = [b EXCEPT !.size = left]
  <2> HIDE DEF array, k
  <2>1. AsBuf(e, array) = [data |-> object.data, size |-> left, capacity |-> object.capacity * e]
    BY <1>5, <1>6, Zenon DEF AsBuf
  <2>2. b = [data |-> object.data, size |-> object.len * e, capacity |-> object.capacity * e]
    BY DEF AsBuf
  <2>3. QED
    BY <2>1, <2>2
<1>8. /\ Holding([b EXCEPT !.size = left], SubSeq(expected, 1, left))
      /\ SubSeq(expected, 1, left) \in Seq(Int)
  <2> HIDE DEF b, left
  <2>1. QED
    BY <1>2, <1>5, FirstKeeps
<1>9. Matches(SubSeq(b.data, (m - e) + 1, m), SubSeq(expected, (m - e) + 1, m))
  <2>1. Matches(b.data, expected) /\ b.data \in Seq(Int) /\ e \in 0 .. Len(expected)
    BY <1>2, <1>3, <1>5 DEF Holding
  <2> HIDE DEF b, e
  <2>2. QED
    BY <1>2, <2>1, MatchesLast
<1>10. Matches(taken'.got, taken'.want)
  <2> DEFINE g == SubSeq(b.data, (m - e) + 1, m)
             h == SubSeq(expected, (m - e) + 1, m)
  <2>1. Matches(g, h)
    BY <1>9
  <2>2. taken' = [got |-> g, want |-> h]
    BY <1>4, <1>5, Zenon
  <2> HIDE DEF g, h
  <2>3. taken'.got = g /\ taken'.want = h
    BY <2>2
  <2>4. QED
    BY <2>1, <2>3, Zenon
<1> HIDE DEF array, b, left
<1>11. object' \in Arrays /\ expected' \in Seq(Int)
  BY <1>4, <1>6, <1>8, Zenon
<1>12. Fair(AsBuf(e, object'), expected')
  BY <1>4, <1>7, <1>8, Zenon DEF Fair
<1>13. QED
  BY <1>10, <1>11, <1>12

LEMMA ArrayKeepsContent ==
    ASSUME HInv, ArrayStep
    PROVE  HInv'
<1>1. /\ used = "array" /\ used' = used /\ calls' = calls + 1 /\ ~OutOfMemory
      /\ reading' = reading /\ reading.status # "reading"
  BY ArrayFrame
<1>2. /\ expected' \in Seq(Int) /\ object' \in Arrays
      /\ Fair(AsBuf(ElementSize, object'), expected')
      /\ Matches(taken'.got, taken'.want)
  <2>1. ASSUME NEW n \in Lengths, ArrayReserve(n)
        PROVE  /\ expected' \in Seq(Int) /\ object' \in Arrays
               /\ Fair(AsBuf(ElementSize, object'), expected') /\ taken' = taken
    <3>1. /\ object' = array_buf_reserve(ElementSize, object, n)
          /\ expected' = expected /\ taken' = taken
      BY <2>1 DEF ArrayReserve
    <3>2. /\ object \in Arrays /\ expected \in Seq(Int)
          /\ Fair(AsBuf(ElementSize, object), expected)
      BY <1>1 DEF HInv, Content
    <3>3. /\ array_buf_reserve(ElementSize, object, n) \in Arrays
          /\ Fair(AsBuf(ElementSize, array_buf_reserve(ElementSize, object, n)), expected)
      BY <3>2, Constants, ArrayReserveKeeps, Zenon
    <3>4. QED
      BY <3>1, <3>2, <3>3, Zenon
  <2>2. ASSUME NEW n \in Lengths, ArrayExtend(n)
        PROVE  /\ expected' \in Seq(Int) /\ object' \in Arrays
               /\ Fair(AsBuf(ElementSize, object'), expected') /\ taken' = taken
    BY <1>1, <2>2, Constants, ExtendHolds DEF ArrayExtend
  <2>3. ASSUME ArrayPush
        PROVE  /\ expected' \in Seq(Int) /\ object' \in Arrays
               /\ Fair(AsBuf(ElementSize, object'), expected') /\ taken' = taken
    <3>1. 1 * ElementSize = ElementSize /\ 1 \in Nat
      BY Constants
    <3>2. /\ object' = array_buf_extend(ElementSize, object, NewCells(1 * ElementSize))
          /\ expected' = expected \o NewCells(1 * ElementSize) /\ taken' = taken
      BY <2>3, <3>1, Zenon DEF ArrayPush, array_buf_push
    <3>3. QED
      BY <1>1, <3>1, <3>2, ExtendHolds, Zenon
  <2>4. CASE ArrayPop
    BY <2>4, PopHolds
  <2>5. CASE ~ArrayPop
    <3>1. /\ expected' \in Seq(Int) /\ object' \in Arrays
          /\ Fair(AsBuf(ElementSize, object'), expected') /\ taken' = taken
      BY <2>1, <2>2, <2>3, <2>5 DEF ArrayStep
    <3>2. QED
      BY <3>1 DEF HInv, Content
  <2>6. QED
    BY <2>4, <2>5
<1>3. calls' \in Nat
  BY <1>1 DEF HInv
<1>4. QED
  BY <1>1, <1>2, <1>3 DEF HInv, Content

-----------------------------------------------------------------------------
(* The calls on a string.                                                  *)

StringStep ==
    \E n \in Lengths : StringReserve(n) \/ StringExtend(n) \/ Format(n)

LEMMA StringKeepsContent ==
    ASSUME HInv, StringStep
    PROVE  HInv'
<1>1. /\ used = "string" /\ used' = used /\ calls' = calls + 1 /\ ~OutOfMemory
      /\ reading' = reading /\ reading.status # "reading" /\ taken' = taken
  BY DEF StringStep, StringReserve, StringExtend, Format, Calls
<1>2. /\ calls \in Nat /\ Memory \in Nat /\ expected \in Seq(Int)
      /\ StringHolds(object, expected)
  BY <1>1, Constants, StringHoldsIt DEF HInv, Content
<1>3. expected' \in Seq(Int) /\ StringFair(object', expected')
  <2>1. ASSUME NEW n \in Lengths, StringReserve(n)
        PROVE  expected' \in Seq(Int) /\ StringFair(object', expected')
    <3>1. object' = string_buf_reserve(object, n) /\ expected' = expected
      BY <2>1 DEF StringReserve
    <3>2. StringFair(string_buf_reserve(object, n), expected)
      BY <1>2, Constants, StringReserveKeeps
    <3>3. QED
      BY <1>2, <3>1, <3>2, Zenon
  <2>2. ASSUME NEW n \in Lengths PROVE NewCells(n) \in Seq(Int)
    BY <1>2, Constants, NewCellsFacts
  <2>3. ASSUME NEW n \in Lengths, StringExtend(n)
        PROVE  expected' \in Seq(Int) /\ StringFair(object', expected')
    <3>1. /\ object' = string_buf_extend_slice(object, NewCells(n))
          /\ expected' = expected \o NewCells(n)
      BY <2>3 DEF StringExtend
    <3>2. StringFair(string_buf_extend_slice(object, NewCells(n)), expected \o NewCells(n))
      BY <1>2, <2>2, ExtendSliceKeeps
    <3>3. expected \o NewCells(n) \in Seq(Int)
      BY <1>2, <2>2, Concat
    <3>4. QED
      BY <3>1, <3>2, <3>3, Zenon
  <2>4. ASSUME NEW n \in Lengths, Format(n)
        PROVE  expected' \in Seq(Int) /\ StringFair(object', expected')
    <3>1. object' = format(NewCells(n)) /\ expected' = NewCells(n)
      BY <2>4 DEF Format
    <3>2. StringFair(format(NewCells(n)), NewCells(n))
      BY <1>2, <2>2, FormatKeeps
    <3>3. QED
      BY <2>2, <3>1, <3>2, Zenon
  <2>5. QED
    BY <2>1, <2>3, <2>4 DEF StringStep
<1>4. calls' \in Nat
  BY <1>1 DEF HInv
<1>5. QED
  BY <1>1, <1>3, <1>4 DEF HInv, Content

LEMMA ReadFileKeepsContent ==
    ASSUME HInv, NEW size \in FileSizes, NEW errno \in {0, 1}, ReadFile(size, errno)
    PROVE  HInv'
<1>1. /\ used = "string" /\ used' = used /\ calls' = calls + 1
      /\ object' = object /\ expected' = expected /\ taken' = taken
      /\ reading' = [status |-> "reading", size |-> size, at |-> 0, eof |-> FALSE,
                     failed |-> FALSE, errno |-> errno, stale |-> errno, result |-> 0]
  BY DEF ReadFile, Calls
<1>2. reading' \in Files /\ calls' \in Nat
  BY <1>1, Constants DEF HInv, Files
<1>3. QED
  BY <1>1, <1>2 DEF HInv, Content

LEMMA FreadFacts ==
    ASSUME NEW file \in Files, NEW request, NEW n \in Nat,
           NEW after \in Fread(file, request, n)
    PROVE  after \in Files
<1> DEFINE read == [file EXCEPT !.at = file.at + n]
<1>1. read \in Files
  BY DEF Files
<1>2. \/ after = read
      \/ after = [read EXCEPT !.failed = TRUE, !.errno = 1]
      \/ after = [read EXCEPT !.eof = TRUE]
  BY DEF Fread
<1> HIDE DEF read
<1>3. [read EXCEPT !.failed = TRUE, !.errno = 1] \in Files
  BY <1>1 DEF Files
<1>4. [read EXCEPT !.eof = TRUE] \in Files
  BY <1>1 DEF Files
<1>5. QED
  BY <1>1, <1>2, <1>3, <1>4, Zenon

LEMMA ReturnedFacts ==
    ASSUME NEW file \in Files, NEW result
    PROVE  Returned(file, result).status # "reading"
<1>1. Returned(file, result).status = "returned"
  BY DEF Returned, Files
<1>2. QED
  BY <1>1

LEMMA ReadMoreKeepsContent ==
    ASSUME HInv, ReadMore
    PROVE  HInv'
<1> DEFINE string == string_buf_reserve(object, ReadChunk)
           file == IF string.capacity = object.capacity THEN reading
                   ELSE [reading EXCEPT !.errno = 0]
           left == file.size - file.at
           request == Request(string)
<1>1. /\ reading.status = "reading" /\ ~OutOfMemory
      /\ used' = used /\ regions' = regions /\ taken' = taken /\ calls' = calls
      /\ \E n \in 0 .. Least(request, left) : \E after \in Fread(file, request, n) :
             IF n = 0
             THEN object' = string /\ reading' = Returned(after, after.errno)
                  /\ expected' = expected
             ELSE /\ object' = [string EXCEPT
                         !.data = Written(string.data, string.len,
                                          [k \in 1 .. n |-> file.at + k] \o <<NUL>>),
                         !.len = string.len + n]
                  /\ reading' = after
                  /\ expected' = expected \o [k \in 1 .. n |-> file.at + k]
  BY Zenon DEF ReadMore
<1>2. /\ used = "string" /\ reading \in Files /\ expected \in Seq(Int)
      /\ Memory \in Nat /\ ReadChunk \in Nat
  BY <1>1, Constants DEF HInv, Content
<1>3. StringHolds(object, expected)
  BY <1>1, <1>2, StringHoldsIt
<1>4. StringFair(string, expected)
  BY <1>2, <1>3, StringReserveKeeps
<1>5. string.len \in Nat /\ string.capacity \in Nat
  BY <1>4, OneByte DEF StringFair
<1>6. file \in Files
  BY <1>2 DEF Files
<1> HIDE DEF string, file
<1>7. request \in Int /\ request = string.capacity - string.len - 1 /\ left \in Int /\ file.at \in Nat
  BY <1>5, <1>6 DEF Request, Files
<1> HIDE DEF request, left
<1>8. PICK n \in 0 .. Least(request, left) : \E after \in Fread(file, request, n) :
          IF n = 0
          THEN object' = string /\ reading' = Returned(after, after.errno)
               /\ expected' = expected
          ELSE /\ object' = [string EXCEPT
                      !.data = Written(string.data, string.len,
                                       [k \in 1 .. n |-> file.at + k] \o <<NUL>>),
                      !.len = string.len + n]
               /\ reading' = after
               /\ expected' = expected \o [k \in 1 .. n |-> file.at + k]
  BY <1>1
<1>9. PICK after \in Fread(file, request, n) :
          IF n = 0
          THEN object' = string /\ reading' = Returned(after, after.errno)
               /\ expected' = expected
          ELSE /\ object' = [string EXCEPT
                      !.data = Written(string.data, string.len,
                                       [k \in 1 .. n |-> file.at + k] \o <<NUL>>),
                      !.len = string.len + n]
               /\ reading' = after
               /\ expected' = expected \o [k \in 1 .. n |-> file.at + k]
  BY <1>8
<1>10. n \in Nat /\ n <= request
  BY <1>7 DEF Least
<1>11. after \in Files
  BY <1>6, <1>10, FreadFacts
<1>12. CASE n = 0
  <2>1. object' = string /\ reading' = Returned(after, after.errno) /\ expected' = expected
    BY <1>9, <1>12, Zenon
  <2>2. reading'.status # "reading"
    BY <1>11, <2>1, ReturnedFacts, Zenon
  <2>3. expected' \in Seq(Int) /\ StringFair(object', expected')
    BY <1>2, <1>4, <2>1, Zenon
  <2>4. QED
    BY <1>1, <1>2, <2>2, <2>3 DEF HInv, Content
<1>13. CASE n # 0
  <2> DEFINE cells == [k \in 1 .. n |-> file.at + k]
  <2>1. cells \in Seq(Int) /\ Len(cells) = n
    BY <1>7, <1>10
  <2>2. /\ object' = [string EXCEPT
                         !.data = Written(string.data, string.len, cells \o <<NUL>>),
                         !.len = string.len + n]
        /\ reading' = after
        /\ expected' = expected \o cells
    BY <1>9, <1>13, Zenon
  <2> HIDE DEF cells
  <2>3. string.len + Len(cells) + 1 <= string.capacity
    BY <1>5, <1>7, <1>10, <2>1
  <2>4. StringFair([string EXCEPT
                         !.data = Written(string.data, string.len, cells \o <<NUL>>),
                         !.len = string.len + Len(cells)], expected \o cells)
    BY <1>2, <1>4, <2>1, <2>3, AppendKeeps
  <2>5. expected \o cells \in Seq(Int)
    BY <1>2, <2>1, Concat
  <2>6. expected' \in Seq(Int) /\ StringFair(object', expected')
    BY <2>1, <2>2, <2>4, <2>5, Zenon
  <2>7. QED
    BY <1>1, <1>2, <1>11, <2>2, <2>6 DEF HInv, Content
<1>14. QED
  BY <1>12, <1>13

LEMMA ReadEndKeepsContent ==
    ASSUME HInv, ReadEnd
    PROVE  HInv'
<1>1. /\ reading.status = "reading" /\ reading' = Returned(reading, 0)
      /\ UNCHANGED <<used, object, expected, regions, taken, calls>>
  BY DEF ReadEnd
<1>2. reading \in Files
  BY <1>1 DEF HInv
<1>3. reading'.status # "reading"
  BY <1>1, <1>2, ReturnedFacts, Zenon
<1>4. QED
  BY <1>1, <1>3 DEF HInv, Content

-----------------------------------------------------------------------------
LEMMA HoldsInitially == ASSUME Init PROVE HInv
<1>1. /\ calls \in Nat /\ expected = << >> /\ reading.status # "reading"
      /\ taken = [got |-> << >>, want |-> << >>]
      /\ used \in {"buf", "array", "string"} /\ << >> \in Seq(Int)
  BY EmptyFacts DEF Init, NotReading
<1>2. ASSUME NEW v \in Seq(Int), NEW w \in Seq(Int), Len(w) = 0 PROVE Matches(v, w)
  <2>1. Len(w) <= Len(v) /\ \A i \in 1 .. Len(w) : FALSE
    BY <1>2
  <2>2. QED
    BY <2>1, MatchesDef
<1>3. Matches(taken.got, taken.want)
  <2>1. ASSUME NEW v, taken = [got |-> v, want |-> v]
        PROVE  taken.got = v /\ taken.want = v
    BY <2>1
  <2>2. taken.got = << >> /\ taken.want = << >>
    BY <1>1, <2>1, Zenon
  <2>3. Matches(<< >>, << >>)
    BY <1>1, <1>2, EmptyFacts, Zenon
  <2>4. QED
    BY <2>2, <2>3, Zenon
<1>4. CASE used = "buf"
  <2>1. PICK capacity \in FirstCapacities : object = buf_new(capacity)
    BY <1>4 DEF Init
  <2>2. /\ capacity \in Nat /\ capacity <= Memory
        /\ Block(capacity) \in Seq(Int) /\ Len(Block(capacity)) = capacity
    BY Constants, BlockFacts
  <2>3. /\ object \in Bufs /\ object.data = Block(capacity) /\ object.size = 0
        /\ object.capacity = capacity
    BY <2>1, <2>2 DEF buf_new, Bufs
  <2>4. Matches(object.data, << >>)
    BY <1>2, <2>2, <2>3, EmptyFacts, Zenon
  <2>5. Holding(object, << >>)
    BY <2>2, <2>3, <2>4, EmptyFacts DEF Holding
  <2>6. Fair(object, expected) /\ expected \in Seq(Int)
    BY <1>1, <2>5, Zenon DEF Fair
  <2>7. QED
    BY <1>1, <1>3, <1>4, <2>6 DEF HInv, Content
<1>5. CASE used # "buf"
  <2>1. object = EmptyArray
    BY <1>5 DEF Init
  <2>2. AsBuf(ElementSize, EmptyArray) = AsBuf(1, EmptyArray)
    <3>1. 0 * ElementSize = 0 /\ 0 * 1 = 0
      BY Constants
    <3>2. QED
      BY <3>1, EmptyFacts, Zenon DEF AsBuf
  <2>3. Fair(AsBuf(ElementSize, object), expected) /\ object \in Arrays
    BY <1>1, <2>1, <2>2, EmptyFacts, EmptyHolds, Constants, Zenon DEF Fair
  <2>4. StringFair(object, expected) /\ expected \in Seq(Int)
    BY <1>1, <2>1, EmptyFacts, Zenon DEF StringFair, StringHolds
  <2>5. QED
    BY <1>1, <1>3, <1>5, <2>3, <2>4 DEF HInv, Content
<1>6. QED
  BY <1>4, <1>5

LEMMA StepHolds == ASSUME HInv, [Next]_vars PROVE HInv'
<1>1. CASE AllocatorStep
  BY <1>1, AllocatorKeepsContent
<1>2. CASE ArrayStep
  BY <1>2, ArrayKeepsContent
<1>3. CASE StringStep
  BY <1>3, StringKeepsContent
<1>4. CASE \E size \in FileSizes, errno \in {0, 1} : ReadFile(size, errno)
  BY <1>4, ReadFileKeepsContent
<1>5. CASE ReadMore
  BY <1>5, ReadMoreKeepsContent
<1>6. CASE ReadEnd
  BY <1>6, ReadEndKeepsContent
<1>7. CASE UNCHANGED vars
  BY <1>7 DEF vars, HInv, Content
<1>8. QED
  BY <1>1, <1>2, <1>3, <1>4, <1>5, <1>6, <1>7
  DEF Next, AllocatorStep, ArrayStep, StringStep

LEMMA HoldsIt == ASSUME HInv PROVE HoldsWhatWasPut
<1> SUFFICES ASSUME ~OutOfMemory
             PROVE  /\ InUse = Len(expected) /\ InUse <= Room /\ Room <= Len(object.data)
                    /\ Matches(object.data, expected)
                    /\ Matches(taken.got, taken.want)
                    /\ used = "string" /\ ~NoBlock(object) =>
                          InUse < Room /\ object.data[object.len + 1] = NUL
  BY DEF HoldsWhatWasPut
<1>1. used \in {"buf", "array", "string"} /\ expected \in Seq(Int)
      /\ Matches(taken.got, taken.want)
  BY DEF HInv, Content
<1>2. CASE used = "buf"
  <2>1. Holding(object, expected) /\ InUse = object.size /\ Room = object.capacity
    BY <1>2, BufHolds DEF InUse, Room
  <2>2. QED
    BY <1>1, <1>2, <2>1 DEF Holding
<1>3. CASE used = "array"
  <2> DEFINE b == AsBuf(ElementSize, object)
  <2>1. object \in Arrays /\ Holding(b, expected)
    BY <1>3, ArrayHolds
  <2>2. /\ InUse = object.len * ElementSize /\ Room = object.capacity * ElementSize
        /\ b.size = object.len * ElementSize /\ b.capacity = object.capacity * ElementSize
        /\ b.data = object.data
    BY <1>3, <2>1, AsBufFields, Constants DEF InUse, Room
  <2> HIDE DEF b
  <2>3. InUse = b.size /\ Room = b.capacity
    BY <2>2, Zenon
  <2>4. QED
    BY <1>1, <1>3, <2>1, <2>2, <2>3 DEF Holding
<1>4. CASE used = "string"
  <2>1. /\ object \in Arrays /\ StringHolds(object, expected)
        /\ InUse = object.len /\ Room = object.capacity
        /\ object.data \in Seq(Int) /\ object.len \in Nat /\ object.capacity \in Nat
    BY <1>4, StringHoldsIt, OneByte DEF InUse, Room
  <2>2. CASE object = EmptyArray /\ expected = << >>
    <3>1. Matches(object.data, expected)
      <4>1. Holding(AsBuf(1, EmptyArray), << >>) /\ AsBuf(1, EmptyArray).data = << >>
        BY EmptyHolds, EmptyFacts, OneByte, Constants
      <4>2. QED
        BY <2>2, <4>1, EmptyFacts, Zenon DEF Holding
    <3>2. NoBlock(object) /\ object.len = 0 /\ object.capacity = 0
      BY <2>2, EmptyFacts DEF NoBlock
    <3>3. Len(expected) = 0 /\ Len(object.data) = 0
      BY <2>2, EmptyFacts, Zenon
    <3>4. QED
      BY <1>1, <2>1, <3>1, <3>2, <3>3
  <2>3. CASE Holding(AsBuf(1, [object EXCEPT !.len = object.len + 1]), expected \o <<NUL>>)
    <3>1. /\ object.len = Len(expected) /\ object.len + 1 <= object.capacity
          /\ object.capacity <= Len(object.data)
          /\ Matches(object.data, expected \o <<NUL>>)
      BY <1>1, <2>1, <2>3, Constants, BlockFactsOfString
    <3>2. Matches(object.data, expected)
      BY <1>1, <2>1, <3>1, NULFacts, MatchesPrefix
    <3>3. object.data[object.len + 1] = NUL
      <4>1. /\ expected \o <<NUL>> \in Seq(Int)
            /\ Len(expected \o <<NUL>>) = Len(expected) + 1
            /\ (expected \o <<NUL>>)[Len(expected) + 1] = NUL /\ NUL # Unset
        BY <1>1, NULFacts
      <4>2. Len(expected) + 1 \in 1 .. Len(expected \o <<NUL>>)
        BY <2>1, <3>1, <4>1
      <4>3. \/ (expected \o <<NUL>>)[Len(expected) + 1] = Unset
            \/ (expected \o <<NUL>>)[Len(expected) + 1] = object.data[Len(expected) + 1]
        BY <2>1, <3>1, <4>1, <4>2, MatchesDef, Zenon
      <4>4. object.data[Len(expected) + 1] = NUL
        BY <4>1, <4>3, Zenon
      <4>5. QED
        BY <3>1, <4>4, Zenon
    <3>4. QED
      BY <1>1, <2>1, <3>1, <3>2, <3>3
  <2>4. QED
    BY <2>1, <2>2, <2>3 DEF StringHolds
<1>5. QED
  BY <1>1, <1>2, <1>3, <1>4

(* Blocks, arrays and strings hold what was put in them, and give it back, *)
(* for any sizes, calls, alignments and files, as long as there is memory: *)
(* growth, the capacity given up to a whole element (array.h), the NUL     *)
(* moved on at each extension (string.c) and the pieces read_file reads    *)
(* lose no cell and claim none that was not allocated.                     *)
THEOREM NothingPutIsLost == Spec => []HoldsWhatWasPut
<1>1. Init => HInv
  BY HoldsInitially
<1>2. HInv /\ [Next]_vars => HInv'
  BY StepHolds
<1>3. HInv => HoldsWhatWasPut
  BY HoldsIt
<1>4. QED
  BY <1>1, <1>2, <1>3, PTL DEF Spec
=============================================================================
