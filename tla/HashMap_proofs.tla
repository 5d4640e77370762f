--------------------------- MODULE HashMap_proofs ---------------------------
(***************************************************************************)
(* Proofs about module HashMap, for any keys, values, hash functions and   *)
(* capacities: every key is where a lookup finds it, through growth and    *)
(* tombstones, the endless probe of a growth always has a free slot to     *)
(* end at, handles stay good through their own operations, and the map     *)
(* implements the dictionary of module Dictionary.                         *)
(*                                                                         *)
(* The functions of HashMap read the hash from the state; those below have *)
(* it as a parameter, so that what they say of a map can be carried over a *)
(* step.                                                                   *)
(***************************************************************************)
EXTENDS HashMap, FiniteSetTheorems, WellFoundedInduction, TLAPS

Place(h, m, k, d) == (h[k] + d) % m.capacity

(* No probe for k stops before distance d.                                 *)
Leads(h, m, k, d) == \A e \in 0 .. d - 1 : ~Stops(m.slots[Place(h, m, k, e)], k)

(* A probe for k gets to slot i.                                           *)
Reaches(h, m, k, i) == \E d \in Distances(m) : Place(h, m, k, d) = i /\ Leads(h, m, k, d)

AllReached(h, m) == \A i \in FullSlots(m) : Reaches(h, m, m.slots[i].key, i)

Absent(m, k) == \A i \in DOMAIN m.slots : ~Holds(m.slots[i], k)

Map(m) == IsMap(m) /\ m = [slots |-> m.slots, len |-> m.len, capacity |-> m.capacity]

SpareSlot(m, i) == \E j \in DOMAIN m.slots \ {i} : ~IsFull(m.slots[j])

Sound(h, m) ==
    /\ Map(m)
    /\ m.capacity # 1
    /\ AllReached(h, m)
    /\ Cardinality(FullSlots(m)) <= m.len
    /\ m.capacity # 0 => \E j \in DOMAIN m.slots : ~IsFull(m.slots[j])

GoodHandle(h, m, e) ==
    /\ e = [made |-> TRUE, key |-> e.key, has_slot |-> e.has_slot, slot_index |-> e.slot_index]
    /\ e.key \in Keys
    /\ ~e.has_slot => Absent(m, e.key)
    /\ e.has_slot =>
          /\ e.slot_index \in DOMAIN m.slots
          /\ IsFull(m.slots[e.slot_index]) => m.slots[e.slot_index].key = e.key
          /\ ~IsFull(m.slots[e.slot_index]) =>
                /\ Absent(m, e.key)
                /\ SpareSlot(m, e.slot_index)
          /\ Reaches(h, m, e.key, e.slot_index)

Hash == [Keys -> Nat]

-----------------------------------------------------------------------------
(* Maps and probes.                                                        *)

LEMMA MapFacts ==
    ASSUME NEW m, Map(m)
    PROVE  /\ m.capacity \in Nat
           /\ m.len \in Nat
           /\ DOMAIN m.slots = 0 .. m.capacity - 1
           /\ m.slots \in [DOMAIN m.slots -> SlotType]
           /\ \A i \in DOMAIN m.slots : m.slots[i] \in SlotType
BY DEF Map, IsMap

LEMMA SlotFacts ==
    ASSUME NEW slot \in SlotType
    PROVE  /\ IsFull(slot) => slot.key \in Keys /\ slot.value \in Values
           /\ IsFull(slot) => slot = Full(slot.key, slot.value)
           /\ ~IsFull(slot) => slot = Empty \/ slot = Deleted
<1>1. CASE slot = Empty \/ slot = Deleted
  BY <1>1 DEF Empty, Deleted, IsFull
<1>2. CASE slot \in [occupancy : {"full"}, key : Keys, value : Values]
  BY <1>2 DEF IsFull, Full
<1>3. QED
  BY <1>1, <1>2 DEF SlotType

LEMMA FullFacts ==
    ASSUME NEW k \in Keys, NEW v \in Values
    PROVE  /\ Full(k, v) \in SlotType
           /\ IsFull(Full(k, v))
           /\ Full(k, v).key = k
           /\ Full(k, v).value = v
           /\ Full(k, v) # Empty
           /\ Deleted \in SlotType /\ Empty \in SlotType
           /\ Deleted # Empty /\ ~IsFull(Deleted) /\ ~IsFull(Empty)
BY DEF Full, IsFull, Empty, Deleted, SlotType

LEMMA PlaceInside ==
    ASSUME NEW h \in Hash, NEW m, Map(m), m.capacity # 0, NEW k \in Keys, NEW d \in Nat
    PROVE  /\ Place(h, m, k, d) \in DOMAIN m.slots
           /\ Place(h, m, k, d) \in 0 .. m.capacity - 1
<1>1. h[k] + d \in Nat
  BY DEF Hash
<1>2. m.capacity \in Nat \ {0}
  BY MapFacts
<1>3. \A x \in Nat, c \in Nat \ {0} : x % c \in 0 .. c - 1
  OBVIOUS
<1>4. QED
  BY <1>1, <1>2, <1>3, MapFacts DEF Place

LEMMA RemaindersDiffer ==
    ASSUME NEW c \in Nat \ {0}, NEW a \in Nat, NEW d \in 0 .. c - 1, NEW e \in 0 .. d - 1
    PROVE  (a + e) % c # (a + d) % c
<1> SUFFICES ASSUME (a + e) % c = (a + d) % c PROVE FALSE
  OBVIOUS
<1> DEFINE p == (a + e) \div c
           q == (a + d) \div c
           r == (a + d) % c
<1>1. /\ p \in Int /\ q \in Int /\ r \in Int
      /\ a + e = c * p + r
      /\ a + d = c * q + r
  OBVIOUS
<1> HIDE DEF p, q, r
<1>2. d - e = c * (q - p)
  BY <1>1
<1>3. d - e \in 1 .. c - 1
  OBVIOUS
<1>4. q - p \in Int
  BY <1>1
<1>5. CASE q - p <= 0
  <2>1. \A x \in Nat, y \in Int : y <= 0 => x * y <= 0
    OBVIOUS
  <2>2. QED
    BY <1>2, <1>3, <1>4, <1>5, <2>1
<1>6. CASE q - p >= 1
  <2>1. \A x \in Nat, y \in Int : y >= 1 => x * y >= x
    OBVIOUS
  <2>2. QED
    BY <1>2, <1>3, <1>4, <1>6, <2>1
<1>7. QED
  BY <1>4, <1>5, <1>6

LEMMA PlacesDiffer ==
    ASSUME NEW h \in Hash, NEW m, Map(m), NEW k \in Keys,
           NEW d \in Distances(m), NEW e \in 0 .. d - 1
    PROVE  Place(h, m, k, e) # Place(h, m, k, d)
<1>1. m.capacity \in Nat \ {0} /\ d \in 0 .. m.capacity - 1
  BY MapFacts DEF Distances
<1>2. QED
  BY <1>1, RemaindersDiffer DEF Place, Hash

(* A key is in one slot.                                                   *)
LEMMA KeyOnce ==
    ASSUME NEW h \in Hash, NEW m, Map(m), NEW k \in Keys,
           NEW i, Reaches(h, m, k, i), Holds(m.slots[i], k),
           NEW j, Reaches(h, m, k, j), Holds(m.slots[j], k)
    PROVE  i = j
<1>1. PICK d \in Distances(m) : Place(h, m, k, d) = i /\ Leads(h, m, k, d)
  BY DEF Reaches
<1>2. PICK e \in Distances(m) : Place(h, m, k, e) = j /\ Leads(h, m, k, e)
  BY DEF Reaches
<1>3. d \in Nat /\ e \in Nat
  BY MapFacts DEF Distances
<1>4. ~(d < e)
  BY <1>1, <1>2, <1>3 DEF Leads, Stops
<1>5. ~(e < d)
  BY <1>1, <1>2, <1>3 DEF Leads, Stops
<1>6. QED
  BY <1>1, <1>2, <1>3, <1>4, <1>5

(* A probe gets where it got if no slot stops it that did not.             *)
LEMMA ReachesStill ==
    ASSUME NEW h \in Hash, NEW m, Map(m), NEW n, n.capacity = m.capacity, NEW k \in Keys,
           NEW i, Reaches(h, m, k, i),
           \A j \in DOMAIN m.slots : j # i /\ Stops(n.slots[j], k) => Stops(m.slots[j], k)
    PROVE  Reaches(h, n, k, i)
<1>1. PICK d \in Distances(m) : Place(h, m, k, d) = i /\ Leads(h, m, k, d)
  BY DEF Reaches
<1>2. d \in 0 .. m.capacity - 1 /\ m.capacity # 0
  BY MapFacts DEF Distances
<1>3. ASSUME NEW e \in 0 .. d - 1
      PROVE  ~Stops(n.slots[Place(h, n, k, e)], k)
  <2>1. Place(h, n, k, e) = Place(h, m, k, e)
    BY DEF Place
  <2>2. e \in Nat
    OBVIOUS
  <2>3. Place(h, m, k, e) \in DOMAIN m.slots
    BY <1>2, <2>2, PlaceInside
  <2>4. Place(h, m, k, e) # i
    BY <1>1, PlacesDiffer
  <2>5. ~Stops(m.slots[Place(h, m, k, e)], k)
    BY <1>1 DEF Leads
  <2>6. QED
    BY <2>1, <2>3, <2>4, <2>5
<1>4. d \in Distances(n) /\ Place(h, n, k, d) = i /\ Leads(h, n, k, d)
  BY <1>1, <1>3 DEF Distances, Place, Leads
<1>5. QED
  BY <1>4 DEF Reaches

-----------------------------------------------------------------------------
(* How many slots are full.                                                *)

LEMMA FullFinite ==
    ASSUME NEW m, Map(m)
    PROVE  /\ FullSlots(m) \subseteq DOMAIN m.slots
           /\ IsFiniteSet(FullSlots(m))
           /\ Cardinality(FullSlots(m)) \in Nat
           /\ IsFiniteSet(DOMAIN m.slots)
           /\ Cardinality(DOMAIN m.slots) = m.capacity
<1>1. m.capacity \in Nat /\ DOMAIN m.slots = 0 .. m.capacity - 1
  BY MapFacts
<1>2. IsFiniteSet(DOMAIN m.slots) /\ Cardinality(DOMAIN m.slots) = m.capacity
  BY <1>1, FS_Interval
<1>3. FullSlots(m) \subseteq DOMAIN m.slots
  BY DEF FullSlots
<1>4. QED
  BY <1>2, <1>3, FS_Subset, FS_CardinalityType

(* With fewer full slots than that, one of the others is free.             *)
LEMMA Spare ==
    ASSUME NEW m, Map(m), NEW i \in DOMAIN m.slots,
           Cardinality(FullSlots(m)) + 1 < m.capacity
    PROVE  SpareSlot(m, i)
<1>1. SUFFICES ASSUME DOMAIN m.slots \ {i} \subseteq FullSlots(m) PROVE FALSE
  BY DEF SpareSlot, FullSlots
<1>2. DOMAIN m.slots = FullSlots(m) \union {i}
  BY <1>1, FullFinite
<1>3. Cardinality(DOMAIN m.slots) <= Cardinality(FullSlots(m)) + 1
  BY <1>2, FullFinite, FS_AddElement
<1>4. QED
  BY <1>3, FullFinite, MapFacts

LEMMA FreeSlot ==
    ASSUME NEW m, Map(m), Cardinality(FullSlots(m)) < m.capacity
    PROVE  \E j \in DOMAIN m.slots : ~IsFull(m.slots[j])
<1>1. SUFFICES ASSUME DOMAIN m.slots = FullSlots(m) PROVE FALSE
  BY FullFinite DEF FullSlots
<1>2. QED
  BY <1>1, FullFinite, MapFacts

-----------------------------------------------------------------------------
(* Changes of one slot.                                                    *)

(* A key that is nowhere is put in a free slot a probe for it gets to.     *)
LEMMA Put ==
    ASSUME NEW h \in Hash, NEW m, Map(m), AllReached(h, m),
           NEW k \in Keys, NEW v \in Values, Absent(m, k),
           NEW i \in DOMAIN m.slots, ~IsFull(m.slots[i]), Reaches(h, m, k, i),
           NEW n, Map(n), n.capacity = m.capacity,
           n.slots = [m.slots EXCEPT ![i] = Full(k, v)]
    PROVE  /\ AllReached(h, n)
           /\ Reaches(h, n, k, i)
           /\ Cardinality(FullSlots(n)) = Cardinality(FullSlots(m)) + 1
<1>1. /\ DOMAIN n.slots = DOMAIN m.slots
      /\ n.slots[i] = Full(k, v)
      /\ \A j \in DOMAIN m.slots \ {i} : n.slots[j] = m.slots[j]
  OBVIOUS
<1>2. IsFull(n.slots[i]) /\ n.slots[i].key = k /\ n.slots[i] # Empty
  BY <1>1, FullFacts
<1>3. Reaches(h, n, k, i)
  BY <1>1, ReachesStill
<1>4. ASSUME NEW j \in FullSlots(n), j # i
      PROVE  Reaches(h, n, n.slots[j].key, j)
  <2>1. j \in FullSlots(m) /\ n.slots[j] = m.slots[j]
    BY <1>1, <1>4 DEF FullSlots
  <2> DEFINE q == m.slots[j].key
  <2>2. q \in Keys /\ Reaches(h, m, q, j)
    BY <2>1, MapFacts, SlotFacts DEF AllReached, FullSlots
  <2>3. q # k
    BY <2>1 DEF Absent, Holds, FullSlots
  <2> HIDE DEF q
  <2>4. ~Stops(n.slots[i], q)
    BY <1>2, <2>3 DEF Stops, Holds
  <2>5. \A l \in DOMAIN m.slots : l # j /\ Stops(n.slots[l], q) => Stops(m.slots[l], q)
    BY <1>1, <2>4
  <2>6. Reaches(h, n, q, j)
    BY <2>2, <2>5, ReachesStill
  <2>7. QED
    BY <2>1, <2>6 DEF q
<1>5. AllReached(h, n)
  BY <1>2, <1>3, <1>4 DEF AllReached
<1>6. FullSlots(n) = FullSlots(m) \union {i} /\ i \notin FullSlots(m)
  BY <1>1, <1>2 DEF FullSlots
<1>7. IsFiniteSet(FullSlots(m))
  BY FullFinite
<1>8. Cardinality(FullSlots(m) \union {i}) = Cardinality(FullSlots(m)) + 1
  BY <1>6, <1>7, FS_AddElement
<1>9. QED
  BY <1>3, <1>5, <1>6, <1>8

(* A full slot gets another value.                                         *)
LEMMA Overwrite ==
    ASSUME NEW h \in Hash, NEW m, Map(m), AllReached(h, m),
           NEW i \in DOMAIN m.slots, IsFull(m.slots[i]), NEW v \in Values,
           NEW n, Map(n), n.capacity = m.capacity,
           n.slots = [m.slots EXCEPT ![i] = Full(m.slots[i].key, v)]
    PROVE  /\ AllReached(h, n)
           /\ FullSlots(n) = FullSlots(m)
           /\ \A k \in Keys : \A j : Reaches(h, m, k, j) => Reaches(h, n, k, j)
<1>1. /\ DOMAIN n.slots = DOMAIN m.slots
      /\ n.slots[i] = Full(m.slots[i].key, v)
      /\ \A j \in DOMAIN m.slots \ {i} : n.slots[j] = m.slots[j]
  OBVIOUS
<1>2. m.slots[i].key \in Keys
  BY MapFacts, SlotFacts
<1>3. /\ IsFull(n.slots[i])
      /\ n.slots[i].key = m.slots[i].key
      /\ n.slots[i] # Empty
  BY <1>1, <1>2, FullFacts
<1>4. \A j \in DOMAIN m.slots : \A k : Stops(n.slots[j], k) => Stops(m.slots[j], k)
  BY <1>1, <1>3 DEF Stops, Holds
<1>5. \A k \in Keys : \A j : Reaches(h, m, k, j) => Reaches(h, n, k, j)
  BY <1>4, ReachesStill
<1>6. FullSlots(n) = FullSlots(m) /\ \A j \in FullSlots(m) : n.slots[j].key = m.slots[j].key
  BY <1>1, <1>3 DEF FullSlots
<1>7. \A j \in FullSlots(m) : m.slots[j].key \in Keys
  BY MapFacts, SlotFacts DEF FullSlots
<1>8. QED
  BY <1>5, <1>6, <1>7 DEF AllReached

(* A full slot becomes a tombstone: its key is nowhere.                    *)
LEMMA Remove ==
    ASSUME NEW h \in Hash, NEW m, Map(m), AllReached(h, m),
           NEW i \in DOMAIN m.slots, IsFull(m.slots[i]),
           NEW n, Map(n), n.capacity = m.capacity,
           n.slots = [m.slots EXCEPT ![i] = Deleted]
    PROVE  /\ AllReached(h, n)
           /\ Absent(n, m.slots[i].key)
           /\ Reaches(h, n, m.slots[i].key, i)
           /\ ~IsFull(n.slots[i])
           /\ Cardinality(FullSlots(m)) > 0
           /\ Cardinality(FullSlots(n)) = Cardinality(FullSlots(m)) - 1
<1>1. /\ DOMAIN n.slots = DOMAIN m.slots
      /\ n.slots[i] = Deleted
      /\ \A j \in DOMAIN m.slots \ {i} : n.slots[j] = m.slots[j]
  OBVIOUS
<1>2. ~IsFull(n.slots[i]) /\ n.slots[i] # Empty
  BY <1>1 DEF IsFull, Deleted, Empty
<1>3. \A j \in DOMAIN m.slots : \A k : Stops(n.slots[j], k) => Stops(m.slots[j], k)
  BY <1>1, <1>2 DEF Stops, Holds
<1>4. \A j \in FullSlots(m) : m.slots[j].key \in Keys /\ Reaches(h, m, m.slots[j].key, j)
  BY MapFacts, SlotFacts DEF FullSlots, AllReached
<1>5. \A j \in FullSlots(m) : Reaches(h, n, m.slots[j].key, j)
  BY <1>3, <1>4, ReachesStill
<1>6. FullSlots(n) = FullSlots(m) \ {i} /\ i \in FullSlots(m)
  BY <1>1, <1>2 DEF FullSlots
<1>7. AllReached(h, n)
  BY <1>1, <1>5, <1>6 DEF AllReached
<1>8. Absent(n, m.slots[i].key)
  <2>1. SUFFICES ASSUME NEW j \in DOMAIN m.slots, Holds(n.slots[j], m.slots[i].key) PROVE FALSE
    BY <1>1 DEF Absent
  <2>2. j # i /\ Holds(m.slots[j], m.slots[i].key)
    BY <1>1, <1>2, <2>1 DEF Holds
  <2>3. j \in FullSlots(m) /\ m.slots[j].key = m.slots[i].key
    BY <2>2 DEF FullSlots, Holds
  <2>4. Holds(m.slots[i], m.slots[i].key)
    BY DEF Holds
  <2>5. QED
    BY <1>4, <1>6, <2>2, <2>3, <2>4, KeyOnce
<1>9. Cardinality(FullSlots(m)) > 0 /\ Cardinality(FullSlots(n)) = Cardinality(FullSlots(m)) - 1
  <2>1. Cardinality(FullSlots(n)) = Cardinality(FullSlots(m)) - 1
    BY <1>6, FullFinite, FS_RemoveElement
  <2>2. QED
    BY <2>1, FullFinite
<1>10. QED
  BY <1>2, <1>5, <1>6, <1>7, <1>8, <1>9

-----------------------------------------------------------------------------
(* Lookups.                                                                *)

Less == {pair \in Nat \X Nat : pair[1] < pair[2]}

LEMMA NearestIsOne ==
    ASSUME NEW D, D \subseteq Nat, D # {}
    PROVE  Nearest(D) \in D
<1>1. IsWellFoundedOn(Less, Nat)
  BY NatLessThanWellFounded DEF OpToRel, Less
<1>2. PICK d \in D : \A e \in D : <<e, d>> \notin Less
  BY <1>1, WFMin
<1>3. \A e \in D : ~(e < d)
  BY <1>2 DEF Less
<1>4. \A e \in D : d <= e
  BY <1>3
<1>5. QED
  BY <1>4 DEF Nearest

(* What is found or free at a distance, in terms of the above.             *)
LEMMA ProbedFacts ==
    ASSUME hash \in Hash, NEW m, Map(m), NEW k \in Keys,
           NEW d \in Probed(m, k)
    PROVE  /\ d \in Nat /\ m.capacity # 0
           /\ Index(m, k, d) \in DOMAIN m.slots
           /\ Slot(m, k, d) = m.slots[Index(m, k, d)]
           /\ Reaches(hash, m, k, Index(m, k, d))
<1>1. d \in Distances(m) /\ m.capacity \in Nat
  BY MapFacts DEF Probed
<1>2. d \in Nat /\ m.capacity # 0
  BY <1>1 DEF Distances
<1>3. Index(m, k, d) = Place(hash, m, k, d)
  BY DEF Index, Place
<1>4. Leads(hash, m, k, d)
  BY DEF Probed, Leads, Slot, Index, Place
<1>5. QED
  BY <1>1, <1>2, <1>3, <1>4, PlaceInside DEF Reaches, Slot

LEMMA NotFoundIsAbsent ==
    ASSUME hash \in Hash, NEW m, Map(m), AllReached(hash, m), NEW k \in Keys,
           FoundAt(m, k) = {}
    PROVE  Absent(m, k)
<1>1. SUFFICES ASSUME NEW i \in DOMAIN m.slots, Holds(m.slots[i], k) PROVE FALSE
  BY DEF Absent
<1>2. PICK d \in Distances(m) : Place(hash, m, k, d) = i /\ Leads(hash, m, k, d)
  BY <1>1 DEF AllReached, FullSlots, Holds, Reaches
<1>3. d \in FoundAt(m, k)
  BY <1>1, <1>2 DEF FoundAt, Probed, Leads, Slot, Index, Place
<1>4. QED
  BY <1>3

LEMMA EntryGood ==
    ASSUME hash \in Hash, NEW m, Sound(hash, m), NEW k \in Keys
    PROVE  GoodHandle(hash, m, EntryOf(m, k)) /\ EntryOf(m, k).key = k
<1>0. Map(m) /\ AllReached(hash, m)
  BY DEF Sound
<1>1. FoundAt(m, k) \subseteq Nat /\ FreeAt(m, k) \subseteq Nat
  BY <1>0, ProbedFacts DEF FoundAt, FreeAt
<1>2. CASE FoundAt(m, k) # {}
  <2> DEFINE d == Nearest(FoundAt(m, k))
             i == Index(m, k, d)
  <2>1. d \in FoundAt(m, k)
    BY <1>1, <1>2, NearestIsOne
  <2>2. EntryOf(m, k) = Handle(k, d, m)
    BY <1>2 DEF EntryOf
  <2> HIDE DEF d
  <2>3. /\ i \in DOMAIN m.slots
        /\ Reaches(hash, m, k, i)
        /\ IsFull(m.slots[i]) /\ m.slots[i].key = k
    BY <1>0, <2>1, ProbedFacts DEF FoundAt, Holds
  <2> HIDE DEF i
  <2>4. Handle(k, d, m) = [made |-> TRUE, key |-> k, has_slot |-> TRUE, slot_index |-> i]
    BY DEF Handle, i
  <2>5. QED
    BY <2>2, <2>3, <2>4 DEF GoodHandle
<1>3. CASE FoundAt(m, k) = {} /\ (FreeAt(m, k) = {} \/ Crowded(m))
  <2>1. EntryOf(m, k) = [made |-> TRUE, key |-> k, has_slot |-> FALSE, slot_index |-> 0]
    BY <1>3 DEF EntryOf, NoSlot
  <2>2. QED
    BY <1>0, <1>3, <2>1, NotFoundIsAbsent DEF GoodHandle
<1>4. CASE FoundAt(m, k) = {} /\ FreeAt(m, k) # {} /\ ~Crowded(m)
  <2> DEFINE d == Nearest(FreeAt(m, k))
             i == Index(m, k, d)
  <2>1. d \in FreeAt(m, k)
    BY <1>1, <1>4, NearestIsOne
  <2>2. EntryOf(m, k) = Handle(k, d, m)
    BY <1>4 DEF EntryOf
  <2> HIDE DEF d
  <2>3. /\ i \in DOMAIN m.slots /\ m.capacity # 0
        /\ Reaches(hash, m, k, i)
        /\ ~IsFull(m.slots[i])
    BY <1>0, <2>1, ProbedFacts DEF FreeAt
  <2> HIDE DEF i
  <2>4. Handle(k, d, m) = [made |-> TRUE, key |-> k, has_slot |-> TRUE, slot_index |-> i]
    BY DEF Handle, i
  <2>5. SpareSlot(m, i)
    <3>1. 4 * (m.len + 1) <= 3 * m.capacity
      BY <1>0, <1>4, MapFacts DEF Crowded
    <3>2. Cardinality(FullSlots(m)) + 1 < m.capacity
      BY <1>0, <2>3, <3>1, MapFacts, FullFinite DEF Sound
    <3>3. QED
      BY <1>0, <2>3, <3>2, Spare
  <2>6. QED
    BY <1>0, <1>4, <2>2, <2>3, <2>4, <2>5, NotFoundIsAbsent DEF GoodHandle
<1>5. QED
  BY <1>2, <1>3, <1>4

-----------------------------------------------------------------------------
(* The invariant.                                                          *)

Moved(m, e, g) == IF g.i < m.capacity THEN m.slots[g.i].key ELSE e.key

(* A map m that grows, for a handle e that has no slot in it: the keys in  *)
(* the new one are those of the slots copied, there is room for the rest,  *)
(* and the probe has only met full slots.                                  *)
Growing(h, m, e, g) ==
    /\ g = [i |-> g.i, distance |-> g.distance, value |-> g.value,
            new_hash_map |-> g.new_hash_map]
    /\ g.i \in 0 .. m.capacity
    /\ g.value \in Values
    /\ e.made /\ ~e.has_slot
    /\ Map(g.new_hash_map)
    /\ g.new_hash_map.capacity >= 2 /\ g.new_hash_map.capacity >= 2 * m.capacity
    /\ AllReached(h, g.new_hash_map)
    /\ Cardinality(FullSlots(g.new_hash_map)) <= g.new_hash_map.len
    /\ Cardinality(FullSlots(g.new_hash_map)) <= g.i
    /\ \A j \in FullSlots(g.new_hash_map) :
          \E l \in 0 .. g.i - 1 : Holds(m.slots[l], g.new_hash_map.slots[j].key)
    /\ g.distance \in Distances(g.new_hash_map)
    /\ \A d \in 0 .. g.distance - 1 :
          IsFull(g.new_hash_map.slots[Place(h, g.new_hash_map, Moved(m, e, g), d)])
    /\ g.i < m.capacity /\ ~IsFull(m.slots[g.i]) => g.distance = 0

IInv ==
    /\ hash \in Hashes
    /\ Sound(hash, hash_map)
    /\ entry = NoEntry \/ GoodHandle(hash, hash_map, entry)
    /\ phase \in {"idle", "copying", "freed"}
    /\ phase = "copying" =>
          GoodHandle(hash, hash_map, entry) /\ Growing(hash, hash_map, entry, growing)

LEMMA HashIsHash == hash \in Hashes => hash \in Hash
BY HashMapAssumption DEF Hash

LEMMA NewMapFacts ==
    ASSUME NEW c \in Nat, NEW h
    PROVE  /\ Map(NewMap(c))
           /\ NewMap(c).capacity = c
           /\ NewMap(c).len = 0
           /\ FullSlots(NewMap(c)) = {}
           /\ AllReached(h, NewMap(c))
           /\ Cardinality(FullSlots(NewMap(c))) = 0
           /\ \A j \in 0 .. c - 1 : j \in DOMAIN NewMap(c).slots /\ ~IsFull(NewMap(c).slots[j])
<1>1. NewMap(c) = [slots |-> [j \in 0 .. c - 1 |-> Empty], len |-> 0, capacity |-> c]
  BY DEF NewMap
<1>2. Empty \in SlotType /\ ~IsFull(Empty)
  BY DEF SlotType, Empty, IsFull
<1>3. Map(NewMap(c))
  BY <1>1, <1>2 DEF Map, IsMap
<1>4. FullSlots(NewMap(c)) = {}
  BY <1>1, <1>2 DEF FullSlots
<1>5. AllReached(h, NewMap(c)) /\ Cardinality(FullSlots(NewMap(c))) = 0
  BY <1>4, FS_EmptySet DEF AllReached
<1>6. \A j \in 0 .. c - 1 : j \in DOMAIN NewMap(c).slots /\ NewMap(c).slots[j] = Empty
  BY <1>1
<1>7. QED
  BY <1>1, <1>2, <1>3, <1>4, <1>5, <1>6

LEMMA InitOK == Init => IInv
<1> SUFFICES ASSUME Init PROVE IInv
  OBVIOUS
<1> USE DEF Init
<1>1. hash_map = NewMap(0)
  OBVIOUS
<1>2. Sound(hash, hash_map)
  BY <1>1, NewMapFacts DEF Sound
<1>3. QED
  BY <1>2 DEF IInv

-----------------------------------------------------------------------------
(* Insertion and removal through a handle.                                 *)

LEMMA RecordChange ==
    ASSUME NEW m, m = [slots |-> m.slots, len |-> m.len, capacity |-> m.capacity],
           NEW i, NEW x, NEW l,
           NEW n, n = [m EXCEPT !.slots[i] = x, !.len = l]
    PROVE  n = [slots |-> [m.slots EXCEPT ![i] = x], len |-> l, capacity |-> m.capacity]
OBVIOUS

(* A record that is a map with other slots and another length.             *)
LEMMA ChangedMap ==
    ASSUME NEW m, Map(m), NEW i \in DOMAIN m.slots, NEW slot \in SlotType, NEW l \in Nat,
           NEW n, n = [slots |-> [m.slots EXCEPT ![i] = slot], len |-> l, capacity |-> m.capacity]
    PROVE  /\ Map(n)
           /\ n.slots = [m.slots EXCEPT ![i] = slot]
           /\ n.len = l
           /\ n.capacity = m.capacity
           /\ DOMAIN n.slots = DOMAIN m.slots
           /\ n.slots[i] = slot
           /\ \A j \in DOMAIN m.slots \ {i} : n.slots[j] = m.slots[j]
<1>1. [m.slots EXCEPT ![i] = slot] \in [0 .. m.capacity - 1 -> SlotType]
  BY MapFacts
<1>2. QED
  BY <1>1, MapFacts DEF Map, IsMap

LEMMA InsertInSlot ==
    ASSUME hash \in Hash, NEW m, Sound(hash, m), NEW e, GoodHandle(hash, m, e), e.has_slot,
           NEW v \in Values
    PROVE  Sound(hash, Overwritten(m, e, v)) /\ GoodHandle(hash, Overwritten(m, e, v), e)
<1> DEFINE i == e.slot_index
           n == Overwritten(m, e, v)
<1>1. Map(m) /\ AllReached(hash, m) /\ m.capacity # 1 /\ Cardinality(FullSlots(m)) <= m.len
  BY DEF Sound
<1>2. /\ i \in DOMAIN m.slots /\ e.key \in Keys /\ Reaches(hash, m, e.key, i)
      /\ e = [made |-> TRUE, key |-> e.key, has_slot |-> e.has_slot, slot_index |-> i]
  BY DEF GoodHandle
<1>3. m.len + 1 \in Nat /\ m.len \in Nat /\ Cardinality(FullSlots(m)) \in Nat
  BY <1>1, MapFacts, FullFinite
<1>4. Full(e.key, v) \in SlotType /\ IsFull(Full(e.key, v)) /\ Full(e.key, v).key = e.key
  BY <1>2, FullFacts
<1>5. n = [slots |-> [m.slots EXCEPT ![i] = Full(e.key, v)], len |-> m.len + 1,
           capacity |-> m.capacity]
  <2>1. m = [slots |-> m.slots, len |-> m.len, capacity |-> m.capacity]
    BY <1>1 DEF Map
  <2>2. n = [slots |-> [m.slots EXCEPT ![i] = IF IsFull(m.slots[i])
                                               THEN [m.slots[i] EXCEPT !.value = v]
                                               ELSE Full(e.key, v)],
             len |-> m.len + 1, capacity |-> m.capacity]
    <3>1. n = [m EXCEPT !.slots[i] = IF IsFull(m.slots[i]) THEN [m.slots[i] EXCEPT !.value = v]
                                                            ELSE Full(e.key, v),
                        !.len = m.len + 1]
      BY DEF Overwritten
    <3>2. QED
      BY <2>1, <3>1, RecordChange
  <2>3. ASSUME IsFull(m.slots[i])
        PROVE  [m.slots[i] EXCEPT !.value = v] = Full(e.key, v)
    <3>1. m.slots[i].key = e.key
      BY <2>3 DEF GoodHandle
    <3>2. m.slots[i] = Full(e.key, m.slots[i].value)
      BY <1>1, <1>2, <2>3, <3>1, MapFacts, SlotFacts
    <3>3. QED
      BY <3>2 DEF Full
  <2>4. QED
    BY <2>2, <2>3
<1> HIDE DEF n, i
<1>6. /\ Map(n) /\ n.slots = [m.slots EXCEPT ![i] = Full(e.key, v)]
      /\ n.len = m.len + 1 /\ n.capacity = m.capacity
      /\ DOMAIN n.slots = DOMAIN m.slots
      /\ n.slots[i] = Full(e.key, v)
      /\ \A j \in DOMAIN m.slots \ {i} : n.slots[j] = m.slots[j]
  BY <1>1, <1>2, <1>3, <1>4, <1>5, ChangedMap
<1>7. CASE IsFull(m.slots[i])
  <2>1. m.slots[i].key = e.key
    BY <1>7 DEF GoodHandle, i
  <2>2. AllReached(hash, n) /\ FullSlots(n) = FullSlots(m) /\ Reaches(hash, n, e.key, i)
    BY <1>1, <1>2, <1>6, <1>7, <2>1, Overwrite
  <2>3. Cardinality(FullSlots(n)) <= n.len
    BY <1>1, <1>3, <1>6, <2>2
  <2>4. n.capacity # 0 => \E j \in DOMAIN n.slots : ~IsFull(n.slots[j])
    BY <1>6, <2>2 DEF Sound, FullSlots
  <2>5. QED
    BY <1>1, <1>2, <1>4, <1>6, <2>2, <2>3, <2>4 DEF Sound, GoodHandle, n, i
<1>8. CASE ~IsFull(m.slots[i])
  <2>1. Absent(m, e.key) /\ SpareSlot(m, i)
    BY <1>8 DEF GoodHandle, i
  <2>2. /\ AllReached(hash, n) /\ Reaches(hash, n, e.key, i)
        /\ Cardinality(FullSlots(n)) = Cardinality(FullSlots(m)) + 1
    BY <1>1, <1>2, <1>6, <1>8, <2>1, Put
  <2>3. Cardinality(FullSlots(n)) <= n.len
    BY <1>1, <1>3, <1>6, <2>2
  <2>4. \E j \in DOMAIN n.slots : ~IsFull(n.slots[j])
    BY <1>6, <2>1 DEF SpareSlot
  <2>5. QED
    BY <1>1, <1>2, <1>4, <1>6, <2>2, <2>3, <2>4 DEF Sound, GoodHandle, n, i
<1>9. QED
  BY <1>7, <1>8

LEMMA RemoveFromSlot ==
    ASSUME hash \in Hash, NEW m, Sound(hash, m), NEW e, GoodHandle(hash, m, e), e.has_slot,
           IsFull(m.slots[e.slot_index])
    PROVE  /\ Sound(hash, Removed(m, e.slot_index))
           /\ GoodHandle(hash, Removed(m, e.slot_index), e)
<1> DEFINE i == e.slot_index
           n == Removed(m, e.slot_index)
<1>1. Map(m) /\ AllReached(hash, m) /\ m.capacity # 1 /\ Cardinality(FullSlots(m)) <= m.len
  BY DEF Sound
<1>2. /\ i \in DOMAIN m.slots /\ e.key \in Keys /\ m.slots[i].key = e.key
      /\ e = [made |-> TRUE, key |-> e.key, has_slot |-> e.has_slot, slot_index |-> i]
  BY DEF GoodHandle
<1>3. /\ m.len \in Nat /\ Cardinality(FullSlots(m)) \in Nat /\ IsFiniteSet(FullSlots(m))
      /\ i \in FullSlots(m)
  BY <1>1, <1>2, MapFacts, FullFinite DEF FullSlots
<1>4. Cardinality(FullSlots(m)) # 0
  BY <1>3, FS_EmptySet
<1>5. m.len - 1 \in Nat
  BY <1>1, <1>3, <1>4
<1>6. n = [slots |-> [m.slots EXCEPT ![i] = Deleted], len |-> m.len - 1, capacity |-> m.capacity]
  <2>1. m = [slots |-> m.slots, len |-> m.len, capacity |-> m.capacity]
    BY <1>1 DEF Map
  <2>2. n = [m EXCEPT !.slots[i] = Deleted, !.len = m.len - 1]
    BY DEF Removed
  <2>3. QED
    BY <2>1, <2>2, RecordChange
<1>7. Deleted \in SlotType
  BY DEF SlotType
<1> HIDE DEF n, i
<1>8. /\ Map(n) /\ n.slots = [m.slots EXCEPT ![i] = Deleted]
      /\ n.len = m.len - 1 /\ n.capacity = m.capacity
      /\ DOMAIN n.slots = DOMAIN m.slots
      /\ n.slots[i] = Deleted
      /\ \A j \in DOMAIN m.slots \ {i} : n.slots[j] = m.slots[j]
  BY <1>1, <1>2, <1>5, <1>6, <1>7, ChangedMap
<1>9. /\ AllReached(hash, n) /\ Absent(n, e.key) /\ Reaches(hash, n, e.key, i)
      /\ ~IsFull(n.slots[i])
      /\ Cardinality(FullSlots(n)) = Cardinality(FullSlots(m)) - 1
  <2>1. IsFull(m.slots[i])
    BY DEF i
  <2>2. QED
    BY <1>1, <1>2, <1>8, <2>1, Remove
<1>10. Cardinality(FullSlots(n)) <= n.len
  BY <1>1, <1>3, <1>8, <1>9
<1>11. Sound(hash, n)
  BY <1>1, <1>2, <1>8, <1>9, <1>10 DEF Sound
<1>12. SpareSlot(n, i)
  <2>1. PICK j \in DOMAIN m.slots : ~IsFull(m.slots[j])
    <3>1. m.capacity # 0
      BY <1>1, <1>2, MapFacts
    <3>2. QED
      BY <3>1 DEF Sound
  <2>2. j # i
    BY <2>1 DEF i
  <2>3. QED
    BY <1>8, <2>1, <2>2 DEF SpareSlot
<1>13. GoodHandle(hash, n, e)
  BY <1>2, <1>8, <1>9, <1>12 DEF GoodHandle, i
<1>14. QED
  BY <1>11, <1>13 DEF n, i

-----------------------------------------------------------------------------
(* Steps of an idle map.                                                   *)

LEMMA LookupStep ==
    ASSUME IInv, Idle, UNCHANGED <<hash, hash_map, entry, phase, growing>>
    PROVE  IInv'
BY DEF IInv, Idle

LEMMA InsertStep ==
    ASSUME IInv, Idle, NEW e, GoodHandle(hash, hash_map, e), NEW v \in Values,
           InsertThrough(e, v)
    PROVE  IInv'
<1>1. hash \in Hash /\ hash' = hash /\ entry' = e /\ phase = "idle" /\ Map(hash_map)
  BY HashIsHash DEF IInv, InsertThrough, Idle, Sound
<1>2. CASE e.has_slot
  <2>1. hash_map' = Overwritten(hash_map, e, v) /\ phase' = phase
    BY <1>2 DEF InsertThrough
  <2>2. Sound(hash, hash_map') /\ GoodHandle(hash, hash_map', e)
    BY <1>1, <1>2, <2>1, InsertInSlot DEF IInv
  <2>3. QED
    BY <1>1, <2>1, <2>2 DEF IInv
<1>3. CASE ~e.has_slot
  <2> DEFINE c == NewCapacity
             n == NewMap(c)
             g == [i |-> 0, distance |-> 0, value |-> v, new_hash_map |-> n]
  <2>1. hash_map' = hash_map /\ phase' = "copying" /\ growing' = g
    BY <1>3 DEF InsertThrough
  <2>2. hash_map.capacity \in Nat
    BY <1>1, MapFacts
  <2>3. c \in Nat /\ c >= 2 /\ c >= 2 * hash_map.capacity
    BY <2>2, HashMapAssumption DEF NewCapacity
  <2> HIDE DEF c
  <2>4. /\ Map(n) /\ n.capacity = c /\ n.len = 0 /\ FullSlots(n) = {}
        /\ AllReached(hash, n) /\ Cardinality(FullSlots(n)) = 0
    BY <2>3, NewMapFacts
  <2> HIDE DEF n
  <2>5. 0 \in Distances(n)
    BY <2>3, <2>4 DEF Distances
  <2>6. e.made
    BY DEF GoodHandle
  <2>7. g.i = 0 /\ g.distance = 0 /\ g.value = v /\ g.new_hash_map = n
    OBVIOUS
  <2>8. g = [i |-> g.i, distance |-> g.distance, value |-> g.value,
             new_hash_map |-> g.new_hash_map]
    OBVIOUS
  <2> HIDE DEF g
  <2>9. g.i \in 0 .. hash_map.capacity /\ 0 .. g.distance - 1 = {}
    BY <2>2, <2>7
  <2>10. /\ g.new_hash_map.capacity >= 2
         /\ g.new_hash_map.capacity >= 2 * hash_map.capacity
         /\ Cardinality(FullSlots(g.new_hash_map)) <= g.new_hash_map.len
         /\ Cardinality(FullSlots(g.new_hash_map)) <= g.i
    BY <2>3, <2>4, <2>7
  <2>11. /\ Map(g.new_hash_map) /\ AllReached(hash, g.new_hash_map)
         /\ FullSlots(g.new_hash_map) = {} /\ g.distance \in Distances(g.new_hash_map)
         /\ g.value \in Values
    BY <2>4, <2>5, <2>7
  <2>12. Growing(hash, hash_map, e, g)
    BY ONLY <1>3, <2>6, <2>7, <2>8, <2>9, <2>10, <2>11 DEF Growing
  <2>13. QED
    BY <1>1, <2>1, <2>12 DEF IInv
<1>4. QED
  BY <1>2, <1>3

LEMMA RemoveStep ==
    ASSUME IInv, Idle, NEW e, GoodHandle(hash, hash_map, e), RemoveThrough(e)
    PROVE  IInv'
<1>1. hash \in Hash /\ hash' = hash /\ entry' = e /\ phase = "idle" /\ phase' = phase
  BY HashIsHash DEF IInv, RemoveThrough, Idle
<1>2. CASE Removes(e)
  <2>1. /\ e.has_slot /\ IsFull(hash_map.slots[e.slot_index])
        /\ hash_map' = Removed(hash_map, e.slot_index)
    BY <1>2 DEF RemoveThrough, Removes
  <2>2. Sound(hash, hash_map') /\ GoodHandle(hash, hash_map', e)
    BY <1>1, <2>1, RemoveFromSlot DEF IInv
  <2>3. QED
    BY <1>1, <2>2 DEF IInv
<1>3. CASE ~Removes(e)
  <2>1. hash_map' = hash_map
    BY <1>3 DEF RemoveThrough
  <2>2. QED
    BY <1>1, <2>1 DEF IInv
<1>4. QED
  BY <1>2, <1>3

-----------------------------------------------------------------------------
(* Steps of a growing map.                                                 *)

(* A key on the move is in no slot yet, and may be placed where the probe  *)
(* is, if that is free.                                                    *)
LEMMA MovedFacts ==
    ASSUME IInv, Moving
    PROVE  /\ hash \in Hash
           /\ MovedKey \in Keys /\ MovedValue \in Values
           /\ MovedKey = Moved(hash_map, entry, growing)
           /\ Absent(growing.new_hash_map, MovedKey)
           /\ Index(growing.new_hash_map, MovedKey, growing.distance)
                 \in DOMAIN growing.new_hash_map.slots
           /\ Reaches(hash, growing.new_hash_map, MovedKey,
                      Index(growing.new_hash_map, MovedKey, growing.distance))
<1> DEFINE n == growing.new_hash_map
           k == MovedKey
<1>1. /\ hash \in Hash /\ Sound(hash, hash_map) /\ Map(hash_map)
      /\ GoodHandle(hash, hash_map, entry) /\ Growing(hash, hash_map, entry, growing)
  BY HashIsHash DEF IInv, Moving, Sound
<1>2. hash_map.capacity \in Nat /\ growing.i \in 0 .. hash_map.capacity /\ Map(n)
  BY <1>1, MapFacts DEF Growing
<1>3. /\ k \in Keys /\ MovedValue \in Values
      /\ k = Moved(hash_map, entry, growing)
      /\ \A l \in 0 .. growing.i - 1 : ~Holds(hash_map.slots[l], k)
  <2>1. CASE SlotsLeft
    <3>1. /\ growing.i \in DOMAIN hash_map.slots /\ IsFull(hash_map.slots[growing.i])
          /\ growing.i < hash_map.capacity
      BY <1>1, <1>2, <2>1, MapFacts DEF SlotsLeft, Moving
    <3>2. k = hash_map.slots[growing.i].key /\ MovedValue = hash_map.slots[growing.i].value
      BY <2>1 DEF MovedKey, MovedValue
    <3>3. k \in Keys /\ MovedValue \in Values
      BY <1>1, <3>1, <3>2, MapFacts, SlotFacts
    <3>4. Holds(hash_map.slots[growing.i], k) /\ Reaches(hash, hash_map, k, growing.i)
      BY <1>1, <3>1, <3>2 DEF Holds, Sound, AllReached, FullSlots
    <3> HIDE DEF k
    <3>5. ASSUME NEW l \in 0 .. growing.i - 1, Holds(hash_map.slots[l], k)
          PROVE  FALSE
      <4>1. l \in DOMAIN hash_map.slots /\ l # growing.i
        BY <1>1, <1>2, MapFacts
      <4>2. Reaches(hash, hash_map, k, l)
        BY <1>1, <3>5, <4>1 DEF Holds, Sound, AllReached, FullSlots
      <4>3. QED
        BY <1>1, <3>3, <3>4, <3>5, <4>1, <4>2, KeyOnce
    <3>6. k = Moved(hash_map, entry, growing)
      BY <3>1, <3>2 DEF Moved
    <3>7. QED
      BY <3>3, <3>5, <3>6
  <2>2. CASE ~SlotsLeft
    <3>1. k = entry.key /\ MovedValue = growing.value /\ k = Moved(hash_map, entry, growing)
      BY <2>2 DEF MovedKey, MovedValue, SlotsLeft, Moved
    <3>2. entry.key \in Keys /\ growing.value \in Values /\ Absent(hash_map, entry.key)
      BY <1>1 DEF GoodHandle, Growing
    <3>3. \A l \in 0 .. growing.i - 1 : l \in DOMAIN hash_map.slots
      BY <1>1, <1>2, MapFacts
    <3> HIDE DEF k
    <3>4. QED
      BY <3>1, <3>2, <3>3 DEF Absent
  <2>3. QED
    BY <2>1, <2>2
<1> HIDE DEF k
<1>4. Absent(n, k)
  <2>1. SUFFICES ASSUME NEW j \in DOMAIN n.slots, Holds(n.slots[j], k) PROVE FALSE
    BY DEF Absent
  <2>2. j \in FullSlots(n) /\ n.slots[j].key = k
    BY <2>1 DEF FullSlots, Holds
  <2>3. PICK l \in 0 .. growing.i - 1 : Holds(hash_map.slots[l], k)
    BY <1>1, <2>2 DEF Growing
  <2>4. QED
    BY <1>3, <2>3
<1>5. /\ growing.distance \in Distances(n)
      /\ \A d \in 0 .. growing.distance - 1 : IsFull(n.slots[Place(hash, n, k, d)])
  BY <1>1, <1>3 DEF Growing
<1>6. Index(n, k, growing.distance) = Place(hash, n, k, growing.distance)
  BY DEF Index, Place
<1> HIDE DEF n
<1>7. growing.distance \in Nat /\ n.capacity # 0
  BY <1>2, <1>5, MapFacts DEF Distances
<1>8. Index(n, k, growing.distance) \in DOMAIN n.slots
  BY <1>1, <1>2, <1>3, <1>6, <1>7, PlaceInside
<1>9. Leads(hash, n, k, growing.distance)
  <2>1. SUFFICES ASSUME NEW d \in 0 .. growing.distance - 1
                 PROVE  ~Stops(n.slots[Place(hash, n, k, d)], k)
    BY DEF Leads
  <2>2. d \in Nat
    BY <1>7
  <2>3. Place(hash, n, k, d) \in DOMAIN n.slots
    BY <1>1, <1>2, <1>3, <1>7, <2>2, PlaceInside
  <2>4. IsFull(n.slots[Place(hash, n, k, d)])
    BY <1>5
  <2>5. n.slots[Place(hash, n, k, d)] # Empty
    BY <2>4 DEF IsFull, Empty
  <2>6. QED
    BY <1>4, <2>3, <2>5 DEF Stops, Absent
<1>10. Reaches(hash, n, k, Index(n, k, growing.distance))
  BY <1>5, <1>6, <1>9 DEF Reaches
<1>11. QED
  BY <1>1, <1>3, <1>4, <1>8, <1>10 DEF n, k

LEMMA CopyingFacts ==
    ASSUME IInv, phase = "copying"
    PROVE  /\ hash \in Hash /\ Sound(hash, hash_map) /\ Map(hash_map)
           /\ GoodHandle(hash, hash_map, entry) /\ Growing(hash, hash_map, entry, growing)
           /\ hash_map.capacity \in Nat /\ growing.i \in 0 .. hash_map.capacity
           /\ Map(growing.new_hash_map) /\ growing.new_hash_map.capacity \in Nat \ {0, 1}
           /\ Cardinality(FullSlots(growing.new_hash_map)) \in Nat
           /\ growing = [i |-> growing.i, distance |-> growing.distance,
                         value |-> growing.value, new_hash_map |-> growing.new_hash_map]
<1>1. /\ hash \in Hash /\ Sound(hash, hash_map) /\ Map(hash_map)
      /\ GoodHandle(hash, hash_map, entry) /\ Growing(hash, hash_map, entry, growing)
  BY HashIsHash DEF IInv, Sound
<1>2. /\ Map(growing.new_hash_map) /\ growing.new_hash_map.capacity >= 2
      /\ growing.i \in 0 .. hash_map.capacity
      /\ growing = [i |-> growing.i, distance |-> growing.distance,
                    value |-> growing.value, new_hash_map |-> growing.new_hash_map]
  BY <1>1 DEF Growing
<1>3. hash_map.capacity \in Nat /\ growing.new_hash_map.capacity \in Nat \ {0, 1}
  BY <1>1, <1>2, MapFacts
<1>4. QED
  BY <1>1, <1>2, <1>3, FullFinite

LEMMA CopySkipStep ==
    ASSUME IInv, CopySkip
    PROVE  IInv'
<1> DEFINE g == growing'
           n == growing.new_hash_map
<1>1. /\ phase = "copying" /\ growing.i < hash_map.capacity
      /\ ~IsFull(hash_map.slots[growing.i])
      /\ growing' = [growing EXCEPT !.i = growing.i + 1]
      /\ UNCHANGED <<hash, hash_map, entry, phase>>
  BY DEF CopySkip, SlotsLeft
<1>2. /\ g.i = growing.i + 1 /\ g.distance = growing.distance /\ g.value = growing.value
      /\ g.new_hash_map = n
      /\ g = [i |-> g.i, distance |-> g.distance, value |-> g.value,
              new_hash_map |-> g.new_hash_map]
  BY <1>1, CopyingFacts
<1>3. growing.distance = 0
  BY <1>1, CopyingFacts DEF Growing
<1> HIDE DEF g
<1>4. /\ g.i \in 0 .. hash_map.capacity
      /\ 0 .. growing.i - 1 \subseteq 0 .. g.i - 1
      /\ 0 .. g.distance - 1 = {}
      /\ \A x \in Nat : x <= growing.i => x <= g.i
  BY <1>1, <1>2, <1>3, CopyingFacts
<1>5. Cardinality(FullSlots(n)) <= g.i
  BY <1>1, <1>4, CopyingFacts DEF Growing
<1>6. ASSUME NEW j \in FullSlots(n)
      PROVE  \E l \in 0 .. g.i - 1 : Holds(hash_map.slots[l], n.slots[j].key)
  BY <1>1, <1>4, CopyingFacts DEF Growing
<1>7. Growing(hash, hash_map, entry, g)
  <2>1. Growing(hash, hash_map, entry, growing)
    BY <1>1, CopyingFacts
  <2>2. QED
    BY ONLY <1>2, <1>3, <1>4, <1>5, <1>6, <2>1 DEF Growing, n
<1>8. QED
  BY <1>1, <1>7, CopyingFacts DEF IInv, g

LEMMA CopyProbeStep ==
    ASSUME IInv, CopyProbe
    PROVE  IInv'
<1> DEFINE g == growing'
           n == growing.new_hash_map
           d == growing.distance
           c == n.capacity
           k == Moved(hash_map, entry, growing)
<1>1. /\ phase = "copying" /\ Moving
      /\ IsFull(n.slots[Index(n, MovedKey, d)])
      /\ growing' = [growing EXCEPT !.distance = (d + 1) % c]
      /\ UNCHANGED <<hash, hash_map, entry, phase>>
  BY DEF CopyProbe, Moving, Taken, Slot
<1>2. /\ g.i = growing.i /\ g.distance = (d + 1) % c /\ g.value = growing.value
      /\ g.new_hash_map = n
      /\ g = [i |-> g.i, distance |-> g.distance, value |-> g.value,
              new_hash_map |-> g.new_hash_map]
  BY <1>1, CopyingFacts
<1>3. c \in Nat \ {0, 1} /\ d \in 0 .. c - 1
  BY <1>1, CopyingFacts DEF Growing, Distances
<1>4. IsFull(n.slots[Place(hash, n, k, d)])
  BY <1>1, MovedFacts DEF Place, Index
<1>5. \A e \in 0 .. d - 1 : IsFull(n.slots[Place(hash, n, k, e)])
  BY <1>1, CopyingFacts DEF Growing
<1>6. k = Moved(hash_map, entry, g)
  BY <1>2 DEF Moved
<1>7. ~(growing.i < hash_map.capacity /\ ~IsFull(hash_map.slots[growing.i]))
  BY <1>1 DEF Moving, SlotsLeft
<1> HIDE DEF g, k
<1>8. g.distance \in 0 .. c - 1 /\ \A e \in 0 .. g.distance - 1 : e \in 0 .. d
  <2>1. CASE d = c - 1
    <3>1. (d + 1) % c = 0
      BY <1>3, <2>1
    <3>2. QED
      BY <1>2, <1>3, <3>1
  <2>2. CASE d # c - 1
    <3>1. (d + 1) % c = d + 1
      BY <1>3, <2>2
    <3>2. QED
      BY <1>2, <1>3, <2>2, <3>1
  <2>3. QED
    BY <2>1, <2>2
<1>9. \A e \in 0 .. g.distance - 1 : IsFull(n.slots[Place(hash, n, k, e)])
  <2>1. \A e \in 0 .. d : e = d \/ e \in 0 .. d - 1
    BY <1>3
  <2>2. QED
    BY <1>4, <1>5, <1>8, <2>1
<1>10. g.distance \in Distances(n)
  BY <1>8 DEF Distances
<1>11. Growing(hash, hash_map, entry, g)
  <2>1. Growing(hash, hash_map, entry, growing)
    BY <1>1, CopyingFacts
  <2>2. QED
    BY ONLY <1>2, <1>6, <1>7, <1>9, <1>10, <2>1 DEF Growing, n
<1>12. QED
  BY <1>1, <1>11, CopyingFacts DEF IInv, g

(* The map that insert_in_empty_slot leaves, one key larger.               *)
LEMMA PlacedFacts ==
    ASSUME IInv, Moving, ~Taken
    PROVE  LET n == growing.new_hash_map
               p == Index(n, MovedKey, growing.distance)
           IN  /\ Map(InsertInEmptySlot)
               /\ InsertInEmptySlot.capacity = n.capacity
               /\ InsertInEmptySlot.len = n.len + 1
               /\ AllReached(hash, InsertInEmptySlot)
               /\ Cardinality(FullSlots(InsertInEmptySlot)) = Cardinality(FullSlots(n)) + 1
               /\ p \in DOMAIN InsertInEmptySlot.slots
               /\ InsertInEmptySlot.slots[p] = Full(MovedKey, MovedValue)
               /\ Reaches(hash, InsertInEmptySlot, MovedKey, p)
               /\ \A j \in FullSlots(InsertInEmptySlot) :
                     j = p \/ (j \in FullSlots(n) /\ InsertInEmptySlot.slots[j] = n.slots[j])
               /\ DOMAIN InsertInEmptySlot.slots = DOMAIN n.slots
               /\ \A j \in DOMAIN n.slots \ {p} : InsertInEmptySlot.slots[j] = n.slots[j]
<1> DEFINE n == growing.new_hash_map
           p == Index(n, MovedKey, growing.distance)
           new == InsertInEmptySlot
           x == Full(MovedKey, MovedValue)
<1>1. /\ Map(n) /\ AllReached(hash, n) /\ hash \in Hash
  BY CopyingFacts DEF Moving, Growing
<1>2. /\ MovedKey \in Keys /\ MovedValue \in Values /\ Absent(n, MovedKey)
      /\ p \in DOMAIN n.slots /\ Reaches(hash, n, MovedKey, p)
  BY MovedFacts
<1>3. ~IsFull(n.slots[p])
  BY DEF Taken, Slot
<1>4. x \in SlotType
  BY <1>2, FullFacts
<1>5. new = [n EXCEPT !.slots[p] = x, !.len = n.len + 1]
  BY DEF InsertInEmptySlot
<1> HIDE DEF n, p, new, x
<1>6. n = [slots |-> n.slots, len |-> n.len, capacity |-> n.capacity]
  BY <1>1 DEF Map
<1>7. new = [slots |-> [n.slots EXCEPT ![p] = x], len |-> n.len + 1, capacity |-> n.capacity]
  BY <1>5, <1>6, RecordChange
<1>8. n.len + 1 \in Nat
  BY <1>1, MapFacts
<1>9. /\ Map(new) /\ new.slots = [n.slots EXCEPT ![p] = x]
      /\ new.len = n.len + 1 /\ new.capacity = n.capacity
      /\ DOMAIN new.slots = DOMAIN n.slots
      /\ new.slots[p] = x
      /\ \A j \in DOMAIN n.slots \ {p} : new.slots[j] = n.slots[j]
  BY <1>1, <1>2, <1>4, <1>7, <1>8, ChangedMap
<1>10. /\ AllReached(hash, new) /\ Reaches(hash, new, MovedKey, p)
       /\ Cardinality(FullSlots(new)) = Cardinality(FullSlots(n)) + 1
  BY <1>1, <1>2, <1>3, <1>9, Put DEF x
<1>11. \A j \in FullSlots(new) : j = p \/ (j \in FullSlots(n) /\ new.slots[j] = n.slots[j])
  BY <1>9 DEF FullSlots
<1>12. QED
  BY <1>2, <1>9, <1>10, <1>11 DEF n, p, new, x

LEMMA CopyPlaceStep ==
    ASSUME IInv, CopyPlace
    PROVE  IInv'
<1> DEFINE g == growing'
           n == growing.new_hash_map
           new == InsertInEmptySlot
           p == Index(n, MovedKey, growing.distance)
<1>1. /\ phase = "copying" /\ Moving /\ ~Taken /\ SlotsLeft
      /\ growing.i < hash_map.capacity
      /\ growing' = [growing EXCEPT !.new_hash_map = new, !.i = growing.i + 1, !.distance = 0]
      /\ UNCHANGED <<hash, hash_map, entry, phase>>
  BY DEF CopyPlace, Moving, SlotsLeft
<1>2. /\ Map(new) /\ new.capacity = n.capacity /\ new.len = n.len + 1
      /\ AllReached(hash, new)
      /\ Cardinality(FullSlots(new)) = Cardinality(FullSlots(n)) + 1
      /\ new.slots[p].key = MovedKey
      /\ \A j \in FullSlots(new) :
            j = p \/ (j \in FullSlots(n) /\ new.slots[j] = n.slots[j])
  BY <1>1, PlacedFacts, MovedFacts, FullFacts
<1>3. IsFull(hash_map.slots[growing.i]) /\ MovedKey = hash_map.slots[growing.i].key
  BY <1>1 DEF Moving, MovedKey
<1>4. Holds(hash_map.slots[growing.i], MovedKey)
  BY <1>3 DEF Holds
<1> HIDE DEF new, p
<1>5. /\ g.i = growing.i + 1 /\ g.distance = 0 /\ g.value = growing.value
      /\ g.new_hash_map = new
      /\ g = [i |-> g.i, distance |-> g.distance, value |-> g.value,
              new_hash_map |-> g.new_hash_map]
  BY <1>1, CopyingFacts
<1> HIDE DEF g
<1>6. /\ g.i \in 0 .. hash_map.capacity
      /\ 0 .. growing.i - 1 \subseteq 0 .. g.i - 1 /\ growing.i \in 0 .. g.i - 1
      /\ 0 .. g.distance - 1 = {}
      /\ g.distance \in 0 .. n.capacity - 1
  BY <1>1, <1>5, CopyingFacts
<1>7. /\ Growing(hash, hash_map, entry, growing) /\ Map(n)
      /\ Cardinality(FullSlots(n)) \in Nat /\ growing.i \in Nat
      /\ hash \in Hash
  BY <1>1, CopyingFacts
<1>8. Cardinality(FullSlots(new)) <= g.i /\ Cardinality(FullSlots(new)) <= new.len
  <2>1. Cardinality(FullSlots(n)) <= growing.i /\ Cardinality(FullSlots(n)) <= n.len
    BY <1>7 DEF Growing
  <2>2. n.len \in Nat
    BY <1>7, MapFacts
  <2>3. QED
    BY <1>2, <1>5, <1>7, <2>1, <2>2
<1>9. ASSUME NEW j \in FullSlots(new)
      PROVE  \E l \in 0 .. g.i - 1 : Holds(hash_map.slots[l], new.slots[j].key)
  <2>1. CASE j = p
    BY <1>2, <1>4, <1>6, <2>1
  <2>2. CASE j \in FullSlots(n) /\ new.slots[j] = n.slots[j]
    <3>1. PICK l \in 0 .. growing.i - 1 : Holds(hash_map.slots[l], n.slots[j].key)
      BY <1>7, <2>2 DEF Growing
    <3>2. QED
      BY <1>6, <2>2, <3>1
  <2>3. QED
    BY <1>2, <2>1, <2>2
<1>10. /\ new.capacity >= 2 /\ new.capacity >= 2 * hash_map.capacity
       /\ growing.value \in Values /\ entry.made /\ ~entry.has_slot
  BY <1>2, <1>7 DEF Growing
<1>11. g.distance \in Distances(new)
  BY <1>2, <1>6 DEF Distances
<1>12. Growing(hash, hash_map, entry, g)
  BY ONLY <1>2, <1>5, <1>6, <1>8, <1>9, <1>10, <1>11 DEF Growing
<1>13. QED
  BY <1>1, <1>12, CopyingFacts DEF IInv, g

LEMMA CopyEndStep ==
    ASSUME IInv, CopyEnd
    PROVE  IInv'
<1> DEFINE n == growing.new_hash_map
           new == InsertInEmptySlot
           p == Index(n, MovedKey, growing.distance)
<1>1. /\ phase = "copying" /\ Moving /\ ~Taken /\ ~(growing.i < hash_map.capacity)
      /\ MovedKey = entry.key
      /\ hash_map' = new /\ entry' = Handle(entry.key, growing.distance, n)
      /\ phase' = "idle" /\ hash' = hash
  BY DEF CopyEnd, Moving, SlotsLeft, MovedKey, GrownHandle
<1>2. /\ Map(new) /\ new.capacity = n.capacity /\ new.len = n.len + 1
      /\ AllReached(hash, new)
      /\ Cardinality(FullSlots(new)) = Cardinality(FullSlots(n)) + 1
      /\ p \in DOMAIN new.slots
      /\ IsFull(new.slots[p]) /\ new.slots[p].key = MovedKey
      /\ Reaches(hash, new, MovedKey, p)
  BY <1>1, PlacedFacts, MovedFacts, FullFacts
<1>3. MovedKey \in Keys /\ hash \in Hash
  BY <1>1, MovedFacts
<1>4. entry' = [made |-> TRUE, key |-> MovedKey, has_slot |-> TRUE, slot_index |-> p]
  BY <1>1 DEF Handle
<1> HIDE DEF new, p
<1>5. /\ Growing(hash, hash_map, entry, growing) /\ Map(n)
      /\ Cardinality(FullSlots(n)) \in Nat /\ growing.i \in 0 .. hash_map.capacity
      /\ hash_map.capacity \in Nat /\ hash_map.capacity # 1
      /\ n.capacity \in Nat \ {0, 1}
  BY <1>1, CopyingFacts DEF Sound
<1>6. /\ Cardinality(FullSlots(n)) <= growing.i /\ Cardinality(FullSlots(n)) <= n.len
      /\ n.capacity >= 2 * hash_map.capacity
  BY <1>5 DEF Growing
<1>7. n.len \in Nat
  BY <1>5, MapFacts
<1>8. Cardinality(FullSlots(new)) < new.capacity /\ Cardinality(FullSlots(new)) <= new.len
  BY <1>1, <1>2, <1>5, <1>6, <1>7
<1>9. Sound(hash, new)
  BY <1>2, <1>5, <1>8, FreeSlot DEF Sound
<1>10. GoodHandle(hash, new, entry')
  BY <1>2, <1>3, <1>4 DEF GoodHandle
<1>11. QED
  BY <1>1, <1>9, <1>10 DEF IInv

-----------------------------------------------------------------------------
(* The invariant of the map, its handles and its growth.                   *)
THEOREM Invariant == Spec => []IInv
<1>1. IInv /\ [Next]_vars => IInv'
  <2> SUFFICES ASSUME IInv, [Next]_vars PROVE IInv'
    OBVIOUS
  <2>1. entry.made => GoodHandle(hash, hash_map, entry)
    BY DEF IInv, NoEntry
  <2>2. \A k \in Keys : GoodHandle(hash, hash_map, EntryOf(hash_map, k))
    BY HashIsHash, EntryGood DEF IInv
  <2>3. ASSUME NEW k \in Keys, Get(k) \/ GetMut(k) PROVE IInv'
    BY <2>3, LookupStep DEF Get, GetMut
  <2>4. ASSUME EntryGet PROVE IInv'
    BY <2>4, LookupStep DEF EntryGet
  <2>5. ASSUME NEW k \in Keys, Entry(k) PROVE IInv'
    BY <2>2, <2>5 DEF Entry, Idle, IInv
  <2>6. ASSUME NEW k \in Keys, NEW v \in Values, Insert(k, v) PROVE IInv'
    BY <2>2, <2>6, InsertStep DEF Insert
  <2>7. ASSUME NEW v \in Values, EntryInsert(v) PROVE IInv'
    BY <2>1, <2>7, InsertStep DEF EntryInsert
  <2>8. ASSUME NEW k \in Keys, RemoveKey(k) PROVE IInv'
    BY <2>2, <2>8, RemoveStep DEF RemoveKey
  <2>9. ASSUME EntryRemove PROVE IInv'
    BY <2>1, <2>9, RemoveStep DEF EntryRemove
  <2>10. ASSUME Free PROVE IInv'
    BY <2>10 DEF Free, Idle, IInv
  <2>11. ASSUME Grows PROVE IInv'
    BY <2>11, CopySkipStep, CopyProbeStep, CopyPlaceStep, CopyEndStep DEF Grows
  <2>12. ASSUME UNCHANGED vars PROVE IInv'
    BY <2>12 DEF vars, IInv
  <2>13. QED
    BY <2>3, <2>4, <2>5, <2>6, <2>7, <2>8, <2>9, <2>10, <2>11, <2>12 DEF Next
<1>2. QED
  BY <1>1, InitOK, PTL DEF Spec
-----------------------------------------------------------------------------
(* What it says of lookups.                                                *)

LEMMA ReachedIsFound ==
    ASSUME hash \in Hash, NEW m, Map(m), AllReached(hash, m)
    PROVE  Findable(m)
<1> SUFFICES ASSUME NEW i \in FullSlots(m)
             PROVE  /\ FoundAt(m, m.slots[i].key) # {}
                    /\ Index(m, m.slots[i].key, Nearest(FoundAt(m, m.slots[i].key))) = i
  BY DEF Findable
<1> DEFINE k == m.slots[i].key
           D == FoundAt(m, k)
<1>1. k \in Keys /\ Reaches(hash, m, k, i) /\ Holds(m.slots[i], k)
  BY MapFacts, SlotFacts DEF FullSlots, AllReached, Holds
<1> HIDE DEF k
<1>2. PICK d \in Distances(m) : Place(hash, m, k, d) = i /\ Leads(hash, m, k, d)
  BY <1>1 DEF Reaches
<1>3. d \in D
  BY <1>1, <1>2 DEF FoundAt, Probed, Leads, Slot, Index, Place
<1>4. D \subseteq Nat
  BY <1>1, ProbedFacts DEF FoundAt
<1> DEFINE near == Nearest(D)
<1>5. near \in Probed(m, k) /\ Holds(Slot(m, k, near), k)
  <2>1. near \in D
    BY <1>3, <1>4, NearestIsOne
  <2> HIDE DEF near
  <2>2. QED
    BY <2>1 DEF FoundAt
<1> HIDE DEF near
<1>6. Reaches(hash, m, k, Index(m, k, near)) /\ Holds(m.slots[Index(m, k, near)], k)
  BY <1>1, <1>5, ProbedFacts
<1>7. Index(m, k, near) = i
  BY <1>1, <1>6, KeyOnce
<1>8. QED
  BY <1>3, <1>7 DEF near, k

LEMMA AbsentIsNotFound ==
    ASSUME hash \in Hash, NEW m, Map(m), NEW k \in Keys, Absent(m, k)
    PROVE  FoundAt(m, k) = {}
<1>1. SUFFICES ASSUME NEW d \in FoundAt(m, k) PROVE FALSE
  OBVIOUS
<1>2. d \in Probed(m, k) /\ Holds(Slot(m, k, d), k)
  BY DEF FoundAt
<1>3. QED
  BY <1>2, ProbedFacts DEF Absent

LEMMA GoodHandleIsGood ==
    ASSUME hash \in Hash, NEW m, Map(m), NEW e, GoodHandle(hash, m, e), e.has_slot
    PROVE  \/ Holds(m.slots[e.slot_index], e.key)
           \/ /\ ~IsFull(m.slots[e.slot_index])
              /\ FoundAt(m, e.key) = {}
              /\ \E d \in FreeAt(m, e.key) : Index(m, e.key, d) = e.slot_index
<1>1. CASE IsFull(m.slots[e.slot_index])
  BY <1>1 DEF GoodHandle, Holds
<1>2. CASE ~IsFull(m.slots[e.slot_index])
  <2>1. e.key \in Keys /\ Absent(m, e.key) /\ Reaches(hash, m, e.key, e.slot_index)
    BY <1>2 DEF GoodHandle
  <2>2. PICK d \in Distances(m) :
           Place(hash, m, e.key, d) = e.slot_index /\ Leads(hash, m, e.key, d)
    BY <2>1 DEF Reaches
  <2>3. d \in FreeAt(m, e.key) /\ Index(m, e.key, d) = e.slot_index
    BY <1>2, <2>2 DEF FreeAt, Probed, Leads, Slot, Index, Place
  <2>4. QED
    BY <1>2, <2>1, <2>3, AbsentIsNotFound
<1>3. QED
  BY <1>1, <1>2

-----------------------------------------------------------------------------
(* Every key in a slot is where a lookup finds it, in the map and in the   *)
(* one it is copied to: hash_map_get never misses a key for a tombstone, a *)
(* probe that wraps, or a growth.                                          *)
THEOREM KeysStayFindable == Spec => []KeysAreFindable
<1>1. IInv => KeysAreFindable
  <2> SUFFICES ASSUME IInv PROVE KeysAreFindable
    OBVIOUS
  <2>1. Findable(hash_map)
    BY HashIsHash, ReachedIsFound DEF IInv, Sound
  <2>2. phase = "copying" => Findable(growing.new_hash_map)
    BY CopyingFacts, ReachedIsFound DEF Growing
  <2>3. QED
    BY <2>1, <2>2 DEF KeysAreFindable
<1>2. QED
  BY <1>1, Invariant, PTL

(* A slot of either buffer is not full, so the loop of insert_in_empty_slot*)
(* has where to end, and len, which hash_map_get compares with 0, is at    *)
(* least the number of keys.                                               *)
THEOREM ThereIsRoom == Spec => []AlwaysRoom
<1>1. IInv => AlwaysRoom
  <2> SUFFICES ASSUME IInv PROVE AlwaysRoom
    OBVIOUS
  <2>1. HasRoom(hash_map)
    BY DEF IInv, Sound, HasRoom, FullSlots
  <2>2. ASSUME phase = "copying" PROVE HasRoom(growing.new_hash_map)
    <3> DEFINE n == growing.new_hash_map
    <3>1. /\ Cardinality(FullSlots(n)) <= n.len /\ Cardinality(FullSlots(n)) <= growing.i
          /\ n.capacity >= 2 * hash_map.capacity
          /\ hash_map.capacity \in Nat /\ growing.i \in 0 .. hash_map.capacity
          /\ n.capacity \in Nat \ {0, 1} /\ Cardinality(FullSlots(n)) \in Nat
          /\ Map(n)
      BY <2>2, CopyingFacts DEF Growing
    <3> HIDE DEF n
    <3>2. Cardinality(FullSlots(n)) < n.capacity
      BY <3>1
    <3>3. \E j \in DOMAIN n.slots : ~IsFull(n.slots[j])
      BY <3>1, <3>2, FreeSlot
    <3>4. QED
      BY <3>1, <3>3 DEF HasRoom, FullSlots, n
  <2>3. QED
    BY <2>1, <2>2 DEF AlwaysRoom
<1>2. QED
  BY <1>1, Invariant, PTL

(* A handle with a slot designates its key's slot, or, if the key is not   *)
(* in the map, one a probe for it may take: HashMapEntry stays good through*)
(* the insertions and removals made with it.                               *)
THEOREM HandlesAreGood == Spec => []HandleIsGood
<1>1. IInv => HandleIsGood
  <2> SUFFICES ASSUME IInv, entry.made, entry.has_slot
               PROVE  \/ Holds(hash_map.slots[entry.slot_index], entry.key)
                      \/ /\ ~IsFull(hash_map.slots[entry.slot_index])
                         /\ FoundAt(hash_map, entry.key) = {}
                         /\ \E d \in FreeAt(hash_map, entry.key) :
                               Index(hash_map, entry.key, d) = entry.slot_index
    BY DEF HandleIsGood
  <2>1. hash \in Hash /\ Map(hash_map)
    BY HashIsHash DEF IInv, Sound
  <2>2. GoodHandle(hash, hash_map, entry)
    BY DEF IInv, NoEntry
  <2>3. QED
    BY <2>1, <2>2, GoodHandleIsGood
<1>2. QED
  BY <1>1, Invariant, PTL

(* The state has its type: slots inside both buffers for the handle and    *)
(* the copy, a handle without a slot while the map grows.                  *)
THEOREM TypeCorrect == Spec => []TypeOK
<1>1. IInv => TypeOK
  <2> SUFFICES ASSUME IInv PROVE TypeOK
    OBVIOUS
  <2>1. entry.made => /\ entry.key \in Keys
                      /\ entry.has_slot => entry.slot_index \in DOMAIN hash_map.slots
    BY DEF IInv, NoEntry, GoodHandle
  <2>2. phase = "copying" =>
           /\ entry.made /\ ~entry.has_slot
           /\ growing.i \in 0 .. hash_map.capacity
           /\ IsMap(growing.new_hash_map)
           /\ growing.distance \in Distances(growing.new_hash_map)
           /\ growing.value \in Values
    BY CopyingFacts DEF Growing, Map
  <2>3. QED
    BY <2>1, <2>2 DEF IInv, Sound, Map, TypeOK
<1>2. QED
  BY <1>1, Invariant, PTL

-----------------------------------------------------------------------------
(***************************************************************************)
(* The hash map implements the dictionary of module Dictionary: a step is  *)
(* one of the dictionary's or leaves it as it is.                          *)
(***************************************************************************)

(* The value of a key in a map, as DictOf has it.                          *)
SlotsOf(m, k) == {i \in FullSlots(m) : m.slots[i].key = k}

ValueOf(m, k) ==
    IF SlotsOf(m, k) = {} THEN Missing ELSE Value(m.slots[Nearest(SlotsOf(m, k))].value)

LEMMA HeldValue ==
    ASSUME NEW h \in Hash, NEW m, Map(m), AllReached(h, m), NEW k \in Keys,
           NEW i \in DOMAIN m.slots, Holds(m.slots[i], k)
    PROVE  ValueOf(m, k) = Value(m.slots[i].value)
<1>1. i \in SlotsOf(m, k)
  BY DEF SlotsOf, FullSlots, Holds
<1>2. ASSUME NEW j \in SlotsOf(m, k) PROVE j = i
  <2>1. /\ Holds(m.slots[j], k) /\ j \in FullSlots(m) /\ i \in FullSlots(m)
        /\ m.slots[i].key = k /\ m.slots[j].key = k
    BY <1>1 DEF SlotsOf, FullSlots, Holds
  <2>2. Reaches(h, m, k, j) /\ Reaches(h, m, k, i)
    BY <2>1 DEF AllReached
  <2>3. QED
    BY <2>1, <2>2, KeyOnce
<1>3. SlotsOf(m, k) \subseteq Nat
  BY MapFacts DEF SlotsOf, FullSlots
<1>4. Nearest(SlotsOf(m, k)) \in SlotsOf(m, k)
  BY <1>1, <1>3, NearestIsOne
<1>5. Nearest(SlotsOf(m, k)) = i
  BY <1>2, <1>4
<1>6. QED
  BY <1>1, <1>5 DEF ValueOf

LEMMA AbsentValue ==
    ASSUME NEW m, NEW k, Absent(m, k)
    PROVE  ValueOf(m, k) = Missing
BY DEF ValueOf, SlotsOf, FullSlots, Absent, Holds

(* Two maps that hold the same slots of a key have the same value for it.  *)
LEMMA SameValue ==
    ASSUME NEW h \in Hash, NEW k \in Keys,
           NEW m, Map(m), AllReached(h, m), NEW n, Map(n), AllReached(h, n),
           \A j \in DOMAIN n.slots :
              Holds(n.slots[j], k) => \E l \in DOMAIN m.slots : m.slots[l] = n.slots[j],
           \A l \in DOMAIN m.slots :
              Holds(m.slots[l], k) => \E j \in DOMAIN n.slots : n.slots[j] = m.slots[l]
    PROVE  ValueOf(n, k) = ValueOf(m, k)
<1>1. CASE Absent(m, k)
  <2>1. Absent(n, k)
    BY <1>1 DEF Absent
  <2>2. QED
    BY <1>1, <2>1, AbsentValue
<1>2. CASE ~Absent(m, k)
  <2>1. PICK l \in DOMAIN m.slots : Holds(m.slots[l], k)
    BY <1>2 DEF Absent
  <2>2. PICK j \in DOMAIN n.slots : n.slots[j] = m.slots[l]
    BY <2>1
  <2>3. Holds(n.slots[j], k)
    BY <2>1, <2>2
  <2>4. QED
    BY <2>1, <2>2, <2>3, HeldValue
<1>3. QED
  BY <1>1, <1>2

-----------------------------------------------------------------------------
(* Lookups.                                                                *)

LEMMA GetAnswers ==
    ASSUME hash \in Hash, NEW m, Sound(hash, m), NEW k \in Keys
    PROVE  get(m, k) = ValueOf(m, k)
<1>1. Map(m) /\ AllReached(hash, m) /\ Cardinality(FullSlots(m)) <= m.len
  BY DEF Sound
<1>2. CASE m.len = 0
  <2>1. FullSlots(m) = {}
    BY <1>1, <1>2, FullFinite, FS_EmptySet
  <2>2. QED
    BY <1>2, <2>1 DEF get, ValueOf, SlotsOf
<1>3. CASE m.len # 0 /\ FoundAt(m, k) = {}
  BY <1>1, <1>3, NotFoundIsAbsent, AbsentValue DEF get
<1>4. CASE m.len # 0 /\ FoundAt(m, k) # {}
  <2> DEFINE d == Nearest(FoundAt(m, k))
  <2>1. FoundAt(m, k) \subseteq Nat
    BY <1>1, ProbedFacts DEF FoundAt
  <2>2. d \in FoundAt(m, k) /\ get(m, k) = Value(Slot(m, k, d).value)
    BY <1>4, <2>1, NearestIsOne DEF get
  <2> HIDE DEF d
  <2>3. /\ Index(m, k, d) \in DOMAIN m.slots
        /\ Slot(m, k, d) = m.slots[Index(m, k, d)]
        /\ Holds(m.slots[Index(m, k, d)], k)
    BY <1>1, <2>2, ProbedFacts DEF FoundAt
  <2>4. QED
    BY <1>1, <2>2, <2>3, HeldValue
<1>5. QED
  BY <1>2, <1>3, <1>4

LEMMA HandleAnswers ==
    ASSUME hash \in Hash, NEW m, Sound(hash, m), NEW e, GoodHandle(hash, m, e)
    PROVE  e.key \in Keys /\ entry_get(m, e) = ValueOf(m, e.key)
<1>1. Map(m) /\ AllReached(hash, m) /\ e.key \in Keys
  BY DEF Sound, GoodHandle
<1>2. CASE e.has_slot /\ IsFull(m.slots[e.slot_index])
  <2>1. e.slot_index \in DOMAIN m.slots /\ Holds(m.slots[e.slot_index], e.key)
    BY <1>2 DEF GoodHandle, Holds
  <2>2. QED
    BY <1>1, <1>2, <2>1, HeldValue DEF entry_get
<1>3. CASE ~(e.has_slot /\ IsFull(m.slots[e.slot_index]))
  <2>1. Absent(m, e.key)
    BY <1>3 DEF GoodHandle
  <2>2. QED
    BY <1>1, <1>3, <2>1, AbsentValue DEF entry_get
<1>4. QED
  BY <1>2, <1>3

-----------------------------------------------------------------------------
(* Changes through a handle.                                               *)

LEMMA InsertPuts ==
    ASSUME hash \in Hash, NEW m, Sound(hash, m), NEW e, GoodHandle(hash, m, e), e.has_slot,
           NEW v \in Values, NEW k \in Keys
    PROVE  ValueOf(Overwritten(m, e, v), k) = IF k = e.key THEN Value(v) ELSE ValueOf(m, k)
<1> DEFINE i == e.slot_index
           n == Overwritten(m, e, v)
<1>1. Map(m) /\ AllReached(hash, m) /\ Map(n) /\ AllReached(hash, n)
  BY InsertInSlot DEF Sound
<1>2. /\ i \in DOMAIN m.slots /\ e.key \in Keys
      /\ IsFull(m.slots[i]) => m.slots[i].key = e.key
  BY DEF GoodHandle
<1>3. /\ DOMAIN n.slots = DOMAIN m.slots
      /\ n.slots[i] = Full(e.key, v)
      /\ \A j \in DOMAIN m.slots \ {i} : n.slots[j] = m.slots[j]
  <2>1. m = [slots |-> m.slots, len |-> m.len, capacity |-> m.capacity]
    BY <1>1 DEF Map
  <2> DEFINE x == IF IsFull(m.slots[i]) THEN [m.slots[i] EXCEPT !.value = v]
                                        ELSE Full(e.key, v)
  <2>2. n = [m EXCEPT !.slots[i] = x, !.len = m.len + 1]
    BY DEF Overwritten
  <2>3. x = Full(e.key, v)
    <3>1. ASSUME IsFull(m.slots[i])
          PROVE  [m.slots[i] EXCEPT !.value = v] = Full(e.key, v)
      <4>1. m.slots[i] = Full(e.key, m.slots[i].value)
        BY <1>1, <1>2, <3>1, MapFacts, SlotFacts
      <4>2. QED
        BY <4>1 DEF Full
    <3>2. QED
      BY <3>1
  <2> HIDE DEF n, x
  <2>4. n = [slots |-> [m.slots EXCEPT ![i] = x], len |-> m.len + 1, capacity |-> m.capacity]
    BY <2>1, <2>2, RecordChange
  <2>5. n.slots = [m.slots EXCEPT ![i] = Full(e.key, v)]
    BY <2>3, <2>4
  <2>6. QED
    BY <1>2, <2>5
<1> HIDE DEF n, i
<1>4. CASE k = e.key
  <2>1. Holds(n.slots[i], k) /\ n.slots[i].value = v
    BY <1>2, <1>3, <1>4, FullFacts DEF Holds
  <2>2. QED
    BY <1>1, <1>2, <1>3, <1>4, <2>1, HeldValue DEF n
<1>5. CASE k # e.key
  <2>1. ~Holds(n.slots[i], k) /\ ~Holds(m.slots[i], k)
    BY <1>2, <1>3, <1>5, FullFacts DEF Holds
  <2>2. ValueOf(n, k) = ValueOf(m, k)
    BY <1>1, <1>3, <2>1, SameValue
  <2>3. QED
    BY <1>5, <2>2 DEF n
<1>6. QED
  BY <1>4, <1>5

LEMMA RemoveRemoves ==
    ASSUME hash \in Hash, NEW m, Sound(hash, m), NEW e, GoodHandle(hash, m, e), e.has_slot,
           IsFull(m.slots[e.slot_index]), NEW k \in Keys
    PROVE  ValueOf(Removed(m, e.slot_index), k) = IF k = e.key THEN Missing ELSE ValueOf(m, k)
<1> DEFINE i == e.slot_index
           n == Removed(m, e.slot_index)
<1>1. Map(m) /\ AllReached(hash, m) /\ Map(n) /\ AllReached(hash, n)
  BY RemoveFromSlot DEF Sound
<1>2. i \in DOMAIN m.slots /\ m.slots[i].key = e.key
  BY DEF GoodHandle
<1>3. /\ DOMAIN n.slots = DOMAIN m.slots
      /\ n.slots[i] = Deleted
      /\ \A j \in DOMAIN m.slots \ {i} : n.slots[j] = m.slots[j]
  <2>1. m = [slots |-> m.slots, len |-> m.len, capacity |-> m.capacity]
    BY <1>1 DEF Map
  <2>2. n = [m EXCEPT !.slots[i] = Deleted, !.len = m.len - 1]
    BY DEF Removed
  <2> HIDE DEF n
  <2>3. n = [slots |-> [m.slots EXCEPT ![i] = Deleted], len |-> m.len - 1,
             capacity |-> m.capacity]
    BY <2>1, <2>2, RecordChange
  <2>4. n.slots = [m.slots EXCEPT ![i] = Deleted]
    BY <2>3
  <2>5. QED
    BY <1>2, <2>4
<1>4. ~IsFull(n.slots[i]) /\ GoodHandle(hash, n, e)
  <2>1. GoodHandle(hash, n, e)
    BY RemoveFromSlot
  <2>2. ~IsFull(n.slots[i])
    BY <1>3 DEF IsFull, Deleted
  <2>3. QED
    BY <2>1, <2>2
<1> HIDE DEF n
<1>5. CASE k = e.key
  <2>1. Absent(n, k)
    BY <1>4, <1>5 DEF GoodHandle
  <2>2. QED
    BY <1>5, <2>1, AbsentValue DEF n
<1>6. CASE k # e.key
  <2>1. ~Holds(n.slots[i], k) /\ ~Holds(m.slots[i], k)
    BY <1>2, <1>4, <1>6 DEF Holds
  <2> HIDE DEF i
  <2>2. ValueOf(n, k) = ValueOf(m, k)
    BY <1>1, <1>3, <2>1, SameValue
  <2>3. QED
    BY <1>6, <2>2 DEF n
<1>7. QED
  BY <1>5, <1>6
-----------------------------------------------------------------------------
(* Growth.                                                                 *)

(* The new map holds the slots copied so far and no other.                 *)
Copied(m, g) ==
    /\ \A j \in FullSlots(g.new_hash_map) :
          \E l \in 0 .. g.i - 1 : m.slots[l] = g.new_hash_map.slots[j]
    /\ \A l \in 0 .. g.i - 1 :
          IsFull(m.slots[l]) =>
             \E j \in DOMAIN g.new_hash_map.slots : g.new_hash_map.slots[j] = m.slots[l]

CInv == phase = "copying" => Copied(hash_map, growing)

LEMMA StartCopied ==
    ASSUME IInv, NEW e, NEW v, InsertThrough(e, v), Idle
    PROVE  CInv'
<1>1. CASE e.has_slot
  BY <1>1 DEF InsertThrough, Idle, CInv
<1>2. CASE ~e.has_slot
  <2> DEFINE n == NewMap(NewCapacity)
  <2>1. /\ growing' = [i |-> 0, distance |-> 0, value |-> v, new_hash_map |-> n]
        /\ phase' = "copying" /\ hash_map' = hash_map
    BY <1>2 DEF InsertThrough
  <2>2. NewCapacity \in Nat
    BY MapFacts, HashMapAssumption DEF NewCapacity, IInv, Sound
  <2>3. FullSlots(n) = {}
    BY <2>2, NewMapFacts
  <2> HIDE DEF n
  <2>4. growing'.new_hash_map = n /\ 0 .. growing'.i - 1 = {}
    BY <2>1
  <2>5. Copied(hash_map', growing')
    BY <2>3, <2>4 DEF Copied
  <2>6. QED
    BY <2>5 DEF CInv
<1>3. QED
  BY <1>1, <1>2

LEMMA SkipCopied ==
    ASSUME IInv, CInv, CopySkip
    PROVE  CInv'
<1> DEFINE n == growing.new_hash_map
           i == growing.i
<1>1. /\ phase = "copying" /\ hash_map' = hash_map
      /\ ~IsFull(hash_map.slots[i])
      /\ growing' = [growing EXCEPT !.i = i + 1]
  BY DEF CopySkip
<1>2. i \in Nat /\ growing'.i = i + 1 /\ growing'.new_hash_map = n
  BY <1>1, CopyingFacts
<1>3. Copied(hash_map, growing)
  BY <1>1 DEF CInv
<1>4. \A l \in 0 .. i : l = i \/ l \in 0 .. i - 1
  BY <1>2
<1>5. 0 .. growing'.i - 1 = 0 .. i
  BY <1>2
<1>6. \A l \in 0 .. i - 1 : l \in 0 .. i
  BY <1>2
<1> HIDE DEF n, i
<1>7. Copied(hash_map, growing')
  BY ONLY <1>1, <1>2, <1>3, <1>4, <1>5, <1>6 DEF Copied, n, i
<1>8. QED
  BY <1>1, <1>7 DEF CInv

LEMMA PlaceCopied ==
    ASSUME IInv, CInv, CopyPlace
    PROVE  CInv'
<1> DEFINE n == growing.new_hash_map
           new == InsertInEmptySlot
           p == Index(n, MovedKey, growing.distance)
           i == growing.i
<1>1. /\ phase = "copying" /\ Moving /\ ~Taken /\ i < hash_map.capacity /\ SlotsLeft
      /\ growing' = [growing EXCEPT !.new_hash_map = new, !.i = i + 1, !.distance = 0]
      /\ hash_map' = hash_map
  BY DEF CopyPlace, Moving, SlotsLeft
<1>2. i \in 0 .. hash_map.capacity /\ Map(hash_map) /\ hash_map.capacity \in Nat /\ Map(n)
  BY <1>1, CopyingFacts
<1>3. /\ p \in DOMAIN new.slots /\ DOMAIN new.slots = DOMAIN n.slots
      /\ new.slots[p] = Full(MovedKey, MovedValue)
      /\ \A j \in DOMAIN n.slots \ {p} : new.slots[j] = n.slots[j]
      /\ \A j \in FullSlots(new) : j = p \/ (j \in FullSlots(n) /\ new.slots[j] = n.slots[j])
  BY <1>1, PlacedFacts
<1>4. new.slots[p] = hash_map.slots[i]
  <2>1. IsFull(hash_map.slots[i])
    BY <1>1 DEF Moving
  <2>2. hash_map.slots[i] \in SlotType
    BY <1>1, <1>2, MapFacts
  <2>3. hash_map.slots[i] = Full(hash_map.slots[i].key, hash_map.slots[i].value)
    BY <2>1, <2>2, SlotFacts
  <2>4. QED
    BY <1>1, <1>3, <2>3 DEF MovedKey, MovedValue
<1>5. ~IsFull(n.slots[p])
  BY <1>1 DEF Taken, Slot
<1> HIDE DEF new, p
<1>6. growing'.i = i + 1 /\ growing'.new_hash_map = new
  BY <1>1, CopyingFacts
<1>7. /\ 0 .. growing'.i - 1 = 0 .. i /\ i \in 0 .. i
      /\ \A l \in 0 .. i : l = i \/ l \in 0 .. i - 1
      /\ \A l \in 0 .. i - 1 : l \in 0 .. i
  BY <1>2, <1>6
<1>8. Copied(hash_map, growing)
  BY <1>1 DEF CInv
<1> HIDE DEF n, i
<1>9. ASSUME NEW j \in FullSlots(new)
      PROVE  \E l \in 0 .. i : hash_map.slots[l] = new.slots[j]
  BY <1>3, <1>4, <1>7, <1>8 DEF Copied, n, i
<1>10. ASSUME NEW l \in 0 .. i, IsFull(hash_map.slots[l])
       PROVE  \E j \in DOMAIN new.slots : new.slots[j] = hash_map.slots[l]
  <2>1. CASE l = i
    BY <1>3, <1>4, <2>1
  <2>2. CASE l \in 0 .. i - 1
    <3>1. PICK j \in DOMAIN n.slots : n.slots[j] = hash_map.slots[l]
      BY <1>8, <1>10, <2>2 DEF Copied, n, i
    <3>2. j # p
      BY <1>5, <1>10, <3>1
    <3>3. QED
      BY <1>3, <3>1, <3>2
  <2>3. QED
    BY <1>7, <2>1, <2>2
<1>11. Copied(hash_map, growing')
  BY <1>6, <1>7, <1>9, <1>10 DEF Copied
<1>12. QED
  BY <1>1, <1>11 DEF CInv

LEMMA ProbeCopied ==
    ASSUME IInv, CInv, CopyProbe
    PROVE  CInv'
<1>1. /\ phase = "copying" /\ hash_map' = hash_map
      /\ growing' = [growing EXCEPT
                        !.distance = (growing.distance + 1) % growing.new_hash_map.capacity]
  BY DEF CopyProbe, Moving
<1>2. growing'.i = growing.i /\ growing'.new_hash_map = growing.new_hash_map
  BY <1>1, CopyingFacts
<1>3. QED
  BY <1>1, <1>2 DEF CInv, Copied

(* While the map grows, every full slot of the new buffer is one of the    *)
(* old buffer the loop of hash_map_grow has passed, with its value, and    *)
(* every full slot it has passed is in the new buffer: no entry is lost    *)
(* and none is invented.                                                   *)
THEOREM CopyIsFaithful == Spec => [](IInv /\ CInv)
<1>1. Init => CInv
  BY DEF Init, CInv
<1>2. IInv /\ CInv /\ [Next]_vars => CInv'
  <2> SUFFICES ASSUME IInv, CInv, [Next]_vars PROVE CInv'
    OBVIOUS
  <2>1. ASSUME NEW k \in Keys, Get(k) \/ GetMut(k) \/ Entry(k) \/ RemoveKey(k) PROVE CInv'
    BY <2>1 DEF Get, GetMut, Entry, RemoveKey, RemoveThrough, Idle, CInv
  <2>2. ASSUME EntryGet \/ EntryRemove \/ Free PROVE CInv'
    BY <2>2 DEF EntryGet, EntryRemove, RemoveThrough, Free, Idle, CInv
  <2>3. ASSUME NEW k \in Keys, NEW v \in Values, Insert(k, v) PROVE CInv'
    BY <2>3, StartCopied DEF Insert
  <2>4. ASSUME NEW v \in Values, EntryInsert(v) PROVE CInv'
    BY <2>4, StartCopied DEF EntryInsert
  <2>5. ASSUME CopyEnd PROVE CInv'
    BY <2>5 DEF CopyEnd, CInv
  <2>6. ASSUME UNCHANGED vars PROVE CInv'
    BY <2>6 DEF vars, CInv
  <2>7. QED
    BY <2>1, <2>2, <2>3, <2>4, <2>5, <2>6, SkipCopied, PlaceCopied, ProbeCopied DEF Next, Grows
<1>3. QED
  BY <1>1, <1>2, Invariant, PTL DEF Spec

(* At the end of a growth the new map has the values of the old one and    *)
(* that of the key inserted.                                               *)
LEMMA GrownPuts ==
    ASSUME IInv, CInv, CopyEnd, NEW k \in Keys
    PROVE  /\ entry.key \in Keys /\ growing.value \in Values
           /\ ValueOf(hash_map', k) = IF k = entry.key THEN Value(growing.value)
                                                       ELSE ValueOf(hash_map, k)
<1> DEFINE n == growing.new_hash_map
           new == InsertInEmptySlot
           p == Index(n, MovedKey, growing.distance)
<1>1. /\ phase = "copying" /\ Moving /\ ~Taken /\ ~(growing.i < hash_map.capacity)
      /\ MovedKey = entry.key /\ MovedValue = growing.value
      /\ hash_map' = new
  BY DEF CopyEnd, Moving, SlotsLeft, MovedKey, MovedValue
<1>2. /\ hash \in Hash /\ Map(hash_map) /\ AllReached(hash, hash_map) /\ Map(n)
      /\ growing.i \in 0 .. hash_map.capacity /\ hash_map.capacity \in Nat
      /\ MovedKey \in Keys /\ MovedValue \in Values /\ Absent(n, MovedKey)
  BY <1>1, CopyingFacts, MovedFacts DEF Sound
<1>3. /\ Map(new) /\ AllReached(hash, new)
      /\ p \in DOMAIN new.slots /\ DOMAIN new.slots = DOMAIN n.slots
      /\ new.slots[p] = Full(MovedKey, MovedValue)
      /\ \A j \in DOMAIN n.slots \ {p} : new.slots[j] = n.slots[j]
      /\ \A j \in FullSlots(new) : j = p \/ (j \in FullSlots(n) /\ new.slots[j] = n.slots[j])
  BY <1>1, PlacedFacts
<1>4. ~IsFull(n.slots[p])
  BY <1>1 DEF Taken, Slot
<1>5. 0 .. growing.i - 1 = DOMAIN hash_map.slots
  BY <1>1, <1>2, MapFacts
<1>6. Copied(hash_map, growing)
  BY <1>1 DEF CInv
<1> HIDE DEF new, p, n
<1>7. CASE k = entry.key
  <2>1. Holds(new.slots[p], k) /\ new.slots[p].value = growing.value
    BY <1>1, <1>2, <1>3, <1>7, FullFacts DEF Holds
  <2>2. ValueOf(new, k) = Value(growing.value)
    BY <1>2, <1>3, <2>1, HeldValue
  <2>3. QED
    BY <1>1, <1>2, <1>7, <2>2
<1>8. CASE k # entry.key
  <2>1. ~Holds(new.slots[p], k)
    BY <1>1, <1>2, <1>3, <1>8, FullFacts DEF Holds
  <2>2. ASSUME NEW j \in DOMAIN new.slots, Holds(new.slots[j], k)
        PROVE  \E l \in DOMAIN hash_map.slots : hash_map.slots[l] = new.slots[j]
    <3>1. j # p /\ j \in FullSlots(new)
      BY <2>1, <2>2 DEF FullSlots, Holds
    <3>2. j \in FullSlots(n) /\ new.slots[j] = n.slots[j]
      BY <1>3, <3>1
    <3>3. QED
      BY <1>5, <1>6, <3>2 DEF Copied, n
  <2>3. ASSUME NEW l \in DOMAIN hash_map.slots, Holds(hash_map.slots[l], k)
        PROVE  \E j \in DOMAIN new.slots : new.slots[j] = hash_map.slots[l]
    <3>1. PICK j \in DOMAIN n.slots : n.slots[j] = hash_map.slots[l]
      BY <1>5, <1>6, <2>3 DEF Copied, Holds, n
    <3>2. j # p
      BY <1>4, <2>3, <3>1 DEF Holds
    <3>3. QED
      BY <1>3, <3>1, <3>2
  <2>4. ValueOf(new, k) = ValueOf(hash_map, k)
    BY <1>2, <1>3, <2>2, <2>3, SameValue
  <2>5. QED
    BY <1>1, <1>2, <1>8, <2>4
<1>9. QED
  BY <1>7, <1>8
-----------------------------------------------------------------------------
(* Every step is one of the dictionary's, or leaves it as it is.           *)

LEMMA DictIs == DictOf = [k \in Keys |-> ValueOf(hash_map, k)]
BY DEF DictOf, ValueOf, SlotsOf

LEMMA DictWillBe == DictOf' = [k \in Keys |-> ValueOf(hash_map', k)]
BY DEF DictOf, ValueOf, SlotsOf

LEMMA SameWords ==
    /\ Abstract!Missing = Missing
    /\ \A v : Abstract!Value(v) = Value(v)
BY DEF Abstract!Missing, Abstract!Value, Missing, Value

LEMMA LookupMaps ==
    ASSUME NEW k \in Keys, answer' = ValueOf(hash_map, k), UNCHANGED hash_map
    PROVE  Abstract!Next
<1>1. answer' = DictOf[k] /\ DictOf' = DictOf
  BY DictIs, DictWillBe
<1>2. Abstract!Lookup(k)
  BY <1>1 DEF Abstract!Lookup
<1>3. QED
  BY <1>2 DEF Abstract!Next

LEMMA PutMaps ==
    ASSUME NEW k \in Keys, NEW v \in Values, UNCHANGED answer,
           \A l \in Keys : ValueOf(hash_map', l) = IF l = k THEN Value(v)
                                                            ELSE ValueOf(hash_map, l)
    PROVE  Abstract!Next
<1>1. DictOf' = [DictOf EXCEPT ![k] = Value(v)]
  BY DictIs, DictWillBe
<1>2. Abstract!Put(k, v)
  BY <1>1, SameWords DEF Abstract!Put
<1>3. QED
  BY <1>2 DEF Abstract!Next

LEMMA RemoveMaps ==
    ASSUME NEW k \in Keys, UNCHANGED answer,
           \A l \in Keys : ValueOf(hash_map', l) = IF l = k THEN Missing
                                                            ELSE ValueOf(hash_map, l)
    PROVE  Abstract!Next
<1>1. DictOf' = [DictOf EXCEPT ![k] = Missing]
  BY DictIs, DictWillBe
<1>2. Abstract!Remove(k)
  BY <1>1, SameWords DEF Abstract!Remove
<1>3. QED
  BY <1>2 DEF Abstract!Next

LEMMA StutterMaps ==
    ASSUME UNCHANGED <<hash_map, answer>>
    PROVE  UNCHANGED <<DictOf, answer>>
BY DictIs, DictWillBe

LEMMA InsertMaps ==
    ASSUME hash \in Hash, Sound(hash, hash_map), NEW e, GoodHandle(hash, hash_map, e),
           NEW v \in Values, InsertThrough(e, v)
    PROVE  [Abstract!Next]_<<DictOf, answer>>
<1>1. CASE e.has_slot
  <2>1. hash_map' = Overwritten(hash_map, e, v) /\ UNCHANGED answer /\ e.key \in Keys
    BY <1>1 DEF InsertThrough, GoodHandle
  <2>2. Abstract!Next
    BY <1>1, <2>1, InsertPuts, PutMaps
  <2>3. QED
    BY <2>2
<1>2. CASE ~e.has_slot
  BY <1>2, StutterMaps DEF InsertThrough
<1>3. QED
  BY <1>1, <1>2

(* A removal of a key that is not in the map removes nothing.              *)
LEMMA RemovalMaps ==
    ASSUME hash \in Hash, Sound(hash, hash_map), NEW e, GoodHandle(hash, hash_map, e),
           RemoveThrough(e)
    PROVE  [Abstract!Next]_<<DictOf, answer>>
<1>1. CASE Removes(e)
  <2>1. /\ hash_map' = Removed(hash_map, e.slot_index) /\ UNCHANGED answer
        /\ e.has_slot /\ IsFull(hash_map.slots[e.slot_index]) /\ e.key \in Keys
    BY <1>1 DEF RemoveThrough, Removes, GoodHandle
  <2>2. Abstract!Next
    BY <2>1, RemoveRemoves, RemoveMaps
  <2>3. QED
    BY <2>2
<1>2. CASE ~Removes(e)
  BY <1>2, StutterMaps DEF RemoveThrough
<1>3. QED
  BY <1>1, <1>2

LEMMA StepMaps ==
    ASSUME IInv, CInv, [Next]_vars
    PROVE  [Abstract!Next]_<<DictOf, answer>>
<1>1. hash \in Hash /\ Sound(hash, hash_map)
  BY HashIsHash DEF IInv
<1>2. entry.made => GoodHandle(hash, hash_map, entry)
  BY DEF IInv, NoEntry
<1>3. \A k \in Keys :
         GoodHandle(hash, hash_map, EntryOf(hash_map, k)) /\ EntryOf(hash_map, k).key = k
  BY <1>1, EntryGood
<1>4. ASSUME NEW k \in Keys, Get(k) PROVE [Abstract!Next]_<<DictOf, answer>>
  <2>1. answer' = ValueOf(hash_map, k) /\ UNCHANGED hash_map
    BY <1>1, <1>4, GetAnswers DEF Get
  <2>2. QED
    BY <2>1, LookupMaps
<1>5. ASSUME NEW k \in Keys, GetMut(k) PROVE [Abstract!Next]_<<DictOf, answer>>
  <2>1. answer' = ValueOf(hash_map, k) /\ UNCHANGED hash_map
    BY <1>1, <1>3, <1>5, HandleAnswers DEF GetMut
  <2>2. QED
    BY <2>1, LookupMaps
<1>6. ASSUME EntryGet PROVE [Abstract!Next]_<<DictOf, answer>>
  <2>1. /\ answer' = ValueOf(hash_map, entry.key) /\ UNCHANGED hash_map
        /\ entry.key \in Keys
    BY <1>1, <1>2, <1>6, HandleAnswers DEF EntryGet
  <2>2. QED
    BY <2>1, LookupMaps
<1>7. ASSUME NEW k \in Keys, Entry(k) PROVE [Abstract!Next]_<<DictOf, answer>>
  BY <1>7, StutterMaps DEF Entry
<1>8. ASSUME NEW k \in Keys, NEW v \in Values, Insert(k, v)
      PROVE  [Abstract!Next]_<<DictOf, answer>>
  BY <1>1, <1>3, <1>8, InsertMaps DEF Insert
<1>9. ASSUME NEW v \in Values, EntryInsert(v) PROVE [Abstract!Next]_<<DictOf, answer>>
  BY <1>1, <1>2, <1>9, InsertMaps DEF EntryInsert
<1>10. ASSUME NEW k \in Keys, RemoveKey(k) PROVE [Abstract!Next]_<<DictOf, answer>>
  BY <1>1, <1>3, <1>10, RemovalMaps DEF RemoveKey
<1>11. ASSUME EntryRemove PROVE [Abstract!Next]_<<DictOf, answer>>
  BY <1>1, <1>2, <1>11, RemovalMaps DEF EntryRemove
<1>12. ASSUME CopySkip \/ CopyProbe \/ CopyPlace \/ Free
       PROVE  [Abstract!Next]_<<DictOf, answer>>
  BY <1>12, StutterMaps DEF CopySkip, CopyProbe, CopyPlace, Free
<1>13. ASSUME CopyEnd PROVE [Abstract!Next]_<<DictOf, answer>>
  <2>1. UNCHANGED answer
    BY <1>13 DEF CopyEnd
  <2>2. CASE Keys = {}
    <3>1. DictOf' = DictOf
      BY <2>2, DictIs, DictWillBe
    <3>2. QED
      BY <2>1, <3>1
  <2>3. CASE Keys # {}
    <3>1. entry.key \in Keys /\ growing.value \in Values
      BY <1>13, <2>3, GrownPuts
    <3>2. Abstract!Next
      BY <1>13, <2>1, <3>1, GrownPuts, PutMaps
    <3>3. QED
      BY <3>2
  <2>4. QED
    BY <2>2, <2>3
<1>14. ASSUME UNCHANGED vars PROVE [Abstract!Next]_<<DictOf, answer>>
  BY <1>14, StutterMaps DEF vars
<1>15. QED
  BY <1>4, <1>5, <1>6, <1>7, <1>8, <1>9, <1>10, <1>11, <1>12, <1>13, <1>14 DEF Next, Grows

LEMMA InitMaps == Init => Abstract!Init
<1> SUFFICES ASSUME Init PROVE Abstract!Init
  OBVIOUS
<1>1. FullSlots(hash_map) = {} /\ answer = Missing
  BY NewMapFacts DEF Init
<1>2. DictOf = [k \in Keys |-> Missing]
  BY <1>1, DictIs DEF ValueOf, SlotsOf
<1>3. QED
  BY <1>1, <1>2, SameWords DEF Abstract!Init

(* The hash map implements the dictionary: a lookup, by key or by handle,  *)
(* answers with the last value inserted for the key and not removed since, *)
(* whatever slots, tombstones and growths there were (hash_map.h).         *)
THEOREM HashMapImplementsDictionary == Spec => ImplementsDictionary
<1>1. QED
  BY CopyIsFaithful, StepMaps, InitMaps, PTL DEF Spec, ImplementsDictionary, Abstract!Spec
=============================================================================
