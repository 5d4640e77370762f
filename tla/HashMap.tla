------------------------------- MODULE HashMap -------------------------------
(***************************************************************************)
(* The open-addressing hash map of lib/util/collections/hash_map.h: linear *)
(* probing, tombstones, handles to a key's slot (HashMapEntry), and growth *)
(* by copying into a new buffer, one action per slot looked at in either.  *)
(*                                                                         *)
(* A slot is its occupancy, with its key and value if it is full: the      *)
(* arrays occupancies, keys and values in one.  A handle is used on the    *)
(* map it was made for, and only while no other operation has changed the  *)
(* map, as lib/assembler/assembler.c does: nothing in the map checks it.   *)
(***************************************************************************)
EXTENDS Integers, FiniteSets

CONSTANTS
    Keys, Values,
    Hashes,        \* functions from Keys to numbers: the hash may be any
    FirstCapacity, \* slots first allocated: 8 in the code
    MaxCapacity,   \* bound of the model: the map does not grow past it
    MaxLen         \* bound of the model: len is not counted past it

ASSUME HashMapAssumption ==
    /\ Hashes \subseteq [Keys -> Nat]
    /\ FirstCapacity \in Nat /\ FirstCapacity >= 2 /\ FirstCapacity % 2 = 0
    /\ MaxCapacity \in Nat /\ MaxLen \in Nat

VARIABLES
    hash,     \* of each key; constant
    hash_map, \* slots, len and capacity
    entry,    \* the last handle made: key, has_slot and slot_index
    phase,    \* "idle", "copying" while the map grows, or "freed"
    growing,  \* new_hash_map, the next slot to copy, how far from home its
              \* key is being placed, and the value to insert at the end
    answer    \* of the last lookup

vars == <<hash, hash_map, entry, phase, growing, answer>>

Empty   == [occupancy |-> "empty"]
Deleted == [occupancy |-> "deleted"]
Full(k, v) == [occupancy |-> "full", key |-> k, value |-> v]
IsFull(slot) == slot.occupancy = "full"

Missing == [found |-> FALSE]
Value(v) == [found |-> TRUE, value |-> v]

NewMap(capacity) ==
    [slots |-> [i \in 0 .. capacity - 1 |-> Empty], len |-> 0, capacity |-> capacity]

NoEntry == [made |-> FALSE]
NotGrowing == [i |-> 0, distance |-> 0]

Init ==
    /\ hash \in Hashes
    /\ hash_map = NewMap(0)
    /\ entry = NoEntry
    /\ phase = "idle"
    /\ growing = NotGrowing
    /\ answer = Missing

-----------------------------------------------------------------------------
(* Linear probing: from the slot the hash designates, around the buffer.   *)

Distances(m) == 0 .. m.capacity - 1
Nearest(D) == CHOOSE d \in D : \A e \in D : d <= e

(* The slot at distance d from home.                                       *)
Index(m, k, d) == (hash[k] + d) % m.capacity
Slot(m, k, d) == m.slots[Index(m, k, d)]

Holds(slot, k) == IsFull(slot) /\ slot.key = k

(* The probe stops at a slot that was never used, or that holds the key.   *)
Stops(slot, k) == slot = Empty \/ Holds(slot, k)

Probed(m, k) ==
    {d \in Distances(m) : \A e \in 0 .. d - 1 : ~Stops(Slot(m, k, e), k)}

(* Where the key is, if it is in the map.                                  *)
FoundAt(m, k) == {d \in Probed(m, k) : Holds(Slot(m, k, d), k)}

(* The slots it may be inserted in: a tombstone on the way, or the end.    *)
FreeAt(m, k) == {d \in Probed(m, k) : ~IsFull(Slot(m, k, d))}

(* HASH_MAP_MAX_LOAD_FACTOR is 3/4.                                        *)
Crowded_Never(m) == FALSE

Crowded(m) == 4 * (m.len + 1) > 3 * m.capacity

Handle(k, d, m) ==
    [made |-> TRUE, key |-> k, has_slot |-> TRUE, slot_index |-> Index(m, k, d)]
NoSlot(k) == [made |-> TRUE, key |-> k, has_slot |-> FALSE, slot_index |-> 0]

(* hash_map_entry.                                                         *)
EntryOf(m, k) ==
    IF FoundAt(m, k) # {} THEN Handle(k, Nearest(FoundAt(m, k)), m)
    ELSE IF FreeAt(m, k) = {} \/ Crowded(m) THEN NoSlot(k)
    ELSE Handle(k, Nearest(FreeAt(m, k)), m)

-----------------------------------------------------------------------------
(* Lookups.                                                                *)

get(m, k) ==
    IF m.len = 0 \/ FoundAt(m, k) = {} THEN Missing
    ELSE Value(Slot(m, k, Nearest(FoundAt(m, k))).value)

entry_get(m, e) ==
    IF e.has_slot /\ IsFull(m.slots[e.slot_index])
    THEN Value(m.slots[e.slot_index].value)
    ELSE Missing

Idle == phase = "idle"

Get(k) ==
    /\ Idle
    /\ answer' = get(hash_map, k)
    /\ UNCHANGED <<hash, hash_map, entry, phase, growing>>

GetMut(k) ==
    /\ Idle
    /\ answer' = entry_get(hash_map, EntryOf(hash_map, k))
    /\ UNCHANGED <<hash, hash_map, entry, phase, growing>>

Entry(k) ==
    /\ Idle
    /\ entry' = EntryOf(hash_map, k)
    /\ UNCHANGED <<hash, hash_map, phase, growing, answer>>

EntryGet ==
    /\ Idle /\ entry.made
    /\ answer' = entry_get(hash_map, entry)
    /\ UNCHANGED <<hash, hash_map, entry, phase, growing>>

-----------------------------------------------------------------------------
(* Insertion.                                                              *)

(* A full slot keeps its key; len counts the insertion all the same        *)
(* (hash_map.h:329).                                                       *)
Overwritten(m, e, v) ==
    [m EXCEPT !.slots[e.slot_index] = IF IsFull(@) THEN [@ EXCEPT !.value = v]
                                                   ELSE Full(e.key, v),
              !.len = @ + 1]

NewCapacity_Kept ==
    IF hash_map.capacity <= FirstCapacity \div 2 THEN FirstCapacity
                                                 ELSE hash_map.capacity

NewCapacity ==
    IF hash_map.capacity <= FirstCapacity \div 2 THEN FirstCapacity
                                                 ELSE 2 * hash_map.capacity

(* hash_map_entry_insert, through a handle e; growing starts if it has no  *)
(* slot.                                                                   *)
InsertThrough(e, v) ==
    /\ IF e.has_slot
       THEN /\ hash_map.len < MaxLen
            /\ hash_map' = Overwritten(hash_map, e, v)
            /\ UNCHANGED <<phase, growing>>
       ELSE /\ NewCapacity <= MaxCapacity
            /\ phase' = "copying"
            /\ growing' = [i |-> 0, distance |-> 0, value |-> v,
                           new_hash_map |-> NewMap(NewCapacity)]
            /\ UNCHANGED hash_map
    /\ entry' = e
    /\ UNCHANGED <<hash, answer>>

Insert(k, v) == Idle /\ InsertThrough(EntryOf(hash_map, k), v)

EntryInsert(v) == Idle /\ entry.made /\ InsertThrough(entry, v)

(* The key being moved to the new buffer: that of the next full slot, then *)
(* the one being inserted.                                                 *)
SlotsLeft == growing.i < hash_map.capacity
MovedKey == IF SlotsLeft THEN hash_map.slots[growing.i].key ELSE entry.key
MovedValue == IF SlotsLeft THEN hash_map.slots[growing.i].value ELSE growing.value

Moving ==
    /\ phase = "copying"
    /\ SlotsLeft => IsFull(hash_map.slots[growing.i])

(* insert_in_empty_slot: the slot at the distance probed so far.           *)
Taken_Never == FALSE

Taken == IsFull(Slot(growing.new_hash_map, MovedKey, growing.distance))

InsertInEmptySlot ==
    [growing.new_hash_map EXCEPT
        !.slots[Index(growing.new_hash_map, MovedKey, growing.distance)] =
            Full(MovedKey, MovedValue),
        !.len = @ + 1]

CopySkip ==
    /\ phase = "copying"
    /\ SlotsLeft
    /\ ~IsFull(hash_map.slots[growing.i])
    /\ growing' = [growing EXCEPT !.i = @ + 1]
    /\ UNCHANGED <<hash, hash_map, entry, phase, answer>>

(* The loop has no end but a slot that is not full.                        *)
CopyProbe ==
    /\ Moving
    /\ Taken
    /\ growing' = [growing EXCEPT
                      !.distance = (@ + 1) % growing.new_hash_map.capacity]
    /\ UNCHANGED <<hash, hash_map, entry, phase, answer>>

CopyPlace ==
    /\ Moving
    /\ SlotsLeft
    /\ ~Taken
    /\ growing' = [growing EXCEPT !.new_hash_map = InsertInEmptySlot,
                                  !.i = @ + 1, !.distance = 0]
    /\ UNCHANGED <<hash, hash_map, entry, phase, answer>>

GrownHandle_AtHome == Handle(entry.key, 0, growing.new_hash_map)

GrownHandle == Handle(entry.key, growing.distance, growing.new_hash_map)

(* The new buffer replaces the old one and takes the entry that had no     *)
(* slot in it.                                                             *)
CopyEnd ==
    /\ Moving
    /\ ~SlotsLeft
    /\ ~Taken
    /\ hash_map' = InsertInEmptySlot
    /\ entry' = GrownHandle
    /\ phase' = "idle"
    /\ growing' = NotGrowing
    /\ UNCHANGED <<hash, answer>>

Grows == CopySkip \/ CopyProbe \/ CopyPlace \/ CopyEnd

-----------------------------------------------------------------------------
(* Removal leaves a tombstone.                                             *)

Removed_ToEmpty(m, i) == [m EXCEPT !.slots[i] = Empty, !.len = @ - 1]

Removed(m, i) == [m EXCEPT !.slots[i] = Deleted, !.len = @ - 1]

Removes_Unchecked(e) == e.has_slot

Removes(e) == e.has_slot /\ IsFull(hash_map.slots[e.slot_index])

RemoveThrough(e) ==
    /\ hash_map' = IF Removes(e)
                   THEN Removed(hash_map, e.slot_index)
                   ELSE hash_map
    /\ entry' = e
    /\ UNCHANGED <<hash, phase, growing, answer>>

RemoveKey(k) == Idle /\ RemoveThrough(EntryOf(hash_map, k))

EntryRemove == Idle /\ entry.made /\ RemoveThrough(entry)

Free ==
    /\ Idle
    /\ phase' = "freed"
    /\ UNCHANGED <<hash, hash_map, entry, growing, answer>>

Next ==
    \/ \E k \in Keys : Get(k) \/ GetMut(k) \/ Entry(k) \/ RemoveKey(k)
    \/ \E k \in Keys, v \in Values : Insert(k, v)
    \/ \E v \in Values : EntryInsert(v)
    \/ EntryGet \/ EntryRemove \/ Free \/ Grows

Spec == Init /\ [][Next]_vars /\ WF_vars(Grows)

-----------------------------------------------------------------------------
(* Properties.                                                             *)

FullSlots(m) == {i \in DOMAIN m.slots : IsFull(m.slots[i])}

SlotType ==
    {Empty, Deleted} \union
    [occupancy : {"full"}, key : Keys, value : Values]

IsMap(m) ==
    /\ m.capacity \in Nat
    /\ m.len \in Nat
    /\ m.slots \in [0 .. m.capacity - 1 -> SlotType]

(* The map and the one it is copied to are maps, the latter large enough.  *)
TypeOK ==
    /\ hash \in Hashes
    /\ IsMap(hash_map)
    /\ entry.made => /\ entry.key \in Keys
                     /\ entry.has_slot => entry.slot_index \in DOMAIN hash_map.slots
    /\ phase \in {"idle", "copying", "freed"}
    /\ phase = "copying" =>
          /\ entry.made /\ ~entry.has_slot
          /\ growing.i \in 0 .. hash_map.capacity
          /\ IsMap(growing.new_hash_map)
          /\ growing.distance \in Distances(growing.new_hash_map)
          /\ growing.value \in Values

(* Every key in a slot is where a lookup finds it: no tombstone, wrap or   *)
(* growth breaks the probe from its home, and no key has two slots.        *)
Findable(m) ==
    \A i \in FullSlots(m) :
        LET k == m.slots[i].key
        IN  FoundAt(m, k) # {} /\ Index(m, k, Nearest(FoundAt(m, k))) = i

KeysAreFindable ==
    /\ Findable(hash_map)
    /\ phase = "copying" => Findable(growing.new_hash_map)

(* len is at least the number of full slots, so that an empty map is the   *)
(* only one whose lookups stop at `len == 0`, and the load factor leaves a *)
(* slot free: the loop of insert_in_empty_slot, which looks for one        *)
(* without an end, finds it.                                               *)
HasRoom(m) ==
    /\ Cardinality(FullSlots(m)) <= m.len
    /\ m.capacity # 0 => FullSlots(m) # DOMAIN m.slots

AlwaysRoom ==
    /\ HasRoom(hash_map)
    /\ phase = "copying" => HasRoom(growing.new_hash_map)

(* A handle stays good through its own insertions and removals: its slot   *)
(* is the one a lookup of its key would end at.                            *)
HandleIsGood ==
    entry.made /\ entry.has_slot /\ phase = "idle" =>
        LET slot == hash_map.slots[entry.slot_index]
            k == entry.key
        IN  \/ Holds(slot, k)
            \/ /\ ~IsFull(slot)
               /\ FoundAt(hash_map, k) = {}
               /\ \E d \in FreeAt(hash_map, k) : Index(hash_map, k, d) = entry.slot_index

(* Growth ends: the endless loop of insert_in_empty_slot always meets a    *)
(* slot that is not full, for every key moved and for the new one.         *)
GrowthEnds == phase = "copying" ~> phase = "idle"

(* The dictionary the buffer stands for, and that the operations implement.*)
DictOf ==
    [k \in Keys |->
        LET at == {i \in FullSlots(hash_map) : hash_map.slots[i].key = k}
        IN  IF at = {} THEN Missing ELSE Value(hash_map.slots[Nearest(at)].value)]

Abstract == INSTANCE Dictionary WITH dict <- DictOf

(* Lookups, by key or by handle, answer with the last value inserted for   *)
(* the key and not removed since, through any growth.                      *)
ImplementsDictionary == Abstract!Spec
=============================================================================
