----------------------------- MODULE Dictionary -----------------------------
(***************************************************************************)
(* What lib/util/collections/hash_map.h promises: a finite map from keys   *)
(* to values, of which a lookup tells the value or that there is none.     *)
(***************************************************************************)
CONSTANTS Keys, Values

Missing == [found |-> FALSE]
Value(v) == [found |-> TRUE, value |-> v]

VARIABLES
    dict,   \* the value of every key
    answer  \* of the last lookup

Init ==
    /\ dict = [k \in Keys |-> Missing]
    /\ answer = Missing

(* hash_map_get, hash_map_get_mut and hash_map_entry_get.                  *)
Lookup(k) == answer' = dict[k] /\ UNCHANGED dict

(* hash_map_insert and hash_map_entry_insert.                              *)
Put(k, v) == dict' = [dict EXCEPT ![k] = Value(v)] /\ UNCHANGED answer

(* hash_map_remove and hash_map_entry_remove.                              *)
Remove(k) == dict' = [dict EXCEPT ![k] = Missing] /\ UNCHANGED answer

Next == \E k \in Keys : Lookup(k) \/ Remove(k) \/ \E v \in Values : Put(k, v)

Spec == Init /\ [][Next]_<<dict, answer>>
=============================================================================
