---------------------------- MODULE TypeRegistry ----------------------------
(***************************************************************************)
(* lib/ast/type.c: the types of a program by id, and the hash map from     *)
(* function types to ids it is to find them again by.                      *)
(*                                                                         *)
(* The map is that of module HashMap, with the equality of type.c, no      *)
(* removal, and no growth after its first buffer (it takes six types).     *)
(***************************************************************************)
EXTENDS Syntax

FunctionType(input, output) == [input |-> input, output |-> output]

(* Only a function type has an input and an output; it has no size.        *)
ScalarType(size) ==
    [kind |-> "scalar", function |-> FunctionType(TYPE_INVALID, TYPE_INVALID),
     size |-> size]
FunctionTypeEntry(t) == [kind |-> "function", function |-> t, size |-> 0]

MapCapacity == 8

(* The model holds no more function types than the map does before it      *)
(* grows (HASH_MAP_MAX_LOAD_FACTOR is 3/4).                                *)
MaxFunctionTypes == 6

NoId == -1

(* types: by id, from 0; slots: the id of the type in each slot of the map.*)
type_registry_new ==
    [types |-> <<ScalarType(0), ScalarType(1), ScalarType(1), ScalarType(1),
                 ScalarType(1)>>,
     slots |-> [s \in 0 .. MapCapacity - 1 |-> NoId]]

get_type(registry, id) == registry.types[id + 1]

SizeOf(registry, id) == IF id = TYPE_INVALID THEN 0 ELSE get_type(registry, id).size

-----------------------------------------------------------------------------
(* The map.                                                                *)

Bit(n, k) == (n \div 2 ^ k) % 2
Xor3(a, b) ==
    LET Differ(k) == (Bit(a, k) + Bit(b, k)) % 2
    IN  Differ(0) + 2 * Differ(1) + 4 * Differ(2)

(* The hash of a function type modulo the capacity.  hash.c multiplies by  *)
(* 0x517cc1b727220a95, turns the highest bits down, takes in the next      *)
(* value and multiplies again.  Modulo 8 the factor is 5, and the bits     *)
(* turned down are twice the id of a scalar (5 for an invalid one).        *)
hash(t) ==
    LET turned == IF t.input = TYPE_INVALID THEN 5 ELSE (2 * t.input) % 8
    IN  (5 * Xor3(turned, t.output % 8)) % 8

(* As in type.c:9, which compares each type's input with its own output.   *)
eq(a, b) == a.input = a.output /\ b.input = b.output

KeyAt(registry, s) == get_type(registry, registry.slots[s]).function

(* The slot where the probing for t stops: it is vacant, or has an equal   *)
(* key.                                                                    *)
ProbeEnd(registry, t) ==
    LET Probed(d) == (hash(t) + d) % MapCapacity
        Ends(d) == \/ registry.slots[Probed(d)] = NoId
                   \/ eq(t, KeyAt(registry, Probed(d)))
        ends == {d \in 0 .. MapCapacity - 1 : Ends(d)}
    IN  Probed(CHOOSE d \in ends : \A e \in ends : d <= e)

(* The id found for a function type, or NoId.                              *)
Lookup(registry, t) == registry.slots[ProbeEnd(registry, t)]

register_type(registry, t) ==
    [types |-> Append(registry.types, FunctionTypeEntry(t)),
     slots |-> [registry.slots EXCEPT ![ProbeEnd(registry, t)] =
                    Len(registry.types)]]

(* The function types that were registered.                                *)
Registered(registry) ==
    {id \in 0 .. Len(registry.types) - 1 : get_type(registry, id).kind = "function"}
=============================================================================
