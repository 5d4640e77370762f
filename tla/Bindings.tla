------------------------------ MODULE Bindings ------------------------------
(***************************************************************************)
(* lib/ast/binding.c: the names of a program, in scopes inside scopes.     *)
(* The names of a scope are found from anywhere in it (unordered) or only  *)
(* after their definition (sequential); a location is a scope and how many *)
(* of its sequential names have been defined there.                        *)
(*                                                                         *)
(* A BindingId is a record of its kind and its index, which the code packs *)
(* in a word.  Scopes and indices count from 0.                            *)
(***************************************************************************)
EXTENDS TypeRegistry

ROOT_SCOPE_ID == 0

NoScope == [scope |-> -1, pos |-> -1]
Location(scope, pos) == [scope |-> scope, pos |-> pos]

ScopeIn(parent) ==
    [parent |-> parent, unordered |-> << >>, sequential |-> << >>]

TypeBinding(name, type) == [name |-> name, type |-> type]

(* store is where the value of a name is: a constant by its number, or     *)
(* size words of a function's variables from an index.                     *)
ConstantStore(constant) ==
    [kind |-> "constant", constant |-> constant, index |-> 0, size |-> 0,
     function_id |-> -1]
VariableStore(index, size, function_id) ==
    [kind |-> "variable", constant |-> 0, index |-> index, size |-> size,
     function_id |-> function_id]
ValueBinding(name, type, store) == [name |-> name, type |-> type, store |-> store]

(* ast_data_default: a root scope with the names of the scalars.           *)
DefaultBindings ==
    [scopes |-> <<[ScopeIn(NoScope) EXCEPT !.unordered =
                      [k \in DOMAIN ScalarNames |->
                          [kind |-> "type", index |-> k - 1]]]>>,
     type  |-> [k \in DOMAIN ScalarNames |-> TypeBinding(ScalarNames[k], k - 1)],
     value |-> << >>]

Scope(b, scope) == b.scopes[scope + 1]

get_binding(b, id) == b[id.kind][id.index + 1]

scope_end_location(b, scope) == Location(scope, Len(Scope(b, scope).sequential))

(* A new scope, as the last one.                                           *)
scope_new(b, parent) == [b EXCEPT !.scopes = Append(@, ScopeIn(parent))]
LastScope(b) == Location(Len(b.scopes) - 1, 0)

-----------------------------------------------------------------------------
(* Finding a name: the answer is a set of at most one id.                  *)

Least(S) == CHOOSE x \in S : \A y \in S : x <= y
Greatest(S) == CHOOSE x \in S : \A y \in S : x >= y
Lower(m, n) == IF m <= n THEN m ELSE n

find_binding_in_scope(b, location, name) ==
    LET s == Scope(b, location.scope)
        Named(ids, n) == {k \in 1 .. n : get_binding(b, ids[k]).name = name}
        unordered == Named(s.unordered, Len(s.unordered))
        sequential == Named(s.sequential, Lower(location.pos, Len(s.sequential)))
    IN  IF unordered # {} THEN {s.unordered[Least(unordered)]}
        ELSE {s.sequential[k] : k \in {Greatest(sequential) : x \in sequential}}

RECURSIVE find_binding(_, _, _)

find_binding(b, location, name) ==
    IF location.scope = -1 THEN {}
    ELSE LET found == find_binding_in_scope(b, location, name)
         IN  IF found # {} THEN found
             ELSE find_binding(b, Scope(b, location.scope).parent, name)

-----------------------------------------------------------------------------
(* alloc_binding_entry, for values.                                        *)

NextValue_AfterPush(b) == [kind |-> "value", index |-> Len(b.value) + 1]

NextValue(b) == [kind |-> "value", index |-> Len(b.value)]

WithValue(b, binding, scope, order) ==
    [b EXCEPT !.value = Append(@, binding),
              !.scopes[scope + 1][order] = Append(@, NextValue(b))]

(* Whether a name may be bound at a location.                              *)
Available(b, location, name) == find_binding_in_scope(b, location, name) = {}

(* insert_value_binding, push_value_binding: the name must be available.   *)
insert_value_binding(b, scope, binding) == WithValue(b, binding, scope, "unordered")

push_value_binding(b, scope, binding) == WithValue(b, binding, scope, "sequential")
=============================================================================
