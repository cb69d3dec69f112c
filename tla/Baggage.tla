------------------------------- MODULE Baggage -------------------------------
(***************************************************************************)
(* Baggage, propagation/baggage: the registered fields of a request that   *)
(* its span context refers to.                                             *)
(*                                                                         *)
(* Span contexts are copied, the baggage they refer to is not: objects are *)
(* in a heap, a sequence, and a reference is an index, 0 for nil.  A field *)
(* that is not there has no values.  Keys are taken to be in lower case.   *)
(*                                                                         *)
(* Definitions marked Mutant stand before the one they vary: a slip that   *)
(* the properties must catch.  Nothing else uses them.                     *)
(***************************************************************************)
EXTENDS Naturals, Sequences

CONSTANT Keys

NoFields == [key \in Keys |-> <<>>]

Object(registry) == [registry |-> registry, fields |-> NoFields]

\* Mutant: the handler shares its fields as it shares its registry.
NewShared(heap, registry) ==
    LET same == {k \in DOMAIN heap : heap[k].registry = registry}
    IN  IF same # {} THEN [heap |-> heap, ref |-> CHOOSE k \in same : TRUE]
        ELSE [heap |-> Append(heap, Object(registry)), ref |-> Len(heap) + 1]

\* New of a handler with this registry.
New(heap, registry) ==
    [heap |-> Append(heap, Object(registry)), ref |-> Len(heap) + 1]

\* Mutant: Add takes every field.
AddAny(bag, key, values) == [bag EXCEPT !.fields[key] = @ \o values]

\* Add, Set and Delete return whether the field is registered, and do nothing if not.
Add(bag, key, values) ==
    IF values # <<>> /\ key \in bag.registry
    THEN [bag EXCEPT !.fields[key] = @ \o values] ELSE bag

Set(bag, key, values) ==
    IF values # <<>> /\ key \in bag.registry
    THEN [bag EXCEPT !.fields[key] = values] ELSE bag

Delete(bag, key) ==
    IF key \in bag.registry THEN [bag EXCEPT !.fields[key] = <<>>] ELSE bag

\* A server adds all the headers of the request to a new object.
AddAll(bag, headers) ==
    [bag EXCEPT !.fields = [key \in Keys |-> Add(bag, key, headers[key]).fields[key]]]

\* Iterate, as the HTTP client does it: http.Header.Add of each value.
IterateHTTP(bag, headers) == [key \in Keys |-> headers[key] \o bag.fields[key]]

\* Iterate, as the gRPC client does it: MD.Set, which does nothing for no values.
IterateGRPC(bag, headers) ==
    [key \in Keys |-> IF bag.fields[key] = <<>> THEN headers[key] ELSE bag.fields[key]]
=============================================================================
