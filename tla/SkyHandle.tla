----------------------------- MODULE SkyHandle -----------------------------
(* src/sky/src/sky.c, sky_close_handle: every object of the library is a     *)
(* pointer without a type, and closing one chooses its destroy function by   *)
(* the second 16 bits of what the pointer points to (struct sky_handle).     *)
(* Seven structures carry their type there.  A map does not: its structure   *)
(* begins with the pointer keys, of which these are bits 16 to 31.           *)
(*                                                                           *)
(* destroyed is a history variable.                                          *)
EXTENDS Naturals, Sequences

CONSTANTS Address,  \* bound: objects at once
          None,
          KeysBits  \* bound: bits 16 to 31 of addresses that keys can have

HandleAssumption == KeysBits \subseteq 0..65535

VARIABLES
    object,    \* what is at each address: [kind, type], None where it is free
    destroyed  \* the last close: the kind it was to close, what it destroyed

vars == <<object, destroyed>>

SKY_HANDLE_TYPE == [critical_section |-> 1, list |-> 2, rwlock |-> 3, share_memory |-> 4,
                    timer |-> 5, regex |-> 6, hash |-> 7, dll |-> 8, map |-> 9]

\* The kinds that can be created and write their type: there are no timers.
Headed == DOMAIN SKY_HANDLE_TYPE \ {"timer", "map"}

Init == /\ object = [a \in Address |-> None]
        /\ destroyed = None

Put(a, k, bits) == object' = [object EXCEPT ![a] = [kind |-> k, type |-> bits]]
----------------------------------------------------------------------------
Create(a, k) ==
    /\ object[a] = None /\ k \in Headed
    /\ Put(a, k, SKY_HANDLE_TYPE[k])
    /\ destroyed' = None

sky_map_create(a) ==
    /\ object[a] = None
    /\ Put(a, "map", 0)
    /\ destroyed' = None

\* An insertion or a deletion moves keys, or frees it and leaves NULL.
MapChanges(a) ==
    /\ object[a] # None /\ object[a].kind = "map"
    /\ \E bits \in KeysBits \cup {0} : Put(a, "map", bits)
    /\ destroyed' = None
----------------------------------------------------------------------------
\* The destroy functions that run on an object with this type.
Dispatch(type) ==
    SelectSeq(<<"critical_section", "list", "hash", "regex", "dll", "rwlock",
                "share_memory", "map">>, LAMBDA k : SKY_HANDLE_TYPE[k] = type)

\* The destroy functions free what they are given, whatever it is.
sky_close_handle(a) ==
    /\ object[a] # None
    /\ LET run == Dispatch(object[a].type) IN
          /\ destroyed' = [kind |-> object[a].kind, by |-> run]
          /\ object' = [object EXCEPT ![a] = IF run = <<>> THEN @ ELSE None]

Next == \E a \in Address :
           \/ \E k \in Headed : Create(a, k)
           \/ sky_map_create(a) \/ MapChanges(a)
           \/ sky_close_handle(a)

Spec == Init /\ [][Next]_vars
----------------------------------------------------------------------------
(* Properties *)

\* sky.c:151-152: "case SKY_HANDLE_TYPE_MAP: sky_map_destroy( object_handle );",
\* the only way a program has to destroy a map (sky_map.h:20 takes
\* sky_map_destroy out of the interface).
MapClosed == destroyed # None /\ destroyed.kind = "map" => destroyed.by = <<"map">>
=============================================================================
