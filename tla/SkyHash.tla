------------------------------ MODULE SkyHash ------------------------------
(* src/sky/src/sky_hash.c: a table of the C library (hcreate_r, hsearch_r,   *)
(* hdestroy_r) whose size is fixed when it is made, and copies of the keys.  *)
(* The library compares and keeps pointers to strings that it does not own;  *)
(* the copies are chained in key_array, so that destroy can free them.  Any  *)
(* allocation may fail.  A call is one step: the code has no lock and is for *)
(* one thread at a time.                                                     *)
(*                                                                           *)
(* A definition named for a fault (EnterCallersKey) is a variant of the one  *)
(* that follows it and no action uses it.                                    *)
EXTENDS Naturals, Sequences, FiniteSets

CONSTANTS Key, Value, None,
          Sizes,    \* bound: the sizes callers ask for
          Modulus,  \* of uint32_t: 2^32 in the program
          Spare,    \* entries added to the size: 10 in the program
          Object    \* bound: memory objects, numbered

\* hcreate_r(3) raises the number of entries to an odd prime of at least 3.
Raised(nel) == IF nel < 3 THEN 3 ELSE nel
FirstPrime(nel, p) ==
    /\ \A d \in 2..(p - 1) : p % d # 0
    /\ \A q \in Raised(nel)..(p - 1) : \E d \in 2..(q - 1) : q % d = 0
hcreate_r(nel) == CHOOSE p \in Raised(nel)..(2 * nel + 3) : FirstPrime(nel, p)

\* There is a prime between any number and its double, so hcreate_r ends.
HashAssumption ==
    /\ None \notin Key \cup Value \cup {"added", "refused", "node"} /\ None \notin Sizes
    /\ Modulus \in Nat \ {0} /\ Spare \in Nat
    /\ Sizes \subseteq 0..(Modulus - 1) /\ Object \subseteq Nat \ {0}
    /\ \A n \in Sizes : LET nel == (n + Spare) % Modulus
                        IN  \E p \in Raised(nel)..(2 * nel + 3) : FirstPrime(nel, p)

VARIABLES
    size,       \* what the caller asked for, None when there is no table
    room, htab, \* the library's table: its size and its entries
    key_array,  \* the copies: a sequence of [node, str], newest first
    heap,       \* what each object holds: a node, a key's characters, or None
    answer,     \* of the last call
    cramped     \* history: how full the table was when it refused a key

vars == <<size, room, htab, key_array, heap, answer, cramped>>

Caller == 0  \* memory of the caller's, which may change after the call

Init == /\ size = None /\ room = 0 /\ htab = {} /\ key_array = <<>>
        /\ heap = [o \in Object |-> None] /\ answer = None /\ cramped = None

Live == size # None
----------------------------------------------------------------------------
(* The library *)

\* The entries under a key, found by the characters their keys point to.
FIND(k) == {e \in htab : e.key \in Object /\ heap[e.key] = k}

\* The first two free objects.
Free == {o \in Object : heap[o] = None}
TwoFree(node, str) == /\ node \in Free /\ str \in Free /\ node < str
                      /\ \A o \in Free : o = node \/ str <= o
----------------------------------------------------------------------------
\* A create that fails leaves nothing behind and needs no action.
sky_hash_create(n) ==
    /\ ~Live
    /\ size' = n /\ room' = hcreate_r((n + Spare) % Modulus)
    /\ answer' = None /\ cramped' = None
    /\ UNCHANGED <<htab, key_array, heap>>

Nodes == {key_array[i].node : i \in 1..Len(key_array)}
Strs == {key_array[i].str : i \in 1..Len(key_array)}

FreeCopies ==
    /\ heap' = [o \in Object |-> IF o \in Nodes \cup Strs THEN None ELSE heap[o]]
    /\ key_array' = <<>>

sky_hash_destroy ==
    /\ Live
    /\ FreeCopies
    /\ htab' = {} /\ room' = 0 /\ size' = None
    /\ answer' = None /\ cramped' = None
----------------------------------------------------------------------------
(* sky_hash_add *)

\* A key that the table has keeps its entry and gets the new value.
AddUpdates(k, v) ==
    /\ Live
    /\ \E e \in FIND(k) : htab' = (htab \ {e}) \cup {[e EXCEPT !.data = v]}
    /\ answer' = "added"
    /\ UNCHANGED <<size, room, key_array, heap, cramped>>

Refuses(k) == /\ Live /\ FIND(k) = {}
              /\ answer' = "refused"
              /\ UNCHANGED <<size, room, htab, key_array>>

\* No memory for the node.
AddWithoutNode(k) == Refuses(k) /\ UNCHANGED <<heap, cramped>>

\* No memory for the string: the node is freed again.
AddWithoutString(k) == Refuses(k) /\ UNCHANGED <<heap, cramped>>

\* The table is full: both are freed again.
AddToFull(k) == /\ Refuses(k) /\ Cardinality(htab) = room
                /\ cramped' = Cardinality(htab)
                /\ UNCHANGED heap

Enters(k, v, own) ==
    /\ Live /\ Cardinality(htab) < room
    /\ \E node, str \in Free :
          /\ TwoFree(node, str)
          /\ heap' = [heap EXCEPT ![node] = "node", ![str] = k]
          /\ htab' = htab \cup {[key |-> IF own THEN str ELSE Caller, data |-> v]}
          /\ key_array' = <<[node |-> node, str |-> str]>> \o key_array
    /\ answer' = "added"
    /\ UNCHANGED <<size, room, cramped>>

EnterCallersKey(k, v) == FIND(k) = {} /\ Enters(k, v, FALSE)

AddEnters(k, v) == FIND(k) = {} /\ Enters(k, v, TRUE)

sky_hash_add(k, v) ==
    \/ AddUpdates(k, v) \/ AddWithoutNode(k) \/ AddWithoutString(k)
    \/ AddToFull(k) \/ AddEnters(k, v)
----------------------------------------------------------------------------
sky_hash_find(k) ==
    /\ Live
    /\ IF FIND(k) = {} THEN answer' = None ELSE \E e \in FIND(k) : answer' = e.data
    /\ UNCHANGED <<size, room, htab, key_array, heap, cramped>>

Next == \/ \E n \in Sizes : sky_hash_create(n)
        \/ sky_hash_destroy
        \/ \E k \in Key : sky_hash_find(k) \/ \E v \in Value : sky_hash_add(k, v)

Spec == Init /\ [][Next]_vars
----------------------------------------------------------------------------
(* Properties *)

\* Every variable has its type; the library's table never outgrows its room and
\* is empty when there is no handle.
TypeOK ==
    /\ size \in Sizes \cup {None} /\ room \in Nat /\ Cardinality(htab) <= room
    /\ htab \subseteq [key : Object \cup {Caller}, data : Value]
    /\ key_array \in Seq([node : Object, str : Object])
    /\ heap \in [Object -> Key \cup {"node", None}]
    /\ answer \in Value \cup {"added", "refused", None}
    /\ cramped \in Nat \cup {None}

\* The table's keys are the copies in key_array, one each, and the copies are
\* all the memory there is: no key points to memory that the caller may change
\* or that is freed, and no failed add, however it fails, leaves memory behind.
KeysOwned ==
    /\ {e.key : e \in htab} = Strs
    /\ Nodes \cup Strs = Object \ Free
    /\ Cardinality(htab) = Len(key_array)
    /\ Cardinality(Nodes \cup Strs) = 2 * Len(key_array)

\* A caller that asked for n entries can add n different keys: the table
\* refuses for want of room only when it has them, unless n is so near 2^32
\* that n + 10 wraps.
RoomForSize ==
    Live /\ cramped # None /\ size + Spare < Modulus => cramped >= size

DataOf(k) == IF FIND(k) = {} THEN None ELSE (CHOOSE e \in FIND(k) : TRUE).data
Mapped == [k \in Key |-> DataOf(k)]

\* The table is the map of SkyHashSpec.
Abstract == INSTANCE SkyHashSpec WITH live <- Live, map <- Mapped

ImplementsHash == Abstract!Spec
=============================================================================
