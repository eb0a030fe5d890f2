------------------------------- MODULE SkyMap -------------------------------
(* src/sky/src/sky_map.c: a map is two vectors of pointers to strings, one   *)
(* string for each key and one for each value, each in a block of its own.   *)
(* A step is one allocation, which succeeds or fails, with the code up to    *)
(* the next one.  The calls of a program that uses one thread: the map has   *)
(* no lock.                                                                  *)
(*                                                                           *)
(* A NULL vector is the empty sequence; the length of a sequence is the      *)
(* number of slots allocated, which may exceed count.  sky_map_create and    *)
(* sky_map_clone change nothing when the first malloc fails.                 *)
(*                                                                           *)
(* kept is a history variable: a pointer from sky_map_getvaluefromkey that   *)
(* the caller still holds.  UndoKeepsKeys, CloneForgetsKeys and the other    *)
(* definitions the actions do not use are faulty variants of the definition  *)
(* that follows; README.md tells which property each one breaks.             *)
EXTENDS Integers, Sequences, SequencesExt

CONSTANTS Map,       \* bound: map handles open at once
          Key, Value,
          MaxBlock,  \* bound: strings allocated at once
          NULL,
          Accepted   \* the pairs the filter callback lets through

MapStruct == [keys : Seq(0..MaxBlock), values : Seq(0..MaxBlock), count : Nat,
              mapFilterCallback : BOOLEAN]

ASSUME MapAssumption == /\ MaxBlock \in Nat /\ Accepted \subseteq Key \X Value
                        /\ NULL \notin Map \cup Key \cup Value \cup MapStruct
                        /\ NULL \notin [Key -> Value \cup {NULL}]

VARIABLES
    map,     \* the SKY_HANDLE_MAP structures
    str,     \* the blocks of the heap and the strings in them
    pc, call, result,
    vec,     \* the vectors sky_map_clone is filling
    kept

vars == <<map, str, pc, call, result, vec, kept>>

Block == 1..MaxBlock
NoCall == [op |-> "none", map |-> NULL, key |-> NULL, value |-> NULL, to |-> NULL]
NoVec == [keys |-> <<>>, values |-> <<>>]
NotKept == [map |-> NULL, key |-> NULL, ptr |-> 0]

Open == {m \in Map : map[m] # NULL}

Init == /\ map = [m \in Map |-> NULL]
        /\ str = [b \in Block |-> NULL]
        /\ pc = "idle" /\ call = NoCall /\ result = "none"
        /\ vec = NoVec /\ kept = NotKept
----------------------------------------------------------------------------
\* malloc takes the lowest free block, so that freed ones are soon used again.
Free(b) == str[b] = NULL /\ \A c \in 1..(b - 1) : str[c] # NULL

FreeAll(bs) == str' = [b \in Block |-> IF b \in bs THEN NULL ELSE str[b]]

Return(r) == pc' = "idle" /\ call' = NoCall /\ result' = r

Goto(l) == pc' = l /\ UNCHANGED <<call, result>>

Invoke(op, m, k, v, n) ==
    /\ pc = "idle" /\ m \in Open
    /\ pc' = op
    /\ call' = [op |-> op, map |-> m, key |-> k, value |-> v, to |-> n]
    /\ result' = "none"
    /\ UNCHANGED <<map, str, vec, kept>>

This == map[call.map]

\* The first slot whose string is s; 0 for a pointer that is NULL.
Find(vector, count, s) ==
    LET hits == {i \in 1..count : str[vector[i]] = s} IN
    IF hits = {} THEN 0 ELSE CHOOSE i \in hits : \A j \in hits : i <= j

findKey(key) == Find(This.keys, This.count, key)
findValue(value) == Find(This.values, This.count, value)

Rejected == This.mapFilterCallback /\ <<call.key, call.value>> \notin Accepted

Becomes(data) == map' = [map EXCEPT ![call.map] = data]
----------------------------------------------------------------------------
(* Storage *)

\* realloc to n slots; the new one, if there is one, is set to NULL.
Resized(vector, n) == [i \in 1..n |-> IF i <= Len(vector) THEN vector[i] ELSE 0]
Cleared(vector, n) == [Resized(vector, n) EXCEPT ![n] = 0]

\* realloc to fewer slots: its failure is ignored, and what the slots past
\* count still hold is never read.
Unread(vector, n) == [i \in 1..Len(vector) |-> IF i <= n THEN vector[i] ELSE 0]
Shrunk(vector, n) == {Unread(vector, n), Resized(vector, n)}

\* What is left after the last slot is given back.  The map's last pair takes
\* the vectors and the filter with it.
DecreaseByOne(data) ==
    [keys : Shrunk(data.keys, data.count - 1), values : Shrunk(data.values, data.count - 1),
     count : {data.count - 1}, mapFilterCallback : {data.mapFilterCallback}]

Map_DecreaseStorageKeysValues(data) ==
    IF data.count = 1
      THEN {[keys |-> <<>>, values |-> <<>>, count |-> 0, mapFilterCallback |-> FALSE]}
      ELSE DecreaseByOne(data)

\* Map_IncreaseStorageKeysValues: first the keys, ...
GrowKeys ==
    /\ pc = "grow_keys"
    /\ \/ /\ Becomes([This EXCEPT !.keys = Cleared(@, This.count + 1)])
          /\ Goto("grow_values")
       \/ Return("MAP_ERROR") /\ UNCHANGED map
    /\ UNCHANGED <<str, vec, kept>>

ValuesGrown ==
    /\ Becomes([This EXCEPT !.values = Cleared(@, This.count + 1), !.count = @ + 1])
    /\ Goto("copy_key")

UndoKeepsKeys ==
    /\ pc = "grow_values"
    /\ ValuesGrown \/ (Return("MAP_ERROR") /\ UNCHANGED map)
    /\ UNCHANGED <<str, vec, kept>>

\* ... then the values; on failure the keys shrink again.
GrowValues ==
    /\ pc = "grow_values"
    /\ \/ ValuesGrown
       \/ /\ \E ks \in IF This.count = 0 THEN {<<>>} ELSE Shrunk(This.keys, This.count) :
                Becomes([This EXCEPT !.keys = ks])
          /\ Return("MAP_ERROR")
    /\ UNCHANGED <<str, vec, kept>>
----------------------------------------------------------------------------
(* insertNewKeyValue: the copies of the two strings *)

CopyKey ==
    /\ pc = "copy_key"
    /\ \/ \E b \in Block :
             /\ Free(b)
             /\ str' = [str EXCEPT ![b] = call.key]
             /\ Becomes([This EXCEPT !.keys[This.count] = b])
             /\ Goto("copy_value")
       \/ /\ \E data \in Map_DecreaseStorageKeysValues(This) : Becomes(data)
          /\ Return("MAP_ERROR")
          /\ UNCHANGED str
    /\ UNCHANGED <<vec, kept>>

ValueCopied == \E b \in Block : /\ Free(b)
                                /\ str' = [str EXCEPT ![b] = call.value]
                                /\ Becomes([This EXCEPT !.values[This.count] = b])
                                /\ Return("MAP_OK")

CopyValue ==
    /\ pc = "copy_value"
    /\ \/ ValueCopied
       \/ /\ FreeAll({This.keys[This.count]})
          /\ \E data \in Map_DecreaseStorageKeysValues(This) : Becomes(data)
          /\ Return("MAP_ERROR")
    /\ UNCHANGED <<vec, kept>>
----------------------------------------------------------------------------
(* The calls *)

sky_map_create(m, filter) ==
    /\ pc = "idle" /\ m \notin Open
    /\ map' = [map EXCEPT ![m] = [keys |-> <<>>, values |-> <<>>, count |-> 0,
                                  mapFilterCallback |-> filter]]
    /\ UNCHANGED <<str, pc, call, result, vec, kept>>

\* The strings the first count slots of a map's vectors point to.
Strings(m) == {map[m].keys[i] : i \in 1..map[m].count} \cup
              {map[m].values[i] : i \in 1..map[m].count}

sky_map_destroy(m) ==
    /\ pc = "idle" /\ m \in Open
    /\ FreeAll(Strings(m))
    /\ map' = [map EXCEPT ![m] = NULL]
    /\ kept' = IF kept.map = m THEN NotKept ELSE kept
    /\ UNCHANGED <<pc, call, result, vec>>

sky_map_add ==
    /\ pc = "add"
    /\ \/ findKey(call.key) # 0 /\ Return("MAP_KEYEXISTS")
       \/ findKey(call.key) = 0 /\ Rejected /\ Return("MAP_FILTER_REJECT")
       \/ findKey(call.key) = 0 /\ ~Rejected /\ Goto("grow_keys")
    /\ UNCHANGED <<map, str, vec, kept>>

\* realloc of the value's block, in place or elsewhere.
Update(i) ==
    \/ \E b \in Block :
          /\ b = This.values[i] \/ Free(b)
          /\ str' = [str EXCEPT ![This.values[i]] = NULL, ![b] = call.value]
          /\ Becomes([This EXCEPT !.values[i] = b])
          /\ kept' = IF <<kept.map, kept.key>> = <<call.map, call.key>> THEN NotKept ELSE kept
          /\ Return("MAP_OK")
    \/ Return("MAP_ERROR") /\ UNCHANGED <<map, str, kept>>

UpdateUnfiltered ==
    /\ pc = "addorupdate"
    /\ \/ findKey(call.key) = 0 /\ Rejected
             /\ Return("MAP_FILTER_REJECT") /\ UNCHANGED <<map, str, kept>>
       \/ findKey(call.key) = 0 /\ ~Rejected /\ Goto("grow_keys") /\ UNCHANGED <<map, str, kept>>
       \/ findKey(call.key) # 0 /\ Update(findKey(call.key))
    /\ UNCHANGED vec

sky_map_addorupdate ==
    /\ pc = "addorupdate"
    /\ \/ Rejected /\ Return("MAP_FILTER_REJECT") /\ UNCHANGED <<map, str, kept>>
       \/ /\ ~Rejected /\ findKey(call.key) = 0
          /\ Goto("grow_keys") /\ UNCHANGED <<map, str, kept>>
       \/ ~Rejected /\ findKey(call.key) # 0 /\ Update(findKey(call.key))
    /\ UNCHANGED vec

\* memmove of the slots behind slot i; the last one keeps its pointer, too.
MovedUp(vector, i, count) ==
    [j \in 1..Len(vector) |-> IF i <= j /\ j < count THEN vector[j + 1] ELSE vector[j]]

DeleteWith(moved) ==
    /\ pc = "delete"
    /\ LET i == findKey(call.key) IN
          \/ i = 0 /\ Return("MAP_KEYNOTFOUND") /\ UNCHANGED <<map, str, kept>>
          \/ /\ i # 0
             /\ FreeAll({This.keys[i], This.values[i]})
             /\ \E data \in Map_DecreaseStorageKeysValues(moved) : Becomes(data)
             /\ kept' = IF <<kept.map, kept.key>> = <<call.map, call.key>>
                          THEN NotKept ELSE kept
             /\ Return("MAP_OK")
    /\ UNCHANGED vec

DeleteMovesKeysOnly ==
    DeleteWith([This EXCEPT !.keys = MovedUp(@, findKey(call.key), This.count)])

sky_map_delete ==
    DeleteWith([This EXCEPT !.keys = MovedUp(@, findKey(call.key), This.count),
                            !.values = MovedUp(@, findKey(call.key), This.count)])

Truth(b) == IF b THEN "true" ELSE "false"

sky_map_containskey ==
    /\ pc = "containskey"
    /\ Return(Truth(findKey(call.key) # 0))
    /\ UNCHANGED <<map, str, vec, kept>>

sky_map_containsvalue ==
    /\ pc = "containsvalue"
    /\ Return(Truth(findValue(call.value) # 0))
    /\ UNCHANGED <<map, str, vec, kept>>

sky_map_getvaluefromkey ==
    /\ pc = "getvaluefromkey"
    /\ LET i == findKey(call.key) IN
          \/ i = 0 /\ Return(NULL) /\ UNCHANGED kept
          \/ /\ i # 0
             /\ Return(str[This.values[i]])
             /\ kept' = [map |-> call.map, key |-> call.key, ptr |-> This.values[i]]
    /\ UNCHANGED <<map, str, vec>>
----------------------------------------------------------------------------
(* sky_map_clone *)

sky_map_clone ==
    /\ pc = "clone"
    /\ \/ This.count # 0 /\ Goto("clonevector") /\ UNCHANGED map
       \/ /\ This.count = 0
          /\ map' = [map EXCEPT ![call.to] = [keys |-> <<>>, values |-> <<>>, count |-> 0,
                                              mapFilterCallback |-> FALSE]]
          /\ Return("handle")
       \/ Return(NULL) /\ UNCHANGED map
    /\ UNCHANGED <<str, vec, kept>>

Filling == IF Len(vec.keys) < This.count THEN "keys" ELSE "values"
Filled == Len(vec.values) = This.count

CloneString ==
    /\ pc = "clonevector" /\ ~Filled
    /\ \E b \in Block :
          /\ Free(b)
          /\ str' = [str EXCEPT ![b] = str[This[Filling][Len(vec[Filling]) + 1]]]
          /\ vec' = [vec EXCEPT ![Filling] = Append(@, b)]
    /\ UNCHANGED <<map, pc, call, result, kept>>

CloneForgetsKeys ==
    /\ pc = "clonevector" /\ ~Filled
    /\ FreeAll(IF Filling = "keys" THEN ToSet(vec.keys) ELSE ToSet(vec.values))
    /\ vec' = NoVec
    /\ Return(NULL)
    /\ UNCHANGED <<map, kept>>

\* A vector or a string cannot be allocated: free what was copied so far.
CloneFails ==
    /\ pc = "clonevector" /\ ~Filled
    /\ FreeAll(ToSet(vec.keys) \cup ToSet(vec.values))
    /\ vec' = NoVec
    /\ Return(NULL)
    /\ UNCHANGED <<map, kept>>

CloneDoneWith(filter) ==
    /\ pc = "clonevector" /\ Filled
    /\ map' = [map EXCEPT ![call.to] = [keys |-> vec.keys, values |-> vec.values,
                                        count |-> This.count, mapFilterCallback |-> filter]]
    /\ vec' = NoVec
    /\ Return("handle")
    /\ UNCHANGED <<str, kept>>

CloneDropsFilter == CloneDoneWith(FALSE)

CloneDone == CloneDoneWith(This.mapFilterCallback)
----------------------------------------------------------------------------
Call(m) ==
    \/ \E filter \in BOOLEAN : sky_map_create(m, filter)
    \/ sky_map_destroy(m)
    \/ \E k \in Key, v \in Value : \/ Invoke("add", m, k, v, NULL)
                                   \/ Invoke("addorupdate", m, k, v, NULL)
    \/ \E k \in Key : \/ Invoke("delete", m, k, NULL, NULL)
                      \/ Invoke("containskey", m, k, NULL, NULL)
                      \/ Invoke("getvaluefromkey", m, k, NULL, NULL)
    \/ \E v \in Value : Invoke("containsvalue", m, NULL, v, NULL)
    \/ \E n \in Map \ Open : Invoke("clone", m, NULL, NULL, n)

Next == \/ \E m \in Map : Call(m)
        \/ sky_map_add \/ sky_map_addorupdate \/ sky_map_delete
        \/ sky_map_containskey \/ sky_map_containsvalue \/ sky_map_getvaluefromkey
        \/ GrowKeys \/ GrowValues \/ CopyKey \/ CopyValue
        \/ sky_map_clone \/ CloneString \/ CloneFails \/ CloneDone

Spec == Init /\ [][Next]_vars
----------------------------------------------------------------------------
(* Properties *)

\* Every variable has its type; count never goes below zero.
TypeOK ==
    /\ map \in [Map -> MapStruct \cup {NULL}]
    /\ str \in [Block -> Key \cup Value \cup {NULL}]
    /\ kept.ptr \in 0..MaxBlock

\* The pairs a caller can see: the one being inserted is not among them.
Inserting(m) == m = call.map /\ pc \in {"copy_key", "copy_value"}
Pairs(m) == 1..(IF Inserting(m) THEN map[m].count - 1 ELSE map[m].count)

\* Between calls, a map without pairs has no vectors and a map with pairs has
\* at least a slot of each vector for each pair, whatever realloc refused.
VectorsSized ==
    /\ TypeOK
    /\ pc = "idle" => \A m \in Open :
          LET d == map[m] IN
          IF d.count = 0 THEN d.keys = <<>> /\ d.values = <<>>
                         ELSE Len(d.keys) >= d.count /\ Len(d.values) >= d.count

\* The places that own a string: the slots of the maps up to count, and the
\* slots sky_map_clone has filled.  An owner is <<map, vector, slot, block>>.
MapOwners(m) == {<<m, f, i, map[m][f][i]>> : f \in {"keys", "values"}, i \in 1..map[m].count}
VecOwners(f) == {<<NULL, f, i, vec[f][i]>> : i \in DOMAIN vec[f]}
AllOwners == (UNION {MapOwners(m) : m \in Open}) \cup VecOwners("keys") \cup VecOwners("values")
Owners == {o \in AllOwners : o[4] # 0}

\* Every string allocated is owned by exactly one slot, and a slot owns a
\* string that is allocated: nothing leaks, nothing is freed twice, no two maps
\* share a string, a clone least of all, whichever allocation failed.
StringsOwned ==
    LET owners == Owners IN
    /\ \A o, p \in owners : o[4] = p[4] => o = p
    /\ {o[4] : o \in owners} = {b \in Block : str[b] # NULL}

\* The pairs the caller put in are the pairs that passed the filter, for as
\* long as the map has it.
FilterHonoured ==
    \A m \in Open : \A i \in Pairs(m) :
        map[m].mapFilterCallback => <<str[map[m].keys[i]], str[map[m].values[i]]>> \in Accepted

\* A pointer from sky_map_getvaluefromkey stays good until its key is updated
\* or deleted or the map is destroyed: adding and deleting other keys, and
\* every failed call, leave it alone.
PointerKept ==
    kept # NotKept => /\ kept.map \in Open
                      /\ \E i \in Pairs(kept.map) : /\ str[map[kept.map].keys[i]] = kept.key
                                                    /\ map[kept.map].values[i] = kept.ptr

ValueOf(m, k) ==
    LET at == {i \in Pairs(m) : str[map[m].keys[i]] = k} IN
    IF at = {} THEN NULL ELSE str[map[m].values[CHOOSE i \in at : TRUE]]

Content == [m \in Map |-> IF m \in Open THEN [k \in Key |-> ValueOf(m, k)] ELSE NULL]

Filtered == [m \in Map |-> IF m \in Open THEN map[m].mapFilterCallback ELSE FALSE]

Abs == INSTANCE SkyMapSpec WITH content <- Content, filtered <- Filtered

\* The vectors implement a map: every call does what it promises or, without
\* memory, returns an error and has changed no pair of any map.
ImplementsMap == Abs!Spec
=============================================================================
