---------------------------- MODULE SkyMapProofs ----------------------------
(* Proofs about the map, for any number of maps, keys and values, any heap   *)
(* and any filter, whichever allocations fail.                               *)
(*                                                                           *)
(* Shape says what the variables look like at each point of a call: the      *)
(* vectors have room for the pairs (Sized), and the slots of the pairs a     *)
(* caller can see are not NULL (Pointed).                                    *)
(*                                                                           *)
(* Once and Accounted are StringsOwned, slot by slot. Owns names the owner   *)
(* of a block, so that a step that writes or frees one string is seen to     *)
(* leave the strings of all others alone (Spared).                           *)
(*                                                                           *)
(* Contents is about the pairs. FilterHonoured and PointerKept are not       *)
(* inductive: an insertion checks key and filter several allocations before  *)
(* the pair is there (Fresh), a clone takes the filter of the map whose      *)
(* strings it has copied one by one (Copied), and an update or a deletion    *)
(* finds one slot, so no other may hold the key (WholePairs).                *)
(*                                                                           *)
(* The pairs of a map give it one content (Stored), which the abstract map   *)
(* of SkyMapSpec has; the steps that change no pair (Quiet) are stutters of  *)
(* it or failures.                                                           *)
EXTENDS SkyMap, SequenceTheorems, WellFoundedInduction, TLAPS

Field == {"keys", "values"}
Insertion == {"grow_keys", "grow_values", "copy_key", "copy_value"}
Operation == {"add", "addorupdate", "delete", "containskey", "containsvalue",
              "getvaluefromkey", "clone"}

\* The variables have their types, those of a call included.
Types ==
    /\ TypeOK
    /\ pc \in {"idle", "clonevector"} \cup Operation \cup Insertion
    /\ call \in [op : Operation \cup {"none"}, map : Map \cup {NULL}, key : Key \cup {NULL},
                 value : Value \cup {NULL}, to : Map \cup {NULL}]
    /\ vec \in [keys : Seq(Block), values : Seq(Block)]
    /\ kept \in [map : Map \cup {NULL}, key : Key \cup {NULL}, ptr : 0..MaxBlock]

\* A call uses an open map, a clone goes to a handle that is not open yet, and
\* where a call is tells which arguments it has.
Calls ==
    /\ pc = "idle" => call = NoCall
    /\ pc # "idle" => call.map \in Open
    /\ pc \in Operation => call.op = pc
    /\ pc \in Insertion => call.op \in {"add", "addorupdate"}
    /\ pc = "clonevector" => call.op = "clone"
    /\ pc \in {"add", "addorupdate", "delete", "containskey", "getvaluefromkey"} \cup Insertion
          => call.key \in Key
    /\ pc \in {"add", "addorupdate", "containsvalue"} \cup Insertion => call.value \in Value
    /\ pc \in {"clone", "clonevector"} => call.to \in Map \ Open
    /\ pc # "clonevector" => vec = NoVec

\* Each vector has a slot for every pair, and the keys one more before the
\* values have grown; a map without pairs has no vectors.
Growing(m) == m = call.map /\ pc = "grow_values"
Sized ==
    \A m \in Open :
       /\ Len(map[m].values) >= map[m].count
       /\ Len(map[m].keys) >= IF Growing(m) THEN map[m].count + 1 ELSE map[m].count
       /\ map[m].count = 0 => map[m].values = <<>> /\ (Growing(m) \/ map[m].keys = <<>>)

\* The slots of the pairs a caller can see are not NULL, and those of the pair
\* being inserted are as far as it got.
Pointed ==
    /\ \A m \in Open : \A f \in Field : \A i \in Pairs(m) : map[m][f][i] \in Block
    /\ pc \in {"copy_key", "copy_value"} => This.count # 0 /\ This.values[This.count] = 0
    /\ pc = "grow_values" => This.keys[This.count + 1] = 0
    /\ pc = "copy_key" => This.keys[This.count] = 0
    /\ pc = "copy_value" => This.keys[This.count] \in Block

Shape == Types /\ Calls /\ Sized /\ Pointed

\* StringsOwned, slot by slot: slot i of vector f of map o, or of the vectors of
\* the clone in progress, owns block b.
Owns(o, f, i, b) ==
    /\ b \in Block /\ f \in Field
    /\ \/ o \in Open /\ i \in 1..map[o].count /\ map[o][f][i] = b
       \/ o = NULL /\ i \in 1..Len(vec[f]) /\ vec[f][i] = b

Once == \A b, o, f, i, p, g, j : Owns(o, f, i, b) /\ Owns(p, g, j, b) => o = p /\ f = g /\ i = j
Accounted == \A b \in Block : (str[b] # NULL) <=> \E o, f, i : Owns(o, f, i, b)

\* A pair is a key and a value, no other pair has the key, and the filter lets
\* it through if the map has one.
KeyAt(m, i) == str[map[m].keys[i]]
ValueAt(m, i) == str[map[m].values[i]]

PairsOf(m) ==
    \A i \in Pairs(m) :
       /\ KeyAt(m, i) \in Key /\ ValueAt(m, i) \in Value
       /\ \A j \in Pairs(m) : KeyAt(m, j) = KeyAt(m, i) => j = i
       /\ map[m].mapFilterCallback => <<KeyAt(m, i), ValueAt(m, i)>> \in Accepted

WholePairs == \A m \in Open : PairsOf(m)

\* What is being inserted is a new key, and it passed the filter.
Fresh ==
    /\ pc \in Insertion => ~Rejected /\ \A i \in Pairs(call.map) : KeyAt(call.map, i) # call.key
    /\ pc = "copy_value" => KeyAt(call.map, This.count) = call.key

\* What a clone has copied so far: the keys first, then the values.
Copied ==
    pc = "clonevector" =>
       /\ This.count # 0
       /\ Len(vec.keys) <= This.count /\ Len(vec.values) <= This.count
       /\ Len(vec.values) # 0 => Len(vec.keys) = This.count
       /\ \A f \in Field : \A i \in 1..Len(vec[f]) : str[vec[f][i]] = str[This[f][i]]

Contents == WholePairs /\ Fresh /\ Copied /\ PointerKept

IInv == Shape /\ Once /\ Accounted /\ Contents
----------------------------------------------------------------------------
(* The operations on vectors. *)

\* realloc keeps the slots there are, and a new last slot is NULL.
LEMMA ResizedVector ==
    ASSUME NEW v \in Seq(0..MaxBlock), NEW n \in Nat
    PROVE  /\ Resized(v, n) \in Seq(0..MaxBlock) /\ Len(Resized(v, n)) = n
           /\ Resized(v, n) \in [1..n -> 0..MaxBlock]
           /\ \A i \in 1..n : i <= Len(v) => Resized(v, n)[i] = v[i]
<1>1. Resized(v, n) \in [1..n -> 0..MaxBlock]
  BY MapAssumption DEF Resized
<1>2. QED
  BY <1>1, MapAssumption DEF Resized

LEMMA ClearedVector ==
    ASSUME NEW v \in Seq(0..MaxBlock), NEW n \in Nat, n <= Len(v)
    PROVE  /\ Cleared(v, n + 1) \in Seq(0..MaxBlock) /\ Len(Cleared(v, n + 1)) = n + 1
           /\ Cleared(v, n + 1)[n + 1] = 0
           /\ \A i \in 1..n : Cleared(v, n + 1)[i] = v[i]
<1>1. /\ Cleared(v, n + 1) \in [1..(n + 1) -> 0..MaxBlock]
      /\ \A i \in 1..(n + 1) :
            Cleared(v, n + 1)[i] = IF i = n + 1 THEN 0 ELSE Resized(v, n + 1)[i]
  <2>1. n + 1 \in Nat /\ n + 1 \in 1..(n + 1) /\ 0 \in 0..MaxBlock
    BY MapAssumption
  <2>2. PICK r \in [1..(n + 1) -> 0..MaxBlock] : r = Resized(v, n + 1)
    BY <2>1, ResizedVector
  <2>3. Cleared(v, n + 1) = [r EXCEPT ![n + 1] = 0]
    BY <2>2 DEF Cleared
  <2>4. QED
    BY <2>1, <2>2, <2>3
<1>2. /\ Cleared(v, n + 1) \in Seq(0..MaxBlock) /\ Len(Cleared(v, n + 1)) = n + 1
  BY <1>1, MapAssumption
<1>3. n + 1 \in Nat /\ n + 1 \in 1..(n + 1)
  OBVIOUS
<1>4. \A i \in 1..(n + 1) : i <= Len(v) => Resized(v, n + 1)[i] = v[i]
  BY <1>3, ResizedVector
<1>5. QED
  BY <1>1, <1>2, <1>3, <1>4

\* Giving slots back leaves the first n alone, whatever realloc answers.
LEMMA ShrunkVector ==
    ASSUME NEW v \in Seq(0..MaxBlock), NEW n \in Nat, n <= Len(v), NEW w \in Shrunk(v, n)
    PROVE  /\ w \in Seq(0..MaxBlock) /\ Len(w) >= n
           /\ \A i \in 1..n : w[i] = v[i]
<1>1. CASE w = Resized(v, n)
  <2>1. /\ w \in Seq(0..MaxBlock) /\ Len(w) = n
        /\ \A i \in 1..n : i <= Len(v) => w[i] = v[i]
    BY <1>1, ResizedVector
  <2>2. \A i \in 1..n : i <= Len(v)
    OBVIOUS
  <2>3. QED
    BY <2>1, <2>2
<1>2. CASE w = Unread(v, n)
  <2>1. w \in [1..Len(v) -> 0..MaxBlock] /\ Len(v) \in Nat
    BY <1>2, MapAssumption DEF Unread
  <2>2. QED
    BY <1>2, <2>1, MapAssumption DEF Unread
<1>3. QED
  BY <1>1, <1>2 DEF Shrunk

LEMMA MovedVector ==
    ASSUME NEW v \in Seq(0..MaxBlock), NEW n \in Nat, n <= Len(v), NEW i \in 1..n
    PROVE  /\ MovedUp(v, i, n) \in Seq(0..MaxBlock) /\ Len(MovedUp(v, i, n)) = Len(v)
           /\ \A j \in 1..(n - 1) : MovedUp(v, i, n)[j] = v[IF j < i THEN j ELSE j + 1]
<1>1. MovedUp(v, i, n) \in [1..Len(v) -> 0..MaxBlock] /\ Len(v) \in Nat
  BY MapAssumption DEF MovedUp
<1>2. QED
  BY <1>1, MapAssumption DEF MovedUp

\* The structure of a map with a slot of each vector for every pair.
Roomy(d) == Len(d.keys) >= d.count /\ Len(d.values) >= d.count

\* The map without its last pair.
LEMMA Decreased ==
    ASSUME NEW d \in MapStruct, Roomy(d), d.count # 0,
           NEW e \in Map_DecreaseStorageKeysValues(d)
    PROVE  /\ e \in MapStruct /\ Roomy(e) /\ e.count = d.count - 1
           /\ e.count = 0 => e.keys = <<>> /\ e.values = <<>>
           /\ e.mapFilterCallback = IF e.count = 0 THEN FALSE ELSE d.mapFilterCallback
           /\ \A f \in Field : \A i \in 1..e.count : e[f][i] = d[f][i]
<1>1. CASE d.count = 1
  <2>1. e = [keys |-> <<>>, values |-> <<>>, count |-> 0, mapFilterCallback |-> FALSE]
    BY <1>1 DEF Map_DecreaseStorageKeysValues
  <2>2. e \in MapStruct /\ e.count = 0 /\ e.keys = <<>> /\ e.values = <<>>
        /\ e.mapFilterCallback = FALSE /\ Len(<<>>) = 0
    BY <2>1 DEF MapStruct
  <2>3. d.count - 1 = 0 /\ 1..0 = {}
    BY <1>1
  <2>4. Roomy(e)
    BY <2>2 DEF Roomy
  <2>5. \A f \in Field : \A i \in 1..e.count : e[f][i] = d[f][i]
    BY <2>2, <2>3
  <2>6. QED
    BY <2>2, <2>3, <2>4, <2>5
<1>2. CASE d.count # 1
  <2>1. e \in DecreaseByOne(d)
    BY <1>2 DEF Map_DecreaseStorageKeysValues
  <2>2. d.keys \in Seq(0..MaxBlock) /\ d.values \in Seq(0..MaxBlock) /\ d.count \in Nat
    BY DEF MapStruct
  <2>3. d.count - 1 \in Nat /\ d.count - 1 # 0
        /\ d.count - 1 <= Len(d.keys) /\ d.count - 1 <= Len(d.values)
    BY <1>2, <2>2 DEF Roomy
  <2>4. /\ e.keys \in Shrunk(d.keys, d.count - 1) /\ e.values \in Shrunk(d.values, d.count - 1)
        /\ e.count = d.count - 1 /\ e.mapFilterCallback = d.mapFilterCallback
    BY <2>1 DEF DecreaseByOne
  <2>5. /\ e.keys \in Seq(0..MaxBlock) /\ Len(e.keys) >= d.count - 1
        /\ \A i \in 1..(d.count - 1) : e.keys[i] = d.keys[i]
    BY <2>2, <2>3, <2>4, ShrunkVector
  <2>6. /\ e.values \in Seq(0..MaxBlock) /\ Len(e.values) >= d.count - 1
        /\ \A i \in 1..(d.count - 1) : e.values[i] = d.values[i]
    BY <2>2, <2>3, <2>4, ShrunkVector
  <2>7. e \in MapStruct
    BY <2>1, <2>2, <2>3, <2>4, <2>5, <2>6 DEF DecreaseByOne, MapStruct
  <2>8. QED
    BY <2>3, <2>4, <2>5, <2>6, <2>7 DEF Roomy, Field
<1>3. QED
  BY <1>1, <1>2

\* A set of numbers has a least one.
LEMMA Least ==
    ASSUME NEW S \in SUBSET Nat, S # {}
    PROVE  \E i \in S : \A j \in S : i <= j
<1>1. \E i \in S : \A j \in S : ~ (<<j, i>> \in OpToRel(<, Nat))
  BY NatLessThanWellFounded, WFMin
<1>2. ASSUME NEW i \in Nat, NEW j \in Nat, j < i
      PROVE  <<j, i>> \in OpToRel(<, Nat)
  <2>1. <<j, i>> \in Nat \X Nat /\ <<j, i>>[1] < <<j, i>>[2]
    BY <1>2
  <2>2. QED
    BY <2>1 DEF OpToRel
<1>3. \A i, j \in Nat : i <= j \/ j < i
  OBVIOUS
<1>4. QED
  BY <1>1, <1>2, <1>3

\* The structure of a map that no call is changing.
Ready(d) == /\ Roomy(d)
            /\ d.count = 0 => d.keys = <<>> /\ d.values = <<>>
            /\ \A f \in Field : \A i \in 1..d.count : d[f][i] \in Block
----------------------------------------------------------------------------
(* Shape: what the variables look like between two steps. *)

\* A call's map is open, and has its structure.
LEMMA CallsMap ==
    ASSUME Shape, pc # "idle"
    PROVE  /\ call.map \in Map /\ call.map \in Open /\ This = map[call.map]
           /\ This \in MapStruct /\ Roomy(This) /\ This.count \in Nat
BY DEF Shape, Types, TypeOK, Calls, Sized, Open, This, Roomy, MapStruct, Growing

LEMMA OpenMap ==
    ASSUME Shape, NEW m \in Open
    PROVE  m \in Map /\ map[m] \in MapStruct /\ Roomy(map[m]) /\ map[m].count \in Nat
BY DEF Shape, Types, TypeOK, Calls, Sized, Open, This, Roomy, MapStruct, Growing

\* A change of one map.
LEMMA Changed ==
    ASSUME Shape, pc # "idle", NEW d \in MapStruct, Becomes(d)
    PROVE  /\ map' \in [Map -> MapStruct \cup {NULL}]
           /\ Open' = Open
           /\ map'[call.map] = d
           /\ \A m \in Map : m # call.map => map'[m] = map[m]
BY CallsMap, MapAssumption DEF Becomes, Open, Shape, Types, TypeOK

LEMMA ShapeInit == Init => Shape
BY MapAssumption DEF Init, Shape, Types, TypeOK, Calls, Sized, Pointed, Open, NoCall, NoVec,
   NotKept, Operation, Insertion, Block

LEMMA ShapeStutter == Shape /\ UNCHANGED vars => Shape'
BY DEF vars, Shape, Types, TypeOK, Calls, Sized, Pointed, Open, This, Pairs, Inserting, Growing

LEMMA ShapeInvoke ==
    ASSUME Shape, NEW op \in Operation, NEW m \in Map, NEW k \in Key \cup {NULL},
           NEW v \in Value \cup {NULL}, NEW n \in Map \cup {NULL},
           Invoke(op, m, k, v, n),
           op \in {"add", "addorupdate", "delete", "containskey", "getvaluefromkey"} => k \in Key,
           op \in {"add", "addorupdate", "containsvalue"} => v \in Value,
           op = "clone" => n \in Map \ Open
    PROVE  Shape'
<1>1. Types'
  BY DEF Invoke, Shape, Types, TypeOK, Open
<1>2. Calls'
  BY DEF Invoke, Shape, Types, TypeOK, Calls, Open, Operation, Insertion
<1>3. Sized'
  BY DEF Invoke, Shape, Sized, Growing, Open, Operation, Types, TypeOK
<1>4. \A o \in Open : Pairs(o) = 1..map[o].count /\ Pairs(o)' = 1..map[o].count /\ o \in Open'
  BY DEF Invoke, Pairs, Inserting, Operation, Open
<1>5. Pointed'
  BY <1>4 DEF Invoke, Shape, Pointed, Open, Operation
<1>6. QED
  BY <1>1, <1>2, <1>3, <1>5 DEF Shape

\* Every map but the one being grown or filled is ready, and a call that
\* returns leaves it so.
LEMMA ReadyMap ==
    ASSUME Shape, NEW m \in Open,
           m = call.map => pc \notin {"grow_values", "copy_key", "copy_value"}
    PROVE  Ready(map[m])
BY OpenMap DEF Shape, Sized, Pointed, Pairs, Inserting, Growing, Ready

StrTyped == str' \in [Block -> Key \cup Value \cup {NULL}]
KeptTyped == kept' \in [map : Map \cup {NULL}, key : Key \cup {NULL}, ptr : 0..MaxBlock]

LEMMA ShapeReturn ==
    ASSUME Shape, NEW r, Return(r),
           map' \in [Map -> MapStruct \cup {NULL}], StrTyped, KeptTyped, vec' = NoVec,
           \A m \in Open' : Ready(map'[m])
    PROVE  Shape'
<1>1. Types'
  <2>1. vec' \in [keys : Seq(Block), values : Seq(Block)]
    BY DEF NoVec
  <2>2. call' \in [op : Operation \cup {"none"}, map : Map \cup {NULL}, key : Key \cup {NULL},
                   value : Value \cup {NULL}, to : Map \cup {NULL}]
    BY DEF Return, NoCall
  <2>3. QED
    BY <2>1, <2>2 DEF Return, Types, TypeOK, StrTyped, KeptTyped
<1>2. Calls'
  BY DEF Return, Calls, Operation, Insertion
<1>3. Sized'
  BY DEF Return, Ready, Roomy, Sized, Growing
<1>4. Pointed'
  BY DEF Return, Ready, Pointed, Pairs, Inserting
<1>5. QED
  BY <1>1, <1>2, <1>3, <1>4 DEF Shape

\* A step of a call to another place, or within a clone.
LEMMA ShapeGoto ==
    ASSUME Shape, pc # "idle",
           pc' \in {"clonevector"} \cup Insertion,
           pc' \in Insertion => pc \in {"add", "addorupdate"} \cup Insertion,
           pc' = "clonevector" => pc \in {"clone", "clonevector"},
           UNCHANGED <<call, kept>>,
           map' \in [Map -> MapStruct \cup {NULL}], StrTyped,
           vec' \in [keys : Seq(Block), values : Seq(Block)],
           pc' # "clonevector" => vec' = NoVec,
           Open' = Open
    PROVE  Types' /\ Calls'
<1>1. Types'
  BY DEF Shape, Types, TypeOK, StrTyped
<1>2. Calls'
  BY DEF Shape, Calls, Operation, Insertion
<1>3. QED
  BY <1>1, <1>2

LEMMA ShapeUnchanged ==
    ASSUME Shape, NEW p \in {"grow_keys", "clonevector"},
           p = "grow_keys" => pc \in {"add", "addorupdate"}, p = "clonevector" => pc = "clone",
           Goto(p), UNCHANGED <<map, str, vec, kept>>
    PROVE  Shape'
<1>1. pc # "idle" /\ Open' = Open /\ vec = NoVec
  BY DEF Shape, Calls, Open
<1>2. Types' /\ Calls'
  BY <1>1, ShapeGoto DEF Goto, Shape, Types, TypeOK, StrTyped, Insertion
<1>3. \A m \in Open : Ready(map[m])
  BY ReadyMap
<1>4. Sized' /\ Pointed'
  BY <1>1, <1>3 DEF Goto, Ready, Roomy, Sized, Growing, Pointed, Pairs, Inserting
<1>5. QED
  BY <1>2, <1>4 DEF Shape

\* An answer without a change to a map or a string.
LEMMA ShapeAnswer ==
    ASSUME Shape, pc \notin {"idle", "clonevector", "grow_values", "copy_key", "copy_value"},
           NEW r, Return(r), UNCHANGED <<map, str, vec>>, KeptTyped
    PROVE  Shape'
<1>1. \A m \in Open : Ready(map[m])
  BY ReadyMap
<1>2. QED
  BY <1>1, ShapeReturn DEF Shape, Types, TypeOK, StrTyped, Calls, Open

\* An answer after a change to the call's map.
LEMMA ShapeBecomes ==
    ASSUME Shape, pc \notin {"idle", "clonevector"}, NEW d \in MapStruct, Becomes(d), Ready(d),
           NEW r, Return(r), StrTyped, KeptTyped, UNCHANGED vec
    PROVE  Shape'
<1>1. \A m \in Open : m # call.map => Ready(map[m])
  BY ReadyMap
<1>2. \A m \in Open' : m \in Map
  BY DEF Open
<1>3. QED
  BY <1>1, <1>2, Changed, ShapeReturn DEF Shape, Calls

\* A search returns a slot with the string, or 0 and there is none.
LEMMA FindSlot ==
    ASSUME NEW v, NEW n \in Nat, NEW s
    PROVE  /\ Find(v, n, s) \in 0..n
           /\ Find(v, n, s) # 0 => str[v[Find(v, n, s)]] = s
           /\ Find(v, n, s) = 0 => \A j \in 1..n : str[v[j]] # s
<1> DEFINE hits == {i \in 1..n : str[v[i]] = s}
<1>1. CASE hits = {}
  BY <1>1 DEF Find
<1>2. CASE hits # {}
  <2>0. hits \in SUBSET Nat
    OBVIOUS
  <2>1. \E i \in hits : \A j \in hits : i <= j
    <3> HIDE DEF hits
    <3> QED BY <2>0, <1>2, Least
  <2>2. Find(v, n, s) = CHOOSE i \in hits : \A j \in hits : i <= j
    BY <1>2 DEF Find
  <2>3. Find(v, n, s) \in hits
    BY <2>1, <2>2
  <2>4. QED
    BY <2>3
<1>3. QED
  BY <1>1, <1>2

\* A map's own search.
LEMMA FindKey ==
    ASSUME Shape, pc # "idle", NEW key
    PROVE  /\ findKey(key) \in 0..This.count
           /\ findKey(key) # 0 => str[This.keys[findKey(key)]] = key
           /\ findKey(key) = 0 => \A j \in 1..This.count : str[This.keys[j]] # key
BY CallsMap, FindSlot DEF findKey

LEMMA FindValue ==
    ASSUME Shape, pc # "idle", NEW value
    PROVE  /\ findValue(value) \in 0..This.count
           /\ findValue(value) # 0 => str[This.values[findValue(value)]] = value
           /\ findValue(value) = 0 => \A j \in 1..This.count : str[This.values[j]] # value
BY CallsMap, FindSlot DEF findValue

\* The structure of the call's map after each step that changes it.
LEMMA KeysGrown ==
    ASSUME Shape, pc = "grow_keys", NEW d, d = [This EXCEPT !.keys = Cleared(@, This.count + 1)]
    PROVE  /\ d \in MapStruct /\ d.count = This.count /\ d.values = This.values
           /\ d.mapFilterCallback = This.mapFilterCallback
           /\ Len(d.keys) = This.count + 1 /\ d.keys[This.count + 1] = 0
           /\ \A i \in 1..This.count : d.keys[i] = This.keys[i]
<1>1. This \in MapStruct /\ This.keys \in Seq(0..MaxBlock) /\ This.count \in Nat
      /\ This.count <= Len(This.keys)
  BY CallsMap DEF MapStruct, Roomy
<1>2. /\ Cleared(This.keys, This.count + 1) \in Seq(0..MaxBlock)
      /\ Len(Cleared(This.keys, This.count + 1)) = This.count + 1
      /\ Cleared(This.keys, This.count + 1)[This.count + 1] = 0
      /\ \A i \in 1..This.count : Cleared(This.keys, This.count + 1)[i] = This.keys[i]
  BY <1>1, ClearedVector
<1>3. QED
  BY <1>1, <1>2 DEF MapStruct

LEMMA BothGrown ==
    ASSUME Shape, pc = "grow_values",
           NEW d, d = [This EXCEPT !.values = Cleared(@, This.count + 1), !.count = @ + 1]
    PROVE  /\ d \in MapStruct /\ d.count = This.count + 1 /\ Roomy(d)
           /\ d.mapFilterCallback = This.mapFilterCallback
           /\ d.keys = This.keys /\ d.values[d.count] = 0
           /\ \A i \in 1..This.count : d.values[i] = This.values[i]
<1>1. This \in MapStruct /\ This.values \in Seq(0..MaxBlock) /\ This.count \in Nat
      /\ This.count <= Len(This.values) /\ This.count + 1 <= Len(This.keys)
  BY CallsMap DEF MapStruct, Roomy, Shape, Sized, Growing
<1>2. /\ Cleared(This.values, This.count + 1) \in Seq(0..MaxBlock)
      /\ Len(Cleared(This.values, This.count + 1)) = This.count + 1
      /\ Cleared(This.values, This.count + 1)[This.count + 1] = 0
      /\ \A i \in 1..This.count : Cleared(This.values, This.count + 1)[i] = This.values[i]
  BY <1>1, ClearedVector
<1>3. /\ d.values = Cleared(This.values, This.count + 1) /\ d.keys = This.keys
      /\ d.count = This.count + 1 /\ d.mapFilterCallback = This.mapFilterCallback
  BY <1>1 DEF MapStruct
<1>4. d \in MapStruct
  <2>1. \A v \in Seq(0..MaxBlock), n \in Nat : [This EXCEPT !.values = v, !.count = n] \in MapStruct
    BY <1>1 DEF MapStruct
  <2>2. d = [This EXCEPT !.values = Cleared(This.values, This.count + 1), !.count = This.count + 1]
    OBVIOUS
  <2>3. This.count + 1 \in Nat
    BY <1>1
  <2>4. QED
    BY <1>2, <2>1, <2>2, <2>3, Zenon
<1>5. QED
  BY <1>1, <1>2, <1>3, <1>4 DEF Roomy

WithKey(d, i, b) == [d EXCEPT !.keys[i] = b]
LEMMA KeyPut ==
    ASSUME NEW d \in MapStruct, Roomy(d), NEW i \in 1..d.count, NEW b \in Block,
           NEW e, e = WithKey(d, i, b)
    PROVE  /\ e \in MapStruct /\ Roomy(e) /\ e.count = d.count /\ e.values = d.values
           /\ e.mapFilterCallback = d.mapFilterCallback
           /\ \A j \in 1..d.count : e.keys[j] = IF j = i THEN b ELSE d.keys[j]
<1>1. d.keys \in Seq(0..MaxBlock) /\ d.count \in Nat /\ i \in 1..Len(d.keys) /\ b \in 0..MaxBlock
      /\ d.count <= Len(d.keys)
  BY MapAssumption DEF MapStruct, Roomy, Block
<1>2. /\ [d.keys EXCEPT ![i] = b] \in Seq(0..MaxBlock)
      /\ Len([d.keys EXCEPT ![i] = b]) = Len(d.keys)
      /\ \A j \in 1..Len(d.keys) : [d.keys EXCEPT ![i] = b][j] = IF j = i THEN b ELSE d.keys[j]
  BY <1>1, ExceptSeq
<1>3. e = [d EXCEPT !.keys = [d.keys EXCEPT ![i] = b]]
  BY DEF WithKey
<1>4. e.keys = [d.keys EXCEPT ![i] = b] /\ e.values = d.values /\ e.count = d.count
      /\ e.mapFilterCallback = d.mapFilterCallback
  BY <1>3 DEF MapStruct
<1>5. e \in MapStruct
  BY <1>2, <1>3 DEF MapStruct
<1>6. QED
  BY <1>1, <1>2, <1>4, <1>5 DEF Roomy

WithValue(d, i, b) == [d EXCEPT !.values[i] = b]
LEMMA ValuePut ==
    ASSUME NEW d \in MapStruct, Roomy(d), NEW i \in 1..d.count, NEW b \in Block,
           NEW e, e = WithValue(d, i, b)
    PROVE  /\ e \in MapStruct /\ Roomy(e) /\ e.count = d.count /\ e.keys = d.keys
           /\ e.mapFilterCallback = d.mapFilterCallback
           /\ \A j \in 1..d.count : e.values[j] = IF j = i THEN b ELSE d.values[j]
<1>1. d.values \in Seq(0..MaxBlock) /\ d.count \in Nat /\ i \in 1..Len(d.values) /\ b \in 0..MaxBlock
      /\ d.count <= Len(d.values)
  BY MapAssumption DEF MapStruct, Roomy, Block
<1>2. /\ [d.values EXCEPT ![i] = b] \in Seq(0..MaxBlock)
      /\ Len([d.values EXCEPT ![i] = b]) = Len(d.values)
      /\ \A j \in 1..Len(d.values) : [d.values EXCEPT ![i] = b][j] = IF j = i THEN b ELSE d.values[j]
  BY <1>1, ExceptSeq
<1>3. e = [d EXCEPT !.values = [d.values EXCEPT ![i] = b]]
  BY DEF WithValue
<1>4. e.values = [d.values EXCEPT ![i] = b] /\ e.keys = d.keys /\ e.count = d.count
      /\ e.mapFilterCallback = d.mapFilterCallback
  BY <1>3 DEF MapStruct
<1>5. e \in MapStruct
  BY <1>2, <1>3 DEF MapStruct
<1>6. QED
  BY <1>1, <1>2, <1>4, <1>5 DEF Roomy

Without(d, i) ==
    [d EXCEPT !.keys = MovedUp(@, i, d.count), !.values = MovedUp(@, i, d.count)]
LEMMA Moved ==
    ASSUME NEW d \in MapStruct, Roomy(d), NEW i \in 1..d.count,
           NEW e, e = Without(d, i)
    PROVE  /\ e \in MapStruct /\ Roomy(e) /\ e.count = d.count
           /\ e.mapFilterCallback = d.mapFilterCallback
           /\ \A j \in 1..(d.count - 1) : /\ e.keys[j] = d.keys[IF j < i THEN j ELSE j + 1]
                                          /\ e.values[j] = d.values[IF j < i THEN j ELSE j + 1]
<1> DEFINE ks == MovedUp(d.keys, i, d.count)
           vs == MovedUp(d.values, i, d.count)
<1>1. d.keys \in Seq(0..MaxBlock) /\ d.values \in Seq(0..MaxBlock) /\ d.count \in Nat
      /\ d.count <= Len(d.keys) /\ d.count <= Len(d.values)
  BY DEF MapStruct, Roomy
<1>2. /\ ks \in Seq(0..MaxBlock) /\ Len(ks) = Len(d.keys)
      /\ vs \in Seq(0..MaxBlock) /\ Len(vs) = Len(d.values)
      /\ \A j \in 1..(d.count - 1) : /\ ks[j] = d.keys[IF j < i THEN j ELSE j + 1]
                                     /\ vs[j] = d.values[IF j < i THEN j ELSE j + 1]
  BY <1>1, MovedVector
<1>3. e = [d EXCEPT !.keys = ks, !.values = vs]
  BY DEF Without
<1> HIDE DEF ks, vs
<1>4. e.keys = ks /\ e.values = vs /\ e.count = d.count
      /\ e.mapFilterCallback = d.mapFilterCallback
  BY <1>3 DEF MapStruct
<1>5. e \in MapStruct
  BY <1>2, <1>3 DEF MapStruct
<1>6. QED
  BY <1>1, <1>2, <1>4, <1>5 DEF Roomy

\* The strings, after one is copied to a free block, or some are freed.
LEMMA Retyped ==
    ASSUME Shape
    PROVE  /\ \A b \in Block, s \in Key \cup Value : str' = [str EXCEPT ![b] = s] => StrTyped
           /\ \A bs : FreeAll(bs) => StrTyped
           /\ UNCHANGED str => StrTyped
           /\ UNCHANGED kept => KeptTyped
BY DEF Shape, Types, TypeOK, StrTyped, KeptTyped, FreeAll

LEMMA ShapeGrowKeys == Shape /\ GrowKeys => Shape'
<1> SUFFICES ASSUME Shape, GrowKeys PROVE Shape'
  OBVIOUS
<1> USE DEF GrowKeys
<1>1. CASE Return("MAP_ERROR") /\ UNCHANGED map
  BY <1>1, ShapeAnswer, Retyped
<1>2. CASE /\ Becomes([This EXCEPT !.keys = Cleared(@, This.count + 1)])
           /\ Goto("grow_values")
  <2> DEFINE d == [This EXCEPT !.keys = Cleared(@, This.count + 1)]
  <2>1. /\ d \in MapStruct /\ d.count = This.count /\ d.values = This.values
        /\ d.mapFilterCallback = This.mapFilterCallback
        /\ Len(d.keys) = This.count + 1 /\ d.keys[This.count + 1] = 0
        /\ \A i \in 1..This.count : d.keys[i] = This.keys[i]
    BY KeysGrown
  <2>2. Becomes(d)
    BY <1>2
  <2> HIDE DEF d
  <2>3. /\ map' \in [Map -> MapStruct \cup {NULL}] /\ Open' = Open /\ map'[call.map] = d
        /\ \A m \in Map : m # call.map => map'[m] = map[m]
    BY <2>1, <2>2, Changed
  <2>4. Types' /\ Calls'
    BY <1>2, <2>3, ShapeGoto, Retyped DEF Goto, Shape, Calls, Insertion, Types
  <2>5. \A m \in Open : Ready(map[m]) /\ m \in Map
    BY ReadyMap, OpenMap
  <2>6. call.map \in Open /\ This = map[call.map] /\ This.count \in Nat
    BY CallsMap
  <2>7. Sized'
    BY <1>2, <2>1, <2>3, <2>5, <2>6 DEF Goto, Sized, Growing, Ready, Roomy
  <2>8. Pointed'
    <3>1. This' = d /\ pc' = "grow_values" /\ call' = call
      BY <1>2, <2>3 DEF Goto, This
    <3>2. \A m \in Open : Pairs(m)' = 1..map[m].count
      BY <2>1, <2>3, <2>5, <2>6, <3>1 DEF Pairs, Inserting
    <3>3. \A f \in Field : \A i \in 1..This.count : d[f][i] \in Block
      <4>1. \A i \in 1..This.count : This.keys[i] \in Block /\ This.values[i] \in Block
        BY <2>5, <2>6 DEF Ready, Field
      <4>2. QED
        BY <2>1, <4>1 DEF Field
    <3>4. d.keys[d.count + 1] = 0
      BY <2>1
    <3>5. QED
      BY <2>3, <2>5, <2>6, <3>1, <3>2, <3>3, <3>4 DEF Pointed, Ready
  <2>9. QED
    BY <2>4, <2>7, <2>8 DEF Shape
<1>3. QED
  BY <1>1, <1>2

LEMMA ShapeGrowValues == Shape /\ GrowValues => Shape'
<1> SUFFICES ASSUME Shape, GrowValues PROVE Shape'
  OBVIOUS
<1> USE DEF GrowValues
<1>0. /\ call.map \in Open /\ This = map[call.map] /\ This.count \in Nat
      /\ This \in MapStruct /\ Roomy(This)
  BY CallsMap
<1>1. CASE ValuesGrown
  <2> DEFINE d == [This EXCEPT !.values = Cleared(@, This.count + 1), !.count = @ + 1]
  <2>1. /\ d \in MapStruct /\ d.count = This.count + 1 /\ Roomy(d)
        /\ d.mapFilterCallback = This.mapFilterCallback
        /\ d.keys = This.keys /\ d.values[d.count] = 0
        /\ \A i \in 1..This.count : d.values[i] = This.values[i]
    BY BothGrown
  <2>2. Becomes(d) /\ Goto("copy_key")
    BY <1>1 DEF ValuesGrown
  <2>a. pc = "grow_values"
    OBVIOUS
  <2> HIDE DEF d, GrowValues
  <2>3. /\ map' \in [Map -> MapStruct \cup {NULL}] /\ Open' = Open /\ map'[call.map] = d
        /\ \A m \in Map : m # call.map => map'[m] = map[m]
    BY <2>1, <2>2, <2>a, Changed
  <2>4. Types' /\ Calls'
    BY <2>2, <2>3, ShapeGoto, Retyped DEF Goto, Shape, Calls, Insertion, Types, GrowValues
  <2>5. \A m \in Open : m \in Map /\ (m # call.map => Ready(map[m]))
    BY ReadyMap, OpenMap
  <2>6. Sized'
    BY <2>1, <2>2, <2>3, <2>5, <1>0 DEF Goto, Sized, Growing, Ready, Roomy
  <2>7. \A f \in Field : \A i \in 1..This.count : This[f][i] \in Block
    BY <1>0, <2>a DEF Shape, Pointed, Pairs, Inserting
  <2>8. Pointed'
    <3>1. Pairs(call.map)' = 1..This.count /\ This' = d /\ pc' = "copy_key" /\ call' = call
      BY <2>1, <2>2, <2>3, <1>0 DEF Goto, Pairs, Inserting, This
    <3>2. \A m \in Open : m # call.map => Pairs(m)' = 1..map[m].count
      BY <2>2, <2>3, <2>5 DEF Goto, Pairs, Inserting
    <3>3. d.keys[d.count] = 0
      BY <2>a, <2>1, <1>0 DEF Shape, Pointed
    <3>a. d.values[d.count] = 0 /\ d.count # 0
      BY <2>1, <1>0
    <3>b. \A f \in Field : \A i \in 1..This.count : d[f][i] \in Block
      BY <2>1, <2>7 DEF Field
    <3>4. QED
      BY <2>3, <2>5, <3>1, <3>2, <3>3, <3>a, <3>b DEF Pointed, Ready
  <2>9. QED
    BY <2>4, <2>6, <2>8 DEF Shape
<1>2. ASSUME NEW ks \in IF This.count = 0 THEN {<<>>} ELSE Shrunk(This.keys, This.count),
             Becomes([This EXCEPT !.keys = ks]), Return("MAP_ERROR")
      PROVE  Shape'
  <2>1. /\ ks \in Seq(0..MaxBlock) /\ Len(ks) >= This.count
        /\ \A i \in 1..This.count : ks[i] = This.keys[i]
        /\ This.count = 0 => ks = <<>>
    <3>1. CASE This.count = 0
      BY <3>1
    <3>2. CASE This.count # 0
      BY <3>2, <1>0, ShrunkVector DEF MapStruct, Roomy
    <3>3. QED
      BY <3>1, <3>2
  <2> DEFINE d == [This EXCEPT !.keys = ks]
  <2>2. /\ d \in MapStruct /\ d.keys = ks /\ d.values = This.values /\ d.count = This.count
    BY <1>0, <2>1 DEF MapStruct
  <2>3. \A i \in 1..This.count : This.keys[i] \in Block /\ This.values[i] \in Block
    BY <1>0 DEF Shape, Pointed, Pairs, Inserting, Field
  <2>4. This.count = 0 => This.values = <<>>
    BY <1>0 DEF Shape, Sized
  <2>5. Ready(d)
    BY <1>0, <2>1, <2>2, <2>3, <2>4 DEF Ready, Roomy, Field
  <2>6. Becomes(d)
    BY <1>2
  <2> HIDE DEF d
  <2>7. QED
    BY <1>2, <2>2, <2>5, <2>6, ShapeBecomes, Retyped
<1>3. QED
  BY <1>1, <1>2

\* The pair being inserted is the last one; the map is ready without it.
LEMMA LastPair ==
    ASSUME Shape, pc \in {"copy_key", "copy_value"}
    PROVE  /\ This \in MapStruct /\ Roomy(This) /\ This.count \in Nat \ {0}
           /\ This.count \in 1..This.count
           /\ \A f \in Field : \A i \in 1..(This.count - 1) : This[f][i] \in Block
<1>1. pc # "idle"
  OBVIOUS
<1>2. QED
  BY <1>1, CallsMap DEF Shape, Pointed, Pairs, Inserting

LEMMA ShapeUndone ==
    ASSUME Shape, pc \in {"copy_key", "copy_value"},
           NEW d \in Map_DecreaseStorageKeysValues(This), Becomes(d),
           Return("MAP_ERROR"), StrTyped, UNCHANGED <<vec, kept>>
    PROVE  Shape'
<1>1. /\ d \in MapStruct /\ Roomy(d) /\ d.count = This.count - 1
      /\ d.count = 0 => d.keys = <<>> /\ d.values = <<>>
      /\ \A f \in Field : \A i \in 1..d.count : d[f][i] = This[f][i]
  BY LastPair, Decreased
<1>2. Ready(d)
  BY <1>1, LastPair DEF Ready
<1>3. QED
  BY <1>1, <1>2, ShapeBecomes, Retyped

LEMMA ShapeCopyKey == Shape /\ CopyKey => Shape'
<1> SUFFICES ASSUME Shape, CopyKey PROVE Shape'
  OBVIOUS
<1>0. pc = "copy_key" /\ UNCHANGED <<vec, kept>>
  BY DEF CopyKey
<1>1. ASSUME NEW b \in Block, str' = [str EXCEPT ![b] = call.key],
             Becomes([This EXCEPT !.keys[This.count] = b]), Goto("copy_value")
      PROVE  Shape'
  <2> DEFINE d == [This EXCEPT !.keys[This.count] = b]
  <2>a. /\ This \in MapStruct /\ Roomy(This) /\ This.count \in 1..This.count
    BY <1>0, LastPair
  <2>b. d = WithKey(This, This.count, b)
    BY DEF WithKey
  <2>2. Becomes(d)
    BY <1>1
  <2> HIDE DEF d
  <2>1. /\ d \in MapStruct /\ Roomy(d) /\ d.count = This.count /\ d.values = This.values
        /\ \A j \in 1..This.count : d.keys[j] = IF j = This.count THEN b ELSE This.keys[j]
    BY <2>a, <2>b, KeyPut
  <2>3. /\ map' \in [Map -> MapStruct \cup {NULL}] /\ Open' = Open /\ map'[call.map] = d
        /\ \A m \in Map : m # call.map => map'[m] = map[m]
    BY <1>0, <2>1, <2>2, Changed
  <2>4. StrTyped /\ call.map \in Open /\ This = map[call.map] /\ call.key \in Key
    BY <1>0, <1>1, Retyped, CallsMap DEF Shape, Calls, Insertion
  <2>5. Types' /\ Calls'
    BY <1>0, <1>1, <2>3, <2>4, ShapeGoto DEF Goto, Shape, Calls, Insertion, Types
  <2>6. \A m \in Open : m \in Map /\ (m # call.map => Ready(map[m]))
    BY ReadyMap, OpenMap
  <2>7. This.count \in Nat \ {0}
    BY <1>0, LastPair
  <2>8. Sized'
    BY <1>1, <2>1, <2>3, <2>6, <2>7 DEF Goto, Sized, Growing, Ready, Roomy
  <2>9. \A f \in Field : \A i \in 1..(This.count - 1) : d[f][i] \in Block
    BY <1>0, <2>1, <2>7, LastPair DEF Field
  <2>10. d.keys[d.count] = b /\ d.values[d.count] = 0
    BY <1>0, <2>1, <2>7 DEF Shape, Pointed
  <2>11. Pointed'
    <3>1. Pairs(call.map)' = 1..(This.count - 1) /\ This' = d /\ pc' = "copy_value" /\ call' = call
      BY <1>1, <2>1, <2>3, <2>4 DEF Goto, Pairs, Inserting, This
    <3>2. \A m \in Open : m # call.map => Pairs(m)' = 1..map[m].count
      BY <1>1, <2>3, <2>6 DEF Goto, Pairs, Inserting
    <3>3. \A m \in Open : \A f \in Field : \A i \in Pairs(m)' : map'[m][f][i] \in Block
      BY <2>1, <2>3, <2>6, <2>9, <3>1, <3>2 DEF Ready
    <3>4. d.count # 0
      BY <2>1, <2>7
    <3>5. QED
      BY <2>3, <2>10, <3>1, <3>3, <3>4 DEF Pointed
  <2>12. QED
    BY <2>5, <2>8, <2>11 DEF Shape
<1>2. ASSUME NEW d \in Map_DecreaseStorageKeysValues(This), Becomes(d),
             Return("MAP_ERROR"), UNCHANGED str
      PROVE  Shape'
  BY <1>0, <1>2, ShapeUndone, Retyped
<1>3. QED
  BY <1>1, <1>2 DEF CopyKey

LEMMA ShapeCopyValue == Shape /\ CopyValue => Shape'
<1> SUFFICES ASSUME Shape, CopyValue PROVE Shape'
  OBVIOUS
<1>0. pc = "copy_value" /\ UNCHANGED <<vec, kept>>
  BY DEF CopyValue
<1>1. ASSUME NEW b \in Block, str' = [str EXCEPT ![b] = call.value],
             Becomes([This EXCEPT !.values[This.count] = b]), Return("MAP_OK")
      PROVE  Shape'
  <2> DEFINE d == [This EXCEPT !.values[This.count] = b]
  <2>a. /\ This \in MapStruct /\ Roomy(This) /\ This.count \in 1..This.count
    BY <1>0, LastPair
  <2>b. d = WithValue(This, This.count, b)
    BY DEF WithValue
  <2>2. Becomes(d)
    BY <1>1
  <2> HIDE DEF d
  <2>1. /\ d \in MapStruct /\ Roomy(d) /\ d.count = This.count /\ d.keys = This.keys
        /\ \A j \in 1..This.count : d.values[j] = IF j = This.count THEN b ELSE This.values[j]
    BY <2>a, <2>b, ValuePut
  <2>3. This.keys[This.count] \in Block /\ This.count \in Nat \ {0}
    BY <1>0, LastPair DEF Shape, Pointed
  <2>4. \A f \in Field : \A i \in 1..d.count : d[f][i] \in Block
    BY <1>0, <2>1, <2>3, LastPair DEF Field
  <2>5. Ready(d)
    BY <2>1, <2>3, <2>4 DEF Ready
  <2>6. StrTyped
    BY <1>0, <1>1, Retyped DEF Shape, Calls, Insertion
  <2>7. QED
    BY <1>0, <1>1, <2>1, <2>2, <2>5, <2>6, ShapeBecomes, Retyped
<1>2. ASSUME NEW d \in Map_DecreaseStorageKeysValues(This), Becomes(d),
             Return("MAP_ERROR"), FreeAll({This.keys[This.count]})
      PROVE  Shape'
  BY <1>0, <1>2, ShapeUndone, Retyped
<1>3. QED
  BY <1>1, <1>2 DEF CopyValue, ValueCopied

LEMMA EmptyReady ==
    ASSUME NEW filter \in BOOLEAN,
           NEW d, d = [keys |-> <<>>, values |-> <<>>, count |-> 0, mapFilterCallback |-> filter]
    PROVE  d \in MapStruct /\ Ready(d) /\ d.count = 0 /\ d.mapFilterCallback = filter
<1>1. d \in MapStruct /\ d.count = 0 /\ d.keys = <<>> /\ d.values = <<>>
      /\ d.mapFilterCallback = filter
  BY DEF MapStruct
<1>2. 1..d.count = {}
  BY <1>1
<1>3. QED
  BY <1>1, <1>2 DEF Ready, Roomy

LEMMA ShapeCreate ==
    ASSUME Shape, NEW m \in Map, NEW filter \in BOOLEAN, sky_map_create(m, filter)
    PROVE  Shape'
<1> USE DEF sky_map_create
<1>1. Return(result) /\ vec' = NoVec
  BY DEF Return, Shape, Calls
<1>2. \A o \in Open : Ready(map[o])
  BY ReadyMap
<1>3. map'[m] \in MapStruct /\ Ready(map'[m]) /\ \A o \in Map \ {m} : map'[o] = map[o]
  <2>1. map'[m] = [keys |-> <<>>, values |-> <<>>, count |-> 0, mapFilterCallback |-> filter]
        /\ \A o \in Map \ {m} : map'[o] = map[o]
    BY DEF Shape, Types, TypeOK
  <2>2. QED
    BY <2>1, EmptyReady
<1>4. map' \in [Map -> MapStruct \cup {NULL}]
  BY <1>3 DEF Shape, Types, TypeOK
<1>5. \A o \in Open' : Ready(map'[o])
  BY <1>2, <1>3 DEF Open
<1>6. QED
  BY <1>1, <1>4, <1>5, ShapeReturn, Retyped

LEMMA ShapeDestroy ==
    ASSUME Shape, NEW m \in Map, sky_map_destroy(m)
    PROVE  Shape'
<1> USE DEF sky_map_destroy
<1>1. Return(result) /\ vec' = NoVec
  BY DEF Return, Shape, Calls
<1>2. \A o \in Open : Ready(map[o])
  BY ReadyMap
<1>3. map' \in [Map -> MapStruct \cup {NULL}] /\ Open' \subseteq Open
      /\ \A o \in Map \ {m} : map'[o] = map[o]
  BY DEF Shape, Types, TypeOK, Open
<1>4. KeptTyped
  BY MapAssumption DEF KeptTyped, NotKept, Shape, Types, TypeOK
<1>5. \A o \in Open' : Ready(map'[o])
  BY <1>2, <1>3 DEF Open
<1>6. QED
  BY <1>1, <1>3, <1>4, <1>5, ShapeReturn, Retyped

LEMMA ShapeAdd == Shape /\ sky_map_add => Shape'
BY ShapeAnswer, ShapeUnchanged, Retyped DEF sky_map_add

LEMMA ShapeUpdate ==
    ASSUME Shape, pc = "addorupdate", NEW i \in 1..This.count, Update(i), UNCHANGED vec
    PROVE  Shape'
<1>0. This \in MapStruct /\ Roomy(This) /\ call.map \in Open /\ This = map[call.map]
      /\ call.value \in Value
  BY CallsMap DEF Shape, Calls
<1>1. ASSUME NEW b \in Block, b = This.values[i] \/ Free(b),
             str' = [str EXCEPT ![This.values[i]] = NULL, ![b] = call.value],
             Becomes([This EXCEPT !.values[i] = b]),
             kept' = IF <<kept.map, kept.key>> = <<call.map, call.key>> THEN NotKept ELSE kept,
             Return("MAP_OK")
      PROVE  Shape'
  <2>1. Ready(This)
    BY <1>0, ReadyMap
  <2> DEFINE d == WithValue(This, i, b)
  <2>2. Becomes(d)
    BY <1>1 DEF WithValue
  <2>3. /\ d \in MapStruct /\ Roomy(d) /\ d.count = This.count /\ d.keys = This.keys
        /\ \A j \in 1..This.count : d.values[j] = IF j = i THEN b ELSE This.values[j]
    BY <1>0, ValuePut
  <2> HIDE DEF d
  <2>4. d.count # 0
    BY <2>3
  <2>a. \A f \in Field : \A j \in 1..d.count : d[f][j] \in Block
    BY <2>1, <2>3 DEF Ready, Field
  <2>5. Ready(d)
    BY <2>3, <2>4, <2>a DEF Ready
  <2>6. StrTyped
    BY <1>0, <1>1 DEF StrTyped, Shape, Types, TypeOK
  <2>7. KeptTyped
    BY <1>1, MapAssumption DEF KeptTyped, NotKept, Shape, Types, TypeOK
  <2>8. QED
    BY <1>1, <2>2, <2>3, <2>5, <2>6, <2>7, ShapeBecomes
<1>2. CASE Return("MAP_ERROR") /\ UNCHANGED <<map, str, kept>>
  BY <1>2, ShapeAnswer, Retyped
<1>3. QED
  BY <1>1, <1>2 DEF Update

LEMMA ShapeAddOrUpdate == Shape /\ sky_map_addorupdate => Shape'
<1> SUFFICES ASSUME Shape, sky_map_addorupdate PROVE Shape'
  OBVIOUS
<1>1. findKey(call.key) # 0 => findKey(call.key) \in 1..This.count
  BY FindKey DEF sky_map_addorupdate
<1>2. QED
  BY <1>1, ShapeAnswer, ShapeUnchanged, ShapeUpdate, Retyped DEF sky_map_addorupdate

\* Deleting: the slots behind move up, and the last one is given back.
LEMMA Deleted ==
    ASSUME Shape, pc = "delete", NEW i \in 1..This.count,
           NEW d \in Map_DecreaseStorageKeysValues(Without(This, i))
    PROVE  /\ d \in MapStruct /\ Ready(d) /\ d.count = This.count - 1
           /\ d.mapFilterCallback = IF d.count = 0 THEN FALSE ELSE This.mapFilterCallback
           /\ \A f \in Field : \A j \in 1..d.count : d[f][j] = This[f][IF j < i THEN j ELSE j + 1]
<1>1. This \in MapStruct /\ Ready(This) /\ This.count \in Nat \ {0} /\ Roomy(This)
  BY CallsMap, ReadyMap
<1> DEFINE e == Without(This, i)
<1>2. /\ e \in MapStruct /\ Roomy(e) /\ e.count = This.count
      /\ e.mapFilterCallback = This.mapFilterCallback
      /\ \A j \in 1..(This.count - 1) : /\ e.keys[j] = This.keys[IF j < i THEN j ELSE j + 1]
                                        /\ e.values[j] = This.values[IF j < i THEN j ELSE j + 1]
  BY <1>1, Moved
<1>3. d \in Map_DecreaseStorageKeysValues(e)
  OBVIOUS
<1> HIDE DEF e
<1>4. /\ d \in MapStruct /\ Roomy(d) /\ d.count = e.count - 1
      /\ d.count = 0 => d.keys = <<>> /\ d.values = <<>>
      /\ d.mapFilterCallback = IF d.count = 0 THEN FALSE ELSE e.mapFilterCallback
      /\ \A f \in Field : \A j \in 1..d.count : d[f][j] = e[f][j]
  BY <1>1, <1>2, <1>3, Decreased
<1>5. \A f \in Field : \A j \in 1..d.count : d[f][j] = This[f][IF j < i THEN j ELSE j + 1]
  BY <1>1, <1>2, <1>4 DEF Field
<1>6. \A f \in Field : \A j \in 1..d.count : d[f][j] \in Block
  BY <1>1, <1>2, <1>4, <1>5 DEF Ready
<1>7. QED
  BY <1>2, <1>4, <1>5, <1>6 DEF Ready

LEMMA ShapeDelete == Shape /\ sky_map_delete => Shape'
<1> SUFFICES ASSUME Shape, sky_map_delete PROVE Shape'
  OBVIOUS
<1> DEFINE i == findKey(call.key)
<1>0. pc = "delete" /\ UNCHANGED vec
  BY DEF sky_map_delete, DeleteWith
<1>1. CASE i = 0 /\ Return("MAP_KEYNOTFOUND") /\ UNCHANGED <<map, str, kept>>
  BY <1>0, <1>1, ShapeAnswer, Retyped
<1>2. ASSUME i # 0, FreeAll({This.keys[i], This.values[i]}),
             NEW d \in Map_DecreaseStorageKeysValues(Without(This, i)), Becomes(d),
             kept' = IF <<kept.map, kept.key>> = <<call.map, call.key>> THEN NotKept ELSE kept,
             Return("MAP_OK")
      PROVE  Shape'
  <2>1. i \in 1..This.count
    BY <1>0, <1>2, FindKey
  <2> HIDE DEF i
  <2>2. d \in MapStruct /\ Ready(d)
    BY <1>0, <2>1, Deleted
  <2>3. KeptTyped
    BY <1>2, MapAssumption DEF KeptTyped, NotKept, Shape, Types, TypeOK
  <2>4. QED
    BY <1>0, <1>2, <2>2, <2>3, ShapeBecomes, Retyped
<1>3. QED
  BY <1>1, <1>2 DEF sky_map_delete, DeleteWith, Without

LEMMA ShapeLook ==
    Shape /\ (sky_map_containskey \/ sky_map_containsvalue \/ sky_map_getvaluefromkey) => Shape'
<1> SUFFICES ASSUME Shape,
                    sky_map_containskey \/ sky_map_containsvalue \/ sky_map_getvaluefromkey
             PROVE  Shape'
  OBVIOUS
<1>1. CASE sky_map_containskey \/ sky_map_containsvalue
  BY <1>1, ShapeAnswer, Retyped DEF sky_map_containskey, sky_map_containsvalue
<1>2. CASE sky_map_getvaluefromkey
  <2> DEFINE i == findKey(call.key)
  <2>1. pc = "getvaluefromkey" /\ UNCHANGED <<map, str, vec>>
    BY <1>2 DEF sky_map_getvaluefromkey
  <2>2. CASE i = 0 /\ Return(NULL) /\ UNCHANGED kept
    BY <2>1, <2>2, ShapeAnswer, Retyped
  <2>3. CASE /\ i # 0 /\ Return(str[This.values[i]])
             /\ kept' = [map |-> call.map, key |-> call.key, ptr |-> This.values[i]]
    <3>1. i \in 1..This.count /\ Ready(This)
      BY <2>1, <2>3, FindKey, CallsMap, ReadyMap
    <3>2. This.values[i] \in 0..MaxBlock
      BY <3>1, MapAssumption DEF Ready, Field, Block
    <3>3. KeptTyped
      BY <2>1, <2>3, <3>2, CallsMap DEF KeptTyped, Shape, Calls
    <3>4. QED
      BY <2>1, <2>3, <3>3, ShapeAnswer
  <2>4. QED
    BY <1>2, <2>2, <2>3 DEF sky_map_getvaluefromkey
<1>3. QED
  BY <1>1, <1>2

LEMMA ShapeClone == Shape /\ sky_map_clone => Shape'
<1> SUFFICES ASSUME Shape, sky_map_clone PROVE Shape'
  OBVIOUS
<1>0. pc = "clone" /\ UNCHANGED <<str, vec, kept>> /\ vec = NoVec
  BY DEF sky_map_clone, Shape, Calls
<1>1. CASE Goto("clonevector") /\ UNCHANGED map
  BY <1>0, <1>1, ShapeUnchanged
<1>2. CASE /\ map' = [map EXCEPT ![call.to] = [keys |-> <<>>, values |-> <<>>, count |-> 0,
                                               mapFilterCallback |-> FALSE]]
           /\ Return("handle")
  <2>1. \A o \in Open : Ready(map[o])
    BY <1>0, ReadyMap
  <2>2. call.to \in Map
    BY <1>0 DEF Shape, Calls
  <2>3. map'[call.to] \in MapStruct /\ Ready(map'[call.to])
        /\ \A o \in Map \ {call.to} : map'[o] = map[o]
    <3>1. map'[call.to] = [keys |-> <<>>, values |-> <<>>, count |-> 0,
                           mapFilterCallback |-> FALSE]
          /\ \A o \in Map \ {call.to} : map'[o] = map[o]
      BY <1>2, <2>2 DEF Shape, Types, TypeOK
    <3>2. QED
      BY <3>1, EmptyReady
  <2>4. map' \in [Map -> MapStruct \cup {NULL}]
    BY <1>2, <2>2, <2>3 DEF Shape, Types, TypeOK
  <2>5. \A o \in Open' : Ready(map'[o])
    BY <2>1, <2>3 DEF Open
  <2>6. QED
    BY <1>0, <1>2, <2>4, <2>5, ShapeReturn, Retyped
<1>3. CASE Return(NULL) /\ UNCHANGED map
  BY <1>0, <1>3, ShapeAnswer, Retyped
<1>4. QED
  BY <1>1, <1>2, <1>3 DEF sky_map_clone

\* The vector a clone is filling has room for one more string.
LEMMA Cloning ==
    ASSUME Shape, Copied, pc = "clonevector"
    PROVE  /\ This \in MapStruct /\ Ready(This) /\ This.count \in Nat \ {0}
           /\ call.map \in Open /\ call.map # call.to /\ call.to \in Map \ Open
           /\ vec.keys \in Seq(Block) /\ vec.values \in Seq(Block)
           /\ \A f \in Field : vec[f] \in Seq(Block)
           /\ Filled => Len(vec.keys) = This.count /\ Len(vec.values) = This.count
           /\ ~Filled => Filling \in Field /\ Len(vec[Filling]) + 1 \in 1..This.count
<1>1. /\ This \in MapStruct /\ Ready(This) /\ This.count \in Nat \ {0}
      /\ call.map \in Open /\ call.to \in Map \ Open
  BY CallsMap, ReadyMap DEF Copied, Shape, Calls
<1>2. vec.keys \in Seq(Block) /\ vec.values \in Seq(Block)
  BY DEF Shape, Types
<1>3. \A f \in Field : vec[f] \in Seq(Block)
  BY <1>2 DEF Field
<1>4. /\ Len(vec.keys) \in Nat /\ Len(vec.values) \in Nat
      /\ Len(vec.keys) <= This.count /\ Len(vec.values) <= This.count
      /\ Len(vec.values) # 0 => Len(vec.keys) = This.count
  BY <1>2 DEF Copied
<1>5. QED
  BY <1>1, <1>2, <1>3, <1>4 DEF Filled, Filling, Field

\* The vectors with one more string.
Extended(v, f, b) == [v EXCEPT ![f] = Append(@, b)]
LEMMA ExtendedVec ==
    ASSUME Shape, NEW f \in Field, NEW b \in Block, NEW v, v = Extended(vec, f, b)
    PROVE  /\ v \in [keys : Seq(Block), values : Seq(Block)]
           /\ \A g \in Field : g # f => v[g] = vec[g]
           /\ Len(v[f]) = Len(vec[f]) + 1 /\ Len(vec[f]) \in Nat
           /\ \A i \in 1..Len(vec[f]) : v[f][i] = vec[f][i]
           /\ v[f][Len(vec[f]) + 1] = b
<1>1. vec \in [keys : Seq(Block), values : Seq(Block)] /\ vec[f] \in Seq(Block)
  BY DEF Shape, Types, Field
<1> DEFINE w == Append(vec[f], b)
<1>2. /\ w \in Seq(Block) /\ Len(w) = Len(vec[f]) + 1 /\ Len(vec[f]) \in Nat
      /\ \A i \in 1..Len(vec[f]) : w[i] = vec[f][i]
      /\ w[Len(vec[f]) + 1] = b
  BY <1>1, AppendProperties
<1>3. v = [vec EXCEPT ![f] = w]
  BY DEF Extended
<1> HIDE DEF w
<1>4. v[f] = w /\ \A g \in Field : g # f => v[g] = vec[g]
  BY <1>1, <1>3 DEF Field
<1>5. v \in [keys : Seq(Block), values : Seq(Block)]
  BY <1>1, <1>2, <1>3 DEF Field
<1>6. QED
  BY <1>2, <1>4, <1>5

LEMMA ShapeCloneString == Shape /\ Copied /\ CloneString => Shape'
<1> SUFFICES ASSUME Shape, Copied, CloneString PROVE Shape'
  OBVIOUS
<1>0. pc = "clonevector" /\ ~Filled /\ UNCHANGED <<map, pc, call, result, kept>>
  BY DEF CloneString
<1>1. PICK b \in Block : /\ Free(b)
                         /\ str' = [str EXCEPT ![b] = str[This[Filling][Len(vec[Filling]) + 1]]]
                         /\ vec' = Extended(vec, Filling, b)
  BY DEF CloneString, Extended
<1>2. Filling \in Field /\ This[Filling][Len(vec[Filling]) + 1] \in Block
  BY <1>0, Cloning DEF Ready
<1>3. StrTyped
  BY <1>1, <1>2 DEF StrTyped, Shape, Types, TypeOK
<1>4. vec' \in [keys : Seq(Block), values : Seq(Block)]
  BY <1>1, <1>2, ExtendedVec
<1>5. Types' /\ Calls'
  BY <1>0, <1>3, <1>4, ShapeGoto DEF Open, Shape, Types, TypeOK, Insertion
<1>6. Sized' /\ Pointed'
  BY <1>0 DEF Shape, Sized, Growing, Pointed, Pairs, Inserting, Open, This
<1>7. QED
  BY <1>5, <1>6 DEF Shape

LEMMA ShapeCloneFails == Shape /\ CloneFails => Shape'
<1> SUFFICES ASSUME Shape, CloneFails PROVE Shape'
  OBVIOUS
<1>1. \A m \in Open : Ready(map[m])
  BY ReadyMap DEF CloneFails
<1>2. Open' = Open /\ map' = map /\ vec' = NoVec /\ Return(NULL) /\ StrTyped /\ KeptTyped
  BY Retyped DEF CloneFails, Open
<1>3. QED
  BY <1>1, <1>2, ShapeReturn DEF Shape, Types, TypeOK

LEMMA Cloned ==
    ASSUME Shape, Copied, CloneDone
    PROVE  /\ map' \in [Map -> MapStruct \cup {NULL}] /\ Open' = Open \cup {call.to}
           /\ \A o \in Map \ {call.to} : map'[o] = map[o]
           /\ Ready(map'[call.to]) /\ map'[call.to] \in MapStruct
           /\ map'[call.to].count = This.count
           /\ map'[call.to].mapFilterCallback = This.mapFilterCallback
           /\ \A f \in Field : map'[call.to][f] = vec[f]
<1>0. pc = "clonevector" /\ Filled
  BY DEF CloneDone, CloneDoneWith
<1> DEFINE d == [keys |-> vec.keys, values |-> vec.values, count |-> This.count,
                 mapFilterCallback |-> This.mapFilterCallback]
<1>1. Block \subseteq 0..MaxBlock
  BY MapAssumption DEF Block
<1>2. vec.keys \in Seq(0..MaxBlock) /\ vec.values \in Seq(0..MaxBlock)
  BY <1>0, <1>1, Cloning, SeqMonotonic
<1>3. This.count \in Nat /\ This.mapFilterCallback \in BOOLEAN
  BY <1>0, Cloning DEF MapStruct
<1>4. d \in MapStruct
  BY <1>2, <1>3 DEF MapStruct
<1>5. Roomy(d) /\ d.count # 0
  BY <1>0, Cloning DEF Roomy
<1>6. \A f \in Field : d[f] = vec[f]
  BY DEF Field
<1>7. \A f \in Field : \A i \in 1..d.count : d[f][i] \in Block
  <2>1. \A f \in Field : Len(vec[f]) = This.count /\ vec[f] \in Seq(Block)
    BY <1>0, Cloning DEF Field
  <2>2. QED
    BY <1>6, <2>1
<1>8. map' = [map EXCEPT ![call.to] = d] /\ call.to \in Map
  BY <1>0, Cloning DEF CloneDone, CloneDoneWith
<1>9. d.count = This.count /\ d.mapFilterCallback = This.mapFilterCallback
  OBVIOUS
<1> HIDE DEF d
<1>10. /\ map' \in [Map -> MapStruct \cup {NULL}]
       /\ map'[call.to] = d /\ \A o \in Map \ {call.to} : map'[o] = map[o]
  BY <1>4, <1>8 DEF Shape, Types, TypeOK
<1>11. Open' = Open \cup {call.to}
  BY <1>4, <1>8, <1>10, MapAssumption DEF Open
<1>12. QED
  BY <1>4, <1>5, <1>6, <1>7, <1>9, <1>10, <1>11 DEF Ready

LEMMA ShapeCloneDone == Shape /\ Copied /\ CloneDone => Shape'
<1> SUFFICES ASSUME Shape, Copied, CloneDone PROVE Shape'
  OBVIOUS
<1>1. \A m \in Open : Ready(map[m])
  BY ReadyMap DEF CloneDone, CloneDoneWith
<1>2. vec' = NoVec /\ Return("handle") /\ StrTyped /\ KeptTyped
  BY Retyped DEF CloneDone, CloneDoneWith
<1>3. \A m \in Open : m \in Map
  BY DEF Open
<1>4. \A m \in Open' : Ready(map'[m])
  BY <1>1, <1>3, Cloned
<1>5. QED
  BY <1>2, <1>4, Cloned, ShapeReturn

LEMMA ShapeCall ==
    ASSUME Shape, NEW m \in Map, Call(m)
    PROVE  Shape'
<1>1. CASE \E filter \in BOOLEAN : sky_map_create(m, filter)
  BY <1>1, ShapeCreate
<1>2. CASE sky_map_destroy(m)
  BY <1>2, ShapeDestroy
<1>3. ASSUME NEW k \in Key, NEW v \in Value,
             Invoke("add", m, k, v, NULL) \/ Invoke("addorupdate", m, k, v, NULL)
      PROVE  Shape'
  BY <1>3, ShapeInvoke DEF Operation
<1>4. ASSUME NEW k \in Key,
             \/ Invoke("delete", m, k, NULL, NULL) \/ Invoke("containskey", m, k, NULL, NULL)
             \/ Invoke("getvaluefromkey", m, k, NULL, NULL)
      PROVE  Shape'
  BY <1>4, ShapeInvoke DEF Operation
<1>5. ASSUME NEW v \in Value, Invoke("containsvalue", m, NULL, v, NULL)
      PROVE  Shape'
  BY <1>5, ShapeInvoke DEF Operation
<1>6. ASSUME NEW n \in Map \ Open, Invoke("clone", m, NULL, NULL, n)
      PROVE  Shape'
  BY <1>6, ShapeInvoke DEF Operation
<1>7. QED
  BY <1>1, <1>2, <1>3, <1>4, <1>5, <1>6 DEF Call

LEMMA ShapeNext == Shape /\ Copied /\ [Next]_vars => Shape'
<1> SUFFICES ASSUME Shape, Copied, [Next]_vars PROVE Shape'
  OBVIOUS
<1>1. CASE UNCHANGED vars
  BY <1>1, ShapeStutter
<1>2. ASSUME NEW m \in Map, Call(m) PROVE Shape'
  BY <1>2, ShapeCall
<1>3. CASE sky_map_add \/ sky_map_addorupdate \/ sky_map_delete
  BY <1>3, ShapeAdd, ShapeAddOrUpdate, ShapeDelete
<1>4. CASE sky_map_containskey \/ sky_map_containsvalue \/ sky_map_getvaluefromkey
  BY <1>4, ShapeLook
<1>5. CASE GrowKeys \/ GrowValues \/ CopyKey \/ CopyValue
  BY <1>5, ShapeGrowKeys, ShapeGrowValues, ShapeCopyKey, ShapeCopyValue
<1>6. CASE sky_map_clone \/ CloneString \/ CloneFails \/ CloneDone
  BY <1>6, ShapeClone, ShapeCloneString, ShapeCloneFails, ShapeCloneDone
<1>7. QED
  BY <1>1, <1>2, <1>3, <1>4, <1>5, <1>6 DEF Next
----------------------------------------------------------------------------
(* Ownership: what a step does to the slots that own a string. *)

LEMMA OwnersKept ==
    ASSUME Once, Accounted,
           \A o, f, i, b : Owns(o, f, i, b)' <=> Owns(o, f, i, b),
           \A b \in Block : (str'[b] # NULL) <=> (str[b] # NULL)
    PROVE  Once' /\ Accounted'
<1>1. Once'
  BY DEF Once
<1>2. Accounted'
  BY DEF Accounted
<1>3. QED
  BY <1>1, <1>2

\* Slot j of vector g of p becomes the owner of block c, which was free.
Added(p, g, j, c) ==
    \A o, f, i, b : Owns(o, f, i, b)' <=> \/ Owns(o, f, i, b)
                                          \/ o = p /\ f = g /\ i = j /\ b = c
Taken(c) == str[c] = NULL /\ \A b \in Block : (str'[b] # NULL) <=> (str[b] # NULL \/ b = c)

LEMMA OwnerAdded ==
    ASSUME Once, Accounted, NEW p, NEW g, NEW j, NEW c \in Block, Added(p, g, j, c), Taken(c)
    PROVE  Once' /\ Accounted'
<1>1. \A o, f, i : ~Owns(o, f, i, c)
  BY DEF Accounted, Taken
<1>2. Once'
  BY <1>1 DEF Once, Added
<1>3. Accounted'
  BY DEF Accounted, Added, Taken
<1>4. QED
  BY <1>2, <1>3

LEMMA OwnersDropped ==
    ASSUME Shape, Once, Accounted, NEW bs,
           \A o, f, i, b : Owns(o, f, i, b)' <=> Owns(o, f, i, b) /\ b \notin bs,
           FreeAll(bs)
    PROVE  Once' /\ Accounted'
<1>1. \A b \in Block : (str'[b] # NULL) <=> (str[b] # NULL /\ b \notin bs)
  BY DEF FreeAll
<1>2. Once'
  BY DEF Once
<1>3. Accounted'
  BY <1>1 DEF Accounted
<1>4. QED
  BY <1>2, <1>3

\* The slots of the call's map, before and after a change to it.
LEMMA OwnsThis ==
    ASSUME Shape, pc # "idle", NEW f, NEW i, NEW b
    PROVE  Owns(call.map, f, i, b) <=>
              b \in Block /\ f \in Field /\ i \in 1..This.count /\ This[f][i] = b
BY CallsMap, MapAssumption DEF Owns

LEMMA OwnsBecomes ==
    ASSUME Shape, pc # "idle", NEW d \in MapStruct, Becomes(d), UNCHANGED vec,
           NEW o, NEW f, NEW i, NEW b
    PROVE  Owns(o, f, i, b)' <=>
              IF o = call.map THEN b \in Block /\ f \in Field /\ i \in 1..d.count /\ d[f][i] = b
                              ELSE Owns(o, f, i, b)
<1>1. /\ Open' = Open /\ map'[call.map] = d /\ call.map \in Open /\ call.map # NULL
      /\ \A m \in Open : m # call.map => map'[m] = map[m]
  BY Changed, CallsMap, MapAssumption DEF Open
<1>2. QED
  BY <1>1 DEF Owns

\* A change of the call's map that leaves the slots of its pairs alone.
LEMMA OwnersSame ==
    ASSUME Shape, Once, Accounted, pc # "idle", NEW d \in MapStruct, Becomes(d),
           UNCHANGED <<str, vec>>,
           \A f \in Field, b \in Block, i \in Nat :
              (i \in 1..d.count /\ d[f][i] = b) <=> (i \in 1..This.count /\ This[f][i] = b)
    PROVE  Once' /\ Accounted'
<1>1. This.count \in Nat /\ d.count \in Nat
  BY CallsMap DEF MapStruct
<1>2. \A o, f, i, b : Owns(o, f, i, b)' <=> Owns(o, f, i, b)
  <2> SUFFICES ASSUME NEW o, NEW f, NEW i, NEW b
               PROVE  Owns(o, f, i, b)' <=> Owns(o, f, i, b)
    OBVIOUS
  <2>1. Owns(o, f, i, b)' <=>
              IF o = call.map THEN b \in Block /\ f \in Field /\ i \in 1..d.count /\ d[f][i] = b
                              ELSE Owns(o, f, i, b)
    BY OwnsBecomes
  <2>2. Owns(call.map, f, i, b) <=>
              b \in Block /\ f \in Field /\ i \in 1..This.count /\ This[f][i] = b
    BY OwnsThis
  <2>3. QED
    BY <1>1, <2>1, <2>2
<1>3. QED
  BY <1>2, OwnersKept

LEMMA OwnersUnchanged == Once /\ Accounted /\ UNCHANGED <<map, str, vec>> => Once' /\ Accounted'
<1> SUFFICES ASSUME Once, Accounted, UNCHANGED <<map, str, vec>> PROVE Once' /\ Accounted'
  OBVIOUS
<1>1. \A o, f, i, b : Owns(o, f, i, b)' <=> Owns(o, f, i, b)
  BY DEF Owns, Open
<1>2. QED
  BY <1>1, OwnersKept

LEMMA OwnersGrowKeys == Shape /\ Once /\ Accounted /\ GrowKeys => Once' /\ Accounted'
<1> SUFFICES ASSUME Shape, Once, Accounted, GrowKeys PROVE Once' /\ Accounted'
  OBVIOUS
<1>0. pc = "grow_keys" /\ pc # "idle" /\ UNCHANGED <<str, vec>>
  BY DEF GrowKeys
<1>1. CASE UNCHANGED map
  BY <1>0, <1>1, OwnersUnchanged
<1>2. CASE Becomes([This EXCEPT !.keys = Cleared(@, This.count + 1)])
  <2> DEFINE d == [This EXCEPT !.keys = Cleared(@, This.count + 1)]
  <2>1. /\ d \in MapStruct /\ d.count = This.count /\ d.values = This.values
        /\ \A i \in 1..This.count : d.keys[i] = This.keys[i]
    BY <1>0, KeysGrown
  <2>2. Becomes(d)
    BY <1>2
  <2> HIDE DEF d
  <2>3. QED
    BY <1>0, <2>1, <2>2, OwnersSame DEF Field
<1>3. QED
  BY <1>1, <1>2 DEF GrowKeys

LEMMA OwnersGrowValues == Shape /\ Once /\ Accounted /\ GrowValues => Once' /\ Accounted'
<1> SUFFICES ASSUME Shape, Once, Accounted, GrowValues PROVE Once' /\ Accounted'
  OBVIOUS
<1>0. /\ pc = "grow_values" /\ pc # "idle" /\ UNCHANGED <<str, vec>>
      /\ This \in MapStruct /\ This.count \in Nat /\ Roomy(This)
  BY CallsMap DEF GrowValues
<1>1. CASE ValuesGrown
  <2> DEFINE d == [This EXCEPT !.values = Cleared(@, This.count + 1), !.count = @ + 1]
  <2>1. /\ d \in MapStruct /\ d.count = This.count + 1
        /\ d.keys = This.keys /\ d.values[d.count] = 0
        /\ \A i \in 1..This.count : d.values[i] = This.values[i]
    BY <1>0, BothGrown
  <2>2. Becomes(d)
    BY <1>1 DEF ValuesGrown
  <2>3. d.keys[d.count] = 0
    BY <1>0, <2>1 DEF Shape, Pointed
  <2> HIDE DEF d
  <2>4. 0 \notin Block /\ \A i \in 1..d.count : i = d.count \/ i \in 1..This.count
    BY <1>0, <2>1 DEF Block
  <2>5. \A f \in Field : d[f][d.count] = 0 /\ \A i \in 1..This.count : d[f][i] = This[f][i]
    BY <2>1, <2>3 DEF Field
  <2>6. \A f \in Field, b \in Block, i \in Nat :
           (i \in 1..d.count /\ d[f][i] = b) <=> (i \in 1..This.count /\ This[f][i] = b)
    BY <1>0, <2>1, <2>4, <2>5
  <2>7. QED
    BY <1>0, <2>1, <2>2, <2>6, OwnersSame
<1>2. ASSUME NEW ks \in IF This.count = 0 THEN {<<>>} ELSE Shrunk(This.keys, This.count),
             Becomes([This EXCEPT !.keys = ks])
      PROVE  Once' /\ Accounted'
  <2>1. ks \in Seq(0..MaxBlock) /\ \A i \in 1..This.count : ks[i] = This.keys[i]
    <3>1. CASE This.count = 0
      BY <3>1
    <3>2. CASE This.count # 0
      BY <3>2, <1>0, ShrunkVector DEF MapStruct, Roomy
    <3>3. QED
      BY <3>1, <3>2
  <2> DEFINE d == [This EXCEPT !.keys = ks]
  <2>2. d \in MapStruct /\ d.keys = ks /\ d.values = This.values /\ d.count = This.count
    BY <1>0, <2>1 DEF MapStruct
  <2>3. Becomes(d)
    BY <1>2
  <2> HIDE DEF d
  <2>4. QED
    BY <1>0, <2>1, <2>2, <2>3, OwnersSame DEF Field
<1>3. QED
  BY <1>1, <1>2 DEF GrowValues

\* A block put into the last slot, which was empty.
LEMMA OwnersPut ==
    ASSUME Shape, Once, Accounted, pc # "idle", NEW g \in Field, NEW n \in 1..This.count,
           This[g][n] = 0,
           NEW c \in Block, Taken(c),
           NEW d \in MapStruct, Becomes(d), UNCHANGED vec, d.count = This.count,
           \A f \in Field, i \in 1..This.count :
              d[f][i] = IF f = g /\ i = n THEN c ELSE This[f][i]
    PROVE  Once' /\ Accounted'
<1>1. 0 \notin Block /\ This.count \in Nat
  BY CallsMap DEF Block
<1>2. \A o, f, i, b : Owns(o, f, i, b)' <=> \/ Owns(o, f, i, b)
                                            \/ o = call.map /\ f = g /\ i = n /\ b = c
  <2> SUFFICES ASSUME NEW o, NEW f, NEW i, NEW b
               PROVE  Owns(o, f, i, b)' <=> \/ Owns(o, f, i, b)
                                            \/ o = call.map /\ f = g /\ i = n /\ b = c
    OBVIOUS
  <2>1. Owns(o, f, i, b)' <=>
              IF o = call.map THEN b \in Block /\ f \in Field /\ i \in 1..d.count /\ d[f][i] = b
                              ELSE Owns(o, f, i, b)
    BY OwnsBecomes
  <2>2. Owns(call.map, f, i, b) <=>
              b \in Block /\ f \in Field /\ i \in 1..This.count /\ This[f][i] = b
    BY OwnsThis
  <2>3. QED
    BY <1>1, <2>1, <2>2
<1>3. Added(call.map, g, n, c)
  BY <1>2, Zenon DEF Added
<1>4. QED
  BY <1>3, OwnerAdded

LEMMA OwnersCopyKey == Shape /\ Once /\ Accounted /\ CopyKey => Once' /\ Accounted'
<1> SUFFICES ASSUME Shape, Once, Accounted, CopyKey PROVE Once' /\ Accounted'
  OBVIOUS
<1>0. /\ pc = "copy_key" /\ pc # "idle" /\ UNCHANGED vec
      /\ This \in MapStruct /\ Roomy(This) /\ This.count \in Nat \ {0}
      /\ This.count \in 1..This.count
  BY LastPair DEF CopyKey
<1>a. This.keys[This.count] = 0 /\ This.values[This.count] = 0 /\ 0 \notin Block
  BY <1>0 DEF Shape, Pointed, Block
<1>1. ASSUME NEW b \in Block, Free(b), str' = [str EXCEPT ![b] = call.key],
             Becomes([This EXCEPT !.keys[This.count] = b])
      PROVE  Once' /\ Accounted'
  <2> DEFINE d == WithKey(This, This.count, b)
  <2>1. /\ d \in MapStruct /\ Roomy(d) /\ d.count = This.count /\ d.values = This.values
        /\ \A j \in 1..This.count : d.keys[j] = IF j = This.count THEN b ELSE This.keys[j]
    BY <1>0, KeyPut
  <2>2. Becomes(d)
    BY <1>1 DEF WithKey
  <2> HIDE DEF d
  <2>3. Taken(b)
    <3>1. call.key \in Key
      BY <1>0 DEF Shape, Calls, Insertion
    <3>2. QED
      BY <1>1, <3>1, MapAssumption DEF Taken, Free, Shape, Types, TypeOK
  <2>4. \A f \in Field, i \in 1..This.count :
           d[f][i] = IF f = "keys" /\ i = This.count THEN b ELSE This[f][i]
    BY <2>1 DEF Field
  <2>5. PICK g \in Field : g = "keys"
    BY DEF Field
  <2>6. This[g][This.count] = 0
    BY <1>a, <2>5
  <2>7. \A f \in Field, i \in 1..This.count :
           d[f][i] = IF f = g /\ i = This.count THEN b ELSE This[f][i]
    BY <2>4, <2>5
  <2>8. QED
    BY <1>0, <1>1, <2>1, <2>2, <2>3, <2>6, <2>7, OwnersPut
<1>2. ASSUME NEW d \in Map_DecreaseStorageKeysValues(This), Becomes(d), UNCHANGED str
      PROVE  Once' /\ Accounted'
  <2>1. /\ d \in MapStruct /\ d.count = This.count - 1
        /\ \A f \in Field : \A i \in 1..d.count : d[f][i] = This[f][i]
    BY <1>0, Decreased
  <2>2. \A f \in Field : This[f][This.count] = 0
    BY <1>a DEF Field
  <2>3. \A i \in Nat : i \in 1..This.count <=> (i \in 1..d.count \/ i = This.count)
    BY <1>0, <2>1
  <2>4. \A f \in Field, b \in Block, i \in Nat :
           (i \in 1..d.count /\ d[f][i] = b) <=> (i \in 1..This.count /\ This[f][i] = b)
    BY <1>0, <1>a, <2>1, <2>2, <2>3
  <2>5. QED
    BY <1>0, <1>2, <2>1, <2>4, OwnersSame
<1>3. QED
  BY <1>1, <1>2 DEF CopyKey

LEMMA OwnersCopyValue == Shape /\ Once /\ Accounted /\ CopyValue => Once' /\ Accounted'
<1> SUFFICES ASSUME Shape, Once, Accounted, CopyValue PROVE Once' /\ Accounted'
  OBVIOUS
<1>0. /\ pc = "copy_value" /\ pc # "idle" /\ UNCHANGED vec
      /\ This \in MapStruct /\ Roomy(This) /\ This.count \in Nat \ {0}
      /\ This.count \in 1..This.count
  BY LastPair DEF CopyValue
<1>a. This.keys[This.count] \in Block /\ This.values[This.count] = 0 /\ 0 \notin Block
  BY <1>0 DEF Shape, Pointed, Block
<1>1. ASSUME NEW b \in Block, Free(b), str' = [str EXCEPT ![b] = call.value],
             Becomes([This EXCEPT !.values[This.count] = b])
      PROVE  Once' /\ Accounted'
  <2> DEFINE d == WithValue(This, This.count, b)
  <2>1. /\ d \in MapStruct /\ Roomy(d) /\ d.count = This.count /\ d.keys = This.keys
        /\ \A j \in 1..This.count : d.values[j] = IF j = This.count THEN b ELSE This.values[j]
    BY <1>0, ValuePut
  <2>2. Becomes(d)
    BY <1>1 DEF WithValue
  <2> HIDE DEF d
  <2>3. Taken(b)
    <3>1. call.value \in Value
      BY <1>0 DEF Shape, Calls, Insertion
    <3>2. QED
      BY <1>1, <3>1, MapAssumption DEF Taken, Free, Shape, Types, TypeOK
  <2>4. \A f \in Field, i \in 1..This.count :
           d[f][i] = IF f = "values" /\ i = This.count THEN b ELSE This[f][i]
    BY <2>1 DEF Field
  <2>5. PICK g \in Field : g = "values"
    BY DEF Field
  <2>6. This[g][This.count] = 0
    BY <1>a, <2>5
  <2>7. \A f \in Field, i \in 1..This.count :
           d[f][i] = IF f = g /\ i = This.count THEN b ELSE This[f][i]
    BY <2>4, <2>5
  <2>8. QED
    BY <1>0, <1>1, <2>1, <2>2, <2>3, <2>6, <2>7, OwnersPut
<1>2. ASSUME NEW d \in Map_DecreaseStorageKeysValues(This), Becomes(d),
             FreeAll({This.keys[This.count]})
      PROVE  Once' /\ Accounted'
  <2> DEFINE c == This.keys[This.count]
  <2>1. /\ d \in MapStruct /\ d.count = This.count - 1
        /\ \A f \in Field : \A i \in 1..d.count : d[f][i] = This[f][i]
    BY <1>0, Decreased
  <2>2. Owns(call.map, "keys", This.count, c)
    BY <1>0, <1>a, OwnsThis DEF Field
  <2>3. \A o, f, i, b : Owns(o, f, i, b)' <=> Owns(o, f, i, b) /\ b \notin {c}
    <3> SUFFICES ASSUME NEW o, NEW f, NEW i, NEW b
                 PROVE  Owns(o, f, i, b)' <=> Owns(o, f, i, b) /\ b # c
      OBVIOUS
    <3>1. Owns(o, f, i, b)' <=>
                IF o = call.map THEN b \in Block /\ f \in Field /\ i \in 1..d.count /\ d[f][i] = b
                                ELSE Owns(o, f, i, b)
      BY <1>0, <1>2, <2>1, OwnsBecomes
    <3>2. Owns(call.map, f, i, b) <=>
                b \in Block /\ f \in Field /\ i \in 1..This.count /\ This[f][i] = b
      BY <1>0, OwnsThis
    <3>3. Owns(o, f, i, b) /\ b = c => o = call.map /\ f = "keys" /\ i = This.count
      BY <2>2 DEF Once
    <3>4. f \in Field => This[f][This.count] = 0 \/ This[f][This.count] = c
      BY <1>a DEF Field
    <3>5. i \in 1..This.count <=> (i \in 1..d.count \/ i = This.count)
      BY <1>0, <2>1
    <3>6. ~(This.count \in 1..d.count)
      BY <1>0, <2>1
    <3> HIDE DEF c
    <3>7. QED
      BY <1>a, <2>1, <3>1, <3>2, <3>3, <3>4, <3>5, <3>6
  <2>4. QED
    BY <1>2, <2>3, OwnersDropped
<1>3. QED
  BY <1>1, <1>2 DEF CopyValue, ValueCopied

LEMMA OwnersUpdate ==
    ASSUME Shape, Once, Accounted, pc = "addorupdate", NEW n \in 1..This.count, Update(n),
           UNCHANGED vec
    PROVE  Once' /\ Accounted'
<1>0. /\ pc # "idle" /\ This \in MapStruct /\ Roomy(This) /\ Ready(This) /\ This.count \in Nat
      /\ call.value \in Value /\ call.value # NULL
  BY CallsMap, ReadyMap, MapAssumption DEF Shape, Calls
<1>1. ASSUME NEW c \in Block, c = This.values[n] \/ Free(c),
             str' = [str EXCEPT ![This.values[n]] = NULL, ![c] = call.value],
             Becomes([This EXCEPT !.values[n] = c])
      PROVE  Once' /\ Accounted'
  <2> DEFINE d == WithValue(This, n, c)
             old == This.values[n]
  <2>1. /\ d \in MapStruct /\ Roomy(d) /\ d.count = This.count /\ d.keys = This.keys
        /\ \A j \in 1..This.count : d.values[j] = IF j = n THEN c ELSE This.values[j]
    BY <1>0, ValuePut
  <2>2. Becomes(d)
    BY <1>1 DEF WithValue
  <2> HIDE DEF d
  <2>3. old \in Block /\ Owns(call.map, "values", n, old)
    BY <1>0, OwnsThis DEF Ready, Field
  <2>4. \A o, f, i, b : Owns(o, f, i, b)' <=>
           IF o = call.map /\ f = "values" /\ i = n THEN b = c ELSE Owns(o, f, i, b)
    <3> SUFFICES ASSUME NEW o, NEW f, NEW i, NEW b
                 PROVE  Owns(o, f, i, b)' <=>
                           IF o = call.map /\ f = "values" /\ i = n THEN b = c
                                                                    ELSE Owns(o, f, i, b)
      OBVIOUS
    <3>1. Owns(o, f, i, b)' <=>
                IF o = call.map THEN b \in Block /\ f \in Field /\ i \in 1..d.count /\ d[f][i] = b
                                ELSE Owns(o, f, i, b)
      BY <1>0, <2>1, <2>2, OwnsBecomes
    <3>2. Owns(call.map, f, i, b) <=>
                b \in Block /\ f \in Field /\ i \in 1..This.count /\ This[f][i] = b
      BY <1>0, OwnsThis
    <3>3. QED
      BY <2>1, <3>1, <3>2 DEF Field
  <2>5. \A b \in Block : (str'[b] # NULL) <=> (b = c \/ (b # old /\ str[b] # NULL))
    BY <1>0, <1>1, <2>3 DEF Shape, Types, TypeOK
  <2>6. \A o, f, i : Owns(o, f, i, c) => o = call.map /\ f = "values" /\ i = n
    <3>1. CASE c = old
      BY <2>3, <3>1 DEF Once
    <3>2. CASE Free(c)
      BY <3>2 DEF Free, Accounted
    <3>3. QED
      BY <1>1, <3>1, <3>2
  <2> HIDE DEF old
  <2>7. Once'
    BY <2>3, <2>4, <2>6 DEF Once
  <2>8. Accounted'
    <3> SUFFICES ASSUME NEW b \in Block
                 PROVE  (str'[b] # NULL) <=> \E o, f, i : Owns(o, f, i, b)'
      BY DEF Accounted
    <3>1. CASE b = c
      BY <2>4, <2>5, <3>1
    <3>2. CASE b # c /\ b = old
      <4>1. \A o, f, i : ~Owns(o, f, i, b)'
        BY <2>3, <2>4, <3>2 DEF Once
      <4>2. QED
        BY <2>5, <3>2, <4>1
    <3>3. CASE b # c /\ b # old
      <4>0. ~Owns(call.map, "values", n, b)
        BY <1>0, <3>3, OwnsThis DEF old
      <4>1. \A o, f, i : Owns(o, f, i, b)' <=> Owns(o, f, i, b)
        BY <2>4, <3>3, <4>0
      <4>2. QED
        BY <2>5, <3>3, <4>1 DEF Accounted
    <3>4. QED
      BY <3>1, <3>2, <3>3
  <2>9. QED
    BY <2>7, <2>8
<1>2. CASE UNCHANGED <<map, str, kept>>
  BY <1>2, OwnersUnchanged
<1>3. QED
  BY <1>1, <1>2 DEF Update

LEMMA OwnersDelete == Shape /\ Once /\ Accounted /\ sky_map_delete => Once' /\ Accounted'
<1> SUFFICES ASSUME Shape, Once, Accounted, sky_map_delete PROVE Once' /\ Accounted'
  OBVIOUS
<1> DEFINE n == findKey(call.key)
<1>0. pc = "delete" /\ pc # "idle" /\ UNCHANGED vec
  BY DEF sky_map_delete, DeleteWith
<1>1. CASE UNCHANGED <<map, str>>
  BY <1>0, <1>1, OwnersUnchanged
<1>2. ASSUME n # 0, FreeAll({This.keys[n], This.values[n]}),
             NEW d \in Map_DecreaseStorageKeysValues(Without(This, n)), Becomes(d)
      PROVE  Once' /\ Accounted'
  <2>1. n \in 1..This.count
    BY <1>0, <1>2, FindKey
  <2>2. This.count \in Nat /\ Ready(This)
    BY <1>0, CallsMap, ReadyMap
  <2> HIDE DEF n
  <2>3. /\ d \in MapStruct /\ d.count = This.count - 1
        /\ \A f \in Field : \A j \in 1..d.count : d[f][j] = This[f][IF j < n THEN j ELSE j + 1]
    BY <1>0, <2>1, Deleted
  <2> DEFINE gone == {This.keys[n], This.values[n]}
  <2>4. \A f, b : Owns(call.map, f, n, b) => b \in gone
    BY <1>0, OwnsThis DEF Field
  <2>5. \A b \in gone : \E f : Owns(call.map, f, n, b)
    <3>1. Owns(call.map, "keys", n, This.keys[n])
      BY <1>0, <2>1, <2>2, OwnsThis DEF Ready, Field
    <3>2. Owns(call.map, "values", n, This.values[n])
      BY <1>0, <2>1, <2>2, OwnsThis DEF Ready, Field
    <3>3. QED
      BY <3>1, <3>2
  <2>6. \A o, f, i, b : o # call.map => (Owns(o, f, i, b)' <=> Owns(o, f, i, b))
    BY <1>0, <1>2, <2>3, OwnsBecomes
  <2>7. ASSUME NEW o, o = call.map, NEW f, NEW i, NEW b
        PROVE  Owns(o, f, i, b)' <=>
                  i \in 1..(This.count - 1) /\ Owns(o, f, IF i < n THEN i ELSE i + 1, b)
    <3>1. Owns(o, f, i, b)' <=>
             b \in Block /\ f \in Field /\ i \in 1..d.count /\ d[f][i] = b
      BY <1>0, <1>2, <2>3, <2>7, OwnsBecomes
    <3>2. i \in 1..(This.count - 1) => (IF i < n THEN i ELSE i + 1) \in 1..This.count
      BY <2>1, <2>2
    <3>3. Owns(o, f, IF i < n THEN i ELSE i + 1, b) <=>
             /\ b \in Block /\ f \in Field /\ (IF i < n THEN i ELSE i + 1) \in 1..This.count
             /\ This[f][IF i < n THEN i ELSE i + 1] = b
      BY <1>0, <2>7, OwnsThis
    <3>4. QED
      BY <2>3, <3>1, <3>2, <3>3
  <2>8. ASSUME NEW o, NEW f, NEW i, NEW b, Owns(o, f, i, b)
        PROVE  b \in gone \/ \E j : Owns(o, f, j, b)'
    <3>1. CASE o # call.map
      BY <2>6, <2>8, <3>1
    <3>2. CASE o = call.map
      <4>1. i \in 1..This.count
        BY <1>0, <2>8, <3>2, OwnsThis
      <4>2. CASE i = n
        BY <2>4, <2>8, <3>2, <4>2
      <4>3. CASE i < n
        <5>1. i \in 1..(This.count - 1) /\ (IF i < n THEN i ELSE i + 1) = i
          BY <2>1, <2>2, <4>1, <4>3
        <5>2. Owns(o, f, i, b)' <=>
                 i \in 1..(This.count - 1) /\ Owns(o, f, IF i < n THEN i ELSE i + 1, b)
          BY <2>7, <3>2
        <5>3. QED
          BY <2>8, <5>1, <5>2
      <4>4. CASE i > n
        <5>1. i - 1 \in 1..(This.count - 1) /\ ~(i - 1 < n) /\ (i - 1) + 1 = i
          BY <2>1, <2>2, <4>1, <4>4
        <5>2. QED
          BY <2>7, <2>8, <3>2, <5>1
      <4>5. QED
        BY <2>1, <4>1, <4>2, <4>3, <4>4
    <3>3. QED
      BY <3>1, <3>2
  <2>9. ASSUME NEW o, NEW f, NEW i, NEW b, Owns(o, f, i, b)'
        PROVE  b \notin gone /\ \E j : Owns(o, f, j, b)
    <3>1. PICK j : Owns(o, f, j, b) /\ (o = call.map => j # n)
      <4>1. CASE o # call.map
        BY <2>6, <2>9, <4>1
      <4>2. CASE o = call.map
        <5>1. i \in 1..(This.count - 1) /\ Owns(o, f, IF i < n THEN i ELSE i + 1, b)
          BY <2>7, <2>9, <4>2
        <5>2. (IF i < n THEN i ELSE i + 1) # n
          BY <2>1, <2>2, <5>1
        <5>3. QED
          BY <5>1, <5>2
      <4>3. QED
        BY <4>1, <4>2
    <3>2. b \notin gone
      BY <2>5, <3>1 DEF Once
    <3>3. QED
      BY <3>1, <3>2
  <2>10. Once'
    <3> SUFFICES ASSUME NEW b, NEW o, NEW f, NEW i, NEW p, NEW g, NEW j,
                        Owns(o, f, i, b)', Owns(p, g, j, b)'
                 PROVE  o = p /\ f = g /\ i = j
      BY DEF Once
    <3>1. o = p /\ f = g
      BY <2>9 DEF Once
    <3>2. CASE o # call.map
      BY <2>6, <3>1, <3>2 DEF Once
    <3>3. CASE o = call.map
      <4>1. /\ i \in 1..(This.count - 1) /\ Owns(o, f, IF i < n THEN i ELSE i + 1, b)
            /\ j \in 1..(This.count - 1) /\ Owns(o, f, IF j < n THEN j ELSE j + 1, b)
        BY <2>7, <3>1, <3>3
      <4>2. (IF i < n THEN i ELSE i + 1) = (IF j < n THEN j ELSE j + 1)
        BY <4>1 DEF Once
      <4>3. QED
        BY <2>1, <2>2, <3>1, <4>1, <4>2
    <3>4. QED
      BY <3>2, <3>3
  <2>11. Accounted'
    <3>1. \A b \in Block : (str'[b] # NULL) <=> (str[b] # NULL /\ b \notin gone)
      BY <1>2 DEF FreeAll
    <3> HIDE DEF gone
    <3>2. QED
      BY <2>8, <2>9, <3>1 DEF Accounted
  <2>12. QED
    BY <2>10, <2>11
<1>3. QED
  BY <1>1, <1>2 DEF sky_map_delete, DeleteWith, Without

\* A new map has no slots.
LEMMA OwnersEmpty ==
    ASSUME Shape, Once, Accounted, NEW n \in Map \ Open, NEW filter \in BOOLEAN,
           map' = [map EXCEPT ![n] = [keys |-> <<>>, values |-> <<>>, count |-> 0,
                                      mapFilterCallback |-> filter]],
           UNCHANGED <<str, vec>>
    PROVE  Once' /\ Accounted'
<1>1. /\ map'[n] \in MapStruct /\ map'[n].count = 0
      /\ \A o \in Map \ {n} : map'[o] = map[o]
  BY EmptyReady DEF Shape, Types, TypeOK
<1>2. Open' = Open \cup {n} /\ n \notin Open
  BY <1>1, MapAssumption DEF Open
<1>3. 1..map'[n].count = {}
  BY <1>1
<1>4. \A o, f, i, b : Owns(o, f, i, b)' <=> Owns(o, f, i, b)
  BY <1>1, <1>2, <1>3 DEF Owns, Open
<1>5. QED
  BY <1>4, OwnersKept

LEMMA OwnersDestroy ==
    ASSUME Shape, Once, Accounted, NEW m \in Map, sky_map_destroy(m)
    PROVE  Once' /\ Accounted'
<1>1. /\ m \in Open /\ FreeAll(Strings(m)) /\ map' = [map EXCEPT ![m] = NULL]
      /\ UNCHANGED vec
  BY DEF sky_map_destroy
<1>2. Open' = Open \ {m} /\ m # NULL /\ \A o \in Map \ {m} : map'[o] = map[o]
  BY <1>1, MapAssumption DEF Shape, Types, TypeOK, Open
<1>3. \A b : b \in Block => (b \in Strings(m) <=> \E f, i : Owns(m, f, i, b))
  <2>1. \A f, i, b : Owns(m, f, i, b) <=>
           b \in Block /\ f \in Field /\ i \in 1..map[m].count /\ map[m][f][i] = b
    BY <1>1, <1>2 DEF Owns
  <2>2. QED
    BY <2>1 DEF Strings, Field
<1>4. \A o, f, i, b : Owns(o, f, i, b)' <=> o # m /\ Owns(o, f, i, b)
  BY <1>1, <1>2 DEF Owns, Open
<1>5. \A o, f, i, b : Owns(o, f, i, b) => b \in Block
  BY DEF Owns
<1>6. \A o, f, i, b : Owns(o, f, i, b)' <=> Owns(o, f, i, b) /\ b \notin Strings(m)
  BY <1>3, <1>4, <1>5 DEF Once
<1>7. QED
  BY <1>1, <1>6, OwnersDropped

LEMMA OwnersCloneString == Shape /\ Copied /\ Once /\ Accounted /\ CloneString => Once' /\ Accounted'
<1> SUFFICES ASSUME Shape, Copied, Once, Accounted, CloneString PROVE Once' /\ Accounted'
  OBVIOUS
<1>0. pc = "clonevector" /\ pc # "idle" /\ ~Filled /\ UNCHANGED <<map, call>>
  BY DEF CloneString
<1> DEFINE n == Len(vec[Filling]) + 1
<1>1. PICK c \in Block : /\ Free(c)
                         /\ str' = [str EXCEPT ![c] = str[This[Filling][n]]]
                         /\ vec' = Extended(vec, Filling, c)
  BY DEF CloneString, Extended
<1>2. PICK g \in Field : g = Filling
  BY <1>0, Cloning
<1>3. n \in 1..This.count /\ This[g][n] \in Block /\ call.map \in Open
  BY <1>0, <1>2, Cloning DEF Ready
<1>4. /\ \A f \in Field : f # g => vec'[f] = vec[f]
      /\ Len(vec'[g]) = n /\ Len(vec[g]) \in Nat /\ n = Len(vec[g]) + 1
      /\ \A i \in 1..Len(vec[g]) : vec'[g][i] = vec[g][i]
      /\ vec'[g][n] = c
  BY <1>1, <1>2, ExtendedVec
<1>5. Added(NULL, g, n, c)
  <2>1. Open' = Open /\ NULL \notin Open
    BY <1>0, MapAssumption DEF Open
  <2> HIDE DEF n
  <2>2. \A i : i \in 1..n <=> (i \in 1..Len(vec[g]) \/ i = n)
    BY <1>4
  <2>3. \A o, f, i, b : Owns(o, f, i, b)' <=> \/ Owns(o, f, i, b)
                                              \/ o = NULL /\ f = g /\ i = n /\ b = c
    <3> SUFFICES ASSUME NEW o, NEW f, NEW i, NEW b
                 PROVE  Owns(o, f, i, b)' <=> \/ Owns(o, f, i, b)
                                              \/ o = NULL /\ f = g /\ i = n /\ b = c
      OBVIOUS
    <3>1. CASE o # NULL
      BY <1>0, <2>1, <3>1 DEF Owns
    <3>2. CASE o = NULL /\ f # g
      BY <1>4, <2>1, <3>2 DEF Owns
    <3>3. CASE o = NULL /\ f = g
      <4>1. Owns(o, f, i, b)' <=> b \in Block /\ i \in 1..n /\ vec'[g][i] = b
        BY <1>4, <2>1, <3>3 DEF Owns
      <4>2. Owns(o, f, i, b) <=> b \in Block /\ i \in 1..Len(vec[g]) /\ vec[g][i] = b
        BY <2>1, <3>3 DEF Owns
      <4>3. n \notin 1..Len(vec[g])
        BY <1>4
      <4>4. QED
        BY <1>4, <2>2, <3>3, <4>1, <4>2, <4>3
    <3>4. QED
      BY <3>1, <3>2, <3>3
  <2>4. QED
    BY <2>3, Zenon DEF Added
<1>6. Taken(c)
  <2>1. Owns(call.map, g, n, This[g][n])
    BY <1>0, <1>3, OwnsThis
  <2>2. str[This[g][n]] # NULL
    BY <1>3, <2>1 DEF Accounted
  <2> HIDE DEF n
  <2>3. QED
    BY <1>1, <1>2, <2>2 DEF Taken, Free, Shape, Types, TypeOK
<1>7. QED
  BY <1>5, <1>6, OwnerAdded

LEMMA OwnersCloneFails == Shape /\ Once /\ Accounted /\ CloneFails => Once' /\ Accounted'
<1> SUFFICES ASSUME Shape, Once, Accounted, CloneFails PROVE Once' /\ Accounted'
  OBVIOUS
<1> DEFINE bs == ToSet(vec.keys) \cup ToSet(vec.values)
<1>1. FreeAll(bs) /\ vec' = NoVec /\ UNCHANGED map
  BY DEF CloneFails
<1>2. vec.keys \in Seq(Block) /\ vec.values \in Seq(Block) /\ NULL \notin Open
  BY MapAssumption DEF Shape, Types, Open
<1>3. \A b \in Block : b \in bs <=> \E f, i : Owns(NULL, f, i, b)
  <2>1. \A b : b \in bs <=> \/ \E i \in 1..Len(vec.keys) : vec.keys[i] = b
                            \/ \E i \in 1..Len(vec.values) : vec.values[i] = b
    BY <1>2 DEF ToSet
  <2>2. \A f, i, b : Owns(NULL, f, i, b) <=>
           b \in Block /\ f \in Field /\ i \in 1..Len(vec[f]) /\ vec[f][i] = b
    BY <1>2 DEF Owns
  <2> HIDE DEF bs
  <2>3. QED
    BY <2>1, <2>2 DEF Field
<1> HIDE DEF bs
<1>4. \A f \in Field : 1..Len(vec'[f]) = {}
  BY <1>1 DEF NoVec, Field
<1>5. \A o, f, i, b : Owns(o, f, i, b)' <=> o # NULL /\ Owns(o, f, i, b)
  BY <1>1, <1>2, <1>4 DEF Owns, Open
<1>6. \A o, f, i, b : Owns(o, f, i, b) => b \in Block
  BY DEF Owns
<1>7. \A o, f, i, b : Owns(o, f, i, b)' <=> Owns(o, f, i, b) /\ b \notin bs
  BY <1>3, <1>5, <1>6 DEF Once
<1>8. QED
  BY <1>1, <1>7, OwnersDropped

LEMMA OwnersCloneDone == Shape /\ Copied /\ Once /\ Accounted /\ CloneDone => Once' /\ Accounted'
<1> SUFFICES ASSUME Shape, Copied, Once, Accounted, CloneDone PROVE Once' /\ Accounted'
  OBVIOUS
<1>0. pc = "clonevector" /\ Filled /\ UNCHANGED str /\ vec' = NoVec
  BY DEF CloneDone, CloneDoneWith
<1>1. /\ Open' = Open \cup {call.to} /\ call.to \notin Open /\ call.to \in Map
      /\ \A o \in Map \ {call.to} : map'[o] = map[o]
      /\ map'[call.to].count = This.count
      /\ \A f \in Field : map'[call.to][f] = vec[f] /\ Len(vec[f]) = This.count
  BY <1>0, Cloning, Cloned DEF Field
<1>2. PICK n : n = call.to
  OBVIOUS
<1>3. n # NULL /\ NULL \notin Open /\ NULL \notin Open'
  BY <1>1, <1>2, MapAssumption DEF Open
<1>4. \A f \in Field : 1..Len(vec'[f]) = {}
  BY <1>0 DEF NoVec, Field
<1>5. \A f, i, b : Owns(n, f, i, b)' <=> Owns(NULL, f, i, b)
  BY <1>1, <1>2, <1>3 DEF Owns
<1>6. \A o, f, i, b : o # n => (Owns(o, f, i, b)' <=> o # NULL /\ Owns(o, f, i, b))
  BY <1>1, <1>2, <1>3, <1>4 DEF Owns, Open
<1>7. \A f, i, b : ~Owns(n, f, i, b)
  BY <1>1, <1>2, <1>3 DEF Owns
<1>8. Once'
  BY <1>3, <1>5, <1>6 DEF Once
<1>9. Accounted'
  BY <1>0, <1>3, <1>5, <1>6, <1>7 DEF Accounted
<1>10. QED
  BY <1>8, <1>9

LEMMA OwnersCall ==
    ASSUME Shape, Once, Accounted, NEW m \in Map, Call(m)
    PROVE  Once' /\ Accounted'
<1>1. ASSUME NEW filter \in BOOLEAN, sky_map_create(m, filter) PROVE Once' /\ Accounted'
  BY <1>1, OwnersEmpty DEF sky_map_create
<1>2. CASE sky_map_destroy(m)
  BY <1>2, OwnersDestroy
<1>3. CASE UNCHANGED <<map, str, vec>>
  BY <1>3, OwnersUnchanged
<1>4. QED
  BY <1>1, <1>2, <1>3 DEF Call, Invoke

LEMMA OwnersNext ==
    Shape /\ Copied /\ Once /\ Accounted /\ [Next]_vars => Once' /\ Accounted'
<1> SUFFICES ASSUME Shape, Copied, Once, Accounted, [Next]_vars PROVE Once' /\ Accounted'
  OBVIOUS
<1>1. CASE UNCHANGED <<map, str, vec>>
  BY <1>1, OwnersUnchanged
<1>2. ASSUME NEW m \in Map, Call(m) PROVE Once' /\ Accounted'
  BY <1>2, OwnersCall
<1>3. CASE sky_map_addorupdate
  <2>1. findKey(call.key) # 0 => findKey(call.key) \in 1..This.count
    BY <1>3, FindKey DEF sky_map_addorupdate
  <2>2. QED
    BY <1>1, <1>3, <2>1, OwnersUpdate DEF sky_map_addorupdate
<1>4. CASE \/ sky_map_add \/ sky_map_containskey \/ sky_map_containsvalue
           \/ sky_map_getvaluefromkey
  BY <1>1, <1>4 DEF sky_map_add, sky_map_containskey, sky_map_containsvalue,
                    sky_map_getvaluefromkey
<1>5. CASE GrowKeys \/ GrowValues \/ CopyKey \/ CopyValue \/ sky_map_delete
  BY <1>5, OwnersGrowKeys, OwnersGrowValues, OwnersCopyKey, OwnersCopyValue, OwnersDelete
<1>6. CASE sky_map_clone
  <2>1. call.to \in Map \ Open
    BY <1>6 DEF sky_map_clone, Shape, Calls
  <2>2. QED
    BY <1>1, <1>6, <2>1, OwnersEmpty DEF sky_map_clone
<1>7. CASE CloneString \/ CloneFails \/ CloneDone
  BY <1>7, OwnersCloneString, OwnersCloneFails, OwnersCloneDone
<1>8. QED
  BY <1>1, <1>2, <1>3, <1>4, <1>5, <1>6, <1>7 DEF Next, vars
----------------------------------------------------------------------------
(* Contents: what a step does to the pairs. *)

\* The pairs of a map are still where they were, or are all it has.
Keeps(m) ==
    /\ m \in Open'
    /\ \A i \in Pairs(m) : /\ i \in Pairs(m)'
                           /\ KeyAt(m, i)' = KeyAt(m, i) /\ ValueAt(m, i)' = ValueAt(m, i)
                           /\ map'[m].values[i] = map[m].values[i]
Same(m) ==
    /\ Keeps(m)
    /\ Pairs(m)' = Pairs(m)
    /\ map'[m].mapFilterCallback => map[m].mapFilterCallback

\* No string of a pair of the map is written or freed.
Spared(m) ==
    \A b \in Block : str'[b] # str[b] => \A f, i : Owns(m, f, i, b) => i \notin Pairs(m)

LEMMA PairSlots ==
    ASSUME Shape, NEW m \in Open, NEW i \in Pairs(m)
    PROVE  /\ i \in 1..map[m].count /\ map[m].keys[i] \in Block /\ map[m].values[i] \in Block
           /\ Owns(m, "keys", i, map[m].keys[i]) /\ Owns(m, "values", i, map[m].values[i])
<1>1. i \in 1..map[m].count
  BY OpenMap DEF Pairs
<1>2. map[m].keys[i] \in Block /\ map[m].values[i] \in Block
  BY DEF Shape, Pointed, Field
<1>3. QED
  BY <1>1, <1>2 DEF Owns, Field

LEMMA KeepsSlots ==
    ASSUME Shape, NEW m \in Open, m \in Open', Spared(m),
           \A i \in Pairs(m) : /\ i \in Pairs(m)'
                               /\ map'[m].keys[i] = map[m].keys[i]
                               /\ map'[m].values[i] = map[m].values[i]
    PROVE  Keeps(m)
BY PairSlots DEF Keeps, KeyAt, ValueAt, Spared

\* Only free blocks are written.
LEMMA SparedFree ==
    ASSUME Accounted, NEW m, \A b \in Block : str'[b] # str[b] => str[b] = NULL
    PROVE  Spared(m)
BY DEF Accounted, Spared, Owns

\* A map that the call does not change has the pairs it had.
LEMMA OtherPairs ==
    ASSUME Shape, pc # "idle", NEW d \in MapStruct, Becomes(d),
           call' = call \/ call' = NoCall, NEW m \in Open, m # call.map
    PROVE  /\ m \in Open' /\ map'[m] = map[m]
           /\ Pairs(m) = 1..map[m].count /\ Pairs(m)' = 1..map[m].count
<1>1. m \in Open' /\ m \in Map /\ m # NULL /\ map'[m] = map[m]
  BY Changed, OpenMap, MapAssumption
<1>2. QED
  BY <1>1 DEF Pairs, Inserting, NoCall

LEMMA OtherSame ==
    ASSUME Shape, pc # "idle", NEW d \in MapStruct, Becomes(d),
           call' = call \/ call' = NoCall, NEW m \in Open, m # call.map, Spared(m)
    PROVE  Same(m)
BY OtherPairs, KeepsSlots DEF Same

LEMMA SamePairs ==
    ASSUME NEW m, PairsOf(m), Same(m)
    PROVE  PairsOf(m)'
BY DEF PairsOf, Same, Keeps

LEMMA SameWhole ==
    ASSUME WholePairs, Open' \subseteq Open, \A m \in Open' : Same(m)
    PROVE  WholePairs'
BY SamePairs DEF WholePairs

LEMMA SamePointer ==
    ASSUME PointerKept, UNCHANGED kept, \A m \in Open : m = kept.map => Keeps(m)
    PROVE  PointerKept'
<1> SUFFICES ASSUME kept # NotKept PROVE PointerKept'
  BY DEF PointerKept, NotKept
<1>1. PICK m : m = kept.map
  OBVIOUS
<1>2. m \in Open /\ \E i \in Pairs(m) : KeyAt(m, i) = kept.key /\ map[m].values[i] = kept.ptr
  BY <1>1 DEF PointerKept, KeyAt
<1>3. m \in Open' /\ \E i \in Pairs(m)' : KeyAt(m, i)' = kept.key /\ map'[m].values[i] = kept.ptr
  BY <1>1, <1>2 DEF Keeps
<1>4. QED
  BY <1>1, <1>3 DEF PointerKept, KeyAt

\* A change of the call's map that leaves its pairs alone.
LEMMA ThisSame ==
    ASSUME Shape, pc # "idle", NEW d \in MapStruct, Becomes(d),
           call' = call \/ call' = NoCall, NEW m, m = call.map, Spared(m),
           Pairs(m)' = Pairs(m),
           \A i \in Pairs(m) : d.keys[i] = This.keys[i] /\ d.values[i] = This.values[i],
           d.mapFilterCallback => This.mapFilterCallback
    PROVE  Same(m)
<1>1. m \in Open /\ m \in Open' /\ map'[m] = d /\ map[m] = This
  BY CallsMap, Changed
<1>2. Keeps(m)
  BY <1>1, KeepsSlots
<1>3. QED
  BY <1>1, <1>2 DEF Same

LEMMA SameUnchanged ==
    ASSUME Shape, UNCHANGED <<map, str>>, NEW m \in Open, Pairs(m)' = Pairs(m)
    PROVE  Same(m)
<1>1. Spared(m) /\ m \in Open'
  BY DEF Spared, Open
<1>2. Keeps(m)
  BY <1>1, KeepsSlots
<1>3. QED
  BY <1>2 DEF Same

LEMMA SameGrowKeys ==
    ASSUME Shape, GrowKeys
    PROVE  Open' = Open /\ \A m \in Open : Same(m)
<1>0. /\ pc = "grow_keys" /\ pc # "idle" /\ UNCHANGED <<str, vec>>
      /\ \A m : Spared(m)
  BY DEF GrowKeys, Spared
<1>1. CASE Return("MAP_ERROR") /\ UNCHANGED map
  <2>1. \A m \in Open : Pairs(m)' = Pairs(m)
    BY <1>0, <1>1 DEF Pairs, Inserting, Return
  <2>2. QED
    BY <1>0, <1>1, <2>1, SameUnchanged DEF Open
<1>2. CASE Becomes([This EXCEPT !.keys = Cleared(@, This.count + 1)]) /\ Goto("grow_values")
  <2> DEFINE d == [This EXCEPT !.keys = Cleared(@, This.count + 1)]
  <2>1. /\ d \in MapStruct /\ d.count = This.count /\ d.values = This.values
        /\ \A i \in 1..This.count : d.keys[i] = This.keys[i]
        /\ d.mapFilterCallback = This.mapFilterCallback
    BY <1>0, KeysGrown
  <2>2. Becomes(d) /\ call' = call /\ pc' = "grow_values"
    BY <1>2 DEF Goto
  <2> HIDE DEF d
  <2>3. Open' = Open
    BY <1>0, <2>1, <2>2, Changed
  <2>4. ASSUME NEW m, m = call.map PROVE Pairs(m) = 1..This.count /\ Pairs(m)' = 1..This.count
    BY <1>0, <2>1, <2>2, <2>4, CallsMap, Changed DEF Pairs, Inserting
  <2>5. QED
    BY <1>0, <2>1, <2>2, <2>3, <2>4, ThisSame, OtherSame
<1>3. QED
  BY <1>1, <1>2 DEF GrowKeys

LEMMA SameGrowValues ==
    ASSUME Shape, GrowValues
    PROVE  Open' = Open /\ \A m \in Open : Same(m)
<1>0. /\ pc = "grow_values" /\ pc # "idle" /\ UNCHANGED <<str, vec>>
      /\ This \in MapStruct /\ This.count \in Nat /\ Roomy(This)
      /\ \A m : Spared(m)
  BY CallsMap DEF GrowValues, Spared
<1>1. CASE ValuesGrown
  <2> DEFINE d == [This EXCEPT !.values = Cleared(@, This.count + 1), !.count = @ + 1]
  <2>1. /\ d \in MapStruct /\ d.count = This.count + 1
        /\ d.keys = This.keys /\ d.mapFilterCallback = This.mapFilterCallback
        /\ \A i \in 1..This.count : d.values[i] = This.values[i]
    BY <1>0, BothGrown
  <2>2. Becomes(d) /\ call' = call /\ pc' = "copy_key"
    BY <1>1 DEF ValuesGrown, Goto
  <2> HIDE DEF d
  <2>3. Open' = Open
    BY <1>0, <2>1, <2>2, Changed
  <2>4. ASSUME NEW m, m = call.map PROVE Pairs(m) = 1..This.count /\ Pairs(m)' = 1..This.count
    <3>1. map'[m] = d /\ This = map[m] /\ (This.count + 1) - 1 = This.count
      BY <1>0, <2>1, <2>2, <2>4, CallsMap, Changed
    <3>2. QED
      BY <1>0, <2>1, <2>2, <2>4, <3>1 DEF Pairs, Inserting
  <2>5. QED
    BY <1>0, <2>1, <2>2, <2>3, <2>4, ThisSame, OtherSame
<1>2. ASSUME NEW ks \in IF This.count = 0 THEN {<<>>} ELSE Shrunk(This.keys, This.count),
             Becomes([This EXCEPT !.keys = ks]), Return("MAP_ERROR")
      PROVE  Open' = Open /\ \A m \in Open : Same(m)
  <2>1. ks \in Seq(0..MaxBlock) /\ \A i \in 1..This.count : ks[i] = This.keys[i]
    <3>1. CASE This.count = 0
      BY <3>1
    <3>2. CASE This.count # 0
      BY <3>2, <1>0, ShrunkVector DEF MapStruct, Roomy
    <3>3. QED
      BY <3>1, <3>2
  <2> DEFINE d == [This EXCEPT !.keys = ks]
  <2>2. /\ d \in MapStruct /\ d.keys = ks /\ d.values = This.values /\ d.count = This.count
        /\ d.mapFilterCallback = This.mapFilterCallback
    BY <1>0, <2>1 DEF MapStruct
  <2>3. Becomes(d) /\ call' = NoCall /\ pc' = "idle"
    BY <1>2 DEF Return
  <2> HIDE DEF d
  <2>4. Open' = Open
    BY <1>0, <2>2, <2>3, Changed
  <2>5. ASSUME NEW m, m = call.map PROVE Pairs(m) = 1..This.count /\ Pairs(m)' = 1..This.count
    BY <1>0, <2>2, <2>3, <2>5, CallsMap, Changed DEF Pairs, Inserting
  <2>6. QED
    BY <1>0, <2>1, <2>2, <2>3, <2>4, <2>5, ThisSame, OtherSame
<1>3. QED
  BY <1>1, <1>2 DEF GrowValues

\* An insertion that is undone gives the last slots back.
LEMMA SameUndone ==
    ASSUME Shape, pc \in {"copy_key", "copy_value"},
           NEW d \in Map_DecreaseStorageKeysValues(This), Becomes(d), Return("MAP_ERROR"),
           \A m \in Open : Spared(m)
    PROVE  Open' = Open /\ \A m \in Open : Same(m)
<1>0. pc # "idle" /\ call' = NoCall /\ pc' = "idle" /\ This.count \in Nat \ {0}
  BY LastPair DEF Return
<1>1. /\ d \in MapStruct /\ d.count = This.count - 1
      /\ d.mapFilterCallback => This.mapFilterCallback
      /\ \A i \in 1..d.count : d.keys[i] = This.keys[i] /\ d.values[i] = This.values[i]
  BY LastPair, Decreased DEF Field
<1>2. Open' = Open
  BY <1>0, <1>1, Changed
<1>3. ASSUME NEW m, m = call.map PROVE Pairs(m) = 1..d.count /\ Pairs(m)' = 1..d.count
  BY <1>0, <1>1, <1>3, CallsMap, Changed DEF Pairs, Inserting
<1>4. QED
  BY <1>0, <1>1, <1>2, <1>3, ThisSame, OtherSame, CallsMap

LEMMA SameCopyKey ==
    ASSUME Shape, Accounted, CopyKey
    PROVE  Open' = Open /\ \A m \in Open : Same(m)
<1>0. /\ pc = "copy_key" /\ pc # "idle" /\ UNCHANGED vec
      /\ This \in MapStruct /\ Roomy(This) /\ This.count \in Nat \ {0}
      /\ This.count \in 1..This.count
  BY LastPair DEF CopyKey
<1>1. ASSUME NEW b \in Block, Free(b), str' = [str EXCEPT ![b] = call.key],
             Becomes([This EXCEPT !.keys[This.count] = b]), Goto("copy_value")
      PROVE  Open' = Open /\ \A m \in Open : Same(m)
  <2> DEFINE d == WithKey(This, This.count, b)
  <2>1. /\ d \in MapStruct /\ Roomy(d) /\ d.count = This.count /\ d.values = This.values
        /\ d.mapFilterCallback = This.mapFilterCallback
        /\ \A j \in 1..This.count : d.keys[j] = IF j = This.count THEN b ELSE This.keys[j]
    BY <1>0, KeyPut
  <2>2. Becomes(d) /\ call' = call /\ pc' = "copy_value"
    BY <1>1 DEF WithKey, Goto
  <2> HIDE DEF d
  <2>3. Open' = Open
    BY <1>0, <2>1, <2>2, Changed
  <2>4. ASSUME NEW m PROVE Spared(m)
    BY <1>1, SparedFree DEF Free, Shape, Types, TypeOK
  <2>5. ASSUME NEW m, m = call.map
        PROVE  Pairs(m) = 1..(This.count - 1) /\ Pairs(m)' = 1..(This.count - 1)
    BY <1>0, <2>1, <2>2, <2>5, CallsMap, Changed DEF Pairs, Inserting
  <2>6. \A i \in 1..(This.count - 1) : d.keys[i] = This.keys[i]
    BY <1>0, <2>1
  <2>7. QED
    BY <1>0, <2>1, <2>2, <2>3, <2>4, <2>5, <2>6, ThisSame, OtherSame
<1>2. ASSUME NEW d \in Map_DecreaseStorageKeysValues(This), Becomes(d),
             Return("MAP_ERROR"), UNCHANGED str
      PROVE  Open' = Open /\ \A m \in Open : Same(m)
  BY <1>0, <1>2, SameUndone DEF Spared
<1>3. QED
  BY <1>1, <1>2 DEF CopyKey

\* The key's copy is freed, which belongs to no pair yet.
LEMMA SameValueFails ==
    ASSUME Shape, Once, pc = "copy_value",
           FreeAll({This.keys[This.count]}),
           NEW d \in Map_DecreaseStorageKeysValues(This), Becomes(d), Return("MAP_ERROR")
    PROVE  Open' = Open /\ \A m \in Open : Same(m)
<1>0. /\ pc # "idle" /\ This.count \in Nat \ {0} /\ This.count \in 1..This.count
      /\ This.keys[This.count] \in Block
  BY LastPair DEF Shape, Pointed
<1>1. Owns(call.map, "keys", This.count, This.keys[This.count])
  BY <1>0, OwnsThis DEF Field
<1>2. ASSUME NEW m \in Open PROVE Spared(m)
  <2> SUFFICES ASSUME NEW b \in Block, str'[b] # str[b], NEW f, NEW i, Owns(m, f, i, b)
               PROVE  i \notin Pairs(m)
    BY DEF Spared
  <2>1. b = This.keys[This.count]
    BY DEF FreeAll
  <2>2. m = call.map /\ i = This.count
    BY <1>1, <2>1 DEF Once
  <2>3. Pairs(m) = 1..(This.count - 1)
    BY <1>0, <2>2, CallsMap DEF Pairs, Inserting
  <2>4. QED
    BY <1>0, <2>2, <2>3
<1>3. QED
  BY <1>2, SameUndone

\* The pair inserted comes behind the others.
LEMMA ValuePutPairs ==
    ASSUME Shape, Once, Accounted, Fresh, pc = "copy_value",
           NEW c \in Block, Free(c), str' = [str EXCEPT ![c] = call.value],
           Becomes([This EXCEPT !.values[This.count] = c]), Return("MAP_OK"),
           NEW n, n = call.map
    PROVE  /\ Open' = Open /\ \A m \in Open : m # n => Same(m)
           /\ Keeps(n) /\ This.count \notin Pairs(n)
           /\ Pairs(n)' = Pairs(n) \cup {This.count}
           /\ str'[map'[n].keys[This.count]] = call.key
           /\ str'[map'[n].values[This.count]] = call.value
           /\ map'[n].mapFilterCallback = map[n].mapFilterCallback
<1>0. /\ pc # "idle" /\ n \in Open /\ This = map[n]
      /\ This \in MapStruct /\ Roomy(This) /\ This.count \in Nat \ {0}
      /\ This.count \in 1..This.count /\ This.keys[This.count] \in Block
      /\ call.value \in Value
  BY LastPair, CallsMap DEF Shape, Pointed, Calls, Insertion
<1> DEFINE d == WithValue(This, This.count, c)
<1>1. /\ d \in MapStruct /\ Roomy(d) /\ d.count = This.count /\ d.keys = This.keys
      /\ d.mapFilterCallback = This.mapFilterCallback
      /\ \A j \in 1..This.count : d.values[j] = IF j = This.count THEN c ELSE This.values[j]
  BY <1>0, ValuePut
<1>2. Becomes(d) /\ call' = NoCall /\ pc' = "idle"
  BY DEF WithValue, Return
<1> HIDE DEF d
<1>3. Open' = Open /\ map'[n] = d
  BY <1>0, <1>1, <1>2, Changed
<1>4. /\ str[c] = NULL /\ str'[c] = call.value
      /\ \A b \in Block : b # c => str'[b] = str[b]
  BY DEF Free, Shape, Types, TypeOK
<1>5. ASSUME NEW m PROVE Spared(m)
  BY <1>4, SparedFree
<1>6. Pairs(n) = 1..(This.count - 1) /\ Pairs(n)' = 1..This.count
  BY <1>0, <1>1, <1>2, <1>3, CallsMap DEF Pairs, Inserting
<1>7. Keeps(n)
  <2>1. \A i \in Pairs(n) : i \in Pairs(n)' /\ i \in 1..This.count /\ i # This.count
    BY <1>0, <1>6
  <2>2. QED
    BY <1>0, <1>1, <1>3, <1>5, <2>1, KeepsSlots
<1>8. This.keys[This.count] # c
  <2>1. Owns(call.map, "keys", This.count, This.keys[This.count])
    BY <1>0, OwnsThis DEF Field
  <2>2. QED
    BY <1>0, <1>4, <2>1 DEF Accounted
<1>9. /\ str'[map'[n].keys[This.count]] = call.key
      /\ str'[map'[n].values[This.count]] = call.value
  BY <1>0, <1>1, <1>3, <1>4, <1>8 DEF Fresh, KeyAt
<1>10. \A m \in Open : m # n => Same(m)
  BY <1>0, <1>1, <1>2, <1>5, OtherSame
<1>11. QED
  BY <1>0, <1>1, <1>3, <1>6, <1>7, <1>9, <1>10

\* An update changes the value of one pair.
LEMMA UpdatePairs ==
    ASSUME Shape, Once, Accounted, pc = "addorupdate", NEW i \in 1..This.count,
           NEW c \in Block, c = This.values[i] \/ Free(c),
           str' = [str EXCEPT ![This.values[i]] = NULL, ![c] = call.value],
           Becomes([This EXCEPT !.values[i] = c]), Return("MAP_OK"),
           NEW n, n = call.map
    PROVE  /\ Open' = Open /\ \A m \in Open : m # n => Same(m)
           /\ Pairs(n) = 1..This.count /\ Pairs(n)' = Pairs(n)
           /\ map'[n].mapFilterCallback = map[n].mapFilterCallback
           /\ \A j \in Pairs(n) : KeyAt(n, j)' = KeyAt(n, j)
           /\ ValueAt(n, i)' = call.value
           /\ \A j \in Pairs(n) \ {i} : /\ ValueAt(n, j)' = ValueAt(n, j)
                                        /\ map'[n].values[j] = map[n].values[j]
<1>0. /\ pc # "idle" /\ n \in Open /\ This = map[n]
      /\ This \in MapStruct /\ Ready(This) /\ Roomy(This) /\ This.count \in Nat
      /\ call.value \in Value
  BY CallsMap, ReadyMap DEF Shape, Calls
<1> DEFINE d == WithValue(This, i, c)
<1>1. /\ d \in MapStruct /\ Roomy(d) /\ d.count = This.count /\ d.keys = This.keys
      /\ d.mapFilterCallback = This.mapFilterCallback
      /\ \A j \in 1..This.count : d.values[j] = IF j = i THEN c ELSE This.values[j]
  BY <1>0, ValuePut
<1>2. Becomes(d) /\ call' = NoCall /\ pc' = "idle"
  BY DEF WithValue, Return
<1> HIDE DEF d
<1>3. Open' = Open /\ map'[n] = d
  BY <1>0, <1>1, <1>2, Changed
<1>4. Pairs(n) = 1..This.count /\ Pairs(n)' = 1..This.count
  BY <1>0, <1>1, <1>2, <1>3 DEF Pairs, Inserting
<1>5. /\ This.values[i] \in Block /\ str'[c] = call.value
      /\ \A b \in Block : b # c /\ b # This.values[i] => str'[b] = str[b]
  BY <1>0 DEF Ready, Field, Shape, Types, TypeOK
<1>6. Owns(n, "values", i, This.values[i])
  BY <1>0, <1>5, OwnsThis DEF Field
<1>7. \A m, f, j, b : Owns(m, f, j, b) /\ <<m, f, j>> # <<n, "values", i>> =>
         b # c /\ b # This.values[i] /\ b \in Block
  <2>1. \A m, f, j, b : Owns(m, f, j, b) => b \in Block /\ str[b] # NULL
    BY DEF Accounted, Owns
  <2>2. QED
    BY <1>6, <2>1 DEF Once, Free
<1>8. ASSUME NEW m \in Open, m # n PROVE Same(m)
  <2>1. Spared(m)
    BY <1>5, <1>7, <1>8 DEF Spared
  <2>2. QED
    BY <1>0, <1>1, <1>2, <1>8, <2>1, OtherSame
<1>9. ASSUME NEW j \in Pairs(n)
      PROVE  /\ KeyAt(n, j)' = KeyAt(n, j)
             /\ j # i => ValueAt(n, j)' = ValueAt(n, j) /\ map'[n].values[j] = map[n].values[j]
  <2>1. /\ j \in 1..This.count
        /\ Owns(n, "keys", j, This.keys[j]) /\ Owns(n, "values", j, This.values[j])
    BY <1>0, PairSlots
  <2>2. /\ This.keys[j] # c /\ This.keys[j] # This.values[i] /\ This.keys[j] \in Block
        /\ j # i => This.values[j] # c /\ This.values[j] # This.values[i] /\ This.values[j] \in Block
    <3>1. This.keys[j] # c /\ This.keys[j] # This.values[i] /\ This.keys[j] \in Block
      BY <1>7, <2>1
    <3>2. ASSUME j # i
          PROVE  This.values[j] # c /\ This.values[j] # This.values[i] /\ This.values[j] \in Block
      <4>1. <<n, "values", j>> # <<n, "values", i>>
        BY <3>2
      <4>2. QED
        BY <1>7, <2>1, <4>1
    <3>3. QED
      BY <3>1, <3>2
  <2>3. d.keys[j] = This.keys[j] /\ (j # i => d.values[j] = This.values[j])
    BY <1>1, <2>1
  <2>4. str'[This.keys[j]] = str[This.keys[j]]
        /\ (j # i => str'[This.values[j]] = str[This.values[j]])
    BY <1>5, <2>2
  <2>5. QED
    BY <1>0, <1>3, <2>3, <2>4 DEF KeyAt, ValueAt
<1>10. ValueAt(n, i)' = call.value
  BY <1>1, <1>3, <1>5 DEF ValueAt
<1>11. QED
  BY <1>0, <1>1, <1>3, <1>4, <1>8, <1>9, <1>10

\* A deletion moves up the pairs behind the deleted one.
PairGone(n, i) ==
    /\ Open' = Open /\ \A m \in Open : m # n => Same(m)
    /\ n \in Open /\ This = map[n] /\ This.count \in Nat
    /\ Pairs(n) = 1..This.count /\ Pairs(n)' = 1..(This.count - 1)
    /\ map'[n].mapFilterCallback =
          IF This.count - 1 = 0 THEN FALSE ELSE map[n].mapFilterCallback
    /\ \A j \in Pairs(n)' : LET k == IF j < i THEN j ELSE j + 1 IN
          /\ KeyAt(n, j)' = KeyAt(n, k) /\ ValueAt(n, j)' = ValueAt(n, k)
          /\ map'[n].values[j] = map[n].values[k]

LEMMA DeletePairs ==
    ASSUME Shape, Once, Accounted, pc = "delete", NEW i \in 1..This.count,
           FreeAll({This.keys[i], This.values[i]}),
           NEW d \in Map_DecreaseStorageKeysValues(Without(This, i)), Becomes(d),
           Return("MAP_OK"), NEW n, n = call.map
    PROVE  PairGone(n, i)
<1>0. /\ pc # "idle" /\ n \in Open /\ This = map[n]
      /\ This \in MapStruct /\ Ready(This) /\ This.count \in Nat
  BY CallsMap, ReadyMap
<1>1. /\ d \in MapStruct /\ d.count = This.count - 1
      /\ d.mapFilterCallback = IF d.count = 0 THEN FALSE ELSE This.mapFilterCallback
      /\ \A j \in 1..d.count : /\ d.keys[j] = This.keys[IF j < i THEN j ELSE j + 1]
                               /\ d.values[j] = This.values[IF j < i THEN j ELSE j + 1]
  BY Deleted DEF Field
<1>2. call' = NoCall /\ pc' = "idle"
  BY DEF Return
<1>3. Open' = Open /\ map'[n] = d
  BY <1>0, <1>1, Changed
<1>4. Pairs(n) = 1..This.count /\ Pairs(n)' = 1..(This.count - 1)
  BY <1>0, <1>1, <1>2, <1>3 DEF Pairs, Inserting
<1> DEFINE gone == {This.keys[i], This.values[i]}
<1>5. /\ Owns(n, "keys", i, This.keys[i]) /\ Owns(n, "values", i, This.values[i])
      /\ \A b \in Block : b \notin gone => str'[b] = str[b]
  BY <1>0, <1>4, PairSlots DEF FreeAll
<1>6. \A m, f, j, b : Owns(m, f, j, b) /\ <<m, j>> # <<n, i>> => b \notin gone
  BY <1>5 DEF Once
<1>7. ASSUME NEW m \in Open, m # n PROVE Same(m)
  <2>1. Spared(m)
    BY <1>5, <1>6, <1>7 DEF Spared
  <2>2. QED
    BY <1>0, <1>1, <1>2, <1>7, <2>1, OtherSame
<1>8. ASSUME NEW j \in 1..(This.count - 1), NEW k, k = IF j < i THEN j ELSE j + 1
      PROVE  /\ KeyAt(n, j)' = KeyAt(n, k) /\ ValueAt(n, j)' = ValueAt(n, k)
             /\ map'[n].values[j] = map[n].values[k]
  <2>1. k \in 1..This.count /\ k # i
    BY <1>0, <1>8
  <2>2. /\ Owns(n, "keys", k, This.keys[k]) /\ Owns(n, "values", k, This.values[k])
        /\ This.keys[k] \in Block /\ This.values[k] \in Block
    BY <1>0, <1>4, <2>1, PairSlots
  <2>3. This.keys[k] \notin gone /\ This.values[k] \notin gone
    BY <1>6, <2>1, <2>2
  <2>4. d.keys[j] = This.keys[k] /\ d.values[j] = This.values[k]
    BY <1>1, <1>8
  <2>5. QED
    BY <1>0, <1>3, <1>5, <2>2, <2>3, <2>4 DEF KeyAt, ValueAt
<1>9. \A j \in Pairs(n)' : LET k == IF j < i THEN j ELSE j + 1 IN
         /\ KeyAt(n, j)' = KeyAt(n, k) /\ ValueAt(n, j)' = ValueAt(n, k)
         /\ map'[n].values[j] = map[n].values[k]
  BY <1>4, <1>8
<1>10. map'[n].mapFilterCallback =
          IF This.count - 1 = 0 THEN FALSE ELSE map[n].mapFilterCallback
  BY <1>0, <1>1, <1>3
<1>11. QED
  BY <1>0, <1>3, <1>4, <1>7, <1>9, <1>10 DEF PairGone

LEMMA DestroyPairs ==
    ASSUME Shape, Once, Accounted, NEW n \in Map, sky_map_destroy(n)
    PROVE  Open' = Open \ {n} /\ \A m \in Open' : Same(m)
<1>1. /\ pc = "idle" /\ pc' = "idle" /\ n \in Open /\ FreeAll(Strings(n))
      /\ map' = [map EXCEPT ![n] = NULL]
  BY DEF sky_map_destroy
<1>2. Open' = Open \ {n} /\ \A m \in Map \ {n} : map'[m] = map[m]
  BY <1>1 DEF Shape, Types, TypeOK, Open
<1>3. ASSUME NEW m \in Open \ {n} PROVE Same(m)
  <2>1. \A b \in Strings(n) \cap Block : \E f, i : Owns(n, f, i, b)
    BY <1>1 DEF Strings, Owns, Field
  <2>2. Spared(m)
    BY <1>1, <2>1 DEF Spared, FreeAll, Once
  <2>3. m \in Map /\ map'[m] = map[m] /\ Pairs(m)' = Pairs(m)
    BY <1>1, <1>2 DEF Open, Pairs, Inserting
  <2>4. Keeps(m)
    BY <1>2, <2>2, <2>3, KeepsSlots
  <2>5. QED
    BY <2>3, <2>4 DEF Same
<1>4. QED
  BY <1>2, <1>3

\* A new map has no pairs.
LEMMA EmptyPairs ==
    ASSUME Shape, NEW n \in Map \ Open, NEW filter \in BOOLEAN,
           map' = [map EXCEPT ![n] = [keys |-> <<>>, values |-> <<>>, count |-> 0,
                                      mapFilterCallback |-> filter]],
           UNCHANGED str, pc \in {"idle", "clone"}, pc' = "idle"
    PROVE  /\ Open' = Open \cup {n} /\ \A m \in Open : Same(m)
           /\ Pairs(n)' = {} /\ map'[n].mapFilterCallback = filter
<1>1. /\ map'[n] \in MapStruct /\ map'[n].count = 0 /\ map'[n].mapFilterCallback = filter
      /\ \A o \in Map \ {n} : map'[o] = map[o]
  BY EmptyReady DEF Shape, Types, TypeOK
<1>2. Open' = Open \cup {n} /\ n \notin Open
  BY <1>1, MapAssumption DEF Open
<1>3. Pairs(n)' = {}
  BY <1>1 DEF Pairs, Inserting
<1>4. ASSUME NEW m \in Open PROVE Same(m)
  <2>1. m \in Map /\ map'[m] = map[m] /\ Pairs(m)' = Pairs(m) /\ Spared(m)
    BY <1>1, <1>2 DEF Open, Pairs, Inserting, Spared
  <2>2. Keeps(m)
    BY <1>2, <2>1, KeepsSlots
  <2>3. QED
    BY <2>1, <2>2 DEF Same
<1>5. QED
  BY <1>1, <1>2, <1>3, <1>4

\* The strings of a clone in progress belong to no map.
LEMMA SameCloning ==
    ASSUME Shape, Once, Accounted, CloneString \/ CloneFails
    PROVE  Open' = Open /\ \A m \in Open : Same(m)
<1>1. pc = "clonevector" /\ pc' \in {"clonevector", "idle"} /\ UNCHANGED map /\ Open' = Open
  BY DEF CloneString, CloneFails, Return, Open
<1>2. ASSUME NEW m \in Open PROVE Spared(m)
  <2>1. CASE CloneString
    BY <2>1, SparedFree DEF CloneString, Free, Shape, Types, TypeOK
  <2>2. CASE CloneFails
    <3>1. \A b \in Block : b \in ToSet(vec.keys) \cup ToSet(vec.values) => \E f, i : Owns(NULL, f, i, b)
      <4>1. vec.keys \in Seq(Block) /\ vec.values \in Seq(Block)
        BY DEF Shape, Types
      <4>2. QED
        BY <4>1 DEF ToSet, Owns, Field
    <3>2. m # NULL
      BY MapAssumption DEF Open
    <3>3. QED
      BY <2>2, <3>1, <3>2 DEF CloneFails, FreeAll, Spared, Once
  <2>3. QED
    BY <2>1, <2>2
<1>3. ASSUME NEW m \in Open PROVE Same(m)
  <2>1. Pairs(m)' = Pairs(m) /\ map'[m] = map[m] /\ m \in Open'
    BY <1>1 DEF Pairs, Inserting
  <2>2. Keeps(m)
    BY <1>2, <2>1, KeepsSlots
  <2>3. QED
    BY <2>1, <2>2 DEF Same
<1>4. QED
  BY <1>1, <1>3

LEMMA ClonedPairs ==
    ASSUME Shape, Copied, CloneDone, NEW n, n = call.to
    PROVE  /\ Open' = Open \cup {n} /\ n \in Map \ Open /\ call.map \in Open
           /\ \A m \in Open : Same(m)
           /\ Pairs(n)' = Pairs(call.map)
           /\ \A i \in Pairs(n)' : /\ KeyAt(n, i)' = KeyAt(call.map, i)
                                   /\ ValueAt(n, i)' = ValueAt(call.map, i)
           /\ map'[n].mapFilterCallback = This.mapFilterCallback
<1>0. pc = "clonevector" /\ pc' = "idle" /\ UNCHANGED str /\ Filled
  BY DEF CloneDone, CloneDoneWith, Return
<1>1. /\ Open' = Open \cup {n} /\ n \in Map \ Open /\ call.map \in Open
      /\ \A o \in Map \ {n} : map'[o] = map[o]
      /\ map'[n].count = This.count
      /\ map'[n].keys = vec.keys /\ map'[n].values = vec.values
      /\ map'[n].mapFilterCallback = This.mapFilterCallback
      /\ Len(vec.keys) = This.count /\ Len(vec.values) = This.count
  BY <1>0, Cloning, Cloned DEF Field
<1>2. ASSUME NEW m \in Open PROVE Same(m)
  <2>1. m \in Map /\ map'[m] = map[m] /\ Pairs(m)' = Pairs(m) /\ Spared(m) /\ m \in Open'
    BY <1>0, <1>1 DEF Open, Pairs, Inserting, Spared
  <2>2. Keeps(m)
    BY <2>1, KeepsSlots
  <2>3. QED
    BY <2>1, <2>2 DEF Same
<1>3. Pairs(n)' = 1..This.count /\ Pairs(call.map) = 1..This.count
  BY <1>0, <1>1 DEF Pairs, Inserting, This
<1>4. \A i \in 1..This.count : /\ str[vec.keys[i]] = str[This.keys[i]]
                               /\ str[vec.values[i]] = str[This.values[i]]
  BY <1>0, <1>1 DEF Copied, Field
<1>5. QED
  BY <1>0, <1>1, <1>2, <1>3, <1>4 DEF KeyAt, ValueAt, This

\* What a step does to the pairs, for the steps that change none.
Quiet == Open' = Open /\ \A m \in Open : Same(m)

LEMMA QuietReturn ==
    ASSUME Shape, pc \notin {"copy_key", "copy_value"}, pc' \notin {"copy_key", "copy_value"},
           UNCHANGED <<map, str>>
    PROVE  Quiet
<1>1. \A m \in Open : Pairs(m)' = Pairs(m)
  BY DEF Pairs, Inserting
<1>2. QED
  BY <1>1, SameUnchanged DEF Quiet, Open

LEMMA QuietContents ==
    ASSUME WholePairs, PointerKept, Quiet, UNCHANGED kept
    PROVE  WholePairs' /\ PointerKept'
<1>1. WholePairs'
  BY SameWhole DEF Quiet
<1>2. PointerKept'
  BY SamePointer DEF Quiet, Same
<1>3. QED
  BY <1>1, <1>2

\* Outside an insertion and a clone there is nothing to say of what is new.
LEMMA NothingNew == pc' \notin Insertion \cup {"clonevector"} => Fresh' /\ Copied'
BY DEF Fresh, Copied, Insertion

Rest == WholePairs' /\ Fresh' /\ Copied' /\ PointerKept'

LEMMA QuietIdle ==
    ASSUME Shape, Contents, Quiet, UNCHANGED kept, pc' \notin Insertion \cup {"clonevector"}
    PROVE  Rest
BY QuietContents, NothingNew DEF Rest, Contents

LEMMA RestUnchanged ==
    ASSUME Shape, Contents, UNCHANGED <<map, str, kept>>,
           pc \notin {"copy_key", "copy_value"}, pc' \notin Insertion \cup {"clonevector"}
    PROVE  Rest
BY QuietReturn, QuietIdle DEF Insertion

\* A call that goes on to insert, or to clone.
LEMMA RestInsert ==
    ASSUME Shape, Contents, pc \in {"add", "addorupdate"}, ~Rejected, findKey(call.key) = 0,
           Goto("grow_keys"), UNCHANGED <<map, str, vec, kept>>
    PROVE  Rest
<1>1. Quiet
  BY QuietReturn DEF Goto
<1>2. pc # "idle" /\ call.map \in Open /\ This = map[call.map]
  BY CallsMap
<1>3. \A i \in 1..This.count : KeyAt(call.map, i) # call.key
  BY <1>2, FindKey DEF KeyAt
<1>4. Pairs(call.map)' = 1..This.count
  BY <1>2 DEF Goto, Pairs, Inserting
<1>5. Fresh'
  BY <1>2, <1>3, <1>4 DEF Goto, Fresh, Rejected, This, KeyAt
<1>6. Copied'
  BY DEF Goto, Copied
<1>7. QED
  BY <1>1, <1>5, <1>6, QuietContents DEF Rest, Contents

LEMMA RestAdd == Shape /\ Contents /\ sky_map_add => Rest
BY RestUnchanged, RestInsert DEF sky_map_add, Return, Insertion

LEMMA RestLook ==
    ASSUME Shape, Contents,
           sky_map_containskey \/ sky_map_containsvalue \/ sky_map_getvaluefromkey
    PROVE  Rest
<1>1. CASE UNCHANGED kept
  BY <1>1, RestUnchanged DEF sky_map_containskey, sky_map_containsvalue, sky_map_getvaluefromkey,
                             Return, Insertion
<1>2. CASE /\ sky_map_getvaluefromkey /\ findKey(call.key) # 0
           /\ kept' = [map |-> call.map, key |-> call.key, ptr |-> This.values[findKey(call.key)]]
  <2> DEFINE i == findKey(call.key)
  <2>1. /\ pc = "getvaluefromkey" /\ pc # "idle" /\ pc' = "idle" /\ UNCHANGED <<map, str>>
        /\ i # 0
    BY <1>2 DEF sky_map_getvaluefromkey, Return
  <2>2. Quiet
    BY <2>1, QuietReturn
  <2>3. call.map \in Open /\ This = map[call.map]
        /\ i \in 1..This.count /\ str[This.keys[i]] = call.key
    BY <2>1, CallsMap, FindKey
  <2> HIDE DEF i
  <2>4. PICK n : n = call.map
    OBVIOUS
  <2>5. i \in Pairs(n)' /\ n \in Open' /\ map'[n] = This
    BY <2>1, <2>3, <2>4 DEF Pairs, Inserting, Open
  <2>6. PointerKept'
    BY <1>2, <2>1, <2>3, <2>4, <2>5 DEF PointerKept, i
  <2>7. WholePairs'
    BY <2>2, SameWhole DEF Quiet, Contents
  <2>8. QED
    BY <2>1, <2>6, <2>7, NothingNew DEF Rest, Insertion
<1>3. QED
  BY <1>1, <1>2 DEF sky_map_containskey, sky_map_containsvalue, sky_map_getvaluefromkey

\* Growing the vectors for the pair that is to be inserted.
LEMMA RestGrow ==
    ASSUME Shape, Contents, pc \in Insertion, pc' \in (Insertion \ {"copy_value"}) \cup {"idle"},
           Quiet, UNCHANGED kept, call' = call \/ pc' = "idle"
    PROVE  Rest
<1>1. Copied'
  BY DEF Copied, Insertion
<1>2. CASE pc' = "idle"
  BY <1>2, QuietIdle DEF Insertion
<1>3. CASE pc' # "idle"
  <2>1. PICK n : n = call.map
    OBVIOUS
  <2>2. n \in Open /\ This = map[n] /\ call' = call
    BY <1>3, <2>1, CallsMap DEF Insertion
  <2>3. Same(n)
    BY <2>2 DEF Quiet
  <2>4. \A i \in Pairs(n)' : KeyAt(n, i)' # call.key
    BY <2>1, <2>3 DEF Same, Keeps, Contents, Fresh
  <2>5. ~Rejected'
    BY <2>1, <2>2, <2>3 DEF Same, Contents, Fresh, Rejected, This
  <2>6. Fresh'
    BY <1>3, <2>1, <2>2, <2>4, <2>5 DEF Fresh
  <2>7. QED
    BY <1>1, <2>6, QuietContents DEF Rest, Contents
<1>4. QED
  BY <1>2, <1>3

LEMMA RestGrowKeys == Shape /\ Contents /\ GrowKeys => Rest
<1> SUFFICES ASSUME Shape, Contents, GrowKeys PROVE Rest
  OBVIOUS
<1>1. Quiet
  BY SameGrowKeys DEF Quiet
<1>2. /\ pc = "grow_keys" /\ UNCHANGED kept
      /\ (call' = call /\ pc' = "grow_values") \/ pc' = "idle"
  BY DEF GrowKeys, Goto, Return
<1>3. /\ pc \in Insertion /\ pc' \in (Insertion \ {"copy_value"}) \cup {"idle"}
      /\ call' = call \/ pc' = "idle"
  BY <1>2 DEF Insertion
<1>4. QED
  BY <1>1, <1>2, <1>3, RestGrow

LEMMA RestGrowValues == Shape /\ Contents /\ GrowValues => Rest
<1> SUFFICES ASSUME Shape, Contents, GrowValues PROVE Rest
  OBVIOUS
<1>1. Quiet
  BY SameGrowValues DEF Quiet
<1>2. /\ pc = "grow_values" /\ UNCHANGED kept
      /\ (call' = call /\ pc' = "copy_key") \/ pc' = "idle"
  BY DEF GrowValues, ValuesGrown, Goto, Return
<1>3. /\ pc \in Insertion /\ pc' \in (Insertion \ {"copy_value"}) \cup {"idle"}
      /\ call' = call \/ pc' = "idle"
  BY <1>2 DEF Insertion
<1>4. QED
  BY <1>1, <1>2, <1>3, RestGrow

LEMMA RestCopyKey == Shape /\ Accounted /\ Contents /\ CopyKey => Rest
<1> SUFFICES ASSUME Shape, Accounted, Contents, CopyKey PROVE Rest
  OBVIOUS
<1>1. Quiet
  BY SameCopyKey DEF Quiet
<1>2. pc = "copy_key" /\ pc # "idle" /\ UNCHANGED kept
  BY DEF CopyKey
<1>3. CASE pc' = "idle"
  BY <1>1, <1>2, <1>3, QuietIdle DEF Insertion
<1>4. ASSUME NEW b \in Block, str' = [str EXCEPT ![b] = call.key],
             Becomes([This EXCEPT !.keys[This.count] = b]), Goto("copy_value")
      PROVE  Rest
  <2> DEFINE d == WithKey(This, This.count, b)
  <2>0. This \in MapStruct /\ Roomy(This) /\ This.count \in 1..This.count
    BY <1>2, LastPair
  <2>1. /\ d \in MapStruct /\ d.count = This.count /\ d.keys[This.count] = b
    BY <2>0, KeyPut
  <2>2. Becomes(d)
    BY <1>4 DEF WithKey
  <2> HIDE DEF d
  <2>3. PICK n : n = call.map
    OBVIOUS
  <2>4. n \in Open /\ This = map[n] /\ call' = call /\ pc' = "copy_value" /\ map'[n] = d
    BY <1>2, <1>4, <2>1, <2>2, <2>3, CallsMap, Changed DEF Goto
  <2>5. Same(n)
    BY <1>1, <2>4 DEF Quiet
  <2>6. \A i \in Pairs(n)' : KeyAt(n, i)' # call.key
    BY <1>2, <2>3, <2>5 DEF Same, Keeps, Contents, Fresh, Insertion
  <2>7. ~Rejected'
    BY <1>2, <2>3, <2>4, <2>5 DEF Same, Contents, Fresh, Rejected, This, Insertion
  <2>8. str'[map'[n].keys[This.count]] = call.key
    BY <1>4, <2>1, <2>4 DEF Shape, Types, TypeOK
  <2>9. Fresh'
    <3>1. This' = d
      BY <2>3, <2>4 DEF This
    <3>3. KeyAt(call.map, This.count)' = call'.key
      BY <2>1, <2>3, <2>4, <2>8, <3>1 DEF KeyAt
    <3>4. \A i \in Pairs(call.map)' : KeyAt(call.map, i)' # call'.key
      BY <2>3, <2>4, <2>6 DEF KeyAt, Pairs, Inserting
    <3>5. QED
      BY <2>7, <3>3, <3>4 DEF Fresh
  <2>10. Copied'
    BY <2>4 DEF Copied
  <2>11. QED
    BY <1>1, <1>2, <2>9, <2>10, QuietContents DEF Rest, Contents
<1>5. QED
  BY <1>3, <1>4 DEF CopyKey, Return

LEMMA RestCopyValue == Shape /\ Once /\ Accounted /\ Contents /\ CopyValue => Rest
<1> SUFFICES ASSUME Shape, Once, Accounted, Contents, CopyValue PROVE Rest
  OBVIOUS
<1>0. pc = "copy_value" /\ pc # "idle" /\ UNCHANGED kept /\ pc' = "idle"
  BY DEF CopyValue, ValueCopied, Return
<1>1. ASSUME NEW c \in Block, Free(c), str' = [str EXCEPT ![c] = call.value],
             Becomes([This EXCEPT !.values[This.count] = c]), Return("MAP_OK")
      PROVE  Rest
  <2>1. PICK n : n = call.map
    OBVIOUS
  <2>2. PICK z : z = This.count
    OBVIOUS
  <2>3. /\ Open' = Open /\ \A m \in Open : m # n => Same(m)
        /\ Keeps(n) /\ z \notin Pairs(n) /\ Pairs(n)' = Pairs(n) \cup {z}
        /\ KeyAt(n, z)' = call.key /\ ValueAt(n, z)' = call.value
        /\ map'[n].mapFilterCallback = map[n].mapFilterCallback
    BY <1>0, <1>1, <2>1, <2>2, ValuePutPairs DEF Contents, KeyAt, ValueAt
  <2>4. n \in Open /\ map[n] = This /\ call.key \in Key /\ call.value \in Value
    BY <1>0, <2>1, CallsMap DEF Shape, Calls, Insertion
  <2>5. PairsOf(n)
    BY <2>4 DEF Contents, WholePairs
  <2>6. \A i \in Pairs(n) : KeyAt(n, i) # call.key
    BY <1>0, <2>1 DEF Contents, Fresh, Insertion
  <2>7. map'[n].mapFilterCallback => <<call.key, call.value>> \in Accepted
    BY <1>0, <2>3, <2>4 DEF Contents, Fresh, Rejected, Insertion
  <2>8. PairsOf(n)'
    <3> SUFFICES ASSUME NEW i \in Pairs(n)'
                 PROVE  /\ KeyAt(n, i)' \in Key /\ ValueAt(n, i)' \in Value
                        /\ \A j \in Pairs(n)' : KeyAt(n, j)' = KeyAt(n, i)' => j = i
                        /\ map'[n].mapFilterCallback =>
                              <<KeyAt(n, i)', ValueAt(n, i)'>> \in Accepted
      BY DEF PairsOf
    <3>1. CASE i = z
      BY <2>3, <2>4, <2>6, <2>7, <3>1 DEF Keeps
    <3>2. CASE i \in Pairs(n)
      BY <2>3, <2>5, <2>6, <3>2 DEF Keeps, PairsOf
    <3>3. QED
      BY <2>3, <3>1, <3>2
  <2>9. WholePairs'
    BY <2>3, <2>8, SamePairs DEF Contents, WholePairs
  <2>10. PointerKept'
    BY <1>0, <2>3, SamePointer DEF Contents, Same
  <2>11. QED
    BY <1>0, <2>9, <2>10, NothingNew DEF Rest, Insertion
<1>2. ASSUME NEW d \in Map_DecreaseStorageKeysValues(This), Becomes(d),
             FreeAll({This.keys[This.count]}), Return("MAP_ERROR")
      PROVE  Rest
  <2>1. Quiet
    BY <1>0, <1>2, SameValueFails DEF Quiet
  <2>2. QED
    BY <1>0, <2>1, QuietIdle DEF Insertion
<1>3. QED
  BY <1>1, <1>2 DEF CopyValue, ValueCopied

LEMMA RestUpdate ==
    ASSUME Shape, Once, Accounted, Contents, pc = "addorupdate", ~Rejected,
           NEW i \in 1..This.count, str[This.keys[i]] = call.key, Update(i)
    PROVE  Rest
<1>0. pc # "idle" /\ pc' = "idle"
  BY DEF Update, Return
<1>1. CASE UNCHANGED <<map, str, kept>>
  BY <1>0, <1>1, RestUnchanged DEF Insertion
<1>2. ASSUME NEW c \in Block, c = This.values[i] \/ Free(c),
             str' = [str EXCEPT ![This.values[i]] = NULL, ![c] = call.value],
             Becomes([This EXCEPT !.values[i] = c]),
             kept' = IF <<kept.map, kept.key>> = <<call.map, call.key>> THEN NotKept ELSE kept,
             Return("MAP_OK")
      PROVE  Rest
  <2>1. PICK n : n = call.map
    OBVIOUS
  <2>2. /\ Open' = Open /\ \A m \in Open : m # n => Same(m)
        /\ Pairs(n) = 1..This.count /\ Pairs(n)' = Pairs(n)
        /\ map'[n].mapFilterCallback = map[n].mapFilterCallback
        /\ \A j \in Pairs(n) : KeyAt(n, j)' = KeyAt(n, j)
        /\ ValueAt(n, i)' = call.value
        /\ \A j \in Pairs(n) \ {i} : /\ ValueAt(n, j)' = ValueAt(n, j)
                                     /\ map'[n].values[j] = map[n].values[j]
    BY <1>2, <2>1, UpdatePairs
  <2>3. /\ n \in Open /\ map[n] = This /\ call.value \in Value /\ PairsOf(n)
        /\ KeyAt(n, i) = call.key
    BY <1>0, <2>1, CallsMap DEF Shape, Calls, Contents, WholePairs, KeyAt
  <2>4. map[n].mapFilterCallback => <<call.key, call.value>> \in Accepted
    BY <2>3 DEF Rejected
  <2>5. PairsOf(n)'
    <3> SUFFICES ASSUME NEW j \in Pairs(n)
                 PROVE  /\ KeyAt(n, j)' \in Key /\ ValueAt(n, j)' \in Value
                        /\ \A k \in Pairs(n) : KeyAt(n, k)' = KeyAt(n, j)' => k = j
                        /\ map'[n].mapFilterCallback =>
                              <<KeyAt(n, j)', ValueAt(n, j)'>> \in Accepted
      BY <2>2 DEF PairsOf
    <3>1. ASSUME NEW k \in Pairs(n), KeyAt(n, k)' = KeyAt(n, j)' PROVE k = j
      <4>1. KeyAt(n, k) = KeyAt(n, j)
        BY <2>2, <3>1
      <4>2. QED
        BY <2>3, <4>1 DEF PairsOf
    <3>2. CASE j = i
      <4>1. KeyAt(n, j)' = call.key /\ ValueAt(n, j)' = call.value /\ call.key \in Key
        BY <2>2, <2>3, <3>2 DEF PairsOf
      <4>2. QED
        BY <2>2, <2>3, <2>4, <3>1, <4>1
    <3>3. CASE j # i
      <4>1. KeyAt(n, j)' = KeyAt(n, j) /\ ValueAt(n, j)' = ValueAt(n, j)
        BY <2>2, <3>3
      <4>2. QED
        BY <2>2, <2>3, <3>1, <4>1 DEF PairsOf
    <3>4. QED
      BY <3>2, <3>3
  <2>6. WholePairs'
    BY <2>2, <2>5, SamePairs DEF Contents, WholePairs
  <2>7. PointerKept'
    <3> SUFFICES ASSUME kept' # NotKept PROVE PointerKept'
      BY DEF PointerKept, NotKept
    <3>1. kept' = kept /\ kept # NotKept /\ (kept.map = n => kept.key # call.key)
      BY <1>2, <2>1
    <3>2. PICK m : m = kept.map
      OBVIOUS
    <3>3. m \in Open /\ \E j \in Pairs(m) : KeyAt(m, j) = kept.key /\ map[m].values[j] = kept.ptr
      BY <3>1, <3>2 DEF Contents, PointerKept, KeyAt
    <3>4. m \in Open' /\ \E j \in Pairs(m)' : KeyAt(m, j)' = kept.key /\ map'[m].values[j] = kept.ptr
      <4>1. CASE m # n
        BY <2>2, <3>3, <4>1 DEF Same, Keeps
      <4>2. CASE m = n
        BY <2>2, <2>3, <3>1, <3>2, <3>3, <4>2
      <4>3. QED
        BY <4>1, <4>2
    <3>5. QED
      BY <3>1, <3>2, <3>4 DEF PointerKept, KeyAt
  <2>8. QED
    BY <1>0, <2>6, <2>7, NothingNew DEF Rest, Insertion
<1>3. QED
  BY <1>1, <1>2 DEF Update

LEMMA RestAddOrUpdate == Shape /\ Once /\ Accounted /\ Contents /\ sky_map_addorupdate => Rest
<1> SUFFICES ASSUME Shape, Once, Accounted, Contents, sky_map_addorupdate PROVE Rest
  OBVIOUS
<1> DEFINE i == findKey(call.key)
<1>0. pc = "addorupdate" /\ pc # "idle" /\ UNCHANGED vec
  BY DEF sky_map_addorupdate
<1>1. CASE Return("MAP_FILTER_REJECT") /\ UNCHANGED <<map, str, kept>>
  BY <1>0, <1>1, RestUnchanged DEF Return, Insertion
<1>2. CASE ~Rejected /\ i = 0 /\ Goto("grow_keys") /\ UNCHANGED <<map, str, kept>>
  BY <1>0, <1>2, RestInsert
<1>3. CASE ~Rejected /\ i # 0 /\ Update(i)
  <2>1. i \in 1..This.count /\ str[This.keys[i]] = call.key
    BY <1>0, <1>3, FindKey
  <2>2. QED
    BY <1>0, <1>3, <2>1, RestUpdate
<1>4. QED
  BY <1>1, <1>2, <1>3 DEF sky_map_addorupdate

LEMMA RestDelete == Shape /\ Once /\ Accounted /\ Contents /\ sky_map_delete => Rest
<1> SUFFICES ASSUME Shape, Once, Accounted, Contents, sky_map_delete PROVE Rest
  OBVIOUS
<1> DEFINE at == findKey(call.key)
<1>0. pc = "delete" /\ pc # "idle" /\ pc' = "idle"
  BY DEF sky_map_delete, DeleteWith, Return
<1>1. CASE UNCHANGED <<map, str, kept>>
  BY <1>0, <1>1, RestUnchanged DEF Insertion
<1>2. ASSUME at # 0, FreeAll({This.keys[at], This.values[at]}),
             NEW d \in Map_DecreaseStorageKeysValues(Without(This, at)), Becomes(d),
             kept' = IF <<kept.map, kept.key>> = <<call.map, call.key>> THEN NotKept ELSE kept,
             Return("MAP_OK")
      PROVE  Rest
  <2>a. at \in 1..This.count /\ str[This.keys[at]] = call.key
    BY <1>0, <1>2, FindKey
  <2>b. PICK n : n = call.map
    OBVIOUS
  <2>c. PICK i : i = at
    OBVIOUS
  <2>d. PICK z : z = This.count
    OBVIOUS
  <2>1. /\ Open' = Open /\ \A m \in Open : m # n => Same(m)
        /\ n \in Open /\ This = map[n] /\ z \in Nat
        /\ Pairs(n) = 1..z /\ Pairs(n)' = 1..(z - 1)
        /\ map'[n].mapFilterCallback = IF z - 1 = 0 THEN FALSE ELSE map[n].mapFilterCallback
        /\ \A j \in Pairs(n)' : LET k == IF j < i THEN j ELSE j + 1 IN
              /\ KeyAt(n, j)' = KeyAt(n, k) /\ ValueAt(n, j)' = ValueAt(n, k)
              /\ map'[n].values[j] = map[n].values[k]
    <3>1. /\ i \in 1..This.count /\ FreeAll({This.keys[i], This.values[i]})
          /\ d \in Map_DecreaseStorageKeysValues(Without(This, i))
      BY <1>2, <2>a, <2>c
    <3> HIDE DEF at
    <3>2. Return("MAP_OK") /\ pc = "delete" /\ Becomes(d)
      BY <1>0, <1>2
    <3>3. PairGone(n, i)
      BY <2>b, <3>1, <3>2, DeletePairs
    <3>4. QED
      BY <2>d, <3>3 DEF PairGone
  <2>2. i \in 1..z /\ KeyAt(n, i) = call.key /\ PairsOf(n)
    BY <2>a, <2>c, <2>d, <2>1 DEF KeyAt, Contents, WholePairs
  <2> HIDE DEF at
  <2> DEFINE old(j) == IF j < i THEN j ELSE j + 1
  <2>3. \A j \in 1..(z - 1) : old(j) \in 1..z /\ old(j) # i
    BY <2>1, <2>2
  <2>4. \A j, k \in 1..(z - 1) : old(j) = old(k) => j = k
    BY <2>1, <2>2
  <2>5. \A k \in 1..z : k # i => \E j \in 1..(z - 1) : old(j) = k
    <3> SUFFICES ASSUME NEW k \in 1..z, k # i PROVE \E j \in 1..(z - 1) : old(j) = k
      OBVIOUS
    <3>1. CASE k < i
      <4>1. k \in 1..(z - 1) /\ old(k) = k
        BY <2>1, <2>2, <3>1
      <4>2. QED
        BY <4>1
    <3>2. CASE k > i
      <4>1. k - 1 \in 1..(z - 1) /\ old(k - 1) = k
        BY <2>1, <2>2, <3>2
      <4>2. QED
        BY <4>1
    <3>3. QED
      BY <2>1, <2>2, <3>1, <3>2
  <2>6. \A j \in 1..(z - 1) : /\ KeyAt(n, j)' = KeyAt(n, old(j)) /\ ValueAt(n, j)' = ValueAt(n, old(j))
                              /\ map'[n].values[j] = map[n].values[old(j)]
    BY <2>1
  <2> HIDE DEF old
  <2>7. PairsOf(n)'
    <3> SUFFICES ASSUME NEW j \in 1..(z - 1)
                 PROVE  /\ KeyAt(n, j)' \in Key /\ ValueAt(n, j)' \in Value
                        /\ \A k \in 1..(z - 1) : KeyAt(n, k)' = KeyAt(n, j)' => k = j
                        /\ map'[n].mapFilterCallback =>
                              <<KeyAt(n, j)', ValueAt(n, j)'>> \in Accepted
      BY <2>1 DEF PairsOf
    <3>1. old(j) \in Pairs(n)
      BY <2>1, <2>3
    <3>2. KeyAt(n, j)' \in Key /\ ValueAt(n, j)' \in Value
      BY <2>2, <2>6, <3>1 DEF PairsOf
    <3>3. ASSUME NEW k \in 1..(z - 1), KeyAt(n, k)' = KeyAt(n, j)' PROVE k = j
      <4>1. KeyAt(n, old(k)) = KeyAt(n, old(j)) /\ old(k) \in Pairs(n)
        BY <2>1, <2>3, <2>6, <3>3
      <4>2. old(k) = old(j)
        BY <2>2, <3>1, <4>1 DEF PairsOf
      <4>3. QED
        BY <2>4, <4>2
    <3>4. map'[n].mapFilterCallback => <<KeyAt(n, j)', ValueAt(n, j)'>> \in Accepted
      BY <2>1, <2>2, <2>6, <3>1 DEF PairsOf
    <3>5. QED
      BY <3>2, <3>3, <3>4
  <2>8. WholePairs'
    BY <2>1, <2>7, SamePairs DEF Contents, WholePairs
  <2>9. PointerKept'
    <3> SUFFICES ASSUME kept' # NotKept PROVE PointerKept'
      BY DEF PointerKept, NotKept
    <3>1. kept' = kept /\ kept # NotKept /\ (kept.map = n => kept.key # call.key)
      BY <1>2, <2>b
    <3>2. PICK m : m = kept.map
      OBVIOUS
    <3>3. m \in Open /\ \E j \in Pairs(m) : KeyAt(m, j) = kept.key /\ map[m].values[j] = kept.ptr
      BY <3>1, <3>2 DEF Contents, PointerKept, KeyAt
    <3>4. m \in Open' /\ \E j \in Pairs(m)' : KeyAt(m, j)' = kept.key /\ map'[m].values[j] = kept.ptr
      <4>1. CASE m # n
        BY <2>1, <3>3, <4>1 DEF Same, Keeps
      <4>2. CASE m = n
        <5>1. PICK k \in 1..z : KeyAt(n, k) = kept.key /\ map[n].values[k] = kept.ptr
          BY <2>1, <3>3, <4>2
        <5>2. k # i
          BY <2>2, <3>1, <3>2, <4>2, <5>1
        <5>3. PICK j \in 1..(z - 1) : old(j) = k
          BY <2>5, <5>2
        <5>4. QED
          BY <2>1, <2>6, <4>2, <5>1, <5>3
      <4>3. QED
        BY <4>1, <4>2
    <3>5. QED
      BY <3>1, <3>2, <3>4 DEF PointerKept, KeyAt
  <2>10. QED
    BY <1>0, <2>8, <2>9, NothingNew DEF Rest, Insertion
<1>3. QED
  BY <1>1, <1>2 DEF sky_map_delete, DeleteWith, Without
\* A new map has no pairs, and the others keep theirs.
LEMMA RestEmpty ==
    ASSUME Shape, Contents, NEW n \in Map \ Open, NEW filter \in BOOLEAN,
           map' = [map EXCEPT ![n] = [keys |-> <<>>, values |-> <<>>, count |-> 0,
                                      mapFilterCallback |-> filter]],
           UNCHANGED <<str, kept>>, pc \in {"idle", "clone"}, pc' = "idle"
    PROVE  Rest
<1>1. Open' = Open \cup {n} /\ (\A m \in Open : Same(m)) /\ Pairs(n)' = {}
  BY EmptyPairs
<1>2. PairsOf(n)'
  BY <1>1 DEF PairsOf
<1>3. WholePairs'
  BY <1>1, <1>2, SamePairs DEF Contents, WholePairs
<1>4. PointerKept'
  BY <1>1, SamePointer DEF Contents, Same
<1>5. QED
  BY <1>3, <1>4, NothingNew DEF Rest, Insertion

LEMMA RestCreate ==
    ASSUME Shape, Contents, NEW m \in Map, NEW filter \in BOOLEAN, sky_map_create(m, filter)
    PROVE  Rest
BY RestEmpty DEF sky_map_create

\* A pointer to a value of a map that is destroyed is gone with the map.
LEMMA RestDestroy ==
    ASSUME Shape, Once, Accounted, Contents, NEW n \in Map, sky_map_destroy(n)
    PROVE  Rest
<1>1. Open' = Open \ {n} /\ \A m \in Open' : Same(m)
  BY DestroyPairs
<1>2. pc' = "idle" /\ kept' = IF kept.map = n THEN NotKept ELSE kept
  BY DEF sky_map_destroy
<1>3. WholePairs'
  BY <1>1, SameWhole DEF Contents
<1>4. PointerKept'
  <2>1. CASE kept.map = n
    BY <1>2, <2>1 DEF PointerKept, NotKept
  <2>2. CASE kept.map # n
    BY <1>1, <1>2, <2>2, SamePointer DEF Contents, Same
  <2>3. QED
    BY <2>1, <2>2
<1>5. QED
  BY <1>2, <1>3, <1>4, NothingNew DEF Rest, Insertion

LEMMA RestCall ==
    ASSUME Shape, Once, Accounted, Contents, NEW m \in Map, Call(m)
    PROVE  Rest
<1>1. CASE \E filter \in BOOLEAN : sky_map_create(m, filter)
  BY <1>1, RestCreate
<1>2. CASE sky_map_destroy(m)
  BY <1>2, RestDestroy
<1>3. ASSUME NEW op \in Operation, NEW k, NEW v, NEW n, Invoke(op, m, k, v, n) PROVE Rest
  BY <1>3, RestUnchanged DEF Invoke, Operation, Insertion
<1>4. QED
  BY <1>1, <1>2, <1>3 DEF Call, Operation
----------------------------------------------------------------------------
(* Contents: a clone. *)

LEMMA RestClone == Shape /\ Contents /\ sky_map_clone => Rest
<1> SUFFICES ASSUME Shape, Contents, sky_map_clone PROVE Rest
  OBVIOUS
<1>0. pc = "clone" /\ pc # "idle" /\ UNCHANGED <<str, vec, kept>> /\ vec = NoVec
  BY DEF sky_map_clone, Shape, Calls
<1>1. CASE This.count # 0 /\ Goto("clonevector") /\ UNCHANGED map
  <2>1. Quiet
    BY <1>0, <1>1, QuietReturn DEF Goto
  <2>2. \A f \in Field : 1..Len(vec'[f]) = {}
    BY <1>0 DEF NoVec, Field
  <2>3. Len(vec'.keys) = 0 /\ Len(vec'.values) = 0
    BY <1>0 DEF NoVec
  <2>4. This' = This /\ This.count \in Nat
    BY <1>0, <1>1, CallsMap DEF Goto, This
  <2>5. Copied'
    BY <1>1, <2>2, <2>3, <2>4 DEF Copied
  <2>6. Fresh'
    BY <1>1 DEF Goto, Fresh, Insertion
  <2>7. QED
    BY <1>0, <2>1, <2>5, <2>6, QuietContents DEF Rest, Contents
<1>2. CASE /\ map' = [map EXCEPT ![call.to] = [keys |-> <<>>, values |-> <<>>, count |-> 0,
                                               mapFilterCallback |-> FALSE]]
           /\ Return("handle")
  <2>1. call.to \in Map \ Open
    BY <1>0 DEF Shape, Calls
  <2>2. QED
    BY <1>0, <1>2, <2>1, RestEmpty DEF Return
<1>3. CASE Return(NULL) /\ UNCHANGED map
  BY <1>0, <1>3, RestUnchanged DEF Return, Insertion
<1>4. QED
  BY <1>1, <1>2, <1>3 DEF sky_map_clone

\* The new string is a copy of the one in the same slot of the map.
LEMMA RestCloneString == Shape /\ Once /\ Accounted /\ Contents /\ CloneString => Rest
<1> SUFFICES ASSUME Shape, Once, Accounted, Contents, CloneString PROVE Rest
  OBVIOUS
<1>0. pc = "clonevector" /\ pc # "idle" /\ ~Filled /\ UNCHANGED <<map, pc, call, kept>> /\ Copied
  BY DEF CloneString, Contents
<1>1. WholePairs' /\ PointerKept'
  BY <1>0, SameCloning, QuietContents DEF Quiet, Contents
<1>2. Fresh'
  BY <1>0 DEF Fresh, Insertion
<1>3. PICK g \in Field : g = Filling
  BY <1>0, Cloning
<1>4. PICK n \in 1..This.count : n = Len(vec[g]) + 1
  BY <1>0, <1>3, Cloning
<1>5. PICK c \in Block : /\ Free(c)
                         /\ str' = [str EXCEPT ![c] = str[This[g][n]]]
                         /\ vec' = Extended(vec, g, c)
  BY <1>3, <1>4 DEF CloneString, Extended
<1>6. /\ \A f \in Field : f # g => vec'[f] = vec[f]
      /\ Len(vec'[g]) = n /\ Len(vec[g]) \in Nat /\ n = Len(vec[g]) + 1
      /\ \A i \in 1..Len(vec[g]) : vec'[g][i] = vec[g][i]
      /\ vec'[g][n] = c
  BY <1>4, <1>5, ExtendedVec
<1>7. /\ This \in MapStruct /\ Ready(This) /\ This.count \in Nat \ {0} /\ call.map \in Open
      /\ \A f \in Field : vec[f] \in Seq(Block)
      /\ This = map[call.map]
  BY <1>0, Cloning, CallsMap
<1>8. str' \in [Block -> Key \cup Value \cup {NULL}] /\ str'[c] = str[This[g][n]]
      /\ \A b \in Block : str[b] # NULL => str'[b] = str[b]
  <2>1. str \in [Block -> Key \cup Value \cup {NULL}] /\ str[c] = NULL
    BY <1>5 DEF Free, Shape, Types, TypeOK
  <2>2. This[g][n] \in Block
    BY <1>7 DEF Ready
  <2>3. QED
    BY <1>5, <2>1, <2>2
<1>9. \A f \in Field : \A i \in 1..This.count :
         /\ This[f][i] \in Block /\ str[This[f][i]] # NULL
  <2> SUFFICES ASSUME NEW f \in Field, NEW i \in 1..This.count
               PROVE  /\ This[f][i] \in Block /\ str[This[f][i]] # NULL
    OBVIOUS
  <2>1. This[f][i] \in Block
    BY <1>7 DEF Ready
  <2>2. Owns(call.map, f, i, This[f][i])
    BY <1>7, <2>1 DEF Owns
  <2>3. QED
    BY <2>1, <2>2 DEF Accounted
<1>10. \A f \in Field : \A i \in 1..Len(vec[f]) :
          /\ vec[f][i] \in Block /\ str[vec[f][i]] # NULL
          /\ str[vec[f][i]] = str[This[f][i]] /\ i \in 1..This.count
  <2> SUFFICES ASSUME NEW f \in Field, NEW i \in 1..Len(vec[f])
               PROVE  /\ vec[f][i] \in Block /\ str[vec[f][i]] # NULL
                      /\ str[vec[f][i]] = str[This[f][i]] /\ i \in 1..This.count
    OBVIOUS
  <2>1. i \in 1..This.count
    BY <1>0, <1>7 DEF Copied, Field
  <2>2. str[vec[f][i]] = str[This[f][i]] /\ vec[f][i] \in Block
    BY <1>0, <1>7 DEF Copied
  <2>3. QED
    BY <1>9, <2>1, <2>2
<1>11. This' = This
  BY <1>0 DEF This
<1>12. ASSUME NEW f \in Field, NEW i \in 1..Len(vec'[f])
       PROVE  str'[vec'[f][i]] = str'[This[f][i]]
  <2>1. CASE f = g /\ i = n
    BY <1>6, <1>8, <1>9, <2>1
  <2>2. CASE ~(f = g /\ i = n)
    <3>1. i \in 1..Len(vec[f]) /\ vec'[f][i] = vec[f][i]
      BY <1>6, <1>12, <2>2
    <3>2. QED
      BY <1>8, <1>9, <1>10, <3>1
  <2>3. QED
    BY <2>1, <2>2
<1>13. /\ Len(vec'.keys) <= This.count /\ Len(vec'.values) <= This.count
       /\ Len(vec'.values) # 0 => Len(vec'.keys) = This.count
  <2>1. /\ vec.keys \in Seq(Block) /\ vec.values \in Seq(Block)
        /\ Len(vec.keys) <= This.count /\ Len(vec.values) <= This.count
        /\ Len(vec.values) # 0 => Len(vec.keys) = This.count
    BY <1>0, <1>7 DEF Copied, Field
  <2>2. CASE g = "keys"
    <3>1. Len(vec.keys) < This.count
      BY <1>3, <2>2 DEF Filling
    <3>2. Len(vec'.keys) <= This.count /\ vec'.values = vec.values /\ Len(vec.values) = 0
      BY <1>6, <1>7, <2>1, <2>2, <3>1 DEF Field
    <3>3. QED
      BY <1>7, <3>2
  <2>3. CASE g = "values"
    <3>1. ~(Len(vec.keys) < This.count)
      BY <1>3, <2>3 DEF Filling
    <3>2. vec'.keys = vec.keys /\ Len(vec.keys) = This.count /\ Len(vec'.values) = n
      BY <1>6, <1>7, <2>1, <2>3, <3>1 DEF Field
    <3>3. QED
      BY <1>7, <3>2
  <2>4. QED
    BY <2>2, <2>3 DEF Field
<1>14. Copied'
  BY <1>7, <1>11, <1>12, <1>13 DEF Copied
<1>15. QED
  BY <1>1, <1>2, <1>14 DEF Rest

LEMMA RestCloneFails == Shape /\ Once /\ Accounted /\ Contents /\ CloneFails => Rest
<1> SUFFICES ASSUME Shape, Once, Accounted, Contents, CloneFails PROVE Rest
  OBVIOUS
<1>1. Quiet
  BY SameCloning DEF Quiet
<1>2. QED
  BY <1>1, QuietIdle DEF CloneFails, Return, Insertion

\* The clone has the pairs of the map, and its filter.
LEMMA RestCloneDone == Shape /\ Contents /\ CloneDone => Rest
<1> SUFFICES ASSUME Shape, Contents, CloneDone PROVE Rest
  OBVIOUS
<1>0. pc = "clonevector" /\ pc' = "idle" /\ UNCHANGED kept /\ Copied
  BY DEF CloneDone, CloneDoneWith, Return, Contents
<1>1. PICK n : n = call.to
  OBVIOUS
<1>2. PICK o : o = call.map
  OBVIOUS
<1>3. /\ Open' = Open \cup {n} /\ o \in Open
      /\ \A m \in Open : Same(m)
      /\ Pairs(n)' = Pairs(o)
      /\ \A i \in Pairs(n)' : /\ KeyAt(n, i)' = KeyAt(o, i)
                              /\ ValueAt(n, i)' = ValueAt(o, i)
      /\ map'[n].mapFilterCallback = map[o].mapFilterCallback
  BY <1>0, <1>1, <1>2, ClonedPairs DEF This
<1>4. PairsOf(o)
  BY <1>3 DEF Contents, WholePairs
<1>5. PairsOf(n)'
  BY <1>3, <1>4 DEF PairsOf
<1>6. WholePairs'
  BY <1>3, <1>5, SamePairs DEF Contents, WholePairs
<1>7. PointerKept'
  BY <1>0, <1>3, SamePointer DEF Contents, Same
<1>8. QED
  BY <1>0, <1>6, <1>7, NothingNew DEF Rest, Insertion
----------------------------------------------------------------------------
LEMMA ContentsNext ==
    Shape /\ Once /\ Accounted /\ Contents /\ [Next]_vars => Contents'
<1> SUFFICES ASSUME Shape, Once, Accounted, Contents, [Next]_vars PROVE Contents'
  OBVIOUS
<1>1. CASE UNCHANGED vars
  <2>1. Open' = Open /\ This' = This /\ UNCHANGED <<map, str, pc, call, vec, kept>>
    BY <1>1 DEF vars, Open, This
  <2>2. QED
    BY <2>1 DEF Contents, WholePairs, PairsOf, Fresh, Copied, PointerKept, KeyAt, ValueAt,
       Pairs, Inserting, Rejected
<1>2. ASSUME NEW m \in Map, Call(m) PROVE Rest
  BY <1>2, RestCall
<1>3. CASE \/ sky_map_add \/ sky_map_addorupdate \/ sky_map_delete
           \/ sky_map_containskey \/ sky_map_containsvalue \/ sky_map_getvaluefromkey
  <2>1. Rest
    BY <1>3, RestAdd, RestAddOrUpdate, RestDelete, RestLook
  <2>2. QED
    BY <2>1 DEF Rest, Contents
<1>4. CASE GrowKeys \/ GrowValues \/ CopyKey \/ CopyValue
  <2>1. Rest
    BY <1>4, RestGrowKeys, RestGrowValues, RestCopyKey, RestCopyValue
  <2>2. QED
    BY <2>1 DEF Rest, Contents
<1>5. CASE sky_map_clone \/ CloneString \/ CloneFails \/ CloneDone
  <2>1. Rest
    BY <1>5, RestClone, RestCloneString, RestCloneFails, RestCloneDone
  <2>2. QED
    BY <2>1 DEF Rest, Contents
<1>6. QED
  BY <1>1, <1>2, <1>3, <1>4, <1>5 DEF Next, Rest, Contents
----------------------------------------------------------------------------
(* The theorems. *)

LEMMA InitInv == Init => IInv
<1> SUFFICES ASSUME Init PROVE IInv
  OBVIOUS
<1>1. Shape
  BY ShapeInit
<1>2. Open = {}
  BY DEF Init, Open
<1>3. \A o, f, i, b : ~Owns(o, f, i, b)
  <2>1. \A f \in Field : 1..Len(vec[f]) = {}
    BY DEF Init, NoVec, Field
  <2>2. QED
    BY <1>2, <2>1 DEF Owns
<1>4. Once /\ Accounted
  BY <1>3 DEF Once, Accounted, Init
<1>5. Contents
  BY <1>2 DEF Init, Contents, WholePairs, Fresh, Copied, PointerKept, Insertion
<1>6. QED
  BY <1>1, <1>4, <1>5 DEF IInv

LEMMA NextInv == IInv /\ [Next]_vars => IInv'
<1> SUFFICES ASSUME IInv, [Next]_vars PROVE IInv'
  OBVIOUS
<1>1. Shape /\ Once /\ Accounted /\ Contents /\ Copied
  BY DEF IInv, Contents
<1>2. QED
  BY <1>1, ShapeNext, OwnersNext, ContentsNext DEF IInv
LEMMA InvHolds == Spec => []IInv
BY InitInv, NextInv, PTL DEF Spec

\* Between calls a map has a slot of each vector for every pair, and no vectors
\* if it has no pairs, whichever realloc refused to grow (sky_map.c:203, 214) or
\* to shrink (225, 263).
THEOREM VectorsAreSized == Spec => []VectorsSized
<1>1. ASSUME Shape PROVE VectorsSized
  <2>1. TypeOK
    BY <1>1 DEF Shape, Types
  <2>2. ASSUME pc = "idle", NEW m \in Open PROVE Ready(map[m]) /\ map[m] \in MapStruct
    BY <1>1, <2>2, ReadyMap, OpenMap
  <2>3. QED
    BY <2>1, <2>2 DEF VectorsSized, Ready, Roomy
<1>2. IInv => VectorsSized
  BY <1>1 DEF IInv
<1>3. QED
  BY InvHolds, <1>2, PTL

\* An owner of StringsOwned is a slot that owns its block.
LEMMA OwnerTuple ==
    ASSUME Shape
    PROVE  \A o : o \in Owners <=> \E m, f, i, b : o = <<m, f, i, b>> /\ Owns(m, f, i, b)
<1>1. NULL \notin Open /\ 0 \notin Block /\ \A b \in 0..MaxBlock : b \in Block <=> b # 0
  BY MapAssumption DEF Open, Block
<1>2. \A f \in Field : vec[f] \in Seq(Block) /\ DOMAIN vec[f] = 1..Len(vec[f])
  BY DEF Shape, Types, Field
<1>3. ASSUME NEW m \in Open, NEW f \in Field, NEW i \in 1..map[m].count
      PROVE  map[m][f][i] \in 0..MaxBlock
  <2>1. map[m] \in MapStruct /\ Roomy(map[m])
    BY OpenMap
  <2>2. map[m][f] \in Seq(0..MaxBlock) /\ i \in 1..Len(map[m][f])
    BY <2>1 DEF MapStruct, Roomy, Field
  <2>3. QED
    BY <2>2, ElementOfSeq
<1>4. ASSUME NEW m \in Open, NEW o
      PROVE  o \in MapOwners(m) /\ o[4] # 0 <=>
                \E f, i, b : o = <<m, f, i, b>> /\ Owns(m, f, i, b)
  <2>1. ASSUME NEW f \in Field, NEW i \in 1..map[m].count, o = <<m, f, i, map[m][f][i]>>, o[4] # 0
        PROVE  Owns(m, f, i, map[m][f][i])
    BY <1>1, <1>3, <2>1 DEF Owns
  <2>2. ASSUME NEW f, NEW i, NEW b, o = <<m, f, i, b>>, Owns(m, f, i, b)
        PROVE  f \in Field /\ i \in 1..map[m].count /\ o = <<m, f, i, map[m][f][i]>> /\ o[4] # 0
    BY <1>1, <2>2 DEF Owns
  <2>3. QED
    BY <2>1, <2>2 DEF MapOwners, Field
<1>5. ASSUME NEW f \in Field, NEW o
      PROVE  o \in VecOwners(f) /\ o[4] # 0 <=>
                \E i, b : o = <<NULL, f, i, b>> /\ Owns(NULL, f, i, b)
  <2>1. ASSUME NEW i \in 1..Len(vec[f]), o = <<NULL, f, i, vec[f][i]>>
        PROVE  Owns(NULL, f, i, vec[f][i]) /\ o[4] # 0
    BY <1>1, <1>2, <2>1 DEF Owns
  <2>2. ASSUME NEW i, NEW b, o = <<NULL, f, i, b>>, Owns(NULL, f, i, b)
        PROVE  i \in 1..Len(vec[f]) /\ o = <<NULL, f, i, vec[f][i]>>
    BY <1>1, <2>2 DEF Owns
  <2>3. QED
    BY <1>2, <2>1, <2>2 DEF VecOwners
<1>6. \A o : o \in Owners <=> \/ \E m \in Open : o \in MapOwners(m) /\ o[4] # 0
                              \/ \E f \in Field : o \in VecOwners(f) /\ o[4] # 0
  <2>1. \A o : o \in Owners <=> o \in AllOwners /\ o[4] # 0
    BY DEF Owners
  <2>2. \A o : o \in AllOwners <=> \/ \E m \in Open : o \in MapOwners(m)
                                   \/ \E f \in Field : o \in VecOwners(f)
    BY DEF AllOwners, Field
  <2>3. QED
    BY <2>1, <2>2
<1>7. \A m, f, i, b : Owns(m, f, i, b) => f \in Field /\ (m \in Open \/ m = NULL)
  BY DEF Owns
<1>8. QED
  BY <1>4, <1>5, <1>6, <1>7

\* Every string allocated is in exactly one slot of one map or of the clone in
\* progress: nothing leaks, nothing is freed twice and no two maps share a
\* string, whichever allocation failed (sky_map.c:95, 132, 351, 487).
THEOREM StringsAreOwned == Spec => []StringsOwned
<1>1. ASSUME Shape, Once, Accounted PROVE StringsOwned
  <2>1. ASSUME NEW o \in Owners, NEW p \in Owners, o[4] = p[4] PROVE o = p
    <3>1. PICK m, f, i, b : o = <<m, f, i, b>> /\ Owns(m, f, i, b)
      BY <1>1, OwnerTuple
    <3>2. PICK n, g, j, c : p = <<n, g, j, c>> /\ Owns(n, g, j, c)
      BY <1>1, OwnerTuple
    <3>3. b = c
      BY <2>1, <3>1, <3>2
    <3>4. QED
      BY <1>1, <3>1, <3>2, <3>3 DEF Once
  <2>2. ASSUME NEW o \in Owners PROVE o[4] \in Block /\ str[o[4]] # NULL
    <3>1. PICK m, f, i, b : o = <<m, f, i, b>> /\ Owns(m, f, i, b)
      BY <1>1, OwnerTuple
    <3>2. o[4] = b /\ b \in Block
      BY <3>1 DEF Owns
    <3>3. QED
      BY <1>1, <3>1, <3>2 DEF Accounted
  <2>3. ASSUME NEW b \in Block, str[b] # NULL PROVE \E o \in Owners : o[4] = b
    <3>1. PICK m, f, i : Owns(m, f, i, b)
      BY <1>1, <2>3 DEF Accounted
    <3>2. <<m, f, i, b>> \in Owners
      BY <1>1, <3>1, OwnerTuple
    <3>3. QED
      BY <3>2
  <2>4. QED
    BY <2>1, <2>2, <2>3 DEF StringsOwned
<1>2. IInv => StringsOwned
  BY <1>1 DEF IInv
<1>3. QED
  BY InvHolds, <1>2, PTL

\* As long as a map has its filter, every pair in it passed the filter: those
\* that were updated (sky_map.c:223) and those that were cloned with it
\* (sky_map.c:500), too.
THEOREM FilterIsHonoured == Spec => []FilterHonoured
<1>1. IInv => FilterHonoured
  BY DEF IInv, Contents, WholePairs, PairsOf, KeyAt, ValueAt, FilterHonoured
<1>2. QED
  BY InvHolds, <1>1, PTL

\* A pointer that sky_map_getvaluefromkey returned (sky_map.c:541) stays good
\* until its key is updated or deleted or its map destroyed.
THEOREM PointersStayGood == Spec => []PointerKept
<1>1. IInv => PointerKept
  BY DEF IInv, Contents
<1>2. QED
  BY InvHolds, <1>1, PTL
----------------------------------------------------------------------------
(* The vectors implement the maps of SkyMapSpec. *)

\* The content of a map is that of its pairs.
Stored(m) ==
    /\ Content[m] \in [Key -> Value \cup {NULL}]
    /\ \A i \in Pairs(m) : KeyAt(m, i) \in Key /\ ValueAt(m, i) \in Value
                           /\ Content[m][KeyAt(m, i)] = ValueAt(m, i)
    /\ \A k \in Key : Content[m][k] # NULL => \E i \in Pairs(m) : KeyAt(m, i) = k

Mirrored ==
    /\ Open \subseteq Map
    /\ Content \in [Map -> [Key -> Value \cup {NULL}] \cup {NULL}]
    /\ Filtered \in [Map -> BOOLEAN]
    /\ \A m \in Open : Stored(m) /\ Filtered[m] = map[m].mapFilterCallback
    /\ \A m \in Map \ Open : Content[m] = NULL /\ Filtered[m] = FALSE
    /\ Abs!Live = Open

LEMMA AllStored == WholePairs => \A m \in Open : Stored(m)
<1> SUFFICES ASSUME WholePairs, NEW m \in Open PROVE Stored(m)
  OBVIOUS
<1>1. PairsOf(m) /\ m \in Map
  BY DEF WholePairs, Open
<1>2. Content[m] = [k \in Key |-> ValueOf(m, k)]
  BY <1>1 DEF Content
<1>3. ASSUME NEW i \in Pairs(m)
      PROVE  /\ KeyAt(m, i) \in Key /\ ValueAt(m, i) \in Value
             /\ ValueOf(m, KeyAt(m, i)) = ValueAt(m, i)
  <2>1. {j \in Pairs(m) : str[map[m].keys[j]] = KeyAt(m, i)} = {i}
    BY <1>1 DEF PairsOf, KeyAt
  <2>2. QED
    BY <1>1, <2>1 DEF PairsOf, ValueOf, ValueAt
<1>4. ASSUME NEW k \in Key, \A i \in Pairs(m) : KeyAt(m, i) # k
      PROVE  ValueOf(m, k) = NULL
  <2>1. {j \in Pairs(m) : str[map[m].keys[j]] = k} = {}
    BY <1>4 DEF KeyAt
  <2>2. QED
    BY <2>1 DEF ValueOf
<1>5. \A k \in Key : ValueOf(m, k) \in Value \cup {NULL}
  BY <1>3, <1>4
<1>6. QED
  BY <1>2, <1>3, <1>4, <1>5 DEF Stored

LEMMA MirrorHolds == IInv => Mirrored
<1> SUFFICES ASSUME IInv PROVE Mirrored
  OBVIOUS
<1>1. \A m \in Open : Stored(m) /\ m \in Map /\ map[m] \in MapStruct
  BY AllStored, OpenMap DEF IInv, Contents
<1>2. \A m \in Map \ Open : Content[m] = NULL /\ Filtered[m] = FALSE
  BY DEF Content, Filtered
<1>3. Content \in [Map -> [Key -> Value \cup {NULL}] \cup {NULL}]
  <2>1. \A m \in Map : Content[m] \in [Key -> Value \cup {NULL}] \cup {NULL}
    BY <1>1, <1>2 DEF Stored
  <2>2. QED
    BY <2>1 DEF Content
<1>4. \A m \in Open : Filtered[m] = map[m].mapFilterCallback
  BY <1>1 DEF Filtered
<1>5. \A m \in Map : Filtered[m] \in BOOLEAN
  BY <1>1, <1>2, <1>4 DEF MapStruct
<1>6. Filtered \in [Map -> BOOLEAN]
  BY <1>5 DEF Filtered
<1>7. Abs!Live = Open
  BY <1>1, <1>2, MapAssumption DEF Abs!Live, Stored
<1>8. QED
  BY <1>1, <1>2, <1>3, <1>4, <1>6, <1>7 DEF Mirrored

LEMMA MirrorNext == IInv /\ [Next]_vars => Mirrored /\ Mirrored'
BY MirrorHolds, NextInv, PTL

\* A map whose pairs are the same has the same content.
LEMMA ContentSame ==
    ASSUME Mirrored, Mirrored', NEW m \in Open, Same(m)
    PROVE  Content'[m] = Content[m]
<1>1. m \in Open' /\ Pairs(m)' = Pairs(m)
  BY DEF Same, Keeps
<1>2. /\ Content[m] \in [Key -> Value \cup {NULL}]
      /\ \A i \in Pairs(m) : KeyAt(m, i) \in Key /\ Content[m][KeyAt(m, i)] = ValueAt(m, i)
      /\ \A k \in Key : Content[m][k] # NULL => \E i \in Pairs(m) : KeyAt(m, i) = k
  BY DEF Mirrored, Stored
<1>3. /\ Content'[m] \in [Key -> Value \cup {NULL}]
      /\ \A i \in Pairs(m) : Content'[m][KeyAt(m, i)'] = ValueAt(m, i)'
      /\ \A k \in Key : Content'[m][k] # NULL => \E i \in Pairs(m) : KeyAt(m, i)' = k
  BY <1>1 DEF Mirrored, Stored
<1>4. \A i \in Pairs(m) : KeyAt(m, i)' = KeyAt(m, i) /\ ValueAt(m, i)' = ValueAt(m, i)
  BY DEF Same, Keeps
<1>5. ASSUME NEW k \in Key PROVE Content'[m][k] = Content[m][k]
  BY <1>2, <1>3, <1>4
<1>6. QED
  BY <1>2, <1>3, <1>5

LEMMA ContentOthers ==
    ASSUME Mirrored, Mirrored', Open' = Open, NEW n \in Open,
           \A m \in Open : m # n => Same(m), NEW c, Content'[n] = c
    PROVE  Content' = [Content EXCEPT ![n] = c]
<1>1. \A m \in Open : m # n => Content'[m] = Content[m]
  BY ContentSame
<1>2. \A m \in Map \ Open : Content'[m] = Content[m]
  BY DEF Mirrored
<1>3. QED
  BY <1>1, <1>2 DEF Mirrored

LEMMA QuietContent ==
    ASSUME Mirrored, Mirrored', Quiet
    PROVE  Content' = Content
<1>1. \A m \in Open : Content'[m] = Content[m]
  BY ContentSame DEF Quiet
<1>2. \A m \in Map \ Open : Content'[m] = Content[m]
  BY DEF Mirrored, Quiet
<1>3. QED
  BY <1>1, <1>2 DEF Mirrored

LEMMA FilterBecomes ==
    ASSUME Shape, pc # "idle", NEW d \in MapStruct, Becomes(d)
    PROVE  /\ Filtered' = [Filtered EXCEPT ![call.map] = d.mapFilterCallback]
           /\ d.mapFilterCallback = This.mapFilterCallback => Filtered' = Filtered
<1>1. /\ Open' = Open /\ map'[call.map] = d /\ call.map \in Open /\ call.map \in Map
      /\ \A m \in Map : m # call.map => map'[m] = map[m]
      /\ This = map[call.map]
  BY Changed, CallsMap
<1>2. PICK n : n = call.map
  OBVIOUS
<1>3. \A m \in Map : Filtered'[m] = IF m = n THEN d.mapFilterCallback ELSE Filtered[m]
  BY <1>1, <1>2 DEF Filtered
<1>4. Filtered = [m \in Map |-> Filtered[m]] /\ Filtered' = [m \in Map |-> Filtered'[m]]
  BY DEF Filtered
<1>5. Filtered' = [Filtered EXCEPT ![n] = d.mapFilterCallback]
  BY <1>3, <1>4
<1>6. Filtered[n] = This.mapFilterCallback
  BY <1>1, <1>2 DEF Filtered
<1>7. d.mapFilterCallback = This.mapFilterCallback => Filtered' = Filtered
  BY <1>3, <1>4, <1>6
<1>8. QED
  BY <1>2, <1>5, <1>7

LEMMA FilterUnchanged ==
    ASSUME UNCHANGED map
    PROVE  Filtered' = Filtered
BY DEF Filtered, Open

\* A step that changes no pair, no filter and no result.
LEMMA Stutters ==
    ASSUME Mirrored, Mirrored', Quiet, Filtered' = Filtered, UNCHANGED <<call, result>>
    PROVE  UNCHANGED Abs!vars
BY QuietContent DEF Abs!vars

\* An answer that changes nothing.
LEMMA Answers ==
    ASSUME IInv, Mirrored, Mirrored', pc \notin {"idle"} \cup Insertion,
           NEW r, Return(r), UNCHANGED <<map, str>>
    PROVE  Abs!Answer(r)
<1>1. Quiet
  BY QuietReturn DEF Return, Insertion, IInv
<1>2. QED
  BY <1>1, QuietContent, FilterUnchanged
     DEF Return, Abs!Answer, Abs!Return, Abs!NoCall, NoCall

\* Looking for a key finds what the map has for it.
LEMMA FindContent ==
    ASSUME IInv, Mirrored, pc \notin {"idle"} \cup Insertion, NEW k \in Key
    PROVE  /\ findKey(k) = 0 => Content[call.map][k] = NULL
           /\ findKey(k) # 0 => /\ findKey(k) \in 1..This.count
                                /\ Content[call.map][k] # NULL
                                /\ Content[call.map][k] = str[This.values[findKey(k)]]
<1>1. pc # "idle" /\ Shape
  BY DEF IInv
<1>2. PICK n : n = call.map
  OBVIOUS
<1>3. n \in Open /\ This = map[n] /\ This.count \in Nat /\ Pairs(n) = 1..This.count
  BY <1>1, <1>2, CallsMap DEF Pairs, Inserting, Insertion
<1>4. Stored(n)
  BY <1>3 DEF Mirrored
<1>5. PICK i : i = findKey(k)
  OBVIOUS
<1>6. /\ i \in 0..This.count
      /\ i # 0 => KeyAt(n, i) = k
      /\ i = 0 => \A j \in Pairs(n) : KeyAt(n, j) # k
  BY <1>1, <1>3, <1>5, FindKey DEF KeyAt
<1>7. i = 0 => Content[n][k] = NULL
  BY <1>4, <1>6 DEF Stored
<1>8. i # 0 => i \in Pairs(n) /\ Content[n][k] = ValueAt(n, i) /\ ValueAt(n, i) \in Value
  BY <1>3, <1>4, <1>6 DEF Stored
<1>9. QED
  BY <1>2, <1>3, <1>5, <1>7, <1>8, MapAssumption DEF ValueAt

LEMMA RejectedSame ==
    ASSUME IInv, Mirrored, pc # "idle"
    PROVE  Rejected <=> Abs!Rejected
BY CallsMap DEF IInv, Mirrored, Rejected, Abs!Rejected

\* An insertion is of a key the map does not have, and passed the filter.
LEMMA InsertionNew ==
    ASSUME IInv, Mirrored, pc \in Insertion
    PROVE  /\ call.op \in {"add", "addorupdate"}
           /\ Abs!Now[call.key] = NULL /\ ~Abs!Rejected
<1>1. pc # "idle" /\ call.map \in Open /\ call.key \in Key
      /\ call.op \in {"add", "addorupdate"}
  BY CallsMap DEF IInv, Insertion, Shape, Calls
<1>2. ~Rejected /\ \A i \in Pairs(call.map) : KeyAt(call.map, i) # call.key
  BY DEF IInv, Contents, Fresh
<1>3. Content[call.map][call.key] = NULL
  BY <1>1, <1>2 DEF Mirrored, Stored
<1>4. QED
  BY <1>1, <1>2, <1>3, RejectedSame DEF Abs!Now

\* A map without pairs is empty.
LEMMA EmptyContent ==
    ASSUME Mirrored, NEW m \in Open
    PROVE  Pairs(m) = {} <=> Content[m] = Abs!Empty
<1>1. ASSUME Pairs(m) = {} PROVE Content[m] = Abs!Empty
  BY <1>1 DEF Mirrored, Stored, Abs!Empty
<1>2. ASSUME NEW i \in Pairs(m) PROVE Content[m] # Abs!Empty
  BY <1>2, MapAssumption DEF Mirrored, Stored, Abs!Empty
<1>3. QED
  BY <1>1, <1>2

LEMMA InsertionFails ==
    ASSUME IInv, Mirrored, Mirrored', pc \in Insertion, Quiet, Return("MAP_ERROR"),
           \/ Filtered' = Filtered
           \/ Pairs(call.map) = {} /\ Filtered' = [Filtered EXCEPT ![call.map] = FALSE]
    PROVE  Abs!Next
<1>1. Content' = Content
  BY QuietContent
<1>2. call.map \in Open
  BY CallsMap DEF IInv, Insertion
<1>3. Abs!NoMemory
  BY <1>1, <1>2, EmptyContent
     DEF Return, Abs!NoMemory, Abs!Return, Abs!NoCall, NoCall, Abs!Now
<1>4. QED
  BY <1>3, InsertionNew DEF Abs!Add, Abs!AddOrUpdate, Abs!Next

LEMMA InsertionGoesOn ==
    ASSUME IInv, Mirrored, Mirrored', Quiet, Filtered' = Filtered, NEW l, Goto(l)
    PROVE  UNCHANGED Abs!vars
BY Stutters DEF Goto

LEMMA GrowKeysImplements ==
    ASSUME IInv, Mirrored, Mirrored', GrowKeys
    PROVE  [Abs!Next]_(Abs!vars)
<1>0. pc = "grow_keys" /\ pc # "idle" /\ pc \in Insertion /\ Quiet /\ Shape
  BY SameGrowKeys DEF GrowKeys, Quiet, IInv, Insertion
<1>1. CASE Return("MAP_ERROR") /\ UNCHANGED map
  BY <1>0, <1>1, InsertionFails, FilterUnchanged
<1>2. ASSUME Becomes([This EXCEPT !.keys = Cleared(@, This.count + 1)]), Goto("grow_values")
      PROVE  UNCHANGED Abs!vars
  <2> DEFINE d == [This EXCEPT !.keys = Cleared(@, This.count + 1)]
  <2>1. d \in MapStruct /\ d.mapFilterCallback = This.mapFilterCallback
    BY <1>0, KeysGrown
  <2>2. Becomes(d)
    BY <1>2
  <2> HIDE DEF d
  <2>3. Filtered' = Filtered
    BY <1>0, <2>1, <2>2, FilterBecomes
  <2>4. QED
    BY <1>0, <1>2, <2>3, InsertionGoesOn
<1>3. QED
  BY <1>1, <1>2 DEF GrowKeys

LEMMA GrowValuesImplements ==
    ASSUME IInv, Mirrored, Mirrored', GrowValues
    PROVE  [Abs!Next]_(Abs!vars)
<1>0. pc = "grow_values" /\ pc # "idle" /\ pc \in Insertion /\ Quiet /\ Shape
  BY SameGrowValues DEF GrowValues, Quiet, IInv, Insertion
<1>1. CASE ValuesGrown
  <2> DEFINE d == [This EXCEPT !.values = Cleared(@, This.count + 1), !.count = @ + 1]
  <2>1. d \in MapStruct /\ d.mapFilterCallback = This.mapFilterCallback
    BY <1>0, BothGrown
  <2>2. Becomes(d) /\ Goto("copy_key")
    BY <1>1 DEF ValuesGrown
  <2> HIDE DEF d
  <2>3. Filtered' = Filtered
    BY <1>0, <2>1, <2>2, FilterBecomes
  <2>4. QED
    BY <1>0, <2>2, <2>3, InsertionGoesOn
<1>2. ASSUME NEW ks \in IF This.count = 0 THEN {<<>>} ELSE Shrunk(This.keys, This.count),
             Becomes([This EXCEPT !.keys = ks]), Return("MAP_ERROR")
      PROVE  Abs!Next
  <2>0. This \in MapStruct /\ This.count \in Nat /\ Roomy(This)
    BY <1>0, CallsMap
  <2>1. ks \in Seq(0..MaxBlock)
    <3>1. CASE This.count = 0
      BY <3>1
    <3>2. CASE This.count # 0
      BY <3>2, <2>0, ShrunkVector DEF MapStruct, Roomy
    <3>3. QED
      BY <3>1, <3>2
  <2> DEFINE d == [This EXCEPT !.keys = ks]
  <2>2. d \in MapStruct /\ d.mapFilterCallback = This.mapFilterCallback
    BY <2>0, <2>1 DEF MapStruct
  <2>3. Becomes(d)
    BY <1>2
  <2> HIDE DEF d
  <2>4. Filtered' = Filtered
    BY <1>0, <2>2, <2>3, FilterBecomes
  <2>5. QED
    BY <1>0, <1>2, <2>4, InsertionFails
<1>3. QED
  BY <1>1, <1>2 DEF GrowValues

\* Taking the last pair back takes the filter of a map that has no other.
LEMMA UndoneImplements ==
    ASSUME IInv, Mirrored, Mirrored', pc \in {"copy_key", "copy_value"}, Quiet,
           NEW d \in Map_DecreaseStorageKeysValues(This), Becomes(d), Return("MAP_ERROR")
    PROVE  Abs!Next
<1>0. Shape /\ pc # "idle" /\ pc \in Insertion
  BY DEF IInv, Insertion
<1>1. /\ This \in MapStruct /\ Roomy(This) /\ This.count \in Nat \ {0}
  BY <1>0, LastPair
<1>2. /\ d \in MapStruct /\ d.count = This.count - 1
      /\ d.mapFilterCallback = IF d.count = 0 THEN FALSE ELSE This.mapFilterCallback
  BY <1>1, Decreased
<1>3. /\ Filtered' = [Filtered EXCEPT ![call.map] = d.mapFilterCallback]
      /\ d.mapFilterCallback = This.mapFilterCallback => Filtered' = Filtered
  BY <1>0, <1>2, FilterBecomes
<1>4. Pairs(call.map) = 1..d.count
  BY <1>0, <1>2, CallsMap DEF Pairs, Inserting
<1>5. CASE d.count = 0
  <2>1. Pairs(call.map) = {}
    BY <1>4, <1>5
  <2>2. Filtered' = [Filtered EXCEPT ![call.map] = FALSE]
    BY <1>2, <1>3, <1>5
  <2>3. QED
    BY <1>0, <2>1, <2>2, InsertionFails
<1>6. CASE d.count # 0
  BY <1>0, <1>2, <1>3, <1>6, InsertionFails
<1>7. QED
  BY <1>5, <1>6

LEMMA CopyKeyImplements ==
    ASSUME IInv, Mirrored, Mirrored', CopyKey
    PROVE  [Abs!Next]_(Abs!vars)
<1>0. pc = "copy_key" /\ pc # "idle" /\ Quiet /\ Shape
  BY SameCopyKey DEF CopyKey, Quiet, IInv
<1>1. ASSUME NEW b \in Block,
             Becomes([This EXCEPT !.keys[This.count] = b]), Goto("copy_value")
      PROVE  UNCHANGED Abs!vars
  <2> DEFINE d == WithKey(This, This.count, b)
  <2>1. d \in MapStruct /\ d.mapFilterCallback = This.mapFilterCallback
    BY <1>0, LastPair, KeyPut
  <2>2. Becomes(d)
    BY <1>1 DEF WithKey
  <2> HIDE DEF d
  <2>3. Filtered' = Filtered
    BY <1>0, <2>1, <2>2, FilterBecomes
  <2>4. QED
    BY <1>0, <1>1, <2>3, InsertionGoesOn
<1>2. ASSUME NEW d \in Map_DecreaseStorageKeysValues(This), Becomes(d), Return("MAP_ERROR")
      PROVE  Abs!Next
  BY <1>0, <1>2, UndoneImplements
<1>3. QED
  BY <1>1, <1>2 DEF CopyKey

LEMMA CopyValueImplements ==
    ASSUME IInv, Mirrored, Mirrored', CopyValue
    PROVE  [Abs!Next]_(Abs!vars)
<1>0. pc = "copy_value" /\ pc # "idle" /\ pc \in Insertion
      /\ Shape /\ Once /\ Accounted /\ Fresh
  BY DEF CopyValue, IInv, Insertion, Contents
<1>1. ASSUME NEW c \in Block, Free(c), str' = [str EXCEPT ![c] = call.value],
             Becomes([This EXCEPT !.values[This.count] = c]), Return("MAP_OK")
      PROVE  Abs!Next
  <2>1. PICK n : n = call.map
    OBVIOUS
  <2>2. PICK z : z = This.count
    OBVIOUS
  <2>3. /\ Open' = Open /\ \A m \in Open : m # n => Same(m)
        /\ Keeps(n) /\ z \notin Pairs(n) /\ Pairs(n)' = Pairs(n) \cup {z}
        /\ KeyAt(n, z)' = call.key /\ ValueAt(n, z)' = call.value
    BY <1>0, <1>1, <2>1, <2>2, ValuePutPairs DEF KeyAt, ValueAt
  <2>4. n \in Open /\ n \in Map /\ n \in Open' /\ call.key \in Key /\ call.value \in Value
    BY <1>0, <2>1, <2>3, CallsMap DEF Shape, Calls
  <2>5. Stored(n) /\ Stored(n)'
    BY <2>4 DEF Mirrored
  <2>6. ASSUME NEW k \in Key
        PROVE  Content'[n][k] = IF k = call.key THEN call.value ELSE Content[n][k]
    <3>1. CASE k = call.key
      BY <2>3, <2>5, <3>1 DEF Stored
    <3>2. CASE k # call.key
      BY <2>3, <2>5, <3>2 DEF Stored, Keeps
    <3>3. QED
      BY <3>1, <3>2
  <2>7. Content'[n] = [Content[n] EXCEPT ![call.key] = call.value]
    BY <2>4, <2>5, <2>6 DEF Stored
  <2>8. Content' = [Content EXCEPT ![n] = [Content[n] EXCEPT ![call.key] = call.value]]
    BY <2>3, <2>4, <2>7, ContentOthers
  <2>9. Filtered' = Filtered
    <3> DEFINE d == WithValue(This, This.count, c)
    <3>1. d \in MapStruct /\ d.mapFilterCallback = This.mapFilterCallback
      BY <1>0, LastPair, ValuePut
    <3>2. Becomes(d)
      BY <1>1 DEF WithValue
    <3> HIDE DEF d
    <3>3. QED
      BY <1>0, <3>1, <3>2, FilterBecomes
  <2>10. Abs!Put
    BY <1>1, <2>1, <2>8, <2>9 DEF Return, Abs!Put, Abs!Return, Abs!NoCall, NoCall
  <2>11. QED
    BY <1>0, <2>10, InsertionNew DEF Abs!Add, Abs!AddOrUpdate, Abs!Next
<1>2. ASSUME NEW d \in Map_DecreaseStorageKeysValues(This), Becomes(d),
             FreeAll({This.keys[This.count]}), Return("MAP_ERROR")
      PROVE  Abs!Next
  <2>1. Quiet
    BY <1>0, <1>2, SameValueFails DEF Quiet
  <2>2. QED
    BY <1>0, <1>2, <2>1, UndoneImplements
<1>3. QED
  BY <1>1, <1>2 DEF CopyValue, ValueCopied

LEMMA AddImplements ==
    ASSUME IInv, Mirrored, Mirrored', sky_map_add
    PROVE  [Abs!Next]_(Abs!vars)
<1>0. /\ pc = "add" /\ pc \notin {"idle"} \cup Insertion /\ UNCHANGED <<map, str>>
      /\ call.op = "add" /\ call.key \in Key
  BY DEF sky_map_add, IInv, Shape, Calls, Operation, Insertion
<1>1. CASE findKey(call.key) # 0 /\ Return("MAP_KEYEXISTS")
  BY <1>0, <1>1, Answers, FindContent DEF Abs!Now, Abs!Add, Abs!Next
<1>2. CASE findKey(call.key) = 0 /\ Rejected /\ Return("MAP_FILTER_REJECT")
  BY <1>0, <1>2, Answers, FindContent, RejectedSame DEF Abs!Now, Abs!Add, Abs!Next
<1>3. CASE Goto("grow_keys")
  <2>1. Quiet
    BY <1>0, <1>3, QuietReturn DEF Goto, IInv, Insertion
  <2>2. QED
    BY <1>0, <1>3, <2>1, InsertionGoesOn, FilterUnchanged
<1>4. QED
  BY <1>1, <1>2, <1>3 DEF sky_map_add

LEMMA UpdateImplements ==
    ASSUME IInv, Mirrored, Mirrored', pc = "addorupdate", ~Rejected,
           NEW i \in 1..This.count, str[This.keys[i]] = call.key, Update(i)
    PROVE  Abs!Next
<1>0. /\ pc \notin {"idle"} \cup Insertion /\ pc # "idle" /\ Shape /\ Once /\ Accounted
      /\ call.op = "addorupdate" /\ call.key \in Key /\ call.value \in Value /\ ~Abs!Rejected
  BY RejectedSame DEF IInv, Shape, Calls, Operation, Insertion
<1>1. CASE Return("MAP_ERROR") /\ UNCHANGED <<map, str>>
  <2>1. Quiet
    BY <1>0, <1>1, QuietReturn DEF Return, Insertion
  <2>2. Abs!NoMemory
    BY <1>1, <2>1, QuietContent, FilterUnchanged
       DEF Return, Abs!NoMemory, Abs!Return, Abs!NoCall, NoCall
  <2>3. QED
    BY <1>0, <2>2 DEF Abs!AddOrUpdate, Abs!Next
<1>2. ASSUME NEW b \in Block, b = This.values[i] \/ Free(b),
             str' = [str EXCEPT ![This.values[i]] = NULL, ![b] = call.value],
             Becomes([This EXCEPT !.values[i] = b]), Return("MAP_OK")
      PROVE  Abs!Next
  <2>1. PICK n : n = call.map
    OBVIOUS
  <2>2. /\ Open' = Open /\ \A m \in Open : m # n => Same(m)
        /\ Pairs(n) = 1..This.count /\ Pairs(n)' = Pairs(n)
        /\ map'[n].mapFilterCallback = map[n].mapFilterCallback
        /\ \A j \in Pairs(n) : KeyAt(n, j)' = KeyAt(n, j)
        /\ ValueAt(n, i)' = call.value
        /\ \A j \in Pairs(n) \ {i} : /\ ValueAt(n, j)' = ValueAt(n, j)
                                     /\ map'[n].values[j] = map[n].values[j]
    <3>1. Shape /\ Once /\ Accounted
      BY DEF IInv
    <3>2. QED
      BY <1>2, <2>1, <3>1, UpdatePairs
  <2>3. n \in Open /\ n \in Map /\ n \in Open' /\ KeyAt(n, i) = call.key /\ i \in Pairs(n)
    BY <1>0, <2>1, <2>2, CallsMap DEF KeyAt
  <2>4. Stored(n) /\ Stored(n)'
    BY <2>3 DEF Mirrored
  <2>5. ASSUME NEW k \in Key
        PROVE  Content'[n][k] = IF k = call.key THEN call.value ELSE Content[n][k]
    <3>1. CASE k = call.key
      BY <2>2, <2>3, <2>4, <3>1 DEF Stored
    <3>2. CASE k # call.key
      BY <2>2, <2>3, <2>4, <3>2 DEF Stored
    <3>3. QED
      BY <3>1, <3>2
  <2>6. Content'[n] = [Content[n] EXCEPT ![call.key] = call.value]
    BY <1>0, <2>4, <2>5 DEF Stored
  <2>7. Content' = [Content EXCEPT ![n] = [Content[n] EXCEPT ![call.key] = call.value]]
    BY <2>2, <2>3, <2>6, ContentOthers
  <2>8. Filtered' = Filtered
    <3> DEFINE d == WithValue(This, i, b)
    <3>0. This \in MapStruct /\ Roomy(This)
      BY <1>0, CallsMap
    <3>1. d \in MapStruct /\ d.mapFilterCallback = This.mapFilterCallback
      BY <3>0, ValuePut
    <3>2. Becomes(d)
      BY <1>2 DEF WithValue
    <3> HIDE DEF d
    <3>3. QED
      BY <1>0, <3>1, <3>2, FilterBecomes
  <2>9. Abs!Put
    BY <1>2, <2>1, <2>7, <2>8 DEF Return, Abs!Put, Abs!Return, Abs!NoCall, NoCall
  <2>10. QED
    BY <1>0, <2>9 DEF Abs!AddOrUpdate, Abs!Next
<1>3. QED
  BY <1>1, <1>2 DEF Update

LEMMA AddOrUpdateImplements ==
    ASSUME IInv, Mirrored, Mirrored', sky_map_addorupdate
    PROVE  [Abs!Next]_(Abs!vars)
<1>0. /\ pc = "addorupdate" /\ pc \notin {"idle"} \cup Insertion /\ pc # "idle" /\ Shape
      /\ call.op = "addorupdate" /\ call.key \in Key
  BY DEF sky_map_addorupdate, IInv, Shape, Calls, Operation, Insertion
<1>1. CASE Rejected /\ Return("MAP_FILTER_REJECT") /\ UNCHANGED <<map, str>>
  BY <1>0, <1>1, Answers, RejectedSame DEF Abs!AddOrUpdate, Abs!Next
<1>2. CASE Goto("grow_keys") /\ UNCHANGED <<map, str>>
  <2>1. Quiet
    BY <1>0, <1>2, QuietReturn DEF Goto, IInv, Insertion
  <2>2. QED
    BY <1>2, <2>1, InsertionGoesOn, FilterUnchanged
<1>3. CASE ~Rejected /\ findKey(call.key) # 0 /\ Update(findKey(call.key))
  <2>1. findKey(call.key) \in 1..This.count /\ str[This.keys[findKey(call.key)]] = call.key
    BY <1>0, <1>3, FindKey
  <2>2. QED
    BY <1>0, <1>3, <2>1, UpdateImplements
<1>4. QED
  BY <1>1, <1>2, <1>3 DEF sky_map_addorupdate

LEMMA DeleteImplements ==
    ASSUME IInv, Mirrored, Mirrored', sky_map_delete
    PROVE  [Abs!Next]_(Abs!vars)
<1>0. /\ pc = "delete" /\ pc \notin {"idle"} \cup Insertion /\ pc # "idle"
      /\ Shape /\ Once /\ Accounted
      /\ call.op = "delete" /\ call.key \in Key
  BY DEF sky_map_delete, DeleteWith, IInv, Shape, Calls, Operation, Insertion
<1>1. CASE findKey(call.key) = 0 /\ Return("MAP_KEYNOTFOUND") /\ UNCHANGED <<map, str>>
  BY <1>0, <1>1, Answers, FindContent DEF Abs!Now, Abs!Delete, Abs!Next
<1>2. PICK i : i = findKey(call.key)
  OBVIOUS
<1>3. ASSUME i # 0, FreeAll({This.keys[i], This.values[i]}),
             NEW d \in Map_DecreaseStorageKeysValues(Without(This, i)), Becomes(d),
             Return("MAP_OK")
      PROVE  Abs!Next
  <2>1. PICK n : n = call.map
    OBVIOUS
  <2>2. i \in 1..This.count /\ str[This.keys[i]] = call.key
    BY <1>0, <1>2, <1>3, FindKey
  <2>3. PairGone(n, i)
    BY <1>0, <1>3, <2>1, <2>2, DeletePairs
  <2>4. PICK z : z = This.count
    OBVIOUS
  <2>5. /\ Open' = Open /\ (\A m \in Open : m # n => Same(m))
        /\ n \in Open /\ n \in Open' /\ n \in Map /\ This = map[n] /\ z \in Nat
        /\ Pairs(n) = 1..z /\ Pairs(n)' = 1..(z - 1) /\ i \in 1..z
        /\ KeyAt(n, i) = call.key
    BY <2>2, <2>3, <2>4 DEF PairGone, KeyAt, Open
  <2> DEFINE old(j) == IF j < i THEN j ELSE j + 1
  <2>6. \A j \in 1..(z - 1) : /\ KeyAt(n, j)' = KeyAt(n, old(j))
                              /\ ValueAt(n, j)' = ValueAt(n, old(j))
    BY <2>3, <2>5 DEF PairGone
  <2>7. \A j \in 1..(z - 1) : old(j) \in 1..z /\ old(j) # i
    BY <2>5
  <2>8. \A k \in 1..z : k # i => \E j \in 1..(z - 1) : old(j) = k
    <3> SUFFICES ASSUME NEW k \in 1..z, k # i PROVE \E j \in 1..(z - 1) : old(j) = k
      OBVIOUS
    <3>1. CASE k < i
      <4>1. k \in 1..(z - 1) /\ old(k) = k
        BY <2>5, <3>1
      <4>2. QED
        BY <4>1
    <3>2. CASE k > i
      <4>1. k - 1 \in 1..(z - 1) /\ old(k - 1) = k
        BY <2>5, <3>2
      <4>2. QED
        BY <4>1
    <3>3. QED
      BY <2>5, <3>1, <3>2
  <2> HIDE DEF old
  <2>9. Stored(n) /\ Stored(n)'
    BY <2>5 DEF Mirrored
  <2>10. \A j \in 1..z : KeyAt(n, j) = call.key => j = i
    BY <2>5 DEF IInv, Contents, WholePairs, PairsOf
  <2>11. ASSUME NEW k \in Key
         PROVE  Content'[n][k] = IF k = call.key THEN NULL ELSE Content[n][k]
    <3>1. CASE k = call.key
      <4>1. \A j \in 1..(z - 1) : KeyAt(n, j)' # k
        BY <2>6, <2>7, <2>10, <3>1
      <4>2. QED
        BY <2>5, <2>9, <3>1, <4>1 DEF Stored
    <3>2. CASE k # call.key /\ Content[n][k] # NULL
      <4>1. PICK o \in 1..z : KeyAt(n, o) = k /\ Content[n][k] = ValueAt(n, o)
        BY <2>5, <2>9, <3>2 DEF Stored
      <4>2. o # i
        BY <2>5, <3>2, <4>1
      <4>3. PICK j \in 1..(z - 1) : old(j) = o
        BY <2>8, <4>2
      <4>4. KeyAt(n, j)' = k /\ ValueAt(n, j)' = ValueAt(n, o)
        BY <2>6, <4>1, <4>3
      <4>5. QED
        BY <2>5, <2>9, <3>2, <4>1, <4>4 DEF Stored
    <3>3. CASE k # call.key /\ Content[n][k] = NULL
      <4>1. \A j \in 1..(z - 1) : KeyAt(n, j)' # k
        <5> SUFFICES ASSUME NEW j \in 1..(z - 1), KeyAt(n, j)' = k PROVE FALSE
          OBVIOUS
        <5>1. old(j) \in Pairs(n) /\ KeyAt(n, old(j)) = k
          BY <2>5, <2>6, <2>7
        <5>2. Content[n][k] \in Value
          BY <2>9, <5>1 DEF Stored
        <5>3. QED
          BY <3>3, <5>2, MapAssumption
      <4>2. QED
        BY <2>5, <2>9, <3>3, <4>1 DEF Stored
    <3>4. QED
      BY <3>1, <3>2, <3>3
  <2> DEFINE rest == [Content[n] EXCEPT ![call.key] = NULL]
  <2>12. Content'[n] = rest
    BY <1>0, <2>9, <2>11 DEF Stored
  <2>13. Content' = [Content EXCEPT ![n] = rest]
    BY <2>5, <2>12, ContentOthers
  <2>14. rest = Abs!Empty <=> z - 1 = 0
    <3>1. Pairs(n)' = {} <=> z - 1 = 0
      BY <2>5
    <3>2. (Pairs(n) = {})' <=> Content'[n] = Abs!Empty
      <4>1. ASSUME Pairs(n)' = {} PROVE Content'[n] = Abs!Empty
        BY <2>9, <4>1 DEF Stored, Abs!Empty
      <4>2. ASSUME NEW j \in Pairs(n)' PROVE Content'[n] # Abs!Empty
        BY <2>9, <4>2, MapAssumption DEF Stored, Abs!Empty
      <4>3. QED
        BY <4>1, <4>2
    <3>3. QED
      BY <2>12, <3>1, <3>2
  <2>15. Filtered' = [Filtered EXCEPT ![n] = @ /\ rest # Abs!Empty]
    <3>1. /\ d \in MapStruct /\ d.count = This.count - 1
          /\ d.mapFilterCallback = IF d.count = 0 THEN FALSE ELSE This.mapFilterCallback
      BY <1>0, <2>2, <1>3, Deleted
    <3>2. Filtered' = [Filtered EXCEPT ![n] = d.mapFilterCallback]
      BY <1>0, <1>3, <2>1, <3>1, FilterBecomes
    <3>3. Filtered[n] = This.mapFilterCallback /\ Filtered[n] \in BOOLEAN
      BY <2>5 DEF Mirrored
    <3> HIDE DEF rest
    <3>4. CASE z - 1 = 0
      <4>1. d.mapFilterCallback = FALSE /\ rest = Abs!Empty
        BY <2>4, <2>14, <3>1, <3>4
      <4>2. QED
        BY <3>2, <3>3, <4>1
    <3>5. CASE z - 1 # 0
      <4>1. d.mapFilterCallback = Filtered[n] /\ rest # Abs!Empty
        BY <2>4, <2>14, <3>1, <3>3, <3>5
      <4>2. QED
        BY <3>2, <3>3, <4>1
    <3>6. QED
      BY <3>4, <3>5
  <2>16. Content[n][call.key] # NULL
    BY <1>0, <1>2, <1>3, <2>1, FindContent
  <2>17. Abs!Delete
    BY <1>0, <1>3, <2>1, <2>13, <2>15, <2>16
       DEF Abs!Delete, Abs!Now, Return, Abs!Return, Abs!NoCall, NoCall
  <2>18. QED
    BY <2>17 DEF Abs!Next
<1>4. QED
  <2> DEFINE at == findKey(call.key)
  <2>1. \/ at = 0 /\ Return("MAP_KEYNOTFOUND") /\ UNCHANGED <<map, str>>
        \/ /\ at # 0
           /\ FreeAll({This.keys[at], This.values[at]})
           /\ \E d \in Map_DecreaseStorageKeysValues(Without(This, at)) : Becomes(d)
           /\ Return("MAP_OK")
    BY DEF sky_map_delete, DeleteWith, Without
  <2>2. QED
    BY <1>1, <1>2, <1>3, <2>1

LEMMA LookImplements ==
    ASSUME IInv, Mirrored, Mirrored',
           sky_map_containskey \/ sky_map_containsvalue \/ sky_map_getvaluefromkey
    PROVE  [Abs!Next]_(Abs!vars)
<1>0. Shape /\ UNCHANGED <<map, str>>
  BY DEF IInv, sky_map_containskey, sky_map_containsvalue, sky_map_getvaluefromkey
<1>1. CASE sky_map_containskey
  <2>1. /\ pc \notin {"idle"} \cup Insertion /\ call.op = "containskey" /\ call.key \in Key
        /\ Return(Truth(findKey(call.key) # 0))
    BY <1>0, <1>1 DEF sky_map_containskey, Shape, Calls, Operation, Insertion
  <2>2. Truth(findKey(call.key) # 0) = Abs!Truth(Abs!Now[call.key] # NULL)
    BY <2>1, FindContent DEF Abs!Now, Truth, Abs!Truth
  <2>3. Abs!Answer(Truth(findKey(call.key) # 0))
    BY <1>0, <2>1, Answers
  <2>4. QED
    BY <2>1, <2>2, <2>3 DEF Abs!Look, Abs!Next
<1>2. CASE sky_map_containsvalue
  <2>1. /\ pc \notin {"idle"} \cup Insertion /\ pc # "idle" /\ call.op = "containsvalue"
        /\ call.value \in Value /\ Return(Truth(findValue(call.value) # 0))
    BY <1>0, <1>2 DEF sky_map_containsvalue, Shape, Calls, Operation, Insertion
  <2>2. PICK n : n = call.map
    OBVIOUS
  <2>3. PICK i : i = findValue(call.value)
    OBVIOUS
  <2>4. n \in Open /\ This = map[n] /\ This.count \in Nat /\ Pairs(n) = 1..This.count
    BY <1>0, <2>1, <2>2, CallsMap DEF Pairs, Inserting, Insertion
  <2>5. Stored(n)
    BY <2>4 DEF Mirrored
  <2>6. i # 0 <=> \E k \in Key : Content[n][k] = call.value
    <3>1. /\ i \in 0..This.count
          /\ i # 0 => ValueAt(n, i) = call.value
          /\ i = 0 => \A j \in Pairs(n) : ValueAt(n, j) # call.value
      BY <1>0, <2>1, <2>3, <2>4, FindValue DEF ValueAt
    <3>2. ASSUME i # 0 PROVE \E k \in Key : Content[n][k] = call.value
      <4>1. i \in Pairs(n)
        BY <2>4, <3>1, <3>2
      <4>2. QED
        BY <2>5, <3>1, <3>2, <4>1 DEF Stored
    <3>3. ASSUME NEW k \in Key, Content[n][k] = call.value PROVE i # 0
      <4>1. call.value # NULL
        BY <2>1, MapAssumption
      <4>2. PICK j \in Pairs(n) : KeyAt(n, j) = k
        BY <2>5, <3>3, <4>1 DEF Stored
      <4>3. ValueAt(n, j) = call.value
        BY <2>5, <3>3, <4>2 DEF Stored
      <4>4. QED
        BY <3>1, <4>3
    <3>4. QED
      BY <3>2, <3>3
  <2>7. Truth(findValue(call.value) # 0) = Abs!Truth(\E k \in Key : Abs!Now[k] = call.value)
    <3>1. findValue(call.value) # 0 <=> \E k \in Key : Abs!Now[k] = call.value
      BY <2>2, <2>3, <2>6 DEF Abs!Now
    <3>2. QED
      BY <3>1 DEF Truth, Abs!Truth
  <2>8. Abs!Answer(Truth(findValue(call.value) # 0))
    BY <1>0, <2>1, Answers
  <2>9. QED
    BY <2>1, <2>7, <2>8 DEF Abs!Look, Abs!Next
<1>3. CASE sky_map_getvaluefromkey
  <2>1. /\ pc \notin {"idle"} \cup Insertion /\ call.op = "getvaluefromkey" /\ call.key \in Key
    BY <1>0, <1>3 DEF sky_map_getvaluefromkey, Shape, Calls, Operation, Insertion
  <2>2. PICK r : Return(r) /\ r = Content[call.map][call.key]
    <3>1. CASE findKey(call.key) = 0 /\ Return(NULL)
      BY <2>1, <3>1, FindContent
    <3>2. CASE findKey(call.key) # 0 /\ Return(str[This.values[findKey(call.key)]])
      BY <2>1, <3>2, FindContent
    <3>3. QED
      BY <1>3, <3>1, <3>2 DEF sky_map_getvaluefromkey
  <2>3. Abs!Answer(r)
    BY <1>0, <2>1, <2>2, Answers
  <2>4. QED
    BY <2>1, <2>2, <2>3 DEF Abs!Now, Abs!Look, Abs!Next
<1>4. QED
  BY <1>1, <1>2, <1>3

\* A map that is added, with the content c, leaves the others alone.
LEMMA NewContent ==
    ASSUME Mirrored, Mirrored', NEW n \in Map \ Open, Open' = Open \cup {n},
           \A m \in Open : Same(m), \A m \in Map \ {n} : map'[m] = map[m],
           NEW c, Content'[n] = c, NEW f, map'[n].mapFilterCallback = f
    PROVE  Content' = [Content EXCEPT ![n] = c] /\ Filtered' = [Filtered EXCEPT ![n] = f]
<1>1. \A m \in Open : Content'[m] = Content[m]
  BY ContentSame
<1>2. \A m \in Map \ Open' : Content'[m] = Content[m]
  BY DEF Mirrored
<1>3. Content' = [Content EXCEPT ![n] = c]
  BY <1>1, <1>2 DEF Mirrored
<1>4. \A m \in Map : Filtered'[m] = IF m = n THEN f ELSE Filtered[m]
  BY DEF Filtered
<1>5. Filtered' = [Filtered EXCEPT ![n] = f]
  BY <1>4 DEF Mirrored
<1>6. QED
  BY <1>3, <1>5

LEMMA EmptyImplements ==
    ASSUME IInv, Mirrored, Mirrored', NEW n \in Map \ Open, NEW filter \in BOOLEAN,
           map' = [map EXCEPT ![n] = [keys |-> <<>>, values |-> <<>>, count |-> 0,
                                      mapFilterCallback |-> filter]],
           UNCHANGED str, pc \in {"idle", "clone"}, pc' = "idle"
    PROVE  /\ Content' = [Content EXCEPT ![n] = Abs!Empty]
           /\ Filtered' = [Filtered EXCEPT ![n] = filter]
<1>1. /\ Open' = Open \cup {n} /\ \A m \in Open : Same(m)
      /\ Pairs(n)' = {} /\ map'[n].mapFilterCallback = filter
  BY EmptyPairs DEF IInv
<1>2. \A m \in Map \ {n} : map'[m] = map[m]
  BY DEF IInv, Shape, Types, TypeOK
<1>3. Content'[n] = Abs!Empty
  BY <1>1 DEF Mirrored, Stored, Abs!Empty
<1>4. QED
  BY <1>1, <1>2, <1>3, NewContent

LEMMA CloneImplements ==
    ASSUME IInv, Mirrored, Mirrored', sky_map_clone
    PROVE  [Abs!Next]_(Abs!vars)
<1>0. /\ pc = "clone" /\ pc \notin {"idle"} \cup Insertion /\ pc # "idle" /\ Shape
      /\ call.op = "clone" /\ call.to \in Map \ Open /\ UNCHANGED str
  BY DEF sky_map_clone, IInv, Shape, Calls, Operation, Insertion
<1>1. CASE Goto("clonevector") /\ UNCHANGED map
  <2>1. Quiet
    BY <1>0, <1>1, QuietReturn DEF Goto, IInv, Insertion
  <2>2. QED
    BY <1>1, <2>1, InsertionGoesOn, FilterUnchanged
<1>2. CASE /\ This.count = 0
           /\ map' = [map EXCEPT ![call.to] = [keys |-> <<>>, values |-> <<>>, count |-> 0,
                                               mapFilterCallback |-> FALSE]]
           /\ Return("handle")
  <2>1. PICK n : n = call.to
    OBVIOUS
  <2>2. PICK o : o = call.map
    OBVIOUS
  <2>3. Content' = [Content EXCEPT ![n] = Abs!Empty] /\ Filtered' = [Filtered EXCEPT ![n] = FALSE]
    BY <1>0, <1>2, <2>1, EmptyImplements DEF Return
  <2>4. o \in Open /\ Pairs(o) = {}
    BY <1>0, <1>2, <2>2, CallsMap DEF Pairs, Inserting
  <2>5. Content[o] = Abs!Empty
    BY <2>4, EmptyContent
  <2>6. Abs!Clone
    BY <1>0, <1>2, <2>1, <2>2, <2>3, <2>5
       DEF Abs!Clone, Abs!Now, Return, Abs!Return, Abs!NoCall, NoCall
  <2>7. QED
    BY <2>6 DEF Abs!Next
<1>3. CASE Return(NULL) /\ UNCHANGED map
  BY <1>0, <1>3, Answers DEF Abs!Clone, Abs!Next
<1>4. QED
  BY <1>1, <1>2, <1>3 DEF sky_map_clone

LEMMA CloningImplements ==
    ASSUME IInv, Mirrored, Mirrored', CloneString \/ CloneFails
    PROVE  [Abs!Next]_(Abs!vars)
<1>0. /\ Quiet /\ pc = "clonevector" /\ call.op = "clone" /\ Filtered' = Filtered
      /\ Content' = Content
  <2>1. Quiet
    BY SameCloning DEF Quiet, IInv
  <2>2. UNCHANGED map /\ pc = "clonevector" /\ call.op = "clone"
    BY DEF CloneString, CloneFails, IInv, Shape, Calls
  <2>3. QED
    BY <2>1, <2>2, FilterUnchanged, QuietContent
<1>1. CASE CloneString
  BY <1>0, <1>1 DEF CloneString, Abs!vars
<1>2. CASE CloneFails
  <2>1. Return(NULL)
    BY <1>2 DEF CloneFails
  <2>2. Abs!Answer(NULL)
    BY <1>0, <2>1 DEF Return, Abs!Answer, Abs!Return, Abs!NoCall, NoCall
  <2>3. QED
    BY <1>0, <2>2 DEF Abs!Clone, Abs!Next
<1>3. QED
  BY <1>1, <1>2

LEMMA CloneDoneImplements ==
    ASSUME IInv, Mirrored, Mirrored', CloneDone
    PROVE  [Abs!Next]_(Abs!vars)
<1>0. /\ pc = "clonevector" /\ pc # "idle" /\ Shape /\ Copied /\ call.op = "clone"
      /\ Return("handle")
  BY DEF CloneDone, CloneDoneWith, IInv, Contents, Shape, Calls
<1>1. PICK n : n = call.to
  OBVIOUS
<1>2. PICK o : o = call.map
  OBVIOUS
<1>3. /\ Open' = Open \cup {n} /\ n \in Map \ Open /\ o \in Open
      /\ \A m \in Open : Same(m)
      /\ Pairs(n)' = Pairs(o)
      /\ \A i \in Pairs(n)' : /\ KeyAt(n, i)' = KeyAt(o, i)
                              /\ ValueAt(n, i)' = ValueAt(o, i)
      /\ map'[n].mapFilterCallback = map[o].mapFilterCallback
  BY <1>0, <1>1, <1>2, ClonedPairs DEF This
<1>4. \A m \in Map \ {n} : map'[m] = map[m]
  BY <1>0, <1>1, Cloned
<1>5. Stored(o) /\ Stored(n)' /\ Filtered[o] = map[o].mapFilterCallback /\ Filtered[o] \in BOOLEAN
  BY <1>3 DEF Mirrored
<1>6. ASSUME NEW k \in Key PROVE Content'[n][k] = Content[o][k]
  BY <1>3, <1>5 DEF Stored
<1>7. Content'[n] = Content[o]
  BY <1>5, <1>6 DEF Stored
<1>8. Content' = [Content EXCEPT ![n] = Content[o]] /\ Filtered' = [Filtered EXCEPT ![n] = Filtered[o]]
  BY <1>3, <1>4, <1>5, <1>7, NewContent
<1>9. Content[o] # Abs!Empty
  <2>1. This.count # 0 /\ Pairs(o) = 1..This.count /\ This.count \in Nat
    BY <1>0, <1>2, CallsMap DEF Copied, Pairs, Inserting
  <2>2. Pairs(o) # {}
    <3>1. 1 \in 1..This.count
      BY <2>1
    <3>2. QED
      BY <2>1, <3>1
  <2>3. QED
    BY <1>3, <2>2, EmptyContent
<1>10. (Filtered[o] /\ Content[o] # Abs!Empty) = Filtered[o]
  BY <1>5, <1>9
<1>11. Abs!Clone
  BY <1>0, <1>1, <1>2, <1>8, <1>10
     DEF Abs!Clone, Abs!Now, Return, Abs!Return, Abs!NoCall, NoCall
<1>12. QED
  BY <1>11 DEF Abs!Next

LEMMA DestroyImplements ==
    ASSUME IInv, Mirrored, Mirrored', NEW n \in Map, sky_map_destroy(n)
    PROVE  Abs!Next
<1>1. /\ pc = "idle" /\ call = NoCall /\ n \in Open /\ UNCHANGED <<call, result>>
      /\ map' = [map EXCEPT ![n] = NULL]
  BY DEF sky_map_destroy, IInv, Shape, Calls
<1>2. Open' = Open \ {n} /\ \A m \in Open' : Same(m)
  BY DestroyPairs DEF IInv
<1>3. \A m \in Open' : Content'[m] = Content[m]
  BY <1>2, ContentSame
<1>4. \A m \in Map \ Open : Content'[m] = Content[m]
  BY <1>2 DEF Mirrored
<1>5. Content' = [Content EXCEPT ![n] = NULL]
  BY <1>1, <1>2, <1>3, <1>4 DEF Mirrored
<1>6. \A m \in Map : m # n => map'[m] = map[m]
  BY <1>1 DEF IInv, Shape, Types, TypeOK
<1>7. \A m \in Map : Filtered'[m] = IF m = n THEN FALSE ELSE Filtered[m]
  BY <1>1, <1>2, <1>6 DEF Mirrored
<1>8. Filtered' = [Filtered EXCEPT ![n] = FALSE]
  BY <1>7 DEF Mirrored
<1>9. Abs!Destroy(n)
  BY <1>1, <1>5, <1>8 DEF Mirrored, Abs!Destroy, Abs!NoCall, NoCall
<1>10. QED
  BY <1>9 DEF Abs!Next

LEMMA InvokeImplements ==
    ASSUME IInv, Mirrored, Mirrored', NEW op \in Operation, NEW m \in Map,
           NEW k \in Key \cup {NULL}, NEW v \in Value \cup {NULL}, NEW n \in Map \cup {NULL},
           Invoke(op, m, k, v, n)
    PROVE  Abs!Next
<1>1. /\ pc = "idle" /\ pc' = op /\ call = NoCall /\ UNCHANGED <<map, str>> /\ m \in Open
      /\ call' = [op |-> op, map |-> m, key |-> k, value |-> v, to |-> n] /\ result' = "none"
  BY DEF Invoke, IInv, Shape, Calls
<1>2. Quiet
  BY <1>1, QuietReturn DEF IInv, Operation
<1>3. Abs!Invoke
  BY <1>1, <1>2, QuietContent, FilterUnchanged
     DEF Abs!Invoke, Abs!NoCall, NoCall, Mirrored, Operation
<1>4. QED
  BY <1>3 DEF Abs!Next

LEMMA CallImplements ==
    ASSUME IInv, Mirrored, Mirrored', NEW m \in Map, Call(m)
    PROVE  Abs!Next
<1>1. ASSUME NEW filter \in BOOLEAN, sky_map_create(m, filter) PROVE Abs!Next
  <2>1. /\ m \in Map \ Open /\ pc = "idle" /\ pc' = "idle" /\ call = NoCall
        /\ UNCHANGED <<call, result>>
    BY <1>1 DEF sky_map_create, IInv, Shape, Calls
  <2>2. /\ Content' = [Content EXCEPT ![m] = Abs!Empty]
        /\ Filtered' = [Filtered EXCEPT ![m] = filter]
    BY <1>1, <2>1, EmptyImplements DEF sky_map_create
  <2>3. Abs!Create(m, filter)
    BY <2>1, <2>2 DEF Abs!Create, Abs!NoCall, NoCall, Mirrored
  <2>4. QED
    BY <2>3 DEF Abs!Next
<1>2. CASE sky_map_destroy(m)
  BY <1>2, DestroyImplements
<1>3. ASSUME NEW k \in Key, NEW v \in Value,
             Invoke("add", m, k, v, NULL) \/ Invoke("addorupdate", m, k, v, NULL)
      PROVE  Abs!Next
  BY <1>3, InvokeImplements DEF Operation
<1>4. ASSUME NEW k \in Key,
             \/ Invoke("delete", m, k, NULL, NULL) \/ Invoke("containskey", m, k, NULL, NULL)
             \/ Invoke("getvaluefromkey", m, k, NULL, NULL)
      PROVE  Abs!Next
  BY <1>4, InvokeImplements DEF Operation
<1>5. ASSUME NEW v \in Value, Invoke("containsvalue", m, NULL, v, NULL)
      PROVE  Abs!Next
  BY <1>5, InvokeImplements DEF Operation
<1>6. ASSUME NEW n \in Map \ Open, Invoke("clone", m, NULL, NULL, n)
      PROVE  Abs!Next
  BY <1>6, InvokeImplements DEF Operation
<1>7. QED
  BY <1>1, <1>2, <1>3, <1>4, <1>5, <1>6 DEF Call

LEMMA NextImplements == IInv /\ [Next]_vars => [Abs!Next]_(Abs!vars)
<1> SUFFICES ASSUME IInv, [Next]_vars PROVE [Abs!Next]_(Abs!vars)
  OBVIOUS
<1>0. Mirrored /\ Mirrored'
  BY MirrorNext
<1>1. CASE UNCHANGED vars
  BY <1>1 DEF vars, Abs!vars, Content, Filtered, Open, ValueOf, Pairs, Inserting
<1>2. ASSUME NEW m \in Map, Call(m) PROVE [Abs!Next]_(Abs!vars)
  BY <1>0, <1>2, CallImplements
<1>3. CASE \/ sky_map_add \/ sky_map_addorupdate \/ sky_map_delete
           \/ sky_map_containskey \/ sky_map_containsvalue \/ sky_map_getvaluefromkey
  BY <1>0, <1>3, AddImplements, AddOrUpdateImplements, DeleteImplements, LookImplements
<1>4. CASE GrowKeys \/ GrowValues \/ CopyKey \/ CopyValue
  BY <1>0, <1>4, GrowKeysImplements, GrowValuesImplements, CopyKeyImplements, CopyValueImplements
<1>5. CASE sky_map_clone \/ CloneString \/ CloneFails \/ CloneDone
  BY <1>0, <1>5, CloneImplements, CloningImplements, CloneDoneImplements
<1>6. QED
  BY <1>1, <1>2, <1>3, <1>4, <1>5 DEF Next

LEMMA InitImplements == Init => Abs!Init
<1> SUFFICES ASSUME Init PROVE Abs!Init
  OBVIOUS
<1>1. Open = {}
  BY DEF Init, Open
<1>2. Content = [m \in Map |-> NULL] /\ Filtered = [m \in Map |-> FALSE]
  BY <1>1 DEF Content, Filtered
<1>3. QED
  BY <1>2 DEF Init, Abs!Init, NoCall, Abs!NoCall

\* The vectors of sky_map.c implement the maps of SkyMapSpec: every call does
\* in one step between its invocation and its return what it promises, or it
\* returns MAP_ERROR for want of memory (sky_map.c:203, 214, 351) and has
\* changed no pair of any map.
THEOREM MapIsMap == Spec => ImplementsMap
<1>1. QED
  BY InitImplements, NextImplements, InvHolds, PTL DEF Spec, ImplementsMap, Abs!Spec
=============================================================================
