--------------------------- MODULE SkyDataProofs ---------------------------
(* Proofs about the parts of MCSkyData, for any keys, values, sizes and      *)
(* heap of the table, any octets and lengths of the texts, any moments of    *)
(* 1970 to 2038 in any zone, any paths and any buffers.  Each part has an    *)
(* invariant of its own; as a step of the whole is a step of one part, each  *)
(* holds in the whole.  The instance lock is proved in SkyProcessProofs.     *)
(*                                                                           *)
(* HashInv.  The copies are one to one with the entries (OneEach), and a     *)
(* table that refuses a key is as full as it was made to be (Roomy).         *)
(*                                                                           *)
(* BaseInv.  The text is made of fours, each the sixes of three octets with  *)
(* zeros for those that are not there; encode has written the fours of the   *)
(* octets it has read (Encoding), in the end all of them, with pads for the  *)
(* characters that have no bit (Encoded64); so decode, for which a pad is a  *)
(* zero, has the octets of the characters it has read (Decoding).            *)
(*                                                                           *)
(* HexInv.  The digits are two of each octet that was printed (Printed2),    *)
(* and the octets read back are made of them (ReadBack).                     *)
(*                                                                           *)
(* TimeInv.  A date is the one that gmtime_r makes of the moment it was      *)
(* asked for, or of the local time of that moment (DateKnown), and the       *)
(* moment of the calendar's date is the date's (DateOfMoment), as every day  *)
(* is in a year and every day of a year in a month.                          *)
(*                                                                           *)
(* FileInv.  An answer fits its buffer, and is a half of the path as         *)
(* readlink leaves it.                                                       *)
EXTENDS MCSkyData, SkyProcessProofs, FiniteSetTheorems, SequenceTheorems,
        WellFoundedInduction, TLAPS

\* The octets, as a name.
Byte == 0..255

\* A function on 1..n is a sequence.
LEMMA FunctionIsSeq ==
  ASSUME NEW n \in Nat, NEW S, NEW T, S \subseteq T, NEW s \in [1..n -> S]
  PROVE  s \in Seq(T) /\ Len(s) = n
<1>1. \A k \in 1..n : s[k] \in T
  OBVIOUS
<1>2. s = [k \in 1..n |-> s[k]]
  OBVIOUS
<1>3. s \in [1..n -> T]
  BY <1>1, <1>2
<1> QED BY <1>3
----------------------------------------------------------------------------
(* The hash table *)

\* Every entry's key is a copy that has not been freed, and no two copies
\* spell the same key.
OneEach ==
    /\ IsFiniteSet(haTab) /\ IsFiniteSet(Hash!Nodes \cup Hash!Strs)
    /\ \A e \in haTab : e.key \in Object /\ haHeap[e.key] \in Key
    /\ \A e, f \in haTab : haHeap[e.key] = haHeap[f.key] => e = f
    /\ ~Hash!Live => haTab = {}

\* The table has at least the entries that were asked for, modulo 2^32, and
\* a key was refused for want of room only when all of them were taken.
Roomy == Hash!Live => /\ (haSize + Spare) % HashModulus <= haRoom
                      /\ haCramped # None => haCramped = haRoom

HashInv == Hash!TypeOK /\ Hash!KeysOwned /\ OneEach /\ Roomy

\* The table counts as everybody does.
LEMMA SameCardinality == \A S : Hash!Cardinality(S) = Cardinality(S)
<1> TAKE S
<1> QED BY Zenon DEF Hash!Cardinality, Cardinality

\* At first there is no table, and nothing in the heap.
LEMMA HashInit == ASSUME Hash!HashAssumption PROVE Hash!Init => HashInv
<1> SUFFICES ASSUME Hash!Init PROVE HashInv
  OBVIOUS
<1>1. Hash!Nodes = {} /\ Hash!Strs = {} /\ Hash!Free = Object /\ Len(haKeys) = 0 /\ haTab = {}
  BY DEF Hash!Init, Hash!Nodes, Hash!Strs, Hash!Free
<1>2. Cardinality(haTab) = 0 /\ IsFiniteSet(haTab) /\ Hash!Nodes \cup Hash!Strs = {}
  BY <1>1, FS_EmptySet
<1>3. Cardinality(Hash!Nodes \cup Hash!Strs) = 0 /\ IsFiniteSet(Hash!Nodes \cup Hash!Strs)
  BY <1>2, FS_EmptySet
<1>4. Hash!TypeOK
  BY <1>1, <1>2, SameCardinality DEF Hash!Init, Hash!TypeOK
<1>5. Hash!KeysOwned
  BY <1>1, <1>2, <1>3, SameCardinality DEF Hash!KeysOwned
<1>6. OneEach /\ Roomy
  BY <1>1, <1>2, <1>3 DEF Hash!Init, OneEach, Roomy, Hash!Live
<1>7. QED
  BY <1>4, <1>5, <1>6 DEF HashInv

\* A finite set with one element more, or one exchanged for another.
LEMMA OneMore ==
  ASSUME NEW S, IsFiniteSet(S), NEW x, x \notin S
  PROVE  IsFiniteSet(S \cup {x}) /\ Cardinality(S \cup {x}) = Cardinality(S) + 1
BY FS_AddElement

\* ... or one exchanged for another.
LEMMA Exchanged ==
  ASSUME NEW S, IsFiniteSet(S), NEW x \in S, NEW y, y \notin S \ {x}
  PROVE  IsFiniteSet((S \ {x}) \cup {y}) /\ Cardinality((S \ {x}) \cup {y}) = Cardinality(S)
<1>1. /\ IsFiniteSet(S \ {x}) /\ Cardinality(S \ {x}) = Cardinality(S) - 1
      /\ Cardinality(S) \in Nat
  BY FS_RemoveElement, FS_CardinalityType
<1> DEFINE T == S \ {x}
<1>2. IsFiniteSet(T \cup {y}) /\ Cardinality(T \cup {y}) = Cardinality(T) + 1
  <2> HIDE DEF T
  <2>1. IsFiniteSet(T) /\ y \notin T
    BY <1>1 DEF T
  <2>2. QED
    BY <2>1, OneMore
<1>3. QED
  BY <1>1, <1>2

\* glibc finds a size that is large enough.
LEMMA CreatedRoom ==
  ASSUME Hash!HashAssumption, NEW n \in Sizes
  PROVE  LET nel == (n + Spare) % HashModulus
         IN  Hash!hcreate_r(nel) \in Nat /\ nel <= Hash!hcreate_r(nel)
<1> DEFINE nel == (n + Spare) % HashModulus
<1>1. nel \in Nat
  BY DEF Hash!HashAssumption
<1>2. \E p \in Hash!Raised(nel)..(2 * nel + 3) : Hash!FirstPrime(nel, p)
  BY DEF Hash!HashAssumption
<1> HIDE DEF nel
<1>3. Hash!hcreate_r(nel) \in Hash!Raised(nel)..(2 * nel + 3)
  BY <1>2 DEF Hash!hcreate_r
<1>4. Hash!Raised(nel) \in Nat /\ nel <= Hash!Raised(nel)
  BY <1>1 DEF Hash!Raised
<1>5. Hash!hcreate_r(nel) \in Nat /\ nel <= Hash!hcreate_r(nel)
  BY <1>1, <1>3, <1>4
<1>6. QED
  BY <1>5 DEF nel

\* A new table is empty, ...
LEMMA CreateOK ==
  ASSUME Hash!HashAssumption, HashInv, NEW n \in Sizes, Hash!sky_hash_create(n)
  PROVE  HashInv'
<1>1. /\ Hash!hcreate_r((n + Spare) % HashModulus) \in Nat
      /\ (n + Spare) % HashModulus <= Hash!hcreate_r((n + Spare) % HashModulus)
  BY CreatedRoom
<1>2. /\ haSize' = n /\ haRoom' = Hash!hcreate_r((n + Spare) % HashModulus)
      /\ haAnswer' = None /\ haCramped' = None
      /\ UNCHANGED <<haTab, haKeys, haHeap>> /\ ~Hash!Live
  BY DEF Hash!sky_hash_create
<1>3. haTab = {} /\ Cardinality(haTab) = 0
  BY <1>2, FS_EmptySet DEF HashInv, OneEach
<1>4. Hash!TypeOK'
  BY <1>1, <1>2, <1>3, SameCardinality DEF HashInv, Hash!TypeOK
<1>5. Hash!KeysOwned' /\ OneEach'
  <2>1. Hash!Nodes' = Hash!Nodes /\ Hash!Strs' = Hash!Strs /\ Hash!Free' = Hash!Free
    BY <1>2 DEF Hash!Nodes, Hash!Strs, Hash!Free
  <2>2. Hash!KeysOwned'
    BY <1>2, <2>1 DEF HashInv, Hash!KeysOwned
  <2> QED BY <1>2, <1>3, <2>1, <2>2 DEF HashInv, OneEach
<1>6. Roomy'
  BY <1>1, <1>2 DEF Roomy
<1>7. QED
  BY <1>4, <1>5, <1>6 DEF HashInv

\* ... and destroy frees every copy.
LEMMA DestroyOK ==
  ASSUME Hash!HashAssumption, HashInv, Hash!sky_hash_destroy
  PROVE  HashInv'
<1>1. /\ haTab' = {} /\ haRoom' = 0 /\ haSize' = None /\ haAnswer' = None /\ haCramped' = None
      /\ haHeap' = [o \in Object |-> IF o \in Hash!Nodes \cup Hash!Strs
            THEN None ELSE haHeap[o]]
      /\ haKeys' = <<>>
  BY DEF Hash!sky_hash_destroy, Hash!FreeCopies
<1>2. Hash!Nodes' = {} /\ Hash!Strs' = {} /\ Len(haKeys') = 0
  BY <1>1 DEF Hash!Nodes, Hash!Strs
<1>3. Hash!Free' = Object
  <2>1. ASSUME NEW o \in Object PROVE haHeap'[o] = None
    BY <1>1 DEF HashInv, Hash!KeysOwned, Hash!Free
  <2>2. QED
    BY <2>1 DEF Hash!Free
<1>4. Cardinality(haTab') = 0 /\ IsFiniteSet(haTab') /\ (Hash!Nodes \cup Hash!Strs)' = {}
  BY <1>1, <1>2, FS_EmptySet
<1>5. Cardinality((Hash!Nodes \cup Hash!Strs)') = 0 /\ IsFiniteSet((Hash!Nodes \cup Hash!Strs)')
  BY <1>4, FS_EmptySet
<1>6. Hash!TypeOK'
  BY <1>1, <1>4, SameCardinality DEF HashInv, Hash!TypeOK
<1>7. Hash!KeysOwned'
  BY <1>1, <1>2, <1>3, <1>4, <1>5, SameCardinality DEF Hash!KeysOwned
<1>8. OneEach' /\ Roomy'
  BY <1>1, <1>4, <1>5 DEF OneEach, Roomy, Hash!Live
<1>9. QED
  BY <1>6, <1>7, <1>8 DEF HashInv

\* A find or a refused add writes to nothing but answer and cramped.
LEMMA LookOK ==
  ASSUME Hash!HashAssumption, HashInv, UNCHANGED <<haSize, haRoom, haTab, haKeys, haHeap>>,
         haAnswer' \in Value \cup {"added", "refused", None},
         haCramped' = haCramped
            \/ (haCramped' = Cardinality(haTab) /\ Cardinality(haTab) = haRoom)
  PROVE  HashInv'
<1>1. Cardinality(haTab) \in Nat
  BY FS_CardinalityType DEF HashInv, OneEach
<1>2. Hash!TypeOK'
  BY <1>1 DEF HashInv, Hash!TypeOK
<1>3. Hash!KeysOwned' /\ OneEach'
  BY DEF HashInv, Hash!KeysOwned, OneEach, Hash!Nodes, Hash!Strs, Hash!Free, Hash!Live
<1>4. Roomy'
  BY DEF HashInv, Roomy, Hash!Live
<1>5. QED
  BY <1>2, <1>3, <1>4 DEF HashInv

\* The new value takes the place of the old one, under the same copy.
LEMMA UpdateOK ==
  ASSUME Hash!HashAssumption, HashInv, NEW k \in Key, NEW v \in Value, Hash!AddUpdates(k, v)
  PROVE  HashInv'
<1>1. PICK e \in Hash!FIND(k) : haTab' = (haTab \ {e}) \cup {[e EXCEPT !.data = v]}
  BY DEF Hash!AddUpdates
<1>2. haAnswer' = "added" /\ UNCHANGED <<haSize, haRoom, haKeys, haHeap, haCramped>>
         /\ Hash!Live
  BY DEF Hash!AddUpdates
<1> DEFINE new == [e EXCEPT !.data = v]
<1>3. e \in haTab /\ e.key \in Object /\ haHeap[e.key] = k
  BY DEF Hash!FIND
<1>4. e \in [key : Object \cup {Hash!Caller}, data : Value]
  BY <1>3 DEF HashInv, Hash!TypeOK
<1>5. new \in [key : Object \cup {Hash!Caller}, data : Value] /\ new.key = e.key
  BY <1>4
<1>6. \A f \in haTab \ {e} : haHeap[f.key] # k
  BY <1>3 DEF HashInv, OneEach
<1> HIDE DEF new
<1>7. new \notin haTab \ {e} /\ haTab' = (haTab \ {e}) \cup {new}
  BY <1>1, <1>3, <1>5, <1>6 DEF new
<1>8. IsFiniteSet(haTab') /\ Cardinality(haTab') = Cardinality(haTab)
  BY <1>3, <1>7, Exchanged DEF HashInv, OneEach
<1>9. Hash!TypeOK'
  BY <1>2, <1>5, <1>7, <1>8, SameCardinality DEF HashInv, Hash!TypeOK
<1>10. {f.key : f \in haTab'} = {f.key : f \in haTab}
  BY <1>3, <1>5, <1>7
<1>11. Hash!KeysOwned'
  BY <1>2, <1>8, <1>10, SameCardinality DEF HashInv, Hash!KeysOwned, Hash!Nodes, Hash!Strs,
                                            Hash!Free
<1>12. OneEach'
  <2>1. Hash!Nodes' = Hash!Nodes /\ Hash!Strs' = Hash!Strs /\ Hash!Live' = Hash!Live
           /\ haHeap' = haHeap
    BY <1>2 DEF Hash!Nodes, Hash!Strs, Hash!Live
  <2>2. \A f \in haTab' : f.key \in Object /\ haHeap[f.key] \in Key
    BY <1>3, <1>5, <1>7 DEF HashInv, OneEach
  <2>3. \A f, g \in haTab' : haHeap[f.key] = haHeap[g.key] => f = g
    BY <1>3, <1>5, <1>6, <1>7 DEF HashInv, OneEach
  <2>4. QED
    BY <1>2, <1>8, <2>1, <2>2, <2>3 DEF HashInv, OneEach
<1>13. Roomy'
  BY <1>2 DEF HashInv, Roomy, Hash!Live
<1>14. QED
  BY <1>9, <1>11, <1>12, <1>13 DEF HashInv

\* A new entry has two new objects, the node and the copy its key points to.
LEMMA EnterOK ==
  ASSUME Hash!HashAssumption, HashInv, NEW k \in Key, NEW v \in Value, Hash!AddEnters(k, v)
  PROVE  HashInv'
<1>1. PICK node \in Hash!Free, str \in Hash!Free :
         /\ node < str
         /\ haHeap' = [haHeap EXCEPT ![node] = "node", ![str] = k]
         /\ haTab' = haTab \cup {[key |-> str, data |-> v]}
         /\ haKeys' = <<[node |-> node, str |-> str]>> \o haKeys
  BY DEF Hash!AddEnters, Hash!Enters, Hash!TwoFree
<1>2. /\ Hash!Live /\ Cardinality(haTab) < haRoom /\ Hash!FIND(k) = {} /\ haAnswer' = "added"
      /\ UNCHANGED <<haSize, haRoom, haCramped>>
  BY SameCardinality DEF Hash!AddEnters, Hash!Enters
<1>3. /\ node \in Object /\ str \in Object /\ node # str /\ haHeap[node] = None
      /\ haHeap[str] = None
      /\ haHeap \in [Object -> Key \cup {"node", None}] /\ None \notin Key /\ None # "node"
  BY <1>1 DEF Hash!Free, Hash!HashAssumption, HashInv, Hash!TypeOK
<1>4. /\ haHeap'[node] = "node" /\ haHeap'[str] = k
      /\ \A o \in Object \ {node, str} : haHeap'[o] = haHeap[o]
      /\ haHeap' \in [Object -> Key \cup {"node", None}]
  BY <1>1, <1>3
<1> DEFINE new == [key |-> str, data |-> v]
           cell == [node |-> node, str |-> str]
<1>5. /\ new.key = str /\ new \in [key : Object \cup {Hash!Caller}, data : Value]
      /\ cell.node = node /\ cell.str = str /\ cell \in [node : Object, str : Object]
  BY <1>3
<1>6. haTab' = haTab \cup {new} /\ haKeys' = <<cell>> \o haKeys
  BY <1>1
<1> HIDE DEF new, cell
<1>7. /\ haKeys' \in Seq([node : Object, str : Object]) /\ Len(haKeys') = Len(haKeys) + 1
      /\ haKeys'[1] = cell /\ Len(haKeys) \in Nat
      /\ \A i \in 1..Len(haKeys) : haKeys'[i + 1] = haKeys[i]
  BY <1>5, <1>6 DEF HashInv, Hash!TypeOK
<1>8. Hash!Nodes' = Hash!Nodes \cup {node} /\ Hash!Strs' = Hash!Strs \cup {str}
  <2>1. \A i \in 1..Len(haKeys') : i = 1 \/ (i - 1 \in 1..Len(haKeys) /\ (i - 1) + 1 = i)
    BY <1>7
  <2>2. \A i \in 1..Len(haKeys') : i = 1 \/ \E j \in 1..Len(haKeys) : haKeys'[i] = haKeys[j]
    <3> SUFFICES ASSUME NEW i \in 1..Len(haKeys'), i # 1
                 PROVE  \E j \in 1..Len(haKeys) : haKeys'[i] = haKeys[j]
      OBVIOUS
    <3>1. i - 1 \in 1..Len(haKeys) /\ (i - 1) + 1 = i
      BY <2>1
    <3>2. haKeys'[(i - 1) + 1] = haKeys[i - 1]
      BY <1>7, <3>1
    <3>3. QED
      BY <3>1, <3>2
  <2>3. 1 \in 1..Len(haKeys') /\ \A i \in 1..Len(haKeys) : i + 1 \in 1..Len(haKeys')
    BY <1>7
  <2>4. Hash!Nodes' = Hash!Nodes \cup {node}
    <3>1. ASSUME NEW c \in Hash!Nodes' PROVE c \in Hash!Nodes \cup {node}
      <4>1. PICK i \in 1..Len(haKeys') : c = haKeys'[i].node
        BY DEF Hash!Nodes
      <4>2. CASE i = 1
        BY <4>1, <4>2, <1>5, <1>7
      <4>3. CASE \E j \in 1..Len(haKeys) : haKeys'[i] = haKeys[j]
        BY <4>1, <4>3 DEF Hash!Nodes
      <4>4. QED
        BY <4>2, <4>3, <2>2
    <3>2. ASSUME NEW c \in Hash!Nodes \cup {node} PROVE c \in Hash!Nodes'
      <4>1. CASE c = node
        <5>1. c = haKeys'[1].node
          BY <4>1, <1>5, <1>7
        <5>2. QED
          BY <5>1, <2>3 DEF Hash!Nodes
      <4>2. CASE c \in Hash!Nodes
        <5>1. PICK i \in 1..Len(haKeys) : c = haKeys[i].node
          BY <4>2 DEF Hash!Nodes
        <5>2. c = haKeys'[i + 1].node /\ i + 1 \in 1..Len(haKeys')
          BY <5>1, <1>7, <2>3
        <5>3. QED
          BY <5>2 DEF Hash!Nodes
      <4>3. QED
        BY <4>1, <4>2
    <3>3. QED
      BY <3>1, <3>2
  <2>5. Hash!Strs' = Hash!Strs \cup {str}
    <3>1. ASSUME NEW c \in Hash!Strs' PROVE c \in Hash!Strs \cup {str}
      <4>1. PICK i \in 1..Len(haKeys') : c = haKeys'[i].str
        BY DEF Hash!Strs
      <4>2. CASE i = 1
        BY <4>1, <4>2, <1>5, <1>7
      <4>3. CASE \E j \in 1..Len(haKeys) : haKeys'[i] = haKeys[j]
        BY <4>1, <4>3 DEF Hash!Strs
      <4>4. QED
        BY <4>2, <4>3, <2>2
    <3>2. ASSUME NEW c \in Hash!Strs \cup {str} PROVE c \in Hash!Strs'
      <4>1. CASE c = str
        <5>1. c = haKeys'[1].str
          BY <4>1, <1>5, <1>7
        <5>2. QED
          BY <5>1, <2>3 DEF Hash!Strs
      <4>2. CASE c \in Hash!Strs
        <5>1. PICK i \in 1..Len(haKeys) : c = haKeys[i].str
          BY <4>2 DEF Hash!Strs
        <5>2. c = haKeys'[i + 1].str /\ i + 1 \in 1..Len(haKeys')
          BY <5>1, <1>7, <2>3
        <5>3. QED
          BY <5>2 DEF Hash!Strs
      <4>3. QED
        BY <4>1, <4>2
    <3>3. QED
      BY <3>1, <3>2
  <2>6. QED
    BY <2>4, <2>5
<1>9. node \notin Hash!Nodes \cup Hash!Strs /\ str \notin Hash!Nodes \cup Hash!Strs
  BY <1>1 DEF HashInv, Hash!KeysOwned
<1>10. /\ IsFiniteSet((Hash!Nodes \cup Hash!Strs)')
       /\ Cardinality((Hash!Nodes \cup Hash!Strs)') = Cardinality(Hash!Nodes \cup Hash!Strs) + 2
       /\ Cardinality(Hash!Nodes \cup Hash!Strs) \in Nat
  <2> DEFINE S == Hash!Nodes \cup Hash!Strs
             T == S \cup {node}
  <2>1. IsFiniteSet(S) /\ node \notin S /\ str \notin T
    BY <1>3, <1>9 DEF HashInv, OneEach
  <2> HIDE DEF S
  <2>2. IsFiniteSet(T) /\ Cardinality(T) = Cardinality(S) + 1 /\ Cardinality(S) \in Nat
    BY <2>1, OneMore, FS_CardinalityType
  <2> HIDE DEF T
  <2>3. IsFiniteSet(T \cup {str}) /\ Cardinality(T \cup {str}) = Cardinality(T) + 1
    BY <2>1, <2>2, OneMore
  <2>4. (Hash!Nodes \cup Hash!Strs)' = T \cup {str}
    BY <1>8 DEF S, T
  <2>5. Cardinality(T \cup {str}) = Cardinality(S) + 2 /\ Cardinality(S) \in Nat
    BY <2>2, <2>3
  <2>6. QED
    <3>1. IsFiniteSet((Hash!Nodes \cup Hash!Strs)')
             /\ Cardinality((Hash!Nodes \cup Hash!Strs)') = Cardinality(S) + 2
      BY <2>3, <2>4, <2>5
    <3>2. QED
      BY <2>5, <3>1 DEF S
<1>11. /\ \A e \in haTab : e.key \in Object \ {node, str} /\ haHeap'[e.key] = haHeap[e.key]
       /\ \A e \in haTab : haHeap[e.key] # k
  BY <1>2, <1>3, <1>4 DEF HashInv, OneEach, Hash!FIND
<1>12. /\ IsFiniteSet(haTab') /\ Cardinality(haTab') = Cardinality(haTab) + 1
       /\ Cardinality(haTab) \in Nat
  <2>1. new \notin haTab
    BY <1>5, <1>11
  <2>2. QED
    BY <1>6, <2>1, OneMore, FS_CardinalityType DEF HashInv, OneEach
<1>13. Hash!Free' = Hash!Free \ {node, str}
  BY <1>3, <1>4 DEF Hash!Free
<1>14. Hash!TypeOK'
  <2>1. Cardinality(haTab') <= haRoom'
    BY <1>2, <1>12 DEF HashInv, Hash!TypeOK
  <2>2. QED
    BY <1>2, <1>4, <1>5, <1>6, <1>7, <2>1, SameCardinality DEF HashInv, Hash!TypeOK
<1>15. Hash!KeysOwned'
  <2>1. {e.key : e \in haTab'} = Hash!Strs'
    BY <1>5, <1>6, <1>8 DEF HashInv, Hash!KeysOwned
  <2>2. (Hash!Nodes \cup Hash!Strs)' = Object \ Hash!Free'
    BY <1>1, <1>3, <1>8, <1>13 DEF HashInv, Hash!KeysOwned
  <2>3. Cardinality(haTab') = Len(haKeys')
    BY <1>7, <1>12, SameCardinality DEF HashInv, Hash!KeysOwned
  <2>4. Cardinality((Hash!Nodes \cup Hash!Strs)') = 2 * Len(haKeys')
    BY <1>7, <1>10, SameCardinality DEF HashInv, Hash!KeysOwned
  <2>5. QED
    BY <2>1, <2>2, <2>3, <2>4, SameCardinality DEF Hash!KeysOwned
<1>16. OneEach'
  <2>1. \A e \in haTab' : e.key \in Object /\ haHeap'[e.key] \in Key
    BY <1>3, <1>4, <1>5, <1>6, <1>11 DEF HashInv, OneEach
  <2>2. \A e, f \in haTab' : haHeap'[e.key] = haHeap'[f.key] => e = f
    BY <1>4, <1>5, <1>6, <1>11 DEF HashInv, OneEach
  <2>3. Hash!Live'
    BY <1>2 DEF Hash!Live
  <2>4. QED
    BY <1>10, <1>12, <2>1, <2>2, <2>3 DEF OneEach
<1>17. Roomy'
  BY <1>2 DEF HashInv, Roomy, Hash!Live
<1>18. QED
  BY <1>14, <1>15, <1>16, <1>17 DEF HashInv

\* What a find answers is a value of the table.
LEMMA FindOK ==
  ASSUME Hash!HashAssumption, HashInv, NEW k \in Key, Hash!sky_hash_find(k)
  PROVE  HashInv'
<1>1. haAnswer' \in Value \cup {None}
  BY DEF Hash!sky_hash_find, Hash!FIND, HashInv, Hash!TypeOK
<1>2. UNCHANGED <<haSize, haRoom, haTab, haKeys, haHeap>> /\ haCramped' = haCramped
  BY DEF Hash!sky_hash_find
<1>3. QED
  BY <1>1, <1>2, LookOK

\* An add that finds no memory, or no room, leaves nothing behind.
LEMMA RefuseOK ==
  ASSUME Hash!HashAssumption, HashInv, NEW k \in Key,
         Hash!AddWithoutNode(k) \/ Hash!AddWithoutString(k) \/ Hash!AddToFull(k)
  PROVE  HashInv'
<1>1. haAnswer' = "refused" /\ UNCHANGED <<haSize, haRoom, haTab, haKeys, haHeap>>
  BY DEF Hash!AddWithoutNode, Hash!AddWithoutString, Hash!AddToFull, Hash!Refuses
<1>2. haCramped' = haCramped \/ (haCramped' = Cardinality(haTab) /\ Cardinality(haTab) = haRoom)
  BY SameCardinality DEF Hash!AddWithoutNode, Hash!AddWithoutString, Hash!AddToFull
<1>3. QED
  BY <1>1, <1>2, LookOK

\* Every step keeps the invariant.
LEMMA HashNext ==
  ASSUME Hash!HashAssumption
  PROVE HashInv /\ [Hash!Next]_(Hash!vars) => HashInv'
<1> SUFFICES ASSUME HashInv, [Hash!Next]_(Hash!vars) PROVE HashInv'
  OBVIOUS
<1>1. CASE UNCHANGED Hash!vars
  <2>1. haAnswer' = haAnswer /\ haCramped' = haCramped
           /\ UNCHANGED <<haSize, haRoom, haTab, haKeys, haHeap>>
    BY <1>1 DEF Hash!vars
  <2>2. haAnswer' \in Value \cup {"added", "refused", None}
    BY <2>1 DEF HashInv, Hash!TypeOK
  <2>3. QED
    BY <2>1, <2>2, LookOK
<1>2. ASSUME NEW k \in Key, NEW v \in Value, Hash!sky_hash_add(k, v) PROVE HashInv'
  BY <1>2, UpdateOK, EnterOK, RefuseOK DEF Hash!sky_hash_add
<1>3. QED
  BY <1>1, <1>2, CreateOK, DestroyOK, FindOK DEF Hash!Next
----------------------------------------------------------------------------
(* The refinement of SkyHashSpec *)

\* A key has at most one entry, and maps to its value.
LEMMA DataIs == HashInv => \A k \in Key : \A e \in Hash!FIND(k) : Hash!DataOf(k) = e.data
<1> SUFFICES ASSUME HashInv, NEW k \in Key, NEW e \in Hash!FIND(k) PROVE Hash!DataOf(k) = e.data
  OBVIOUS
<1>1. \A f \in Hash!FIND(k) : f = e
  BY DEF Hash!FIND, HashInv, OneEach
<1>2. QED
  BY <1>1 DEF Hash!DataOf

\* So it does after a step.
LEMMA DataIsNext == (HashInv => \A k \in Key : \A e \in Hash!FIND(k) : Hash!DataOf(k) = e.data)'
BY DataIs, PTL

\* A call that leaves table and heap alone leaves the map alone.
LEMMA SameMap ==
  ASSUME UNCHANGED <<haTab, haHeap>>
  PROVE Hash!Mapped' = Hash!Mapped /\ \A k : Hash!FIND(k)' = Hash!FIND(k)
BY DEF Hash!Mapped, Hash!DataOf, Hash!FIND

\* One entry new or changed is one key changed.
LEMMA OneChanged ==
  ASSUME Hash!HashAssumption, HashInv, HashInv', NEW k \in Key, NEW v,
         NEW new \in Hash!FIND(k)', new.data = v,
         \A j \in Key \ {k} : Hash!FIND(j)' = Hash!FIND(j)
  PROVE  Hash!Mapped' = [Hash!Mapped EXCEPT ![k] = v]
<1>1. Hash!DataOf(k)' = v
  BY DataIsNext
<1>2. ASSUME NEW j \in Key \ {k} PROVE Hash!DataOf(j)' = Hash!DataOf(j)
  <2>1. CASE Hash!FIND(j) = {}
    <3>1. Hash!FIND(j)' = {}
      BY <2>1
    <3>2. QED
      BY <2>1, <3>1 DEF Hash!DataOf
  <2>2. CASE Hash!FIND(j) # {}
    <3>1. PICK e \in Hash!FIND(j) : TRUE
      BY <2>2
    <3>2. e \in Hash!FIND(j)'
      BY <3>1
    <3>3. QED
      BY <3>1, <3>2, DataIs, DataIsNext
  <2>3. QED
    BY <2>1, <2>2
<1>3. QED
  BY <1>1, <1>2 DEF Hash!Mapped

\* An add of a key that the table has changes its value, ...
LEMMA UpdateRefines ==
  ASSUME Hash!HashAssumption, HashInv, HashInv', NEW k \in Key, NEW v \in Value,
         Hash!AddUpdates(k, v)
  PROVE  Hash!Abstract!Add(k, v)
<1>1. PICK e \in Hash!FIND(k) : haTab' = (haTab \ {e}) \cup {[e EXCEPT !.data = v]}
  BY DEF Hash!AddUpdates
<1>2. Hash!Live /\ Hash!Live' /\ haAnswer' = "added" /\ haHeap' = haHeap
  BY DEF Hash!AddUpdates, Hash!Live
<1> DEFINE new == [e EXCEPT !.data = v]
<1>3. /\ e \in haTab /\ e.key \in Object /\ haHeap[e.key] = k
      /\ e \in [key : Object \cup {Hash!Caller}, data : Value]
  BY DEF Hash!FIND, HashInv, Hash!TypeOK
<1>4. new.key = e.key /\ new.data = v
  BY <1>3
<1>5. haTab' = (haTab \ {e}) \cup {new}
  BY <1>1
<1> HIDE DEF new
<1>6. new \in Hash!FIND(k)'
  BY <1>2, <1>3, <1>4, <1>5 DEF Hash!FIND
<1>7. ASSUME NEW j \in Key \ {k} PROVE Hash!FIND(j)' = Hash!FIND(j)
  BY <1>2, <1>3, <1>4, <1>5 DEF Hash!FIND
<1>8. Hash!Mapped' = [Hash!Mapped EXCEPT ![k] = v]
  BY <1>4, <1>6, <1>7, OneChanged
<1>9. QED
  BY <1>2, <1>8 DEF Hash!Abstract!Add

\* ... one of a new key enters it or refuses it, ...
LEMMA EnterRefines ==
  ASSUME Hash!HashAssumption, HashInv, HashInv', NEW k \in Key, NEW v \in Value,
         Hash!AddEnters(k, v)
  PROVE  Hash!Abstract!Add(k, v)
<1>1. PICK node \in Hash!Free, str \in Hash!Free :
         /\ node < str
         /\ haHeap' = [haHeap EXCEPT ![node] = "node", ![str] = k]
         /\ haTab' = haTab \cup {[key |-> str, data |-> v]}
  BY DEF Hash!AddEnters, Hash!Enters, Hash!TwoFree
<1>2. Hash!Live /\ Hash!Live' /\ haAnswer' = "added"
  BY DEF Hash!AddEnters, Hash!Enters, Hash!Live
<1>3. /\ node \in Object /\ str \in Object /\ haHeap[node] = None /\ haHeap[str] = None
      /\ haHeap \in [Object -> Key \cup {"node", None}] /\ None \notin Key
  BY <1>1 DEF Hash!Free, Hash!HashAssumption, HashInv, Hash!TypeOK
<1>4. haHeap'[str] = k /\ \A o \in Object \ {node, str} : haHeap'[o] = haHeap[o]
  BY <1>1, <1>3
<1> DEFINE new == [key |-> str, data |-> v]
<1>5. new.key = str /\ new.data = v /\ haTab' = haTab \cup {new}
  BY <1>1
<1> HIDE DEF new
<1>6. new \in Hash!FIND(k)'
  BY <1>3, <1>4, <1>5 DEF Hash!FIND
<1>7. \A e \in haTab : e.key \in Object \ {node, str} /\ haHeap'[e.key] = haHeap[e.key]
  BY <1>3, <1>4 DEF HashInv, OneEach
<1>8. ASSUME NEW j \in Key \ {k} PROVE Hash!FIND(j)' = Hash!FIND(j)
  BY <1>4, <1>5, <1>7 DEF Hash!FIND
<1>9. Hash!Mapped' = [Hash!Mapped EXCEPT ![k] = v]
  BY <1>5, <1>6, <1>8, OneChanged
<1>10. QED
  BY <1>2, <1>9 DEF Hash!Abstract!Add

\* ... a new table is an empty map, no table no map, ...
LEMMA LifeRefines ==
  ASSUME Hash!HashAssumption, HashInv, HashInv', (\E n \in Sizes : Hash!sky_hash_create(n))
         \/ Hash!sky_hash_destroy
  PROVE  Hash!Abstract!Create \/ Hash!Abstract!Destroy
<1>1. ASSUME NEW n \in Sizes, Hash!sky_hash_create(n) PROVE Hash!Abstract!Create
  <2>1. ~Hash!Live /\ Hash!Live' /\ haAnswer' = None /\ UNCHANGED <<haTab, haHeap>>
    BY <1>1 DEF Hash!sky_hash_create, Hash!Live, Hash!HashAssumption
  <2>2. QED
    BY <2>1, SameMap DEF Hash!Abstract!Create
<1>2. ASSUME Hash!sky_hash_destroy PROVE Hash!Abstract!Destroy
  <2>1. Hash!Live /\ ~Hash!Live' /\ haAnswer' = None /\ haTab' = {}
    BY <1>2 DEF Hash!sky_hash_destroy, Hash!Live
  <2>2. \A k \in Key : Hash!DataOf(k)' = None
    BY <2>1 DEF Hash!DataOf, Hash!FIND
  <2>3. QED
    BY <2>1, <2>2 DEF Hash!Abstract!Destroy, Hash!Abstract!Empty, Hash!Mapped
<1>3. QED
  BY <1>1, <1>2

\* ... and a find answers what the map has.
LEMMA LookRefines ==
  ASSUME Hash!HashAssumption, HashInv, HashInv', NEW k \in Key,
         \/ Hash!sky_hash_find(k)
         \/ Hash!AddWithoutNode(k) \/ Hash!AddWithoutString(k) \/ Hash!AddToFull(k)
  PROVE  Hash!Abstract!Find(k) \/ Hash!Abstract!Refuse(k)
<1>1. /\ Hash!Live /\ Hash!Live' /\ UNCHANGED <<haTab, haHeap>>
  BY DEF Hash!sky_hash_find, Hash!AddWithoutNode, Hash!AddWithoutString, Hash!AddToFull,
         Hash!Refuses, Hash!Live
<1>2. Hash!Mapped' = Hash!Mapped /\ Hash!Mapped[k] = Hash!DataOf(k)
  BY <1>1, SameMap DEF Hash!Mapped
<1>3. CASE Hash!sky_hash_find(k)
  <2>1. haAnswer' = Hash!DataOf(k)
    <3>1. CASE Hash!FIND(k) = {}
      BY <1>3, <3>1 DEF Hash!sky_hash_find, Hash!DataOf
    <3>2. CASE Hash!FIND(k) # {}
      BY <1>3, <3>2, DataIs DEF Hash!sky_hash_find
    <3>3. QED
      BY <3>1, <3>2
  <2>2. QED
    BY <1>1, <1>2, <2>1 DEF Hash!Abstract!Find
<1>4. CASE Hash!AddWithoutNode(k) \/ Hash!AddWithoutString(k) \/ Hash!AddToFull(k)
  <2>1. Hash!FIND(k) = {} /\ haAnswer' = "refused"
    BY <1>4 DEF Hash!AddWithoutNode, Hash!AddWithoutString, Hash!AddToFull, Hash!Refuses
  <2>2. Hash!DataOf(k) = None
    BY <2>1 DEF Hash!DataOf
  <2>3. QED
    BY <1>1, <1>2, <2>1, <2>2 DEF Hash!Abstract!Refuse
<1>5. QED
  BY <1>3, <1>4

\* A step of the table is a step of the map.
LEMMA HashNextRefines ==
  ASSUME Hash!HashAssumption
  PROVE HashInv /\ HashInv'
           /\ [Hash!Next]_(Hash!vars) => [Hash!Abstract!Next]_(Hash!Abstract!vars)
<1> SUFFICES ASSUME HashInv, HashInv',
                [Hash!Next]_(Hash!vars) PROVE [Hash!Abstract!Next]_(Hash!Abstract!vars)
  OBVIOUS
<1>1. CASE UNCHANGED Hash!vars
  <2>1. UNCHANGED <<haTab, haHeap, haSize, haAnswer>>
    BY <1>1 DEF Hash!vars
  <2>2. QED
    BY <2>1, SameMap DEF Hash!Abstract!vars, Hash!Live
<1>2. ASSUME NEW k \in Key, NEW v \in Value, Hash!sky_hash_add(k, v) PROVE Hash!Abstract!Next
  BY <1>2, UpdateRefines, EnterRefines, LookRefines DEF Hash!sky_hash_add, Hash!Abstract!Next
<1>3. ASSUME NEW k \in Key, Hash!sky_hash_find(k) PROVE Hash!Abstract!Next
  BY <1>3, LookRefines DEF Hash!Abstract!Next
<1>4. ASSUME (\E n \in Sizes : Hash!sky_hash_create(n)) \/ Hash!sky_hash_destroy
      PROVE Hash!Abstract!Next
  BY <1>4, LifeRefines DEF Hash!Abstract!Next
<1>5. QED
  BY <1>1, <1>2, <1>3, <1>4 DEF Hash!Next
----------------------------------------------------------------------------
(* base64 *)

Six == 0..63

\* The sixes of three octets, and what is left of them, are numbers of six bits.
LEMMA SixesOf ==
  ASSUME NEW a \in Byte, NEW b \in Byte, NEW c \in Byte
  PROVE  /\ (a \div 4) \in Six /\ (a % 4) \in 0..3 /\ a = 4 * (a \div 4) + (a % 4)
         /\ (b \div 16) \in 0..15 /\ (b % 16) \in 0..15 /\ b = 16 * (b \div 16) + (b % 16)
         /\ (c \div 64) \in 0..3 /\ (c % 64) \in Six /\ c = 64 * (c \div 64) + (c % 64)
<1>1. (a \div 4) \in Six /\ (a % 4) \in 0..3 /\ a = 4 * (a \div 4) + (a % 4)
  BY SMT DEF Byte, Six
<1>2. (b \div 16) \in 0..15 /\ (b % 16) \in 0..15 /\ b = 16 * (b \div 16) + (b % 16)
  BY SMT DEF Byte
<1>3. (c \div 64) \in 0..3 /\ (c % 64) \in Six /\ c = 64 * (c \div 64) + (c % 64)
  BY SMT DEF Byte, Six
<1> QED BY <1>1, <1>2, <1>3

\* The weights of the characters of a four.
LEMMA Powers == 64 * 64 = 4096 /\ 64 * 64 * 64 = 262144
  BY SMT

\* A number and what is added below its lowest place come apart again.
LEMMA Quarter ==
  ASSUME NEW q \in Int, NEW r \in Int, 0 <= r, r < 64
  PROVE  ((64 * q + r) \div 64) = q /\ ((64 * q + r) % 64) = r
  BY SMT

\* So with octets, ...
LEMMA Page ==
  ASSUME NEW q \in Int, NEW r \in Int, 0 <= r, r < 256
  PROVE  ((256 * q + r) \div 256) = q /\ ((256 * q + r) % 256) = r
  BY SMT

\* ... two characters, ...
LEMMA Square ==
  ASSUME NEW q \in Int, NEW r \in Int, 0 <= r, r < 4096
  PROVE  ((4096 * q + r) \div 4096) = q
  BY SMT

\* ... two octets, ...
LEMMA Wide ==
  ASSUME NEW q \in Int, NEW r \in Int, 0 <= r, r < 65536
  PROVE  ((65536 * q + r) \div 65536) = q
  BY SMT

\* ... and three characters.
LEMMA Cube ==
  ASSUME NEW q \in Int, NEW r \in Int, 0 <= r, r < 262144
  PROVE  ((262144 * q + r) \div 262144) = q
  BY SMT

\* Three octets are four sixes.
LEMMA EncodeTriple ==
  ASSUME NEW a \in Byte, NEW b \in Byte, NEW c \in Byte, NEW t, t = a * 65536 + b * 256 + c
  PROVE  /\ (t \div (64 * 64 * 64)) = (a \div 4)
         /\ ((t \div (64 * 64)) % 64) = (a % 4) * 16 + (b \div 16)
         /\ ((t \div 64) % 64) = (b % 16) * 4 + (c \div 64)
         /\ (t % 64) = (c % 64)
<1> DEFINE a1 == (a \div 4)  a2 == (a % 4)  b1 == (b \div 16)  b2 == (b % 16)
           c1 == (c \div 64)  c2 == (c % 64)
<1>1. /\ a1 \in 0..63 /\ a2 \in 0..3 /\ a = 4 * a1 + a2
      /\ b1 \in 0..15 /\ b2 \in 0..15 /\ b = 16 * b1 + b2
      /\ c1 \in 0..3 /\ c2 \in 0..63 /\ c = 64 * c1 + c2
  BY SixesOf DEF Six
<1> HIDE DEF a1, a2, b1, b2, c1, c2
<1> DEFINE s2 == a2 * 16 + b1  s3 == b2 * 4 + c1
<1>2. s2 \in 0..63 /\ s3 \in 0..63
  BY <1>1, SMT
<1> DEFINE r3 == 64 * s3 + c2  r2 == 4096 * s2 + r3  q2 == 64 * a1 + s2  q3 == 64 * q2 + s3
<1>3. t = 262144 * a1 + r2 /\ t = 4096 * q2 + r3 /\ t = 64 * q3 + c2
  BY <1>1, SMT
<1>4. /\ r3 \in Int /\ 0 <= r3 /\ r3 < 4096 /\ r2 \in Int /\ 0 <= r2 /\ r2 < 262144
      /\ q2 \in Int /\ q3 \in Int /\ a1 \in Int
      /\ s2 \in Int /\ 0 <= s2 /\ s2 < 64 /\ s3 \in Int /\ 0 <= s3 /\ s3 < 64
      /\ c2 \in Int /\ 0 <= c2 /\ c2 < 64
  BY <1>1, <1>2, SMT
<1>5. q2 = 64 * a1 + s2 /\ q3 = 64 * q2 + s3
  OBVIOUS
<1> HIDE DEF s2, s3, r2, r3, q2, q3
<1>6. (t \div 262144) = a1
  BY <1>3, <1>4, Cube
<1>7. (t \div 4096) = q2 /\ (q2 % 64) = s2
  <2>1. (t \div 4096) = q2
    BY <1>3, <1>4, Square
  <2> QED BY <2>1, <1>4, <1>5, Quarter
<1>8. (t \div 64) = q3 /\ (q3 % 64) = s3 /\ (t % 64) = c2
  <2>1. (t \div 64) = q3 /\ (t % 64) = c2
    BY <1>3, <1>4, Quarter
  <2> QED BY <2>1, <1>4, <1>5, Quarter
<1> QED BY <1>6, <1>7, <1>8, Powers DEF a1, a2, b1, b2, c1, c2, s2, s3

\* Four sixes are three octets.
LEMMA DecodeTriple ==
  ASSUME NEW a \in Byte, NEW b \in Byte, NEW c \in Byte, NEW t,
         t = (a \div 4) * (64 * 64 * 64) + ((a % 4) * 16 + (b \div 16)) * (64 * 64)
               + ((b % 16) * 4 + (c \div 64)) * 64 + (c % 64)
  PROVE  /\ ((t \div 65536) % 256) = a
         /\ ((t \div 256) % 256) = b
         /\ (t % 256) = c
<1> DEFINE a1 == (a \div 4)  a2 == (a % 4)  b1 == (b \div 16)  b2 == (b % 16)
           c1 == (c \div 64)  c2 == (c % 64)
<1>1. /\ a1 \in 0..63 /\ a2 \in 0..3 /\ a = 4 * a1 + a2
      /\ b1 \in 0..15 /\ b2 \in 0..15 /\ b = 16 * b1 + b2
      /\ c1 \in 0..3 /\ c2 \in 0..63 /\ c = 64 * c1 + c2
  BY SixesOf DEF Six
<1>2. t = a1 * (64 * 64 * 64) + (a2 * 16 + b1) * (64 * 64) + (b2 * 4 + c1) * 64 + c2
  OBVIOUS
<1> HIDE DEF a1, a2, b1, b2, c1, c2
<1> DEFINE r == 256 * b + c  q == 256 * a + b
<1>3. /\ a \in Int /\ 0 <= a /\ a < 256 /\ b \in Int /\ 0 <= b /\ b < 256
      /\ c \in Int /\ 0 <= c /\ c < 256 /\ r \in Int /\ 0 <= r /\ r < 65536 /\ q \in Int
  BY SMT DEF Byte
<1>4. t = 65536 * a + r /\ t = 256 * q + c
  BY <1>1, <1>2, SMT
<1>5. q = 256 * a + b /\ a = 256 * 0 + a
  BY <1>3, SMT
<1> HIDE DEF q, r
<1>6. (t \div 65536) = a /\ (a % 256) = a
  <2>1. (t \div 65536) = a
    BY <1>3, <1>4, Wide
  <2> QED BY <2>1, <1>3, <1>5, SMT
<1>7. (t \div 256) = q /\ (t % 256) = c
  BY <1>3, <1>4, Page
<1>8. (q % 256) = b
  BY <1>3, <1>5, Page
<1> QED BY <1>6, <1>7, <1>8

\* An octet's bits.
LEMMA Halves ==
  ASSUME NEW a \in Byte
  PROVE  /\ (a \div 64) = 2 * (a \div 128) + ((a \div 64) % 2) /\ (a \div 128) \in 0..1
         /\ (a \div 32) = 2 * (a \div 64) + ((a \div 32) % 2)
         /\ (a \div 16) = 2 * (a \div 32) + ((a \div 16) % 2)
         /\ (a \div 8) = 2 * (a \div 16) + ((a \div 8) % 2)
         /\ (a \div 4) = 2 * (a \div 8) + ((a \div 4) % 2)
         /\ (a \div 2) = 2 * (a \div 4) + ((a \div 2) % 2)
         /\ (a \div 1) = 2 * (a \div 2) + ((a \div 1) % 2)
<1>1. (a \div 64) = 2 * (a \div 128) + ((a \div 64) % 2) /\ (a \div 128) \in 0..1
  BY SMT DEF Byte
<1>2. (a \div 32) = 2 * (a \div 64) + ((a \div 32) % 2)
  BY SMT DEF Byte
<1>3. (a \div 16) = 2 * (a \div 32) + ((a \div 16) % 2)
  BY SMT DEF Byte
<1>4. (a \div 8) = 2 * (a \div 16) + ((a \div 8) % 2)
  BY SMT DEF Byte
<1>5. (a \div 4) = 2 * (a \div 8) + ((a \div 4) % 2)
  BY SMT DEF Byte
<1>6. (a \div 2) = 2 * (a \div 4) + ((a \div 2) % 2)
  BY SMT DEF Byte
<1>7. (a \div 1) = 2 * (a \div 2) + ((a \div 1) % 2)
  BY SMT DEF Byte
<1> QED BY <1>1, <1>2, <1>3, <1>4, <1>5, <1>6, <1>7

\* A number below the modulus is its own remainder, ...
LEMMA Small == ASSUME NEW m \in Nat \ {0}, NEW a \in Int, 0 <= a, a < m PROVE (a % m) = a
  BY SMT

\* ... and every remainder is a natural number.
LEMMA Remainder == ASSUME NEW m \in Nat \ {0}, NEW a \in Int PROVE (a % m) \in Nat
  BY SMT

\* The characters of a text, with the pad and the 0 of fresh memory.
Character == 0..65

\* The fours of characters that the octets are.
Fours == ((Len(baData) + 2) \div 3)

\* The four of three octets, the octets that are not there being 0.
FourOf(a, b, c) == <<(a \div 4), (a % 4) * 16 + (b \div 16), (b % 16) * 4 + (c \div 64),
   (c % 64)>>
Four(h) == FourOf(Base64!octet(3 * (h - 1) + 1), Base64!octet(3 * (h - 1) + 2),
                  Base64!octet(3 * (h - 1) + 3))

\* A character with no bit of an octet.
Beyond(k) == 6 * (k - 1) >= 8 * Len(baData)

\* The fours of the octets read are in the text, ...
Encoding ==
    /\ baLength = 4 * Fours /\ baI <= Len(baData) /\ ((baI % 3) = 0 \/ baI = Len(baData))
    /\ \A h \in 1..Fours : 3 * (h - 1) < baI =>
          \A r \in 1..4 : baEncoded[4 * (h - 1) + r] = Four(h)[r]

\* ... in the end all of them, with pads for the characters beyond the octets.
Encoded64 ==
    \A h \in 1..Fours : \A r \in 1..4 :
       baEncoded[4 * (h - 1) + r] = IF Beyond(4 * (h - 1) + r) THEN 64 ELSE Four(h)[r]

\* The octets of the characters read are decoded, as far as there are any.
Decoding ==
    /\ baDecoded \in Seq(Byte) /\ Len(baDecoded) <= baLength
    /\ baData # <<>> =>
          /\ baLength = Len(baData) /\ (baI % 4) = 0
          /\ Len(baDecoded) = Len(baData) \/ 4 * Len(baDecoded) = 3 * baI
          /\ baReady => \A k \in 1..Len(baDecoded) : baDecoded[k] = baData[k]

BaseInv ==
    /\ baReady \in BOOLEAN /\ baPc \in {"start", "encode", "encoded", "decode", "decoded"}
    /\ baData \in Seq(Byte) /\ Len(baData) <= MaxLength
    /\ baI \in Nat /\ baLength \in Nat
    /\ baPc \in {"start", "encode", "encoded"} => baDecoded = <<>>
    /\ baPc # "start" => baEncoded \in [1..(4 * Fours) -> Character]
    /\ baPc = "start" => baEncoded = <<>>
    /\ baPc = "encode" => Encoding
    /\ baPc \in {"encoded", "decode", "decoded"} => Encoded64
    /\ baPc \in {"decode", "decoded"} => Decoding
    /\ baPc = "decoded" => baI >= 4 * Fours

\* As many threes as hold the octets.
LEMMA FoursIs ==
  ASSUME BaseInv
  PROVE  /\ Len(baData) \in Nat /\ Fours \in Nat
         /\ Len(baData) <= 3 * Fours /\ 3 * Fours <= Len(baData) + 2
<1>1. Len(baData) \in Nat
  BY LenProperties DEF BaseInv
<1>2. \A n \in Nat : ((n + 2) \div 3) \in Nat /\ n <= 3 * ((n + 2) \div 3)
         /\ 3 * ((n + 2) \div 3) <= n + 2
  BY SMT
<1> QED BY <1>1, <1>2 DEF Fours

\* An octet is one, and 0 behind the last.
LEMMA OctetIs ==
  ASSUME BaseInv, NEW k \in Nat \ {0}
  PROVE  Base64!octet(k) \in Byte /\ (k > Len(baData) => Base64!octet(k) = 0)
<1>1. Len(baData) \in Nat /\ baData \in Seq(Byte) /\ 0 \in Byte
  BY FoursIs DEF BaseInv, Byte
<1>2. CASE k <= Len(baData)
  <2>1. k \in 1..Len(baData)
    BY <1>1, <1>2
  <2>2. baData[k] \in Byte
    BY <1>1, <2>1, ElementOfSeq
  <2> QED BY <1>1, <1>2, <2>2 DEF Base64!octet
<1>3. CASE ~(k <= Len(baData))
  BY <1>1, <1>3 DEF Base64!octet
<1> QED BY <1>2, <1>3

\* A four is four characters of the table, ...
LEMMA FourIs ==
  ASSUME NEW a \in Byte, NEW b \in Byte, NEW c \in Byte
  PROVE  \A r \in 1..4 : FourOf(a, b, c)[r] \in Six
<1>1. /\ (a \div 4) \in Six /\ (a % 4) \in 0..3 /\ (b \div 16) \in 0..15 /\ (b % 16) \in 0..15
      /\ (c \div 64) \in 0..3 /\ (c % 64) \in Six
  BY SixesOf
<1>2. (a % 4) * 16 + (b \div 16) \in Six /\ (b % 16) * 4 + (c \div 64) \in Six
  BY <1>1, SMT DEF Six
<1>3. \A r \in 1..4 : r = 1 \/ r = 2 \/ r = 3 \/ r = 4
  OBVIOUS
<1> QED BY <1>1, <1>2, <1>3 DEF FourOf

\* ... whichever octets of the data it is made of.
LEMMA ThreeOf ==
  ASSUME BaseInv, NEW h \in Nat \ {0}
  PROVE  /\ Base64!octet(3 * (h - 1) + 1) \in Byte /\ Base64!octet(3 * (h - 1) + 2) \in Byte
         /\ Base64!octet(3 * (h - 1) + 3) \in Byte
         /\ \A r \in 1..4 : Four(h)[r] \in Six
<1>1. /\ 3 * (h - 1) + 1 \in Nat \ {0} /\ 3 * (h - 1) + 2 \in Nat \ {0}
      /\ 3 * (h - 1) + 3 \in Nat \ {0}
  OBVIOUS
<1>2. /\ Base64!octet(3 * (h - 1) + 1) \in Byte /\ Base64!octet(3 * (h - 1) + 2) \in Byte
      /\ Base64!octet(3 * (h - 1) + 3) \in Byte
  BY <1>1, OctetIs
<1> QED BY <1>2, FourIs DEF Four

\* Every character is of one four.
LEMMA PlaceOf ==
  ASSUME NEW n \in Nat, NEW k \in 1..(4 * n)
  PROVE  \E h \in 1..n : \E r \in 1..4 : k = 4 * (h - 1) + r
<1> DEFINE h == ((k - 1) \div 4) + 1
           r == ((k - 1) % 4) + 1
<1>1. h \in 1..n /\ r \in 1..4 /\ k = 4 * (h - 1) + r
  BY SMT
<1> HIDE DEF h, r
<1> QED BY <1>1

\* And every character of a four is one of the text.
LEMMA PlaceIn ==
  ASSUME NEW n \in Nat, NEW h \in 1..n, NEW r \in 1..4
  PROVE  4 * (h - 1) + r \in 1..(4 * n)
OBVIOUS

\* At first there is no text.
LEMMA BaseInit == Base64!Base64Assumption /\ Base64!Init => BaseInv
<1> SUFFICES ASSUME Base64!Base64Assumption, Base64!Init PROVE BaseInv
  OBVIOUS
<1>1. <<>> \in Seq(Byte) /\ Len(<<>>) = 0 /\ 0 <= MaxLength
  BY DEF Base64!Base64Assumption
<1> QED BY <1>1 DEF Base64!Init, BaseInv

\* A call of encode has read nothing and written nothing, ...
LEMMA EncodeStart ==
  ASSUME Base64!Base64Assumption, BaseInv, Base64!sky_base64_encode PROVE BaseInv'
<1>1. PICK n \in 0..MaxLength : baData' \in [1..n -> Octet]
  BY DEF Base64!sky_base64_encode
<1>2. /\ baPc = "start" /\ baPc' = "encode" /\ baI' = 0
      /\ baLength' = 4 * ((Len(baData') + 2) \div 3)
      /\ baEncoded' = [k \in 1..baLength' |-> 65]
      /\ UNCHANGED <<baReady, baDecoded>>
  BY DEF Base64!sky_base64_encode, Base64!Nul
<1>3. baData' \in Seq(Byte) /\ Len(baData') = n /\ n \in Nat /\ n <= MaxLength
  <2>1. n \in Nat /\ n <= MaxLength /\ Octet \subseteq Byte
    BY DEF Base64!Base64Assumption, Byte
  <2> QED BY <1>1, <2>1, FunctionIsSeq
<1>4. baLength' = 4 * Fours' /\ Fours' \in Nat /\ baLength' \in Nat
  <2>1. ((n + 2) \div 3) \in Nat
    BY <1>3, SMT
  <2>2. Fours' = ((n + 2) \div 3) /\ baLength' = 4 * ((n + 2) \div 3)
    BY <1>2, <1>3 DEF Fours
  <2> QED BY <2>1, <2>2
<1>5. baEncoded' \in [1..(4 * Fours') -> Character]
  <2>1. baEncoded' = [k \in 1..(4 * Fours') |-> 65]
    BY <1>2, <1>4
  <2>2. 65 \in Character
    BY DEF Character
  <2> QED BY <2>1, <2>2
<1>6. Encoding'
  <2>1. \A h \in 1..Fours' : ~(3 * (h - 1) < 0)
    BY <1>4
  <2>2. (0 % 3) = 0
    BY SMT
  <2>3. baI' <= Len(baData')
    BY <1>2, <1>3
  <2> QED BY <1>2, <1>4, <2>1, <2>2, <2>3 DEF Encoding
<1> QED BY <1>2, <1>3, <1>4, <1>5, <1>6 DEF BaseInv

\* ... a round of its loop writes the next four, ...
LEMMA EncodeStep == ASSUME Base64!Base64Assumption, BaseInv, Base64!EncodeOctets PROVE BaseInv'
<1> DEFINE q == (baI \div 3)
<1>1. /\ baPc = "encode" /\ baI < Len(baData)
      /\ UNCHANGED <<baReady, baPc, baData, baDecoded, baLength>>
      /\ baI' = IF baI + 3 < Len(baData) THEN baI + 3 ELSE Len(baData)
      /\ baEncoded' = Base64!Encoded(Base64!octet(baI + 1) * 65536 + Base64!octet(baI + 2) * 256
                                       + Base64!octet(baI + 3))
  BY DEF Base64!EncodeOctets, Base64!Smaller
<1>2. /\ Len(baData) \in Nat /\ Fours \in Nat /\ Len(baData) <= 3 * Fours
      /\ baI \in Nat /\ (baI % 3) = 0 /\ baDecoded = <<>> /\ baLength = 4 * Fours
      /\ baEncoded \in [1..(4 * Fours) -> Character]
  BY <1>1, FoursIs DEF BaseInv, Encoding
<1>3. q \in Nat /\ baI = 3 * q
  BY <1>2, SMT
<1> HIDE DEF q
<1>4. q + 1 \in 1..Fours
  BY <1>1, <1>2, <1>3
<1> DEFINE a == Base64!octet(3 * q + 1)  b == Base64!octet(3 * q + 2)
           c == Base64!octet(3 * q + 3)
           t == a * 65536 + b * 256 + c
           f == FourOf(a, b, c)
<1>5. Four(q + 1) = f
  <2>1. (q + 1) - 1 = q
    BY <1>3
  <2> QED BY <2>1 DEF Four
<1>6. a \in Byte /\ b \in Byte /\ c \in Byte
  <2>1. 3 * q + 1 \in Nat \ {0} /\ 3 * q + 2 \in Nat \ {0} /\ 3 * q + 3 \in Nat \ {0}
    BY <1>3
  <2> QED BY <2>1, OctetIs
<1>7. baEncoded' = [baEncoded EXCEPT ![4 * q + 1] = (t \div (64 * 64 * 64)),
                                     ![4 * q + 2] = ((t \div (64 * 64)) % 64),
                                     ![4 * q + 3] = ((t \div 64) % 64),
                                     ![4 * q + 4] = (t % 64)]
  <2>1. t = Base64!octet(baI + 1) * 65536 + Base64!octet(baI + 2) * 256 + Base64!octet(baI + 3)
    BY <1>3
  <2>2. 4 * (baI \div 3) = 4 * q
    BY DEF q
  <2> HIDE DEF t
  <2>3. baEncoded' = Base64!Encoded(t)
    BY <1>1, <2>1
  <2> QED BY <2>2, <2>3 DEF Base64!Encoded
<1> HIDE DEF a, b, c
<1>8. /\ (t \div (64 * 64 * 64)) = f[1] /\ ((t \div (64 * 64)) % 64) = f[2]
      /\ ((t \div 64) % 64) = f[3] /\ (t % 64) = f[4]
  BY <1>6, EncodeTriple DEF FourOf
<1>9. \A r \in 1..4 : f[r] \in Character
  <2>1. Six \subseteq Character
    BY DEF Six, Character
  <2> QED BY <1>6, <2>1, FourIs
<1> HIDE DEF t, f
<1>10. /\ baEncoded' \in [1..(4 * Fours) -> Character]
       /\ \A r \in 1..4 : baEncoded'[4 * q + r] = f[r]
       /\ \A k \in 1..(4 * Fours) : k <= 4 * q => baEncoded'[k] = baEncoded[k]
  <2>1. /\ 4 * q + 1 \in 1..(4 * Fours) /\ 4 * q + 2 \in 1..(4 * Fours)
        /\ 4 * q + 3 \in 1..(4 * Fours) /\ 4 * q + 4 \in 1..(4 * Fours)
    BY <1>2, <1>3, <1>4
  <2>2. baEncoded' = [baEncoded EXCEPT ![4 * q + 1] = f[1], ![4 * q + 2] = f[2],
                                       ![4 * q + 3] = f[3], ![4 * q + 4] = f[4]]
    BY <1>7, <1>8
  <2>3. f[1] \in Character /\ f[2] \in Character /\ f[3] \in Character /\ f[4] \in Character
    BY <1>9
  <2>4. baEncoded' \in [1..(4 * Fours) -> Character]
    BY <1>2, <2>2, <2>3
  <2>5. \A k \in 1..(4 * Fours) : k <= 4 * q => baEncoded'[k] = baEncoded[k]
    BY <1>2, <1>3, <2>2
  <2>6. /\ baEncoded'[4 * q + 1] = f[1] /\ baEncoded'[4 * q + 2] = f[2]
        /\ baEncoded'[4 * q + 3] = f[3] /\ baEncoded'[4 * q + 4] = f[4]
    BY <1>2, <1>3, <2>1, <2>2
  <2>7. \A r \in 1..4 : r = 1 \/ r = 2 \/ r = 3 \/ r = 4
    OBVIOUS
  <2> QED BY <2>4, <2>5, <2>6, <2>7
<1>11. Fours' = Fours /\ \A h : Four(h)' = Four(h)
  BY <1>1 DEF Fours, Four, Base64!octet
<1>12. ASSUME NEW h \in 1..Fours, 3 * (h - 1) < baI', NEW r \in 1..4
       PROVE  baEncoded'[4 * (h - 1) + r] = Four(h)[r]
  <2>1. CASE h - 1 < q
    <3>1. 3 * (h - 1) < baI /\ 4 * (h - 1) + r <= 4 * q /\ 4 * (h - 1) + r \in 1..(4 * Fours)
      BY <1>2, <1>3, <2>1
    <3>2. baEncoded[4 * (h - 1) + r] = Four(h)[r]
      BY <1>1, <3>1 DEF BaseInv, Encoding
    <3> QED BY <1>10, <3>1, <3>2
  <2>2. CASE ~(h - 1 < q)
    <3>1. 3 * (h - 1) < 3 * q + 3
      BY <1>1, <1>2, <1>3, <1>12
    <3>2. h = q + 1 /\ 4 * (h - 1) + r = 4 * q + r
      BY <1>2, <1>3, <2>2, <3>1
    <3> QED BY <1>5, <1>10, <3>2
  <2> QED BY <2>1, <2>2
<1>13. baI' \in Nat /\ baI' <= Len(baData) /\ ((baI' % 3) = 0 \/ baI' = Len(baData))
  <2>1. baI + 3 < Len(baData) => ((baI + 3) % 3) = 0
    BY <1>2, SMT
  <2>2. CASE baI + 3 < Len(baData)
    BY <1>1, <1>2, <2>1, <2>2
  <2>3. CASE ~(baI + 3 < Len(baData))
    BY <1>1, <1>2, <2>3
  <2> QED BY <2>2, <2>3
<1>14. Encoding'
  <2>1. /\ baLength' = 4 * Fours' /\ baI' <= Len(baData')
        /\ ((baI' % 3) = 0 \/ baI' = Len(baData'))
    <3>1. baLength' = baLength /\ baData' = baData
      BY <1>1
    <3> QED BY <1>2, <1>11, <1>13, <3>1
  <2>2. \A h \in 1..Fours' : 3 * (h - 1) < baI' =>
           \A r \in 1..4 : baEncoded'[4 * (h - 1) + r] = Four(h)'[r]
    BY <1>11, <1>12
  <2> QED BY <2>1, <2>2 DEF Encoding
<1> QED BY <1>1, <1>2, <1>10, <1>11, <1>13, <1>14 DEF BaseInv

\* The characters that encode overwrites are those with no bit.
LEMMA PadsAreBeyond ==
  ASSUME BaseInv, NEW k \in 1..(4 * Fours)
  PROVE  k > 4 * Fours - Base64!base64_mod_table(Len(baData)) <=> Beyond(k)
<1> DEFINE n == Len(baData)
<1>1. n \in Nat /\ Fours \in Nat /\ Fours = ((n + 2) \div 3)
  BY FoursIs DEF Fours
<1>2. (n % 3) \in 0..2 /\ n = 3 * (n \div 3) + (n % 3) /\ (n \div 3) \in Nat
  BY <1>1, SMT
<1> DEFINE m == (n \div 3)
<1> HIDE DEF m, n
<1>3. CASE (n % 3) = 0
  <2>1. n = 3 * m /\ m \in Nat /\ Fours = m
    <3>1. n = 3 * m /\ m \in Nat
      BY <1>2, <1>3 DEF m
    <3>2. \A j \in Nat : ((3 * j + 2) \div 3) = j
      BY SMT
    <3> QED BY <1>1, <3>1, <3>2
  <2>2. Base64!base64_mod_table(n) = 0
    BY <1>3 DEF Base64!base64_mod_table
  <2> QED BY <2>1, <2>2 DEF Beyond, n
<1>4. CASE (n % 3) = 1
  <2>1. n = 3 * m + 1 /\ m \in Nat /\ Fours = m + 1
    <3>1. n = 3 * m + 1 /\ m \in Nat
      BY <1>2, <1>4 DEF m
    <3>2. \A j \in Nat : ((3 * j + 1 + 2) \div 3) = j + 1
      BY SMT
    <3> QED BY <1>1, <3>1, <3>2
  <2>2. Base64!base64_mod_table(n) = 2
    BY <1>4 DEF Base64!base64_mod_table
  <2> QED BY <2>1, <2>2 DEF Beyond, n
<1>5. CASE (n % 3) = 2
  <2>1. n = 3 * m + 2 /\ m \in Nat /\ Fours = m + 1
    <3>1. n = 3 * m + 2 /\ m \in Nat
      BY <1>2, <1>5 DEF m
    <3>2. \A j \in Nat : ((3 * j + 2 + 2) \div 3) = j + 1
      BY SMT
    <3> QED BY <1>1, <3>1, <3>2
  <2>2. Base64!base64_mod_table(n) = 1
    BY <1>5 DEF Base64!base64_mod_table
  <2> QED BY <2>1, <2>2 DEF Beyond, n
<1> QED BY <1>2, <1>3, <1>4, <1>5

\* ... and the pads go where no octet is.
LEMMA EncodeEnd == ASSUME Base64!Base64Assumption, BaseInv, Base64!EncodePads PROVE BaseInv'
<1>1. /\ baPc = "encode" /\ baI >= Len(baData) /\ baPc' = "encoded" /\ baI' = 0
      /\ baEncoded' = [k \in 1..baLength |->
             IF k > baLength - Base64!base64_mod_table(Len(baData)) THEN 64 ELSE baEncoded[k]]
      /\ UNCHANGED <<baReady, baData, baDecoded, baLength>>
  BY DEF Base64!EncodePads, Base64!Pad
<1>2. /\ Len(baData) \in Nat /\ Fours \in Nat /\ 3 * Fours <= Len(baData) + 2
      /\ baI \in Nat /\ baLength = 4 * Fours /\ baEncoded \in [1..(4 * Fours) -> Character]
      /\ baDecoded = <<>>
  BY <1>1, FoursIs DEF BaseInv, Encoding
<1>3. Fours' = Fours /\ (\A h : Four(h)' = Four(h)) /\ \A k : Beyond(k)' = Beyond(k)
  BY <1>1 DEF Fours, Four, Base64!octet, Beyond
<1>4. baEncoded' \in [1..(4 * Fours) -> Character]
  <2>1. 64 \in Character
    BY DEF Character
  <2> QED BY <1>1, <1>2, <2>1
<1>5. ASSUME NEW h \in 1..Fours, NEW r \in 1..4
      PROVE  baEncoded'[4 * (h - 1) + r]
               = IF Beyond(4 * (h - 1) + r) THEN 64 ELSE Four(h)[r]
  <2>1. 4 * (h - 1) + r \in 1..(4 * Fours)
    BY <1>2, PlaceIn
  <2>2. 3 * (h - 1) < baI
    BY <1>1, <1>2
  <2>3. baEncoded[4 * (h - 1) + r] = Four(h)[r]
    BY <1>1, <2>2 DEF BaseInv, Encoding
  <2> QED BY <1>1, <1>2, <2>1, <2>3, PadsAreBeyond
<1>6. Encoded64'
  BY <1>3, <1>5 DEF Encoded64
<1> QED BY <1>1, <1>2, <1>3, <1>4, <1>6 DEF BaseInv

\* The characters of the last four tell how many octets there are.
LEMMA PadsTell ==
  ASSUME BaseInv, Encoded64, baEncoded \in [1..(4 * Fours) -> Character], baData # <<>>,
         NEW pads \in Base64!Pads
  PROVE  3 * Fours - pads = Len(baData) /\ pads \in Nat
<1> DEFINE n == Len(baData)
<1>1. /\ n \in Nat /\ Fours \in Nat /\ n <= 3 * Fours /\ 3 * Fours <= n + 2 /\ n > 0
  BY FoursIs, EmptySeq DEF BaseInv
<1>2. Len(baEncoded) = 4 * Fours /\ baEncoded # <<>>
  <2>1. Len(baEncoded) = 4 * Fours
    BY <1>1, FunctionIsSeq
  <2> QED BY <1>1, <2>1
<1>3. Fours \in 1..Fours /\ Fours \in Nat \ {0}
  BY <1>1
<1>4. \A r \in 1..4 : Four(Fours)[r] # 64
  <2>1. \A v \in Six : v # 64
    BY DEF Six
  <2> QED BY <1>3, <2>1, ThreeOf
<1>5. \A r \in 1..4 : baEncoded[4 * (Fours - 1) + r] = 64 <=> Beyond(4 * (Fours - 1) + r)
  <2> TAKE r \in 1..4
  <2>1. baEncoded[4 * (Fours - 1) + r]
           = IF Beyond(4 * (Fours - 1) + r) THEN 64 ELSE Four(Fours)[r]
    BY <1>3 DEF Encoded64
  <2>2. CASE Beyond(4 * (Fours - 1) + r)
    BY <2>1, <2>2
  <2>3. CASE ~Beyond(4 * (Fours - 1) + r)
    BY <1>4, <2>1, <2>3
  <2> QED BY <2>2, <2>3
<1>6. 4 * (Fours - 1) + 4 = 4 * Fours /\ 4 * (Fours - 1) + 3 = 4 * Fours - 1
  BY <1>1
<1>7. /\ baEncoded[4 * Fours] = 64 <=> Beyond(4 * Fours)
      /\ baEncoded[4 * Fours - 1] = 64 <=> Beyond(4 * Fours - 1)
  <2>1. 3 \in 1..4 /\ 4 \in 1..4
    OBVIOUS
  <2> QED BY <1>5, <1>6, <2>1
<1>8. pads = (IF Beyond(4 * Fours) THEN 1 ELSE 0) + (IF Beyond(4 * Fours - 1) THEN 1 ELSE 0)
  BY <1>2, <1>7 DEF Base64!Pads, Base64!Pad
<1> HIDE DEF n
<1>9. Len(baData) = n
  BY DEF n
<1>10. Beyond(4 * Fours) <=> n < 3 * Fours
  BY <1>1, <1>9 DEF Beyond
<1>11. Beyond(4 * Fours - 1) <=> n < 3 * Fours - 1
  BY <1>1, <1>9 DEF Beyond
<1>12. CASE n = 3 * Fours
  BY <1>1, <1>8, <1>9, <1>10, <1>11, <1>12
<1>13. CASE n = 3 * Fours - 1
  BY <1>1, <1>8, <1>9, <1>10, <1>11, <1>13
<1>14. CASE n = 3 * Fours - 2
  BY <1>1, <1>8, <1>9, <1>10, <1>11, <1>14
<1>15. n = 3 * Fours \/ n = 3 * Fours - 1 \/ n = 3 * Fours - 2
  BY <1>1
<1> QED BY <1>12, <1>13, <1>14, <1>15

\* decode reads the number of octets from the pads, ...
LEMMA DecodeStart ==
  ASSUME Base64!Base64Assumption, BaseInv, Base64!sky_base64_decode PROVE BaseInv'
<1>1. PICK pads \in Base64!Pads :
        baLength' = ((Len(baEncoded) \div 4) * 3 - pads) % TextModulus
  BY DEF Base64!sky_base64_decode
<1>2. /\ baPc = "encoded" /\ baPc' = "decode" /\ baI' = 0 /\ baDecoded' = <<>>
      /\ UNCHANGED <<baReady, baData, baEncoded>>
  BY DEF Base64!sky_base64_decode
<1>3. /\ Len(baData) \in Nat /\ Fours \in Nat /\ Encoded64
      /\ baEncoded \in [1..(4 * Fours) -> Character] /\ baData \in Seq(Byte)
      /\ Len(baData) <= MaxLength
  BY <1>2, FoursIs DEF BaseInv
<1>4. Len(baEncoded) = 4 * Fours /\ (Len(baEncoded) \div 4) = Fours
  <2>1. Len(baEncoded) = 4 * Fours
    BY <1>3, FunctionIsSeq
  <2>2. \A k \in Nat : ((4 * k) \div 4) = k
    BY SMT
  <2> QED BY <1>3, <2>1, <2>2
<1>5. TextModulus \in Nat \ {0}
  BY DEF Base64!Base64Assumption
<1>6. pads \in Nat
  BY DEF Base64!Pads
<1>7. baLength' \in Nat
  <2>1. Fours * 3 - pads \in Int
    BY <1>3, <1>6
  <2> QED BY <1>1, <1>4, <1>5, <2>1, Remainder
<1>8. baData # <<>> => baLength' = Len(baData)
  <2> SUFFICES ASSUME baData # <<>> PROVE baLength' = Len(baData)
    OBVIOUS
  <2>1. Fours * 3 - pads = Len(baData)
    BY <1>3, PadsTell
  <2>2. Len(baData) < TextModulus
    <3>1. MaxLength \in Nat /\ 4 * ((MaxLength + 2) \div 3) < TextModulus
      BY DEF Base64!Base64Assumption
    <3>2. MaxLength <= 4 * ((MaxLength + 2) \div 3)
      BY <3>1, SMT
    <3> QED BY <1>3, <1>5, <3>1, <3>2
  <2> QED BY <1>1, <1>3, <1>4, <1>5, <2>1, <2>2, Small
<1>9. Fours' = Fours /\ (\A h : Four(h)' = Four(h)) /\ \A k : Beyond(k)' = Beyond(k)
  BY <1>2 DEF Fours, Four, Base64!octet, Beyond
<1>10. Encoded64'
  BY <1>2, <1>3, <1>9 DEF Encoded64
<1>11. Decoding'
  <2>1. <<>> \in Seq(Byte) /\ Len(<<>>) = 0 /\ (0 % 4) = 0 /\ 4 * 0 = 3 * 0
    BY SMT
  <2>2. \A k \in 1..0 : FALSE
    OBVIOUS
  <2> QED BY <1>2, <1>7, <1>8, <2>1, <2>2 DEF Decoding
<1> QED BY <1>2, <1>3, <1>7, <1>9, <1>10, <1>11 DEF BaseInv

\* What a character stands for when it is decoded: a pad for nothing, and so do
\* the bits of a four beyond the octets.
LEMMA SextetIs ==
  ASSUME BaseInv, Encoded64, baReady, NEW h \in 1..Fours, NEW r \in 1..4
  PROVE  Base64!sextet(4 * (h - 1) + r) = Four(h)[r]
<1> DEFINE k == 4 * (h - 1) + r
<1>1. Len(baData) \in Nat /\ Fours \in Nat /\ h \in Nat \ {0}
  BY FoursIs
<1>2. /\ Base64!octet(3 * (h - 1) + 1) \in Byte /\ Base64!octet(3 * (h - 1) + 2) \in Byte
      /\ Base64!octet(3 * (h - 1) + 3) \in Byte
      /\ \A q \in 1..4 : Four(h)[q] \in Six
  BY <1>1, ThreeOf
<1>3. baEncoded[k] = IF Beyond(k) THEN 64 ELSE Four(h)[r]
  BY DEF Encoded64
<1>4. CASE ~Beyond(k)
  <2>1. \A v \in Six : v # 64 /\ v < 64
    BY DEF Six
  <2> QED BY <1>2, <1>3, <1>4, <2>1 DEF Base64!sextet, Base64!base64_decoding_table, Base64!Pad
<1>5. CASE Beyond(k)
  <2>1. Base64!sextet(k) = 0
    BY <1>3, <1>5 DEF Base64!sextet, Base64!Pad
  <2>2. 6 * (4 * (h - 1) + r - 1) >= 8 * Len(baData)
    BY <1>5 DEF Beyond
  <2>3. 3 * Fours <= Len(baData) + 2
    BY FoursIs
  <2>4. h = Fours /\ (r = 3 \/ r = 4) /\ 3 * (h - 1) + 3 > Len(baData)
    BY <1>1, <2>2, <2>3
  <2>5. r = 3 => 3 * (h - 1) + 2 > Len(baData)
    BY <1>1, <2>2
  <2>6. Base64!octet(3 * (h - 1) + 3) = 0
    BY <1>1, <2>4, OctetIs
  <2>7. r = 3 => Base64!octet(3 * (h - 1) + 2) = 0
    <3>1. 3 * (h - 1) + 2 \in Nat \ {0}
      BY <1>1
    <3> QED BY <2>5, <3>1, OctetIs
  <2>8. (0 % 16) * 4 + (0 \div 64) = 0 /\ (0 % 64) = 0
    BY SMT
  <2>9. Four(h)[r] = 0
    BY <2>4, <2>6, <2>7, <2>8 DEF Four, FourOf
  <2> QED BY <2>1, <2>9
<1> QED BY <1>4, <1>5

\* ... each four is a number, ...
LEMMA TripleIsNat ==
  ASSUME BaseInv, baEncoded \in [1..(4 * Fours) -> Character], NEW q \in Nat,
         q + 1 \in 1..Fours,
         baI = 4 * q
  PROVE  Base64!Triple \in Nat
<1>1. Fours \in Nat
  BY FoursIs
<1>2. \A k \in 1..(4 * Fours) : Base64!sextet(k) \in Nat
  <2>1. \A c \in Character : c \in Nat
    BY DEF Character
  <2> QED BY <2>1 DEF Base64!sextet, Base64!base64_decoding_table
<1>3. /\ baI + 1 \in 1..(4 * Fours) /\ baI + 2 \in 1..(4 * Fours)
      /\ baI + 3 \in 1..(4 * Fours) /\ baI + 4 \in 1..(4 * Fours)
  BY <1>1
<1>4. \A a, b, c, d \in Nat : a * (64 * 64 * 64) + b * (64 * 64) + c * 64 + d \in Nat
  BY SMT
<1> QED BY <1>2, <1>3, <1>4 DEF Base64!Triple

\* ... of which the octets come back if the table is filled, ...
LEMMA TripleIs ==
  ASSUME BaseInv, Encoded64, baReady, NEW q \in Nat, q + 1 \in 1..Fours, baI = 4 * q
  PROVE  LET t == Base64!Triple IN
         /\ ((t \div 65536) % 256) = Base64!octet(3 * q + 1)
         /\ ((t \div 256) % 256) = Base64!octet(3 * q + 2)
         /\ (t % 256) = Base64!octet(3 * q + 3)
<1> DEFINE h == q + 1
           a == Base64!octet(3 * (h - 1) + 1)  b == Base64!octet(3 * (h - 1) + 2)
           c == Base64!octet(3 * (h - 1) + 3)
<1>1. h - 1 = q /\ h \in Nat \ {0}
  OBVIOUS
<1>2. a \in Byte /\ b \in Byte /\ c \in Byte
  BY <1>1, ThreeOf
<1>3. /\ Base64!sextet(4 * (h - 1) + 1) = Four(h)[1]
      /\ Base64!sextet(4 * (h - 1) + 2) = Four(h)[2]
      /\ Base64!sextet(4 * (h - 1) + 3) = Four(h)[3]
      /\ Base64!sextet(4 * (h - 1) + 4) = Four(h)[4]
  <2>1. 1 \in 1..4 /\ 2 \in 1..4 /\ 3 \in 1..4 /\ 4 \in 1..4
    OBVIOUS
  <2> QED BY <2>1, SextetIs
<1>4. /\ Four(h)[1] = (a \div 4) /\ Four(h)[2] = (a % 4) * 16 + (b \div 16)
      /\ Four(h)[3] = (b % 16) * 4 + (c \div 64) /\ Four(h)[4] = (c % 64)
  BY DEF Four, FourOf
<1>5. /\ Base64!sextet(baI + 1) = (a \div 4)
      /\ Base64!sextet(baI + 2) = (a % 4) * 16 + (b \div 16)
      /\ Base64!sextet(baI + 3) = (b % 16) * 4 + (c \div 64)
      /\ Base64!sextet(baI + 4) = (c % 64)
  BY <1>1, <1>3, <1>4
<1>6. a = Base64!octet(3 * q + 1) /\ b = Base64!octet(3 * q + 2) /\ c = Base64!octet(3 * q + 3)
  BY <1>1
<1> HIDE DEF a, b, c
<1> DEFINE t == Base64!Triple
<1>7. t = (a \div 4) * (64 * 64 * 64) + ((a % 4) * 16 + (b \div 16)) * (64 * 64)
            + ((b % 16) * 4 + (c \div 64)) * 64 + (c % 64)
  BY <1>5 DEF Base64!Triple
<1> HIDE DEF t
<1>8. ((t \div 65536) % 256) = a /\ ((t \div 256) % 256) = b /\ (t % 256) = c
  BY <1>2, <1>7, DecodeTriple
<1> QED BY <1>6, <1>8 DEF t

\* ... the first of them as far as there is room, ...
LEMMA FirstOf ==
  ASSUME NEW o \in Seq(Byte), Len(o) = 3, NEW m \in 0..3
  PROVE  /\ SubSeq(o, 1, m) \in Seq(Byte) /\ Len(SubSeq(o, 1, m)) = m
         /\ \A r \in 1..m : SubSeq(o, 1, m)[r] = o[r]
<1>1. \A r \in 1..m : o[r] \in Byte
  <2>1. \A r \in 1..m : r \in 1..Len(o)
    OBVIOUS
  <2> QED BY <2>1, ElementOfSeq
<1>2. m \in Int /\ 1 \in Int
  OBVIOUS
<1> DEFINE d == SubSeq(o, 1, m)
<1>3. /\ d \in Seq(Byte) /\ Len(d) = IF 1 <= m THEN m - 1 + 1 ELSE 0
      /\ \A r \in 1..(m - 1 + 1) : d[r] = o[1 + r - 1]
  BY <1>1, <1>2, SubSeqProperties
<1> HIDE DEF d
<1>4. m - 1 + 1 = m /\ \A r \in 1..m : 1 + r - 1 = r
  BY <1>2
<1>5. Len(d) = m
  BY <1>3
<1>6. \A r \in 1..m : d[r] = o[r]
  BY <1>3, <1>4
<1> QED BY <1>3, <1>5, <1>6 DEF d

\* ... and these are the next of the data.
LEMMA DecodeStep ==
  ASSUME Base64!Base64Assumption, BaseInv, Base64!DecodeCharacters PROVE BaseInv'
<1> DEFINE t == Base64!Triple
           octets == <<((t \div 65536) % 256), ((t \div 256) % 256), (t % 256)>>
           room == baLength - Len(baDecoded)
           more == IF room < 3 THEN room ELSE 3
           d == SubSeq(octets, 1, more)
           q == (baI \div 4)
<1>1. /\ baPc = "decode" /\ baI < Len(baEncoded) /\ baI' = baI + 4
      /\ UNCHANGED <<baReady, baPc, baData, baEncoded, baLength>>
      /\ baDecoded' = baDecoded \o d
  BY DEF Base64!DecodeCharacters, Base64!Smaller
<1>2. /\ Len(baData) \in Nat /\ Fours \in Nat /\ Len(baData) <= 3 * Fours /\ Encoded64
      /\ Decoding
      /\ baEncoded \in [1..(4 * Fours) -> Character] /\ baData \in Seq(Byte)
      /\ baI \in Nat /\ baLength \in Nat /\ baReady \in BOOLEAN
  BY <1>1, FoursIs DEF BaseInv
<1>3. Len(baEncoded) = 4 * Fours
  BY <1>2, FunctionIsSeq
<1>4. baData # <<>>
  <2>1. baData = <<>> => Fours = 0
    <3>1. ((0 + 2) \div 3) = 0 /\ Len(<<>>) = 0
      BY SMT
    <3> QED BY <3>1 DEF Fours
  <2> QED BY <1>1, <1>2, <1>3, <2>1
<1>5. /\ baDecoded \in Seq(Byte) /\ Len(baDecoded) \in Nat /\ Len(baDecoded) <= baLength
      /\ baLength = Len(baData) /\ (baI % 4) = 0
      /\ Len(baDecoded) = Len(baData) \/ 4 * Len(baDecoded) = 3 * baI
      /\ baReady => \A k \in 1..Len(baDecoded) : baDecoded[k] = baData[k]
  BY <1>2, <1>4, LenProperties DEF Decoding
<1>6. q \in Nat /\ baI = 4 * q
  BY <1>2, <1>5, SMT
<1> HIDE DEF q
<1>7. q + 1 \in 1..Fours
  BY <1>1, <1>2, <1>3, <1>6
<1>8. t \in Nat
  BY <1>2, <1>6, <1>7, TripleIsNat
<1>9. baReady => /\ ((t \div 65536) % 256) = Base64!octet(3 * q + 1)
                 /\ ((t \div 256) % 256) = Base64!octet(3 * q + 2)
                 /\ (t % 256) = Base64!octet(3 * q + 3)
  BY <1>2, <1>6, <1>7, TripleIs
<1> HIDE DEF t
<1>10. octets \in Seq(Byte) /\ Len(octets) = 3
  <2>1. \A v \in Nat : (v % 256) \in Byte /\ (v \div 256) \in Nat /\ (v \div 65536) \in Nat
    BY SMT DEF Byte
  <2> QED BY <1>8, <2>1
<1>11. baReady => \A r \in 1..3 : octets[r] = Base64!octet(3 * q + r)
  <2>1. \A r \in 1..3 : r = 1 \/ r = 2 \/ r = 3
    OBVIOUS
  <2> QED BY <1>9, <2>1
<1> HIDE DEF octets
<1>12. room \in Nat /\ more \in 0..3 /\ more <= room
  BY <1>2, <1>5
<1>13. d \in Seq(Byte) /\ Len(d) = more /\ \A r \in 1..more : d[r] = octets[r]
  <2> HIDE DEF more
  <2> QED BY <1>10, <1>12, FirstOf
<1>14. /\ baDecoded' \in Seq(Byte) /\ Len(baDecoded') = Len(baDecoded) + more
       /\ \A k \in 1..(Len(baDecoded) + more) :
             baDecoded'[k] = IF k <= Len(baDecoded) THEN baDecoded[k] ELSE d[k - Len(baDecoded)]
  <2> HIDE DEF d, more
  <2>1. /\ baDecoded \o d \in Seq(Byte) /\ Len(baDecoded \o d) = Len(baDecoded) + Len(d)
        /\ \A k \in 1..(Len(baDecoded) + Len(d)) : (baDecoded \o d)[k]
              = IF k <= Len(baDecoded) THEN baDecoded[k] ELSE d[k - Len(baDecoded)]
    BY <1>5, <1>13, ConcatProperties
  <2> QED BY <1>1, <1>13, <2>1
<1> HIDE DEF d
<1>15. Len(baDecoded') <= baLength
  BY <1>5, <1>12, <1>14
<1>16. Len(baDecoded') = Len(baData) \/ 4 * Len(baDecoded') = 3 * (baI + 4)
  <2>1. CASE Len(baDecoded) = Len(baData)
    BY <1>2, <1>5, <1>12, <1>14, <2>1
  <2>2. CASE 4 * Len(baDecoded) = 3 * baI
    <3>1. more = 3 \/ more = baLength - Len(baDecoded)
      BY <1>12
    <3> DEFINE l == Len(baDecoded)  m == more
    <3>2. l \in Nat /\ m \in Nat /\ baI \in Nat /\ 4 * l = 3 * baI
             /\ (m = 3 \/ m = Len(baData) - l)
      BY <1>2, <1>5, <1>12, <2>2, <3>1
    <3>3. Len(baDecoded') = l + m
      BY <1>14
    <3>4. Len(baData) \in Nat
      BY <1>2
    <3> HIDE DEF l, m
    <3> QED BY <3>2, <3>3, <3>4
  <2> QED BY <1>5, <2>1, <2>2
<1>17. ((baI + 4) % 4) = 0
  BY <1>2, <1>5, SMT
<1>18. ASSUME baReady, NEW k \in 1..(Len(baDecoded) + more)
       PROVE  baDecoded'[k] = baData[k]
  <2>1. CASE k <= Len(baDecoded)
    BY <1>5, <1>14, <1>18, <2>1
  <2>2. CASE ~(k <= Len(baDecoded))
    <3> DEFINE r == k - Len(baDecoded)
    <3>1. r \in 1..more /\ r \in 1..3 /\ k <= Len(baData)
      BY <1>5, <1>12, <2>2
    <3>2. 4 * Len(baDecoded) = 3 * baI
      BY <1>5, <1>12, <3>1
    <3>3. 3 * q + r = k /\ k \in Nat
      BY <1>5, <1>6, <3>2
    <3>4. octets[r] = Base64!octet(k)
      BY <1>11, <1>18, <3>1, <3>3
    <3>5. Base64!octet(k) = baData[k]
      BY <3>1 DEF Base64!octet
    <3> QED BY <1>13, <1>14, <2>2, <3>1, <3>4, <3>5
  <2> QED BY <2>1, <2>2
<1>19. Fours' = Fours /\ (\A h : Four(h)' = Four(h)) /\ \A k : Beyond(k)' = Beyond(k)
  BY <1>1 DEF Fours, Four, Base64!octet, Beyond
<1> HIDE DEF more, room, d
<1>20. Encoded64'
  BY <1>1, <1>2, <1>19 DEF Encoded64
<1>21. Decoding'
  <2>1. /\ baLength' = baLength /\ baData' = baData /\ baReady' = baReady /\ baI' = baI + 4
    BY <1>1
  <2>2. baReady => \A k \in 1..Len(baDecoded') : baDecoded'[k] = baData[k]
    BY <1>14, <1>18
  <2> QED BY <1>5, <1>14, <1>15, <1>16, <1>17, <2>1, <2>2 DEF Decoding
<1> QED BY <1>1, <1>2, <1>19, <1>20, <1>21 DEF BaseInv

\* sky_base64_init, and the end of decode, change no octet and no character.
LEMMA BaseSame ==
  ASSUME BaseInv, UNCHANGED <<baData, baI, baEncoded, baDecoded, baLength>>,
         baReady' = baReady \/ baPc = "start",
         baPc' = baPc \/ (baPc = "decode" /\ baPc' = "decoded" /\ baI >= Len(baEncoded)),
         baReady' \in BOOLEAN
  PROVE  BaseInv'
<1>1. Fours' = Fours /\ (\A h : Four(h)' = Four(h)) /\ \A k : Beyond(k)' = Beyond(k)
  BY DEF Fours, Four, Base64!octet, Beyond
<1>2. Encoding' = Encoding /\ Encoded64' = Encoded64
  BY <1>1 DEF Encoding, Encoded64
<1>3. baReady' = baReady => Decoding' = Decoding
  BY DEF Decoding
<1>4. baPc = "decode" => Len(baEncoded) = 4 * Fours
  <2>1. baPc = "decode" => baEncoded \in [1..(4 * Fours) -> Character]
    BY DEF BaseInv
  <2> QED BY <2>1, FoursIs, FunctionIsSeq
<1> QED BY <1>1, <1>2, <1>3, <1>4 DEF BaseInv

\* So every step keeps the invariant.
LEMMA BaseNext == Base64!Base64Assumption /\ BaseInv /\ [Base64!Next]_(Base64!vars) => BaseInv'
<1> SUFFICES ASSUME Base64!Base64Assumption, BaseInv, [Base64!Next]_(Base64!vars) PROVE BaseInv'
  OBVIOUS
<1>1. CASE Base64!sky_base64_init
  BY <1>1, BaseSame DEF Base64!sky_base64_init, BaseInv
<1>2. CASE Base64!sky_base64_encode
  BY <1>2, EncodeStart
<1>3. CASE Base64!EncodeOctets
  BY <1>3, EncodeStep
<1>4. CASE Base64!EncodePads
  BY <1>4, EncodeEnd
<1>5. CASE Base64!sky_base64_decode
  BY <1>5, DecodeStart
<1>6. CASE Base64!DecodeCharacters
  BY <1>6, DecodeStep
<1>7. CASE Base64!DecodeReturn
  BY <1>7, BaseSame DEF Base64!DecodeReturn, BaseInv
<1>8. CASE Base64!Forget
  <2>1. <<>> \in Seq(Byte) /\ Len(<<>>) = 0 /\ 0 <= MaxLength
    BY DEF Base64!Base64Assumption
  <2> QED BY <1>8, <2>1 DEF Base64!Forget, BaseInv
<1>9. CASE UNCHANGED Base64!vars
  BY <1>9, BaseSame DEF Base64!vars, BaseInv
<1> QED BY <1>1, <1>2, <1>3, <1>4, <1>5, <1>6, <1>7, <1>8, <1>9 DEF Base64!Next

\* It has the types, ...
LEMMA BaseTypes == Base64!Base64Assumption /\ BaseInv => Base64!TypeOK
<1> SUFFICES ASSUME Base64!Base64Assumption, BaseInv PROVE Base64!TypeOK
  OBVIOUS
<1>1. Len(baData) \in Nat /\ Fours \in Nat /\ baData \in Seq(Byte)
  BY FoursIs DEF BaseInv
<1>2. \A k \in 1..Len(baData) : baData[k] \in 0..255
  BY <1>1, ElementOfSeq DEF Byte
<1>3. baPc # "start" => Len(baEncoded) = 4 * Fours
  <2>1. baPc # "start" => baEncoded \in [1..(4 * Fours) -> Character]
    BY DEF BaseInv
  <2> QED BY <1>1, <2>1, FunctionIsSeq
<1>4. \A k \in 1..Len(baEncoded) : baEncoded[k] \in 0..65
  <2>1. CASE baPc = "start"
    <3>1. \A k \in 1..Len(<<>>) : FALSE
      OBVIOUS
    <3> QED BY <2>1, <3>1 DEF BaseInv
  <2>2. CASE baPc # "start"
    BY <1>3, <2>2 DEF BaseInv, Character
  <2> QED BY <2>1, <2>2
<1>5. baPc = "encoded" => \A k \in 1..Len(baEncoded) : baEncoded[k] # 65
  <2> SUFFICES ASSUME baPc = "encoded", NEW k \in 1..Len(baEncoded) PROVE baEncoded[k] # 65
    OBVIOUS
  <2>1. Encoded64 /\ k \in 1..(4 * Fours)
    BY <1>3 DEF BaseInv
  <2>2. PICK h \in 1..Fours : \E r \in 1..4 : k = 4 * (h - 1) + r
    BY <1>1, <2>1, PlaceOf
  <2>3. PICK r \in 1..4 : k = 4 * (h - 1) + r
    BY <2>2
  <2>4. baEncoded[k] = IF Beyond(k) THEN 64 ELSE Four(h)[r]
    BY <2>1, <2>3 DEF Encoded64
  <2>5. h \in Nat \ {0}
    BY <1>1
  <2>6. Four(h)[r] \in Six
    BY <2>5, ThreeOf
  <2>7. 64 # 65 /\ \A v \in Six : v # 65
    BY DEF Six
  <2> QED BY <2>4, <2>6, <2>7
<1>6. Len(baDecoded) <= baLength /\ \A k \in 1..Len(baDecoded) : baDecoded[k] \in 0..255
  <2>1. CASE baPc \in {"start", "encode", "encoded"}
    <3>1. baDecoded = <<>> /\ baLength \in Nat
      BY <2>1 DEF BaseInv
    <3>2. Len(<<>>) = 0 /\ \A k \in 1..0 : FALSE
      OBVIOUS
    <3> QED BY <3>1, <3>2
  <2>2. CASE baPc \in {"decode", "decoded"}
    <3>1. baDecoded \in Seq(Byte) /\ Len(baDecoded) <= baLength
      BY <2>2 DEF BaseInv, Decoding
    <3> QED BY <3>1, ElementOfSeq DEF Byte
  <2> QED BY <2>1, <2>2 DEF BaseInv
<1> QED BY <1>2, <1>4, <1>5, <1>6 DEF BaseInv, Base64!TypeOK, Base64!Nul

\* A bit of an octet, the first one first, and what the bits add up to.
BitOf(a, m) == (a \div <<128, 64, 32, 16, 8, 4, 2, 1>>[m + 1]) % 2

\* Bits are numbers.
LEMMA BitIsInt == \A a \in Byte : \A m \in 0..7 : BitOf(a, m) \in Int
<1> SUFFICES ASSUME NEW a \in Byte, NEW m \in 0..7 PROVE BitOf(a, m) \in Int
  OBVIOUS
<1> DEFINE w == <<128, 64, 32, 16, 8, 4, 2, 1>>[m + 1]
<1>1. w \in {128, 64, 32, 16, 8, 4, 2, 1}
  BY SMT
<1> HIDE DEF w
<1>2. (a \div w) \in Int
  BY <1>1, SMT DEF Byte
<1>3. \A v \in Int : (v % 2) \in Int
  BY SMT
<1>4. BitOf(a, m) = ((a \div w) % 2)
  BY DEF BitOf, w
<1> QED BY <1>2, <1>3, <1>4

\* An octet is its bits, and so are its parts.
LEMMA BitsOf ==
  ASSUME NEW a \in Byte
  PROVE  /\ (a \div 4) = 32 * BitOf(a, 0) + 16 * BitOf(a, 1) + 8 * BitOf(a, 2) + 4 * BitOf(a, 3)
                           + 2 * BitOf(a, 4) + BitOf(a, 5)
         /\ (a % 4) = 2 * BitOf(a, 6) + BitOf(a, 7)
         /\ (a \div 16) = 8 * BitOf(a, 0) + 4 * BitOf(a, 1) + 2 * BitOf(a, 2) + BitOf(a, 3)
         /\ (a % 16) = 8 * BitOf(a, 4) + 4 * BitOf(a, 5) + 2 * BitOf(a, 6) + BitOf(a, 7)
         /\ (a \div 64) = 2 * BitOf(a, 0) + BitOf(a, 1)
         /\ (a % 64) = 32 * BitOf(a, 2) + 16 * BitOf(a, 3) + 8 * BitOf(a, 4) + 4 * BitOf(a, 5)
                         + 2 * BitOf(a, 6) + BitOf(a, 7)
<1> DEFINE b0 == BitOf(a, 0)  b1 == BitOf(a, 1)  b2 == BitOf(a, 2)  b3 == BitOf(a, 3)
           b4 == BitOf(a, 4)  b5 == BitOf(a, 5)  b6 == BitOf(a, 6)  b7 == BitOf(a, 7)
           d1 == (a \div 64)  d2 == (a \div 32)  d3 == (a \div 16)  d4 == (a \div 8)
           d5 == (a \div 4)   d6 == (a \div 2)
<1>1. /\ b0 = ((a \div 128) % 2) /\ b1 = (d1 % 2) /\ b2 = (d2 % 2) /\ b3 = (d3 % 2)
      /\ b4 = (d4 % 2) /\ b5 = (d5 % 2) /\ b6 = (d6 % 2) /\ b7 = ((a \div 1) % 2)
  BY DEF BitOf
<1>2. /\ d1 = 2 * (a \div 128) + b1 /\ (a \div 128) \in 0..1
      /\ d2 = 2 * d1 + b2 /\ d3 = 2 * d2 + b3 /\ d4 = 2 * d3 + b4 /\ d5 = 2 * d4 + b5
      /\ d6 = 2 * d5 + b6 /\ (a \div 1) = 2 * d6 + b7
  BY <1>1, Halves
<1>3. b0 = (a \div 128) /\ (a \div 1) = a
  <2>1. (0 % 2) = 0 /\ (1 % 2) = 1 /\ \A v \in 0..1 : v = 0 \/ v = 1
    BY SMT
  <2>2. (a \div 1) = a
    BY SMT DEF Byte
  <2> QED BY <1>1, <1>2, <2>1, <2>2
<1>4. /\ a = 4 * d5 + (a % 4) /\ a = 16 * d3 + (a % 16) /\ a = 64 * d1 + (a % 64)
      /\ (a % 4) \in Int /\ (a % 16) \in Int /\ (a % 64) \in Int /\ a \in Int
  BY SMT DEF Byte
<1>5. /\ b0 \in Int /\ b1 \in Int /\ b2 \in Int /\ b3 \in Int
      /\ b4 \in Int /\ b5 \in Int /\ b6 \in Int /\ b7 \in Int
      /\ d1 \in Int /\ d2 \in Int /\ d3 \in Int /\ d4 \in Int /\ d5 \in Int /\ d6 \in Int
  <2>1. /\ d1 \in Int /\ d2 \in Int /\ d3 \in Int /\ d4 \in Int /\ d5 \in Int /\ d6 \in Int
        /\ (a \div 128) \in Int /\ (a \div 1) \in Int
    BY SMT DEF Byte
  <2>2. \A v \in Int : (v % 2) \in Int
    BY SMT
  <2> HIDE DEF b0, b1, b2, b3, b4, b5, b6, b7, d1, d2, d3, d4, d5, d6
  <2> QED BY <1>1, <2>1, <2>2
<1> HIDE DEF b0, b1, b2, b3, b4, b5, b6, b7, d1, d2, d3, d4, d5, d6
<1>6. /\ d1 = 2 * b0 + b1 /\ d3 = 8 * b0 + 4 * b1 + 2 * b2 + b3
      /\ d5 = 32 * b0 + 16 * b1 + 8 * b2 + 4 * b3 + 2 * b4 + b5
  <2>1. /\ d1 = 2 * b0 + b1 /\ d2 = 2 * d1 + b2 /\ d3 = 2 * d2 + b3
        /\ d4 = 2 * d3 + b4 /\ d5 = 2 * d4 + b5
    BY <1>2, <1>3
  <2>2. d3 = 8 * b0 + 4 * b1 + 2 * b2 + b3
    BY <1>5, <2>1
  <2> QED BY <1>5, <2>1, <2>2
<1>7. /\ (a % 4) = 2 * b6 + b7 /\ (a % 16) = 8 * b4 + 4 * b5 + 2 * b6 + b7
      /\ (a % 64) = 32 * b2 + 16 * b3 + 8 * b4 + 4 * b5 + 2 * b6 + b7
  BY <1>2, <1>3, <1>4, <1>5
<1> QED BY <1>6, <1>7 DEF b0, b1, b2, b3, b4, b5, b6, b7, d1, d3, d5

\* A bit of the data is one of an octet.
LEMMA BitIs ==
  ASSUME NEW g \in Nat, NEW j \in 0..2, NEW m \in 0..7
  PROVE  Base64!Bit(24 * g + 8 * j + m) = BitOf(Base64!octet(3 * g + j + 1), m)
<1>1. ((24 * g + 8 * j + m) \div 8) + 1 = 3 * g + j + 1 /\ ((24 * g + 8 * j + m) % 8) = m
  <2>1. \A v \in Nat, w \in 0..7 : ((8 * v + w) \div 8) = v /\ ((8 * v + w) % 8) = w
    BY SMT
  <2>2. 24 * g + 8 * j + m = 8 * (3 * g + j) + m /\ 3 * g + j \in Nat
    OBVIOUS
  <2> QED BY <2>1, <2>2
<1> QED BY <1>1 DEF Base64!Bit, BitOf

\* A four is the bits of its three octets.
LEMMA FourIsBits ==
  ASSUME BaseInv, NEW h \in Nat \ {0}, NEW r \in 1..4
  PROVE  Four(h)[r] = Base64!Bits6(6 * (4 * (h - 1) + r - 1))
<1> DEFINE g == h - 1
           a == Base64!octet(3 * g + 1)  b == Base64!octet(3 * g + 2)
           c == Base64!octet(3 * g + 3)
<1>1. g \in Nat
  OBVIOUS
<1>2. a \in Byte /\ b \in Byte /\ c \in Byte
  BY ThreeOf
<1>3. Four(h) = FourOf(a, b, c)
  BY DEF Four
<1> HIDE DEF g
<1>4. /\ \A m \in 0..7 : Base64!Bit(24 * g + m) = BitOf(a, m)
      /\ \A m \in 0..7 : Base64!Bit(24 * g + 8 + m) = BitOf(b, m)
      /\ \A m \in 0..7 : Base64!Bit(24 * g + 16 + m) = BitOf(c, m)
  <2> SUFFICES ASSUME NEW m \in 0..7
           PROVE  /\ Base64!Bit(24 * g + m) = BitOf(a, m)
                  /\ Base64!Bit(24 * g + 8 + m) = BitOf(b, m)
                  /\ Base64!Bit(24 * g + 16 + m) = BitOf(c, m)
    OBVIOUS
  <2>1. /\ Base64!Bit(24 * g + 8 * 0 + m) = BitOf(Base64!octet(3 * g + 0 + 1), m)
        /\ Base64!Bit(24 * g + 8 * 1 + m) = BitOf(Base64!octet(3 * g + 1 + 1), m)
        /\ Base64!Bit(24 * g + 8 * 2 + m) = BitOf(Base64!octet(3 * g + 2 + 1), m)
    <3>1. 0 \in 0..2 /\ 1 \in 0..2 /\ 2 \in 0..2
      OBVIOUS
    <3> QED BY <1>1, <3>1, BitIs
  <2>2. /\ 24 * g + 8 * 0 + m = 24 * g + m /\ 24 * g + 8 * 1 + m = 24 * g + 8 + m
        /\ 24 * g + 8 * 2 + m = 24 * g + 16 + m
        /\ 3 * g + 0 + 1 = 3 * g + 1 /\ 3 * g + 1 + 1 = 3 * g + 2 /\ 3 * g + 2 + 1 = 3 * g + 3
    BY <1>1
  <2> QED BY <2>1, <2>2
<1>5. CASE r = 1
  <2> DEFINE p == 24 * g + 0
  <2>1. /\ p = 24 * g + 0 /\ p + 1 = 24 * g + 1 /\ p + 2 = 24 * g + 2
        /\ p + 3 = 24 * g + 3 /\ p + 4 = 24 * g + 4 /\ p + 5 = 24 * g + 5
    BY <1>1
  <2>2. 6 * (4 * g + r - 1) = p
    BY <1>1, <1>5
  <2> HIDE DEF p
  <2>3. \A m \in {0, 1, 2, 3, 4, 5, 6, 7} : m \in 0..7
    OBVIOUS
  <2>4. /\ Base64!Bit(p) = BitOf(a, 0) /\ Base64!Bit(p + 1) = BitOf(a, 1)
        /\ Base64!Bit(p + 2) = BitOf(a, 2) /\ Base64!Bit(p + 3) = BitOf(a, 3)
        /\ Base64!Bit(p + 4) = BitOf(a, 4) /\ Base64!Bit(p + 5) = BitOf(a, 5)
    BY <1>4, <2>1, <2>3
  <2>5. Base64!Bits6(p) = (a \div 4)
    <3>1. \A m \in 0..7 : BitOf(a, m) \in Int /\ BitOf(b, m) \in Int /\ BitOf(c, m) \in Int
      BY <1>2, BitIsInt
    <3> QED BY <1>2, <2>3, <2>4, <3>1, BitsOf DEF Base64!Bits6
  <2>6. Four(h)[1] = (a \div 4)
    BY <1>3 DEF FourOf
  <2> QED BY <1>5, <2>2, <2>5, <2>6 DEF g
<1>6. CASE r = 2
  <2> DEFINE p == 24 * g + 6
  <2>1. /\ p = 24 * g + 6 /\ p + 1 = 24 * g + 7 /\ p + 2 = 24 * g + 8 + 0
        /\ p + 3 = 24 * g + 8 + 1 /\ p + 4 = 24 * g + 8 + 2 /\ p + 5 = 24 * g + 8 + 3
    BY <1>1
  <2>2. 6 * (4 * g + r - 1) = p
    BY <1>1, <1>6
  <2> HIDE DEF p
  <2>3. \A m \in {0, 1, 2, 3, 4, 5, 6, 7} : m \in 0..7
    OBVIOUS
  <2>4. /\ Base64!Bit(p) = BitOf(a, 6) /\ Base64!Bit(p + 1) = BitOf(a, 7)
        /\ Base64!Bit(p + 2) = BitOf(b, 0) /\ Base64!Bit(p + 3) = BitOf(b, 1)
        /\ Base64!Bit(p + 4) = BitOf(b, 2) /\ Base64!Bit(p + 5) = BitOf(b, 3)
    BY <1>4, <2>1, <2>3
  <2>5. Base64!Bits6(p) = (a % 4) * 16 + (b \div 16)
    <3>1. \A m \in 0..7 : BitOf(a, m) \in Int /\ BitOf(b, m) \in Int /\ BitOf(c, m) \in Int
      BY <1>2, BitIsInt
    <3> QED BY <1>2, <2>3, <2>4, <3>1, BitsOf DEF Base64!Bits6
  <2>6. Four(h)[2] = (a % 4) * 16 + (b \div 16)
    BY <1>3 DEF FourOf
  <2> QED BY <1>6, <2>2, <2>5, <2>6 DEF g
<1>7. CASE r = 3
  <2> DEFINE p == 24 * g + 12
  <2>1. /\ p = 24 * g + 8 + 4 /\ p + 1 = 24 * g + 8 + 5 /\ p + 2 = 24 * g + 8 + 6
        /\ p + 3 = 24 * g + 8 + 7 /\ p + 4 = 24 * g + 16 + 0 /\ p + 5 = 24 * g + 16 + 1
    BY <1>1
  <2>2. 6 * (4 * g + r - 1) = p
    BY <1>1, <1>7
  <2> HIDE DEF p
  <2>3. \A m \in {0, 1, 2, 3, 4, 5, 6, 7} : m \in 0..7
    OBVIOUS
  <2>4. /\ Base64!Bit(p) = BitOf(b, 4) /\ Base64!Bit(p + 1) = BitOf(b, 5)
        /\ Base64!Bit(p + 2) = BitOf(b, 6) /\ Base64!Bit(p + 3) = BitOf(b, 7)
        /\ Base64!Bit(p + 4) = BitOf(c, 0) /\ Base64!Bit(p + 5) = BitOf(c, 1)
    BY <1>4, <2>1, <2>3
  <2>5. Base64!Bits6(p) = (b % 16) * 4 + (c \div 64)
    <3>1. \A m \in 0..7 : BitOf(a, m) \in Int /\ BitOf(b, m) \in Int /\ BitOf(c, m) \in Int
      BY <1>2, BitIsInt
    <3> QED BY <1>2, <2>3, <2>4, <3>1, BitsOf DEF Base64!Bits6
  <2>6. Four(h)[3] = (b % 16) * 4 + (c \div 64)
    BY <1>3 DEF FourOf
  <2> QED BY <1>7, <2>2, <2>5, <2>6 DEF g
<1>8. CASE r = 4
  <2> DEFINE p == 24 * g + 18
  <2>1. /\ p = 24 * g + 16 + 2 /\ p + 1 = 24 * g + 16 + 3 /\ p + 2 = 24 * g + 16 + 4
        /\ p + 3 = 24 * g + 16 + 5 /\ p + 4 = 24 * g + 16 + 6 /\ p + 5 = 24 * g + 16 + 7
    BY <1>1
  <2>2. 6 * (4 * g + r - 1) = p
    BY <1>1, <1>8
  <2> HIDE DEF p
  <2>3. \A m \in {0, 1, 2, 3, 4, 5, 6, 7} : m \in 0..7
    OBVIOUS
  <2>4. /\ Base64!Bit(p) = BitOf(c, 2) /\ Base64!Bit(p + 1) = BitOf(c, 3)
        /\ Base64!Bit(p + 2) = BitOf(c, 4) /\ Base64!Bit(p + 3) = BitOf(c, 5)
        /\ Base64!Bit(p + 4) = BitOf(c, 6) /\ Base64!Bit(p + 5) = BitOf(c, 7)
    BY <1>4, <2>1, <2>3
  <2>5. Base64!Bits6(p) = (c % 64)
    <3>1. \A m \in 0..7 : BitOf(a, m) \in Int /\ BitOf(b, m) \in Int /\ BitOf(c, m) \in Int
      BY <1>2, BitIsInt
    <3> QED BY <1>2, <2>3, <2>4, <3>1, BitsOf DEF Base64!Bits6
  <2>6. Four(h)[4] = (c % 64)
    BY <1>3 DEF FourOf
  <2> QED BY <1>8, <2>2, <2>5, <2>6 DEF g
<1>9. r = 1 \/ r = 2 \/ r = 3 \/ r = 4
  OBVIOUS
<1> QED BY <1>5, <1>6, <1>7, <1>8, <1>9

\* ... and says that the text is base64 and that it comes back.
LEMMA BaseRight ==
  Base64!Base64Assumption /\ BaseInv => Base64!EncodeIsBase64 /\ Base64!RoundTrip
<1> SUFFICES ASSUME Base64!Base64Assumption, BaseInv
             PROVE  Base64!EncodeIsBase64 /\ Base64!RoundTrip
  OBVIOUS
<1>1. Len(baData) \in Nat /\ Fours \in Nat /\ baData \in Seq(Byte) /\ Len(baData) <= 3 * Fours
  BY FoursIs DEF BaseInv
<1>2. baPc # "start" => Len(baEncoded) = 4 * Fours
  <2>1. baPc # "start" => baEncoded \in [1..(4 * Fours) -> Character]
    BY DEF BaseInv
  <2> QED BY <1>1, <2>1, FunctionIsSeq
<1>3. ASSUME baPc = "encoded", NEW k \in 1..Len(baEncoded)
      PROVE  baEncoded[k] = IF 6 * (k - 1) < 8 * Len(baData)
                            THEN Base64!Bits6(6 * (k - 1)) ELSE 64
  <2>1. Encoded64 /\ k \in 1..(4 * Fours)
    BY <1>2, <1>3 DEF BaseInv
  <2>2. PICK h \in 1..Fours : \E r \in 1..4 : k = 4 * (h - 1) + r
    BY <1>1, <2>1, PlaceOf
  <2>3. PICK r \in 1..4 : k = 4 * (h - 1) + r
    BY <2>2
  <2>4. baEncoded[k] = IF Beyond(k) THEN 64 ELSE Four(h)[r]
    BY <2>1, <2>3 DEF Encoded64
  <2>5. h \in Nat \ {0}
    BY <1>1
  <2>6. Four(h)[r] = Base64!Bits6(6 * (k - 1))
    <3>1. Four(h)[r] = Base64!Bits6(6 * (4 * (h - 1) + r - 1))
      BY <2>5, FourIsBits
    <3> QED BY <2>3, <3>1
  <2>7. Beyond(k) <=> ~(6 * (k - 1) < 8 * Len(baData))
    BY <1>1, <2>1 DEF Beyond
  <2> QED BY <2>4, <2>6, <2>7
<1>4. Base64!EncodeIsBase64
  BY <1>3 DEF Base64!EncodeIsBase64, Base64!Pad
<1>5. ASSUME baPc = "decoded", baReady, baData # <<>>
      PROVE  baDecoded = baData /\ baLength = Len(baData)
  <2>1. /\ Decoding /\ baI >= 4 * Fours /\ baI \in Nat
    BY <1>5 DEF BaseInv
  <2>2. /\ baDecoded \in Seq(Byte) /\ baLength = Len(baData)
        /\ Len(baDecoded) \in Nat /\ Len(baDecoded) <= baLength
        /\ Len(baDecoded) = Len(baData) \/ 4 * Len(baDecoded) = 3 * baI
        /\ \A k \in 1..Len(baDecoded) : baDecoded[k] = baData[k]
    BY <1>5, <2>1, LenProperties DEF Decoding
  <2>3. Len(baDecoded) = Len(baData)
    BY <1>1, <2>1, <2>2
  <2> QED BY <1>1, <2>2, <2>3, SeqEqual
<1>6. Base64!RoundTrip
  BY <1>5 DEF Base64!RoundTrip
<1> QED BY <1>4, <1>6
----------------------------------------------------------------------------
(* Hexadecimal digits *)

Digit == 0..15

\* What is kept of each printed octet is two digits, and they tell the octet
\* unless it is a negative char.
LEMMA FirstTwoIs ==
  ASSUME NEW c \in Byte
  PROVE  LET d == Hex!FirstTwo(c) IN
         /\ d \in Seq(Digit) /\ Len(d) = 2
         /\ ~Hex!Negative(c) => Len(Hex!Printed(c)) = 2 /\ 16 * d[1] + d[2] = c
<1>1. c \div 16 \in Digit /\ c % 16 \in Digit /\ 16 * (c \div 16) + (c % 16) = c
  BY DEF Byte, Digit
<1> DEFINE a == c \div 16  b == c % 16
<1> HIDE DEF a, b
<1>2. a \in Digit /\ b \in Digit /\ 16 * a + b = c
  BY <1>1 DEF a, b
<1>3. Hex!Printed(c) = IF Hex!Negative(c) THEN <<15, 15, 15, 15, 15, 15, a, b>> ELSE <<a, b>>
  BY DEF Hex!Printed, a, b
<1> DEFINE p == Hex!Printed(c)
           d == SubSeq(p, 1, 2)
<1>4. p[1] \in Digit /\ p[2] \in Digit
  BY <1>2, <1>3 DEF Digit
<1>5. ~Hex!Negative(c) => Len(p) = 2 /\ p[1] = a /\ p[2] = b
  BY <1>3
<1> HIDE DEF p
<1>6. d \in Seq(Digit) /\ Len(d) = 2 /\ d[1] = p[1] /\ d[2] = p[2]
  <2>1. \A k \in 1..2 : p[k] \in Digit
    BY <1>4
  <2>2. /\ d \in Seq(Digit) /\ Len(d) = 2 - 1 + 1
        /\ \A k \in 1..(2 - 1 + 1) : d[k] = p[1 + k - 1]
    BY <2>1, SubSeqProperties
  <2> QED BY <2>2
<1> HIDE DEF d
<1>7. Hex!FirstTwo(c) = d
  BY DEF Hex!FirstTwo, d, p
<1> QED BY <1>2, <1>5, <1>6, <1>7 DEF p

\* The first n octets have their digits.
Printed2(n) ==
    /\ hxHex \in Seq(Digit) /\ Len(hxHex) = 2 * n
    /\ \A k \in 1..n : /\ hxHex[2 * k - 1] = Hex!FirstTwo(hxStr[k])[1]
                       /\ hxHex[2 * k] = Hex!FirstTwo(hxStr[k])[2]

\* And the octets of back are made of the digits.
ReadBack ==
    /\ hxBack \in Seq(Nat) /\ hxI = 2 * Len(hxBack) /\ Len(hxBack) <= Len(hxStr)
    /\ hxLen \in Nat /\ 2 * hxLen <= Len(hxHex)
    /\ \A k \in 1..Len(hxBack) : hxBack[k] = hxHex[2 * k - 1] * 16 + hxHex[2 * k]
    /\ hxOverrun => ~Hex!Plain \/ 2 * hxLen < Len(hxHex)

HexInv ==
    /\ hxPc \in {"start", "to_hex", "hex", "from_hex", "done"}
    /\ hxStr \in Seq(Byte) /\ hxOverrun \in BOOLEAN
    /\ hxPc \in {"start", "to_hex", "hex"} => hxBack = <<>> /\ (hxOverrun => ~Hex!Plain)
    /\ hxPc = "start" => hxStr = <<>> /\ hxHex = <<>> /\ hxI = 0
    /\ hxPc = "to_hex" => hxI \in 0..Len(hxStr) /\ Printed2(hxI)
    /\ hxPc \in {"hex", "from_hex", "done"} => Printed2(Len(hxStr))
    /\ hxPc = "hex" => hxI = 0
    /\ hxPc \in {"from_hex", "done"} => ReadBack
    /\ hxPc = "done" => hxI >= Len(hxHex)

\* At first there are no digits.
LEMMA HexInit == Hex!Init => HexInv
<1> SUFFICES ASSUME Hex!Init PROVE HexInv
  OBVIOUS
<1>1. <<>> \in Seq(Byte)
  OBVIOUS
<1> QED BY <1>1 DEF Hex!Init, HexInv

\* A call of to_hex has printed nothing, ...
LEMMA ToHexStart == ASSUME Hex!HexAssumption, HexInv, Hex!sky_str_to_hex PROVE HexInv'
<1>1. PICK n \in 1..HexLength : hxStr' \in [1..n -> HexOctet]
  BY DEF Hex!sky_str_to_hex
<1>2. /\ hxPc = "start" /\ hxPc' = "to_hex"
      /\ UNCHANGED <<hxI, hxHex, hxBack, hxLen, hxOverrun>>
  BY DEF Hex!sky_str_to_hex
<1>3. hxStr' \in Seq(Byte) /\ Len(hxStr') \in Nat
  <2>1. n \in Nat /\ HexOctet \subseteq Byte
    BY DEF Hex!HexAssumption, Byte
  <2> QED BY <1>1, <2>1, FunctionIsSeq
<1>4. hxI' = 0 /\ hxHex' = <<>> /\ hxBack' = <<>> /\ hxOverrun' = FALSE
  BY <1>2 DEF HexInv, Hex!Plain
<1>5. Printed2(hxI)'
  BY <1>4 DEF Printed2
<1> QED BY <1>2, <1>3, <1>4, <1>5 DEF HexInv

\* ... a round of its loop prints two digits, ...
LEMMA ToHexStep == ASSUME Hex!HexAssumption, HexInv, Hex!ToHexNext PROVE HexInv'
<1> DEFINE d == Hex!FirstTwo(hxStr[hxI + 1])
<1>1. /\ hxPc = "to_hex" /\ hxI < Len(hxStr) /\ hxI' = hxI + 1 /\ hxHex' = hxHex \o d
      /\ hxOverrun' = (hxOverrun \/ Len(Hex!Printed(hxStr[hxI + 1])) + 1 > 4)
      /\ UNCHANGED <<hxPc, hxStr, hxBack, hxLen>>
  BY DEF Hex!ToHexNext
<1>2. /\ hxStr \in Seq(Byte) /\ Len(hxStr) \in Nat /\ hxI \in 0..Len(hxStr)
      /\ hxHex \in Seq(Digit) /\ Len(hxHex) = 2 * hxI
  BY <1>1, LenProperties DEF HexInv, Printed2
<1>3. hxI + 1 \in 1..Len(hxStr) /\ hxStr[hxI + 1] \in Byte
  <2>1. hxI + 1 \in 1..Len(hxStr)
    BY <1>1, <1>2
  <2> QED BY <1>2, <2>1, ElementOfSeq
<1>4. /\ d \in Seq(Digit) /\ Len(d) = 2
      /\ ~Hex!Negative(hxStr[hxI + 1]) => Len(Hex!Printed(hxStr[hxI + 1])) = 2
  BY <1>3, FirstTwoIs
<1> HIDE DEF d
<1>5. /\ hxHex' \in Seq(Digit) /\ Len(hxHex') = 2 * hxI + 2
      /\ \A k \in 1..(2 * hxI + 2) : hxHex'[k]
            = IF k <= 2 * hxI THEN hxHex[k] ELSE d[k - 2 * hxI]
  <2>1. /\ hxHex \o d \in Seq(Digit) /\ Len(hxHex \o d) = Len(hxHex) + Len(d)
        /\ \A k \in 1..(Len(hxHex) + Len(d)) :
              (hxHex \o d)[k] = IF k <= Len(hxHex) THEN hxHex[k] ELSE d[k - Len(hxHex)]
    BY <1>2, <1>4, ConcatProperties
  <2> QED BY <1>1, <1>2, <1>4, <2>1
<1>6. Printed2(hxI)'
  <2>1. ASSUME NEW k \in 1..hxI
        PROVE  hxHex'[2 * k - 1] = hxHex[2 * k - 1] /\ hxHex'[2 * k] = hxHex[2 * k]
    <3>1. 2 * k - 1 \in 1..(2 * hxI + 2) /\ 2 * k \in 1..(2 * hxI + 2)
             /\ 2 * k - 1 <= 2 * hxI /\ 2 * k <= 2 * hxI
      BY <1>2
    <3> QED BY <1>5, <3>1
  <2>2. hxHex'[2 * (hxI + 1) - 1] = d[1] /\ hxHex'[2 * (hxI + 1)] = d[2]
    <3>1. /\ 2 * (hxI + 1) - 1 \in 1..(2 * hxI + 2) /\ 2 * (hxI + 1) \in 1..(2 * hxI + 2)
          /\ ~(2 * (hxI + 1) - 1 <= 2 * hxI) /\ ~(2 * (hxI + 1) <= 2 * hxI)
          /\ 2 * (hxI + 1) - 1 - 2 * hxI = 1 /\ 2 * (hxI + 1) - 2 * hxI = 2
      BY <1>2
    <3> QED BY <1>5, <3>1
  <2>3. \A k \in 1..(hxI + 1) : k \in 1..hxI \/ k = hxI + 1
    BY <1>2
  <2>4. 2 * hxI + 2 = 2 * (hxI + 1)
    BY <1>2
  <2> QED BY <1>1, <1>2, <1>5, <2>1, <2>2, <2>3, <2>4 DEF HexInv, Printed2, d
<1>7. hxOverrun' \in BOOLEAN /\ (hxOverrun' => ~Hex!Plain')
  <2>1. Hex!Plain' = Hex!Plain /\ (hxOverrun => ~Hex!Plain) /\ hxOverrun \in BOOLEAN
    BY <1>1 DEF HexInv, Hex!Plain
  <2>2. Len(Hex!Printed(hxStr[hxI + 1])) + 1 > 4 => ~Hex!Plain
    <3>1. Hex!Negative(hxStr[hxI + 1]) => ~Hex!Plain
      BY <1>3 DEF Hex!Plain
    <3>2. ~(2 + 1 > 4)
      OBVIOUS
    <3> QED BY <1>4, <3>1, <3>2
  <2> QED BY <1>1, <2>1, <2>2
<1> QED BY <1>1, <1>2, <1>6, <1>7 DEF HexInv

\* ... a round of the loop of from_hex reads two, ...
LEMMA FromHexStep == ASSUME Hex!HexAssumption, HexInv, Hex!FromHexNext PROVE HexInv'
<1> DEFINE v == hxHex[hxI + 1] * 16 + hxHex[hxI + 2]
<1>1. /\ hxPc = "from_hex" /\ hxI < Len(hxHex) /\ hxI' = hxI + 2 /\ hxBack' = hxBack \o <<v>>
      /\ hxOverrun' = (hxOverrun \/ Len(hxBack') > hxLen)
      /\ UNCHANGED <<hxPc, hxStr, hxHex, hxLen>>
  BY DEF Hex!FromHexNext
<1>2. /\ hxStr \in Seq(Byte) /\ Len(hxStr) \in Nat /\ hxHex \in Seq(Digit)
      /\ Len(hxHex) = 2 * Len(hxStr)
      /\ ReadBack /\ hxI = 2 * Len(hxBack) /\ hxBack \in Seq(Nat) /\ Len(hxBack) \in Nat
  BY <1>1, LenProperties DEF HexInv, Printed2, ReadBack
<1>3. v \in Nat
  <2>1. hxI + 1 \in 1..Len(hxHex) /\ hxI + 2 \in 1..Len(hxHex)
    BY <1>1, <1>2
  <2>2. hxHex[hxI + 1] \in Digit /\ hxHex[hxI + 2] \in Digit
    BY <1>2, <2>1, ElementOfSeq
  <2> QED BY <2>2 DEF Digit
<1> DEFINE w == v
<1> HIDE DEF w
<1>4. /\ hxBack' \in Seq(Nat) /\ Len(hxBack') = Len(hxBack) + 1
      /\ \A k \in 1..(Len(hxBack) + 1) : hxBack'[k] = IF k <= Len(hxBack) THEN hxBack[k] ELSE w
  <2>1. hxBack' = hxBack \o <<w>> /\ <<w>> \in Seq(Nat) /\ Len(<<w>>) = 1 /\ <<w>>[1] = w
    BY <1>1, <1>3 DEF w
  <2>2. \A k \in 1..(Len(hxBack) + 1) : ~(k <= Len(hxBack)) => k - Len(hxBack) = 1
    BY <1>2
  <2> QED BY <1>2, <2>1, <2>2, ConcatProperties
<1>5. ReadBack'
  <2>1. hxI' = 2 * Len(hxBack') /\ Len(hxBack') <= Len(hxStr')
    BY <1>1, <1>2, <1>4
  <2>2. \A k \in 1..Len(hxBack') : hxBack'[k] = hxHex'[2 * k - 1] * 16 + hxHex'[2 * k]
    <3> SUFFICES ASSUME NEW k \in 1..Len(hxBack')
                 PROVE  hxBack'[k] = hxHex'[2 * k - 1] * 16 + hxHex'[2 * k]
      OBVIOUS
    <3>1. CASE k <= Len(hxBack)
      <4>1. k \in 1..Len(hxBack) /\ k \in 1..(Len(hxBack) + 1)
        BY <1>2, <1>4, <3>1
      <4> QED BY <1>1, <1>2, <1>4, <3>1, <4>1 DEF ReadBack
    <3>2. CASE ~(k <= Len(hxBack))
      <4>1. k \in 1..(Len(hxBack) + 1) /\ 2 * k - 1 = hxI + 1 /\ 2 * k = hxI + 2
        <5>1. k = Len(hxBack) + 1
          BY <1>2, <1>4, <3>2
        <5> QED BY <1>2, <1>4, <5>1
      <4> QED BY <1>1, <1>4, <3>2, <4>1 DEF w
    <3> QED BY <3>1, <3>2
  <2>3. hxOverrun' => ~Hex!Plain' \/ 2 * hxLen' < Len(hxHex')
    <3>1. Len(hxBack') > hxLen => 2 * hxLen < Len(hxHex)
      BY <1>1, <1>2, <2>1 DEF ReadBack
    <3> QED BY <1>1, <1>2, <3>1 DEF ReadBack, Hex!Plain
  <2> QED BY <1>1, <1>2, <1>4, <2>1, <2>2, <2>3 DEF ReadBack
<1>6. Printed2(Len(hxStr))'
  BY <1>1 DEF HexInv, Printed2
<1>7. hxOverrun' \in BOOLEAN
  BY <1>1 DEF HexInv
<1> QED BY <1>1, <1>2, <1>5, <1>6, <1>7 DEF HexInv

\* ... which begins with the first.
LEMMA FromHexStart == ASSUME Hex!HexAssumption, HexInv, Hex!sky_str_from_hex PROVE HexInv'
<1>1. /\ hxPc = "hex" /\ hxPc' = "from_hex"
      /\ UNCHANGED <<hxI, hxStr, hxHex, hxBack, hxOverrun>>
      /\ hxLen' \in 0..HexLength /\ hxLen' * 2 <= Len(hxHex)
  BY DEF Hex!sky_str_from_hex
<1>2. hxLen' \in Nat /\ 2 * hxLen' <= Len(hxHex)
  BY <1>1 DEF Hex!HexAssumption
<1>3. hxBack = <<>> /\ hxI = 0 /\ Len(hxStr) \in Nat /\ (hxOverrun => ~Hex!Plain)
         /\ Printed2(Len(hxStr))
  BY <1>1, LenProperties DEF HexInv
<1>4. ReadBack'
  <2>1. <<>> \in Seq(Nat) /\ Len(<<>>) = 0
    OBVIOUS
  <2>2. hxOverrun' => ~Hex!Plain'
    BY <1>1, <1>3 DEF Hex!Plain
  <2> QED BY <1>1, <1>2, <1>3, <2>1, <2>2 DEF ReadBack
<1>5. Printed2(Len(hxStr))'
  BY <1>1, <1>3 DEF Printed2
<1> QED BY <1>1, <1>4, <1>5 DEF HexInv

\* So every step keeps the invariant.
LEMMA HexNext == Hex!HexAssumption /\ HexInv /\ [Hex!Next]_(Hex!vars) => HexInv'
<1> SUFFICES ASSUME Hex!HexAssumption, HexInv, [Hex!Next]_(Hex!vars) PROVE HexInv'
  OBVIOUS
<1>1. ASSUME Hex!ToHexReturn PROVE HexInv'
  <2>1. /\ hxPc = "to_hex" /\ hxI = Len(hxStr) /\ hxPc' = "hex" /\ hxI' = 0
        /\ UNCHANGED <<hxStr, hxHex, hxBack, hxLen, hxOverrun>>
    BY <1>1 DEF Hex!ToHexReturn
  <2>2. Printed2(Len(hxStr))' /\ Hex!Plain' = Hex!Plain
    BY <2>1 DEF HexInv, Printed2, Hex!Plain
  <2> QED BY <2>1, <2>2 DEF HexInv
<1>2. ASSUME Hex!FromHexReturn PROVE HexInv'
  <2>1. /\ hxPc = "from_hex" /\ hxI >= Len(hxHex) /\ hxPc' = "done"
        /\ UNCHANGED <<hxI, hxStr, hxHex, hxBack, hxLen, hxOverrun>>
    BY <1>2 DEF Hex!FromHexReturn
  <2>2. Printed2(Len(hxStr))' /\ ReadBack'
    BY <2>1 DEF HexInv, Printed2, ReadBack, Hex!Plain
  <2> QED BY <2>1, <2>2 DEF HexInv
<1>3. ASSUME Hex!Forget PROVE HexInv'
  <2>1. <<>> \in Seq(Byte)
    OBVIOUS
  <2> QED BY <1>3, <2>1 DEF Hex!Forget, HexInv
<1>4. ASSUME UNCHANGED Hex!vars PROVE HexInv'
  BY <1>4 DEF Hex!vars, HexInv, Printed2, ReadBack, Hex!Plain
<1> QED BY <1>1, <1>2, <1>3, <1>4, ToHexStart, ToHexStep, FromHexStart, FromHexStep DEF Hex!Next

\* It says that the octets come back and that the calls stay inside the buffers.
LEMMA HexRight == Hex!HexAssumption /\ HexInv => Hex!RoundTrip /\ Hex!InsideBuffers
<1> SUFFICES ASSUME HexInv PROVE Hex!RoundTrip /\ Hex!InsideBuffers
  OBVIOUS
<1>1. Hex!InsideBuffers
  BY DEF Hex!InsideBuffers, HexInv, ReadBack
<1>2. Hex!RoundTrip
  <2> SUFFICES ASSUME hxPc = "done", Hex!Plain PROVE hxBack = hxStr
    BY DEF Hex!RoundTrip
  <2>1. /\ hxStr \in Seq(Byte) /\ hxBack \in Seq(Nat) /\ Len(hxStr) \in Nat
        /\ Len(hxBack) \in Nat
        /\ Printed2(Len(hxStr)) /\ ReadBack
    BY LenProperties DEF HexInv, ReadBack
  <2>2. Len(hxBack) = Len(hxStr)
    BY <2>1 DEF HexInv, ReadBack, Printed2
  <2>3. ASSUME NEW k \in 1..Len(hxStr) PROVE hxBack[k] = hxStr[k]
    <3>1. hxStr[k] \in Byte /\ ~Hex!Negative(hxStr[k])
      BY <2>1, ElementOfSeq DEF Hex!Plain
    <3> DEFINE d == Hex!FirstTwo(hxStr[k])
    <3>2. d \in Seq(Digit) /\ Len(d) = 2 /\ 16 * d[1] + d[2] = hxStr[k]
      BY <3>1, FirstTwoIs
    <3>3. hxBack[k] = d[1] * 16 + d[2]
      BY <2>1, <2>2 DEF ReadBack, Printed2
    <3> HIDE DEF d
    <3>4. d[1] \in Digit /\ d[2] \in Digit
      <4>1. 1 \in 1..Len(d) /\ 2 \in 1..Len(d)
        BY <3>2
      <4> QED BY <3>2, <4>1, ElementOfSeq
    <3> QED BY <3>2, <3>3, <3>4 DEF Digit
  <2>4. hxStr \in Seq(Nat)
    <3>1. Byte \subseteq Nat
      BY DEF Byte
    <3> QED BY <2>1, <3>1, SeqMonotonic
  <2> QED BY <2>1, <2>2, <2>3, <2>4, SeqEqual
<1> QED BY <1>1, <1>2
----------------------------------------------------------------------------
(* The calendar *)

\* Days a clock and a zone can be in.
Days == {-2, -1} \cup 0..24856

\* A year is as long as the calendar says.
LEMMA YearLength ==
  ASSUME NEW y \in 1969..2038
  PROVE  Time!DaysTo(y) \in Int
         /\ Time!DaysTo(y + 1) = Time!DaysTo(y) + IF Time!Leap(y) THEN 366 ELSE 365
BY SMTT(60) DEF Time!DaysTo, Time!Leap

\* In the years of 32 bits every fourth is a leap year.
LEMMA SomeYears ==
  ASSUME NEW n \in Int, 0 <= n, n <= 69
  PROVE  Time!DaysTo(1970 + n) = 365 * n + ((n + 1) \div 4) /\ 0 <= (n + 1) \div 4
         /\ (n + 1) \div 4 <= n
         /\ (n + 1) \div 4 \in Int
<1>1. (n + 69) \div 100 = IF n < 31 THEN 0 ELSE 1
  OBVIOUS
<1>2. (n + 369) \div 400 = IF n < 31 THEN 0 ELSE 1
  OBVIOUS
<1>3. /\ (1970 + n) - 1969 = n + 1 /\ (1970 + n) - 1901 = n + 69 /\ (1970 + n) - 1601 = n + 369
      /\ (1970 + n) - 1970 = n
  OBVIOUS
<1>4. 0 <= (n + 1) \div 4 /\ (n + 1) \div 4 <= n /\ (n + 1) \div 4 \in Int
  OBVIOUS
<1> QED BY <1>1, <1>2, <1>3, <1>4 DEF Time!DaysTo

\* No day is in a later year than the last.
LEMMA LeapYears ==
  ASSUME NEW day \in Int, 0 <= day, day <= 24856
  PROVE  day \div 366 \in 0..67
OBVIOUS

\* Each day is in a year: the one it would be in if all were leap years, or the next.
LEMMA YearExists ==
  ASSUME NEW day \in Days
  PROVE  \E x \in 1969..2038 : Time!DaysTo(x) <= day /\ day < Time!DaysTo(x + 1)
<1>1. CASE day \in {-2, -1}
  BY <1>1 DEF Time!DaysTo
<1>2. CASE day \in 0..24856
  <2> DEFINE x == 1970 + (day \div 366)
  <2>1. x \in 1970..2037
    <3>1. day \in Int /\ 0 <= day /\ day <= 24856
      BY <1>2
    <3>2. day \div 366 \in 0..67
      BY <3>1, LeapYears
    <3> QED BY <3>2
  <2>2. (Time!DaysTo(x) <= day /\ day < Time!DaysTo(x + 1))
           \/ (Time!DaysTo(x + 1) <= day /\ day < Time!DaysTo(x + 2))
    <3> DEFINE n == day \div 366
    <3>1. day \in Int /\ 0 <= day /\ day <= 24856
      BY <1>2
    <3>2. n \in Int /\ 0 <= n /\ n <= 67 /\ 366 * n <= day /\ day < 366 * n + 366
      BY <3>1, LeapYears
    <3> HIDE DEF n
    <3>3. x = 1970 + n /\ x + 1 = 1970 + (n + 1) /\ x + 2 = 1970 + (n + 2)
      BY <3>2 DEF n
    <3>4. /\ Time!DaysTo(x) = 365 * n + ((n + 1) \div 4) /\ (n + 1) \div 4 <= n
          /\ (n + 1) \div 4 \in Int
          /\ Time!DaysTo(x + 1) = 365 * (n + 1) + (((n + 1) + 1) \div 4)
          /\ ((n + 1) + 1) \div 4 \in Int
          /\ Time!DaysTo(x + 2) = 365 * (n + 2) + (((n + 2) + 1) \div 4)
          /\ 0 <= ((n + 2) + 1) \div 4
          /\ ((n + 2) + 1) \div 4 \in Int
      BY <3>2, <3>3, SomeYears
    <3> HIDE DEF x
    <3> DEFINE a == (n + 1) \div 4  b == ((n + 1) + 1) \div 4  c == ((n + 2) + 1) \div 4
    <3> HIDE DEF a, b, c
    <3>5. /\ Time!DaysTo(x) = 365 * n + a /\ a <= n /\ Time!DaysTo(x + 1) = 365 * (n + 1) + b
          /\ Time!DaysTo(x + 2) = 365 * (n + 2) + c /\ 0 <= c /\ a \in Int /\ b \in Int
          /\ c \in Int
      BY <3>4 DEF a, b, c
    <3> QED BY <3>1, <3>2, <3>5
  <2> HIDE DEF x
  <2>3. x \in 1969..2038 /\ x + 1 \in 1969..2038 /\ x + 2 = (x + 1) + 1
    BY <2>1
  <2> QED BY <2>2, <2>3
<1> QED BY <1>1, <1>2 DEF Days

\* Where a month begins.
LEMMA MonthBegins ==
  ASSUME NEW y, NEW m \in 0..11
  PROVE  /\ Time!DaysToMonth(y, m) \in Nat
         /\ m < 11 => Time!DaysToMonth(y, m) < Time!DaysToMonth(y, m + 1)
               /\ Time!DaysToMonth(y, m + 1) <= Time!DaysToMonth(y, m) + 31
         /\ Time!DaysToMonth(y, 0) = 0
               /\ Time!DaysToMonth(y, 11) = IF Time!Leap(y) THEN 335 ELSE 334
<1> DEFINE s == IF Time!Leap(y) THEN 1 ELSE 0
<1>1. /\ Time!DaysToMonth(y, 0) = 0 /\ Time!DaysToMonth(y, 1) = 31
      /\ Time!DaysToMonth(y, 2) = 59 + s
      /\ Time!DaysToMonth(y, 3) = 90 + s /\ Time!DaysToMonth(y, 4) = 120 + s
      /\ Time!DaysToMonth(y, 5) = 151 + s
      /\ Time!DaysToMonth(y, 6) = 181 + s /\ Time!DaysToMonth(y, 7) = 212 + s
      /\ Time!DaysToMonth(y, 8) = 243 + s
      /\ Time!DaysToMonth(y, 9) = 273 + s /\ Time!DaysToMonth(y, 10) = 304 + s
      /\ Time!DaysToMonth(y, 11) = 334 + s
  BY DEF Time!DaysToMonth
<1>2. s \in {0, 1} /\ (s = 1 <=> Time!Leap(y))
  OBVIOUS
<1> HIDE DEF s
<1>3. Time!DaysToMonth(y, m) \in Nat
  BY <1>1, <1>2
<1>4. m < 11 => Time!DaysToMonth(y, m) < Time!DaysToMonth(y, m + 1)
         /\ Time!DaysToMonth(y, m + 1) <= Time!DaysToMonth(y, m) + 31
  <2>1. m \in {0, 1, 2, 3, 4, 5, 6, 7, 8, 9, 10, 11}
    OBVIOUS
  <2> QED BY <1>1, <1>2, <2>1
<1> QED BY <1>1, <1>2, <1>3, <1>4

\* Each day of a year is in a month.
LEMMA MonthExists ==
  ASSUME NEW y, NEW yday \in 0..365
  PROVE  \E m \in 0..11 : Time!DaysToMonth(y, m) <= yday
         /\ (m < 11 => yday < Time!DaysToMonth(y, m + 1))
<1>1. ~ (\A m \in 0..10 : Time!DaysToMonth(y, m) <= yday => Time!DaysToMonth(y, m + 1) <= yday)
      \/ Time!DaysToMonth(y, 11) <= yday
  <2>1. Time!DaysToMonth(y, 0) <= yday
    BY MonthBegins
  <2>2. ASSUME \A m \in 0..10 : Time!DaysToMonth(y, m) <= yday
               => Time!DaysToMonth(y, m + 1) <= yday
        PROVE  Time!DaysToMonth(y, 11) <= yday
    <3>1. 0 \in 0..10 /\ 1 \in 0..10 /\ 2 \in 0..10 /\ 3 \in 0..10 /\ 4 \in 0..10 /\ 5 \in 0..10
          /\ 6 \in 0..10 /\ 7 \in 0..10 /\ 8 \in 0..10 /\ 9 \in 0..10 /\ 10 \in 0..10
      OBVIOUS
    <3>2. /\ Time!DaysToMonth(y, 0 + 1) <= yday => Time!DaysToMonth(y, 1 + 1) <= yday
          /\ Time!DaysToMonth(y, 2) <= yday => Time!DaysToMonth(y, 2 + 1) <= yday
          /\ Time!DaysToMonth(y, 3) <= yday => Time!DaysToMonth(y, 3 + 1) <= yday
          /\ Time!DaysToMonth(y, 4) <= yday => Time!DaysToMonth(y, 4 + 1) <= yday
          /\ Time!DaysToMonth(y, 5) <= yday => Time!DaysToMonth(y, 5 + 1) <= yday
          /\ Time!DaysToMonth(y, 6) <= yday => Time!DaysToMonth(y, 6 + 1) <= yday
          /\ Time!DaysToMonth(y, 7) <= yday => Time!DaysToMonth(y, 7 + 1) <= yday
          /\ Time!DaysToMonth(y, 8) <= yday => Time!DaysToMonth(y, 8 + 1) <= yday
          /\ Time!DaysToMonth(y, 9) <= yday => Time!DaysToMonth(y, 9 + 1) <= yday
          /\ Time!DaysToMonth(y, 10) <= yday => Time!DaysToMonth(y, 10 + 1) <= yday
      BY <2>2, <3>1
    <3> QED BY <2>1, <2>2, <3>1, <3>2
  <2> QED BY <2>2
<1>2. \A m \in 0..11 : Time!DaysToMonth(y, m) \in Nat
  BY MonthBegins
<1>3. 11 \in 0..11 /\ \A m \in 0..10 : m \in 0..11 /\ m + 1 \in 0..11
  OBVIOUS
<1>4. CASE Time!DaysToMonth(y, 11) <= yday
  BY <1>3, <1>4
<1>5. CASE \E m \in 0..10 : Time!DaysToMonth(y, m) <= yday
              /\ ~(Time!DaysToMonth(y, m + 1) <= yday)
  <2>1. PICK m \in 0..10 : Time!DaysToMonth(y, m) <= yday
           /\ ~(Time!DaysToMonth(y, m + 1) <= yday)
    BY <1>5
  <2>2. yday < Time!DaysToMonth(y, m + 1)
    BY <1>2, <1>3, <2>1
  <2> QED BY <1>3, <2>1, <2>2
<1> QED BY <1>1, <1>4, <1>5

\* The year of a day, and the month of a day of it.
YearOf(day) == CHOOSE x \in 1969..2038 : Time!DaysTo(x) <= day /\ day < Time!DaysTo(x + 1)
MonthOf(y, yday) == CHOOSE m \in 0..11 : /\ Time!DaysToMonth(y, m) <= yday
                                         /\ m < 11 => yday < Time!DaysToMonth(y, m + 1)

\* They are what they should be.
LEMMA YearOfIs ==
  ASSUME NEW day \in Days
  PROVE  /\ YearOf(day) \in 1969..2038 /\ Time!DaysTo(YearOf(day)) \in Int
         /\ day - Time!DaysTo(YearOf(day)) \in 0..365
         /\ ~Time!Leap(YearOf(day)) => day - Time!DaysTo(YearOf(day)) < 365
<1> DEFINE y == YearOf(day)
<1>1. y \in 1969..2038 /\ Time!DaysTo(y) <= day /\ day < Time!DaysTo(y + 1)
  <2>1. \E x \in 1969..2038 : Time!DaysTo(x) <= day /\ day < Time!DaysTo(x + 1)
    BY YearExists
  <2> QED BY <2>1 DEF YearOf
<1>2. day \in Int
  BY DEF Days
<1> HIDE DEF y
<1>3. Time!DaysTo(y) \in Int
         /\ Time!DaysTo(y + 1) = Time!DaysTo(y) + IF Time!Leap(y) THEN 366 ELSE 365
  BY <1>1, YearLength
<1>4. Time!DaysTo(y) \in Int /\ day - Time!DaysTo(y) \in 0..365
         /\ (~Time!Leap(y) => day - Time!DaysTo(y) < 365)
  BY <1>1, <1>2, <1>3
<1> QED BY <1>1, <1>4 DEF y

\* The month is one of the year, and the day one of the month.
LEMMA MonthOfIs ==
  ASSUME NEW y, NEW yday \in 0..365, ~Time!Leap(y) => yday < 365
  PROVE  /\ MonthOf(y, yday) \in 0..11 /\ Time!DaysToMonth(y, MonthOf(y, yday)) \in Nat
         /\ yday - Time!DaysToMonth(y, MonthOf(y, yday)) + 1 \in 1..31
<1> DEFINE mon == MonthOf(y, yday)
<1>1. mon \in 0..11 /\ Time!DaysToMonth(y, mon) <= yday
         /\ (mon < 11 => yday < Time!DaysToMonth(y, mon + 1))
  <2>1. \E m : m \in 0..11 /\ Time!DaysToMonth(y, m) <= yday
           /\ (m < 11 => yday < Time!DaysToMonth(y, m + 1))
    BY MonthExists
  <2> QED BY <2>1, Zenon DEF MonthOf
<1> HIDE DEF mon
<1>2. mon < 11 => Time!DaysToMonth(y, mon + 1) <= Time!DaysToMonth(y, mon) + 31
         /\ Time!DaysToMonth(y, mon + 1) \in Nat
  <2>1. mon < 11 => mon + 1 \in 0..11
    BY <1>1
  <2> QED BY <1>1, <2>1, MonthBegins
<1>3. mon = 11 => Time!DaysToMonth(y, mon) = IF Time!Leap(y) THEN 335 ELSE 334
  BY <1>1, MonthBegins
<1>4. Time!DaysToMonth(y, mon) \in Nat
  BY <1>1, MonthBegins
<1>5. CASE mon < 11
  BY <1>1, <1>2, <1>4, <1>5 DEF mon
<1>6. CASE mon = 11
  BY <1>1, <1>3, <1>4, <1>6 DEF mon
<1> QED BY <1>1, <1>5, <1>6

\* The fields of a date.
Date(day, y, yday, mon, second) ==
    [tm_year |-> y - 1900, tm_mon |-> mon, tm_mday |-> yday - Time!DaysToMonth(y, mon) + 1,
     tm_wday |-> (day + 4) % 7, tm_yday |-> yday,
     tm_hour |-> second \div 3600, tm_min |-> (second \div 60) % 60, tm_sec |-> second % 60]

\* gmtime_r gives the fields of the day and of the second in it.
LEMMA Fields ==
  ASSUME NEW t
  PROVE  Time!gmtime_r(t) =
            Date(t \div 86400, YearOf(t \div 86400),
               (t \div 86400) - Time!DaysTo(YearOf(t \div 86400)),
                 MonthOf(YearOf(t \div 86400),
                    (t \div 86400) - Time!DaysTo(YearOf(t \div 86400))),
                 t % 86400)
BY DEF Time!gmtime_r, YearOf, MonthOf, Date

\* Seconds of a day are hours, minutes and seconds.
LEMMA Sixties ==
  ASSUME NEW s \in Nat
  PROVE  s \div 60 \in Nat /\ s % 60 \in 0..59 /\ s = 60 * (s \div 60) + (s % 60)
OBVIOUS

\* The hours come apart from the rest, ...
LEMMA Hours ==
  ASSUME NEW b \in Int, NEW c \in Int, 0 <= c, c <= 3599
  PROVE  (3600 * b + c) \div 3600 = b
OBVIOUS

\* ... so that the fields of the clock are the second of the day.
LEMMA Clock ==
  ASSUME NEW s \in Nat, s <= 86399
  PROVE  /\ s \div 3600 \in 0..23 /\ (s \div 60) % 60 \in 0..59 /\ s % 60 \in 0..59
         /\ 3600 * (s \div 3600) + 60 * ((s \div 60) % 60) + (s % 60) = s
<1> DEFINE a == s \div 60  r == s % 60  b == a \div 60  c == a % 60
<1>1. a \in Nat /\ r \in 0..59 /\ s = 60 * a + r
  BY Sixties
<1> HIDE DEF a, r
<1>2. b \in Nat /\ c \in 0..59 /\ a = 60 * b + c
  BY <1>1, Sixties
<1> HIDE DEF b, c
<1>3. s = 3600 * b + (60 * c + r) /\ 60 * c + r \in Int /\ 0 <= 60 * c + r /\ 60 * c + r <= 3599
  BY <1>1, <1>2
<1>4. s \div 3600 = b
  BY <1>2, <1>3, Hours
<1>5. b <= 23
  BY <1>2, <1>3
<1>6. b \in 0..23 /\ 3600 * b + 60 * c + r = s
  BY <1>1, <1>2, <1>3, <1>5
<1> QED BY <1>1, <1>2, <1>4, <1>6 DEF a, r, c

\* A moment is a day and a second of it.
LEMMA DaySeconds ==
  ASSUME NEW t \in Int
  PROVE  t \div 86400 \in Int /\ t % 86400 \in Nat /\ t % 86400 <= 86399
         /\ t = 86400 * (t \div 86400) + (t % 86400)
OBVIOUS

\* A week has seven days.
LEMMA WeekDay == ASSUME NEW d \in Int PROVE (d + 4) % 7 \in 0..6
OBVIOUS

\* A date has the fields of a struct tm, and mktime in Greenwich makes the moment of it.
IsDate(tm) ==
    /\ tm.tm_year \in 69..138 /\ tm.tm_mon \in 0..11 /\ tm.tm_mday \in 1..31
    /\ tm.tm_wday \in 0..6 /\ tm.tm_yday \in 0..365
    /\ tm.tm_hour \in 0..23 /\ tm.tm_min \in 0..59 /\ tm.tm_sec \in 0..59
    /\ tm = [tm_year |-> tm.tm_year, tm_mon |-> tm.tm_mon, tm_mday |-> tm.tm_mday,
             tm_wday |-> tm.tm_wday, tm_yday |-> tm.tm_yday,
             tm_hour |-> tm.tm_hour, tm_min |-> tm.tm_min, tm_sec |-> tm.tm_sec]
MomentOf(tm) ==
    86400 * (Time!DaysTo(tm.tm_year + 1900) + Time!DaysToMonth(tm.tm_year + 1900,
       tm.tm_mon) + tm.tm_mday - 1)
      + 3600 * tm.tm_hour + 60 * tm.tm_min + tm.tm_sec

Years == 1969..2038
YearDays == 0..365
Months == 0..11
MonthDays == 1..31

YDay(day) == day - Time!DaysTo(YearOf(day))
Month(day) == MonthOf(YearOf(day), YDay(day))
MDay(day) == YDay(day) - Time!DaysToMonth(YearOf(day), Month(day)) + 1

\* The fields of a date have their ranges.
LEMMA DateOfDay ==
  ASSUME NEW day \in Days
  PROVE  /\ YearOf(day) \in Years /\ YDay(day) \in YearDays
         /\ Month(day) \in Months /\ MDay(day) \in MonthDays
         /\ Time!DaysTo(YearOf(day)) \in Int
         /\ Time!DaysToMonth(YearOf(day), Month(day)) \in Nat
<1>1. /\ YearOf(day) \in Years /\ Time!DaysTo(YearOf(day)) \in Int /\ YDay(day) \in YearDays
      /\ ~Time!Leap(YearOf(day)) => YDay(day) < 365
  BY YearOfIs DEF Years, YearDays, YDay
<1>2. /\ Month(day) \in Months /\ Time!DaysToMonth(YearOf(day), Month(day)) \in Nat
      /\ MDay(day) \in MonthDays
  BY <1>1, MonthOfIs DEF YearDays, Months, MonthDays, Month, MDay
<1> QED BY <1>1, <1>2

\* The calendar knows the day of a moment.
InYears(t) == t \in Int /\ t \div 86400 \in Days

\* The date of a moment is one, and the moment is the date's.
LEMMA DateOfMoment ==
  ASSUME NEW t, InYears(t)
  PROVE  IsDate(Time!gmtime_r(t)) /\ MomentOf(Time!gmtime_r(t)) = t
<1>1. PICK day \in Days, second \in Nat :
         /\ day = t \div 86400 /\ second = t % 86400
         /\ day \in Int /\ second <= 86399 /\ t = 86400 * day + second
  BY DaySeconds DEF InYears
<1> DEFINE y == YearOf(day)  yday == YDay(day)  mon == Month(day)  d == MDay(day)
<1>2. /\ y \in Years /\ yday \in YearDays /\ mon \in Months /\ d \in MonthDays
      /\ Time!DaysTo(y) \in Int /\ Time!DaysToMonth(y, mon) \in Nat
  BY DateOfDay
<1>4. yday = day - Time!DaysTo(y) /\ d = yday - Time!DaysToMonth(y, mon) + 1
  BY DEF YDay, MDay
<1>3. Time!gmtime_r(t) = Date(day, y, yday, mon, second)
  BY <1>1, Fields DEF YDay, Month
<1> HIDE DEF y, yday, mon, d
<1> DEFINE h == second \div 3600
           mi == (second \div 60) % 60
           s == second % 60
           w == (day + 4) % 7
           tm == Date(day, y, yday, mon, second)
<1>7. tm = [tm_year |-> y - 1900, tm_mon |-> mon, tm_mday |-> d, tm_wday |-> w,
         tm_yday |-> yday,
            tm_hour |-> h, tm_min |-> mi, tm_sec |-> s]
  BY <1>4 DEF Date
<1>8. h \in 0..23 /\ mi \in 0..59 /\ s \in 0..59 /\ 3600 * h + 60 * mi + s = second
  BY <1>1, Clock
<1>9. w \in 0..6
  BY <1>1, WeekDay
<1> HIDE DEF h, mi, s, w, tm
<1>10. day = Time!DaysTo(y) + Time!DaysToMonth(y, mon) + d - 1
  BY <1>1, <1>2, <1>4 DEF Years, YearDays, Months, MonthDays
<1>11. 86400 * (Time!DaysTo(y) + Time!DaysToMonth(y, mon) + d - 1) + 3600 * h + 60 * mi + s = t
  <2>1. 86400 * day \in Int /\ 86400 * day + 3600 * h + 60 * mi + s = 86400 * day + second
    BY <1>1, <1>8
  <2> QED BY <1>1, <1>10, <2>1
<1>12. y - 1900 \in 69..138 /\ (y - 1900) + 1900 = y
  BY <1>2 DEF Years
<1>13. /\ tm.tm_year = y - 1900 /\ tm.tm_mon = mon /\ tm.tm_mday = d /\ tm.tm_wday = w
       /\ tm.tm_yday = yday /\ tm.tm_hour = h /\ tm.tm_min = mi /\ tm.tm_sec = s
  BY <1>7
<1>14. IsDate(tm)
  BY <1>2, <1>7, <1>8, <1>9, <1>12, <1>13 DEF IsDate, YearDays, Months, MonthDays
<1>15. MomentOf(tm) = t
  BY <1>11, <1>12, <1>13 DEF MomentOf
<1> QED BY <1>3, <1>14, <1>15 DEF tm

\* What the calendar is asked for: any reading of the clock, in any zone.
LEMMA InCalendar ==
  ASSUME NEW t \in Int, -93599 <= t, t <= Time!LastMoment + 93599
  PROVE  InYears(t)
<1>1. t \div 86400 \in Int /\ -2 <= t \div 86400 /\ t \div 86400 <= 24856
  BY SMT DEF Time!LastMoment
<1> QED BY <1>1, SMT DEF Days, InYears

\* The time a date was made of.
Local(t) == t - tiZone.west + Time!SummerHour(t)
Seen == IF tiSource.call = "localtime" THEN Local(tiSource.from.time) ELSE tiSource.from.time

Instant == [time : Moments, useconds : Time!Micros]

DateKnown ==
    /\ tiSource.from \in Instant
    /\ tiSysTime.date = Time!tm_time_to_sys_time(Time!gmtime_r(Seen))
    /\ tiSysTime.milliseconds = tiSource.from.useconds \div 1000
    /\ tiSysTime.dstflag = 0 /\ tiSysTime.timezone \in Time!MinutesWest

TimeInv ==
    /\ tiZone \in Zones /\ tiClock \in Instant
    /\ tiTime = None \/ tiTime \in Time!SKY_TIME
    /\ tiSysTime = None \/ DateKnown

\* What is assumed of moments and zones.
LEMMA TimeConstants ==
  ASSUME Time!TimeAssumption
  PROVE  /\ \A t \in Moments : t \in Int /\ 0 <= t /\ t <= Time!LastMoment
         /\ \A z \in Zones : z.west \in Int /\ -Time!LastZone <= z.west /\ z.west <= Time!LastZone
         /\ Time!LastMoment \in Int /\ Microseconds \subseteq Time!Micros
         /\ Time!LastZone \in Int /\ Time!LastZone <= 89999
<1>1. Time!LastMoment \in Int
  BY SMT DEF Time!LastMoment
<1>6. Time!LastZone \in Int /\ Time!LastZone <= 89999
  BY SMT DEF Time!LastZone
<1>2. \A t \in Moments : t \in 0..Time!LastMoment
  BY DEF Time!TimeAssumption
<1>3. \A t \in Moments : t \in Int /\ 0 <= t /\ t <= Time!LastMoment
  BY <1>1, <1>2
<1>4. \A z \in Zones : z \in [west : -Time!LastZone..Time!LastZone, summer : BOOLEAN]
  BY DEF Time!TimeAssumption
<1>5. \A z \in Zones : z.west \in Int /\ -Time!LastZone <= z.west /\ z.west <= Time!LastZone
  BY <1>4, <1>6
<1> QED BY <1>1, <1>3, <1>5, <1>6 DEF Time!TimeAssumption

\* In any zone a moment has a date, ...
LEMMA LocalInCalendar ==
  ASSUME Time!TimeAssumption, tiZone \in Zones, NEW t \in Moments
  PROVE  t \in Int /\ InYears(t) /\ Local(t) \in Int /\ InYears(Local(t))
<1>1. t \in Int /\ 0 <= t /\ t <= Time!LastMoment /\ Time!LastMoment \in Int
  BY TimeConstants
<1>2. /\ tiZone.west \in Int /\ -Time!LastZone <= tiZone.west /\ tiZone.west <= Time!LastZone
      /\ Time!LastZone \in Int /\ Time!LastZone <= 89999
  BY TimeConstants
<1> DEFINE w == tiZone.west
           h == Time!SummerHour(t)
<1>3. h \in Int /\ 0 <= h /\ h <= 3600
  BY DEF Time!SummerHour
<1> HIDE DEF w, h
<1>4. t - w + h \in Int /\ -93599 <= t - w + h
         /\ t - w + h <= Time!LastMoment + 93599
  BY <1>1, <1>2, <1>3, SMT DEF w
<1>5. Local(t) = t - w + h
  BY DEF Local, w, h
<1> HIDE DEF Local
<1>6. Local(t) \in Int /\ InYears(Local(t))
  BY <1>4, <1>5, InCalendar, SMT
<1>7. InYears(t)
  BY <1>1, InCalendar, SMT
<1> QED BY <1>1, <1>6, <1>7

\* ... so the one that was asked for has.
LEMMA SeenInCalendar ==
  ASSUME Time!TimeAssumption, tiZone \in Zones, DateKnown
  PROVE  Seen \in Int /\ InYears(Seen)
<1>1. tiSource.from.time \in Moments
  BY DEF DateKnown, Instant
<1> QED BY <1>1, LocalInCalendar DEF Seen

\* What is left of microseconds in a date, and what becomes of it.
LEMMA Thousandths ==
  ASSUME NEW u \in Time!Micros
  PROVE  u \div 1000 \in 0..999 /\ (u \div 1000) * 1000 \in Time!Micros
<1>1. Time!LastMicro \in Int /\ 999000 <= Time!LastMicro /\ Time!LastMicro <= 999999
  BY SMT DEF Time!LastMicro
<1>2. u \in Int /\ 0 <= u /\ u <= Time!LastMicro
  BY <1>1, SMT DEF Time!Micros
<1>3. u \div 1000 \in Int /\ 0 <= u \div 1000 /\ u \div 1000 <= 999
  BY <1>1, <1>2, SMT
<1>4. (u \div 1000) * 1000 \in Int /\ 0 <= (u \div 1000) * 1000
      /\ (u \div 1000) * 1000 <= Time!LastMicro
  BY <1>1, <1>3, SMT
<1> QED BY <1>1, <1>3, <1>4, SMT DEF Time!Micros

\* So with the milliseconds of the date at hand.
LEMMA Millis ==
  ASSUME DateKnown
  PROVE  tiSysTime.milliseconds \in 0..999 /\ tiSysTime.milliseconds * 1000 \in Time!Micros
<1>1. tiSource.from.useconds \in Time!Micros
  BY DEF DateKnown, Instant
<1> QED BY <1>1, Thousandths DEF DateKnown

\* mktime undoes what made the date, but for the zone.
LEMMA FromDate ==
  ASSUME Time!TimeAssumption, tiZone \in Zones, DateKnown
  PROVE  /\ Time!mktime(Time!sys_time_to_tm_time(tiSysTime.date), tiSysTime.dstflag) = Seen + tiZone.west
         /\ Time!mktime(Time!sys_time_to_tm_time(tiSysTime.date), tiSysTime.dstflag) \in Int
         /\ tiSysTime.milliseconds * 1000 \in Time!Micros
<1> DEFINE tm == Time!gmtime_r(Seen)
<1>1. IsDate(tm) /\ MomentOf(tm) = Seen /\ Seen \in Int
  BY SeenInCalendar, DateOfMoment
<1>2. tiSysTime.date = Time!tm_time_to_sys_time(tm) /\ tiSysTime.dstflag = 0
  BY DEF DateKnown
<1> HIDE DEF tm
<1>3. Time!sys_time_to_tm_time(Time!tm_time_to_sys_time(tm)) = tm
  BY <1>1 DEF IsDate, Time!sys_time_to_tm_time, Time!tm_time_to_sys_time
<1>4. Time!mktime(tm, 0) = MomentOf(tm) + tiZone.west - 0
  BY DEF Time!mktime, MomentOf
<1>5. tiZone.west \in Int
  BY TimeConstants
<1>6. Time!mktime(tm, 0) = Seen + tiZone.west /\ Seen + tiZone.west \in Int
  BY <1>1, <1>4, <1>5
<1>7. tiSysTime.milliseconds * 1000 \in Time!Micros
  BY Millis
<1> QED BY <1>2, <1>3, <1>6, <1>7

\* A zone is less than 25 hours from Greenwich in minutes, too.
LEMMA MinutesOfZone ==
  ASSUME Time!TimeAssumption, tiZone \in Zones
  PROVE  Time!ZoneInMinutes \in Time!MinutesWest
<1>1. /\ tiZone.west \in Int /\ -Time!LastZone <= tiZone.west /\ tiZone.west <= Time!LastZone
      /\ Time!LastZone \in Int /\ Time!LastZone <= 89999
  BY TimeConstants
<1> DEFINE w == tiZone.west
<1> HIDE DEF w
<1>2. ASSUME NEW s \in Int, 0 <= s, s <= 89999
      PROVE  s \div 60 \in Int /\ 0 <= s \div 60 /\ s \div 60 <= 1499
  BY <1>2, SMT
<1>3. ASSUME NEW n \in Int, -1499 <= n, n <= 1499 PROVE n \in Time!MinutesWest
  BY <1>3, SMT DEF Time!MinutesWest
<1>4. CASE w < 0
  <2>1. -w \in Int /\ 0 <= -w /\ -w <= 89999
    BY <1>1, <1>4, SMT DEF w
  <2> DEFINE n == (-w) \div 60
  <2>2. n \in Int /\ 0 <= n /\ n <= 1499
    BY <1>2, <2>1
  <2> HIDE DEF n
  <2>3. -n \in Time!MinutesWest
    BY <1>3, <2>2, SMT
  <2> QED BY <1>4, <2>3, Zenon DEF w, n, Time!ZoneInMinutes
<1>5. CASE ~(w < 0)
  <2>1. w \in Int /\ 0 <= w /\ w <= 89999
    BY <1>1, <1>5, SMT DEF w
  <2> DEFINE n == w \div 60
  <2>2. n \in Int /\ 0 <= n /\ n <= 1499
    BY <1>2, <2>1
  <2> HIDE DEF n
  <2>3. n \in Time!MinutesWest
    BY <1>3, <2>2, SMT
  <2> QED BY <1>5, <2>3, Zenon DEF w, n, Time!ZoneInMinutes
<1> QED BY <1>4, <1>5

\* What is made of a moment is its date.
LEMMA MadeKeepsInv ==
  ASSUME Time!TimeAssumption, TimeInv, NEW from \in Instant, NEW tm, NEW west \in Time!MinutesWest, NEW call,
         Time!Made(from, tm, west, call),
         tm = Time!gmtime_r(IF call = "localtime" THEN Local(from.time) ELSE from.time)
  PROVE  TimeInv'
<1>1. /\ tiSysTime' = [date |-> Time!tm_time_to_sys_time(tm), timezone |-> west, dstflag |-> 0,
                       milliseconds |-> from.useconds \div 1000]
      /\ tiSource' = [from |-> from, call |-> call]
      /\ UNCHANGED <<tiZone, tiClock, tiTime>>
  BY DEF Time!Made
<1>2. Local(from.time)' = Local(from.time)
  BY <1>1 DEF Local, Time!SummerHour, Time!Summer
<1>3. tiSource'.from = from /\ tiSource'.call = call
  BY <1>1
<1>4. Seen' = IF call = "localtime" THEN Local(from.time) ELSE from.time
  BY <1>1, <1>3 DEF Seen, Local, Time!SummerHour, Time!Summer
<1>5. /\ tiSysTime'.date = Time!tm_time_to_sys_time(tm)
      /\ tiSysTime'.milliseconds = from.useconds \div 1000
      /\ tiSysTime'.dstflag = 0 /\ tiSysTime'.timezone = west
  BY <1>1
<1>6. DateKnown'
  BY <1>3, <1>4, <1>5 DEF DateKnown
<1> QED BY <1>1, <1>6 DEF TimeInv

\* At first there is a zone and a clock and nothing else.
LEMMA TimeInit == Time!TimeAssumption /\ Time!Init => TimeInv
<1> SUFFICES ASSUME Time!TimeAssumption, Time!Init PROVE TimeInv
  OBVIOUS
<1>1. tiClock \in Instant
  BY TimeConstants DEF Time!Init, Instant
<1> QED BY <1>1 DEF Time!Init, TimeInv

\* Every step keeps the invariant.
LEMMA TimeNext == Time!TimeAssumption /\ TimeInv /\ [Time!Next]_(Time!vars) => TimeInv'
<1> SUFFICES ASSUME Time!TimeAssumption, TimeInv, [Time!Next]_(Time!vars) PROVE TimeInv'
  OBVIOUS
<1>1. tiClock \in Instant /\ Instant \subseteq Time!SKY_TIME
  BY TimeConstants DEF TimeInv, Instant, Time!SKY_TIME
<1>2. UNCHANGED <<tiZone, tiSysTime, tiSource>> => DateKnown' = DateKnown
  BY DEF DateKnown, Seen, Local, Time!SummerHour, Time!Summer
<1>3. ASSUME Time!sky_time_get_localtime PROVE TimeInv'
  <2>1. Time!ZoneInMinutes \in Time!MinutesWest
    BY MinutesOfZone DEF TimeInv
  <2> QED BY <1>1, <1>3, <2>1, MadeKeepsInv DEF Time!sky_time_get_localtime, Time!localtime_r, Local
<1>4. ASSUME Time!sky_time_get_gmtime PROVE TimeInv'
  <2>1. Time!ZoneInMinutes \in Time!MinutesWest
    BY MinutesOfZone DEF TimeInv
  <2> QED BY <1>1, <1>4, <2>1, MadeKeepsInv DEF Time!sky_time_get_gmtime
<1>5. ASSUME Time!sky_time_to_sys_time PROVE TimeInv'
  <2>1. tiTime \in Instant
    BY <1>5 DEF Time!sky_time_to_sys_time, TimeInv, Instant, Time!SKY_TIME
  <2>2. 0 \in Time!MinutesWest
    BY SMT DEF Time!MinutesWest
  <2> QED BY <1>5, <2>1, <2>2, MadeKeepsInv DEF Time!sky_time_to_sys_time
<1>6. ASSUME Time!sky_time_get PROVE TimeInv'
  BY <1>1, <1>2, <1>6 DEF Time!sky_time_get, TimeInv
<1>7. ASSUME Time!sky_time_from_sys_time PROVE TimeInv'
  <2>1. /\ tiSysTime # None /\ UNCHANGED <<tiZone, tiClock, tiSysTime, tiSource>>
        /\ tiTime' = [time |-> Time!mktime(Time!sys_time_to_tm_time(tiSysTime.date), tiSysTime.dstflag),
                      useconds |-> tiSysTime.milliseconds * 1000]
    BY <1>7 DEF Time!sky_time_from_sys_time
  <2>2. tiTime' \in Time!SKY_TIME
    BY <2>1, FromDate DEF TimeInv, Time!SKY_TIME
  <2> QED BY <1>2, <2>1, <2>2 DEF TimeInv
<1>8. ASSUME Time!ClockMoves PROVE TimeInv'
  <2>1. tiClock' \in Instant
    BY <1>8, TimeConstants DEF Time!ClockMoves, Instant
  <2> QED BY <1>2, <1>8, <2>1 DEF Time!ClockMoves, TimeInv
<1>9. ASSUME UNCHANGED Time!vars PROVE TimeInv'
  BY <1>2, <1>9 DEF Time!vars, TimeInv
<1> QED BY <1>3, <1>4, <1>5, <1>6, <1>7, <1>8, <1>9 DEF Time!Next

\* It has the types.
LEMMA TimeTypes == Time!TimeAssumption /\ TimeInv => Time!TypeOK
<1> SUFFICES ASSUME Time!TimeAssumption, TimeInv PROVE Time!TypeOK
  OBVIOUS
<1>1. tiZone \in Zones /\ tiClock \in Time!SKY_TIME
         /\ (tiTime = None \/ tiTime \in Time!SKY_TIME)
  BY TimeConstants DEF TimeInv, Instant, Time!SKY_TIME
<1>2. ASSUME tiSysTime # None
      PROVE  LET d == tiSysTime.date IN
             /\ d.year \in 1900..2038 /\ d.month \in 1..12 /\ d.day \in 1..31
             /\ d.day_of_week \in 1..7 /\ d.day_of_year \in 1..366
             /\ d.hour \in 0..23 /\ d.minute \in 0..59 /\ d.second \in 0..59
             /\ tiSysTime.milliseconds \in 0..999
             /\ tiSysTime.timezone \in Time!MinutesWest /\ tiSysTime.dstflag \in {-1, 0, 1}
  <2>1. tiZone \in Zones /\ DateKnown
    BY <1>2 DEF TimeInv
  <2> DEFINE tm == Time!gmtime_r(Seen)
  <2>2. IsDate(tm)
    BY <2>1, SeenInCalendar, DateOfMoment
  <2>3. tiSysTime.date = Time!tm_time_to_sys_time(tm)
    BY <2>1 DEF DateKnown
  <2>4. /\ tiSysTime.milliseconds \in 0..999
        /\ tiSysTime.timezone \in Time!MinutesWest /\ tiSysTime.dstflag \in {-1, 0, 1}
    BY <2>1, Millis DEF DateKnown
  <2> HIDE DEF tm
  <2>5. LET d == tiSysTime.date IN
        /\ d.year = tm.tm_year + 1900 /\ d.month = tm.tm_mon + 1 /\ d.day = tm.tm_mday
        /\ d.day_of_week = tm.tm_wday + 1 /\ d.day_of_year = tm.tm_yday + 1
        /\ d.hour = tm.tm_hour /\ d.minute = tm.tm_min /\ d.second = tm.tm_sec
    BY <2>3 DEF Time!tm_time_to_sys_time
  <2> QED BY <2>2, <2>4, <2>5 DEF IsDate
<1> QED BY <1>1, <1>2 DEF Time!TypeOK

\* A date turned into seconds misses its moment by what is said.
LEMMA TimeStep ==
  ASSUME Time!TimeAssumption, TimeInv, Time!sky_time_from_sys_time
  PROVE  tiTime' = [time |-> tiSource.from.time + Time!Missed,
                    useconds |-> (tiSource.from.useconds \div 1000) * 1000]
<1>1. /\ tiSysTime # None
      /\ tiTime' = [time |-> Time!mktime(Time!sys_time_to_tm_time(tiSysTime.date), tiSysTime.dstflag),
                    useconds |-> tiSysTime.milliseconds * 1000]
  BY DEF Time!sky_time_from_sys_time
<1>2. tiZone \in Zones /\ DateKnown /\ tiSource.from \in Instant
  BY <1>1 DEF TimeInv, DateKnown
<1>3. /\ Time!mktime(Time!sys_time_to_tm_time(tiSysTime.date), tiSysTime.dstflag) = Seen + tiZone.west
      /\ tiSysTime.milliseconds = tiSource.from.useconds \div 1000
  BY <1>2, FromDate DEF DateKnown
<1> DEFINE t == tiSource.from.time
<1>4. t \in Int /\ tiZone.west \in Int /\ Time!SummerHour(t) \in Int
  BY <1>2, TimeConstants DEF Instant, Time!SummerHour
<1>5. Seen + tiZone.west = t + Time!Missed
  <2>1. CASE tiSource.call = "localtime"
    <3>1. Seen = t - tiZone.west + Time!SummerHour(t) /\ Time!Missed = Time!SummerHour(t)
      BY <2>1 DEF Seen, Local, Time!Missed
    <3> QED BY <1>4, <3>1
  <2>2. CASE tiSource.call # "localtime"
    BY <2>2 DEF Seen, Time!Missed
  <2> QED BY <2>1, <2>2
<1> QED BY <1>1, <1>3, <1>5
----------------------------------------------------------------------------
(* The program's file *)

\* A set of numbers below a bound has a largest one.
LEMMA Largest ==
  ASSUME NEW n \in Nat, NEW S \in SUBSET (0..n), S # {}
  PROVE  \E k \in S : \A j \in S : j <= k
<1> DEFINE T == {n - k : k \in S}
<1>1. T \in SUBSET Nat /\ T # {}
  <2>1. \A k \in 0..n : n - k \in Nat
    OBVIOUS
  <2> QED BY <2>1
<1>2. PICK t \in T : \A u \in T : ~ (<<u, t>> \in OpToRel(<, Nat))
  BY <1>1, NatLessThanWellFounded, WFMin
<1>3. ASSUME NEW k \in Nat, NEW j \in Nat, j < k
      PROVE  <<j, k>> \in OpToRel(<, Nat)
  <2>1. <<j, k>> \in Nat \X Nat /\ <<j, k>>[1] < <<j, k>>[2]
    BY <1>3
  <2> QED BY <2>1 DEF OpToRel
<1>4. PICK k \in S : t = n - k
  OBVIOUS
<1>5. ASSUME NEW j \in S PROVE j <= k
  <2>1. n - j \in T /\ n - j \in Nat /\ n - k \in Nat /\ j \in Int /\ k \in Int
    OBVIOUS
  <2>2. ~ (n - j < n - k)
    BY <1>2, <1>3, <1>4, <2>1
  <2> QED BY <2>1, <2>2
<1> QED BY <1>5

\* How much of the path readlink leaves.
Kept == IF Len(paExe) < SKY_PATH_MAX THEN Len(paExe) ELSE SKY_PATH_MAX

\* What is read begins with a slash, so it has a last one.
LEMMA LastSlash ==
  ASSUME File!PathAssumption, paExe \in Path
  PROVE  /\ paExe \in Seq(STRING) /\ Kept \in 1..Len(paExe)
               /\ (Len(paExe) <= SKY_PATH_MAX => Kept = Len(paExe))
         /\ File!readlink \in Seq(STRING) /\ Len(File!readlink) = Kept
         /\ \A k \in 1..Kept : File!readlink[k] = paExe[k]
         /\ File!Slash \in 1..Kept /\ File!readlink[File!Slash] = "/"
<1>1. /\ paExe \in Seq(STRING) /\ Len(paExe) > 1 /\ paExe[1] = "/" /\ Len(paExe) \in Nat
      /\ SKY_PATH_MAX \in Nat \ {0}
  BY LenProperties DEF File!PathAssumption
<1>2. Kept \in 1..Len(paExe) /\ (Len(paExe) <= SKY_PATH_MAX => Kept = Len(paExe))
  BY <1>1 DEF Kept
<1>3. File!readlink = SubSeq(paExe, 1, Kept)
  BY DEF File!readlink, Kept
<1>4. /\ File!readlink \in Seq(STRING) /\ Len(File!readlink) = Kept
      /\ \A k \in 1..Kept : File!readlink[k] = paExe[k]
  <2> HIDE DEF Kept
  <2>1. \A k \in 1..Kept : paExe[k] \in STRING
    BY <1>1, <1>2, ElementOfSeq
  <2>2. Kept \in Int /\ 1 <= Kept
    BY <1>1, <1>2
  <2>3. /\ SubSeq(paExe, 1, Kept) \in Seq(STRING)
        /\ Len(SubSeq(paExe, 1, Kept)) = Kept - 1 + 1
        /\ \A k \in 1..(Kept - 1 + 1) : SubSeq(paExe, 1, Kept)[k] = paExe[1 + k - 1]
    BY <2>1, <2>2, SubSeqProperties
  <2> QED BY <1>3, <2>2, <2>3
<1> HIDE DEF Kept
<1> DEFINE r == File!readlink
           S == {k \in 1..Kept : r[k] = "/"}
<1>5. S \in SUBSET (0..Kept) /\ S # {} /\ Kept \in Nat
  BY <1>1, <1>2, <1>4
<1>6. PICK k \in S : \A j \in S : j <= k
  <2> HIDE DEF S
  <2> QED BY <1>5, Largest
<1>7. k \in 1..Len(r) /\ r[k] = "/" /\ \A m \in (k + 1)..Len(r) : r[m] # "/"
  <2>1. \A m \in (k + 1)..Kept : m \in 1..Kept /\ ~(m <= k)
    BY <1>5, <1>6
  <2> QED BY <1>4, <1>6, <2>1
<1>8. File!Slash \in 1..Len(r) /\ r[File!Slash] = "/"
  BY <1>7 DEF File!Slash
<1> QED BY <1>1, <1>2, <1>4, <1>8

\* The halves and the slash between them are what was read, and that is a part
\* of the path.
LEMMA HalvesOfPath ==
  ASSUME File!PathAssumption, paExe \in Path
  PROVE  LET joined == File!BeforeSlash \o <<"/">> \o File!AfterSlash IN
         /\ File!BeforeSlash \in Seq(STRING) /\ File!AfterSlash \in Seq(STRING)
         /\ IF Len(paExe) <= SKY_PATH_MAX THEN joined = paExe ELSE File!IsPrefix(joined, paExe)
<1> DEFINE r == File!readlink
           s == File!Slash
<1>1. /\ paExe \in Seq(STRING) /\ Kept \in 1..Len(paExe)
            /\ (Len(paExe) <= SKY_PATH_MAX => Kept = Len(paExe))
      /\ r \in Seq(STRING) /\ Len(r) = Kept
      /\ \A k \in 1..Kept : r[k] = paExe[k]
      /\ s \in 1..Kept /\ r[s] = "/" /\ Len(paExe) \in Nat
  BY LastSlash, LenProperties
<1>2. File!BeforeSlash = SubSeq(r, 1, s - 1) /\ File!AfterSlash = SubSeq(r, s + 1, Len(r))
  BY DEF File!BeforeSlash, File!AfterSlash
<1> HIDE DEF r, s, Kept
<1>3. Kept \in Nat /\ s \in Nat /\ 1 <= s /\ s <= Kept
  BY <1>1
<1>4. SubSeq(r, 1, s - 1) \in Seq(STRING) /\ SubSeq(r, s + 1, Kept) \in Seq(STRING)
  <2>1. \A k \in 1..Kept : r[k] \in STRING
    BY <1>1, ElementOfSeq
  <2>2. (\A k \in 1..(s - 1) : r[k] \in STRING) /\ (\A k \in (s + 1)..Kept : r[k] \in STRING)
    BY <2>1, <1>3
  <2>3. s - 1 \in Int /\ s + 1 \in Int /\ Kept \in Int /\ 1 \in Int
    BY <1>3
  <2> QED BY <2>2, <2>3, SubSeqProperties
<1>5. SubSeq(r, 1, s) = SubSeq(r, 1, s - 1) \o <<r[s]>>
  <2>1. 1 \in 1..Len(r) /\ s \in 1..Len(r)
    BY <1>1, <1>3
  <2> QED BY <1>1, <2>1, SubSeqRecursiveSecond
<1>6. SubSeq(r, 1, s) \o SubSeq(r, s + 1, Kept) = SubSeq(r, 1, Kept)
  <2>1. 1 \in 1..(Len(r) + 1) /\ s \in (1 - 1)..Len(r) /\ Kept \in s..Len(r)
    BY <1>1, <1>3
  <2> QED BY <1>1, <2>1, ConcatAdjacentSubSeq
<1>7. SubSeq(r, 1, Kept) = r
  BY <1>1, SubSeqFull
<1> DEFINE joined == File!BeforeSlash \o <<"/">> \o File!AfterSlash
<1>8. joined = r
  BY <1>1, <1>2, <1>5, <1>6, <1>7
<1>9. Len(paExe) <= SKY_PATH_MAX => r = paExe
  <2>1. Kept = Len(paExe) => r = paExe
    BY <1>1, SeqEqual
  <2> QED BY <1>1, <2>1
<1>10. File!IsPrefix(r, paExe)
  <2>1. Kept <= Len(paExe) /\ \A k \in 1..Kept : k \in 1..Len(paExe)
    BY <1>1
  <2>2. SubSeq(r, 1, Kept) = SubSeq(paExe, 1, Kept)
    BY <1>1, <2>1
  <2> QED BY <1>1, <2>1, <2>2 DEF File!IsPrefix
<1> HIDE DEF joined
<1> QED BY <1>1, <1>2, <1>4, <1>8, <1>9, <1>10 DEF joined

\* An answer is an error, or fits the buffer; and unless the program was moved
\* it is none yet, an error, or its half of the path.
Fits(a) == /\ a.len \in Nat
           /\ \/ a.code \in {-5, -4, -3, -2}
              \/ a.code = Len(a.buf) /\ a.code \in Nat /\ (a.len > 0 => Len(a.buf) < a.len)

IsHalf(a, half) == a.code < 0 \/ a = File!NoAnswer \/ a.buf = half

FileInv == /\ paExe \in Path /\ paMoved \in BOOLEAN
           /\ Fits(paName) /\ Fits(paDirectory)
           /\ ~paMoved => /\ IsHalf(paName, File!AfterSlash)
                          /\ IsHalf(paDirectory, File!BeforeSlash)

\* Before a call there is no answer.
LEMMA NothingFits == Fits(File!NoAnswer) /\ \A half : IsHalf(File!NoAnswer, half)
<1>1. File!NoAnswer.code = 0 /\ File!NoAnswer.buf = <<>> /\ File!NoAnswer.len = 0
  BY DEF File!NoAnswer
<1>2. Len(<<>>) = 0 /\ 0 \in Nat
  OBVIOUS
<1> QED BY <1>1, <1>2 DEF Fits, IsHalf

\* So at first.
LEMMA FileInit == File!Init => FileInv
BY NothingFits DEF File!Init, FileInv

\* The answer of a call that was given a buffer.
LEMMA AnswerFits ==
  ASSUME NEW half \in Seq(STRING), NEW len \in Nat,
         NEW a \in {File!Answer(half, len), File!Fails(-3, len)}
  PROVE  Fits(a) /\ IsHalf(a, half)
<1>1. Len(half) \in Nat
  BY LenProperties
<1>2. ASSUME NEW c \in {-5, -4, -3, -2}, a = File!Fails(c, len) PROVE Fits(a) /\ IsHalf(a, half)
  <2>1. a.code = c /\ a.len = len /\ c < 0
    BY <1>2 DEF File!Fails
  <2> QED BY <2>1 DEF Fits, IsHalf
<1>3. ASSUME Len(half) + 1 <= len, a = [code |-> Len(half), buf |-> half, len |-> len]
      PROVE  Fits(a) /\ IsHalf(a, half)
  <2>1. a.code = Len(half) /\ a.buf = half /\ a.len = len /\ Len(half) < len
    BY <1>1, <1>3
  <2> QED BY <1>1, <2>1 DEF Fits, IsHalf
<1>4. \/ \E c \in {-5, -4, -3, -2} : a = File!Fails(c, len)
      \/ ~(Len(half) + 1 > len) /\ a = [code |-> Len(half), buf |-> half, len |-> len]
  BY DEF File!Answer
<1> QED BY <1>1, <1>2, <1>3, <1>4

\* Every step keeps the invariant.
LEMMA FileNext == File!PathAssumption /\ FileInv /\ [File!Next]_(File!vars) => FileInv'
<1> SUFFICES ASSUME File!PathAssumption, FileInv, [File!Next]_(File!vars) PROVE FileInv'
  OBVIOUS
<1>1. File!BeforeSlash \in Seq(STRING) /\ File!AfterSlash \in Seq(STRING)
  BY HalvesOfPath DEF FileInv
<1>2. paExe' = paExe => File!AfterSlash' = File!AfterSlash
         /\ File!BeforeSlash' = File!BeforeSlash
  BY DEF File!AfterSlash, File!BeforeSlash, File!Slash, File!readlink
<1>3. Fits(File!NoAnswer) /\ \A half : IsHalf(File!NoAnswer, half)
  BY NothingFits
<1>4. ASSUME NEW len \in Buffers, File!sky_sys_get_process_name(len) PROVE FileInv'
  <2>1. Fits(paName') /\ IsHalf(paName', File!AfterSlash)
    BY <1>1, <1>4, AnswerFits DEF File!sky_sys_get_process_name, File!PathAssumption
  <2>2. UNCHANGED <<paExe, paDirectory, paMoved>>
    BY <1>4 DEF File!sky_sys_get_process_name
  <2> QED BY <1>2, <2>1, <2>2 DEF FileInv
<1>5. ASSUME NEW len \in Buffers, File!sky_sys_get_process_directory(len) PROVE FileInv'
  <2>1. Fits(paDirectory') /\ IsHalf(paDirectory', File!BeforeSlash)
    BY <1>1, <1>5, AnswerFits DEF File!sky_sys_get_process_directory, File!PathAssumption
  <2>2. UNCHANGED <<paExe, paName, paMoved>>
    BY <1>5 DEF File!sky_sys_get_process_directory
  <2> QED BY <1>2, <2>1, <2>2 DEF FileInv
<1>6. ASSUME File!Move PROVE FileInv'
  <2>1. /\ paExe' \in Path /\ UNCHANGED <<paName, paDirectory>>
        /\ paMoved' = (paName # File!NoAnswer \/ paDirectory # File!NoAnswer)
    BY <1>6 DEF File!Move
  <2> QED BY <1>3, <2>1 DEF FileInv
<1>7. ASSUME File!Forget PROVE FileInv'
  BY <1>3, <1>7 DEF File!Forget, FileInv
<1>8. ASSUME UNCHANGED File!vars PROVE FileInv'
  BY <1>2, <1>8 DEF File!vars, FileInv
<1> QED BY <1>4, <1>5, <1>6, <1>7, <1>8 DEF File!Next

\* It says that the halves join to the path.
LEMMA FileRight == File!PathAssumption /\ FileInv => HalvesJoin
<1> SUFFICES ASSUME File!PathAssumption, FileInv PROVE File!TypeOK /\ File!HalvesJoin
  BY DEF HalvesJoin
<1>1. File!TypeOK
  <2>1. ASSUME NEW a, Fits(a)
        PROVE  /\ a.code \in {-5, -4, -3, -2} \cup Nat
               /\ a.code >= 0 => a.code = Len(a.buf)
               /\ a.len > 0 /\ a.code >= 0 => Len(a.buf) < a.len
    BY <2>1 DEF Fits
  <2> QED BY <2>1 DEF FileInv, File!TypeOK
<1>2. ASSUME File!Both, ~paMoved
      PROVE  paName.buf = File!AfterSlash /\ paDirectory.buf = File!BeforeSlash
  <2>1. paName.len # 0 /\ paDirectory.len # 0
    BY <1>2 DEF File!Both, FileInv, Fits
  <2>2. paName # File!NoAnswer /\ paDirectory # File!NoAnswer
    BY <2>1 DEF File!NoAnswer
  <2> QED BY <1>2, <2>2 DEF File!Both, FileInv, Fits, IsHalf
<1>3. File!HalvesJoin
  <2> SUFFICES ASSUME File!Both, ~paMoved
               PROVE  LET joined == paDirectory.buf \o <<"/">> \o paName.buf IN
                      IF Len(paExe) <= SKY_PATH_MAX THEN joined = paExe
                                                    ELSE File!IsPrefix(joined, paExe)
    BY DEF File!HalvesJoin
  <2>1. paName.buf = File!AfterSlash /\ paDirectory.buf = File!BeforeSlash
    BY <1>2
  <2>2. paExe \in Path
    BY DEF FileInv
  <2> QED BY <2>1, <2>2, HalvesOfPath
<1> QED BY <1>1, <1>3
----------------------------------------------------------------------------
(* The whole *)

\* A step of the whole is one of one part, and the others stand.
LEMMA DataStepOfParts ==
  ASSUME [DataNext]_allVars
  PROVE  /\ [Next]_vars /\ [Hash!Next]_(Hash!vars) /\ [Base64!Next]_(Base64!vars)
         /\ [Hex!Next]_(Hex!vars) /\ [Time!Next]_(Time!vars) /\ [File!Next]_(File!vars)
<1>1. UNCHANGED vars \/ Next
  BY DEF DataNext, allVars
<1>2. UNCHANGED haVars \/ Hash!Next
  BY DEF DataNext, allVars
<1>3. UNCHANGED baVars \/ Base64!Next
  BY DEF DataNext, allVars
<1>4. UNCHANGED hxVars \/ Hex!Next
  BY DEF DataNext, allVars
<1>5. UNCHANGED tiVars \/ Time!Next
  BY DEF DataNext, allVars
<1>6. UNCHANGED paVars \/ File!Next
  BY DEF DataNext, allVars
<1>7. /\ UNCHANGED haVars => UNCHANGED Hash!vars
      /\ UNCHANGED baVars => UNCHANGED Base64!vars
      /\ UNCHANGED hxVars => UNCHANGED Hex!vars
      /\ UNCHANGED tiVars => UNCHANGED Time!vars
      /\ UNCHANGED paVars => UNCHANGED File!vars
  BY DEF haVars, Hash!vars, baVars, Base64!vars, hxVars, Hex!vars, tiVars, Time!vars,
         paVars, File!vars
<1> QED BY <1>1, <1>2, <1>3, <1>4, <1>5, <1>6, <1>7

\* So the parts begin and go on as they do alone.
LEMMA DataSpecOfParts ==
  DataSpec => /\ Spec /\ Hash!Spec /\ Base64!Spec /\ Hex!Spec /\ Time!Spec /\ File!Spec
<1>1. DataInit => /\ Init /\ Hash!Init /\ Base64!Init /\ Hex!Init /\ Time!Init /\ File!Init
  BY DEF DataInit
<1> QED BY <1>1, DataStepOfParts, PTL
        DEF DataSpec, Spec, Hash!Spec, Base64!Spec, Hex!Spec, Time!Spec, File!Spec
----------------------------------------------------------------------------
(* The properties *)

\* sky_process_is_first_instance and the way into the background (sky_process.c:
\* 42-122): two first instances there are never, and the first has the lock.
THEOREM InstanceAlone == DataSpec => []InstanceLock
<1>1. ProcessAssumption
  BY DataAssumption
<1> QED BY <1>1, FirstInstanceAlone, DataSpecOfParts, PTL

\* The table of sky_hash.c implements the map of SkyHashSpec: an add is
\* remembered or, for a new key only, refused, and a find answers the value
\* that was added last; its keys are the copies in key_array, whichever
\* allocation fails; and it has room for what was asked for (sky_hash.c:33-193).
THEOREM TableIsMap == DataSpec => HashIsMap
<1>1. Hash!HashAssumption
  BY DataAssumption
<1>2. Hash!Init => HashInv
  BY <1>1, HashInit
<1>3. HashInv /\ [Hash!Next]_(Hash!vars) => HashInv'
  BY <1>1, HashNext
<1>4. HashInv => Hash!TypeOK /\ Hash!KeysOwned /\ Hash!RoomForSize
  <2> SUFFICES ASSUME HashInv, Hash!Live, haCramped # None, haSize + Spare < HashModulus
               PROVE  haCramped >= haSize
    BY DEF HashInv, Hash!RoomForSize
  <2>1. haSize \in Nat /\ Spare \in Nat /\ HashModulus \in Nat
    BY <1>1 DEF HashInv, Hash!TypeOK, Hash!Live, Hash!HashAssumption
  <2>2. (haSize + Spare) % HashModulus = haSize + Spare
    BY <2>1
  <2>3. haSize + Spare <= haCramped /\ haCramped \in Nat
    BY <2>2 DEF HashInv, Roomy, Hash!TypeOK
  <2> QED BY <2>1, <2>3
<1>5. Hash!Init => Hash!Abstract!Init
  <2> SUFFICES ASSUME Hash!Init PROVE Hash!Abstract!Init
    OBVIOUS
  <2>1. ~Hash!Live /\ haAnswer = None /\ \A k \in Key : Hash!DataOf(k) = None
    BY DEF Hash!Init, Hash!Live, Hash!DataOf, Hash!FIND
  <2> QED BY <2>1 DEF Hash!Abstract!Init, Hash!Abstract!Empty, Hash!Mapped
<1>6. HashInv /\ HashInv' /\ [Hash!Next]_(Hash!vars)
        => [Hash!Abstract!Next]_(Hash!Abstract!vars)
  BY <1>1, HashNextRefines
<1> QED BY <1>2, <1>3, <1>4, <1>5, <1>6, DataSpecOfParts, PTL
        DEF Hash!Spec, HashIsMap, Hash!ImplementsHash, Hash!Abstract!Spec

\* What sky_base64_decode makes of what sky_base64_encode made is what was
\* encoded, once the table is filled, and the text between is base64; so with
\* sky_str_to_hex and sky_str_from_hex, and no octet is written outside the
\* buffers, but where a char is signed (sky_base64.c:41-133, sky_str.c:98-141).
THEOREM TextComesBack == DataSpec => []TextInverts
<1>1. Base64!Base64Assumption /\ Hex!HexAssumption
  BY DataAssumption
<1>2. Base64!Init => BaseInv
  BY <1>1, BaseInit
<1>3. BaseInv /\ [Base64!Next]_(Base64!vars) => BaseInv'
  BY <1>1, BaseNext
<1>4. Hex!Init => HexInv
  BY HexInit
<1>5. HexInv /\ [Hex!Next]_(Hex!vars) => HexInv'
  BY <1>1, HexNext
<1>6. BaseInv /\ HexInv => TextInverts
  BY <1>1, BaseTypes, BaseRight, HexRight DEF TextInverts
<1> QED BY <1>2, <1>3, <1>4, <1>5, <1>6, DataSpecOfParts, PTL DEF Base64!Spec, Hex!Spec

\* A date turned into seconds is the moment it was made from, to the millisecond,
\* over leap days and the ends of years, but for the hour of summer time, which
\* the date does not tell, and the whole zone if it is in UTC; and the fields of
\* every date are in the ranges of sky_sys.h:39-52 (sky_sys.c:119-272).
THEOREM DateIsMoment == DataSpec => DateKeepsMoment
<1>1. Time!TimeAssumption
  BY DataAssumption
<1>2. Time!Init => TimeInv
  BY <1>1, TimeInit
<1>3. TimeInv /\ [Time!Next]_(Time!vars) => TimeInv'
  BY <1>1, TimeNext
<1>4. TimeInv => Time!TypeOK
  BY <1>1, TimeTypes
<1> DEFINE A == Time!sky_time_from_sys_time =>
                   tiTime' = [time |-> tiSource.from.time + Time!Missed,
                              useconds |-> (tiSource.from.useconds \div 1000) * 1000]
<1>5. TimeInv /\ [Time!Next]_(Time!vars) => [A]_(Time!vars)
  BY <1>1, TimeStep
<1> QED BY <1>2, <1>3, <1>4, <1>5, DataSpecOfParts, PTL
        DEF Time!Spec, DateKeepsMoment, Time!DateKeepsMoment

\* The directory of the program, a slash and its name are its path, or what of
\* it fits the code's own buffer, and each fits the caller's buffer or is an
\* error (sky_sys.c:322-401).
THEOREM HalvesArePath == DataSpec => []HalvesJoin
<1>1. File!PathAssumption
  BY DataAssumption
<1>2. File!Init => FileInv
  BY FileInit
<1>3. FileInv /\ [File!Next]_(File!vars) => FileInv'
  BY <1>1, FileNext
<1>4. FileInv => HalvesJoin
  BY <1>1, FileRight
<1> QED BY <1>2, <1>3, <1>4, DataSpecOfParts, PTL DEF File!Spec
=============================================================================
