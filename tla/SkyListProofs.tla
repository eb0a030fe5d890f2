--------------------------- MODULE SkyListProofs ---------------------------
(* Proofs about SkyList, for every heap, every set of data pointers and      *)
(* every bound: the invariant and, below it, the refinement of SkyListSpec.  *)
EXTENDS SkyList, Sequences, SequenceTheorems, TLAPS

\* The inductive invariant: the shape of the list, of the unused nodes and of
\* the heap, and where the call in progress stands on it.
Inv == TypeOK /\ WellLinked /\ SparesLinked /\ HeapPartition /\ WalkOnList

LEMMA InitInv == Init => Inv
<1> SUFFICES ASSUME Init PROVE Inv
  OBVIOUS
<1> USE ListAssumption DEF Init, NoLocals, NoChain, Cell, Ptr
<1>1. TypeOK
  BY DEF TypeOK, PC
<1>2. WellLinked /\ SparesLinked
  BY DEF WellLinked, SparesLinked
<1>3. HeapPartition
  BY DEF HeapPartition, Listed, Unused
<1>4. WalkOnList
  BY DEF WalkOnList, Walks
<1> QED BY <1>1, <1>2, <1>3, <1>4 DEF Inv

\* A call that only observes the list, or only moves its own iterator.
LEMMA SameShape ==
  ASSUME Inv, TypeOK', WalkOnList', UNCHANGED <<links, heap, header, shape>>,
         pc # "absent", pc' # "absent", pc \notin {"clear", "destroy", "drain"},
         item' = item, pc' # "drain"
  PROVE  Inv'
<1> USE DEF Inv, links, header, shape
<1>1. WellLinked'
  BY DEF WellLinked
<1>2. SparesLinked'
  BY DEF SparesLinked
<1>3. HeapPartition'
  BY DEF HeapPartition, Listed, Unused
<1> QED BY <1>1, <1>2, <1>3

\* No cell is twice on the list, the sentinels included.
LEMMA ChainDistinct ==
  ASSUME Inv, pc \notin {"absent", "drain"},
         NEW i \in 0..(count + 1), NEW j \in 0..(count + 1), chain[i] = chain[j]
  PROVE  i = j
<1>1. count \in Nat /\ WellLinked
  BY DEF Inv, TypeOK
<1>2. \A k \in 0..(count + 1) : k = 0 \/ k = count + 1 \/ k \in 1..count
  BY <1>1
<1>3. \A k \in 1..count : chain[k] # head /\ chain[k] # tail
  BY <1>1, ListAssumption DEF WellLinked
<1>4. chain[0] = head /\ chain[count + 1] = tail /\ head # tail
  BY <1>1, ListAssumption DEF WellLinked
<1>5. CASE i \in 1..count /\ j \in 1..count
  BY <1>1, <1>5 DEF WellLinked
<1> QED BY <1>2, <1>3, <1>4, <1>5

\* A node put before the first unused one.
LEMMA SparePush ==
  ASSUME SparesLinked, nspare \in Nat, spare \in [1..nspare -> Node],
         NEW n \in Node, n \notin Unused,
         prealloc' = n, nspare' = nspare + 1,
         spare' = [j \in 1..(nspare + 1) |-> IF j = nspare + 1 THEN n ELSE spare[j]],
         next'[n] = prealloc, \A c \in Unused : next'[c] = next[c]
  PROVE  /\ SparesLinked'
         /\ Unused' = Unused \cup {n}
         /\ spare' \in [1..nspare' -> Node]
<1>1. /\ \A j \in 1..nspare : j \in 1..nspare' /\ spare'[j] = spare[j]
      /\ nspare + 1 \in 1..nspare' /\ spare'[nspare + 1] = n
      /\ \A j \in 1..nspare' : j \in 1..nspare \/ j = nspare + 1
  OBVIOUS
<1>2. /\ prealloc = IF nspare = 0 THEN NULL ELSE spare[nspare]
      /\ \A j \in 1..nspare : next[spare[j]] = IF j = 1 THEN NULL ELSE spare[j - 1]
      /\ \A i, j \in 1..nspare : spare[i] = spare[j] => i = j
      /\ \A j \in 1..nspare : spare[j] # n /\ next'[spare[j]] = next[spare[j]]
  BY DEF SparesLinked, Unused
<1>3. Unused' = Unused \cup {n}
  <2>1. ASSUME NEW c, c \in Unused' PROVE c \in Unused \cup {n}
    BY <2>1, <1>1 DEF Unused
  <2>2. ASSUME NEW c, c \in Unused \cup {n} PROVE c \in Unused'
    BY <2>2, <1>1 DEF Unused
  <2> QED BY <2>1, <2>2
<1>4. prealloc' = spare'[nspare'] /\ nspare' # 0
  BY <1>1
<1>5. ASSUME NEW j \in 1..nspare'
      PROVE  next'[spare'[j]] = IF j = 1 THEN NULL ELSE spare'[j - 1]
  <2>1. CASE j \in 1..nspare
    <3>1. j # 1 => j - 1 \in 1..nspare
      BY <2>1
    <3> QED BY <3>1, <2>1, <1>1, <1>2
  <2>2. CASE j = nspare + 1
    <3>1. j # 1 => j - 1 = nspare /\ nspare # 0 /\ nspare \in 1..nspare
      BY <2>2
    <3>2. j = 1 => nspare = 0
      BY <2>2
    <3> QED BY <3>1, <3>2, <2>2, <1>1, <1>2
  <2> QED BY <2>1, <2>2, <1>1
<1>6. ASSUME NEW i \in 1..nspare', NEW j \in 1..nspare', spare'[i] = spare'[j] PROVE i = j
  BY <1>1, <1>2, <1>6
<1>7. spare' \in [1..nspare' -> Node]
  OBVIOUS
<1> QED BY <1>3, <1>4, <1>5, <1>6, <1>7 DEF SparesLinked

\* Linking n at position k of a well-linked list leaves a well-linked list
\* with one more node, and touches no other node's next link.
LEMMA LinkList ==
  ASSUME Inv, pc \in {"idle", "insert"}, pc' = "idle",
         NEW n \in Node, n \notin Listed, NEW d \in Value, NEW k \in 1..(count + 1),
         Link(n, d, chain[k - 1], chain[k], k)
  PROVE  /\ next' \in [Cell -> Ptr] /\ prev' \in [Cell -> Ptr] /\ data' \in [Cell -> Value]
         /\ count' = count + 1 /\ chain' \in [0..(count' + 1) -> Cell]
         /\ WellLinked'
         /\ Listed' = Listed \cup {n}
         /\ \A c \in Node : c # n /\ c \notin Listed => next'[c] = next[c]
<1> USE ListAssumption DEF Cell, Ptr
<1>1. /\ count \in Nat /\ chain \in [0..(count + 1) -> Cell]
      /\ next \in [Cell -> Ptr] /\ prev \in [Cell -> Ptr] /\ data \in [Cell -> Value]
  BY DEF Inv, TypeOK
<1>2. /\ chain[0] = head /\ chain[count + 1] = tail
      /\ \A i \in 1..count : chain[i] \in Node
      /\ \A i, j \in 1..count : chain[i] = chain[j] => i = j
      /\ \A i \in 0..count : next[chain[i]] = chain[i + 1] /\ prev[chain[i + 1]] = chain[i]
      /\ next[tail] = NULL
  BY DEF Inv, WellLinked
<1>3. \A i, j \in 0..(count + 1) : chain[i] = chain[j] => i = j
  BY ChainDistinct
<1>4. \A i \in 0..(count + 1) : chain[i] # n
  BY <1>1, <1>2 DEF Listed
<1>5. /\ count' = count + 1 /\ chain' \in [0..(count' + 1) -> Cell]
      /\ next' \in [Cell -> Ptr] /\ prev' \in [Cell -> Ptr] /\ data' \in [Cell -> Value]
  <2>1. count' = count + 1 /\ next' \in [Cell -> Ptr] /\ prev' \in [Cell -> Ptr]
        /\ data' \in [Cell -> Value]
    <3>1. chain[k - 1] \in Cell /\ chain[k] \in Cell /\ n \in Cell
      BY <1>1
    <3> HIDE DEF Cell
    <3> QED BY <3>1, <1>1 DEF Link
  <2>2. /\ chain' = [i \in 0..(count + 2) |->
                        IF i < k THEN chain[i] ELSE IF i = k THEN n ELSE chain[i - 1]]
        /\ count' + 1 = count + 2
    BY <2>1, <1>1 DEF Link
  <2>3. ASSUME NEW i \in 0..(count + 2)
        PROVE  (IF i < k THEN chain[i] ELSE IF i = k THEN n ELSE chain[i - 1]) \in Cell
    <3>1. CASE i < k
      <4>1. i \in 0..(count + 1)
        BY <3>1, <1>1
      <4> QED BY <4>1, <3>1, <1>1
    <3>2. CASE i = k
      BY <3>2, <1>1
    <3>3. CASE i > k
      <4>1. i - 1 \in 0..(count + 1) /\ ~(i < k) /\ i # k
        BY <3>3, <1>1
      <4> QED BY <4>1, <1>1
    <3> QED BY <3>1, <3>2, <3>3, <1>1
  <2> QED BY <2>1, <2>2, <2>3
<1>6. /\ \A i \in 0..(k - 1) : chain'[i] = chain[i]
      /\ chain'[k] = n
      /\ \A i \in (k + 1)..(count + 2) : chain'[i] = chain[i - 1]
  <2>1. chain' = [i \in 0..(count + 2) |->
                    IF i < k THEN chain[i] ELSE IF i = k THEN n ELSE chain[i - 1]]
    BY DEF Link
  <2>2. /\ \A i \in 0..(k - 1) : i \in 0..(count + 2) /\ i < k
        /\ k \in 0..(count + 2)
        /\ \A i \in (k + 1)..(count + 2) : i \in 0..(count + 2) /\ ~(i < k) /\ i # k
    BY <1>1
  <2> QED BY <2>1, <2>2
<1>7. /\ next'[n] = chain[k] /\ next'[chain[k - 1]] = n
      /\ \A c \in Cell : c # n /\ c # chain[k - 1] => next'[c] = next[c]
      /\ prev'[n] = chain[k - 1] /\ prev'[chain[k]] = n
      /\ \A c \in Cell : c # n /\ c # chain[k] => prev'[c] = prev[c]
  <2>1. /\ k - 1 \in 0..(count + 1) /\ k \in 0..(count + 1)
        /\ chain[k - 1] \in Cell /\ chain[k] \in Cell /\ n \in Cell
    BY <1>1
  <2>2. chain[k - 1] # n /\ chain[k] # n
    BY <2>1, <1>4
  <2>3. /\ next' = [next EXCEPT ![n] = chain[k], ![chain[k - 1]] = n]
        /\ prev' = [prev EXCEPT ![n] = chain[k - 1], ![chain[k]] = n]
    BY DEF Link
  <2> HIDE DEF Cell
  <2> QED BY <2>1, <2>2, <2>3, <1>1
<1>8. \A i \in 0..count' : next'[chain'[i]] = chain'[i + 1] /\ prev'[chain'[i + 1]] = chain'[i]
  <2> TAKE i \in 0..count'
  <2>1. CASE i < k - 1
    <3>1. i + 1 \in 0..(k - 1) /\ i \in 0..count /\ k - 1 \in 0..(count + 1) /\ k \in 0..(count + 1)
      BY <2>1, <1>1, <1>5
    <3>2. chain[i] # chain[k - 1] /\ chain[i + 1] # chain[k]
      BY <3>1, <2>1, <1>3, <1>1
    <3> QED BY <3>1, <3>2, <1>1, <1>2, <1>4, <1>6, <1>7
  <2>2. CASE i = k - 1
    BY <2>2, <1>1, <1>5, <1>6, <1>7
  <2>3. CASE i = k
    BY <2>3, <1>1, <1>5, <1>6, <1>7
  <2>4. CASE i > k
    <3>1. i - 1 \in 0..count /\ k - 1 \in 0..(count + 1) /\ k \in 0..(count + 1)
          /\ i \in (k + 1)..(count + 2) /\ i + 1 \in (k + 1)..(count + 2) /\ i \in 0..(count + 1)
      BY <2>4, <1>1, <1>5
    <3>2. chain[i - 1] # chain[k - 1] /\ chain[i] # chain[k]
      BY <3>1, <2>4, <1>3, <1>1
    <3> QED BY <3>1, <3>2, <1>1, <1>2, <1>4, <1>6, <1>7
  <2> QED BY <2>1, <2>2, <2>3, <2>4, <1>1, <1>5
<1>9. \A i \in 1..count' : chain'[i] \in Node
  BY <1>1, <1>2, <1>5, <1>6
<1>10. \A i, j \in 1..count' : chain'[i] = chain'[j] => i = j
  BY <1>1, <1>3, <1>4, <1>5, <1>6
<1>11. chain'[0] = head /\ chain'[count' + 1] = tail /\ next'[tail] = NULL
  BY <1>1, <1>2, <1>3, <1>5, <1>6, <1>7
<1>12. WellLinked'
  BY <1>8, <1>9, <1>10, <1>11 DEF WellLinked
<1>13. Listed' = Listed \cup {n}
  <2>1. ASSUME NEW i \in 1..count' PROVE chain'[i] \in Listed \cup {n}
    <3>1. CASE i < k
      <4>1. i \in 0..(k - 1) /\ i \in 1..count
        BY <3>1, <1>1
      <4> QED BY <4>1, <1>6 DEF Listed
    <3>2. CASE i = k
      BY <3>2, <1>6
    <3>3. CASE i > k
      <4>1. i \in (k + 1)..(count + 2) /\ i - 1 \in 1..count
        BY <3>3, <1>1, <1>5
      <4> QED BY <4>1, <1>6 DEF Listed
    <3> QED BY <3>1, <3>2, <3>3, <1>1, <1>5
  <2>2. n \in Listed'
    BY <1>1, <1>5, <1>6 DEF Listed
  <2>3. ASSUME NEW i \in 1..count PROVE chain[i] \in Listed'
    <3>1. CASE i < k
      BY <3>1, <1>1, <1>5, <1>6 DEF Listed
    <3>2. CASE i >= k
      <4>1. i + 1 \in 1..count' /\ chain'[i + 1] = chain[i]
        BY <3>2, <1>1, <1>5, <1>6
      <4> QED BY <4>1 DEF Listed
    <3> QED BY <3>1, <3>2, <1>1
  <2> QED BY <2>1, <2>2, <2>3 DEF Listed
<1>14. \A c \in Node : c # n /\ c \notin Listed => next'[c] = next[c]
  <2>1. chain[k - 1] \in Listed \cup {head}
    BY <1>1, <1>2 DEF Listed
  <2> QED BY <2>1, <1>7
<1> QED BY <1>5, <1>12, <1>13, <1>14

\* Unlinking the k-th node leaves a well-linked list without it, and the node
\* heads the chain of unused ones.
LEMMA UnlinkList ==
  ASSUME Inv, pc \in {"idle", "remove"}, pc' = "idle", NEW k \in 1..count,
         Unlink(chain[k], chain[k - 1], chain[k + 1], k)
  PROVE  /\ next' \in [Cell -> Ptr] /\ prev' \in [Cell -> Ptr]
         /\ count' = count - 1 /\ chain' \in [0..(count' + 1) -> Cell]
         /\ nspare' = nspare + 1 /\ spare' \in [1..nspare' -> Node]
         /\ prealloc' \in Node
         /\ WellLinked' /\ SparesLinked'
         /\ Listed' = Listed \ {chain[k]}
         /\ Unused' = Unused \cup {chain[k]}
<1> USE ListAssumption DEF Cell, Ptr
<1> DEFINE n == chain[k]
<1>1. /\ count \in Nat /\ chain \in [0..(count + 1) -> Cell]
      /\ next \in [Cell -> Ptr] /\ prev \in [Cell -> Ptr]
      /\ nspare \in Nat /\ spare \in [1..nspare -> Node] /\ prealloc \in Node \cup {NULL}
  BY DEF Inv, TypeOK
<1>2. /\ chain[0] = head /\ chain[count + 1] = tail
      /\ \A i \in 1..count : chain[i] \in Node
      /\ \A i, j \in 1..count : chain[i] = chain[j] => i = j
      /\ \A i \in 0..count : next[chain[i]] = chain[i + 1] /\ prev[chain[i + 1]] = chain[i]
      /\ next[tail] = NULL
  BY DEF Inv, WellLinked
<1>3. \A i, j \in 0..(count + 1) : chain[i] = chain[j] => i = j
  BY ChainDistinct
<1>4. n \in Node /\ k - 1 \in 0..count /\ k + 1 \in 0..(count + 1) /\ k \in 0..(count + 1)
  <2>1. n \in Node
    BY <1>2
  <2> QED BY <2>1, <1>1
<1>5. /\ count' = count - 1 /\ count' \in Nat /\ chain' \in [0..(count' + 1) -> Cell]
      /\ next' \in [Cell -> Ptr] /\ prev' \in [Cell -> Ptr]
      /\ nspare' = nspare + 1 /\ spare' \in [1..nspare' -> Node]
      /\ prealloc' = n
  <2>1. count' = count - 1 /\ count' \in Nat /\ nspare' = nspare + 1 /\ prealloc' = n
    BY <1>1 DEF Unlink, UnlinkRest
  <2>2. chain' \in [0..(count' + 1) -> Cell]
    <3>1. chain' = [i \in 0..count |-> IF i < k THEN chain[i] ELSE chain[i + 1]]
      BY DEF Unlink, UnlinkRest
    <3>2. \A i \in 0..count : chain[i] \in Cell /\ chain[i + 1] \in Cell
      BY <1>1
    <3> QED BY <2>1, <3>1, <3>2, <1>1
  <2>3. next' \in [Cell -> Ptr] /\ prev' \in [Cell -> Ptr]
    BY <1>1, <1>4 DEF Unlink
  <2>4. spare' \in [1..nspare' -> Node]
    BY <1>1, <1>4, <2>1 DEF Unlink, UnlinkRest
  <2> QED BY <2>1, <2>2, <2>3, <2>4
<1>6. /\ \A i \in 0..(k - 1) : chain'[i] = chain[i]
      /\ \A i \in k..count : chain'[i] = chain[i + 1]
  BY <1>1 DEF Unlink, UnlinkRest
<1>7. /\ next'[n] = prealloc /\ next'[chain[k - 1]] = chain[k + 1]
      /\ \A c \in Cell : c # n /\ c # chain[k - 1] => next'[c] = next[c]
      /\ prev'[chain[k + 1]] = chain[k - 1]
      /\ \A c \in Cell : c # chain[k + 1] => prev'[c] = prev[c]
  <2>1. next[n] = chain[k + 1] /\ prev[n] = chain[k - 1] /\ n # chain[k - 1]
    BY <1>1, <1>2, <1>3, <1>4
  <2> QED BY <2>1, <1>1, <1>4 DEF Unlink, UnlinkRest
<1>8. \A i \in 0..count' : next'[chain'[i]] = chain'[i + 1] /\ prev'[chain'[i + 1]] = chain'[i]
  <2> TAKE i \in 0..count'
  <2>1. CASE i < k - 1
    <3>1. i + 1 \in 0..(k - 1) /\ i \in 0..count /\ i \in 0..(count + 1) /\ i + 1 \in 0..(count + 1)
          /\ k - 1 \in 0..(count + 1)
      BY <2>1, <1>1, <1>5
    <3>2. chain[i] # chain[k - 1] /\ chain[i] # n /\ chain[i + 1] # chain[k + 1]
      BY <3>1, <2>1, <1>3, <1>1, <1>4
    <3>3. next'[chain[i]] = next[chain[i]] /\ prev'[chain[i + 1]] = prev[chain[i + 1]]
      BY <3>1, <3>2, <1>1, <1>7
    <3> QED BY <3>1, <3>3, <1>2, <1>6
  <2>2. CASE i = k - 1
    BY <2>2, <1>1, <1>5, <1>6, <1>7
  <2>3. CASE i >= k
    <3>1. i + 1 \in 0..count /\ i + 1 \in k..count /\ i \in k..count /\ i + 2 \in 0..(count + 1)
          /\ k - 1 \in 0..(count + 1)
      BY <2>3, <1>1, <1>5
    <3>2. chain[i + 1] # chain[k - 1] /\ chain[i + 1] # n /\ chain[i + 2] # chain[k + 1]
      BY <3>1, <2>3, <1>3, <1>1, <1>4
    <3>3. (i + 1) + 1 = i + 2 /\ chain[i + 1] \in Cell /\ chain[i + 2] \in Cell
      BY <3>1, <1>1
    <3>4. next'[chain[i + 1]] = next[chain[i + 1]] /\ prev'[chain[i + 2]] = prev[chain[i + 2]]
      BY <3>2, <3>3, <1>7
    <3>5. next[chain[i + 1]] = chain[i + 2] /\ prev[chain[i + 2]] = chain[i + 1]
      BY <3>1, <3>3, <1>2
    <3> QED BY <3>1, <3>3, <3>4, <3>5, <1>6
  <2> QED BY <2>1, <2>2, <2>3, <1>1, <1>5
<1>9. \A i \in 1..count' : chain'[i] \in Node
  BY <1>1, <1>2, <1>5, <1>6
<1>10. \A i, j \in 1..count' : chain'[i] = chain'[j] => i = j
  BY <1>1, <1>3, <1>5, <1>6
<1>11. chain'[0] = head /\ chain'[count' + 1] = tail /\ next'[tail] = NULL
  <2>1. k - 1 \in 0..(count + 1) /\ count + 1 \in 0..(count + 1)
    BY <1>1
  <2>2. tail # chain[k - 1] /\ tail # n
    BY <2>1, <1>1, <1>2, <1>3, <1>4
  <2> QED BY <2>2, <1>1, <1>2, <1>5, <1>6, <1>7
<1>12. WellLinked'
  BY <1>8, <1>9, <1>10, <1>11 DEF WellLinked
<1>13. Listed' = Listed \ {n}
  <2>1. ASSUME NEW i \in 1..count' PROVE chain'[i] \in Listed \ {n}
    <3>1. CASE i < k
      <4>1. i \in 1..count /\ i \in 0..(count + 1) /\ chain'[i] = chain[i] /\ chain[i] # n
        BY <3>1, <1>1, <1>3, <1>4, <1>5, <1>6
      <4> QED BY <4>1 DEF Listed
    <3>2. CASE i >= k
      <4>1. i + 1 \in 1..count /\ i + 1 \in 0..(count + 1) /\ i \in k..count
        BY <3>2, <1>1, <1>5
      <4>2. chain'[i] = chain[i + 1] /\ chain[i + 1] # n
        BY <4>1, <3>2, <1>1, <1>3, <1>4, <1>6
      <4> QED BY <4>1, <4>2 DEF Listed
    <3> QED BY <3>1, <3>2, <1>1
  <2>2. ASSUME NEW i \in 1..count, i # k PROVE chain[i] \in Listed'
    <3>1. CASE i < k
      <4>1. i \in 1..count' /\ chain'[i] = chain[i]
        BY <3>1, <1>1, <1>5, <1>6
      <4> QED BY <4>1 DEF Listed
    <3>2. CASE i > k
      <4>1. i - 1 \in 1..count' /\ chain'[i - 1] = chain[i]
        BY <3>2, <1>1, <1>5, <1>6
      <4> QED BY <4>1 DEF Listed
    <3> QED BY <3>1, <3>2, <2>2, <1>1
  <2> QED BY <2>1, <2>2 DEF Listed
<1>14. Unused' = Unused \cup {n} /\ SparesLinked'
  <2>1. Listed \cap Unused = {} /\ n \in Listed /\ SparesLinked
    BY <1>1 DEF Inv, HeapPartition, Listed
  <2>2. chain[k - 1] \in Listed \cup {head}
    <3>1. k - 1 = 0 \/ k - 1 \in 1..count
      BY <1>1
    <3> QED BY <3>1, <1>2 DEF Listed
  <2>3. \A c \in Unused : next'[c] = next[c]
    BY <2>1, <2>2, <1>1, <1>7 DEF Unused
  <2>4. spare' = [j \in 1..(nspare + 1) |-> IF j = nspare + 1 THEN n ELSE spare[j]]
    BY DEF Unlink, UnlinkRest
  <2> QED BY <2>1, <2>3, <2>4, <1>1, <1>4, <1>5, <1>7, SparePush
<1> QED BY <1>4, <1>5, <1>12, <1>13, <1>14

\* Taking a node yields one that is nowhere else, and the unused ones that
\* remain are still chained when their next links are left alone.
LEMMA TakeUnused ==
  ASSUME Inv, pc = "idle", NEW n, TakeItem(n),
         \A c \in Node : c # n /\ c \notin Listed => next'[c] = next[c]
  PROVE  /\ n \in Node /\ n \notin Listed /\ n \notin leaked
         /\ heap' = heap \cup {n}
         /\ nspare' \in Nat /\ spare' \in [1..nspare' -> Node]
         /\ prealloc' \in Node \cup {NULL}
         /\ Unused' = Unused \ {n}
         /\ SparesLinked'
<1> USE ListAssumption
<1>1. /\ nspare \in Nat /\ spare \in [1..nspare -> Node] /\ SparesLinked /\ item = NULL
      /\ heap = Listed \cup Unused \cup leaked
      /\ Listed \cap Unused = {} /\ leaked \cap (Listed \cup Unused) = {}
  BY DEF Inv, TypeOK, HeapPartition, WalkOnList
<1>2. \A j \in 1..nspare : spare[j] \in Unused
  BY DEF Unused
<1>3. CASE prealloc = NULL
  <2>1. nspare = 0 /\ Unused = {}
    BY <1>1, <1>3 DEF SparesLinked, Unused, Cell
  <2>2. n \in Node /\ n \notin heap /\ heap' = heap \cup {n} /\ UNCHANGED <<prealloc, spare, nspare>>
    BY <1>3 DEF TakeItem
  <2>3. Unused' = Unused
    BY <2>2 DEF Unused
  <2>4. SparesLinked'
    BY <2>1, <2>2, <1>3 DEF SparesLinked
  <2> QED BY <1>1, <1>3, <2>1, <2>2, <2>3, <2>4
<1>4. CASE prealloc # NULL
  <2>1. nspare \in Nat \ {0} /\ n = spare[nspare]
    BY <1>1, <1>4 DEF SparesLinked, TakeItem
  <2>2. /\ prealloc' = next[n] /\ nspare' = nspare - 1 /\ heap' = heap
        /\ spare' = [j \in 1..(nspare - 1) |-> spare[j]]
    BY <1>4 DEF TakeItem
  <2>3. n \in Node /\ n \in Unused /\ n \in heap
    BY <2>1, <1>1, <1>2
  <2>4. Unused' = Unused \ {n}
    BY <2>1, <2>2, <1>1 DEF Unused, SparesLinked
  <2>5. \A j \in 1..nspare' : next'[spare[j]] = next[spare[j]]
    BY <2>1, <2>2, <1>1, <1>2 DEF SparesLinked
  <2>6. SparesLinked'
    BY <2>1, <2>2, <2>5, <1>1 DEF SparesLinked
  <2>7. prealloc' \in Node \cup {NULL}
    BY <2>1, <2>2, <1>1 DEF SparesLinked
  <2> QED BY <2>1, <2>2, <2>3, <2>4, <2>6, <2>7, <1>1
<1> QED BY <1>3, <1>4

\* Where a walk stands is a cell, and its successor is the next position.
LEMMA WalkPosition ==
  ASSUME Inv, pc \in Walks, itor # NULL
  PROVE  /\ at \in 1..(count + 1) /\ itor = chain[at] /\ itor \in Cell
         /\ next[itor] = IF at = count + 1 THEN NULL ELSE chain[at + 1]
         /\ (itor # tail => at \in 1..count)
<1>1. /\ count \in Nat /\ at \in 1..(count + 2) /\ chain \in [0..(count + 1) -> Cell]
      /\ itor = IF at = count + 2 THEN NULL ELSE chain[at]
      /\ WellLinked
  BY DEF Inv, TypeOK, WalkOnList
<1>2. at \in 1..(count + 1) /\ itor = chain[at] /\ itor \in Cell
  BY <1>1
<1>3. /\ chain[count + 1] = tail /\ next[tail] = NULL
      /\ \A i \in 0..count : next[chain[i]] = chain[i + 1]
  BY <1>1 DEF WellLinked, Walks
<1>4. CASE at = count + 1
  BY <1>2, <1>3, <1>4
<1>5. CASE at \in 1..count
  <2>1. at \in 0..count /\ at # count + 1
    BY <1>1, <1>5
  <2> QED BY <2>1, <1>2, <1>3, <1>5
<1> QED BY <1>1, <1>2, <1>4, <1>5

\* An iteration moves the iterator one position on.
LEMMA AdvanceOK ==
  ASSUME Inv, pc \in Walks, itor # NULL, pc \in {"remove", "find", "contain"} => itor # tail,
         index' = index \/ (index > 0 /\ index' = index - 1),
         pc = "get" => index > 0 /\ index' = index - 1, Advance
  PROVE  Inv'
<1>1. /\ at \in 1..(count + 1) /\ itor = chain[at] /\ itor \in Cell
      /\ next[itor] = IF at = count + 1 THEN NULL ELSE chain[at + 1]
      /\ (itor # tail => at \in 1..count)
  BY WalkPosition
<1>2. /\ UNCHANGED <<links, heap, header, shape>> /\ pc' = pc /\ item' = item
      /\ itor' = next[itor] /\ at' = at + 1 /\ arg' = arg /\ match' = match /\ ret' = ret
  BY DEF Advance
<1>3. TypeOK /\ WalkOnList
  BY DEF Inv
<1>4. TypeOK'
  <2>1. index' \in 0..MaxIndex /\ at' \in Nat /\ itor' \in Ptr
    BY <1>1, <1>2, <1>3, ListAssumption DEF TypeOK
  <2> QED BY <2>1, <1>2, <1>3 DEF TypeOK, links, header, shape
<1>5. WalkOnList'
  <2>1. itor' = (IF at' = count + 2 THEN NULL ELSE chain[at']) /\ at' \in 1..(count + 2)
    BY <1>1, <1>2, <1>3 DEF TypeOK
  <2>2. pc = "get" => at' + index' <= count
    BY <1>1, <1>2, <1>3 DEF TypeOK, WalkOnList
  <2>3. pc \in {"remove", "find", "contain"} => at' <= count + 1
    BY <1>1, <1>2, <1>3 DEF TypeOK
  <2> QED BY <2>1, <2>2, <2>3, <1>2, <1>3 DEF WalkOnList, links, header, shape
<1> QED BY <1>2, <1>4, <1>5, SameShape DEF Walks

\* A call that ends having changed nothing.
LEMMA ReturnOK ==
  ASSUME Inv, pc \in {"idle", "create", "get", "remove", "find", "contain"},
         NEW v \in Value \cup BOOLEAN, Return(v), UNCHANGED <<links, heap, header, shape>>
  PROVE  Inv'
<1> USE ListAssumption DEF links, header, shape, Return
<1>1. TypeOK'
  BY DEF Inv, TypeOK, PC, Ptr
<1>2. WalkOnList'
  BY DEF Inv, WalkOnList, Walks
<1>3. item' = item
  BY DEF Inv, WalkOnList
<1> QED BY <1>1, <1>2, <1>3, SameShape

\* A walk starts at the first position.
LEMMA StartOK ==
  ASSUME Inv, NEW name \in {"remove", "find", "contain", "get"},
         NEW i \in 0..MaxIndex, NEW d \in Value, NEW m \in SUBSET Value,
         StartWalk(name, i, d, m), Keep, name = "get" => i < count
  PROVE  Inv'
<1> USE ListAssumption DEF links, header, shape, StartWalk, Keep
<1>1. pc = "idle" /\ WellLinked /\ count \in Nat /\ chain \in [0..(count + 1) -> Cell]
  BY DEF Inv, TypeOK
<1>2. 0 \in 0..count /\ next[head] = chain[1] /\ chain[1] \in Cell
  BY <1>1 DEF WellLinked
<1>3. TypeOK'
  BY <1>2 DEF Inv, TypeOK, PC, Walks, Ptr
<1>4. WalkOnList'
  BY <1>1, <1>2 DEF Inv, WalkOnList, Walks
<1> QED BY <1>1, <1>3, <1>4, SameShape

\* The calls and steps that leave the shape of the list alone.
LEMMA QuietOK ==
  ASSUME Inv,
         \/ Refuse \/ CreateDone
         \/ sky_list_front \/ sky_list_back \/ sky_list_full \/ sky_list_empty
         \/ \E i \in 0..MaxIndex : sky_list_get_at(i)
         \/ \E m \in SUBSET Value : sky_list_remove_if(m) \/ sky_list_find_if(m)
         \/ \E d \in Value : sky_list_contain(d)
         \/ GetNext \/ GetDone \/ InsertNext \/ SeekNext \/ SeekMiss \/ FindHit
         \/ sky_list_destroy \/ sky_list_clear
  PROVE  Inv'
<1> USE ListAssumption
<1>1. /\ data \in [Cell -> Value] /\ next \in [Cell -> Ptr] /\ prev \in [Cell -> Ptr]
      /\ NULL \in Value /\ count \in Nat /\ WellLinked /\ chain \in [0..(count + 1) -> Cell]
  BY DEF Inv, TypeOK
<1>2. CASE Refuse
  BY <1>2, ReturnOK DEF Refuse
<1>3. CASE CreateDone
  BY <1>3, ReturnOK DEF CreateDone
<1>4. ASSUME NEW v \in Value \cup BOOLEAN, Observe(v) PROVE Inv'
  BY <1>4, ReturnOK DEF Observe
<1>5. pc = "idle" => next[head] \in Cell /\ prev[tail] \in Cell
  <2> SUFFICES ASSUME pc = "idle" PROVE next[head] \in Cell /\ prev[tail] \in Cell
    OBVIOUS
  <2>1. 0 \in 0..count /\ count \in 0..count /\ chain[1] \in Cell /\ chain[count] \in Cell
    BY <1>1
  <2> QED BY <2>1, <1>1 DEF WellLinked
<1>6. CASE sky_list_front
  <2>1. pc = "idle"
    BY <1>6 DEF sky_list_front, Observe
  <2>2. (IF next[head] # tail THEN data[next[head]] ELSE NULL) \in Value
    BY <2>1, <1>1, <1>5
  <2> QED BY <2>2, <1>4, <1>6 DEF sky_list_front
<1>7. CASE sky_list_back
  <2>1. pc = "idle"
    BY <1>7 DEF sky_list_back, Observe
  <2>2. (IF prev[tail] # head THEN data[prev[tail]] ELSE NULL) \in Value
    BY <2>1, <1>1, <1>5
  <2> QED BY <2>2, <1>4, <1>7 DEF sky_list_back
<1>8. CASE sky_list_full
  BY <1>4, <1>8 DEF sky_list_full
<1>9. CASE sky_list_empty
  BY <1>4, <1>9 DEF sky_list_empty
<1>10. ASSUME NEW i \in 0..MaxIndex, sky_list_get_at(i) PROVE Inv'
  <2>1. CASE i < count
    BY <2>1, <1>10, <1>1, StartOK DEF sky_list_get_at
  <2>2. CASE ~(i < count)
    BY <2>2, <1>10, <1>1, <1>4 DEF sky_list_get_at
  <2> QED BY <2>1, <2>2
<1>11. ASSUME NEW m \in SUBSET Value, sky_list_remove_if(m) PROVE Inv'
  BY <1>1, <1>11, StartOK DEF sky_list_remove_if
<1>12. ASSUME NEW m \in SUBSET Value, sky_list_find_if(m) PROVE Inv'
  BY <1>1, <1>12, StartOK DEF sky_list_find_if
<1>13. ASSUME NEW d \in Value, sky_list_contain(d) PROVE Inv'
  <2>1. {d} \in SUBSET Value /\ 0 \in 0..MaxIndex
    BY <1>13
  <2> QED BY <2>1, <1>1, <1>13, StartOK DEF sky_list_contain
<1>14. CASE GetNext
  BY <1>14, AdvanceOK DEF GetNext, Walks
<1>15. CASE InsertNext
  BY <1>15, AdvanceOK DEF InsertNext, Walks
<1>16. CASE SeekNext
  <2>1. itor # NULL
    <3>1. pc \in {"remove", "find", "contain"}
      BY <1>16 DEF SeekNext, Seeking
    <3>2. at \in 1..(count + 1) /\ itor = chain[at] /\ at # count + 2
      BY <3>1, <1>1 DEF Inv, WalkOnList, Walks
    <3> QED BY <3>2, <1>1 DEF Cell
  <2> QED BY <2>1, <1>16, AdvanceOK DEF SeekNext, Seeking, Walks
<1>17. ASSUME pc \in {"find", "contain", "get"}, itor # NULL
       PROVE  data[itor] \in Value
  BY <1>1, <1>17, WalkPosition DEF Walks
<1>18. CASE GetDone
  <2>1. (IF itor # NULL THEN data[itor] ELSE NULL) \in Value
    BY <1>1, <1>17, <1>18 DEF GetDone
  <2> QED BY <2>1, <1>18, ReturnOK DEF GetDone
<1>19. CASE SeekMiss
  BY <1>1, <1>19, ReturnOK DEF SeekMiss, Seeking
<1>20. CASE FindHit
  <2>1. itor # NULL
    <3>1. pc \in {"remove", "find", "contain"}
      BY <1>20 DEF FindHit
    <3>2. at \in 1..(count + 1) /\ itor = chain[at] /\ at # count + 2
      BY <3>1, <1>1 DEF Inv, WalkOnList, Walks
    <3> QED BY <3>2, <1>1 DEF Cell
  <2>2. data[itor] \in Value /\ pc \in {"find", "contain"}
    BY <2>1, <1>17, <1>20 DEF FindHit
  <2>3. CASE pc = "contain"
    <3>1. Return(data[itor] # NULL /\ data[itor] = arg)
      BY <2>3, <1>20 DEF FindHit
    <3> QED BY <3>1, <2>3, <1>20, ReturnOK DEF FindHit
  <2>4. CASE pc = "find"
    <3>1. Return(data[itor])
      BY <2>4, <1>20 DEF FindHit
    <3> QED BY <3>1, <2>2, <2>4, <1>20, ReturnOK DEF FindHit
  <2> QED BY <2>2, <2>3, <2>4
<1>21. CASE sky_list_destroy \/ sky_list_clear
  <2>1. /\ pc = "idle" /\ pc' \in {"destroy", "clear"}
        /\ UNCHANGED <<links, heap, header, locals, ret, shape>>
    BY <1>21 DEF sky_list_destroy, sky_list_clear
  <2>2. TypeOK'
    BY <2>1 DEF Inv, TypeOK, PC, links, header, locals, shape
  <2>3. WalkOnList'
    BY <2>1 DEF Inv, WalkOnList, Walks, links, header, locals, shape
  <2> QED BY <2>1, <2>2, <2>3, SameShape DEF locals
<1> QED BY <1>2, <1>3, <1>6, <1>7, <1>8, <1>9, <1>10, <1>11, <1>12, <1>13, <1>14, <1>15,
           <1>16, <1>18, <1>19, <1>20, <1>21

\* Pushing at either end.
LEMMA PushOK ==
  ASSUME Inv, NEW d \in Value, sky_list_push_front(d) \/ sky_list_push_back(d)
  PROVE  Inv'
<1> USE ListAssumption
<1>1. /\ pc = "idle" /\ count < max_size /\ item = NULL
      /\ count \in Nat /\ WellLinked /\ chain \in [0..(count + 1) -> Cell]
      /\ Return(TRUE) /\ UNCHANGED <<max_size, leaked>>
  BY DEF Inv, TypeOK, WalkOnList, sky_list_push_front, sky_list_push_back
<1>2. /\ chain[0] = head /\ next[head] = chain[1]
      /\ chain[count + 1] = tail /\ prev[tail] = chain[count]
  BY <1>1 DEF WellLinked
<1>3. PICK n \in Node, k \in 1..(count + 1) :
         TakeItem(n) /\ Link(n, d, chain[k - 1], chain[k], k)
  <2>1. 1 \in 1..(count + 1) /\ count + 1 \in 1..(count + 1)
        /\ 1 - 1 = 0 /\ (count + 1) - 1 = count
    BY <1>1
  <2>2. CASE sky_list_push_front(d)
    BY <1>2, <2>1, <2>2 DEF sky_list_push_front
  <2>3. CASE sky_list_push_back(d)
    BY <1>2, <2>1, <2>3 DEF sky_list_push_back
  <2> QED BY <2>2, <2>3
<1>4. n \notin Listed
  BY <1>1, <1>3 DEF Inv, TypeOK, HeapPartition, SparesLinked, TakeItem, Unused
<1>5. /\ next' \in [Cell -> Ptr] /\ prev' \in [Cell -> Ptr] /\ data' \in [Cell -> Value]
      /\ count' = count + 1 /\ chain' \in [0..(count' + 1) -> Cell]
      /\ WellLinked'
      /\ Listed' = Listed \cup {n}
      /\ \A c \in Node : c # n /\ c \notin Listed => next'[c] = next[c]
  BY <1>1, <1>3, <1>4, LinkList DEF Return
<1>6. /\ n \notin leaked
      /\ heap' = heap \cup {n}
      /\ nspare' \in Nat /\ spare' \in [1..nspare' -> Node]
      /\ prealloc' \in Node \cup {NULL}
      /\ Unused' = Unused \ {n}
      /\ SparesLinked'
  BY <1>1, <1>3, <1>5, TakeUnused
<1>7. TypeOK'
  BY <1>1, <1>3, <1>5, <1>6 DEF Inv, TypeOK, PC, Ptr, Return
<1>8. HeapPartition'
  BY <1>1, <1>4, <1>5, <1>6 DEF Inv, HeapPartition, Return
<1>9. WalkOnList'
  BY <1>1, <1>5, <1>7 DEF Inv, TypeOK, WalkOnList, Walks, Return
<1> QED BY <1>5, <1>6, <1>7, <1>8, <1>9 DEF Inv

\* Removing the k-th item, the call returning v.
LEMMA RemoveOK ==
  ASSUME Inv, pc \in {"idle", "remove"}, NEW k \in 1..count, NEW v \in Value,
         Unlink(chain[k], chain[k - 1], chain[k + 1], k), Return(v)
  PROVE  Inv'
<1> USE ListAssumption
<1>1. item = NULL /\ count \in Nat /\ chain[k] \in Listed
  BY DEF Inv, TypeOK, WalkOnList, Listed
<1>2. /\ next' \in [Cell -> Ptr] /\ prev' \in [Cell -> Ptr]
      /\ count' = count - 1 /\ chain' \in [0..(count' + 1) -> Cell]
      /\ nspare' = nspare + 1 /\ spare' \in [1..nspare' -> Node]
      /\ prealloc' \in Node
      /\ WellLinked' /\ SparesLinked'
      /\ Listed' = Listed \ {chain[k]}
      /\ Unused' = Unused \cup {chain[k]}
  BY UnlinkList DEF Return
<1>3. UNCHANGED <<data, heap, max_size, leaked>>
  BY DEF Unlink, UnlinkRest
<1>4. TypeOK'
  BY <1>1, <1>2, <1>3 DEF Inv, TypeOK, PC, Ptr, Return
<1>5. HeapPartition'
  BY <1>1, <1>2, <1>3 DEF Inv, HeapPartition, Return
<1>6. WalkOnList'
  BY <1>1, <1>2, <1>3 DEF Inv, TypeOK, WalkOnList, Walks, Return
<1> QED BY <1>2, <1>4, <1>5, <1>6 DEF Inv

\* Popping at either end, and the hit of sky_list_remove_if.
LEMMA PopOK ==
  ASSUME Inv, sky_list_pop_front \/ sky_list_pop_back \/ RemoveHit
  PROVE  Inv'
<1> USE ListAssumption
<1>1. /\ count \in Nat /\ WellLinked /\ chain \in [0..(count + 1) -> Cell]
      /\ data \in [Cell -> Value] /\ NULL \in Value
  BY DEF Inv, TypeOK
<1>2. CASE sky_list_pop_front
  <2>1. /\ pc = "idle" /\ 0 \in 0..count /\ chain[0] = head /\ next[head] = chain[1]
    BY <1>1, <1>2 DEF sky_list_pop_front, Pop, WellLinked
  <2>2. CASE count > 0 /\ next[head] # tail
    <3>1. 1 \in 1..count /\ 1 \in 0..count /\ 1 - 1 = 0 /\ 1 + 1 = 2
      BY <1>1, <2>2
    <3>2. next[chain[1]] = chain[2] /\ data[chain[1]] \in Value
      BY <1>1, <2>1, <3>1 DEF WellLinked, Cell
    <3>3. Unlink(chain[1], chain[1 - 1], chain[1 + 1], 1) /\ Return(data[chain[1]])
      BY <1>2, <2>1, <2>2, <3>1, <3>2 DEF sky_list_pop_front, Pop
    <3> QED BY <2>1, <3>1, <3>2, <3>3, RemoveOK
  <2>3. CASE ~(count > 0 /\ next[head] # tail)
    BY <1>1, <1>2, <2>1, <2>3, ReturnOK DEF sky_list_pop_front, Pop
  <2> QED BY <2>2, <2>3
<1>3. CASE sky_list_pop_back
  <2>1. /\ pc = "idle" /\ count \in 0..count
        /\ chain[count + 1] = tail /\ prev[tail] = chain[count]
    BY <1>1, <1>3 DEF sky_list_pop_back, Pop, WellLinked
  <2>2. CASE count > 0 /\ next[head] # tail
    <3>1. count \in 1..count /\ count - 1 \in 0..count /\ (count - 1) + 1 = count
      BY <1>1, <2>2
    <3>2. prev[chain[count]] = chain[count - 1] /\ data[chain[count]] \in Value
      BY <1>1, <2>1, <3>1 DEF WellLinked, Cell
    <3>3. Unlink(chain[count], chain[count - 1], chain[count + 1], count)
          /\ Return(data[chain[count]])
      BY <1>3, <2>1, <2>2, <3>1, <3>2 DEF sky_list_pop_back, Pop
    <3> QED BY <2>1, <3>1, <3>2, <3>3, RemoveOK
  <2>3. CASE ~(count > 0 /\ next[head] # tail)
    BY <1>1, <1>3, <2>1, <2>3, ReturnOK DEF sky_list_pop_back, Pop
  <2> QED BY <2>2, <2>3
<1>4. CASE RemoveHit
  <2>1. pc = "remove" /\ itor # tail
    BY <1>4 DEF RemoveHit
  <2>2. itor # NULL
    <3>1. at \in 1..(count + 1) /\ itor = chain[at] /\ at # count + 2
      BY <2>1, <1>1 DEF Inv, WalkOnList, Walks
    <3> QED BY <3>1, <1>1 DEF Cell
  <2>3. at \in 1..count /\ itor = chain[at] /\ next[itor] = chain[at + 1]
    BY <1>1, <2>1, <2>2, WalkPosition DEF Walks
  <2>4. at - 1 \in 0..count /\ (at - 1) + 1 = at
    BY <1>1, <2>3
  <2>5. prev[itor] = chain[at - 1] /\ data[itor] \in Value
    BY <1>1, <2>1, <2>3, <2>4 DEF WellLinked, Cell
  <2>6. Unlink(chain[at], chain[at - 1], chain[at + 1], at) /\ Return(data[itor])
    BY <1>4, <2>3, <2>5 DEF RemoveHit
  <2> QED BY <2>1, <2>3, <2>5, <2>6, RemoveOK
<1> QED BY <1>2, <1>3, <1>4

\* sky_list_insert takes its node first ...
LEMMA InsertStartOK ==
  ASSUME Inv, NEW i \in 0..MaxIndex, NEW d \in Value, sky_list_insert(i, d)
  PROVE  Inv'
<1> USE ListAssumption
<1>1. /\ pc = "idle" /\ pc' = "insert" /\ item = NULL /\ count < max_size
      /\ itor' = next[head] /\ at' = 1 /\ index' = i /\ arg' = d /\ match' = {}
      /\ UNCHANGED <<links, count, max_size, chain, leaked, ret>>
      /\ count \in Nat /\ WellLinked /\ chain \in [0..(count + 1) -> Cell]
  BY DEF Inv, TypeOK, WalkOnList, sky_list_insert, StartWalk
<1>2. PICK n \in Node : TakeItem(n) /\ item' = n
  BY DEF sky_list_insert
<1>3. /\ n \notin Listed /\ n \notin leaked
      /\ heap' = heap \cup {n}
      /\ nspare' \in Nat /\ spare' \in [1..nspare' -> Node]
      /\ prealloc' \in Node \cup {NULL}
      /\ Unused' = Unused \ {n}
      /\ SparesLinked'
  BY <1>1, <1>2, TakeUnused DEF links
<1>4. 0 \in 0..count /\ next[head] = chain[1] /\ chain[1] \in Cell
  BY <1>1 DEF WellLinked
<1>5. TypeOK'
  BY <1>1, <1>2, <1>3, <1>4 DEF Inv, TypeOK, PC, Walks, Ptr, links
<1>6. WellLinked'
  BY <1>1 DEF WellLinked, links
<1>7. Listed' = Listed
  BY <1>1 DEF Listed
<1>8. HeapPartition'
  <2>1. n # NULL /\ item' = n
    BY <1>2 DEF Cell
  <2> QED BY <1>1, <1>3, <1>7, <2>1 DEF Inv, HeapPartition
<1>9. WalkOnList'
  <2>1. n # NULL /\ item' = n
    BY <1>2 DEF Cell
  <2> QED BY <1>1, <1>4, <2>1 DEF Inv, WalkOnList, Walks
<1> QED BY <1>3, <1>5, <1>6, <1>8, <1>9 DEF Inv

\* ... and links it where its walk ended.
LEMMA InsertDoneOK ==
  ASSUME Inv, InsertDone
  PROVE  Inv'
<1> USE ListAssumption
<1>1. /\ pc = "insert" /\ item \in Node /\ item # NULL /\ count < max_size
      /\ count \in Nat /\ WellLinked /\ chain \in [0..(count + 1) -> Cell]
      /\ arg \in Value
      /\ Return(TRUE) /\ UNCHANGED <<heap, max_size, prealloc, spare, nspare, leaked>>
  BY DEF Inv, TypeOK, WalkOnList, InsertDone, Cell
<1>2. /\ item \notin Listed \cup Unused \cup leaked
      /\ heap = Listed \cup Unused \cup leaked \cup {item}
      /\ Listed \cap Unused = {} /\ leaked \cap (Listed \cup Unused) = {}
  BY <1>1 DEF Inv, HeapPartition
<1>3. PICK k \in 1..(count + 1) : Link(item, arg, chain[k - 1], chain[k], k)
  <2>1. CASE itor = NULL
    <3>1. count + 1 \in 1..(count + 1) /\ (count + 1) - 1 = count /\ count \in 0..count
      BY <1>1
    <3>2. chain[count + 1] = tail /\ prev[tail] = chain[count]
      BY <1>1, <3>1 DEF WellLinked
    <3> QED BY <2>1, <3>1, <3>2 DEF InsertDone
  <2>2. CASE itor # NULL
    <3>1. at \in 1..(count + 1) /\ itor = chain[at]
      BY <1>1, <2>2, WalkPosition DEF Walks
    <3>2. at - 1 \in 0..count /\ (at - 1) + 1 = at
      BY <1>1, <3>1
    <3>3. prev[itor] = chain[at - 1]
      BY <1>1, <3>1, <3>2 DEF WellLinked
    <3> QED BY <2>2, <3>1, <3>3 DEF InsertDone
  <2> QED BY <2>1, <2>2
<1>4. /\ next' \in [Cell -> Ptr] /\ prev' \in [Cell -> Ptr] /\ data' \in [Cell -> Value]
      /\ count' = count + 1 /\ chain' \in [0..(count' + 1) -> Cell]
      /\ WellLinked'
      /\ Listed' = Listed \cup {item}
      /\ \A c \in Node : c # item /\ c \notin Listed => next'[c] = next[c]
  BY <1>1, <1>2, <1>3, LinkList DEF Return
<1>5. TypeOK'
  BY <1>1, <1>4 DEF Inv, TypeOK, PC, Ptr, Return
<1>6. Unused' = Unused
  BY <1>1 DEF Unused
<1>7. SparesLinked'
  <2>1. \A j \in 1..nspare : spare[j] \in Node /\ spare[j] # item /\ spare[j] \notin Listed
    BY <1>2 DEF Inv, TypeOK, Unused
  <2> QED BY <2>1, <1>1, <1>4 DEF Inv, SparesLinked
<1>8. HeapPartition'
  BY <1>1, <1>2, <1>4, <1>6 DEF HeapPartition, Return
<1>9. WalkOnList'
  BY <1>1, <1>4, <1>5 DEF Inv, TypeOK, WalkOnList, Walks, Return
<1> QED BY <1>4, <1>5, <1>7, <1>8, <1>9 DEF Inv

\* Dropping the first item forwards, as clear and destroy do: the next links
\* of the others are kept, prev links are not repaired.
LEMMA DropFirst ==
  ASSUME Inv, pc \in {"clear", "destroy"}, next[head] # tail,
         count' = count - 1,
         chain' = [i \in 0..count |-> IF i = 0 THEN head ELSE chain[i + 1]],
         next'[head] = next[next[head]],
         \A c \in Cell : c # head /\ c # next[head] => next'[c] = next[c],
         \A c \in Cell : pc' # "destroy" /\ c # next[head] => prev'[c] = prev[c],
         pc' = pc
  PROVE  /\ count \in Nat \ {0} /\ next[head] = chain[1] /\ next[head] \in Node
         /\ next[head] \in Listed
         /\ chain' \in [0..(count' + 1) -> Cell]
         /\ WellLinked'
         /\ Listed' = Listed \ {next[head]}
<1> USE ListAssumption DEF Cell, Ptr
<1>1. /\ count \in Nat /\ chain \in [0..(count + 1) -> Cell]
  BY DEF Inv, TypeOK
<1>2. /\ chain[0] = head /\ chain[count + 1] = tail
      /\ \A i \in 1..count : chain[i] \in Node
      /\ \A i \in 0..count : next[chain[i]] = chain[i + 1]
      /\ next[tail] = NULL
      /\ pc = "clear" => \A i \in 1..count : prev[chain[i + 1]] = chain[i]
  BY <1>1 DEF Inv, WellLinked
<1>3. \A i, j \in 0..(count + 1) : chain[i] = chain[j] => i = j
  BY ChainDistinct
<1>4. /\ 0 \in 0..count /\ next[head] = chain[1] /\ count # 0 /\ 1 \in 1..count /\ 1 \in 0..(count + 1)
      /\ next[head] \in Node
  BY <1>1, <1>2
<1>5. /\ chain'[0] = head
      /\ \A i \in 1..count : chain'[i] = chain[i + 1]
      /\ chain' \in [0..(count' + 1) -> Cell]
  BY <1>1, <1>4
<1>6. \A i \in 1..count : chain[i + 1] # head /\ chain[i + 1] # next[head] /\ i + 1 \in 0..(count + 1)
  <2> TAKE i \in 1..count
  <2>1. i + 1 \in 0..(count + 1) /\ i + 1 # 0 /\ i + 1 # 1 /\ 0 \in 0..(count + 1)
    BY <1>1
  <2> QED BY <2>1, <1>2, <1>3, <1>4
<1>7. \A i \in 0..count' : next'[chain'[i]] = chain'[i + 1]
  <2> TAKE i \in 0..count'
  <2>1. CASE i = 0
    BY <2>1, <1>1, <1>2, <1>4, <1>5
  <2>2. CASE i > 0
    <3>1. i \in 1..count /\ i + 1 \in 1..count /\ i + 1 \in 0..count
      BY <2>2, <1>1
    <3>2. chain[i + 1] \in Cell
      BY <3>1, <1>1, <1>6
    <3> QED BY <3>1, <3>2, <1>2, <1>5, <1>6
  <2> QED BY <2>1, <2>2
<1>8. pc = "clear" => \A i \in 1..count' : prev'[chain'[i + 1]] = chain'[i]
  <2> SUFFICES ASSUME pc = "clear", NEW i \in 1..count' PROVE prev'[chain'[i + 1]] = chain'[i]
    OBVIOUS
  <2>1. i \in 1..count /\ i + 1 \in 1..count
    BY <1>1
  <2>2. chain[i + 2] # next[head] /\ chain[i + 2] \in Cell /\ prev[chain[i + 2]] = chain[i + 1]
    <3>1. (i + 1) + 1 = i + 2 /\ i + 2 \in 0..(count + 1)
      BY <2>1, <1>1
    <3>2. prev[chain[(i + 1) + 1]] = chain[i + 1]
      BY <2>1, <1>2
    <3> QED BY <2>1, <3>1, <3>2, <1>1, <1>6
  <2>3. prev'[chain[i + 2]] = prev[chain[i + 2]]
    BY <2>2
  <2> QED BY <2>1, <2>2, <2>3, <1>5
<1>9. /\ \A i \in 1..count' : chain'[i] \in Node
      /\ \A i, j \in 1..count' : chain'[i] = chain'[j] => i = j
      /\ chain'[count' + 1] = tail
  BY <1>1, <1>2, <1>3, <1>4, <1>5, <1>6
<1>10. next'[tail] = NULL
  BY <1>2, <1>4
<1>11. WellLinked'
  <2>1. \A i \in 0..count' : i = 0 \/ i \in 1..count'
    BY <1>1, <1>4
  <2>2. pc' # "destroy" =>
           \A i \in 0..count' : (pc' = "clear" /\ i = 0) \/ prev'[chain'[i + 1]] = chain'[i]
    BY <2>1, <1>8
  <2> QED BY <2>2, <1>5, <1>7, <1>9, <1>10 DEF WellLinked
<1>12. Listed' = Listed \ {next[head]}
  <2>1. ASSUME NEW i \in 1..count' PROVE chain'[i] \in Listed \ {next[head]}
    <3>1. i \in 1..count /\ i + 1 \in 1..count
      BY <1>1
    <3> QED BY <3>1, <1>5, <1>6 DEF Listed
  <2>2. ASSUME NEW i \in 1..count, i # 1 PROVE chain[i] \in Listed'
    <3>1. i - 1 \in 1..count' /\ i - 1 \in 1..count /\ (i - 1) + 1 = i
      BY <2>2, <1>1
    <3> QED BY <3>1, <1>5 DEF Listed
  <2>3. ASSUME NEW c, c \in Listed' PROVE c \in Listed \ {next[head]}
    BY <2>1, <2>3 DEF Listed
  <2>4. ASSUME NEW c, c \in Listed \ {next[head]} PROVE c \in Listed'
    <3>1. PICK i \in 1..count : c = chain[i]
      BY <2>4 DEF Listed
    <3>2. i # 1
      BY <2>4, <3>1, <1>4
    <3> QED BY <2>2, <3>1, <3>2
  <2> QED BY <2>3, <2>4
<1>13. next[head] \in Listed
  BY <1>4 DEF Listed
<1> QED BY <1>1, <1>4, <1>5, <1>11, <1>12, <1>13

\* Clearing the list.
LEMMA ClearOK ==
  ASSUME Inv, ClearNext \/ ClearDone
  PROVE  Inv'
<1> USE ListAssumption
<1>1. CASE ClearNext
  <2> DEFINE n == next[head]
  <2>1. /\ pc = "clear" /\ pc' = "clear" /\ n # tail /\ count' = count - 1
        /\ next' = [next EXCEPT ![n] = prealloc, ![head] = next[n]]
        /\ prealloc' = n /\ nspare' = nspare + 1
        /\ spare' = [k \in 1..(nspare + 1) |-> IF k = nspare + 1 THEN n ELSE spare[k]]
        /\ chain' = [i \in 0..count |-> IF i = 0 THEN head ELSE chain[i + 1]]
        /\ UNCHANGED <<prev, data, heap, max_size, pc, locals, ret, leaked>>
    BY <1>1 DEF ClearNext
  <2>2. /\ next \in [Cell -> Ptr] /\ 0 \in 0..count /\ chain[0] = head /\ next[head] = chain[1]
        /\ nspare \in Nat /\ spare \in [1..nspare -> Node] /\ prealloc \in Node \cup {NULL}
        /\ item = NULL
    BY <2>1 DEF Inv, TypeOK, WellLinked, WalkOnList
  <2>3. n \in Node
    <3>1. count # 0
      BY <2>1, <2>2 DEF Inv, WellLinked
    <3>2. 1 \in 1..count
      BY <3>1 DEF Inv, TypeOK
    <3> QED BY <3>2, <2>1, <2>2 DEF Inv, WellLinked
  <2>4. /\ next'[head] = next[n] /\ next'[n] = prealloc /\ next' \in [Cell -> Ptr]
        /\ \A c \in Cell : c # head /\ c # n => next'[c] = next[c]
    BY <2>1, <2>2, <2>3 DEF Cell, Ptr
  <2>5. /\ count \in Nat \ {0} /\ n \in Listed
        /\ chain' \in [0..(count' + 1) -> Cell]
        /\ WellLinked'
        /\ Listed' = Listed \ {n}
    BY <2>1, <2>4, DropFirst
  <2>6. /\ SparesLinked' /\ Unused' = Unused \cup {n} /\ spare' \in [1..nspare' -> Node]
    <3>1. Listed \cap Unused = {} /\ SparesLinked
      BY DEF Inv, HeapPartition
    <3>2. \A c \in Unused : c \in Cell /\ c # head /\ c # n
      BY <2>2, <2>5, <3>1 DEF Unused, Cell
    <3> QED BY <2>1, <2>2, <2>3, <2>4, <2>5, <3>1, <3>2, SparePush
  <2>7. TypeOK'
    BY <2>1, <2>2, <2>3, <2>4, <2>5, <2>6 DEF Inv, TypeOK, locals
  <2>8. HeapPartition'
    BY <2>1, <2>2, <2>5, <2>6 DEF Inv, HeapPartition, locals
  <2>9. WalkOnList'
    BY <2>1, <2>5 DEF Inv, TypeOK, WalkOnList, Walks, locals
  <2> QED BY <2>5, <2>6, <2>7, <2>8, <2>9 DEF Inv
<1>2. CASE ClearDone
  <2>1. /\ pc = "clear" /\ next[head] = tail /\ prev' = [prev EXCEPT ![tail] = head]
        /\ Return(ret)
        /\ UNCHANGED <<next, data, heap, header, shape>>
        /\ item = NULL
    BY <1>2 DEF ClearDone, Inv, WalkOnList
  <2>2. count = 0
    <3> SUFFICES ASSUME count # 0 PROVE FALSE
      OBVIOUS
    <3>1. 1 \in 1..count /\ 0 \in 0..count
      BY DEF Inv, TypeOK
    <3> QED BY <2>1, <3>1 DEF Inv, WellLinked, Cell
  <2>3. TypeOK'
    BY <2>1 DEF Inv, TypeOK, PC, Return, header, shape, Cell, Ptr
  <2>4. WellLinked'
    BY <2>1, <2>2 DEF Inv, TypeOK, WellLinked, Return, header, shape, Cell
  <2>5. SparesLinked'
    BY <2>1 DEF Inv, SparesLinked, header, shape
  <2>6. HeapPartition'
    <3>1. Listed' = Listed /\ Unused' = Unused
      BY <2>1 DEF Listed, Unused, header, shape
    <3> QED BY <2>1, <3>1 DEF Inv, HeapPartition, Return, shape
  <2>7. WalkOnList'
    BY <2>1 DEF Inv, WalkOnList, Walks, Return, header, shape
  <2> QED BY <2>3, <2>4, <2>5, <2>6, <2>7 DEF Inv
<1> QED BY <1>1, <1>2

\* Creating the list.
LEMMA CreateOK ==
  ASSUME Inv, sky_list_create \/ CreatePrealloc \/ CreateFails
  PROVE  Inv'
<1> USE ListAssumption
<1>1. CASE sky_list_create
  <2>1. /\ pc = "absent" /\ count = 0 /\ item = NULL /\ nspare = 0 /\ chain[0] = head /\ chain[1] = tail
        /\ UNCHANGED <<data, heap, count, prealloc, locals, shape>>
    BY <1>1 DEF sky_list_create, Inv, WalkOnList, WellLinked
  <2>2. CASE pc' = "absent"
    <3>1. ret' = FALSE /\ UNCHANGED <<next, prev, max_size, pc>>
      BY <1>1, <2>1, <2>2 DEF sky_list_create
    <3>2. TypeOK'
      BY <2>1, <3>1 DEF Inv, TypeOK, locals, shape
    <3>3. WellLinked' /\ SparesLinked' /\ HeapPartition' /\ WalkOnList'
      BY <2>1, <3>1 DEF Inv, WellLinked, SparesLinked, HeapPartition, Listed, Unused,
                        WalkOnList, Walks, locals, shape
    <3> QED BY <3>2, <3>3 DEF Inv
  <2>3. CASE pc' # "absent"
    <3>1. /\ next' = [next EXCEPT ![head] = tail, ![tail] = NULL]
          /\ prev' = [prev EXCEPT ![head] = NULL, ![tail] = head]
          /\ max_size' \in 0..MaxSize /\ pc' = "create" /\ ret' = ret
      BY <1>1, <2>1, <2>3 DEF sky_list_create
    <3>2. TypeOK'
      BY <2>1, <3>1 DEF Inv, TypeOK, PC, locals, shape, Cell, Ptr
    <3>3. WellLinked'
      BY <2>1, <3>1 DEF Inv, TypeOK, WellLinked, shape, Cell
    <3>4. SparesLinked'
      BY <2>1, <3>1 DEF Inv, SparesLinked, shape
    <3>5. HeapPartition' /\ WalkOnList'
      BY <2>1, <3>1 DEF Inv, HeapPartition, Listed, Unused, WalkOnList, Walks, locals, shape
    <3> QED BY <3>2, <3>3, <3>4, <3>5 DEF Inv
  <2> QED BY <2>2, <2>3
<1>2. CASE CreatePrealloc
  <2>1. /\ pc = "create" /\ pc' = "create" /\ count = 0 /\ item = NULL
        /\ UNCHANGED <<prev, count, max_size, pc, locals, ret, chain, leaked>>
    BY <1>2 DEF CreatePrealloc, Inv, WalkOnList
  <2>2. PICK n \in Node \ heap :
          /\ heap' = heap \cup {n}
          /\ data' = [data EXCEPT ![n] = NULL]
          /\ next' = [next EXCEPT ![n] = prealloc]
          /\ prealloc' = n
          /\ nspare' = nspare + 1
          /\ spare' = [k \in 1..(nspare + 1) |-> IF k = nspare + 1 THEN n ELSE spare[k]]
    BY <1>2 DEF CreatePrealloc
  <2>3. /\ n \notin Unused /\ n \notin leaked /\ Listed = {} /\ SparesLinked
        /\ nspare \in Nat /\ spare \in [1..nspare -> Node] /\ next \in [Cell -> Ptr]
        /\ prealloc \in Node \cup {NULL}
    BY <2>1, <2>2 DEF Inv, TypeOK, HeapPartition, Listed
  <2>4. next'[n] = prealloc /\ next'[head] = next[head] /\ next'[tail] = next[tail]
        /\ \A c \in Unused : next'[c] = next[c]
    BY <2>2, <2>3 DEF Unused, Cell
  <2>5. SparesLinked' /\ Unused' = Unused \cup {n} /\ spare' \in [1..nspare' -> Node]
    BY <2>2, <2>3, <2>4, SparePush
  <2>6. TypeOK'
    BY <2>1, <2>2, <2>3, <2>5 DEF Inv, TypeOK, locals, Cell, Ptr
  <2>7. WellLinked'
    BY <2>1, <2>4 DEF Inv, WellLinked
  <2>8. Listed' = {}
    BY <2>1 DEF Listed
  <2>9. HeapPartition'
    BY <2>1, <2>2, <2>3, <2>5, <2>8 DEF Inv, HeapPartition, locals
  <2>10. WalkOnList'
    BY <2>1 DEF Inv, WalkOnList, Walks, locals
  <2> QED BY <2>5, <2>6, <2>7, <2>9, <2>10 DEF Inv
<1>3. CASE CreateFails
  <2>1. /\ pc = "create" /\ pc' = "drain" /\ ret' = FALSE /\ count = 0 /\ item = NULL
        /\ UNCHANGED <<links, heap, count, max_size, locals, chain>>
        /\ Listed = {} /\ Listed' = {}
    BY <1>3 DEF CreateFails, Inv, WalkOnList, Listed
  <2>2. CASE UNCHANGED <<prealloc, spare, nspare, leaked>>
    <3>1. TypeOK'
      BY <2>1, <2>2 DEF Inv, TypeOK, PC, links, locals
    <3>2. WellLinked' /\ SparesLinked'
      BY <2>1, <2>2 DEF Inv, WellLinked, SparesLinked, links
    <3>3. HeapPartition' /\ WalkOnList'
      BY <2>1, <2>2 DEF Inv, HeapPartition, Unused, WalkOnList, Walks, locals
    <3> QED BY <3>1, <3>2, <3>3 DEF Inv
  <2>3. CASE ~UNCHANGED <<prealloc, spare, nspare, leaked>>
    <3>1. /\ prealloc' = NULL /\ nspare' = 0 /\ spare' = [k \in {} |-> NULL]
          /\ leaked' = leaked \cup Unused
      BY <1>3, <2>3 DEF CreateFails, Unused
    <3>2. Unused' = {} /\ Unused \in SUBSET Node /\ spare' \in [1..nspare' -> Node]
      BY <3>1 DEF Unused, Inv, TypeOK
    <3>3. TypeOK'
      BY <2>1, <3>1, <3>2 DEF Inv, TypeOK, PC, links, locals
    <3>4. WellLinked' /\ SparesLinked'
      BY <2>1, <3>1 DEF Inv, WellLinked, SparesLinked, links
    <3>5. HeapPartition' /\ WalkOnList'
      BY <2>1, <3>1, <3>2 DEF Inv, HeapPartition, WalkOnList, Walks, locals
    <3> QED BY <3>3, <3>4, <3>5 DEF Inv
  <2> QED BY <2>2, <2>3
<1> QED BY <1>1, <1>2, <1>3

\* Destroying it.
LEMMA DestroyOK ==
  ASSUME Inv, DestroyItem \/ DestroyItems \/ DrainItem \/ DrainDone
  PROVE  Inv'
<1> USE ListAssumption
<1>1. CASE DestroyItem
  <2> DEFINE n == next[head]
  <2>1. /\ pc = "destroy" /\ pc' = "destroy" /\ n # tail /\ count' = count - 1
        /\ next' = [[next EXCEPT ![head] = next[n]] EXCEPT ![n] = NULL]
        /\ prev' = [prev EXCEPT ![n] = NULL]
        /\ data' = [data EXCEPT ![n] = NULL]
        /\ heap' = heap \ {n}
        /\ chain' = [i \in 0..count |-> IF i = 0 THEN head ELSE chain[i + 1]]
        /\ UNCHANGED <<max_size, prealloc, pc, locals, ret, spare, nspare, leaked>>
    BY <1>1 DEF DestroyItem, Scrub
  <2>2. /\ next \in [Cell -> Ptr] /\ 0 \in 0..count /\ chain[0] = head /\ next[head] = chain[1]
        /\ item = NULL
    BY <2>1 DEF Inv, TypeOK, WellLinked, WalkOnList
  <2>3. n \in Node
    <3>1. count # 0
      BY <2>1, <2>2 DEF Inv, WellLinked
    <3>2. 1 \in 1..count
      BY <3>1 DEF Inv, TypeOK
    <3> QED BY <3>2, <2>1, <2>2 DEF Inv, WellLinked
  <2>4. /\ next'[head] = next[n] /\ next' \in [Cell -> Ptr]
        /\ \A c \in Cell : c # head /\ c # n => next'[c] = next[c]
    BY <2>1, <2>2, <2>3 DEF Cell, Ptr
  <2>5. /\ count \in Nat \ {0} /\ n \in Listed
        /\ chain' \in [0..(count' + 1) -> Cell]
        /\ WellLinked'
        /\ Listed' = Listed \ {n}
    BY <2>1, <2>4, DropFirst
  <2>6. Unused' = Unused /\ n \notin Unused /\ n \notin leaked
    BY <2>1, <2>5 DEF Unused, Inv, HeapPartition
  <2>7. SparesLinked'
    <3>1. \A k \in 1..nspare : spare[k] \in Cell /\ spare[k] # head /\ spare[k] # n
      BY <2>6 DEF Unused, Inv, TypeOK, Cell
    <3> QED BY <2>1, <2>4, <3>1 DEF Inv, SparesLinked
  <2>8. TypeOK'
    BY <2>1, <2>4, <2>5 DEF Inv, TypeOK, locals, Cell, Ptr
  <2>9. HeapPartition'
    BY <2>1, <2>2, <2>5, <2>6 DEF Inv, HeapPartition, locals
  <2>10. WalkOnList'
    BY <2>1, <2>5 DEF Inv, TypeOK, WalkOnList, Walks, locals
  <2> QED BY <2>5, <2>7, <2>8, <2>9, <2>10 DEF Inv
<1>2. CASE DestroyItems
  <2>1. /\ pc = "destroy" /\ pc' = "drain" /\ next[head] = tail
        /\ UNCHANGED <<links, heap, header, locals, ret, shape>>
    BY <1>2 DEF DestroyItems
  <2>2. count = 0
    <3> SUFFICES ASSUME count # 0 PROVE FALSE
      OBVIOUS
    <3>1. 1 \in 1..count /\ 0 \in 0..count
      BY DEF Inv, TypeOK
    <3> QED BY <2>1, <3>1 DEF Inv, WellLinked, Cell
  <2>3. TypeOK'
    BY <2>1 DEF Inv, TypeOK, PC, links, header, locals, shape
  <2>4. WellLinked' /\ SparesLinked'
    BY <2>1 DEF Inv, WellLinked, SparesLinked, links, header, shape
  <2>5. HeapPartition' /\ WalkOnList'
    BY <2>1, <2>2 DEF Inv, HeapPartition, Listed, Unused, WalkOnList, Walks, links, header, locals, shape
  <2> QED BY <2>3, <2>4, <2>5 DEF Inv
<1>3. CASE DrainItem
  <2>1. /\ pc = "drain" /\ pc' = "drain" /\ prealloc # NULL /\ count = 0 /\ item = NULL
        /\ next' = [next EXCEPT ![prealloc] = NULL]
        /\ prev' = [prev EXCEPT ![prealloc] = NULL]
        /\ data' = [data EXCEPT ![prealloc] = NULL]
        /\ heap' = heap \ {prealloc}
        /\ prealloc' = next[prealloc]
        /\ nspare' = nspare - 1
        /\ spare' = [k \in 1..(nspare - 1) |-> spare[k]]
        /\ UNCHANGED <<count, max_size, pc, locals, ret, chain, leaked>>
    BY <1>3 DEF DrainItem, Scrub, Inv, WalkOnList
  <2>2. /\ nspare \in Nat /\ spare \in [1..nspare -> Node] /\ next \in [Cell -> Ptr]
        /\ SparesLinked
    BY DEF Inv, TypeOK
  <2>3. /\ nspare \in Nat \ {0} /\ prealloc = spare[nspare] /\ prealloc \in Node
    BY <2>1, <2>2 DEF SparesLinked
  <2>4. /\ \A k \in 1..nspare' : k \in 1..nspare /\ spare'[k] = spare[k] /\ spare[k] # prealloc
    BY <2>1, <2>2, <2>3 DEF SparesLinked
  <2>5. SparesLinked'
    BY <2>1, <2>2, <2>3, <2>4 DEF SparesLinked, Cell
  <2>6. Unused' = Unused \ {prealloc} /\ prealloc \in Unused
    BY <2>1, <2>2, <2>3, <2>4 DEF Unused
  <2>7. Listed = {} /\ Listed' = {}
    BY <2>1 DEF Listed
  <2>8. TypeOK'
    <3>1. next[prealloc] \in Node \cup {NULL}
      BY <2>2, <2>3 DEF SparesLinked
    <3>2. spare' \in [1..nspare' -> Node] /\ nspare' \in Nat
      BY <2>1, <2>2, <2>3
    <3> QED BY <2>1, <2>3, <3>1, <3>2 DEF Inv, TypeOK, locals, Cell, Ptr
  <2>9. WellLinked'
    BY <2>1 DEF Inv, WellLinked
  <2>10. HeapPartition'
    BY <2>1, <2>6, <2>7 DEF Inv, HeapPartition, locals
  <2>11. WalkOnList'
    BY <2>1 DEF Inv, WalkOnList, Walks, locals
  <2> QED BY <2>5, <2>8, <2>9, <2>10, <2>11 DEF Inv
<1>4. CASE DrainDone
  <2>1. /\ pc = "drain" /\ pc' = "absent" /\ prealloc = NULL /\ count = 0 /\ item = NULL
        /\ next' = [next EXCEPT ![head] = NULL]
        /\ prev' = [prev EXCEPT ![tail] = NULL]
        /\ max_size' = 0
        /\ UNCHANGED <<data, heap, count, prealloc, locals, ret, shape>>
    BY <1>4 DEF DrainDone, Scrub, Inv, WalkOnList
  <2>2. nspare = 0 /\ Unused = {} /\ Listed = {} /\ Unused' = {} /\ Listed' = {}
    <3>1. nspare \in Nat /\ spare \in [1..nspare -> Node]
      BY DEF Inv, TypeOK
    <3>2. nspare = 0
      BY <2>1, <3>1 DEF Inv, SparesLinked, Cell
    <3> QED BY <2>1, <3>2 DEF Unused, Listed, shape
  <2>3. TypeOK'
    BY <2>1 DEF Inv, TypeOK, PC, locals, shape, Cell, Ptr
  <2>4. WellLinked' /\ SparesLinked'
    BY <2>1, <2>2 DEF Inv, WellLinked, SparesLinked, shape
  <2>5. HeapPartition'
    BY <2>1, <2>2 DEF Inv, HeapPartition, locals, shape
  <2>6. WalkOnList'
    BY <2>1, <2>2 DEF Inv, WalkOnList, Walks, locals, shape
  <2> QED BY <2>3, <2>4, <2>5, <2>6 DEF Inv
<1> QED BY <1>1, <1>2, <1>3, <1>4

\* Every step of every call keeps the invariant.
LEMMA NextInv == Inv /\ [Next]_vars => Inv'
<1> SUFFICES ASSUME Inv, [Next]_vars PROVE Inv'
  OBVIOUS
<1>1. CASE Call
  BY <1>1, QuietOK, PushOK, PopOK, InsertStartOK, CreateOK DEF Call
<1>2. CASE Step
  BY <1>2, QuietOK, PopOK, InsertDoneOK, ClearOK, CreateOK, DestroyOK DEF Step
<1>3. CASE UNCHANGED vars
  <2> USE <1>3 DEF vars, links, header, locals, shape
  <2>1. TypeOK'
    BY DEF Inv, TypeOK
  <2>2. WellLinked' /\ SparesLinked'
    BY DEF Inv, WellLinked, SparesLinked
  <2>3. Listed' = Listed /\ Unused' = Unused
    BY DEF Listed, Unused
  <2>4. HeapPartition' /\ WalkOnList'
    BY <2>3 DEF Inv, HeapPartition, WalkOnList
  <2> QED BY <2>1, <2>2, <2>4 DEF Inv
<1> QED BY <1>1, <1>2, <1>3 DEF Next

\* The variables of a list handle keep their types.
THEOREM TypeCorrect == Spec => []TypeOK
<1>1. Inv => TypeOK
  BY DEF Inv
<1> QED BY InitInv, NextInv, <1>1, PTL DEF Spec

\* The list is a doubly linked chain of count distinct nodes in every
\* reachable state.
THEOREM ListWellLinked == Spec => []WellLinked
<1>1. Inv => WellLinked
  BY DEF Inv
<1> QED BY InitInv, NextInv, <1>1, PTL DEF Spec

\* So is the chain of unused nodes, in one direction: prealloc leads to nspare
\* distinct nodes and then to NULL.
THEOREM SparesWellLinked == Spec => []SparesLinked
<1>1. Inv => SparesLinked
  BY DEF Inv
<1> QED BY InitInv, NextInv, <1>1, PTL DEF Spec

\* The loops that walk over the list never leave it, whatever index or
\* comparison they were given.
THEOREM WalksStayOnList == Spec => []WalkOnList
<1>1. Inv => WalkOnList
  BY DEF Inv
<1> QED BY InitInv, NextInv, <1>1, PTL DEF Spec

\* No node is lost, shared or used after it was freed.
THEOREM HeapAccounted == Spec => []HeapPartition
<1>1. Inv => HeapPartition
  BY DEF Inv
<1> QED BY InitInv, NextInv, <1>1, PTL DEF Spec

\* What a taken node costs: one unused node, or, only when there is none, one
\* more from the allocator.
LEMMA TakeCost ==
  ASSUME Inv, NEW n, TakeItem(n)
  PROVE  (nspare = 0 /\ nspare' = 0) \/ (nspare > 0 /\ nspare' = nspare - 1)
<1>1. nspare \in Nat /\ spare \in [1..nspare -> Node] /\ SparesLinked
  BY DEF Inv, TypeOK
<1>2. CASE prealloc = NULL
  BY <1>1, <1>2, ListAssumption DEF SparesLinked, TakeItem, Cell
<1>3. CASE prealloc # NULL
  BY <1>1, <1>3 DEF SparesLinked, TakeItem
<1> QED BY <1>2, <1>3

\* The pre-allocation loop stops at SKY_LIST_PREALLOC_NUM nodes.
Bounded == HeapBound /\ (pc = "create" => nspare <= PreallocNum)

LEMMA BoundedNext == Inv /\ Inv' /\ Bounded /\ [Next]_vars => Bounded'
<1> SUFFICES ASSUME Inv, Inv', Bounded, [Next]_vars PROVE Bounded'
  OBVIOUS
<1> USE ListAssumption
<1>1. /\ count \in Nat /\ nspare \in Nat /\ max_size \in Nat /\ PreallocNum \in Nat
      /\ count' \in Nat /\ nspare' \in Nat /\ max_size' \in Nat
      /\ (item # NULL) <=> (pc = "insert")
      /\ (item' # NULL) <=> (pc' = "insert")
      /\ pc \in {"absent", "create", "drain"} => count = 0
      /\ pc = "absent" => nspare = 0
      /\ pc = "insert" => count < max_size
  BY DEF Inv, TypeOK, WalkOnList
<1>2. ASSUME UNCHANGED <<count, nspare, max_size>>, pc # "insert", pc' # "insert",
             pc' = "create" => pc = "create", pc' \in Walks \cup {"idle", "clear"} =>
                                              pc \in Walks \cup {"idle", "clear"}
      PROVE  Bounded'
  BY <1>1, <1>2 DEF Bounded, HeapBound
<1>3. ASSUME pc \in Walks \cup {"idle", "clear"}, pc' \in Walks \cup {"idle", "clear"}, pc # "insert",
             pc' # "insert", count' + nspare' = count + nspare, max_size' = max_size
      PROVE  Bounded'
  BY <1>1, <1>3 DEF Bounded, HeapBound, Walks
<1>4. ASSUME NEW d \in Value, sky_list_push_front(d) \/ sky_list_push_back(d) PROVE Bounded'
  <2>1. PICK n \in Node : TakeItem(n)
    BY <1>4 DEF sky_list_push_front, sky_list_push_back
  <2>2. /\ pc = "idle" /\ pc' = "idle" /\ count < max_size /\ count' = count + 1 /\ max_size' = max_size
    BY <1>4 DEF sky_list_push_front, sky_list_push_back, Link, Return
  <2>3. (nspare = 0 /\ nspare' = 0) \/ (nspare > 0 /\ nspare' = nspare - 1)
    BY <2>1, TakeCost
  <2>4. CASE nspare = 0
    BY <1>1, <2>2, <2>3, <2>4 DEF Bounded, HeapBound
  <2>5. CASE nspare > 0
    <3>1. item = NULL /\ count + nspare <= IF max_size > PreallocNum THEN max_size ELSE PreallocNum
      BY <1>1, <2>2 DEF Bounded, HeapBound
    <3>2. count' + nspare' + (IF item' = NULL THEN 0 ELSE 1) = count + nspare
      <4>1. item' = NULL /\ nspare' = nspare - 1 /\ count' = count + 1
        BY <1>1, <2>2, <2>3, <2>5
      <4>2. (count + 1) + (nspare - 1) + 0 = count + nspare
        BY <1>1
      <4> QED BY <4>1, <4>2
    <3> QED BY <3>1, <3>2, <2>2 DEF Bounded, HeapBound
  <2> QED BY <1>1, <2>4, <2>5
<1>5. ASSUME NEW i \in 0..MaxIndex, NEW d \in Value, sky_list_insert(i, d) PROVE Bounded'
  <2>1. PICK n \in Node : TakeItem(n)
    BY <1>5 DEF sky_list_insert
  <2>2. /\ pc = "idle" /\ pc' = "insert" /\ count < max_size /\ count' = count /\ max_size' = max_size
    BY <1>5 DEF sky_list_insert, StartWalk
  <2>3. (nspare = 0 /\ nspare' = 0) \/ (nspare > 0 /\ nspare' = nspare - 1)
    BY <2>1, TakeCost
  <2>4. CASE nspare = 0
    BY <1>1, <2>2, <2>3, <2>4 DEF Bounded, HeapBound
  <2>5. CASE nspare > 0
    <3>1. item = NULL /\ count + nspare <= IF max_size > PreallocNum THEN max_size ELSE PreallocNum
      BY <1>1, <2>2 DEF Bounded, HeapBound
    <3>2. count' + nspare' + (IF item' = NULL THEN 0 ELSE 1) = count + nspare
      <4>1. item' # NULL /\ nspare' = nspare - 1 /\ count' = count
        BY <1>1, <2>2, <2>3, <2>5
      <4>2. count + (nspare - 1) + 1 = count + nspare
        BY <1>1
      <4> QED BY <4>1, <4>2
    <3> QED BY <3>1, <3>2, <2>2 DEF Bounded, HeapBound
  <2> QED BY <1>1, <2>4, <2>5
<1>6. CASE InsertDone
  <2>1. /\ pc = "insert" /\ pc' = "idle" /\ count' = count + 1 /\ max_size' = max_size /\ nspare' = nspare
    BY <1>6 DEF InsertDone, Link, Return
  <2> QED BY <1>1, <2>1 DEF Bounded, HeapBound, Walks
<1>7. CASE InsertNext
  BY <1>1, <1>7 DEF InsertNext, Advance, header, shape, Bounded, HeapBound
<1>8. CASE sky_list_pop_front \/ sky_list_pop_back
  <2>1. /\ pc = "idle" /\ pc' = "idle" /\ max_size' = max_size
        /\ count' + nspare' = count + nspare
    BY <1>1, <1>8 DEF sky_list_pop_front, sky_list_pop_back, Pop, Unlink, UnlinkRest, Return, header, shape
  <2> QED BY <2>1, <1>3
<1>9. CASE RemoveHit \/ ClearNext
  <2>1. /\ pc \in {"remove", "clear"} /\ pc' \in {"idle", "clear"} /\ max_size' = max_size
        /\ count' + nspare' = count + nspare
    <3>1. CASE RemoveHit
      BY <1>1, <3>1 DEF RemoveHit, Unlink, UnlinkRest, Return
    <3>2. CASE ClearNext
      BY <1>1, <3>2 DEF ClearNext
    <3> QED BY <1>9, <3>1, <3>2
  <2> QED BY <2>1, <1>3 DEF Walks
<1>10. CASE CreatePrealloc
  BY <1>1, <1>10 DEF CreatePrealloc, Bounded, HeapBound, Walks
<1>11. CASE CreateDone
  BY <1>1, <1>11 DEF CreateDone, Return, header, shape, Bounded, HeapBound
<1>12. CASE sky_list_create
  BY <1>1, <1>12 DEF sky_list_create, shape, Bounded, HeapBound, Walks
<1>13. CASE CreateFails \/ DestroyItem \/ DestroyItems \/ DrainItem \/ DrainDone \/ sky_list_destroy
  BY <1>13 DEF CreateFails, DestroyItem, DestroyItems, DrainItem, DrainDone, sky_list_destroy,
               Bounded, HeapBound, Walks
<1>14. CASE \/ Refuse \/ sky_list_front \/ sky_list_back \/ sky_list_full \/ sky_list_empty
            \/ sky_list_clear \/ ClearDone
  <2>1. /\ pc \in {"idle", "clear"} /\ pc' \in {"idle", "clear"} /\ UNCHANGED <<count, nspare, max_size>>
    BY <1>14 DEF Refuse, sky_list_front, sky_list_back, sky_list_full, sky_list_empty, Observe,
                 sky_list_clear, ClearDone, Return, header, shape
  <2> QED BY <2>1, <1>2
<1>15. CASE GetNext \/ GetDone \/ SeekNext \/ SeekMiss \/ FindHit
  <2>1. /\ pc \in Walks \ {"insert"} /\ pc' \in (Walks \cup {"idle"}) \ {"insert"}
        /\ UNCHANGED <<count, nspare, max_size>>
    BY <1>15 DEF GetNext, GetDone, SeekNext, SeekMiss, FindHit, Seeking, Advance, Return,
                 header, shape, Walks
  <2> QED BY <2>1, <1>2 DEF Walks
<1>16. ASSUME NEW name \in Walks \ {"insert"}, NEW i, NEW d, NEW m, StartWalk(name, i, d, m), Keep
       PROVE  Bounded'
  BY <1>2, <1>16 DEF StartWalk, Keep, Walks
<1>17. ASSUME NEW i \in 0..MaxIndex, sky_list_get_at(i) PROVE Bounded'
  <2>1. CASE i < count
    BY <2>1, <1>16, <1>17 DEF sky_list_get_at, Walks
  <2>2. CASE ~(i < count)
    BY <2>2, <1>2, <1>17 DEF sky_list_get_at, Observe, Return, header, shape
  <2> QED BY <2>1, <2>2
<1>18. ASSUME NEW m \in SUBSET Value, sky_list_remove_if(m) \/ sky_list_find_if(m) PROVE Bounded'
  BY <1>16, <1>18 DEF sky_list_remove_if, sky_list_find_if, Walks
<1>19. ASSUME NEW d \in Value, sky_list_contain(d) PROVE Bounded'
  BY <1>16, <1>19 DEF sky_list_contain, Walks
<1>20. CASE UNCHANGED vars
  BY <1>20 DEF vars, header, locals, shape, Bounded, HeapBound
<1>21. CASE Call
  BY <1>21, <1>4, <1>5, <1>8, <1>12, <1>13, <1>14, <1>17, <1>18, <1>19 DEF Call
<1>22. CASE Step
  BY <1>22, <1>6, <1>7, <1>9, <1>10, <1>11, <1>13, <1>14, <1>15 DEF Step
<1> QED BY <1>20, <1>21, <1>22 DEF Next

\* The list never owns more nodes than its limit or its pre-allocation, however
\* long it is used.
THEOREM HeapBounded == Spec => []HeapBound
<1>1. Init => Bounded
  BY DEF Init, Bounded, HeapBound, Walks
<1>2. Bounded => HeapBound
  BY DEF Bounded
<1> QED BY InitInv, NextInv, BoundedNext, <1>1, <1>2, PTL DEF Spec

----------------------------------------------------------------------------
(* The refinement of SkyListSpec *)

\* A function on 1..n is a sequence of n items.
LEMMA FunSeq ==
  ASSUME NEW S, NEW n \in Nat, NEW f, \A i \in 1..n : f[i] \in S
  PROVE  /\ [i \in 1..n |-> f[i]] \in Seq(S)
         /\ Len([i \in 1..n |-> f[i]]) = n
OBVIOUS

\* Sequences of the same items in the same order are equal.
LEMMA SameSeq ==
  ASSUME NEW S, NEW s \in Seq(S), NEW t \in Seq(S), Len(s) = Len(t),
         \A i \in 1..Len(s) : s[i] = t[i]
  PROVE s = t
OBVIOUS

\* What SkyListSpec inserts is at position k, and what was behind it moves up.
LEMMA InsertAtIs ==
  ASSUME NEW S, NEW s \in Seq(S), NEW k \in 1..(Len(s) + 1), NEW d \in S
  PROVE  /\ Abs!InsertAt(s, k, d) \in Seq(S)
         /\ Len(Abs!InsertAt(s, k, d)) = Len(s) + 1
         /\ \A i \in 1..(Len(s) + 1) :
              Abs!InsertAt(s, k, d)[i] = IF i < k THEN s[i] ELSE IF i = k THEN d ELSE s[i - 1]
<1> DEFINE l == SubSeq(s, 1, k - 1)
           m == <<d>>
           r == SubSeq(s, k, Len(s))
<1>1. /\ l \in Seq(S) /\ Len(l) = k - 1 /\ \A i \in 1..(k - 1) : l[i] = s[i]
      /\ r \in Seq(S) /\ Len(r) = Len(s) - k + 1
      /\ \A i \in 1..(Len(s) - k + 1) : r[i] = s[k + i - 1]
      /\ m \in Seq(S) /\ Len(m) = 1 /\ m[1] = d
  OBVIOUS
<1>2. Abs!InsertAt(s, k, d) = l \o m \o r
  BY DEF Abs!InsertAt
<1> DEFINE q == l \o m
<1>3. /\ q \in Seq(S) /\ Len(q) = Len(l) + Len(m)
      /\ \A i \in 1..(Len(l) + Len(m)) : q[i] = IF i <= Len(l) THEN l[i] ELSE m[i - Len(l)]
  <2> HIDE DEF l, m
  <2> QED BY <1>1, ConcatProperties
<1> HIDE DEF l, m, q, r
<1>4. /\ q \o r \in Seq(S) /\ Len(q \o r) = Len(q) + Len(r)
      /\ \A i \in 1..(Len(q) + Len(r)) : (q \o r)[i] = IF i <= Len(q) THEN q[i] ELSE r[i - Len(q)]
  <2>1. q \in Seq(S) /\ r \in Seq(S)
    BY <1>1, <1>3
  <2> QED BY <2>1, ConcatProperties
<1>5. Abs!InsertAt(s, k, d) = q \o r
  BY <1>2 DEF q
<1>6. Len(s) \in Nat /\ Len(q) = k /\ Len(q) + Len(r) = Len(s) + 1 /\ Len(l) + Len(m) = k
  BY <1>1, <1>3
<1>7. ASSUME NEW i \in 1..(Len(s) + 1)
      PROVE  (q \o r)[i] = IF i < k THEN s[i] ELSE IF i = k THEN d ELSE s[i - 1]
  <2>1. CASE i < k
    <3>1. i \in 1..(k - 1) /\ i \in 1..k /\ i <= Len(l) /\ i <= Len(q)
      BY <1>1, <1>6, <2>1
    <3> QED BY <1>1, <1>3, <1>4, <1>6, <3>1, <2>1
  <2>2. CASE i = k
    <3>1. i - Len(l) = 1 /\ ~(i <= Len(l)) /\ i <= Len(q)
      BY <1>1, <1>6, <2>2
    <3> QED BY <1>1, <1>3, <1>4, <1>6, <3>1, <2>2
  <2>3. CASE i > k
    <3>1. i - k \in 1..(Len(s) - k + 1) /\ k + (i - k) - 1 = i - 1 /\ ~(i <= k)
      BY <1>6, <2>3
    <3>2. (q \o r)[i] = r[i - k]
      BY <1>4, <1>6, <3>1
    <3> QED BY <1>1, <3>1, <3>2, <2>3
  <2> QED BY <1>6, <2>1, <2>2, <2>3
<1> QED BY <1>4, <1>5, <1>6, <1>7

\* What SkyListSpec removes leaves its place to what was behind it.
LEMMA RemoveAtIs ==
  ASSUME NEW S, NEW s \in Seq(S), NEW k \in 1..Len(s)
  PROVE  /\ Abs!RemoveAt(s, k) \in Seq(S)
         /\ Len(Abs!RemoveAt(s, k)) = Len(s) - 1
         /\ \A i \in 1..(Len(s) - 1) :
              Abs!RemoveAt(s, k)[i] = IF i < k THEN s[i] ELSE s[i + 1]
<1> DEFINE l == SubSeq(s, 1, k - 1)
           r == SubSeq(s, k + 1, Len(s))
<1>1. /\ l \in Seq(S) /\ Len(l) = k - 1 /\ \A i \in 1..(k - 1) : l[i] = s[i]
      /\ r \in Seq(S) /\ Len(r) = Len(s) - k
      /\ \A i \in 1..(Len(s) - k) : r[i] = s[k + i]
  OBVIOUS
<1>2. Abs!RemoveAt(s, k) = l \o r
  BY DEF Abs!RemoveAt
<1> HIDE DEF l, r
<1>3. /\ Abs!RemoveAt(s, k) \in Seq(S) /\ Len(Abs!RemoveAt(s, k)) = Len(s) - 1
  BY <1>1, <1>2
<1>4. ASSUME NEW i \in 1..(Len(s) - 1)
      PROVE  Abs!RemoveAt(s, k)[i] = IF i < k THEN s[i] ELSE s[i + 1]
  <2>1. CASE i < k
    BY <1>1, <1>2, <2>1
  <2>2. CASE ~(i < k)
    <3>1. Abs!RemoveAt(s, k)[i] = r[i - k + 1]
      BY <1>1, <1>2, <2>2
    <3>2. i - k + 1 \in 1..(Len(s) - k) /\ k + (i - k + 1) = i + 1
      BY <2>2
    <3> QED BY <1>1, <3>1, <3>2, <2>2
  <2> QED BY <2>1, <2>2
<1> QED BY <1>3, <1>4

\* Pushes and pops are insertions and removals at the ends.
LEMMA EndsAre ==
  ASSUME NEW S, NEW s \in Seq(S), NEW d \in S
  PROVE  /\ <<d>> \o s = Abs!InsertAt(s, 1, d)
         /\ Append(s, d) = Abs!InsertAt(s, Len(s) + 1, d)
         /\ s # <<>> => Tail(s) = Abs!RemoveAt(s, 1) /\ Abs!Front(s) = Abs!RemoveAt(s, Len(s))
<1>1. <<d>> \o s = Abs!InsertAt(s, 1, d)
  BY DEF Abs!InsertAt
<1>2. Append(s, d) = Abs!InsertAt(s, Len(s) + 1, d)
  BY DEF Abs!InsertAt
<1>3. s # <<>> => Tail(s) = Abs!RemoveAt(s, 1)
  BY DEF Abs!RemoveAt
<1>4. s # <<>> => Abs!Front(s) = Abs!RemoveAt(s, Len(s))
  BY DEF Abs!RemoveAt, Abs!Front
<1> QED BY <1>1, <1>2, <1>3, <1>4


\* What a call in progress remembers of its request, and what it has found out.
Answering ==
    /\ pc \notin Walks => arg = NULL /\ match = {}
    /\ pc = "create" => max_size # 0
    /\ pc = "contain" => match = {arg}
    /\ Seeking => \A j \in 1..(at - 1) : data[chain[j]] \notin match

\* Every step keeps it: a walk passes only what it does not look for.
LEMMA AnsweringNext == Inv /\ Inv' /\ Answering /\ [Next]_vars => Answering'
<1> SUFFICES ASSUME Inv, Inv', Answering, [Next]_vars PROVE Answering'
  OBVIOUS
<1> USE DEF Answering, Walks, Seeking
<1>1. CASE Return(ret')
  BY <1>1 DEF Return
<1>2. ASSUME NEW name \in Walks, NEW i, NEW d, NEW m, StartWalk(name, i, d, m), name = "contain" => m = {d}
      PROVE  Answering'
  BY <1>2 DEF StartWalk
<1>3. CASE SeekNext
  <2>1. /\ pc \in Walks /\ itor # NULL /\ itor # tail
    BY <1>3, ListAssumption DEF SeekNext, Inv, WalkOnList, WellLinked, TypeOK
  <2>2. at \in 1..count /\ itor = chain[at] /\ count \in Nat
    BY <2>1, WalkPosition DEF Inv, TypeOK
  <2>3. /\ UNCHANGED <<data, chain, pc, arg, match>> /\ at' = at + 1 /\ data[itor] \notin match
    BY <1>3 DEF SeekNext, Advance, links, shape
  <2>4. ASSUME NEW j \in 1..(at' - 1) PROVE data[chain[j]] \notin match
    <3>1. j \in 1..(at - 1) \/ j = at
      BY <2>2, <2>3
    <3> QED BY <3>1, <2>2, <2>3, <1>3 DEF SeekNext
  <2> QED BY <2>3, <2>4, <1>3 DEF SeekNext
<1>4. CASE GetNext \/ InsertNext
  BY <1>4 DEF GetNext, InsertNext, Advance
<1>5. CASE sky_list_create
  BY <1>5 DEF sky_list_create, locals
<1>6. CASE \/ CreatePrealloc \/ CreateFails \/ sky_list_destroy \/ sky_list_clear
           \/ DestroyItem \/ DestroyItems \/ DrainItem \/ DrainDone \/ ClearNext
  BY <1>6 DEF CreatePrealloc, CreateFails, sky_list_destroy, sky_list_clear, DestroyItem,
              DestroyItems, DrainItem, DrainDone, ClearNext, locals, header
<1>7. CASE \/ Refuse \/ sky_list_pop_front \/ sky_list_pop_back
           \/ sky_list_front \/ sky_list_back \/ sky_list_full \/ sky_list_empty
           \/ \E d \in Value : sky_list_push_front(d) \/ sky_list_push_back(d)
           \/ CreateDone \/ GetDone \/ InsertDone \/ SeekMiss \/ FindHit \/ RemoveHit \/ ClearDone
  BY <1>1, <1>7 DEF Refuse, sky_list_pop_front, sky_list_pop_back, Pop, sky_list_front, sky_list_back,
                    sky_list_full, sky_list_empty, Observe, sky_list_push_front, sky_list_push_back,
                    CreateDone, GetDone, InsertDone, SeekMiss, FindHit, RemoveHit, ClearDone, Return
<1>8. ASSUME NEW i \in 0..MaxIndex, sky_list_get_at(i) \/ \E d \in Value : sky_list_insert(i, d)
      PROVE  Answering'
  BY <1>1, <1>2, <1>8 DEF sky_list_get_at, sky_list_insert, Observe, Return
<1>9. CASE \/ \E m \in SUBSET Value : sky_list_remove_if(m) \/ sky_list_find_if(m)
           \/ \E d \in Value : sky_list_contain(d)
  BY <1>2, <1>9 DEF sky_list_remove_if, sky_list_find_if, sky_list_contain
<1>10. CASE UNCHANGED vars
  BY <1>10 DEF vars, links, header, locals, shape
<1> QED BY <1>3, <1>4, <1>5, <1>6, <1>7, <1>8, <1>9, <1>10 DEF Next, Call, Step

\* The items are as many as count says.
Counted == /\ Items \in Seq(Value) /\ Len(Items) = count
           /\ \A i \in 1..count : Items[i] = data[chain[i]]

\* Between create and clear the caller sees the data of the chain.
LEMMA ItemsAre == Inv /\ pc \in Walks \cup {"idle"} => Counted
<1> SUFFICES ASSUME Inv, pc \in Walks \cup {"idle"} PROVE Counted
  OBVIOUS
<1>1. count \in Nat /\ \A i \in 1..count : data[chain[i]] \in Value
  BY DEF Inv, TypeOK
<1>2. Items = [i \in 1..count |-> data[chain[i]]]
  BY DEF Items
<1> DEFINE f == [i \in 1..count |-> data[chain[i]]]
<1>3. f = [i \in 1..count |-> f[i]] /\ \A i \in 1..count : f[i] \in Value
  BY <1>1
<1>4. [i \in 1..count |-> f[i]] \in Seq(Value) /\ Len([i \in 1..count |-> f[i]]) = count
  <2> HIDE DEF f
  <2> QED BY <1>1, <1>3, FunSeq
<1> QED BY <1>1, <1>2, <1>3, <1>4 DEF Counted

\* The same after a step.
LEMMA ItemsAreNext == (Inv /\ pc \in Walks \cup {"idle"} => Counted)'
BY ItemsAre, PTL

\* A node that is taken is none of the list.
LEMMA TakenIsNew ==
  ASSUME Inv, pc = "idle", NEW n, TakeItem(n)
  PROVE  n \in Node /\ n \notin Listed
<1>1. CASE prealloc = NULL
  BY <1>1 DEF Inv, TakeItem, HeapPartition
<1>2. CASE prealloc # NULL
  <2>1. nspare \in Nat /\ nspare # 0 /\ prealloc = spare[nspare]
    BY <1>2 DEF Inv, TypeOK, SparesLinked
  <2>2. prealloc \in Unused
    BY <2>1 DEF Unused
  <2> QED BY <1>2, <2>2 DEF Inv, TakeItem, HeapPartition
<1> QED BY <1>1, <1>2

\* Linking a node is an insertion.
LEMMA LinkInserts ==
  ASSUME Inv, Inv', pc \in {"idle", "insert"}, pc' = "idle", NEW n \in Node, n \notin Listed,
         NEW d \in Value, NEW p, NEW s, NEW k \in 1..(count + 1), Link(n, d, p, s, k)
  PROVE  Items' = Abs!InsertAt(Items, k, d)
<1>1. Counted /\ Counted'
  BY ItemsAre, ItemsAreNext DEF Walks
<1>2. /\ count \in Nat /\ count' = count + 1
      /\ data \in [Cell -> Value] /\ chain \in [0..(count + 1) -> Cell]
      /\ data' = [data EXCEPT ![n] = d]
      /\ chain' = [i \in 0..(count + 2) |->
                      IF i < k THEN chain[i] ELSE IF i = k THEN n ELSE chain[i - 1]]
  BY DEF Inv, TypeOK, Link
<1>3. \A i \in 1..count : chain[i] # n
  BY DEF Listed
<1> DEFINE t == Abs!InsertAt(Items, k, d)
<1>4. /\ t \in Seq(Value) /\ Len(t) = count + 1
      /\ \A i \in 1..(count + 1) : t[i] = IF i < k THEN Items[i] ELSE IF i = k THEN d ELSE Items[i - 1]
  <2>1. Items \in Seq(Value) /\ Len(Items) = count
    BY <1>1 DEF Counted
  <2>2. k \in 1..(Len(Items) + 1)
    BY <2>1
  <2>3. /\ t \in Seq(Value) /\ Len(t) = Len(Items) + 1
        /\ \A i \in 1..(Len(Items) + 1) :
              t[i] = IF i < k THEN Items[i] ELSE IF i = k THEN d ELSE Items[i - 1]
    <3> HIDE DEF t
    <3>1. ASSUME NEW s0 \in Seq(Value), NEW j \in 1..(Len(s0) + 1)
          PROVE  LET u == Abs!InsertAt(s0, j, d) IN
                 /\ u \in Seq(Value) /\ Len(u) = Len(s0) + 1
                 /\ \A i \in 1..(Len(s0) + 1) :
                      u[i] = IF i < j THEN s0[i] ELSE IF i = j THEN d ELSE s0[i - 1]
      BY InsertAtIs
    <3> QED BY <2>1, <2>2, <3>1 DEF t
  <2> QED BY <2>1, <2>3
<1> HIDE DEF t
<1>5. ASSUME NEW i \in 1..(count + 1) PROVE Items'[i] = t[i]
  <2>1. Items'[i] = data'[chain'[i]]
    BY <1>1, <1>2 DEF Counted
  <2>2. CASE i < k
    <3>1. i \in 1..count /\ chain'[i] = chain[i]
      BY <1>2, <2>2
    <3> QED BY <1>1, <1>2, <1>3, <1>4, <2>1, <2>2, <3>1 DEF Counted
  <2>3. CASE i = k
    <3>1. chain'[i] = n /\ n \in Cell
      BY <1>2, <2>3 DEF Cell
    <3> QED BY <1>2, <1>4, <2>1, <2>3, <3>1
  <2>4. CASE i > k
    <3>1. i - 1 \in 1..count /\ chain'[i] = chain[i - 1]
      BY <1>2, <2>4
    <3>2. data'[chain[i - 1]] = data[chain[i - 1]]
      BY <1>2, <1>3, <3>1
    <3> QED BY <1>1, <1>2, <1>4, <2>1, <2>4, <3>1, <3>2 DEF Counted
  <2> QED BY <1>2, <2>2, <2>3, <2>4
<1>6. Items' \in Seq(Value) /\ Len(Items') = Len(t)
  BY <1>1, <1>2, <1>4 DEF Counted
<1> QED BY <1>2, <1>4, <1>5, <1>6, SameSeq DEF t

\* Unlinking one is a removal.
LEMMA UnlinkRemoves ==
  ASSUME Inv, Inv', pc \in {"idle", "remove"}, pc' = "idle", NEW k \in 1..count, NEW n, UnlinkRest(n, k)
  PROVE  Items' = Abs!RemoveAt(Items, k)
<1>1. Counted /\ Counted'
  BY ItemsAre, ItemsAreNext DEF Walks
<1>2. /\ count \in Nat /\ count' = count - 1 /\ data' = data
      /\ chain' = [i \in 0..count |-> IF i < k THEN chain[i] ELSE chain[i + 1]]
  BY DEF Inv, TypeOK, UnlinkRest
<1> DEFINE t == Abs!RemoveAt(Items, k)
<1>3. /\ t \in Seq(Value) /\ Len(t) = count - 1
      /\ \A i \in 1..(count - 1) : t[i] = IF i < k THEN Items[i] ELSE Items[i + 1]
  <2>1. Items \in Seq(Value) /\ Len(Items) = count
    BY <1>1 DEF Counted
  <2> QED BY <2>1, RemoveAtIs
<1> HIDE DEF t
<1>4. ASSUME NEW i \in 1..(count - 1) PROVE Items'[i] = t[i]
  <2>1. i \in 0..count /\ i \in 1..count /\ i + 1 \in 1..count /\ i \in 1..count'
    BY <1>2
  <2>2. Items'[i] = data[chain'[i]] /\ chain'[i] = IF i < k THEN chain[i] ELSE chain[i + 1]
    BY <1>1, <1>2, <2>1 DEF Counted
  <2> QED BY <1>1, <1>3, <2>1, <2>2 DEF Counted
<1>5. Items' \in Seq(Value) /\ Len(Items') = Len(t)
  BY <1>1, <1>2, <1>3 DEF Counted
<1> QED BY <1>2, <1>3, <1>4, <1>5, SameSeq DEF t

\* An idle list, seen from outside.
IdleView == /\ Abs!Ready /\ Limit = max_size /\ Owned = count + nspare
            /\ Counted /\ count \in Nat /\ nspare \in Nat

\* Between calls the request is empty and the list owns what is listed or unused.
LEMMA IdleIs == Inv /\ Answering /\ pc = "idle" => IdleView
<1> SUFFICES ASSUME Inv, Answering, pc = "idle" PROVE IdleView
  OBVIOUS
<1>1. Counted
  BY ItemsAre
<1>2. item = NULL
  BY DEF Inv, WalkOnList
<1>3. Abs!Ready
  BY DEF Answering, Walks, Open, Request, Asked, Abs!Ready, Abs!NoRequest
<1> QED BY <1>1, <1>2, <1>3 DEF IdleView, Limit, Owned, Open, Inv, TypeOK

\* The same after a step.
LEMMA IdleIsNext == (Inv /\ Answering /\ pc = "idle" => IdleView)'
BY IdleIs, PTL

\* What a call that returns leaves of its request.
LEMMA Returned ==
  ASSUME NEW v, Return(v) PROVE Open' /\ Abs!NoRequest' /\ ret' = v /\ pc' = "idle"
BY DEF Return, Open, Request, Asked, Walks, Abs!NoRequest

\* Calls that answer at once and change nothing.
LEMMA ObserveOK ==
  ASSUME Inv, Inv', Answering, Answering', NEW v, Observe(v) PROVE Abs!Observe(v)
<1>1. pc = "idle" /\ Return(v) /\ UNCHANGED <<links, heap, header, shape>>
  BY DEF Observe
<1>2. IdleView /\ IdleView' /\ Open' /\ Abs!NoRequest' /\ ret' = v /\ pc' = "idle"
  BY <1>1, IdleIs, IdleIsNext, Returned
<1>3. Items' = Items /\ Limit' = Limit /\ Owned' = Owned /\ Open' = Open
  BY <1>1, <1>2 DEF Items, IdleView, links, header, shape, Open
<1> QED BY <1>2, <1>3 DEF Abs!Observe, IdleView, Abs!Ready, Abs!NoRequest, Abs!request

\* A refused push or insert, and the calls that look at the ends or at count.
LEMMA QuietRefines ==
  ASSUME Inv, Inv', Answering, Answering',
         Refuse \/ sky_list_front \/ sky_list_back \/ sky_list_full \/ sky_list_empty
  PROVE  Abs!Next
<1>1. pc = "idle" /\ Counted /\ IdleView /\ Limit = max_size
  BY IdleIs DEF Refuse, sky_list_front, sky_list_back, sky_list_full, sky_list_empty, Observe, IdleView
<1>2. /\ count \in Nat /\ chain[0] = head /\ chain[count + 1] = tail
      /\ \A i \in 1..count : chain[i] \in Node
      /\ \A i \in 0..count : next[chain[i]] = chain[i + 1] /\ prev[chain[i + 1]] = chain[i]
  BY <1>1 DEF Inv, TypeOK, WellLinked
<1>3. CASE Refuse
  <2>1. Return(FALSE) /\ UNCHANGED <<links, heap, header, shape>>
    BY <1>3 DEF Refuse
  <2>2. IdleView' /\ Open' /\ Abs!NoRequest' /\ ret' = FALSE /\ pc' = "idle"
    BY <2>1, IdleIsNext, Returned
  <2>3. Items' = Items /\ Limit' = Limit /\ Owned' = Owned /\ Open' = Open
    BY <1>1, <2>1, <2>2 DEF Items, IdleView, links, header, shape, Open
  <2>4. ~Abs!HasRoom \/ Len(Items) >= Owned
    <3>1. count >= max_size \/ nspare = 0
      BY <1>3, ListAssumption DEF Refuse, Inv, TypeOK, SparesLinked, Cell
    <3>2. max_size \in Nat /\ nspare \in Nat /\ Owned = count + nspare /\ Len(Items) = count
      BY <1>1 DEF Inv, TypeOK, IdleView, Counted
    <3> QED BY <1>1, <1>2, <3>1, <3>2 DEF Abs!HasRoom
  <2> QED BY <1>1, <2>2, <2>3, <2>4 DEF Abs!Next, Abs!Refused, IdleView, Abs!Ready, Abs!NoRequest, Abs!request
<1>4. CASE sky_list_front
  <2>1. (IF next[head] # tail THEN data[next[head]] ELSE NULL) = Abs!ItemAt(1)
    <3>1. next[head] = chain[1] /\ (count = 0 => chain[1] = tail)
          /\ (count # 0 => 1 \in 1..count /\ chain[1] # tail)
      BY <1>2, ListAssumption
    <3> QED BY <1>1, <1>2, <3>1 DEF Abs!ItemAt, Counted
  <2> QED BY <1>4, <2>1, ObserveOK DEF sky_list_front, Abs!Next
<1>5. CASE sky_list_back
  <2>1. (IF prev[tail] # head THEN data[prev[tail]] ELSE NULL) = Abs!ItemAt(Len(Items))
    <3>1. prev[tail] = chain[count] /\ (count = 0 => chain[count] = head)
          /\ (count # 0 => count \in 1..count /\ chain[count] # head)
      BY <1>2, ListAssumption
    <3> QED BY <1>1, <1>2, <3>1 DEF Abs!ItemAt, Counted
  <2> QED BY <1>5, <2>1, ObserveOK DEF sky_list_back, Abs!Next
<1>6. CASE sky_list_full
  <2>1. (count = max_size) = (Len(Items) = Limit)
    BY <1>1 DEF Counted
  <2> QED BY <1>6, <2>1, ObserveOK DEF sky_list_full, Abs!Next
<1>7. CASE sky_list_empty
  <2>1. (count = 0) = (Items = <<>>)
    BY <1>1, <1>2 DEF Counted
  <2> QED BY <1>7, <2>1, ObserveOK DEF sky_list_empty, Abs!Next
<1> QED BY <1>3, <1>4, <1>5, <1>6, <1>7

\* What a push or an insertion adds to the nodes the list owns.
LEMMA TakenOwned ==
  ASSUME Inv, pc = "idle", Answering, NEW n, TakeItem(n)
  PROVE  Abs!Grown(Len(Items) + 1) = count + 1 + nspare' /\ nspare' \in Nat
<1>1. IdleView
  BY IdleIs
<1>2. (nspare = 0 /\ nspare' = 0) \/ (nspare > 0 /\ nspare' = nspare - 1)
  BY TakeCost
<1> QED BY <1>1, <1>2 DEF Abs!Grown, IdleView, Counted

\* A push is one of the sequence, at either end.
LEMMA PushRefines ==
  ASSUME Inv, Inv', Answering, Answering', NEW d \in Value,
         sky_list_push_front(d) \/ sky_list_push_back(d)
  PROVE  Abs!PushFront(d) \/ Abs!PushBack(d)
<1>1. /\ pc = "idle" /\ count < max_size /\ Return(TRUE) /\ max_size' = max_size
  BY DEF sky_list_push_front, sky_list_push_back
<1>2. IdleView /\ IdleView' /\ Open' /\ Abs!NoRequest' /\ ret' = TRUE /\ pc' = "idle"
  BY <1>1, IdleIs, IdleIsNext, Returned
<1>3. PICK n \in Node : /\ TakeItem(n)
                        /\ \/ /\ sky_list_push_front(d)
                              /\ Link(n, d, head, next[head], 1)
                           \/ /\ sky_list_push_back(d)
                              /\ Link(n, d, prev[tail], tail, count + 1)
  BY DEF sky_list_push_front, sky_list_push_back
<1>4. n \notin Listed
  BY <1>1, <1>3, TakenIsNew
<1>5. count' = count + 1
  BY <1>3 DEF Link
<1>6. Abs!Grown(Len(Items) + 1) = Owned' /\ Limit' = Limit /\ Abs!HasRoom /\ Open' = Open
  BY <1>1, <1>2, <1>3, <1>5, TakenOwned DEF IdleView, Abs!HasRoom, Counted, Open
<1>7. 1 \in 1..(count + 1) /\ count + 1 \in 1..(count + 1)
  BY <1>2 DEF IdleView
<1>8. Items' = <<d>> \o Items \/ Items' = Append(Items, d)
  <2>1. Items \in Seq(Value) /\ Len(Items) = count
    BY <1>2 DEF IdleView, Counted
  <2>2. CASE Link(n, d, head, next[head], 1)
    <3>1. Items' = Abs!InsertAt(Items, 1, d)
      BY <1>1, <1>2, <1>4, <1>7, <2>2, LinkInserts
    <3> QED BY <2>1, <3>1, EndsAre
  <2>3. CASE Link(n, d, prev[tail], tail, count + 1)
    <3>1. Items' = Abs!InsertAt(Items, Len(Items) + 1, d)
      BY <1>1, <1>2, <1>4, <1>7, <2>1, <2>3, LinkInserts
    <3> QED BY <2>1, <3>1, EndsAre
  <2> QED BY <1>3, <2>2, <2>3
<1> QED BY <1>2, <1>6, <1>8
        DEF Abs!PushFront, Abs!PushBack, Abs!Push, IdleView, Abs!Ready, Abs!NoRequest, Abs!request

\* Both pops take what is at their end of the list, and nothing from an empty one.
LEMMA PopRefines ==
  ASSUME Inv, Inv', Answering, Answering', sky_list_pop_front \/ sky_list_pop_back
  PROVE  Abs!PopFront \/ Abs!PopBack
<1>1. pc = "idle"
  BY DEF sky_list_pop_front, sky_list_pop_back, Pop
<1>2. Return(ret')
  BY DEF sky_list_pop_front, sky_list_pop_back, Pop, Return
<1>3. IdleView /\ IdleView' /\ Open' /\ Abs!NoRequest' /\ pc' = "idle"
  BY <1>1, <1>2, IdleIs, IdleIsNext, Returned
<1>4. /\ count \in Nat /\ chain[0] = head /\ chain[count + 1] = tail
      /\ \A i \in 1..count : chain[i] \in Node
      /\ \A i \in 0..count : next[chain[i]] = chain[i + 1] /\ prev[chain[i + 1]] = chain[i]
      /\ Items \in Seq(Value) /\ Len(Items) = count /\ \A i \in 1..count : Items[i] = data[chain[i]]
  BY <1>1, <1>3 DEF Inv, TypeOK, WellLinked, IdleView, Counted
<1>5. next[head] # tail <=> count # 0
  <2>1. next[head] = chain[1] /\ (count = 0 => chain[1] = tail) /\ (count # 0 => chain[1] # tail)
    BY <1>4, ListAssumption
  <2> QED BY <2>1
<1>6. CASE count = 0
  <2>1. UNCHANGED <<links, header, shape>> /\ ret' = NULL
    BY <1>6, <1>4, <1>5 DEF sky_list_pop_front, sky_list_pop_back, Pop, Return
  <2>2. Items = <<>> /\ Items' = <<>> /\ Limit' = Limit /\ Owned' = Owned /\ Open' = Open
    <3>1. Items = <<>>
      BY <1>4, <1>6
    <3> QED BY <1>1, <1>3, <2>1, <3>1 DEF Items, IdleView, links, header, shape, Open
  <2>3. Abs!ItemAt(1) = NULL
    BY <1>4, <1>6 DEF Abs!ItemAt
  <2> QED BY <1>3, <2>1, <2>2, <2>3
          DEF Abs!PopFront, IdleView, Abs!Ready, Abs!NoRequest, Abs!request
<1>7. CASE count # 0
  <2>1. count \in 1..count /\ 1 \in 1..count /\ Items # <<>>
    BY <1>4, <1>7
  <2>2. next[head] = chain[1] /\ prev[tail] = chain[count]
    BY <1>4, <2>1
  <2>3. PICK k \in 1..count :
           /\ UnlinkRest(chain[k], k) /\ Return(data[chain[k]])
           /\ (sky_list_pop_front /\ k = 1) \/ (sky_list_pop_back /\ k = count)
    BY <1>4, <1>5, <1>7, <2>1, <2>2 DEF sky_list_pop_front, sky_list_pop_back, Pop, Unlink
  <2>4. Items' = Abs!RemoveAt(Items, k) /\ ret' = Items[k]
    BY <1>1, <1>3, <1>4, <2>3, UnlinkRemoves DEF Return
  <2>5. Limit' = Limit /\ Owned' = Owned /\ Open' = Open
    BY <1>1, <1>3, <2>3 DEF UnlinkRest, IdleView, Open
  <2>6. Tail(Items) = Abs!RemoveAt(Items, 1) /\ Abs!Front(Items) = Abs!RemoveAt(Items, count)
    BY <1>4, <2>1, EndsAre, ListAssumption
  <2>7. CASE k = 1
    BY <1>3, <1>4, <2>1, <2>4, <2>5, <2>6, <2>7
       DEF Abs!PopFront, Abs!ItemAt, IdleView, Abs!Ready, Abs!NoRequest, Abs!request
  <2>8. CASE k = count
    BY <1>3, <1>4, <2>1, <2>4, <2>5, <2>6, <2>8
       DEF Abs!PopBack, Abs!ItemAt, IdleView, Abs!Ready, Abs!NoRequest, Abs!request
  <2> QED BY <2>3, <2>7, <2>8
<1> QED BY <1>6, <1>7

\* The start of a walk records its request.
LEMMA StartAsks ==
  ASSUME Inv, Inv', Answering, NEW name \in Walks, NEW i \in Nat, NEW d, NEW m, StartWalk(name, i, d, m)
  PROVE  /\ Abs!Ready /\ Counted /\ Open' = Open /\ Items' = Items /\ Limit' = Limit /\ ret' = ret
         /\ Request' = name /\ arg' = d /\ match' = m
         /\ Asked' = IF name \in {"get", "insert"} THEN i ELSE 0
         /\ Limit = max_size /\ Owned = count + nspare
         /\ Owned' = count + nspare' + (IF item' = NULL THEN 0 ELSE 1)
<1>1. /\ pc = "idle" /\ pc' = name /\ index' = i /\ at' = 1 /\ ret' = ret
      /\ UNCHANGED <<data, count, max_size, chain>> /\ arg' = d /\ match' = m
  BY DEF StartWalk, links
<1>2. IdleView
  BY <1>1, IdleIs
<1>3. i + 1 - 1 = i
  OBVIOUS
<1> QED BY <1>1, <1>2, <1>3 DEF IdleView, Open, Items, Limit, Owned, Request, Asked, Walks

\* The calls that walk record their requests, an index past the end is answered.
LEMMA AskRefines ==
  ASSUME Inv, Inv', Answering, Answering',
         \/ \E i \in 0..MaxIndex : sky_list_get_at(i) \/ \E d \in Value : sky_list_insert(i, d)
         \/ \E m \in SUBSET Value : sky_list_remove_if(m) \/ sky_list_find_if(m)
         \/ \E d \in Value : sky_list_contain(d)
  PROVE  Abs!Next
<1>1. ASSUME NEW name \in Walks \ {"insert"}, NEW i \in 0..MaxIndex, NEW d, NEW m,
             StartWalk(name, i, d, m), Keep, name \notin {"get", "insert"} => i = 0
      PROVE  Abs!Ask(name, i, d, m) /\ Owned' = Owned /\ Counted
  <2>1. item = NULL /\ count \in Nat /\ nspare \in Nat /\ nspare' = nspare /\ item' = item
    BY <1>1 DEF Inv, WalkOnList, TypeOK, StartWalk, Keep
  <2>2. i \in Nat
    BY ListAssumption
  <2>3. /\ Abs!Ready /\ Counted /\ Open' = Open /\ Items' = Items /\ Limit' = Limit /\ ret' = ret
        /\ Request' = name /\ arg' = d /\ match' = m
        /\ Asked' = IF name \in {"get", "insert"} THEN i ELSE 0
        /\ Limit = max_size /\ Owned = count + nspare
        /\ Owned' = count + nspare' + (IF item' = NULL THEN 0 ELSE 1)
    BY <1>1, <2>2, StartAsks
  <2> QED BY <1>1, <2>1, <2>3 DEF Abs!Ask
<1>2. ASSUME NEW i \in 0..MaxIndex, sky_list_get_at(i) PROVE Abs!Next
  <2>1. CASE i < count
    <3>1. Abs!Ask("get", i, NULL, {}) /\ Owned' = Owned /\ Counted
      BY <1>1, <1>2, <2>1 DEF sky_list_get_at, Walks
    <3> QED BY <2>1, <3>1 DEF Abs!Next, Abs!Invoke, Abs!Query, Counted
  <2>2. CASE ~(i < count)
    <3>1. Observe(NULL) /\ Abs!Observe(NULL)
      BY <1>2, <2>2, ObserveOK DEF sky_list_get_at
    <3>2. i >= Len(Items)
      <4>1. IdleView
        BY <3>1, IdleIs DEF Observe
      <4> QED BY <4>1, <2>2, ListAssumption DEF IdleView, Counted
    <3> QED BY <3>1, <3>2 DEF Abs!Next
  <2> QED BY <2>1, <2>2
<1>3. ASSUME NEW i \in 0..MaxIndex, NEW d \in Value, sky_list_insert(i, d) PROVE Abs!Next
  <2>1. PICK n \in Node : TakeItem(n) /\ item' = n /\ StartWalk("insert", i, d, {}) /\ count < max_size
    BY <1>3 DEF sky_list_insert
  <2>2. i \in Nat /\ "insert" \in Walks /\ item' # NULL
    BY <2>1, ListAssumption DEF Walks, Cell
  <2>3. /\ Abs!Ready /\ Counted /\ Open' = Open /\ Items' = Items /\ Limit' = Limit /\ ret' = ret
        /\ Request' = "insert" /\ arg' = d /\ match' = {} /\ Asked' = i /\ Limit = max_size
        /\ Owned' = count + nspare' + 1
    BY <2>1, <2>2, StartAsks
  <2>4. Abs!Grown(Len(Items) + 1) = count + 1 + nspare' /\ nspare' \in Nat /\ count \in Nat
    BY <2>1, TakenOwned DEF StartWalk, Inv, TypeOK
  <2>5. Abs!HasRoom /\ Owned' = Abs!Grown(Len(Items) + 1)
    BY <2>1, <2>3, <2>4 DEF Abs!HasRoom, Counted
  <2>6. Abs!Ask("insert", i, d, {})
    BY <2>3 DEF Abs!Ask
  <2> QED BY <2>5, <2>6 DEF Abs!Next, Abs!Invoke
<1>4. ASSUME NEW m \in SUBSET Value, sky_list_remove_if(m) \/ sky_list_find_if(m) PROVE Abs!Next
  <2>1. 0 \in 0..MaxIndex
    BY ListAssumption
  <2>2. (Abs!Ask("remove", 0, NULL, m) \/ Abs!Ask("find", 0, NULL, m)) /\ Owned' = Owned
    BY <1>1, <1>4, <2>1 DEF sky_list_remove_if, sky_list_find_if, Walks
  <2> QED BY <2>2 DEF Abs!Next, Abs!Invoke, Abs!Query
<1>5. ASSUME NEW d \in Value, sky_list_contain(d) PROVE Abs!Next
  <2>1. 0 \in 0..MaxIndex
    BY ListAssumption
  <2>2. Abs!Ask("contain", 0, d, {d}) /\ Owned' = Owned
    BY <1>1, <1>5, <2>1 DEF sky_list_contain, Walks
  <2> QED BY <2>2 DEF Abs!Next, Abs!Invoke, Abs!Query
<1> QED BY <1>2, <1>3, <1>4, <1>5

\* The first item the comparison accepts is the one the walk stands on.
LEMMA FirstIs ==
  ASSUME Inv, Answering, Seeking, NEW k \in 1..(count + 1), at = k
  PROVE  /\ Counted
         /\ k = count + 1 => Abs!First(match) = 0
         /\ k \in 1..count /\ data[chain[k]] \in match => Abs!First(match) = k
<1>1. Counted /\ count \in Nat
  BY ItemsAre DEF Seeking, Walks, Inv, TypeOK
<1> DEFINE hits == {i \in 1..Len(Items) : Items[i] \in match}
<1>2. \A j \in 1..(k - 1) : j \notin hits
  <2> SUFFICES ASSUME NEW j \in 1..(k - 1) PROVE j \notin hits
    OBVIOUS
  <2>1. j \in 1..count /\ Items[j] = data[chain[j]] /\ data[chain[j]] \notin match
    BY <1>1 DEF Answering, Counted
  <2> QED BY <2>1
<1>3. ASSUME k = count + 1 PROVE Abs!First(match) = 0
  <2>1. hits = {}
    BY <1>1, <1>2, <1>3 DEF Counted
  <2> QED BY <2>1 DEF Abs!First
<1>4. ASSUME k \in 1..count, data[chain[k]] \in match PROVE Abs!First(match) = k
  <2>1. k \in hits
    BY <1>1, <1>4 DEF Counted
  <2>2. \A i \in hits : i \in Nat /\ k <= i
    BY <1>1, <1>2 DEF Counted
  <2> HIDE DEF hits
  <2>3. \A i \in hits : (\A j \in hits : i <= j) => i = k
    BY <2>1, <2>2
  <2>4. (CHOOSE i \in hits : \A j \in hits : i <= j) = k
    BY <2>1, <2>2, <2>3
  <2> QED BY <2>1, <2>4 DEF Abs!First, hits
<1> QED BY <1>1, <1>3, <1>4

\* The end of a walk answers its request.
LEMMA AnswerRefines ==
  ASSUME Inv, Inv', Answering, Answering', NEW v, Return(v), pc \in Walks,
         count' + nspare' = Owned, max_size' = max_size, NEW new, Items' = new
  PROVE  Abs!Answer(pc, new, v)
<1>1. Open' /\ Abs!NoRequest' /\ ret' = v /\ pc' = "idle"
  BY Returned
<1>2. IdleView'
  BY <1>1, IdleIsNext
<1>3. Owned' = Owned /\ Limit' = Limit /\ Open' = Open /\ Request = pc
  BY <1>1, <1>2 DEF IdleView, Open, Limit, Request
<1> QED BY <1>1, <1>3 DEF Abs!Answer

\* The last step of every walk gives the answer of the whole sequence.
LEMMA WalkEnds ==
  ASSUME Inv, Inv', Answering, Answering', GetDone \/ SeekMiss \/ FindHit \/ RemoveHit \/ InsertDone
  PROVE  Abs!Respond
<1>1. pc \in Walks /\ Return(ret')
  BY DEF GetDone, SeekMiss, FindHit, RemoveHit, InsertDone, Seeking, Walks, Return
<1>2. Counted /\ count \in Nat /\ nspare \in Nat
  BY <1>1, ItemsAre DEF Inv, TypeOK
<1>3. Owned = count + nspare + IF pc = "insert" THEN 1 ELSE 0
  BY <1>1, <1>2 DEF Owned, Open, Inv, WalkOnList
<1>4. ASSUME UNCHANGED <<links, header, shape>>, pc # "insert", Items' = Items, NEW v, Return(v)
      PROVE  Abs!Answer(pc, Items, v)
  <2>1. count' + nspare' = Owned /\ max_size' = max_size
    BY <1>2, <1>3, <1>4 DEF header, shape
  <2> QED BY <1>1, <1>4, <2>1, AnswerRefines
<1>5. ASSUME UNCHANGED <<links, header, shape>> PROVE Items' = Items
  BY <1>1, <1>5 DEF Items, links, header, shape, Return
<1>6. CASE GetDone
  <2>1. pc = "get" /\ at \in 1..(count + 2) /\ at + index <= count /\ index \in Nat
    BY <1>6 DEF GetDone, Inv, WalkOnList, TypeOK, Walks
  <2>2. at \in 1..count /\ at # count + 2
    BY <1>2, <2>1
  <2>3. itor = chain[at] /\ chain[at] \in Node
    BY <2>1, <2>2 DEF Inv, WalkOnList, Walks, WellLinked
  <2>4. itor # NULL /\ index = 0
    BY <1>6, <2>3, ListAssumption DEF GetDone, Cell
  <2>5. Asked + 1 = at
    BY <2>1, <2>2, <2>4 DEF Asked
  <2>6. Return(Items[Asked + 1]) /\ UNCHANGED <<links, header, shape>>
    BY <1>2, <1>6, <2>2, <2>3, <2>4, <2>5 DEF GetDone, Counted
  <2>7. Abs!Answer("get", Items, Items[Asked + 1])
    BY <2>1, <2>6, <1>4, <1>5
  <2> QED BY <2>7 DEF Abs!Respond
<1>7. CASE SeekMiss
  <2>1. Seeking /\ itor = tail /\ pc # "insert" /\ UNCHANGED <<links, header, shape>>
    BY <1>7 DEF SeekMiss, Seeking
  <2>2. at = count + 1
    <3>1. itor # NULL
      BY <2>1, ListAssumption DEF Cell
    <3>2. at \in 1..(count + 1) /\ itor = chain[at]
      BY <1>1, <3>1, WalkPosition
    <3>3. at \in 1..count => chain[at] \in Node
      BY <1>1 DEF Inv, WellLinked, Walks
    <3> QED BY <1>2, <2>1, <3>2, <3>3, ListAssumption
  <2>3. count + 1 \in 1..(count + 1)
    BY <1>2
  <2>4. Abs!First(match) = 0
    BY <2>1, <2>2, <2>3, FirstIs
  <2>5. Abs!ItemAt(Abs!First(match)) = NULL
    BY <2>4 DEF Abs!ItemAt
  <2>6. CASE pc = "contain"
    <3>1. match = {arg}
      BY <2>6 DEF Answering
    <3>2. (Abs!First({arg}) # 0 /\ arg # NULL) = FALSE
      BY <2>4, <3>1
    <3>3. Abs!Answer("contain", Items, FALSE)
      BY <1>4, <1>5, <1>7, <2>1, <2>6 DEF SeekMiss
    <3> QED BY <3>2, <3>3 DEF Abs!Respond
  <2>7. CASE pc = "find"
    <3>1. Abs!Answer("find", Items, NULL)
      BY <1>4, <1>5, <1>7, <2>1, <2>7 DEF SeekMiss
    <3> QED BY <2>5, <3>1 DEF Abs!Respond
  <2>8. CASE pc = "remove"
    <3>1. Abs!Answer("remove", Items, NULL)
      BY <1>4, <1>5, <1>7, <2>1, <2>8 DEF SeekMiss
    <3> QED BY <2>4, <2>5, <3>1 DEF Abs!Respond
  <2> QED BY <2>1, <2>6, <2>7, <2>8 DEF Seeking
<1>8. ASSUME Seeking, itor # tail, data[itor] \in match
      PROVE  /\ at \in 1..count /\ itor = chain[at] /\ Abs!First(match) = at
             /\ data[itor] = Items[at] /\ Abs!ItemAt(Abs!First(match)) = data[itor]
  <2>1. itor # NULL
    BY <1>8, ListAssumption DEF Inv, WalkOnList, Seeking, Walks, TypeOK
  <2>2. at \in 1..count /\ itor = chain[at]
    BY <1>1, <1>8, <2>1, WalkPosition
  <2>3. at \in 1..(count + 1)
    BY <1>2, <2>2
  <2>4. Abs!First(match) = at
    BY <1>8, <2>2, <2>3, FirstIs
  <2> QED BY <1>2, <2>2, <2>4 DEF Counted, Abs!ItemAt
<1>9. CASE FindHit
  <2>1. /\ Seeking /\ itor # tail /\ data[itor] \in match /\ pc \in {"find", "contain"}
        /\ UNCHANGED <<links, header, shape>>
    BY <1>9 DEF FindHit, Seeking
  <2>2. CASE pc = "find"
    <3>1. Abs!Answer("find", Items, data[itor])
      BY <1>4, <1>5, <1>9, <2>1, <2>2 DEF FindHit
    <3> QED BY <1>8, <2>1, <3>1 DEF Abs!Respond
  <2>3. CASE pc = "contain"
    <3>1. match = {arg} /\ data[itor] = arg
      BY <2>1, <2>3 DEF Answering
    <3>2. Abs!First({arg}) # 0
      BY <1>2, <1>8, <2>1, <3>1
    <3>3. (data[itor] # NULL /\ data[itor] = arg) = (Abs!First({arg}) # 0 /\ arg # NULL)
      BY <3>1, <3>2
    <3>4. Abs!Answer("contain", Items, data[itor] # NULL /\ data[itor] = arg)
      <4>1. Return(data[itor] # NULL /\ data[itor] = arg)
        BY <1>9, <2>3 DEF FindHit
      <4> QED BY <1>4, <1>5, <2>1, <2>3, <4>1
    <3> QED BY <3>3, <3>4 DEF Abs!Respond
  <2> QED BY <2>1, <2>2, <2>3
<1>10. CASE RemoveHit
  <2>1. /\ Seeking /\ itor # tail /\ data[itor] \in match /\ pc = "remove" /\ pc' = "idle"
        /\ UnlinkRest(itor, at) /\ Return(data[itor])
    BY <1>10 DEF RemoveHit, Seeking, Unlink, Return
  <2>2. /\ at \in 1..count /\ Abs!First(match) = at /\ Abs!ItemAt(Abs!First(match)) = data[itor]
    BY <1>8, <2>1
  <2>3. Items' = Abs!RemoveAt(Items, at)
    BY <2>1, <2>2, UnlinkRemoves
  <2>4. count' + nspare' = Owned /\ max_size' = max_size
    BY <1>2, <1>3, <2>1 DEF UnlinkRest
  <2>5. Abs!Answer("remove", Abs!RemoveAt(Items, at), data[itor])
    BY <1>1, <2>1, <2>3, <2>4, AnswerRefines
  <2>6. at # 0
    BY <1>2, <2>2
  <2> QED BY <2>2, <2>5, <2>6 DEF Abs!Respond
<1>11. CASE InsertDone
  <2>1. /\ pc = "insert" /\ pc' = "idle" /\ Return(TRUE) /\ max_size' = max_size /\ nspare' = nspare
        /\ item # NULL /\ at \in 1..(count + 2) /\ itor = (IF at = count + 2 THEN NULL ELSE chain[at])
        /\ index \in Nat /\ item \in Node /\ arg \in Value
    BY <1>11, ListAssumption DEF InsertDone, Inv, WalkOnList, TypeOK, Walks, Return
  <2>2. item \notin Listed
    BY <2>1 DEF Inv, HeapPartition
  <2>3. PICK k \in 1..(count + 1), p \in {prev[tail], prev[itor]}, s \in {tail, itor} :
           /\ Link(item, arg, p, s, k)
           /\ k = (IF Asked < Len(Items) THEN Asked ELSE Len(Items)) + 1
    <3>1. Asked = index + at - 1 /\ Len(Items) = count
      BY <1>2, <2>1 DEF Asked, Counted
    <3>2. CASE itor = NULL
      <4>1. at = count + 2
        <5>1. at \in 1..(count + 1) => chain[at] \in Cell
          BY <1>2 DEF Inv, TypeOK
        <5> QED BY <1>2, <2>1, <3>2, <5>1, ListAssumption
      <4>2. count + 1 \in 1..(count + 1) /\ ~(Asked < Len(Items))
        BY <1>2, <2>1, <3>1, <4>1
      <4> QED BY <1>11, <3>1, <3>2, <4>2 DEF InsertDone
    <3>3. CASE itor # NULL
      <4>1. at \in 1..(count + 1) /\ index = 0
        BY <1>2, <1>11, <2>1, <3>3 DEF InsertDone
      <4>2. at = (IF Asked < Len(Items) THEN Asked ELSE Len(Items)) + 1
        BY <1>2, <3>1, <4>1
      <4> QED BY <1>11, <3>3, <4>1, <4>2 DEF InsertDone
    <3> QED BY <3>2, <3>3
  <2>4. Items' = Abs!InsertAt(Items, k, arg)
    BY <2>1, <2>2, <2>3, LinkInserts
  <2>5. count' + nspare' = Owned
    <3>1. count' = count + 1
      BY <2>3 DEF Link
    <3> QED BY <1>2, <1>3, <2>1, <3>1
  <2>6. Abs!Answer("insert", Abs!InsertAt(Items, k, arg), TRUE)
    BY <1>1, <2>1, <2>4, <2>5, AnswerRefines
  <2> QED BY <2>3, <2>6 DEF Abs!Respond
<1> QED BY <1>6, <1>7, <1>9, <1>10, <1>11

\* Steps nobody outside sees.
LEMMA HiddenRefines ==
  ASSUME Inv, Inv', Answering, Answering',
         \/ CreatePrealloc \/ DestroyItem \/ DestroyItems \/ DrainItem \/ DrainDone
         \/ GetNext \/ InsertNext \/ SeekNext \/ ClearNext \/ UNCHANGED vars
  PROVE  UNCHANGED Abs!vars
<1> USE DEF Abs!vars, Open, Items, Limit, Owned, Request, Asked, Walks
<1>1. CASE CreatePrealloc \/ DestroyItem \/ DestroyItems \/ DrainItem \/ DrainDone
  BY <1>1 DEF CreatePrealloc, DestroyItem, DestroyItems, DrainItem, DrainDone, locals, header
<1>2. CASE GetNext \/ InsertNext
  <2>1. /\ index' = index - 1 /\ at' = at + 1 /\ index \in Nat /\ at \in Nat
        /\ UNCHANGED <<links, header, pc, item, arg, match, ret, shape>>
    BY <1>2, ListAssumption DEF GetNext, InsertNext, Advance, Inv, TypeOK
  <2>2. index' + at' - 1 = index + at - 1
    BY <2>1
  <2> QED BY <2>1, <2>2 DEF links, header, shape
<1>3. CASE SeekNext
  BY <1>3 DEF SeekNext, Seeking, Advance, links, header, shape
<1>4. CASE ClearNext
  <2>1. /\ pc = "clear" /\ pc' = pc /\ count' = count - 1 /\ nspare' = nspare + 1
        /\ count \in Nat /\ nspare \in Nat /\ UNCHANGED <<max_size, locals, ret>>
    BY <1>4 DEF ClearNext, Inv, TypeOK
  <2>2. count' + nspare' = count + nspare
    BY <2>1
  <2> QED BY <2>1, <2>2 DEF locals
<1>5. CASE UNCHANGED vars
  BY <1>5 DEF vars, links, header, locals, shape
<1> QED BY <1>1, <1>2, <1>3, <1>4, <1>5

\* The calls that begin and end a list, and the one that empties it.
LEMMA LifeRefines ==
  ASSUME Inv, Inv', Answering, Answering',
         \/ sky_list_create \/ CreateDone \/ CreateFails \/ sky_list_destroy
         \/ sky_list_clear \/ ClearDone
  PROVE  [Abs!Next]_(Abs!vars)
<1> USE DEF Open, Limit, Owned, Request, Asked, Walks, Abs!request
<1>1. CASE sky_list_create
  <2>1. /\ pc = "absent" /\ UNCHANGED <<arg, match, shape, count, item, index, at>>
        /\ (ret' = FALSE /\ pc' = "absent") \/ (ret' = ret /\ pc' = "create")
    BY <1>1 DEF sky_list_create, locals
  <2> QED BY <2>1 DEF Items, Abs!Next, Abs!CreateFails, Abs!vars
<1>2. CASE CreateDone
  <2>1. /\ pc = "create" /\ nspare = PreallocNum /\ Return(TRUE)
        /\ UNCHANGED <<header, shape, links>>
    BY <1>2 DEF CreateDone
  <2>2. IdleView' /\ Open' /\ Abs!NoRequest' /\ ret' = TRUE /\ pc' = "idle"
    BY <2>1, Returned, IdleIsNext
  <2>3. count = 0 /\ max_size \in 1..MaxSize
    BY <2>1, ListAssumption DEF Inv, WalkOnList, TypeOK, Answering
  <2>4. Items' = <<>>
    <3>1. Items' \in Seq(Value) /\ Len(Items') = 0
      BY <2>1, <2>2, <2>3 DEF IdleView, Counted, header
    <3> QED BY <3>1
  <2>5. ~Open /\ Abs!NoRequest
    BY <2>1 DEF Answering, Abs!NoRequest
  <2>6. Limit' = max_size /\ Owned' = PreallocNum
    BY <2>1, <2>2, <2>3, ListAssumption DEF IdleView, header, shape
  <2> QED BY <2>2, <2>3, <2>4, <2>5, <2>6 DEF Abs!Next, Abs!Create, Abs!NoRequest
<1>3. CASE CreateFails
  BY <1>3 DEF CreateFails, locals, Items, Abs!Next, Abs!CreateFails
<1>4. CASE sky_list_destroy
  <2>1. pc = "idle" /\ pc' = "destroy" /\ UNCHANGED <<locals, ret>>
    BY <1>4 DEF sky_list_destroy
  <2>2. Abs!Ready
    BY <2>1, IdleIs DEF IdleView
  <2> QED BY <2>1, <2>2 DEF locals, Items, Abs!Next, Abs!Destroy
<1>5. CASE sky_list_clear
  <2>1. pc = "idle" /\ pc' = "clear" /\ UNCHANGED <<header, shape, locals, ret>>
    BY <1>5 DEF sky_list_clear
  <2>2. Abs!Ready
    BY <2>1, IdleIs DEF IdleView
  <2> QED BY <2>1, <2>2 DEF header, shape, locals, Items, Abs!Next, Abs!Clear
<1>6. CASE ClearDone
  <2>1. pc = "clear" /\ next[head] = tail /\ Return(ret) /\ UNCHANGED <<header, shape, data>>
    BY <1>6 DEF ClearDone
  <2>2. IdleView' /\ Open' /\ Abs!NoRequest' /\ ret' = ret /\ pc' = "idle"
    BY <2>1, Returned, IdleIsNext
  <2>3. count = 0 /\ nspare \in Nat /\ item = NULL
    <3>1. count \in Nat /\ (count # 0 => 1 \in 1..count) /\ 0 \in 0..count
      BY DEF Inv, TypeOK
    <3>2. count # 0 => chain[1] \in Node
      BY <2>1, <3>1 DEF Inv, WellLinked
    <3>3. chain[0] = head /\ next[chain[0]] = chain[0 + 1]
      BY <2>1, <3>1 DEF Inv, WellLinked
    <3> QED BY <2>1, <3>1, <3>2, <3>3, ListAssumption DEF Inv, TypeOK, WalkOnList
  <2>4. Items' = <<>> /\ Items = <<>>
    <3>1. Items' \in Seq(Value) /\ Len(Items') = 0
      BY <2>1, <2>2, <2>3 DEF IdleView, Counted, header
    <3>2. Items' = <<>>
      BY <3>1
    <3>3. Items = <<>>
      BY <2>1 DEF Items
    <3> QED BY <3>2, <3>3
  <2>5. Abs!NoRequest
    BY <2>1 DEF Answering, Abs!NoRequest
  <2>6. Open' = Open /\ Limit' = Limit /\ Owned' = Owned
    BY <2>1, <2>2, <2>3 DEF IdleView, header, shape
  <2> QED BY <2>2, <2>4, <2>5, <2>6 DEF Abs!NoRequest, Abs!vars
<1> QED BY <1>1, <1>2, <1>3, <1>4, <1>5, <1>6

\* Every step of sky_list.c is one of the sequence, or none.
LEMMA NextRefines == Inv /\ Inv' /\ Answering /\ Answering' /\ [Next]_vars => [Abs!Next]_(Abs!vars)
<1> SUFFICES ASSUME Inv, Inv', Answering, Answering', [Next]_vars PROVE [Abs!Next]_(Abs!vars)
  OBVIOUS
<1>1. CASE Refuse \/ sky_list_front \/ sky_list_back \/ sky_list_full \/ sky_list_empty
  BY <1>1, QuietRefines
<1>2. ASSUME NEW d \in Value, sky_list_push_front(d) \/ sky_list_push_back(d) PROVE Abs!Next
  BY <1>2, PushRefines DEF Abs!Next
<1>3. CASE sky_list_pop_front \/ sky_list_pop_back
  BY <1>3, PopRefines DEF Abs!Next
<1>4. CASE \/ \E i \in 0..MaxIndex : sky_list_get_at(i) \/ \E d \in Value : sky_list_insert(i, d)
           \/ \E m \in SUBSET Value : sky_list_remove_if(m) \/ sky_list_find_if(m)
           \/ \E d \in Value : sky_list_contain(d)
  BY <1>4, AskRefines
<1>5. CASE GetDone \/ SeekMiss \/ FindHit \/ RemoveHit \/ InsertDone
  BY <1>5, WalkEnds DEF Abs!Next
<1>6. CASE \/ CreatePrealloc \/ DestroyItem \/ DestroyItems \/ DrainItem \/ DrainDone
           \/ GetNext \/ InsertNext \/ SeekNext \/ ClearNext \/ UNCHANGED vars
  BY <1>6, HiddenRefines
<1>7. CASE \/ sky_list_create \/ CreateDone \/ CreateFails \/ sky_list_destroy
           \/ sky_list_clear \/ ClearDone
  BY <1>7, LifeRefines
<1> QED BY <1>1, <1>2, <1>3, <1>4, <1>5, <1>6, <1>7 DEF Next, Call, Step

\* The nodes and links of sky_list.c implement the bounded sequence of
\* SkyListSpec: each call answers and changes what that sequence says, walks at
\* their last step, clear and destroy at their first (sky_list.c:167-463).
THEOREM ListIsSequence == Spec => ImplementsList
<1>1. Init => Answering /\ Abs!Init
  BY DEF Init, NoLocals, Answering, Seeking, Walks, Abs!Init, Abs!NoRequest,
         Open, Items, Limit, Owned, Request, Asked
<1> QED BY InitInv, NextInv, AnsweringNext, NextRefines, <1>1, PTL
        DEF Spec, ImplementsList, Abs!Spec
=============================================================================
