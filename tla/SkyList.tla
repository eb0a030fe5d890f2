------------------------------ MODULE SkyList ------------------------------
(* src/sky/src/sky_list.c: one list handle, its embedded head and tail       *)
(* sentinels, its item nodes in the heap, and the chain of unused nodes that *)
(* hangs from prealloc.  A call that follows pointers in a loop (insert,     *)
(* remove_if, find_if, get_at, clear, destroy, the pre-allocation of create) *)
(* takes one step per iteration; a call without a loop is one step.  The     *)
(* list has no lock: its callers make one call at a time.                    *)
(*                                                                           *)
(* chain, spare, nspare, at and leaked are history variables: no action's    *)
(* effect on the program's state depends on them.                            *)
EXTENDS Naturals

CONSTANTS Node,         \* heap cells an item can be allocated at
          head, tail,   \* the sentinels embedded in the handle
          NULL,
          Value,        \* the data pointers callers store, NULL among them
          MaxSize,      \* bound: largest max_size passed to sky_list_create
          PreallocNum,  \* SKY_LIST_PREALLOC_NUM
          MaxIndex      \* bound: largest index passed to get_at and insert

Cell == Node \cup {head, tail}
Ptr == Cell \cup {NULL}

ASSUME ListAssumption ==
    /\ head \notin Node /\ tail \notin Node /\ head # tail
    /\ NULL \notin Cell
    /\ NULL \in Value
    /\ MaxSize \in Nat /\ PreallocNum \in Nat /\ MaxIndex \in Nat

VARIABLES
    next, prev, data,             \* the fields of every cell
    heap,                         \* the nodes malloc has handed out
    count, max_size, prealloc,    \* the fields of the handle
    pc,                           \* the call in progress
    itor, index, item, arg, match,\* its locals and arguments
    ret,                          \* what the last call returned
    chain, spare, nspare, at, leaked

links == <<next, prev, data>>
header == <<count, max_size, prealloc>>
locals == <<itor, index, item, arg, match, at>>
shape == <<chain, spare, nspare, leaked>>
vars == <<links, heap, header, pc, locals, ret, shape>>

Walks == {"insert", "remove", "find", "contain", "get"}
PC == {"absent", "create", "idle", "clear", "destroy", "drain"} \cup Walks

NoLocals == itor = NULL /\ index = 0 /\ item = NULL /\ arg = NULL /\ match = {} /\ at = 0

\* The call ends and hands v to its caller.
Return(v) ==
    /\ pc' = "idle" /\ ret' = v
    /\ itor' = NULL /\ index' = 0 /\ item' = NULL /\ arg' = NULL /\ match' = {} /\ at' = 0

NoChain == [i \in {0, 1} |-> IF i = 0 THEN head ELSE tail]

Init == /\ next = [c \in Cell |-> NULL] /\ prev = next /\ data = next
        /\ heap = {}
        /\ count = 0 /\ max_size = 0 /\ prealloc = NULL
        /\ pc = "absent" /\ NoLocals /\ ret = NULL
        /\ chain = NoChain /\ spare = [k \in {} |-> NULL] /\ nspare = 0 /\ leaked = {}
----------------------------------------------------------------------------
(* Nodes *)

\* (A definition named for a fault, here and below, is a variant of the one
\* that follows it; no action uses it.  README.md tells which property each of
\* them breaks.)
TakeItemIgnoresUnused(n) ==
    /\ n \in Node \ heap
    /\ heap' = heap \cup {n}
    /\ UNCHANGED <<prealloc, spare, nspare>>

\* sky_mem_alloc of an item, or the first unused one.
TakeItem(n) ==
    /\ n \in Node
    /\ \/ /\ prealloc = NULL
          /\ n \notin heap
          /\ heap' = heap \cup {n}
          /\ UNCHANGED <<prealloc, spare, nspare>>
       \/ /\ prealloc # NULL
          /\ n = prealloc
          /\ prealloc' = next[n]
          /\ nspare' = nspare - 1
          /\ spare' = [k \in 1..(nspare - 1) |-> spare[k]]
          /\ UNCHANGED heap

\* The guards of push and insert that send them back with false: the list is
\* full, or there is no unused node and malloc fails.
Refuse ==
    /\ pc = "idle"
    /\ count >= max_size \/ prealloc = NULL
    /\ Return(FALSE)
    /\ UNCHANGED <<links, heap, header, shape>>

LinkWithoutBackLink(n, d, p, s, k) ==
    /\ data' = [data EXCEPT ![n] = d]
    /\ next' = [next EXCEPT ![n] = s, ![p] = n]
    /\ prev' = [prev EXCEPT ![n] = p]
    /\ count' = count + 1
    /\ chain' = [i \in 0..(count + 2) |->
                    IF i < k THEN chain[i] ELSE IF i = k THEN n ELSE chain[i - 1]]

\* n, holding d, goes between p and s; it becomes the k-th item.
Link(n, d, p, s, k) ==
    /\ data' = [data EXCEPT ![n] = d]
    /\ next' = [next EXCEPT ![n] = s, ![p] = n]
    /\ prev' = [prev EXCEPT ![n] = p, ![s] = n]
    /\ count' = count + 1
    /\ chain' = [i \in 0..(count + 2) |->
                    IF i < k THEN chain[i] ELSE IF i = k THEN n ELSE chain[i - 1]]

UnlinkRest(n, k) ==
    /\ count' = count - 1
    /\ chain' = [i \in 0..count |-> IF i < k THEN chain[i] ELSE chain[i + 1]]
    /\ nspare' = nspare + 1
    /\ spare' = [j \in 1..(nspare + 1) |-> IF j = nspare + 1 THEN n ELSE spare[j]]
    /\ UNCHANGED <<data, heap, max_size, leaked>>

UnlinkPutsBackNext(n, p, s, k) ==
    /\ next' = [next EXCEPT ![p] = next[n], ![n] = prealloc]
    /\ prev' = [prev EXCEPT ![s] = prev[n]]
    /\ prealloc' = next[n]
    /\ UnlinkRest(n, k)

UnlinkKeepsNext(n, p, s, k) ==
    /\ next' = [next EXCEPT ![p] = next[n]]
    /\ prev' = [prev EXCEPT ![s] = prev[n]]
    /\ prealloc' = n
    /\ UnlinkRest(n, k)

\* n, the k-th item, leaves the list; p.next and s.prev are the two links that
\* are rewritten, and n is put on the chain of unused nodes.
Unlink(n, p, s, k) ==
    /\ next' = [next EXCEPT ![p] = next[n], ![n] = prealloc]
    /\ prev' = [prev EXCEPT ![s] = prev[n]]
    /\ prealloc' = n
    /\ UnlinkRest(n, k)

\* sky_mem_free of a node; what it held is gone.
Scrub(f, n) == [f EXCEPT ![n] = NULL]
----------------------------------------------------------------------------
(* sky_list_create and sky_list_destroy *)

sky_list_create ==
    /\ pc = "absent"
    /\ \E size \in 0..MaxSize :
        IF size = 0
          THEN ret' = FALSE /\ UNCHANGED <<next, prev, max_size, pc>>
          ELSE /\ next' = [next EXCEPT ![head] = tail, ![tail] = NULL]
               /\ prev' = [prev EXCEPT ![head] = NULL, ![tail] = head]
               /\ max_size' = size
               /\ pc' = "create"
               /\ UNCHANGED ret
    /\ UNCHANGED <<data, heap, count, prealloc, locals, shape>>

\* One iteration of the pre-allocation loop; nspare is its counter i.
CreatePrealloc ==
    /\ pc = "create" /\ nspare < PreallocNum
    /\ \E n \in Node \ heap :
          /\ heap' = heap \cup {n}
          /\ data' = [data EXCEPT ![n] = NULL]
          /\ next' = [next EXCEPT ![n] = prealloc]
          /\ prealloc' = n
          /\ nspare' = nspare + 1
          /\ spare' = [k \in 1..(nspare + 1) |-> IF k = nspare + 1 THEN n ELSE spare[k]]
    /\ UNCHANGED <<prev, count, max_size, pc, locals, ret, chain, leaked>>

CreateDone ==
    /\ pc = "create" /\ nspare = PreallocNum
    /\ Return(TRUE)
    /\ UNCHANGED <<links, heap, header, shape>>

\* malloc fails in the loop.  The handle is freed first and list->prealloc is
\* read from the freed chunk: either the old value is still there and the
\* nodes are freed one by one, or it has been overwritten and they are lost.
CreateFails ==
    /\ pc = "create" /\ nspare < PreallocNum
    /\ ret' = FALSE
    /\ \/ pc' = "drain" /\ UNCHANGED <<prealloc, spare, nspare, leaked>>
       \/ /\ prealloc # NULL
          /\ pc' = "drain"
          /\ prealloc' = NULL
          /\ spare' = [k \in {} |-> NULL] /\ nspare' = 0
          /\ leaked' = leaked \cup {spare[k] : k \in 1..nspare}
    /\ UNCHANGED <<links, heap, count, max_size, locals, chain>>

sky_list_destroy ==
    /\ pc = "idle"
    /\ pc' = "destroy"
    /\ UNCHANGED <<links, heap, header, locals, ret, shape>>

\* while ( l->head.next != &l->tail ): free the first item.
DestroyItem ==
    /\ pc = "destroy" /\ next[head] # tail
    /\ LET temp == next[head] IN
          /\ next' = Scrub([next EXCEPT ![head] = next[temp]], temp)
          /\ prev' = Scrub(prev, temp)
          /\ data' = Scrub(data, temp)
          /\ heap' = heap \ {temp}
    /\ count' = count - 1
    /\ chain' = [i \in 0..count |-> IF i = 0 THEN head ELSE chain[i + 1]]
    /\ UNCHANGED <<max_size, prealloc, pc, locals, ret, spare, nspare, leaked>>

DestroyForgetsUnused ==
    /\ pc = "destroy" /\ next[head] = tail
    /\ pc' = "absent"
    /\ UNCHANGED <<links, heap, header, locals, ret, shape>>

DestroyItems ==
    /\ pc = "destroy" /\ next[head] = tail
    /\ pc' = "drain"
    /\ UNCHANGED <<links, heap, header, locals, ret, shape>>

\* while ( l->prealloc != NULL ): free the first unused node.
DrainItem ==
    /\ pc = "drain" /\ prealloc # NULL
    /\ next' = Scrub(next, prealloc)
    /\ prev' = Scrub(prev, prealloc)
    /\ data' = Scrub(data, prealloc)
    /\ heap' = heap \ {prealloc}
    /\ prealloc' = next[prealloc]
    /\ nspare' = nspare - 1
    /\ spare' = [k \in 1..(nspare - 1) |-> spare[k]]
    /\ UNCHANGED <<count, max_size, pc, locals, ret, chain, leaked>>

\* The handle itself is freed, and its sentinels with it.
DrainDone ==
    /\ pc = "drain" /\ prealloc = NULL
    /\ next' = Scrub(next, head)
    /\ prev' = Scrub(prev, tail)
    /\ max_size' = 0
    /\ pc' = "absent"
    /\ UNCHANGED <<data, heap, count, prealloc, locals, ret, shape>>
----------------------------------------------------------------------------
(* Calls without a loop *)

sky_list_push_front(d) ==
    /\ pc = "idle" /\ count < max_size
    /\ \E n \in Node : TakeItem(n) /\ Link(n, d, head, next[head], 1)
    /\ Return(TRUE)
    /\ UNCHANGED <<max_size, leaked>>

sky_list_push_back(d) ==
    /\ pc = "idle" /\ count < max_size
    /\ \E n \in Node : TakeItem(n) /\ Link(n, d, prev[tail], tail, count + 1)
    /\ Return(TRUE)
    /\ UNCHANGED <<max_size, leaked>>

Pop(n, p, s, k) ==
    /\ pc = "idle"
    /\ IF count > 0 /\ next[head] # tail
         THEN Unlink(n, p, s, k) /\ Return(data[n])
         ELSE Return(NULL) /\ UNCHANGED <<links, heap, header, shape>>

sky_list_pop_front == Pop(next[head], head, next[next[head]], 1)
sky_list_pop_back == Pop(prev[tail], prev[prev[tail]], tail, count)

Observe(v) == pc = "idle" /\ Return(v) /\ UNCHANGED <<links, heap, header, shape>>

sky_list_front == Observe(IF next[head] # tail THEN data[next[head]] ELSE NULL)
sky_list_back == Observe(IF prev[tail] # head THEN data[prev[tail]] ELSE NULL)
sky_list_full == Observe(count = max_size)
sky_list_empty == Observe(count = 0)
----------------------------------------------------------------------------
(* Calls that walk the nodes *)

\* Entry of a walk: itor starts at the first cell after head.
StartWalk(name, i, d, m) ==
    /\ pc = "idle"
    /\ pc' = name
    /\ itor' = next[head] /\ at' = 1
    /\ index' = i /\ arg' = d /\ match' = m
    /\ UNCHANGED <<links, count, max_size, chain, leaked, ret>>

Keep == UNCHANGED <<heap, prealloc, item, spare, nspare>>

\* itor = itor->next
Advance ==
    /\ itor' = next[itor] /\ at' = at + 1
    /\ UNCHANGED <<links, heap, header, pc, item, arg, match, ret, shape>>

GetAtOffByOne(i) ==
    IF i <= count THEN StartWalk("get", i, NULL, {}) /\ Keep ELSE Observe(NULL)

sky_list_get_at(i) ==
    IF i < count THEN StartWalk("get", i, NULL, {}) /\ Keep ELSE Observe(NULL)

GetNext == pc = "get" /\ itor # NULL /\ index > 0 /\ index' = index - 1 /\ Advance

GetDone ==
    /\ pc = "get" /\ (itor = NULL \/ index = 0)
    /\ Return(IF itor # NULL THEN data[itor] ELSE NULL)
    /\ UNCHANGED <<links, heap, header, shape>>

sky_list_insert(i, d) ==
    /\ count < max_size
    /\ StartWalk("insert", i, d, {})
    /\ \E n \in Node : TakeItem(n) /\ item' = n

InsertNext == pc = "insert" /\ index > 0 /\ itor # NULL /\ index' = index - 1 /\ Advance

\* Past the end the new item goes before tail.
InsertDone ==
    /\ pc = "insert" /\ (index = 0 \/ itor = NULL)
    /\ IF itor = NULL
         THEN Link(item, arg, prev[tail], tail, count + 1)
         ELSE Link(item, arg, prev[itor], itor, at)
    /\ Return(TRUE)
    /\ UNCHANGED <<heap, max_size, prealloc, spare, nspare, leaked>>

\* m is the set of data pointers the caller's comparison function accepts.
sky_list_remove_if(m) == StartWalk("remove", 0, NULL, m) /\ Keep
sky_list_find_if(m) == StartWalk("find", 0, NULL, m) /\ Keep
sky_list_contain(d) == StartWalk("contain", 0, d, {d}) /\ Keep

Seeking == pc \in {"remove", "find", "contain"}

SeekStaysOnNull ==
    /\ Seeking /\ itor # tail /\ data[itor] \notin match
    /\ IF data[itor] = NULL THEN UNCHANGED vars ELSE Advance /\ UNCHANGED index

SeekNext == Seeking /\ itor # tail /\ data[itor] \notin match /\ Advance /\ UNCHANGED index

SeekMiss ==
    /\ Seeking /\ itor = tail
    /\ Return(IF pc = "contain" THEN FALSE ELSE NULL)
    /\ UNCHANGED <<links, heap, header, shape>>

FindHit ==
    /\ pc \in {"find", "contain"} /\ itor # tail /\ data[itor] \in match
    /\ Return(IF pc = "contain" THEN data[itor] # NULL /\ data[itor] = arg ELSE data[itor])
    /\ UNCHANGED <<links, heap, header, shape>>

RemoveHit ==
    /\ pc = "remove" /\ itor # tail /\ data[itor] \in match
    /\ Unlink(itor, prev[itor], next[itor], at)
    /\ Return(data[itor])

sky_list_clear ==
    /\ pc = "idle"
    /\ pc' = "clear"
    /\ UNCHANGED <<links, heap, header, locals, ret, shape>>

\* The first item goes to the unused nodes; the prev link of its successor is
\* left pointing at it.
ClearNext ==
    /\ pc = "clear" /\ next[head] # tail
    /\ LET n == next[head] IN
          /\ next' = [next EXCEPT ![n] = prealloc, ![head] = next[n]]
          /\ prealloc' = n
          /\ nspare' = nspare + 1
          /\ spare' = [k \in 1..(nspare + 1) |-> IF k = nspare + 1 THEN n ELSE spare[k]]
    /\ count' = count - 1
    /\ chain' = [i \in 0..count |-> IF i = 0 THEN head ELSE chain[i + 1]]
    /\ UNCHANGED <<prev, data, heap, max_size, pc, locals, ret, leaked>>

ClearLeavesTail ==
    /\ pc = "clear" /\ next[head] = tail
    /\ Return(ret)
    /\ UNCHANGED <<links, heap, header, shape>>

ClearDone ==
    /\ pc = "clear" /\ next[head] = tail
    /\ prev' = [prev EXCEPT ![tail] = head]
    /\ Return(ret)
    /\ UNCHANGED <<next, data, heap, header, shape>>
----------------------------------------------------------------------------
Call == \/ sky_list_create \/ sky_list_destroy \/ sky_list_clear \/ Refuse
        \/ \E d \in Value : sky_list_push_front(d) \/ sky_list_push_back(d)
        \/ sky_list_pop_front \/ sky_list_pop_back
        \/ sky_list_front \/ sky_list_back \/ sky_list_full \/ sky_list_empty
        \/ \E i \in 0..MaxIndex : sky_list_get_at(i) \/ \E d \in Value : sky_list_insert(i, d)
        \/ \E m \in SUBSET Value : sky_list_remove_if(m) \/ sky_list_find_if(m)
        \/ \E d \in Value : sky_list_contain(d)

Step == \/ CreatePrealloc \/ CreateDone \/ CreateFails
        \/ DestroyItem \/ DestroyItems \/ DrainItem \/ DrainDone
        \/ GetNext \/ GetDone \/ InsertNext \/ InsertDone
        \/ SeekNext \/ SeekMiss \/ FindHit \/ RemoveHit
        \/ ClearNext \/ ClearDone

Next == Call \/ Step

Spec == Init /\ [][Next]_vars
\* A call that has begun keeps running.
FairSpec == Spec /\ WF_vars(Step)
----------------------------------------------------------------------------
(* Properties *)

Listed == {chain[i] : i \in 1..count}
Unused == {spare[k] : k \in 1..nspare}

\* Every variable has its type; the history functions have the domains the
\* counters give them.
TypeOK ==
    /\ next \in [Cell -> Ptr] /\ prev \in [Cell -> Ptr] /\ data \in [Cell -> Value]
    /\ heap \in SUBSET Node /\ leaked \in SUBSET Node
    /\ count \in Nat /\ max_size \in 0..MaxSize /\ nspare \in Nat
    /\ prealloc \in Node \cup {NULL}
    /\ pc \in PC
    /\ itor \in Ptr /\ item \in Node \cup {NULL} /\ index \in 0..MaxIndex /\ at \in Nat
    /\ arg \in Value /\ match \in SUBSET Value
    /\ ret \in Value \cup BOOLEAN
    /\ chain \in [0..(count + 1) -> Cell]
    /\ spare \in [1..nspare -> Node]

\* Whatever sequence of calls led here, the next links lead from head through
\* count distinct nodes to tail and the prev links lead back; only while
\* sky_list_clear runs is the first prev link stale, and while the list is
\* being destroyed prev links mean nothing.
WellLinked ==
  /\ chain[0] = head /\ chain[count + 1] = tail
  /\ pc \notin {"absent", "drain"} =>
      /\ \A i \in 1..count : chain[i] \in Node
      /\ \A i, j \in 1..count : chain[i] = chain[j] => i = j
      /\ \A i \in 0..count : next[chain[i]] = chain[i + 1]
      /\ next[tail] = NULL
      /\ pc # "destroy" =>
           \A i \in 0..count : (pc = "clear" /\ i = 0) \/ prev[chain[i + 1]] = chain[i]

\* prealloc heads a chain of the distinct unused nodes, ended by NULL.
SparesLinked ==
    /\ prealloc = IF nspare = 0 THEN NULL ELSE spare[nspare]
    /\ \A k \in 1..nspare : next[spare[k]] = IF k = 1 THEN NULL ELSE spare[k - 1]
    /\ \A j, k \in 1..nspare : spare[j] = spare[k] => j = k

\* An allocated node is in the list, unused, held by the insert in progress
\* or lost by a failed create, and it is only one of these: no node is in two
\* places, none is used after it was freed, and a destroyed list has freed
\* every node it ever allocated.
HeapPartition ==
    /\ heap = Listed \cup Unused \cup leaked \cup (IF item = NULL THEN {} ELSE {item})
    /\ Listed \cap Unused = {}
    /\ leaked \cap (Listed \cup Unused) = {}
    /\ item # NULL => item \notin Listed \cup Unused \cup leaked
    /\ pc = "absent" => heap = leaked

\* A walk's iterator is the at-th cell of the list, one past the tail it is
\* NULL, and it never stands on a node that has left the list.
WalkOnList ==
    /\ pc \in Walks => /\ at \in 1..(count + 2)
                       /\ itor = IF at = count + 2 THEN NULL ELSE chain[at]
    /\ pc \in {"remove", "find", "contain"} => at <= count + 1
    /\ pc = "get" => at + index <= count
    /\ (item # NULL) <=> (pc = "insert")
    /\ pc = "insert" => count < max_size
    /\ pc \notin {"absent", "drain"} => count <= max_size
    /\ pc \in {"absent", "create", "drain"} => count = 0
    /\ pc = "absent" => nspare = 0

\* Nodes are recycled before they are allocated: the list never owns more of
\* them than the larger of its limit and the pre-allocation.
HeapBound ==
    LET owned == count + nspare + IF item = NULL THEN 0 ELSE 1
        limit == IF max_size > PreallocNum THEN max_size ELSE PreallocNum
    IN  pc \in Walks \cup {"idle", "clear"} => owned <= limit

\* What the caller sees: a list from the end of create to the start of destroy,
\* its items until clear begins, and the request that a walk works on.
Open == pc \in Walks \cup {"idle", "clear"}
Items == IF pc \in Walks \cup {"idle"} THEN [i \in 1..count |-> data[chain[i]]] ELSE <<>>
Limit == IF Open THEN max_size ELSE 0
Owned == IF Open THEN count + nspare + (IF item = NULL THEN 0 ELSE 1) ELSE 0
Request == IF pc \in Walks THEN pc ELSE "idle"
Asked == IF pc \in {"get", "insert"} THEN index + at - 1 ELSE 0

\* The list behaves as the bounded sequence of SkyListSpec: each call returns
\* and changes what that sequence says, and clear and destroy take effect at
\* their first step.
Abs == INSTANCE SkyListSpec WITH
    open <- Open, items <- Items, max_size <- Limit, reserve <- Owned,
    op <- Request, index <- Asked
ImplementsList == Abs!Spec

\* Every call that begins ends, whatever list it finds.
WalksEnd == pc \notin {"absent", "idle"} ~> pc \in {"absent", "idle"}
=============================================================================
