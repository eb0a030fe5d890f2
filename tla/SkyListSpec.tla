---------------------------- MODULE SkyListSpec ----------------------------
(* What a list handle of src/sky/src/sky_list.c promises its caller: a       *)
(* bounded sequence of data pointers.  An operation that has to walk the     *)
(* nodes is an invocation (the request is recorded) and a response that      *)
(* applies it to the whole sequence; every other one is a single step.       *)
(*                                                                           *)
(* reserve is the number of nodes the list owns.  Nodes are never given back *)
(* before the list is destroyed, so a list that once held n items can hold n *)
(* items again without asking the allocator: a push or an insert may fail    *)
(* only at the limit, or when it needs a node beyond the reserve.            *)
EXTENDS Naturals, Sequences, SequencesExt

CONSTANTS Value,        \* data pointers a caller stores, NULL among them
          NULL,
          MaxSize,      \* largest limit a caller passes to sky_list_create
          PreallocNum,  \* SKY_LIST_PREALLOC_NUM
          MaxIndex      \* largest index a caller passes

VARIABLES open, items, max_size, reserve, op, index, arg, match, ret

vars == <<open, items, max_size, reserve, op, index, arg, match, ret>>
request == <<op, index, arg, match>>

NoRequest == op = "idle" /\ index = 0 /\ arg = NULL /\ match = {}
Ready == open /\ NoRequest

\* The position of the first item a comparison function accepts, 0 if none.
First(m) ==
    LET hits == {i \in 1..Len(items) : items[i] \in m}
    IN  IF hits = {} THEN 0 ELSE CHOOSE i \in hits : \A j \in hits : i <= j

Init == /\ open = FALSE /\ items = <<>> /\ max_size = 0 /\ reserve = 0
        /\ NoRequest
        /\ ret = NULL
----------------------------------------------------------------------------
Create == /\ ~open
          /\ open' = TRUE /\ items' = <<>> /\ ret' = TRUE
          /\ max_size' \in 1..MaxSize
          /\ reserve' = PreallocNum
          /\ UNCHANGED request

CreateFails == ~open /\ ret' = FALSE /\ UNCHANGED <<open, items, max_size, reserve, request>>

Destroy == /\ Ready
           /\ open' = FALSE /\ items' = <<>> /\ max_size' = 0 /\ reserve' = 0
           /\ UNCHANGED <<request, ret>>

Clear == Ready /\ items' = <<>> /\ UNCHANGED <<open, max_size, reserve, request, ret>>

HasRoom == Len(items) < max_size
Grown(n) == IF n > reserve THEN n ELSE reserve

Refused == /\ Ready
           /\ ~HasRoom \/ Len(items) >= reserve
           /\ ret' = FALSE
           /\ UNCHANGED <<open, items, max_size, reserve, request>>

Push(new) == /\ Ready /\ HasRoom
             /\ items' = new
             /\ reserve' = Grown(Len(items) + 1)
             /\ ret' = TRUE
             /\ UNCHANGED <<open, max_size, request>>

PushFront(d) == Push(<<d>> \o items)
PushBack(d) == Push(Append(items, d))

Observe(v) == Ready /\ ret' = v /\ UNCHANGED <<open, items, max_size, reserve, request>>

ItemAt(i) == IF i \in 1..Len(items) THEN items[i] ELSE NULL

PopFront == /\ Ready
            /\ ret' = ItemAt(1)
            /\ items' = IF items = <<>> THEN <<>> ELSE Tail(items)
            /\ UNCHANGED <<open, max_size, reserve, request>>

PopBack == /\ Ready
           /\ ret' = ItemAt(Len(items))
           /\ items' = IF items = <<>> THEN <<>> ELSE Front(items)
           /\ UNCHANGED <<open, max_size, reserve, request>>
----------------------------------------------------------------------------
Ask(name, i, d, m) == /\ Ready
                      /\ op' = name /\ index' = i /\ arg' = d /\ match' = m
                      /\ UNCHANGED <<open, items, max_size, ret>>

Query == \/ \E i \in 0..MaxIndex : i < Len(items) /\ Ask("get", i, NULL, {})
         \/ \E m \in SUBSET Value : Ask("find", 0, NULL, m) \/ Ask("remove", 0, NULL, m)
         \/ \E d \in Value : Ask("contain", 0, d, {d})

Invoke == \/ Query /\ UNCHANGED reserve
          \/ \E i \in 0..MaxIndex, d \in Value :
                /\ HasRoom
                /\ Ask("insert", i, d, {})
                /\ reserve' = Grown(Len(items) + 1)

Answer(name, new, v) == /\ op = name
                        /\ items' = new /\ ret' = v
                        /\ NoRequest'
                        /\ UNCHANGED <<open, max_size, reserve>>

Respond ==
    \/ Answer("get", items, items[index + 1])
    \/ Answer("find", items, ItemAt(First(match)))
    \/ Answer("contain", items, First({arg}) # 0 /\ arg # NULL)
    \/ Answer("remove", IF First(match) = 0 THEN items ELSE RemoveAt(items, First(match)),
                        ItemAt(First(match)))
    \/ Answer("insert",
              InsertAt(items, (IF index < Len(items) THEN index ELSE Len(items)) + 1, arg), TRUE)

Next == \/ Create \/ CreateFails \/ Destroy \/ Clear \/ Refused
        \/ \E d \in Value : PushFront(d) \/ PushBack(d)
        \/ PopFront \/ PopBack
        \/ Observe(ItemAt(1)) \/ Observe(ItemAt(Len(items)))
        \/ Observe(Len(items) = max_size) \/ Observe(items = <<>>)
        \/ \E i \in 0..MaxIndex : i >= Len(items) /\ Observe(NULL)
        \/ Invoke \/ Respond

Spec == Init /\ [][Next]_vars
=============================================================================
