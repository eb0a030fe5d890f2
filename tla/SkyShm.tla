------------------------------- MODULE SkyShm -------------------------------
(* src/sky/src/sky_ipc_shm.c: shared memory handles.  Every process keeps a  *)
(* registry of the handles it created or opened (share_mem_list), guarded by *)
(* a critical section (share_mem_list_cs); the objects and their names live  *)
(* in the kernel and outlast the processes.  A step is one system call or    *)
(* one operation on the registry; allocating, filling in and freeing the     *)
(* handle structure goes with the call next to it.                           *)
(*                                                                           *)
(* A call that fails before it has a file descriptor (no memory, the name    *)
(* exists, or does not) frees what it allocated and changes nothing: it is a *)
(* stuttering step and needs no action.                                      *)
(*                                                                           *)
(* robbed and abandoned are history variables.  A definition named for a     *)
(* fault (CreateWithoutExcl, MmapAnyLength, EnterUnlocked) is a variant of   *)
(* the one that follows it and no action uses it; README.md tells which      *)
(* property each of them breaks.                                             *)
EXTENDS Naturals, FiniteSets

CONSTANTS Proc,      \* processes
          Thread,
          ProcOf,    \* the process of a thread
          Name,      \* names of shared memory objects
          Object,    \* bound: kernel objects that exist at once
          Handle,    \* bound: handle structures that are allocated at once
          None,
          MaxCount   \* MAX_SHARE_MEM_COUNT

HandleStruct == [proc : Proc, name : Name, file : Object, open : BOOLEAN,
                 mapped : BOOLEAN, is_creator : BOOLEAN]

ASSUME ShmAssumption ==
    /\ ProcOf \in [Thread -> Proc]
    /\ None \notin Proc \cup Thread \cup Object \cup Handle \cup HandleStruct
    /\ MaxCount \in Nat

VARIABLES
    ns,          \* the object a name refers to
    size,        \* the size of an object: 0 before its creator's ftruncate, then 1
    sm,          \* the handle structures
    up,          \* sky_share_memory_init has run in the process
    list, cs,    \* share_mem_list, and the thread inside share_mem_list_cs
    known,       \* the handles the process was given, closed ones included
    pc, op, h, st_size, ok,  \* a thread's call and its locals
    robbed,      \* creators whose name was removed in their lifetime
    abandoned    \* objects whose creator ended without closing them

kernel == <<ns, size>>
locals == <<pc, op, h, st_size, ok>>
history == <<robbed, abandoned>>
vars == <<kernel, sm, up, list, cs, known, locals, history>>

Allocated == {g \in Handle : sm[g] # None}
InUse(o) == (\E n \in Name : ns[n] = o) \/ (\E g \in Allocated : sm[g].file = o)

Init == /\ ns = [n \in Name |-> None] /\ size = [o \in Object |-> 0]
        /\ sm = [g \in Handle |-> None]
        /\ up = [p \in Proc |-> FALSE]
        /\ list = [p \in Proc |-> {}] /\ cs = [p \in Proc |-> None]
        /\ known = [p \in Proc |-> {}]
        /\ pc = [t \in Thread |-> "idle"] /\ op = [t \in Thread |-> "none"]
        /\ h = [t \in Thread |-> None] /\ st_size = [t \in Thread |-> 0]
        /\ ok = [t \in Thread |-> FALSE]
        /\ robbed = {} /\ abandoned = {}
----------------------------------------------------------------------------
Goto(t, l) == pc' = [pc EXCEPT ![t] = l]

Return(t) == /\ pc' = [pc EXCEPT ![t] = "idle"] /\ op' = [op EXCEPT ![t] = "none"]
             /\ h' = [h EXCEPT ![t] = None] /\ st_size' = [st_size EXCEPT ![t] = 0]
             /\ ok' = [ok EXCEPT ![t] = FALSE]

Begin(t, what, g, l) == /\ pc[t] = "idle" /\ up[ProcOf[t]]
                        /\ pc' = [pc EXCEPT ![t] = l] /\ op' = [op EXCEPT ![t] = what]
                        /\ h' = [h EXCEPT ![t] = g]
                        /\ UNCHANGED <<up, list, cs, known, st_size, ok, history>>

Fresh(t, n, o) == [proc |-> ProcOf[t], name |-> n, file |-> o, open |-> TRUE,
                   mapped |-> FALSE, is_creator |-> FALSE]

\* shm_open with O_CREAT and O_EXCL.
CreateWithoutExcl(t, n) ==
    \E g \in Handle \ Allocated, o \in Object :
       /\ ~InUse(o)
       /\ Begin(t, "create", g, "ftruncate")
       /\ ns' = [ns EXCEPT ![n] = o]
       /\ size' = [size EXCEPT ![o] = 0]
       /\ sm' = [sm EXCEPT ![g] = Fresh(t, n, o)]

sky_share_memory_create(t, n) ==
    \E g \in Handle \ Allocated, o \in Object :
       /\ ns[n] = None /\ ~InUse(o)
       /\ Begin(t, "create", g, "ftruncate")
       /\ ns' = [ns EXCEPT ![n] = o]
       /\ size' = [size EXCEPT ![o] = 0]
       /\ sm' = [sm EXCEPT ![g] = Fresh(t, n, o)]

sky_share_memory_open(t, n) ==
    \E g \in Handle \ Allocated :
       /\ ns[n] # None
       /\ Begin(t, "open", g, "fstat")
       /\ sm' = [sm EXCEPT ![g] = Fresh(t, n, ns[n])]
       /\ UNCHANGED kernel

\* sky_close_handle of a handle the process holds or once held: a second close
\* of the same handle finds it gone from the registry, unless the structure's
\* address has been handed out again.
sky_share_memory_destroy(t, g) ==
    /\ g \in known[ProcOf[t]]
    /\ Begin(t, "destroy", g, "enter")
    /\ UNCHANGED <<kernel, sm>>
----------------------------------------------------------------------------
(* Building a handle *)

Ftruncate(t) ==
    /\ pc[t] = "ftruncate"
    /\ \/ size' = [size EXCEPT ![sm[h[t]].file] = 1] /\ Goto(t, "mmap")
       \/ Goto(t, "unmap") /\ UNCHANGED size
    /\ UNCHANGED <<ns, sm, up, list, cs, known, op, h, st_size, ok, history>>

Fstat(t) ==
    /\ pc[t] = "fstat"
    /\ \/ st_size' = [st_size EXCEPT ![t] = size[sm[h[t]].file]] /\ Goto(t, "mmap")
       \/ Goto(t, "unmap") /\ UNCHANGED st_size
    /\ UNCHANGED <<kernel, sm, up, list, cs, known, op, h, ok, history>>

\* The length asked for: the creator's size, or what fstat said; mapping no
\* bytes is an error.
MmapAnyLength(t) ==
    /\ pc[t] = "mmap"
    /\ sm' = [sm EXCEPT ![h[t]].mapped = TRUE, ![h[t]].is_creator = (op[t] = "create")]
    /\ Goto(t, "enter")
    /\ UNCHANGED <<kernel, up, list, cs, known, op, h, st_size, ok, history>>

Mmap(t) ==
    /\ pc[t] = "mmap"
    /\ \/ /\ op[t] = "create" \/ st_size[t] > 0
          /\ sm' = [sm EXCEPT ![h[t]].mapped = TRUE, ![h[t]].is_creator = (op[t] = "create")]
          /\ Goto(t, "enter")
       \/ Goto(t, "unmap") /\ UNCHANGED sm
    /\ UNCHANGED <<kernel, up, list, cs, known, op, h, st_size, ok, history>>

----------------------------------------------------------------------------
(* The registry *)

InList(t) == IF op[t] = "destroy" THEN "remove" ELSE "push"

EnterUnlocked(t) ==
    /\ pc[t] = "enter"
    /\ cs' = [cs EXCEPT ![ProcOf[t]] = t]
    /\ Goto(t, InList(t))
    /\ UNCHANGED <<kernel, sm, up, list, known, op, h, st_size, ok, history>>

Enter(t) ==
    /\ pc[t] = "enter" /\ cs[ProcOf[t]] = None
    /\ cs' = [cs EXCEPT ![ProcOf[t]] = t]
    /\ Goto(t, InList(t))
    /\ UNCHANGED <<kernel, sm, up, list, known, op, h, st_size, ok, history>>

\* sky_list_push_back: fails at the limit, or without memory for the node.
Push(t) ==
    /\ pc[t] = "push"
    /\ LET p == ProcOf[t] IN
          \/ /\ Cardinality(list[p]) < MaxCount
             /\ list' = [list EXCEPT ![p] = @ \cup {h[t]}]
             /\ ok' = [ok EXCEPT ![t] = TRUE]
          \/ UNCHANGED <<list, ok>>
    /\ Goto(t, "leave")
    /\ UNCHANGED <<kernel, sm, up, cs, known, op, h, st_size, history>>

RemoveUnchecked(t) ==
    /\ pc[t] = "remove"
    /\ LET p == ProcOf[t] IN
          /\ list' = [list EXCEPT ![p] = @ \ {h[t]}]
          /\ ok' = [ok EXCEPT ![t] = sm[h[t]] # None]
    /\ Goto(t, "leave")
    /\ UNCHANGED <<kernel, sm, up, cs, known, op, h, st_size, history>>

RemoveOnlyFinds(t) ==
    /\ pc[t] = "remove"
    /\ ok' = [ok EXCEPT ![t] = h[t] \in list[ProcOf[t]]]
    /\ Goto(t, "leave")
    /\ UNCHANGED <<kernel, sm, up, list, cs, known, op, h, st_size, history>>

\* sky_list_remove: NULL when the handle is not registered.
Remove(t) ==
    /\ pc[t] = "remove"
    /\ LET p == ProcOf[t] IN
          /\ list' = [list EXCEPT ![p] = @ \ {h[t]}]
          /\ ok' = [ok EXCEPT ![t] = h[t] \in list[p]]
    /\ Goto(t, "leave")
    /\ UNCHANGED <<kernel, sm, up, cs, known, op, h, st_size, history>>

LeaveOnlyOnSuccess(t) ==
    /\ pc[t] = "leave"
    /\ cs' = IF ok[t] THEN [cs EXCEPT ![ProcOf[t]] = None] ELSE cs
    /\ \/ /\ op[t] # "destroy" /\ ok[t]
          /\ known' = [known EXCEPT ![ProcOf[t]] = @ \cup {h[t]}]
          /\ Return(t)
       \/ /\ (op[t] = "destroy") <=> ok[t]
          /\ Goto(t, "unmap")
          /\ UNCHANGED <<known, op, h, st_size, ok>>
       \/ op[t] = "destroy" /\ ~ok[t] /\ Return(t) /\ UNCHANGED known
    /\ UNCHANGED <<kernel, sm, up, list, history>>

\* After the registry: a built handle is returned, a handle that was not
\* registered is taken down again, a handle found is destroyed, one not found
\* is left alone.
Leave(t) ==
    /\ pc[t] = "leave"
    /\ cs' = [cs EXCEPT ![ProcOf[t]] = None]
    /\ \/ /\ op[t] # "destroy" /\ ok[t]
          /\ known' = [known EXCEPT ![ProcOf[t]] = @ \cup {h[t]}]
          /\ Return(t)
       \/ /\ (op[t] = "destroy") <=> ok[t]
          /\ Goto(t, "unmap")
          /\ UNCHANGED <<known, op, h, st_size, ok>>
       \/ op[t] = "destroy" /\ ~ok[t] /\ Return(t) /\ UNCHANGED known
    /\ UNCHANGED <<kernel, sm, up, list, history>>
----------------------------------------------------------------------------
(* Taking a handle down: the failure paths of create and open, and destroy *)

\* munmap and close.  Destroy unlinks what it created; the failure paths
\* unlink whatever name they had opened.
UnmapLeavesName(t) ==
    /\ pc[t] = "unmap"
    /\ sm' = [sm EXCEPT ![h[t]].open = FALSE, ![h[t]].mapped = FALSE]
    /\ Goto(t, IF sm[h[t]].is_creator THEN "unlink" ELSE "free")
    /\ UNCHANGED <<kernel, up, list, cs, known, op, h, st_size, ok, history>>

Unmap(t) ==
    /\ pc[t] = "unmap"
    /\ sm' = [sm EXCEPT ![h[t]].open = FALSE, ![h[t]].mapped = FALSE]
    /\ Goto(t, IF op[t] = "destroy" /\ ~sm[h[t]].is_creator THEN "free" ELSE "unlink")
    /\ UNCHANGED <<kernel, up, list, cs, known, op, h, st_size, ok, history>>

\* The creators, other than the one taken down, whose object n refers to.
Creators(n) == {g \in Allocated : /\ sm[g].name = n /\ sm[g].file = ns[n]
                                  /\ sm[g].is_creator \/ \E t \in Thread : h[t] = g /\ op[t] = "create"}

Unlink(t) ==
    /\ pc[t] = "unlink"
    /\ LET n == sm[h[t]].name IN
          /\ ns' = [ns EXCEPT ![n] = None]
          /\ robbed' = (IF op[t] = "open" \/ h[t] \in robbed THEN robbed \cup Creators(n)
                                                             ELSE robbed) \ {h[t]}
    /\ sm' = [sm EXCEPT ![h[t]] = None]
    /\ Return(t)
    /\ UNCHANGED <<size, up, list, cs, known, abandoned>>

Free(t) ==
    /\ pc[t] = "free"
    /\ sm' = [sm EXCEPT ![h[t]] = None]
    /\ robbed' = robbed \ {h[t]}
    /\ Return(t)
    /\ UNCHANGED <<kernel, up, list, cs, known, abandoned>>
----------------------------------------------------------------------------
(* Processes *)

sky_share_memory_init(p) ==
    /\ ~up[p]
    /\ up' = [up EXCEPT ![p] = TRUE]
    /\ UNCHANGED <<kernel, sm, list, cs, known, locals, history>>

Mine(p) == {g \in Allocated : sm[g].proc = p}
Lost(p) == {sm[g].file : g \in Mine(p)}

\* The registry is dropped with the handles still open: from here on a close
\* of them finds nothing.
sky_share_memory_uninit(p) ==
    /\ up[p] /\ \A t \in Thread : ProcOf[t] = p => pc[t] = "idle"
    /\ up' = [up EXCEPT ![p] = FALSE]
    /\ list' = [list EXCEPT ![p] = {}]
    /\ abandoned' = abandoned \cup Lost(p)
    /\ UNCHANGED <<kernel, sm, cs, known, locals, robbed>>

\* The process ends, normally or not: the kernel closes and unmaps everything
\* and leaves the names.
Exit(p) ==
    /\ up[p] \/ Mine(p) # {}
    /\ sm' = [g \in Handle |-> IF g \in Mine(p) THEN None ELSE sm[g]]
    /\ up' = [up EXCEPT ![p] = FALSE]
    /\ list' = [list EXCEPT ![p] = {}] /\ cs' = [cs EXCEPT ![p] = None]
    /\ known' = [known EXCEPT ![p] = {}]
    /\ LET mine == {t \in Thread : ProcOf[t] = p} IN
          /\ pc' = [t \in Thread |-> IF t \in mine THEN "idle" ELSE pc[t]]
          /\ op' = [t \in Thread |-> IF t \in mine THEN "none" ELSE op[t]]
          /\ h' = [t \in Thread |-> IF t \in mine THEN None ELSE h[t]]
          /\ st_size' = [t \in Thread |-> IF t \in mine THEN 0 ELSE st_size[t]]
          /\ ok' = [t \in Thread |-> IF t \in mine THEN FALSE ELSE ok[t]]
    /\ abandoned' = abandoned \cup Lost(p)
    /\ robbed' = robbed \ Mine(p)
    /\ UNCHANGED kernel
----------------------------------------------------------------------------
Call(t) == \/ \E n \in Name : sky_share_memory_create(t, n) \/ sky_share_memory_open(t, n)
           \/ \E g \in Handle : sky_share_memory_destroy(t, g)

Step(t) == \/ Ftruncate(t) \/ Fstat(t) \/ Mmap(t)
           \/ Enter(t) \/ Push(t) \/ Remove(t) \/ Leave(t)
           \/ Unmap(t) \/ Unlink(t) \/ Free(t)

Next == \/ \E t \in Thread : Call(t) \/ Step(t)
        \/ \E p \in Proc : sky_share_memory_init(p) \/ sky_share_memory_uninit(p) \/ Exit(p)

Spec == Init /\ [][Next]_vars
----------------------------------------------------------------------------
(* Properties *)

PC == {"idle", "ftruncate", "fstat", "mmap", "enter", "push", "remove", "leave",
       "unmap", "unlink", "free"}

\* Every variable has its type.
TypeOK ==
    /\ ns \in [Name -> Object \cup {None}] /\ size \in [Object -> {0, 1}]
    /\ sm \in [Handle -> HandleStruct \cup {None}]
    /\ up \in [Proc -> BOOLEAN]
    /\ list \in [Proc -> SUBSET Handle] /\ cs \in [Proc -> Thread \cup {None}]
    /\ known \in [Proc -> SUBSET Handle]
    /\ pc \in [Thread -> PC] /\ op \in [Thread -> {"none", "create", "open", "destroy"}]
    /\ h \in [Thread -> Handle \cup {None}] /\ st_size \in [Thread -> {0, 1}]
    /\ ok \in [Thread -> BOOLEAN]
    /\ robbed \in SUBSET Handle /\ abandoned \in SUBSET Object

\* The handle a thread is building or taking down, and nobody else may touch.
Owned(t) == h[t] # None /\ \/ op[t] # "destroy" /\ ~ok[t]
                           \/ op[t] = "destroy" /\ ok[t]

\* Whoever finds a handle in the registry finds it whole: allocated, open,
\* mapped, this process's own, and not being taken down by anybody.
RegistryLive ==
    /\ TypeOK
    /\ \A p \in Proc : \A g \in list[p] :
          /\ sm[g] # None /\ sm[g].proc = p /\ sm[g].open /\ sm[g].mapped
          /\ \A t \in Thread : Owned(t) => h[t] # g

\* A handle is built or taken down by one thread at a time and is still
\* allocated while it is: however often and from however many threads it is
\* closed, it is unmapped, closed and freed once.
TeardownExclusive ==
    \A t \in Thread : Owned(t) =>
        /\ sm[h[t]] # None /\ sm[h[t]].proc = ProcOf[t]
        /\ \A u \in Thread \ {t} : Owned(u) => h[u] # h[t]

\* sky_list has no lock of its own: its operations on a registry never overlap.
RegistryLocked ==
    \A t, u \in Thread :
        /\ t # u /\ ProcOf[t] = ProcOf[u]
        => ~(pc[t] \in {"push", "remove", "leave"} /\ pc[u] \in {"push", "remove", "leave"})

\* A mapping handed to a caller has memory behind it: open never maps an
\* object before its creator has set the size.
MappingBacked == \A g \in Allocated : sm[g].mapped => size[sm[g].file] = 1

\* As long as a creator's handle lives, its name leads to its object, unless an
\* open of that name failed and took the name away, or a creator that had lost
\* it in this way was closed.
CreatorKeepsName ==
    \A g \in Allocated \ robbed :
        sm[g].is_creator /\ sm[g].open => ns[sm[g].name] = sm[g].file

\* A name that exists is going to be removed by the handle that created it,
\* unless that handle's process ended, or dropped its registry, without
\* closing it.
NameOwned ==
    \A n \in Name : ns[n] # None =>
        \/ ns[n] \in abandoned
        \/ Creators(n) # {}

\* The thread is in the critical section of its process's registry.
InRegistry(t) == cs[ProcOf[t]] = t

\* Only the handle that created an object removes its name, as destroy's test
\* of is_creator has it (sky_ipc_shm.c:317).
OnlyCreatorUnlinks ==
    [][\A t \in Thread, n \in Name :
          Unlink(t) /\ ns[n] # None /\ ns'[n] = None => h[t] \in Creators(n)]_vars
=============================================================================
