------------------------------ MODULE SkyInit ------------------------------
(* src/sky/src/sky.c: sky_init starts fourteen modules in the order of one   *)
(* table, sky_uninit stops them in the order of another, and init_count is   *)
(* how often sky_init has been called.  When a module fails to start,        *)
(* sky_init walks the second table backwards from the index of the failure.  *)
(*                                                                           *)
(* A step is one function of a table.  Two of the modules can fail: process, *)
(* when sigaction does, and share_memory, which creates a list and a         *)
(* critical section.  init_count has no lock and no atomic access, so the    *)
(* program must make these calls one at a time, and here it does.            *)
(*                                                                           *)
(* held and surplus are history variables.  A definition named for a fault   *)
(* (UninitOneEarly) is a variant of the one that follows it and no action    *)
(* uses it.                                                                  *)
EXTENDS Integers, Sequences, SequencesExt

CONSTANTS MaxCount,   \* bound: calls of sky_init that count at once
          MaxSurplus  \* bound: calls of sky_uninit without a sky_init

InitAssumption == MaxCount \in Nat \ {0} /\ MaxSurplus \in Nat

VARIABLES
    init_count,
    started,     \* modules whose init function ran after their uninit function
    list, cs,    \* share_mem_list and share_mem_list_cs
    pc, i,       \* the call in progress and its index into a table
    held,        \* calls of sky_init that returned true and are not undone
    surplus      \* calls of sky_uninit that undid none

registry == <<list, cs>>
vars == <<init_count, started, registry, pc, i, held, surplus>>

INIT_FUNCS == <<"debug", "critical_section", "mem", "list", "sys", "str", "hash",
                "regex", "dll", "process", "rwlock", "share_memory", "base64", "map">>

\* Its twelfth function is sky_mem_init, not sky_mem_uninit.
UNINIT_FUNCS == <<"map", "base64", "share_memory", "rwlock", "process", "dll", "regex",
                  "hash", "str", "sys", "list", "mem_init", "critical_section", "debug">>

INIT_FUNC_CNT == Len(INIT_FUNCS)
Modules == ToSet(INIT_FUNCS)

Init == /\ init_count = 0 /\ started = {} /\ list = FALSE /\ cs = FALSE
        /\ pc = "idle" /\ i = 0 /\ held = 0 /\ surplus = 0

Goto(l, k) == pc' = l /\ i' = k
----------------------------------------------------------------------------
sky_init ==
    /\ pc = "idle" /\ init_count < MaxCount
    /\ IF init_count = 0
         THEN Goto("start", 0) /\ UNCHANGED <<init_count, held>>
         ELSE init_count' = init_count + 1 /\ held' = held + 1 /\ UNCHANGED <<pc, i>>
    /\ UNCHANGED <<started, registry, surplus>>

\* The init function at index i returns true.
Starts ==
    /\ pc = "start" /\ i < INIT_FUNC_CNT
    /\ LET m == INIT_FUNCS[i + 1] IN
          /\ started' = started \cup {m}
          /\ IF m = "share_memory" THEN list' = TRUE /\ cs' = TRUE ELSE UNCHANGED registry
    /\ i' = i + 1
    /\ UNCHANGED <<init_count, pc, held, surplus>>

\* It returns false: share_memory without memory for the list, or with the
\* list but without the critical section; rollback begins at index i - 1.
Fails ==
    /\ pc = "start" /\ i < INIT_FUNC_CNT
    /\ \/ INIT_FUNCS[i + 1] = "process" /\ UNCHANGED list
       \/ INIT_FUNCS[i + 1] = "share_memory" /\ ~list /\ UNCHANGED list
       \/ INIT_FUNCS[i + 1] = "share_memory" /\ ~cs /\ list' = TRUE
    /\ Goto("rollback", i - 1)
    /\ UNCHANGED <<init_count, started, cs, held, surplus>>

StartCounted ==
    /\ pc = "start" /\ i = INIT_FUNC_CNT
    /\ init_count' = init_count + 1 /\ held' = held + 1
    /\ Goto("idle", 0)
    /\ UNCHANGED <<started, registry, surplus>>

\* The uninit function at index k; that of share_memory closes both handles.
CallUninit(k) ==
    LET m == UNINIT_FUNCS[k + 1] IN
    /\ started' = IF m = "mem_init" THEN started \cup {"mem"} ELSE started \ {m}
    /\ IF m = "share_memory" THEN list' = FALSE /\ cs' = FALSE ELSE UNCHANGED registry

Rollback ==
    /\ pc = "rollback" /\ i >= 0
    /\ CallUninit(i)
    /\ i' = i - 1
    /\ UNCHANGED <<init_count, pc, held, surplus>>

RollbackDone ==
    /\ pc = "rollback" /\ i < 0
    /\ Goto("idle", 0)
    /\ UNCHANGED <<init_count, started, registry, held, surplus>>

UninitOneEarly ==
    /\ pc = "idle"
    /\ IF held > 0 THEN held' = held - 1 /\ UNCHANGED surplus
                   ELSE surplus < MaxSurplus /\ surplus' = surplus + 1 /\ UNCHANGED held
    /\ IF init_count <= 2
         THEN Goto("stop", 0) /\ UNCHANGED init_count
         ELSE init_count' = init_count - 1 /\ UNCHANGED <<pc, i>>
    /\ UNCHANGED <<started, registry>>

\* A caller undoes a sky_init, its own or somebody else's, or none at all.
sky_uninit ==
    /\ pc = "idle"
    /\ IF held > 0 THEN held' = held - 1 /\ UNCHANGED surplus
                   ELSE surplus < MaxSurplus /\ surplus' = surplus + 1 /\ UNCHANGED held
    /\ IF init_count = 1
         THEN Goto("stop", 0) /\ UNCHANGED init_count
         ELSE init_count' = init_count - 1 /\ UNCHANGED <<pc, i>>
    /\ UNCHANGED <<started, registry>>

Stops ==
    /\ pc = "stop" /\ i < INIT_FUNC_CNT
    /\ CallUninit(i)
    /\ i' = i + 1
    /\ UNCHANGED <<init_count, pc, held, surplus>>

StopCounted ==
    /\ pc = "stop" /\ i = INIT_FUNC_CNT
    /\ init_count' = init_count - 1
    /\ Goto("idle", 0)
    /\ UNCHANGED <<started, registry, held, surplus>>
----------------------------------------------------------------------------
Step == Starts \/ Fails \/ StartCounted \/ Rollback \/ RollbackDone \/ Stops \/ StopCounted
Next == sky_init \/ sky_uninit \/ Step
Spec == Init /\ [][Next]_vars
----------------------------------------------------------------------------
(* Properties *)

Running == started = Modules /\ list /\ cs

\* Every variable has its type; the two tables are never read past their ends.
TypeOK ==
    /\ init_count \in (-MaxSurplus)..MaxCount
    /\ started \subseteq Modules /\ list \in BOOLEAN /\ cs \in BOOLEAN
    /\ pc \in {"idle", "start", "rollback", "stop"}
    /\ i \in IF pc = "rollback" THEN -1..(INIT_FUNC_CNT - 1) ELSE 0..INIT_FUNC_CNT
    /\ held \in 0..(MaxCount + MaxSurplus) /\ surplus \in 0..MaxSurplus

\* Whoever was told that the library is started finds all of it running until
\* he stops it, whatever calls others make, as long as no one stops more than
\* he started.
ReadyWhileHeld == held > 0 /\ surplus = 0 => Running

\* Between calls the library runs when the count is positive, and has no
\* registry otherwise: not after a start that failed half-way, nor after calls
\* of sky_uninit that nobody was entitled to.
CountTellsState ==
    pc = "idle" => /\ init_count > 0 => Running
                   /\ init_count <= 0 => ~list /\ ~cs

\* sky_uninit stops the modules in the reverse of the order they were started
\* in, so that the registry is closed while list and critical section run.
\* The memory module alone is started again where it should be stopped.
StopReversesStart ==
    pc = "stop" => started = {INIT_FUNCS[k] : k \in 1..(INIT_FUNC_CNT - i)} \cup {"mem"}
=============================================================================
