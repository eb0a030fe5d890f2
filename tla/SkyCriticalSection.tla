------------------------ MODULE SkyCriticalSection ------------------------
(* src/sky/src/sky_critical_section.c: a recursive pthread mutex behind a    *)
(* handle.  enter and leave answer nothing, so a thread only has its own     *)
(* count of the calls it made to tell whether it is inside: inside is that   *)
(* belief, and the properties compare it with the mutex.                     *)
(*                                                                           *)
(* A definition named for a fault (LeaveAtOnce) is a variant of the one that *)
(* follows it and no action uses it.                                         *)
EXTENDS Naturals

CONSTANTS Thread, None,
          MaxDepth  \* bound: nested sections, below the mutex's own 2^32 - 1

ASSUME SectionAssumption == None \notin Thread \cup {"it"} /\ MaxDepth \in Nat

VARIABLES
    live,          \* is there a handle?
    owner, count,  \* the mutex
    pc,            \* "enter" while a thread waits in enter
    inside         \* sections a thread entered and has not left

vars == <<live, owner, count, pc, inside>>

Init == /\ live = FALSE /\ owner = None /\ count = 0
        /\ pc = [t \in Thread |-> "idle"] /\ inside = [t \in Thread |-> 0]
----------------------------------------------------------------------------
sky_critical_section_create ==
    /\ ~live
    /\ live' = TRUE /\ owner' = None /\ count' = 0
    /\ UNCHANGED <<pc, inside>>

\* By a caller that knows that nobody is inside or about to enter.
sky_critical_section_destroy ==
    /\ live /\ \A t \in Thread : pc[t] = "idle" /\ inside[t] = 0
    /\ live' = FALSE
    /\ UNCHANGED <<owner, count, pc, inside>>

sky_critical_section_enter(t) ==
    /\ live /\ pc[t] = "idle" /\ inside[t] < MaxDepth
    /\ pc' = [pc EXCEPT ![t] = "enter"]
    /\ UNCHANGED <<live, owner, count, inside>>

Counts(t) == /\ owner' = t /\ count' = count + 1
             /\ inside' = [inside EXCEPT ![t] = @ + 1]

\* The mutex is free, or the thread has it already.
Entered(t) ==
    /\ pc[t] = "enter" /\ owner \in {None, t}
    /\ Counts(t)
    /\ pc' = [pc EXCEPT ![t] = "idle"]
    /\ UNCHANGED live

TryAlways(t) ==
    /\ live /\ pc[t] = "idle" /\ inside[t] < MaxDepth
    /\ Counts(t)
    /\ UNCHANGED <<live, pc>>

\* A try that answers false changes nothing.
sky_critical_section_try(t) ==
    /\ live /\ pc[t] = "idle" /\ inside[t] < MaxDepth
    /\ owner \in {None, t}
    /\ Counts(t)
    /\ UNCHANGED <<live, pc>>

LeaveAtOnce(t) ==
    /\ live /\ pc[t] = "idle" /\ owner = t
    /\ count' = 0 /\ owner' = None
    /\ inside' = [inside EXCEPT ![t] = @ - 1]
    /\ UNCHANGED <<live, pc>>

\* The mutex refuses a thread that has not got it, and leave ignores that.
sky_critical_section_leave(t) ==
    /\ live /\ pc[t] = "idle" /\ owner = t
    /\ count' = count - 1
    /\ owner' = IF count = 1 THEN None ELSE t
    /\ inside' = [inside EXCEPT ![t] = @ - 1]
    /\ UNCHANGED <<live, pc>>
----------------------------------------------------------------------------
Next == \/ sky_critical_section_create \/ sky_critical_section_destroy
        \/ \E t \in Thread :
              \/ sky_critical_section_enter(t) \/ Entered(t)
              \/ sky_critical_section_try(t) \/ sky_critical_section_leave(t)

Spec == Init /\ [][Next]_vars
\* A thread that can run runs; nothing is said about who gets a free mutex.
FairSpec == Spec /\ \A t \in Thread : WF_vars(Entered(t))
----------------------------------------------------------------------------
(* Properties *)

\* Every variable has its type; the mutex is free when nobody counts on it.
TypeOK ==
    /\ live \in BOOLEAN /\ owner \in Thread \cup {None} /\ count \in 0..MaxDepth
    /\ owner = None <=> count = 0
    /\ pc \in [Thread -> {"idle", "enter"}]
    /\ inside \in [Thread -> 0..MaxDepth]

\* What a thread believes is what the mutex holds: it has the mutex from the
\* first enter to the leave that matches it, through everything between, and
\* not a moment longer.
BeliefIsMutex == \A t \in Thread : inside[t] = IF owner = t THEN count ELSE 0

\* A thread never waits for itself: an enter inside the section returns.
NestedEnterReturns ==
    \A t \in Thread : pc[t] = "enter" /\ inside[t] > 0 ~> pc[t] = "idle"

\* A section is a lock of SkyRwlockSpec that everybody takes as a writer.
Abstract == INSTANCE SkyRwlockSpec WITH
    Client <- Thread, LockId <- {"it"},
    on <- [t \in Thread |-> IF live THEN "it" ELSE None],
    mode <- [t \in Thread |-> IF inside[t] > 0 THEN "ex" ELSE "none"]

ImplementsLock == Abstract!Spec
=============================================================================
