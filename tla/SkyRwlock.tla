----------------------------- MODULE SkyRwlock -----------------------------
(* src/sky/src/sky_rwlock.c, named locks: a lock is a file in /tmp, a handle *)
(* is an open file description of it, and locking is flock(2).  A timed call *)
(* tries without blocking, sleeps 100 ms and tries again, and reads the      *)
(* 32-bit millisecond clock of sky_sys.c, which wraps, to see whether its    *)
(* time is up.  A step is one system call.                                   *)
(*                                                                           *)
(* One name is modelled: locks of different names share nothing.  A create   *)
(* or an open that fails changes nothing and needs no action.                *)
(*                                                                           *)
(* belief, lost and age are history variables.  A definition named for a     *)
(* fault (OpenKeepsFileName) is a variant of the one that follows           *)
(* it and no action uses it; README.md tells which property each one breaks. *)
EXTENDS Naturals, Integers

CONSTANTS Thread,
          Handle,        \* bound: handles open at once
          Inode,         \* bound: lock files that exist at once
          None,
          SharedHandles, \* do threads use handles that other threads opened?
          Modulus,       \* the clock counts modulo this; 2^32 in the program
          Nap,           \* the sleep between two tries, 100 ms
          Slack,         \* bound: how late a sleeper is scheduled
          Timeouts       \* bound: the finite timeouts callers pass

SKY_INFINITE == Modulus - 1

\* Ages are counted up to here, past every timeout.
AgeBound == Modulus

HandleStruct == [inode : Inode, file_name : BOOLEAN, opener : Thread]

\* A timeout so long that one nap can carry the elapsed time past the end of
\* the clock's range is outside what the loop can measure.
ASSUME RwlockAssumption ==
    /\ None \notin Inode \cup Handle \cup Thread \cup HandleStruct
    /\ SharedHandles \in BOOLEAN
    /\ Modulus \in Nat \ {0, 1} /\ Nap \in Nat \ {0} /\ Slack \in Nat
    /\ Timeouts \subseteq 1..(Modulus - Nap - 2 * Slack - 1)

VARIABLES
    dir,         \* the inode the lock's file name refers to
    fd,          \* the open handles
    flock,       \* the kernel's lock of each handle
    now,         \* CLOCK_MONOTONIC in milliseconds, as sky_systick_get cuts it
    pc, arg, tick, left,  \* a thread's call, its arguments, its start, its nap
    belief, lost, age

files == <<dir, fd>>
call == <<pc, arg, tick, left, age>>
vars == <<files, flock, now, call, belief, lost>>

Mode == {"sh", "ex"}
NoCall == [handle |-> None, mode |-> "none", timeout |-> 0]

Open == {g \in Handle : fd[g] # None}

Init == /\ dir = None /\ fd = [g \in Handle |-> None]
        /\ flock = [g \in Handle |-> "none"]
        /\ now = 1
        /\ pc = [t \in Thread |-> "idle"] /\ arg = [t \in Thread |-> NoCall]
        /\ tick = [t \in Thread |-> 0] /\ left = [t \in Thread |-> 0]
        /\ age = [t \in Thread |-> 0]
        /\ belief = [t \in Thread |-> [g \in Handle |-> "none"]]
        /\ lost = [t \in Thread |-> {}]
----------------------------------------------------------------------------
(* sky_sys.c *)

\* sky_systick_get spins while the clock reads 0.
TickReadable == now # 0

DiffWithoutWrap(early_tick, later_tick) ==
    IF early_tick # 0
      THEN IF later_tick < early_tick THEN 0 ELSE later_tick - early_tick
      ELSE later_tick

sky_systick_diff(early_tick, later_tick) ==
    IF early_tick # 0
      THEN IF later_tick < early_tick
             THEN (((Modulus - 1) - early_tick) + later_tick + 1) % Modulus
             ELSE later_tick - early_tick
      ELSE later_tick

sky_systick_elapsed(last_tick) == sky_systick_diff(last_tick, now)
----------------------------------------------------------------------------
(* flock(2) *)

Compatible(g, m) ==
    \A k \in Open \ {g} :
        fd[k].inode = fd[g].inode => flock[k] = "none" \/ (flock[k] = "sh" /\ m = "sh")

\* A handle that asks for another mode than it has gives up what it has first.
Asked(g, m) == IF flock[g] = m THEN flock ELSE [flock EXCEPT ![g] = "none"]

\* That leaves the thread without the lock it was granted earlier.
Forfeit(t, g, m) ==
    lost' = IF belief[t][g] \in {"none", m} THEN lost ELSE [lost EXCEPT ![t] = @ \cup {g}]

Granted(t, g, m) ==
    /\ belief' = [belief EXCEPT ![t][g] = m]
    /\ lost' = [lost EXCEPT ![t] = @ \ {g}]

Return(t) == /\ pc' = [pc EXCEPT ![t] = "idle"] /\ arg' = [arg EXCEPT ![t] = NoCall]
             /\ tick' = [tick EXCEPT ![t] = 0] /\ left' = [left EXCEPT ![t] = 0]
             /\ age' = [age EXCEPT ![t] = 0]
----------------------------------------------------------------------------
(* Handles *)

\* O_CREAT and O_EXCL: the name must not exist.
sky_rwlock_create(t) ==
    /\ pc[t] = "idle" /\ dir = None
    /\ \E g \in Handle \ Open, i \in Inode :
          /\ \A k \in Open : fd[k].inode # i
          /\ dir' = i
          /\ fd' = [fd EXCEPT ![g] = [inode |-> i, file_name |-> TRUE, opener |-> t]]
    /\ UNCHANGED <<flock, now, call, belief, lost>>

OpenKeepsFileName(t) ==
    /\ pc[t] = "idle" /\ dir # None
    /\ \E g \in Handle \ Open :
          fd' = [fd EXCEPT ![g] = [inode |-> dir, file_name |-> TRUE, opener |-> t]]
    /\ UNCHANGED <<dir, flock, now, call, belief, lost>>

sky_rwlock_open(t) ==
    /\ pc[t] = "idle" /\ dir # None
    /\ \E g \in Handle \ Open :
          fd' = [fd EXCEPT ![g] = [inode |-> dir, file_name |-> FALSE, opener |-> t]]
    /\ UNCHANGED <<dir, flock, now, call, belief, lost>>

\* The handles a thread calls with.
Uses(t, g) == g \in Open /\ (SharedHandles \/ fd[g].opener = t)

Forget(gs) ==
    /\ fd' = [g \in Handle |-> IF g \in gs THEN None ELSE fd[g]]
    /\ flock' = [g \in Handle |-> IF g \in gs THEN "none" ELSE flock[g]]
    /\ belief' = [t \in Thread |-> [g \in Handle |-> IF g \in gs THEN "none" ELSE belief[t][g]]]
    /\ lost' = [t \in Thread |-> lost[t] \ gs]

\* close, by a caller that knows that no call is using the handle, ...
sky_rwlock_destroy(t, g) ==
    /\ pc[t] = "idle" /\ Uses(t, g)
    /\ \A u \in Thread : arg[u].handle # g
    /\ pc' = [pc EXCEPT ![t] = IF fd[g].file_name THEN "remove" ELSE "idle"]
    /\ Forget({g})
    /\ UNCHANGED <<dir, now, arg, tick, left, age>>

\* ... and then remove of the file if the handle has its name.
Remove(t) ==
    /\ pc[t] = "remove"
    /\ dir' = None
    /\ Return(t)
    /\ UNCHANGED <<fd, flock, now, belief, lost>>

\* The process of t dies: the kernel closes its handles, its file stays.
Crash(t) ==
    /\ LET dead == IF SharedHandles THEN Thread ELSE {t} IN
          /\ Forget({g \in Open : fd[g].opener \in dead})
          /\ pc' = [u \in Thread |-> IF u \in dead THEN "idle" ELSE pc[u]]
          /\ arg' = [u \in Thread |-> IF u \in dead THEN NoCall ELSE arg[u]]
          /\ tick' = [u \in Thread |-> IF u \in dead THEN 0 ELSE tick[u]]
          /\ left' = [u \in Thread |-> IF u \in dead THEN 0 ELSE left[u]]
          /\ age' = [u \in Thread |-> IF u \in dead THEN 0 ELSE age[u]]
    /\ UNCHANGED <<dir, now>>
----------------------------------------------------------------------------
(* Locking *)

\* wrlock and rdlock are the same code with LOCK_EX and LOCK_SH: block when
\* timeout is SKY_INFINITE, try once when it is 0, else keep trying.
Lock(t, g, m, timeout) ==
    /\ pc[t] = "idle" /\ Uses(t, g)
    /\ timeout \in Timeouts => TickReadable
    /\ pc' = [pc EXCEPT ![t] = IF timeout = SKY_INFINITE THEN "block" ELSE "try"]
    /\ arg' = [arg EXCEPT ![t] = [handle |-> g, mode |-> m, timeout |-> timeout]]
    /\ tick' = [tick EXCEPT ![t] = IF timeout \in Timeouts THEN now ELSE 0]
    /\ UNCHANGED <<files, flock, now, left, age, belief, lost>>

sky_rwlock_wrlock(t, g, timeout) == Lock(t, g, "ex", timeout)
sky_rwlock_rdlock(t, g, timeout) == Lock(t, g, "sh", timeout)

\* flock without LOCK_NB asks, and then waits until it is granted ...
Block(t) ==
    /\ pc[t] = "block"
    /\ LET g == arg[t].handle  m == arg[t].mode IN
          /\ flock' = Asked(g, m)
          /\ Forfeit(t, g, m)
    /\ pc' = [pc EXCEPT ![t] = "wait"]
    /\ UNCHANGED <<files, now, arg, tick, left, age, belief>>

WaitGranted(t) ==
    /\ pc[t] = "wait"
    /\ LET g == arg[t].handle  m == arg[t].mode IN
          /\ Compatible(g, m)
          /\ flock' = [flock EXCEPT ![g] = m]
          /\ Granted(t, g, m)
    /\ Return(t)
    /\ UNCHANGED <<files, now>>

\* ... or a signal handler has run: EINTR, and the call returns false.
WaitInterrupted(t) ==
    /\ pc[t] = "wait"
    /\ Return(t)
    /\ UNCHANGED <<files, flock, now, belief, lost>>

TryGranted(t) ==
    /\ pc[t] = "try"
    /\ LET g == arg[t].handle  m == arg[t].mode IN
          /\ Compatible(g, m)
          /\ flock' = [flock EXCEPT ![g] = m]
          /\ Granted(t, g, m)
    /\ Return(t)
    /\ UNCHANGED <<files, now>>

TryFailureIgnored(t) ==
    /\ pc[t] = "try"
    /\ LET g == arg[t].handle  m == arg[t].mode IN
          /\ ~Compatible(g, m)
          /\ flock' = Asked(g, m)
          /\ Granted(t, g, m)
    /\ Return(t)
    /\ UNCHANGED <<files, now>>

TryWithoutNB(t) ==
    /\ pc[t] = "try" /\ ~Compatible(arg[t].handle, arg[t].mode)
    /\ pc' = [pc EXCEPT ![t] = "wait"]
    /\ UNCHANGED <<files, flock, now, arg, tick, left, age, belief, lost>>

\* EWOULDBLOCK: give up when the timeout is 0, else sleep.
TryFails(t) ==
    /\ pc[t] = "try"
    /\ LET g == arg[t].handle  m == arg[t].mode IN
          /\ ~Compatible(g, m)
          /\ flock' = Asked(g, m)
          /\ Forfeit(t, g, m)
    /\ IF arg[t].timeout = 0
         THEN Return(t)
         ELSE /\ pc' = [pc EXCEPT ![t] = "nap"]
              /\ left' = [left EXCEPT ![t] = Nap]
              /\ UNCHANGED <<arg, tick, age>>
    /\ UNCHANGED <<files, now, belief>>

\* usleep returns when a signal handler has run.
NapInterrupted(t) ==
    /\ pc[t] = "nap" /\ left[t] > 0
    /\ left' = [left EXCEPT ![t] = 0]
    /\ UNCHANGED <<files, flock, now, pc, arg, tick, age, belief, lost>>

WakeAndClaim(t) ==
    /\ pc[t] = "nap" /\ left[t] <= 0 /\ TickReadable
    /\ IF sky_systick_elapsed(tick[t]) < arg[t].timeout
         THEN /\ pc' = [pc EXCEPT ![t] = "try"]
              /\ left' = [left EXCEPT ![t] = 0]
              /\ UNCHANGED <<arg, tick, age, belief, lost>>
         ELSE Granted(t, arg[t].handle, arg[t].mode) /\ Return(t)
    /\ UNCHANGED <<files, flock, now>>

\* After the nap: try again, or the time is up and the call returns false.
Wake(t) ==
    /\ pc[t] = "nap" /\ left[t] <= 0 /\ TickReadable
    /\ IF sky_systick_elapsed(tick[t]) < arg[t].timeout
         THEN /\ pc' = [pc EXCEPT ![t] = "try"]
              /\ left' = [left EXCEPT ![t] = 0]
              /\ UNCHANGED <<arg, tick, age>>
         ELSE Return(t)
    /\ UNCHANGED <<files, flock, now, belief, lost>>

UnlockRest(t, g) ==
    /\ belief' = [belief EXCEPT ![t][g] = "none"]
    /\ lost' = [lost EXCEPT ![t] = @ \ {g}]
    /\ UNCHANGED <<files, now, call>>

sky_rwlock_unlock(t, g) ==
    /\ pc[t] = "idle" /\ Uses(t, g)
    /\ flock' = [flock EXCEPT ![g] = "none"]
    /\ UnlockRest(t, g)

Timed(t) == pc[t] \in {"try", "nap"} /\ arg[t].timeout # 0

\* One millisecond (one unit of the model's clock).  A timed call that can run
\* runs after at most Slack of it, or when the clock can be read again.
Tick ==
    /\ \A t \in Thread : Timed(t) => left[t] > -Slack \/ (pc[t] = "nap" /\ ~TickReadable)
    /\ now' = (now + 1) % Modulus
    /\ left' = [t \in Thread |-> IF Timed(t) THEN left[t] - 1 ELSE left[t]]
    /\ age' = [t \in Thread |-> IF Timed(t) /\ age[t] < AgeBound THEN age[t] + 1 ELSE age[t]]
    /\ UNCHANGED <<files, flock, pc, arg, tick, belief, lost>>
----------------------------------------------------------------------------
Call(t) ==
    \/ sky_rwlock_create(t) \/ sky_rwlock_open(t)
    \/ \E g \in Handle :
          \/ sky_rwlock_destroy(t, g) \/ sky_rwlock_unlock(t, g)
          \/ \E timeout \in Timeouts \cup {0, SKY_INFINITE} :
                sky_rwlock_wrlock(t, g, timeout) \/ sky_rwlock_rdlock(t, g, timeout)

Step(t) == \/ Remove(t) \/ Block(t) \/ WaitGranted(t)
           \/ TryGranted(t) \/ TryFails(t) \/ Wake(t)

Signal(t) == WaitInterrupted(t) \/ NapInterrupted(t)

Next == \/ Tick
        \/ \E t \in Thread : Call(t) \/ Step(t) \/ Signal(t) \/ Crash(t)

Spec == Init /\ [][Next]_vars
----------------------------------------------------------------------------
(* Properties *)

\* Every variable has its type; a nap is never overslept by more than the
\* scheduling bound and the millisecond a zero clock costs.
TypeOK ==
    /\ dir \in Inode \cup {None}
    /\ fd \in [Handle -> HandleStruct \cup {None}]
    /\ flock \in [Handle -> Mode \cup {"none"}]
    /\ now \in 0..(Modulus - 1)
    /\ pc \in [Thread -> {"idle", "block", "wait", "try", "nap", "remove"}]
    /\ \A t \in Thread : arg[t] = NoCall \/ arg[t] \in
         [handle : Open, mode : Mode, timeout : Timeouts \cup {0, SKY_INFINITE}]
    /\ tick \in [Thread -> 0..(Modulus - 1)]
    /\ left \in [Thread -> (-Slack - 1)..Nap]
    /\ age \in [Thread -> 0..AgeBound]
    /\ belief \in [Thread -> [Handle -> Mode \cup {"none"}]]
    /\ lost \in [Thread -> SUBSET Handle]

\* A thread that was granted a lock has it until it unlocks or closes the
\* handle, or asks for the other mode itself and is refused: nothing another
\* thread or process does, and no timeout, takes it away.
HeldUntilReleased ==
    \A t \in Thread, g \in Handle :
        belief[t][g] # "none" /\ g \notin lost[t] => g \in Open /\ flock[g] = belief[t][g]

\* Two locks of one name exist side by side only after the creator of one of
\* them has ended: as long as a creator's handle is open the name is its own,
\* so there is one creator at a time and whoever opens the name shares its lock.
CreatorKeepsFile ==
    \A g \in Open : fd[g].file_name => dir = fd[g].inode

\* A timed call gives up within one nap of its timeout, also when the clock
\* wraps in between.
TimeoutKept ==
    /\ TypeOK
    /\ \A t \in Thread : arg[t].timeout \in Timeouts => age[t] <= arg[t].timeout + Nap + 2 * Slack

\* The thread is in a call that has to end whatever the holder of the lock
\* does: a timed one, one that does not wait, or a destroy.
MustReturn(t) == pc[t] # "idle" /\ arg[t].timeout # SKY_INFINITE

\* As its callers see it, a named lock is a readers-writer lock with the open
\* handles as clients, as long as each handle is its opener's.
HeldMode(g) == LET t == fd[g].opener IN IF g \in lost[t] THEN "none" ELSE belief[t][g]

LockOf == [g \in Handle |-> IF fd[g] = None THEN None ELSE fd[g].inode]
ModeOf == [g \in Handle |-> IF fd[g] = None THEN "none" ELSE HeldMode(g)]

Abstract == INSTANCE SkyRwlockSpec WITH
    Client <- Handle, LockId <- Inode, on <- LockOf, mode <- ModeOf

ImplementsLock == Abstract!Spec

Holds(t, g, m) == belief[t][g] = m /\ g \notin lost[t]

\* README.md:23 has sky_rwlock packed by pthread_rwlock: a write lock would
\* exclude every other thread, those that use the same handle included.
PthreadExclusion ==
    \A t, u \in Thread, g \in Open : t # u => ~(Holds(t, g, "ex") /\ Holds(u, g, "ex"))
=============================================================================
