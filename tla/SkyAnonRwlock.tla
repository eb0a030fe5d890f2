--------------------------- MODULE SkyAnonRwlock ---------------------------
(* src/sky/src/sky_rwlock.c, the anonymous lock: sky_rwlock_create( NULL )   *)
(* wraps a pthread_rwlock_t that the threads of one process share.  A timed  *)
(* call turns its timeout into a time of the wall clock (sky_abstime_after_  *)
(* msec in sky_sys.c), and anybody may set that clock while the call waits.  *)
(*                                                                           *)
(* wall is the fraction of the wall clock's second and a deadline counts its *)
(* seconds from the current one, so that time can pass for ever.  The lock   *)
(* prefers readers and refuses a second lock to its writer, as glibc's does. *)
(*                                                                           *)
(* age, ahead and back are history variables; a definition named for a fault *)
(* (AbstimeWithoutCarry) is a variant of the one that follows it and no      *)
(* action uses it.                                                           *)
EXTENDS Integers

CONSTANTS Thread, None,
          Second,    \* milliseconds in a second: 1000 in the program
          Timeouts,  \* bound: the finite timeouts callers pass
          Slack,     \* bound: how late a sleeper is scheduled
          MaxRead,   \* bound: read locks of a thread at once
          Jumps,     \* bound: by how much the clock is set
          MaxJumps   \* bound: how often it is set

AnonAssumption ==
    /\ None \notin Thread \cup {"it"}
    /\ Second \in Nat \ {0} /\ Timeouts \subseteq Nat \ {0}
    /\ Slack \in Nat /\ MaxRead \in Nat /\ Jumps \subseteq Int /\ MaxJumps \in Nat

VARIABLES
    live,             \* does the lock exist?
    readers, writer,  \* the pthread_rwlock_t: how often each thread reads
    pc, mode, timeout, deadline,  \* a thread's call
    wall, jumps,      \* the clock's fraction of a second, how often it was set
    age, ahead, back  \* of a timed call: its length, how far the clock was set

lock == <<live, readers, writer>>
history == <<age, ahead, back>>
call == <<pc, mode, timeout, deadline, history>>
vars == <<lock, call, wall, jumps>>

SKY_INFINITE == -1
NoDeadline == [sec |-> 0, msec |-> 0]

Init == /\ live = FALSE /\ readers = [t \in Thread |-> 0] /\ writer = None
        /\ pc = [t \in Thread |-> "idle"] /\ mode = [t \in Thread |-> "none"]
        /\ timeout = [t \in Thread |-> 0] /\ deadline = [t \in Thread |-> NoDeadline]
        /\ wall = 0 /\ jumps = 0
        /\ age = [t \in Thread |-> 0] /\ ahead = [t \in Thread |-> 0]
        /\ back = [t \in Thread |-> 0]
----------------------------------------------------------------------------
(* The deadline *)

AbstimeWithoutCarry(milliseconds) ==
    [sec |-> milliseconds \div Second, msec |-> (wall + (milliseconds % Second)) % Second]

sky_abstime_after_msec(milliseconds) ==
    LET msec == wall + (milliseconds % Second) IN
    [sec |-> milliseconds \div Second + msec \div Second, msec |-> msec % Second]

Left(t) == deadline[t].sec * Second + deadline[t].msec - wall
----------------------------------------------------------------------------
(* pthread_rwlock_t *)

Free(t, m) == IF m = "sh" THEN writer = None
              ELSE writer = None /\ \A u \in Thread : readers[u] = 0

Grant(t, m) == IF m = "sh" THEN readers' = [readers EXCEPT ![t] = @ + 1] /\ UNCHANGED writer
                           ELSE writer' = t /\ UNCHANGED readers

Return(t) == /\ pc' = [pc EXCEPT ![t] = "idle"] /\ mode' = [mode EXCEPT ![t] = "none"]
             /\ timeout' = [timeout EXCEPT ![t] = 0]
             /\ deadline' = [deadline EXCEPT ![t] = NoDeadline]
             /\ age' = [age EXCEPT ![t] = 0] /\ ahead' = [ahead EXCEPT ![t] = 0]
             /\ back' = [back EXCEPT ![t] = 0]
----------------------------------------------------------------------------
sky_rwlock_create ==
    /\ ~live
    /\ live' = TRUE
    /\ UNCHANGED <<readers, writer, call, wall, jumps>>

\* By a caller that knows that nobody uses the lock.
sky_rwlock_destroy ==
    /\ live /\ writer = None
    /\ \A t \in Thread : pc[t] = "idle" /\ readers[t] = 0
    /\ live' = FALSE
    /\ UNCHANGED <<readers, writer, call, wall, jumps>>

\* wrlock and rdlock are the same code around the two kinds of pthread calls.
Lock(t, m, ms) ==
    /\ pc[t] = "idle" /\ live /\ (m = "sh" => readers[t] < MaxRead)
    /\ pc' = [pc EXCEPT ![t] = IF ms = 0 THEN "try" ELSE "wait"]
    /\ mode' = [mode EXCEPT ![t] = m]
    /\ timeout' = [timeout EXCEPT ![t] = ms]
    /\ deadline' = [deadline EXCEPT ![t] =
                       IF ms \in Timeouts THEN sky_abstime_after_msec(ms) ELSE NoDeadline]
    /\ UNCHANGED <<lock, history, wall, jumps>>

sky_rwlock_wrlock(t, ms) == Lock(t, "ex", ms)
sky_rwlock_rdlock(t, ms) == Lock(t, "sh", ms)

GrantedToReaders(t) ==
    /\ pc[t] \in {"try", "wait"} /\ writer = None
    /\ Grant(t, mode[t])
    /\ Return(t)
    /\ UNCHANGED <<live, wall, jumps>>

Granted(t) ==
    /\ pc[t] \in {"try", "wait"} /\ Free(t, mode[t])
    /\ Grant(t, mode[t])
    /\ Return(t)
    /\ UNCHANGED <<live, wall, jumps>>

\* EBUSY of a try, EDEADLK when the writer asks again, EINVAL when the
\* deadline is no time: the call returns false.
Refused(t) ==
    /\ \/ pc[t] = "try" /\ ~Free(t, mode[t])
       \/ pc[t] = "wait" /\ writer = t
       \/ pc[t] = "wait" /\ deadline[t].msec \notin 0..(Second - 1)
    /\ Return(t)
    /\ UNCHANGED <<lock, wall, jumps>>

TimedOut(t) ==
    /\ pc[t] = "wait" /\ timeout[t] \in Timeouts /\ ~Free(t, mode[t])
    /\ Left(t) <= 0
    /\ Return(t)
    /\ UNCHANGED <<lock, wall, jumps>>

\* A thread gives back what it was granted; anything else is undefined.
sky_rwlock_unlock(t) ==
    /\ pc[t] = "idle"
    /\ \/ writer = t /\ writer' = None /\ UNCHANGED readers
       \/ readers[t] > 0 /\ readers' = [readers EXCEPT ![t] = @ - 1] /\ UNCHANGED writer
    /\ UNCHANGED <<live, call, wall, jumps>>
----------------------------------------------------------------------------
(* Time *)

Timed(t) == pc[t] = "wait" /\ timeout[t] \in Timeouts

\* The wall clock goes to wall + ms and the deadlines stay where they are.
MoveClock(ms) ==
    /\ wall' = (wall + ms) % Second
    /\ deadline' = [t \in Thread |->
          IF Timed(t) THEN [deadline[t] EXCEPT !.sec = @ - (wall + ms) \div Second]
                      ELSE deadline[t]]

\* One millisecond.  A call whose time is up returns after at most Slack more.
Tick ==
    /\ \A t \in Thread : Timed(t) => Left(t) > -Slack
    /\ MoveClock(1)
    /\ age' = [t \in Thread |-> IF Timed(t) THEN age[t] + 1 ELSE 0]
    /\ UNCHANGED <<lock, pc, mode, timeout, ahead, back, jumps>>

\* Anybody sets the clock (sky_time_set is meant to).
SetClock(ms) ==
    /\ jumps < MaxJumps /\ jumps' = jumps + 1
    /\ MoveClock(ms)
    /\ ahead' = [t \in Thread |-> IF Timed(t) /\ ms > 0 THEN ahead[t] + ms ELSE ahead[t]]
    /\ back' = [t \in Thread |-> IF Timed(t) /\ ms < 0 THEN back[t] - ms ELSE back[t]]
    /\ UNCHANGED <<lock, pc, mode, timeout, age>>
----------------------------------------------------------------------------
Step(t) == Granted(t) \/ Refused(t) \/ TimedOut(t)

Next == \/ sky_rwlock_create \/ sky_rwlock_destroy \/ Tick
        \/ \E ms \in Jumps : SetClock(ms)
        \/ \E t \in Thread :
              \/ Step(t) \/ sky_rwlock_unlock(t)
              \/ \E ms \in Timeouts \cup {0, SKY_INFINITE} :
                    sky_rwlock_wrlock(t, ms) \/ sky_rwlock_rdlock(t, ms)

Spec == Init /\ [][Next]_vars
\* Time passes, and a thread that can run runs.
FairSpec == Spec /\ WF_vars(Tick) /\ \A t \in Thread : WF_vars(Step(t))
----------------------------------------------------------------------------
(* Properties *)

\* Every variable has its type; a deadline is always a valid timespec, which
\* the pthread calls insist on.
TypeOK ==
    /\ live \in BOOLEAN /\ readers \in [Thread -> 0..MaxRead] /\ writer \in Thread \cup {None}
    /\ pc \in [Thread -> {"idle", "try", "wait"}]
    /\ mode \in [Thread -> {"none", "sh", "ex"}]
    /\ timeout \in [Thread -> Timeouts \cup {0, SKY_INFINITE}]
    /\ \A t \in Thread : deadline[t].sec \in Int /\ deadline[t].msec \in 0..(Second - 1)
    /\ wall \in 0..(Second - 1) /\ jumps \in 0..MaxJumps
    /\ \A h \in {age, ahead, back} : h \in [Thread -> Nat]

\* A timed call waits no longer than its timeout, plus what the wall clock was
\* set back in the meantime.
DeadlineKept ==
    \A t \in Thread : Timed(t) => age[t] <= timeout[t] + back[t] + Slack

GivesUp(t) == Timed(t) /\ pc'[t] = "idle" /\ readers'[t] = readers[t] /\ writer' # t

\* A timed call gives up only after its timeout, less what the wall clock was
\* set ahead, unless its own thread has the write lock.
NotGivenUpEarly ==
    [][\A t \in Thread : GivesUp(t) /\ writer # t =>
          age[t] + ahead[t] >= timeout[t]]_vars

\* What a timeout promises, with a clock that anybody may set (sky_rwlock.c:
\* 205-209 and 260-264, sky_sys.c:280-307).
RwlockKeepsTime == []TypeOK /\ []DeadlineKept /\ NotGivenUpEarly

\* A timed call returns, whatever the holder of the lock does.
TimedReturns == \A t \in Thread : Timed(t) ~> pc[t] = "idle"

\* The anonymous lock is a readers-writer lock with the threads as clients.
Abstract == INSTANCE SkyRwlockSpec WITH
    Client <- Thread, LockId <- {"it"},
    on <- [t \in Thread |-> IF live THEN "it" ELSE None],
    mode <- [t \in Thread |-> IF writer = t THEN "ex" ELSE IF readers[t] > 0 THEN "sh" ELSE "none"]

RwlockImplementsLock == Abstract!Spec
=============================================================================
