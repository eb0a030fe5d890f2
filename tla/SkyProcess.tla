----------------------------- MODULE SkyProcess -----------------------------
(* src/sky/src/sky_process.c: a process asks whether it is the first one of  *)
(* its name by locking a file, and goes into the background with daemon(3).  *)
(*                                                                           *)
(* The lock belongs to the open file description.  sky_process_is_first_     *)
(* instance keeps no descriptor and closes none, so the lock lasts as long   *)
(* as any process has a copy of the descriptor: the caller, the child that   *)
(* daemon leaves behind, and every program the caller starts, as the file is *)
(* not opened with O_CLOEXEC.  Only closing ends it, that is, the end of     *)
(* these processes.  One name is modelled: different names share nothing.    *)
(*                                                                           *)
(* A call that fails before it changes anything is a stuttering step.  told  *)
(* is a history variable; a definition named for a fault (DaemonClosesFiles) *)
(* is a variant of the one that follows it and no action uses it.            *)
EXTENDS Naturals, FiniteSets

CONSTANTS Proc,   \* bound: processes that exist at once
          Desc,   \* bound: open file descriptions at once
          None,
          MaxOpen \* bound: descriptors of a process, RLIMIT_NOFILE

ProcessAssumption == None \notin Desc /\ MaxOpen \in Nat

VARIABLES
    lock,               \* is the description's file locked through it?
    files,              \* the descriptions each process has open
    run,                \* "none", "program" (calls the library) or "other"
    run_in_background,
    pc, fd,             \* a call of a process and its descriptor
    told                \* the description that made the process the first one

vars == <<lock, files, run, run_in_background, pc, fd, told>>

Alive == {p \in Proc : run[p] # "none"}
Open == UNION {files[p] : p \in Proc}

Init == /\ lock = [d \in Desc |-> FALSE] /\ files = [p \in Proc |-> {}]
        /\ run = [p \in Proc |-> "none"]
        /\ run_in_background = [p \in Proc |-> FALSE]
        /\ pc = [p \in Proc |-> "idle"] /\ fd = [p \in Proc |-> None]
        /\ told = [p \in Proc |-> None]

Idle(p) == run[p] = "program" /\ pc[p] = "idle"
----------------------------------------------------------------------------
(* Processes *)

Start(p) ==
    /\ p \notin Alive
    /\ run' = [run EXCEPT ![p] = "program"]
    /\ UNCHANGED <<lock, files, run_in_background, pc, fd, told>>

\* The end of a process closes its descriptors; a description that no process
\* has left is gone, and its lock with it.
End(p) ==
    /\ run' = [run EXCEPT ![p] = "none"]
    /\ files' = [files EXCEPT ![p] = {}]
    /\ lock' = [d \in Desc |-> lock[d] /\ \E q \in Proc \ {p} : d \in files[q]]
    /\ run_in_background' = [run_in_background EXCEPT ![p] = FALSE]
    /\ pc' = [pc EXCEPT ![p] = "idle"] /\ fd' = [fd EXCEPT ![p] = None]
    /\ told' = [told EXCEPT ![p] = None]

\* At any moment, in a call as well.
Exit(p) == p \in Alive /\ End(p)

\* The program starts another program, which inherits the descriptors.
Spawn(p, q) ==
    /\ Idle(p) /\ q \notin Alive
    /\ run' = [run EXCEPT ![q] = "other"]
    /\ files' = [files EXCEPT ![q] = files[p]]
    /\ UNCHANGED <<lock, run_in_background, pc, fd, told>>
----------------------------------------------------------------------------
(* The library *)

\* open of the file, ...
sky_process_is_first_instance(p) ==
    /\ Idle(p) /\ Cardinality(files[p]) < MaxOpen
    /\ \E d \in Desc \ Open :
          /\ files' = [files EXCEPT ![p] = @ \cup {d}]
          /\ fd' = [fd EXCEPT ![p] = d]
    /\ pc' = [pc EXCEPT ![p] = "flock"]
    /\ UNCHANGED <<lock, run, run_in_background, told>>

\* ... and flock with LOCK_EX and LOCK_NB, which fails when the file is locked,
\* by this process as well, and may fail for other reasons.  The descriptor
\* stays open whatever the answer is.
Flock(p) ==
    /\ pc[p] = "flock"
    /\ \/ /\ \A d \in Desc : ~lock[d]
          /\ lock' = [lock EXCEPT ![fd[p]] = TRUE]
          /\ told' = [told EXCEPT ![p] = fd[p]]
       \/ UNCHANGED <<lock, told>>
    /\ pc' = [pc EXCEPT ![p] = "idle"] /\ fd' = [fd EXCEPT ![p] = None]
    /\ UNCHANGED <<files, run, run_in_background>>

\* daemon: fork, ...
Fork(p, q, inherited) ==
    /\ Idle(p) /\ q \notin Alive
    /\ run' = [run EXCEPT ![q] = "program"]
    /\ files' = [files EXCEPT ![q] = inherited]
    /\ run_in_background' = [run_in_background EXCEPT ![q] = run_in_background[p]]
    /\ pc' = [pc EXCEPT ![p] = "forked", ![q] = "detach"]
    /\ told' = [told EXCEPT ![q] = told[p]]
    /\ UNCHANGED <<lock, fd>>

DaemonClosesFiles(p, q) == Fork(p, q, {})

sky_process_set_run_in_background(p, q) == Fork(p, q, files[p])

\* ... the parent's _exit, ...
ParentExits(p) == pc[p] = "forked" /\ End(p)

\* ... and in the child setsid and /dev/null, which may fail: then it runs on
\* detached, and is told that it does not.
Detach(q) ==
    /\ pc[q] = "detach"
    /\ \E done \in BOOLEAN :
          run_in_background' = [run_in_background EXCEPT ![q] = @ \/ done]
    /\ pc' = [pc EXCEPT ![q] = "idle"]
    /\ UNCHANGED <<lock, files, run, fd, told>>
----------------------------------------------------------------------------
Next == \E p \in Proc :
          \/ Start(p) \/ Exit(p)
          \/ sky_process_is_first_instance(p) \/ Flock(p)
          \/ ParentExits(p) \/ Detach(p)
          \/ \E q \in Proc : sky_process_set_run_in_background(p, q) \/ Spawn(p, q)

Spec == Init /\ [][Next]_vars
----------------------------------------------------------------------------
(* Properties *)

\* Every variable has its type; what is locked, or being locked, is open.
TypeOK ==
    /\ lock \in [Desc -> BOOLEAN] /\ files \in [Proc -> SUBSET Desc]
    /\ run \in [Proc -> {"none", "program", "other"}]
    /\ run_in_background \in [Proc -> BOOLEAN]
    /\ pc \in [Proc -> {"idle", "flock", "forked", "detach"}]
    /\ fd \in [Proc -> Desc \cup {None}]
    /\ \A p \in Proc : IF pc[p] = "flock" THEN fd[p] \in files[p] ELSE fd[p] = None
    /\ told \in [Proc -> Desc \cup {None}]
    /\ \A d \in Desc : lock[d] => d \in Open

\* Two running processes that were told to be the first instance are one
\* program: one went into the background and left the other, on its way out.
OneInstance ==
    \A p, q \in Alive : told[p] # None /\ told[q] # None => told[p] = told[q]

\* The first instance has the lock as long as it runs, in the background too:
\* there is no moment between daemon's fork and the parent's end at which a
\* newcomer could get it.
InstanceKeepsLock ==
    \A p \in Alive : told[p] # None => told[p] \in files[p] /\ lock[told[p]]

\* When the first instance has ended, however it ended, the next one to ask is
\* the first again, unless a program it had started is still running.
LockFollowsInstance ==
    \A d \in Desc : lock[d] =>
        \E p \in Alive : told[p] = d \/ (run[p] = "other" /\ d \in files[p])

\* The instance lock as its callers rely on it (sky_process.c:42-122).
InstanceLock == TypeOK /\ OneInstance /\ InstanceKeepsLock /\ LockFollowsInstance
=============================================================================
