------------------------------ MODULE MCSkyIpc ------------------------------
(* What threads and processes have to get out of again: the timed calls of   *)
(* named locks, and the critical section around the registry of shared       *)
(* memory.  They share nothing, so each behaviour runs one of them, the      *)
(* part, and the states are the sum of theirs.  The locks are those of       *)
(* SkyRwlock, as it stands, with a clock of a few ticks that wraps during    *)
(* the calls; the registry is that of one process with the same threads.     *)
EXTENDS SkyRwlock

CONSTANTS Proc, Name, Object, MaxCount  \* of shared memory

VARIABLES part,
    shNs, shSize, shSm, shUp, shList, shCs, shKnown, shPc, shOp, shH, shStSize, shOk,
    shRobbed, shAbandoned

shVars == <<shNs, shSize, shSm, shUp, shList, shCs, shKnown, shPc, shOp, shH, shStSize, shOk,
            shRobbed, shAbandoned>>
allVars == <<part, vars, shVars>>

Shm == INSTANCE SkyShm WITH
    ProcOf <- [t \in Thread |-> CHOOSE p \in Proc : TRUE],
    ns <- shNs, size <- shSize, sm <- shSm, up <- shUp, list <- shList, cs <- shCs,
    known <- shKnown, pc <- shPc, op <- shOp, h <- shH, st_size <- shStSize, ok <- shOk,
    robbed <- shRobbed, abandoned <- shAbandoned

ASSUME IpcAssumption == Shm!ShmAssumption

InRwlock(A) == part = "rwlock" /\ A /\ UNCHANGED <<part, shVars>>
InShm(A) == part = "shm" /\ A /\ UNCHANGED <<part, vars>>

IpcInit == part \in {"rwlock", "shm"} /\ Init /\ Shm!Init
IpcNext == InRwlock(Next) \/ InShm(Shm!Next)

\* Time passes, and a thread that can run runs; a part that does not run
\* enables nothing.
StepOf(t) == InRwlock(Step(t)) \/ InShm(Shm!Step(t))
IpcSpec == /\ IpcInit /\ [][IpcNext]_allVars
           /\ WF_allVars(InRwlock(Tick)) /\ \A t \in Thread : WF_allVars(StepOf(t))
----------------------------------------------------------------------------
(* Properties *)

\* A timed call on a named lock returns, and so does one that does not wait and
\* a destroy, whatever the holder of the lock does (sky_rwlock.c:134-269); and
\* the critical section of the registry is left, whichever way the operation
\* in it went (sky_ipc_shm.c:145-151, 259-265, 310-312).
Held(t) == MustReturn(t) \/ Shm!InRegistry(t)
CallsEnd == \A t \in Thread : Held(t) ~> ~Held(t)
=============================================================================
