-------------------------- MODULE SkyProcessProofs --------------------------
(* Proofs about the instance lock: for any number of processes, of open      *)
(* files and of forks there is one first instance, and it has the lock.      *)
(*                                                                           *)
(* InstanceLock is not inductive.  A newcomer gets the lock only if nobody   *)
(* has it, so there is never more than one (LockAlone), and those who were   *)
(* told to be first hold that one (ToldHolds).  That nobody else comes to    *)
(* hold what a newcomer locks needs that its description is its own (Fresh). *)
(* That a lock outlives a process only in one that was told, or in another   *)
(* program, needs that a program that has it was told (HolderTold), and that *)
(* what is not running has nothing (Quiet).                                  *)
EXTENDS SkyProcess, TLAPS

Types ==
    /\ lock \in [Desc -> BOOLEAN] /\ files \in [Proc -> SUBSET Desc]
    /\ run \in [Proc -> {"none", "program", "other"}]
    /\ run_in_background \in [Proc -> BOOLEAN]
    /\ pc \in [Proc -> {"idle", "flock", "forked", "detach"}]
    /\ fd \in [Proc -> Desc \cup {None}] /\ told \in [Proc -> Desc \cup {None}]
    /\ \A p \in Proc : IF pc[p] = "flock" THEN fd[p] \in files[p] ELSE fd[p] = None

LockAlone == \A d, e \in Desc : lock[d] /\ lock[e] => d = e

ToldHolds == \A p \in Proc : told[p] # None => told[p] \in files[p] /\ lock[told[p]]

Fresh == \A p \in Proc :
            pc[p] = "flock" => \A q \in Proc \ {p} : fd[p] \notin files[q]

HolderTold == \A p \in Proc : \A d \in files[p] :
                 run[p] = "program" /\ lock[d] => told[p] = d

LockHeld == \A d \in Desc : lock[d] => \E p \in Proc : d \in files[p]

\* Only programs make calls, and a process that is none has nothing.
Quiet == \A p \in Proc :
            /\ run[p] # "program" => pc[p] = "idle" /\ told[p] = None
            /\ run[p] = "none" => files[p] = {}

IInv == /\ Types /\ LockAlone /\ ToldHolds /\ Fresh /\ HolderTold /\ LockHeld /\ Quiet

LEMMA InvImplies == ASSUME ProcessAssumption, IInv PROVE InstanceLock
<1> USE DEF IInv, Types
<1>1. TypeOK
  BY DEF TypeOK, Open, LockHeld
<1>2. OneInstance
  BY DEF OneInstance, Alive, ToldHolds, LockAlone
<1>3. InstanceKeepsLock
  BY DEF InstanceKeepsLock, Alive, ToldHolds
<1>4. LockFollowsInstance
  <2> SUFFICES ASSUME NEW d \in Desc, lock[d]
               PROVE  \E p \in Alive : told[p] = d \/ (run[p] = "other" /\ d \in files[p])
    BY DEF LockFollowsInstance
  <2>1. PICK p \in Proc : d \in files[p]
    BY DEF LockHeld
  <2> QED BY <2>1 DEF Alive, Quiet, HolderTold
<1> QED BY <1>1, <1>2, <1>3, <1>4 DEF InstanceLock

LEMMA InitInv == Init => IInv
BY DEF Init, IInv, Types, LockAlone, ToldHolds, Fresh, HolderTold, LockHeld, Quiet

\* The end of a process, by itself, by a signal or as daemon's parent, takes
\* its copies with it and leaves all other processes as they are.
LEMMA EndKeepsInv ==
  ASSUME IInv, NEW p \in Proc, End(p)
  PROVE  IInv'
<1> USE DEF IInv
<1>1. \A d \in Desc : lock'[d] => lock[d] /\ \E q \in Proc \ {p} : d \in files[q]
  BY DEF End
<1>2. \A q \in Proc \ {p} : /\ files'[q] = files[q] /\ told'[q] = told[q] /\ run'[q] = run[q]
                            /\ pc'[q] = pc[q] /\ fd'[q] = fd[q]
  BY DEF End, Types
<1>3. /\ files'[p] = {} /\ told'[p] = None /\ run'[p] = "none"
      /\ pc'[p] = "idle" /\ fd'[p] = None
  BY DEF End, Types
<1>4. Types'
  BY <1>2, <1>3 DEF End, Types
<1>5. ToldHolds'
  <2> SUFFICES ASSUME NEW q \in Proc \ {p}, told[q] # None
               PROVE  told[q] \in files[q] /\ lock'[told[q]]
    BY <1>2, <1>3 DEF ToldHolds
  <2>1. told[q] \in files[q] /\ lock[told[q]] /\ told[q] \in Desc
    BY DEF ToldHolds, Types
  <2> QED BY <2>1 DEF End
<1>6. LockAlone' /\ HolderTold' /\ LockHeld'
  BY <1>1, <1>2, <1>3, <1>4 DEF Types, LockAlone, HolderTold, LockHeld
<1>7. Fresh' /\ Quiet'
  BY <1>2, <1>3 DEF Fresh, Quiet
<1> QED BY <1>4, <1>5, <1>6, <1>7

\* A process q comes into the world with the descriptors that p has, by fork
\* and perhaps exec.
LEMMA SpawnKeepsInv ==
  ASSUME IInv, NEW p \in Proc, NEW q \in Proc, Spawn(p, q)
  PROVE  IInv'
<1> USE DEF IInv
<1>1. run[p] = "program" /\ pc[p] = "idle" /\ run[q] = "none" /\ p # q
  BY DEF Spawn, Idle, Alive
<1>2. Types'
  BY <1>1 DEF Spawn, Types, Quiet
<1>3. \A r \in Proc \ {q} : files'[r] = files[r] /\ run'[r] = run[r]
  BY DEF Spawn, Types
<1>4. files'[q] = files[p] /\ run'[q] = "other" /\ UNCHANGED <<lock, pc, fd, told>>
  BY DEF Spawn, Types
<1>5. pc[q] = "idle" /\ told[q] = None
  BY <1>1 DEF Quiet
<1>6. LockAlone' /\ ToldHolds' /\ HolderTold'
  BY <1>3, <1>4, <1>5 DEF LockAlone, ToldHolds, HolderTold
<1>7. LockHeld'
  <2> SUFFICES ASSUME NEW d \in Desc, lock[d]
               PROVE  \E r \in Proc : d \in files'[r]
    BY <1>4 DEF LockHeld
  <2>1. PICK r \in Proc : d \in files[r]
    BY DEF LockHeld
  <2> QED BY <1>1, <1>3, <2>1 DEF Quiet
<1>8. Fresh'
  BY <1>1, <1>3, <1>4, <1>5 DEF Fresh
<1>9. Quiet'
  BY <1>3, <1>4, <1>5 DEF Quiet
<1> QED BY <1>2, <1>6, <1>7, <1>8, <1>9

\* The same for daemon's fork: the child is told what its parent was told.
LEMMA ForkKeepsInv ==
  ASSUME IInv, NEW p \in Proc, NEW q \in Proc, sky_process_set_run_in_background(p, q)
  PROVE  IInv'
<1> USE DEF IInv, sky_process_set_run_in_background
<1>1. run[p] = "program" /\ pc[p] = "idle" /\ run[q] = "none" /\ p # q
  BY DEF Fork, Idle, Alive
<1>2. \A r \in Proc \ {q} : files'[r] = files[r] /\ run'[r] = run[r] /\ told'[r] = told[r]
  BY DEF Fork, Types
<1>3. /\ files'[q] = files[p] /\ run'[q] = "program" /\ told'[q] = told[p]
      /\ UNCHANGED <<lock, fd>>
  BY DEF Fork, Types
<1>4. /\ pc'[p] = "forked" /\ pc'[q] = "detach"
      /\ \A r \in Proc \ {p, q} : pc'[r] = pc[r]
  BY <1>1 DEF Fork, Types
<1>5. pc[q] = "idle"
  BY <1>1 DEF Quiet
<1>6. Types'
  BY <1>1, <1>2, <1>3, <1>4, <1>5 DEF Fork, Types
<1>7. LockAlone' /\ ToldHolds' /\ HolderTold'
  BY <1>1, <1>2, <1>3 DEF LockAlone, ToldHolds, HolderTold
<1>8. LockHeld'
  <2> SUFFICES ASSUME NEW d \in Desc, lock[d]
               PROVE  \E r \in Proc : d \in files'[r]
    BY <1>3 DEF LockHeld
  <2>1. PICK r \in Proc : d \in files[r]
    BY DEF LockHeld
  <2> QED BY <1>1, <1>2, <2>1 DEF Quiet
<1>9. Fresh'
  BY <1>1, <1>2, <1>3, <1>4, <1>5 DEF Fresh
<1>10. Quiet'
  BY <1>1, <1>2, <1>3, <1>4 DEF Quiet
<1> QED BY <1>6, <1>7, <1>8, <1>9, <1>10

\* open makes a description that nobody else has, and that is not locked.
LEMMA OpenKeepsInv ==
  ASSUME IInv, NEW p \in Proc, sky_process_is_first_instance(p)
  PROVE  IInv'
<1> USE DEF IInv
<1>1. PICK d \in Desc \ Open : /\ files' = [files EXCEPT ![p] = @ \cup {d}]
                               /\ fd' = [fd EXCEPT ![p] = d]
  BY DEF sky_process_is_first_instance
<1>2. /\ run[p] = "program" /\ pc[p] = "idle" /\ pc' = [pc EXCEPT ![p] = "flock"]
      /\ UNCHANGED <<lock, run, run_in_background, told>>
  BY DEF sky_process_is_first_instance, Idle
<1>3. \A q \in Proc : d \notin files[q]
  BY DEF Open
<1>4. ~lock[d]
  BY <1>3 DEF LockHeld
<1>5. Types'
  BY <1>1, <1>2 DEF Types
<1>6. \A q \in Proc \ {p} : files'[q] = files[q] /\ pc'[q] = pc[q] /\ fd'[q] = fd[q]
  BY <1>1, <1>2 DEF Types
<1>7. files'[p] = files[p] \cup {d} /\ pc'[p] = "flock" /\ fd'[p] = d
  BY <1>1, <1>2 DEF Types
<1>8. LockAlone' /\ ToldHolds'
  BY <1>2, <1>6, <1>7 DEF LockAlone, ToldHolds
<1>9. HolderTold' /\ Quiet'
  BY <1>2, <1>4, <1>6, <1>7 DEF HolderTold, Quiet
<1>10. LockHeld'
  BY <1>2, <1>6, <1>7 DEF LockHeld
<1>11. Fresh'
  <2> SUFFICES ASSUME NEW r \in Proc, pc'[r] = "flock", NEW q \in Proc \ {r}
               PROVE  fd'[r] \notin files'[q]
    BY DEF Fresh
  <2>1. CASE r = p
    BY <1>3, <1>6, <1>7, <2>1
  <2>2. CASE r # p
    <3>1. pc[r] = "flock" /\ fd'[r] = fd[r] /\ fd[r] \in files[r]
      BY <1>6, <2>2 DEF Types
    <3> QED BY <1>3, <1>6, <1>7, <3>1 DEF Fresh
  <2> QED BY <2>1, <2>2
<1> QED BY <1>5, <1>8, <1>9, <1>10, <1>11

\* flock locks a description that nobody else has, when nothing is locked, or
\* changes nothing.
LEMMA FlockKeepsInv ==
  ASSUME IInv, ProcessAssumption, NEW p \in Proc, Flock(p)
  PROVE  IInv'
<1> USE DEF IInv
<1>1. /\ pc[p] = "flock" /\ run[p] = "program" /\ fd[p] \in Desc /\ fd[p] \in files[p]
      /\ UNCHANGED <<files, run, run_in_background>>
      /\ pc' = [pc EXCEPT ![p] = "idle"] /\ fd' = [fd EXCEPT ![p] = None]
  BY DEF Flock, Types, Quiet
<1>2. Fresh'
  BY <1>1 DEF Fresh, Types
<1>3. CASE UNCHANGED <<lock, told>>
  <2>1. Types'
    BY <1>1, <1>3 DEF Types
  <2>2. LockAlone' /\ ToldHolds' /\ HolderTold' /\ LockHeld'
    BY <1>1, <1>3 DEF LockAlone, ToldHolds, HolderTold, LockHeld
  <2>3. Quiet'
    BY <1>1, <1>3 DEF Quiet, Types
  <2> QED BY <1>2, <2>1, <2>2, <2>3
<1>4. CASE /\ \A d \in Desc : ~lock[d]
           /\ lock' = [lock EXCEPT ![fd[p]] = TRUE]
           /\ told' = [told EXCEPT ![p] = fd[p]]
  <2>1. Types'
    BY <1>1, <1>4 DEF Types
  <2>2. /\ lock'[fd[p]] /\ \A d \in Desc \ {fd[p]} : ~lock'[d]
        /\ told'[p] = fd[p] /\ \A q \in Proc \ {p} : told'[q] = told[q]
    BY <1>1, <1>4 DEF Types
  <2>3. \A q \in Proc : told[q] = None
    BY <1>4 DEF ToldHolds, Types
  <2>4. LockAlone' /\ ToldHolds' /\ LockHeld'
    BY <1>1, <2>2, <2>3 DEF LockAlone, ToldHolds, LockHeld
  <2>5. HolderTold'
    BY <1>1, <2>1, <2>2 DEF HolderTold, Fresh, Types
  <2>6. Quiet'
    BY <1>1, <2>2 DEF Quiet, Types
  <2> QED BY <1>2, <2>1, <2>4, <2>5, <2>6
<1> QED BY <1>3, <1>4 DEF Flock

LEMMA NextInv == ProcessAssumption /\ IInv /\ [Next]_vars => IInv'
<1> SUFFICES ASSUME ProcessAssumption, IInv, [Next]_vars PROVE IInv'
  OBVIOUS
<1>1. ASSUME NEW p \in Proc, Start(p) PROVE IInv'
  <2>1. run[p] = "none" /\ run' = [run EXCEPT ![p] = "program"]
        /\ UNCHANGED <<lock, files, run_in_background, pc, fd, told>>
    BY <1>1 DEF Start, Alive
  <2>2. files[p] = {}
    BY <2>1 DEF IInv, Quiet
  <2>3. Types'
    BY <2>1 DEF IInv, Types
  <2>4. LockAlone' /\ ToldHolds' /\ Fresh' /\ LockHeld'
    BY <2>1 DEF IInv, LockAlone, ToldHolds, Fresh, LockHeld
  <2>5. HolderTold' /\ Quiet'
    BY <2>1, <2>2 DEF IInv, Types, HolderTold, Quiet
  <2> QED BY <2>3, <2>4, <2>5 DEF IInv
<1>2. ASSUME NEW p \in Proc, Exit(p) \/ ParentExits(p) PROVE IInv'
  BY <1>2, EndKeepsInv DEF Exit, ParentExits
<1>3. ASSUME NEW p \in Proc, sky_process_is_first_instance(p) PROVE IInv'
  BY <1>3, OpenKeepsInv
<1>4. ASSUME NEW p \in Proc, Flock(p) PROVE IInv'
  BY <1>4, FlockKeepsInv
<1>5. ASSUME NEW p \in Proc, Detach(p) PROVE IInv'
  <2>1. /\ run[p] = "program" /\ pc' = [pc EXCEPT ![p] = "idle"]
        /\ UNCHANGED <<lock, files, run, fd, told>>
    BY <1>5 DEF Detach, IInv, Quiet
  <2>2. Types'
    BY <1>5, <2>1 DEF Detach, IInv, Types
  <2>3. LockAlone' /\ ToldHolds' /\ HolderTold' /\ LockHeld'
    BY <2>1 DEF IInv, LockAlone, ToldHolds, HolderTold, LockHeld
  <2>4. Fresh' /\ Quiet'
    BY <2>1 DEF IInv, Types, Fresh, Quiet
  <2> QED BY <2>2, <2>3, <2>4 DEF IInv
<1>6. ASSUME NEW p \in Proc, NEW q \in Proc,
             sky_process_set_run_in_background(p, q) \/ Spawn(p, q)
      PROVE  IInv'
  BY <1>6, ForkKeepsInv, SpawnKeepsInv
<1>7. CASE UNCHANGED vars
  BY <1>7 DEF vars, IInv, Types, LockAlone, ToldHolds, Fresh, HolderTold, LockHeld, Quiet
<1> QED BY <1>1, <1>2, <1>3, <1>4, <1>5, <1>6, <1>7 DEF Next

\* sky_process_is_first_instance and the way into the background (sky_process.c:
\* 42-122): at no moment are there two first instances; the first instance has
\* the lock through fork and exit; and when it has ended, only a program that it
\* started can still have it.
THEOREM FirstInstanceAlone == ASSUME ProcessAssumption PROVE Spec => []InstanceLock
<1>1. Init => IInv
  BY InitInv
<1>2. IInv /\ [Next]_vars => IInv'
  BY NextInv
<1>3. IInv => InstanceLock
  BY InvImplies
<1> QED BY <1>1, <1>2, <1>3, PTL DEF Spec
=============================================================================
