--------------------- MODULE SkyCriticalSectionProofs ---------------------
(* Proofs about the recursive critical section: for any number of threads    *)
(* and any depth of nesting it is the lock of SkyRwlockSpec.                 *)
(*                                                                           *)
(* BeliefIsMutex says all that the refinement needs, but a step preserves it *)
(* only if count and owner agree, which is TypeOK; and TypeOK needs to know  *)
(* that a thread that waits to enter has room for one level more (Room), and *)
(* that a mutex that is made is not a step back for its owner (Closed).      *)
EXTENDS SkyCriticalSection, TLAPS

Room == \A t \in Thread : pc[t] = "enter" => live /\ inside[t] < MaxDepth
Closed == ~live => owner = None

IInv == TypeOK /\ BeliefIsMutex /\ Room /\ Closed

LEMMA InitInv == Init => IInv
<1> SUFFICES ASSUME Init PROVE IInv
  OBVIOUS
<1>1. TypeOK
  <2>1. 0 \in 0..MaxDepth
    BY SectionAssumption
  <2> QED BY <2>1 DEF Init, TypeOK
<1>2. BeliefIsMutex
  BY SectionAssumption DEF Init, BeliefIsMutex
<1>3. Room /\ Closed
  BY DEF Init, Room, Closed
<1> QED BY <1>1, <1>2, <1>3 DEF IInv

\* A thread that becomes the owner, or is it, counts one level more.
LEMMA CountsKeepsInv ==
  ASSUME IInv, NEW t \in Thread, owner \in {None, t}, inside[t] < MaxDepth, live,
         live' = live, Counts(t),
         pc' = [pc EXCEPT ![t] = "idle"]
  PROVE  IInv'
<1>1. inside[t] = count
  BY SectionAssumption DEF IInv, TypeOK, BeliefIsMutex
<1>2. TypeOK'
  BY <1>1, SectionAssumption DEF IInv, TypeOK, Counts
<1>3. BeliefIsMutex'
  <2>1. \A u \in Thread \ {t} : inside[u] = 0
    BY SectionAssumption DEF IInv, TypeOK, BeliefIsMutex
  <2> QED BY <1>1, <2>1, SectionAssumption DEF IInv, TypeOK, BeliefIsMutex, Counts
<1>4. Room' /\ Closed'
  BY DEF IInv, TypeOK, Room, Closed, Counts
<1> QED BY <1>2, <1>3, <1>4 DEF IInv

LEMMA NextInv == IInv /\ [Next]_vars => IInv'
<1> SUFFICES ASSUME IInv, [Next]_vars PROVE IInv'
  OBVIOUS
<1>1. CASE sky_critical_section_create
  BY <1>1, SectionAssumption
     DEF IInv, TypeOK, BeliefIsMutex, Room, Closed, sky_critical_section_create
<1>2. CASE sky_critical_section_destroy
  BY <1>2 DEF IInv, TypeOK, BeliefIsMutex, Room, Closed, sky_critical_section_destroy
<1>3. ASSUME NEW t \in Thread, sky_critical_section_enter(t) PROVE IInv'
  BY <1>3 DEF IInv, TypeOK, BeliefIsMutex, Room, Closed, sky_critical_section_enter
<1>4. ASSUME NEW t \in Thread, Entered(t) PROVE IInv'
  <2>1. inside[t] < MaxDepth /\ live
    BY <1>4 DEF IInv, Room, Entered
  <2> QED BY <1>4, <2>1, CountsKeepsInv DEF Entered
<1>5. ASSUME NEW t \in Thread, sky_critical_section_try(t) PROVE IInv'
  <2>1. pc' = [pc EXCEPT ![t] = "idle"]
    BY <1>5 DEF IInv, TypeOK, sky_critical_section_try
  <2> QED BY <1>5, <2>1, CountsKeepsInv DEF sky_critical_section_try
<1>6. ASSUME NEW t \in Thread, sky_critical_section_leave(t) PROVE IInv'
  <2>1. inside[t] = count /\ count > 0
    BY <1>6, SectionAssumption
       DEF IInv, TypeOK, BeliefIsMutex, sky_critical_section_leave
  <2>2. TypeOK'
    BY <1>6, <2>1, SectionAssumption DEF IInv, TypeOK, sky_critical_section_leave
  <2>3. BeliefIsMutex'
    BY <1>6, <2>1, SectionAssumption
       DEF IInv, TypeOK, BeliefIsMutex, sky_critical_section_leave
  <2>4. Room' /\ Closed'
    BY <1>6, <2>1, SectionAssumption
       DEF IInv, TypeOK, Room, Closed, sky_critical_section_leave
  <2> QED BY <2>2, <2>3, <2>4 DEF IInv
<1>7. CASE UNCHANGED vars
  BY <1>7 DEF IInv, TypeOK, BeliefIsMutex, Room, Closed, vars
<1> QED BY <1>1, <1>2, <1>3, <1>4, <1>5, <1>6, <1>7 DEF Next

\* In every state of the critical section (sky_critical_section.c) its invariant
\* holds.
LEMMA InvHolds == Spec => []IInv
BY InitInv, NextInv, PTL DEF Spec

\* Every variable of the critical section keeps its type, and the mutex is free
\* when nobody counts on it.
THEOREM TypeCorrect == Spec => []TypeOK
<1>1. IInv => TypeOK
  BY DEF IInv
<1> QED BY <1>1, InvHolds, PTL

\* A thread is inside by its own count of enter, try and leave exactly when,
\* and as deep as, the mutex says so.
THEOREM BeliefTrue == Spec => []BeliefIsMutex
<1>1. IInv => BeliefIsMutex
  BY DEF IInv
<1> QED BY <1>1, InvHolds, PTL

Lock == {"it"}
LockOf == [t \in Thread |-> IF live THEN "it" ELSE None]
ModeOf == [t \in Thread |-> IF inside[t] > 0 THEN "ex" ELSE "none"]

\* The threads are outside except for the owner, who is inside.
LEMMA OnlyOwnerInside ==
  ASSUME IInv, NEW t \in Thread
  PROVE  inside[t] > 0 <=> owner = t
BY SectionAssumption DEF IInv, TypeOK, BeliefIsMutex

\* Taking the mutex is Take of the specification or, when nested, no step.
LEMMA CountsIsTake ==
  ASSUME IInv, NEW t \in Thread, live, owner \in {None, t}, live' = live, Counts(t)
  PROVE  [Abstract!Next]_(Abstract!vars)
<1> USE DEF LockOf, ModeOf
<1>1. inside' = [inside EXCEPT ![t] = inside[t] + 1] /\ inside[t] \in Nat
  BY DEF Counts, IInv, TypeOK
<1>2. LockOf' = LockOf
  OBVIOUS
<1>3. ModeOf' = [ModeOf EXCEPT ![t] = "ex"]
  <2>1. inside'[t] > 0 /\ \A u \in Thread \ {t} : inside'[u] = inside[u]
    BY <1>1 DEF IInv, TypeOK
  <2> QED BY <2>1
<1>4. \A u \in Thread \ {t} : ModeOf[u] = "none"
  BY OnlyOwnerInside, SectionAssumption
<1>5. LockOf[t] = "it" /\ "it" # None
  BY SectionAssumption
<1>6. Abstract!Take(t, "ex")
  BY <1>2, <1>3, <1>4, <1>5 DEF Abstract!Take, Abstract!Free
<1> QED BY <1>6 DEF Abstract!Next

\* Every step of the section is a step of the lock or none.
LEMMA NextImplements ==
  ASSUME IInv, [Next]_vars
  PROVE  [Abstract!Next]_(Abstract!vars)
<1> USE DEF LockOf, ModeOf
<1>1. CASE sky_critical_section_create
  <2>1. Abstract!Attach(Thread)
    BY <1>1 DEF sky_critical_section_create, Abstract!Attach
  <2> QED BY <2>1 DEF Abstract!Next
<1>2. CASE sky_critical_section_destroy
  <2>1. Abstract!Detach(Thread)
    BY <1>2 DEF sky_critical_section_destroy, Abstract!Detach
  <2> QED BY <2>1 DEF Abstract!Next
<1>3. ASSUME NEW t \in Thread, sky_critical_section_enter(t)
      PROVE  UNCHANGED Abstract!vars
  BY <1>3 DEF sky_critical_section_enter, Abstract!vars
<1>4. ASSUME NEW t \in Thread, Entered(t)
      PROVE  [Abstract!Next]_(Abstract!vars)
  <2>1. live
    BY <1>4 DEF IInv, Room, Entered
  <2> QED BY <1>4, <2>1, CountsIsTake DEF Entered
<1>5. ASSUME NEW t \in Thread, sky_critical_section_try(t)
      PROVE  [Abstract!Next]_(Abstract!vars)
  BY <1>5, CountsIsTake DEF sky_critical_section_try
<1>6. ASSUME NEW t \in Thread, sky_critical_section_leave(t)
      PROVE  [Abstract!Next]_(Abstract!vars)
  <2>1. inside[t] \in Nat /\ inside[t] > 0
    BY <1>6, OnlyOwnerInside DEF IInv, TypeOK, sky_critical_section_leave
  <2>2. inside' = [inside EXCEPT ![t] = inside[t] - 1]
    BY <1>6 DEF sky_critical_section_leave
  <2>3. LockOf' = LockOf
    BY <1>6 DEF sky_critical_section_leave
  <2>4. CASE inside[t] = 1
    <3>1. ~(inside'[t] > 0) /\ \A u \in Thread \ {t} : inside'[u] = inside[u]
      BY <2>2, <2>4 DEF IInv, TypeOK
    <3>2. ModeOf' = [ModeOf EXCEPT ![t] = "none"]
      BY <3>1
    <3>3. Abstract!GiveUp(t)
      BY <2>3, <3>2 DEF Abstract!GiveUp
    <3> QED BY <3>3 DEF Abstract!Next
  <2>5. CASE inside[t] > 1
    <3>1. ModeOf' = ModeOf
      BY <2>1, <2>2, <2>5 DEF IInv, TypeOK
    <3> QED BY <2>3, <3>1 DEF Abstract!vars
  <2> QED BY <2>1, <2>4, <2>5
<1>7. CASE UNCHANGED vars
  BY <1>7 DEF vars, Abstract!vars
<1> QED BY <1>1, <1>2, <1>3, <1>4, <1>5, <1>6, <1>7 DEF Next

\* sky_critical_section.c makes the lock that SkyRwlockSpec promises: whoever is
\* inside is alone, however deep he nests and however he got in.
THEOREM SectionIsLock == Spec => ImplementsLock
<1>1. Init => Abstract!Init
  BY DEF Init, Abstract!Init
<1> QED BY <1>1, InvHolds, NextImplements, PTL DEF Spec, ImplementsLock, Abstract!Spec
=============================================================================
