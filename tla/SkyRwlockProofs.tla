-------------------------- MODULE SkyRwlockProofs --------------------------
(* Proofs about named locks, for any number of threads, handles and files,   *)
(* any clock and any timeouts it can measure.                                *)
(*                                                                           *)
(* FInv is about the lock's file. CreatorKeepsFile is not inductive: a       *)
(* remove takes the name from whoever has it then, so it needs that a thread *)
(* about to remove it was the only creator and that none came since          *)
(* (Removing, OneCreator).                                                   *)
(*                                                                           *)
(* Times is about the clock. TimeoutKept needs that the difference of the    *)
(* readings is the time a call has run (Clocked), although the clock wraps,  *)
(* and how late a call can be at each point of its loop (Late).              *)
(*                                                                           *)
(* HInv is about what callers were granted. That a lock is believed in by    *)
(* the opener of its handle only (Believers) makes HeldUntilReleased         *)
(* inductive, and only where handles are not shared.                         *)
EXTENDS SkyRwlock, TLAPS

\* The variables have their types, whatever a call's arguments mean by now.
Types ==
    /\ dir \in Inode \cup {None}
    /\ fd \in [Handle -> HandleStruct \cup {None}]
    /\ flock \in [Handle -> Mode \cup {"none"}]
    /\ now \in 0..(Modulus - 1)
    /\ pc \in [Thread -> {"idle", "block", "wait", "try", "nap", "remove"}]
    /\ arg \in [Thread -> [handle : Handle \cup {None}, mode : Mode \cup {"none"},
                           timeout : Timeouts \cup {0, SKY_INFINITE}]]
    /\ tick \in [Thread -> 0..(Modulus - 1)] /\ left \in [Thread -> Int]
    /\ age \in [Thread -> 0..AgeBound]
    /\ belief \in [Thread -> [Handle -> Mode \cup {"none"}]]
    /\ lost \in [Thread -> SUBSET Handle]

\* A thread inside a call uses an open handle, its own unless handles are
\* shared; what it waits in depends on its timeout.
Calls ==
    \A t \in Thread :
       /\ pc[t] \in {"idle", "remove"} => arg[t] = NoCall
       /\ pc[t] \notin {"idle", "remove"} => Uses(t, arg[t].handle) /\ arg[t].mode \in Mode
       /\ pc[t] \in {"block", "wait"} => arg[t].timeout = SKY_INFINITE
       /\ pc[t] = "try" => arg[t].timeout \in Timeouts \cup {0}
       /\ pc[t] = "nap" => arg[t].timeout \in Timeouts

\* The name has one creator at a time, and while that one removes it no other
\* comes.
OneCreator ==
    \A g, k \in Open : fd[g].file_name /\ fd[k].file_name => g = k

Removing ==
    \A t \in Thread : pc[t] = "remove" =>
       /\ dir # None
       /\ \A g \in Open : ~fd[g].file_name
       /\ \A u \in Thread : pc[u] = "remove" => u = t

FInv == Types /\ Calls /\ OneCreator /\ Removing /\ CreatorKeepsFile

\* How long ago a thread's call began is what its clock readings say, and by
\* how much it can be late depends on where it is in its loop.
Clocked(t) == \/ now = tick[t] + age[t]
              \/ now = tick[t] + age[t] - Modulus

Late(t) == IF pc[t] = "nap" THEN Slack + Nap ELSE 0

OnTime(t) ==
    /\ ~Timed(t) => left[t] = 0 /\ age[t] = 0
    /\ Timed(t) => /\ tick[t] # 0 /\ Clocked(t)
                   /\ left[t] <= (IF pc[t] = "nap" THEN Nap ELSE 0)
                   /\ left[t] >= -Slack \/ (pc[t] = "nap" /\ left[t] = -Slack - 1 /\ now = 1)
                   /\ age[t] + left[t] <= arg[t].timeout - 1 + Late(t)

Times == \A t \in Thread : OnTime(t)

\* A lock is believed in by the thread that opened its handle.
Believers == \A t \in Thread, g \in Handle : belief[t][g] # "none" => g \in Open /\ fd[g].opener = t

HInv == SharedHandles \/ (Believers /\ HeldUntilReleased)

IInv == FInv /\ Times /\ HInv
----------------------------------------------------------------------------
LEMMA Constants ==
  /\ None \notin Handle /\ None \notin Inode /\ None \notin Thread /\ None \notin HandleStruct
  /\ Modulus \in Nat /\ Modulus > 1 /\ Nap \in Nat /\ Nap > 0 /\ Slack \in Nat
  /\ \A timeout \in Timeouts : timeout \in 1..(Modulus - Nap - 2 * Slack - 1)
  /\ SKY_INFINITE = Modulus - 1 /\ SKY_INFINITE \in Nat /\ SKY_INFINITE # 0
  /\ SKY_INFINITE \notin Timeouts /\ 0 \notin Timeouts
  /\ "none" \notin Mode
BY RwlockAssumption DEF RwlockAssumption, SKY_INFINITE, Mode

LEMMA InitInv == Init => IInv
<1> SUFFICES ASSUME Init PROVE IInv
  OBVIOUS
<1> USE Constants DEF Init
<1>1. Types
  BY DEF Types, NoCall, AgeBound
<1>2. Open = {}
  BY DEF Open
<1>3. Calls /\ OneCreator /\ Removing /\ CreatorKeepsFile
  BY <1>2 DEF Calls, OneCreator, Removing, CreatorKeepsFile
<1>4. Times
  BY DEF Times, OnTime, Timed
<1>5. HInv
  BY DEF HInv, Believers, HeldUntilReleased
<1> QED BY <1>1, <1>3, <1>4, <1>5 DEF IInv, FInv

\* What is open and whose name it has stays in order as long as no handle
\* comes or goes and nobody begins to remove the name.
LEMMA FilesStay ==
  ASSUME FInv, UNCHANGED files, \A u \in Thread : pc'[u] = "remove" => pc[u] = "remove"
  PROVE  OneCreator' /\ Removing' /\ CreatorKeepsFile'
BY DEF FInv, OneCreator, Removing, CreatorKeepsFile, files, Open

\* A step of one thread's call is a step of nobody else's.
Others(t) == \A u \in Thread \ {t} :
    /\ pc'[u] = pc[u] /\ arg'[u] = arg[u] /\ tick'[u] = tick[u]
    /\ left'[u] = left[u] /\ age'[u] = age[u]

CallTypes ==
    /\ pc \in [Thread -> {"idle", "block", "wait", "try", "nap", "remove"}]
    /\ arg \in [Thread -> [handle : Handle \cup {None}, mode : Mode \cup {"none"},
                           timeout : Timeouts \cup {0, SKY_INFINITE}]]
    /\ tick \in [Thread -> 0..(Modulus - 1)] /\ left \in [Thread -> Int]
    /\ age \in [Thread -> 0..AgeBound]

LEMMA ReturnEffect ==
  ASSUME Types, NEW t \in Thread, Return(t)
  PROVE  /\ Others(t) /\ CallTypes'
         /\ pc'[t] = "idle" /\ arg'[t] = NoCall /\ left'[t] = 0 /\ age'[t] = 0
<1> USE Constants DEF Types, Return
<1>1. NoCall \in [handle : Handle \cup {None}, mode : Mode \cup {"none"},
                 timeout : Timeouts \cup {0, SKY_INFINITE}]
  BY DEF NoCall
<1>2. 0 \in 0..AgeBound /\ 0 \in 0..(Modulus - 1)
  BY DEF AgeBound
<1>3. CallTypes'
  BY <1>1, <1>2 DEF CallTypes
<1> QED BY <1>3 DEF Others

LEMMA CallsStay ==
  ASSUME Calls, NEW t \in Thread, Others(t), UNCHANGED fd,
         pc'[t] \in {"idle", "remove"} => arg'[t] = NoCall,
         pc'[t] \notin {"idle", "remove"} => Uses(t, arg'[t].handle) /\ arg'[t].mode \in Mode,
         pc'[t] \in {"block", "wait"} => arg'[t].timeout = SKY_INFINITE,
         pc'[t] = "try" => arg'[t].timeout \in Timeouts \cup {0},
         pc'[t] = "nap" => arg'[t].timeout \in Timeouts
  PROVE  Calls'
<1>1. \A u \in Thread : \A g : Uses(u, g)' <=> Uses(u, g)
  BY DEF Uses, Open
<1> QED BY <1>1 DEF Calls, Others

LEMMA TimesStay ==
  ASSUME Times, NEW t \in Thread, Others(t), UNCHANGED now, ~Timed(t)', left'[t] = 0, age'[t] = 0
  PROVE  Times'
<1>1. \A u \in Thread \ {t} : (Timed(u)' <=> Timed(u)) /\ (Clocked(u)' <=> Clocked(u)) /\ Late(u)' = Late(u)
  BY DEF Timed, Others, Clocked, Late
<1> QED BY <1>1 DEF Times, OnTime, Others

\* A call of a handle's function.
Handled(t) == pc[t] \in {"block", "wait", "try", "nap"}

LEMMA HandledFacts ==
  ASSUME FInv, NEW t \in Thread, Handled(t)
  PROVE  /\ arg[t].handle \in Handle /\ arg[t].handle \in Open /\ fd[arg[t].handle] \in HandleStruct
         /\ SharedHandles \/ fd[arg[t].handle].opener = t
         /\ arg[t].mode \in Mode /\ arg[t].timeout \in Timeouts \cup {0, SKY_INFINITE}
BY DEF FInv, Types, Calls, Handled, Uses, Open

\* What flock and its callers note keeps its type.
LEMMA FlockTypes ==
  ASSUME Types, NEW g \in Handle, NEW m \in Mode, NEW t \in Thread
  PROVE  /\ flock' = Asked(g, m) => flock' \in [Handle -> Mode \cup {"none"}]
         /\ flock' = [flock EXCEPT ![g] = m] => flock' \in [Handle -> Mode \cup {"none"}]
         /\ Forfeit(t, g, m) => lost' \in [Thread -> SUBSET Handle]
         /\ Granted(t, g, m) => /\ lost' \in [Thread -> SUBSET Handle]
                                /\ belief' \in [Thread -> [Handle -> Mode \cup {"none"}]]
<1> USE DEF Types
<1>1. flock' = Asked(g, m) => flock' \in [Handle -> Mode \cup {"none"}]
  BY DEF Asked
<1>2. flock' = [flock EXCEPT ![g] = m] => flock' \in [Handle -> Mode \cup {"none"}]
  OBVIOUS
<1>3. Forfeit(t, g, m) => lost' \in [Thread -> SUBSET Handle]
  BY DEF Forfeit
<1>4. Granted(t, g, m) => lost' \in [Thread -> SUBSET Handle]
  BY DEF Granted
<1>5. Granted(t, g, m) => belief' \in [Thread -> [Handle -> Mode \cup {"none"}]]
  BY DEF Granted
<1> QED BY <1>1, <1>2, <1>3, <1>4, <1>5

LEMMA ReturnKeeps ==
  ASSUME FInv, NEW t \in Thread, UNCHANGED <<files, now>>,
         WaitGranted(t) \/ WaitInterrupted(t) \/ TryGranted(t)
  PROVE  FInv'
<1> USE DEF FInv
<1>1. Return(t) /\ Handled(t)
  BY DEF WaitGranted, WaitInterrupted, TryGranted, Handled
<1>2. Types'
  <2>1. CallTypes'
    BY <1>1, ReturnEffect
  <2>2. flock' \in [Handle -> Mode \cup {"none"}] /\ lost' \in [Thread -> SUBSET Handle]
        /\ belief' \in [Thread -> [Handle -> Mode \cup {"none"}]]
    BY <1>1, HandledFacts, FlockTypes DEF WaitGranted, WaitInterrupted, TryGranted, Types
  <2> QED BY <2>1, <2>2 DEF Types, CallTypes, files
<1>3. Calls'
  BY <1>1, ReturnEffect, CallsStay DEF files
<1>4. \A u \in Thread : pc'[u] = "remove" => pc[u] = "remove"
  BY <1>1, ReturnEffect DEF Others
<1> QED BY <1>2, <1>3, <1>4, FilesStay

LEMMA BlockKeeps ==
  ASSUME FInv, NEW t \in Thread, Block(t)
  PROVE  FInv'
<1> USE DEF FInv
<1>1. Handled(t) /\ UNCHANGED <<files, now, arg, tick, left, age, belief>>
      /\ pc' = [pc EXCEPT ![t] = "wait"]
  BY DEF Block, Handled
<1>2. Types'
  <2>1. flock' \in [Handle -> Mode \cup {"none"}] /\ lost' \in [Thread -> SUBSET Handle]
    BY <1>1, HandledFacts, FlockTypes DEF Block
  <2> QED BY <1>1, <2>1 DEF Types, files
<1>3. Others(t) /\ pc'[t] = "wait"
  BY <1>1 DEF Others, Types
<1>4. Calls'
  <2>1. arg[t].timeout = SKY_INFINITE
    BY DEF Block, Calls
  <2> QED BY <1>1, <1>3, <2>1, CallsStay DEF files, Calls, Handled
<1>5. \A u \in Thread : pc'[u] = "remove" => pc[u] = "remove"
  BY <1>3 DEF Others
<1> QED BY <1>1, <1>2, <1>4, <1>5, FilesStay

LEMMA TryFailsKeeps ==
  ASSUME FInv, NEW t \in Thread, TryFails(t)
  PROVE  FInv'
<1> USE DEF FInv
<1>1. Handled(t) /\ UNCHANGED <<files, now, belief>> /\ pc[t] = "try"
  BY DEF TryFails, Handled
<1>2. flock' \in [Handle -> Mode \cup {"none"}] /\ lost' \in [Thread -> SUBSET Handle]
  BY <1>1, HandledFacts, FlockTypes DEF TryFails
<1>3. CASE arg[t].timeout = 0
  <2>1. Return(t)
    BY <1>3 DEF TryFails
  <2>2. Types'
    BY <1>1, <1>2, <2>1, ReturnEffect DEF Types, CallTypes, files
  <2>3. Calls'
    BY <1>1, <2>1, ReturnEffect, CallsStay DEF files
  <2>4. \A u \in Thread : pc'[u] = "remove" => pc[u] = "remove"
    BY <2>1, ReturnEffect DEF Others
  <2> QED BY <1>1, <2>2, <2>3, <2>4, FilesStay
<1>4. CASE arg[t].timeout # 0
  <2>1. pc' = [pc EXCEPT ![t] = "nap"] /\ left' = [left EXCEPT ![t] = Nap] /\ UNCHANGED <<arg, tick, age>>
    BY <1>4 DEF TryFails
  <2>2. Types'
    BY <1>1, <1>2, <2>1, Constants DEF Types, files
  <2>3. Others(t) /\ pc'[t] = "nap"
    BY <2>1 DEF Others, Types
  <2>4. Calls'
    <3>1. arg[t].timeout \in Timeouts
      BY <1>1, <1>4 DEF Calls
    <3> QED BY <1>1, <2>1, <2>3, <3>1, CallsStay DEF files, Calls, Handled
  <2>5. \A u \in Thread : pc'[u] = "remove" => pc[u] = "remove"
    BY <2>3 DEF Others
  <2> QED BY <1>1, <2>2, <2>4, <2>5, FilesStay
<1> QED BY <1>3, <1>4

LEMMA NapKeeps ==
  ASSUME FInv, NEW t \in Thread, NapInterrupted(t) \/ Wake(t)
  PROVE  FInv'
<1> USE DEF FInv
<1>1. Handled(t) /\ UNCHANGED <<files, flock, now, belief, lost>> /\ pc[t] = "nap"
  BY DEF NapInterrupted, Wake, Handled
<1>2. arg[t].timeout \in Timeouts
  BY <1>1 DEF Calls
<1>3. CASE Return(t)
  <2>1. Types'
    BY <1>1, <1>3, ReturnEffect DEF Types, CallTypes, files
  <2>2. Calls'
    BY <1>1, <1>3, ReturnEffect, CallsStay DEF files
  <2>3. \A u \in Thread : pc'[u] = "remove" => pc[u] = "remove"
    BY <1>3, ReturnEffect DEF Others
  <2> QED BY <1>1, <2>1, <2>2, <2>3, FilesStay
<1>4. CASE /\ pc' = [pc EXCEPT ![t] = "try"] \/ UNCHANGED pc
           /\ left' = [left EXCEPT ![t] = 0] /\ UNCHANGED <<arg, tick, age>>
  <2>1. Types'
    <3>1. pc' \in [Thread -> {"idle", "block", "wait", "try", "nap", "remove"}]
      BY <1>4 DEF Types
    <3>2. left' \in [Thread -> Int]
      BY <1>4 DEF Types
    <3> QED BY <1>1, <1>4, <3>1, <3>2 DEF Types, files
  <2>2. Others(t) /\ pc'[t] \in {"nap", "try"}
    BY <1>1, <1>4 DEF Others, Types
  <2>3. Calls'
    BY <1>1, <1>2, <1>4, <2>2, CallsStay DEF files, Calls, Handled
  <2>4. \A u \in Thread : pc'[u] = "remove" => pc[u] = "remove"
    BY <2>2 DEF Others
  <2> QED BY <1>1, <2>1, <2>3, <2>4, FilesStay
<1> QED BY <1>3, <1>4 DEF NapInterrupted, Wake

LEMMA LockKeeps ==
  ASSUME FInv, NEW t \in Thread, NEW g \in Handle, NEW m \in Mode,
         NEW timeout \in Timeouts \cup {0, SKY_INFINITE}, Lock(t, g, m, timeout)
  PROVE  FInv'
<1> USE DEF FInv
<1>1. UNCHANGED <<files, flock, now, left, age, belief, lost>>
      /\ pc' = [pc EXCEPT ![t] = IF timeout = SKY_INFINITE THEN "block" ELSE "try"]
      /\ arg' = [arg EXCEPT ![t] = [handle |-> g, mode |-> m, timeout |-> timeout]]
      /\ tick' = [tick EXCEPT ![t] = IF timeout \in Timeouts THEN now ELSE 0]
      /\ Uses(t, g)
  BY DEF Lock
<1>2. Types'
  <2>1. [handle |-> g, mode |-> m, timeout |-> timeout] \in
           [handle : Handle \cup {None}, mode : Mode \cup {"none"},
            timeout : Timeouts \cup {0, SKY_INFINITE}]
    OBVIOUS
  <2>2. arg' \in [Thread -> [handle : Handle \cup {None}, mode : Mode \cup {"none"},
                            timeout : Timeouts \cup {0, SKY_INFINITE}]]
    BY <1>1, <2>1 DEF Types
  <2>3. tick' \in [Thread -> 0..(Modulus - 1)]
    BY <1>1, Constants DEF Types
  <2>4. pc' \in [Thread -> {"idle", "block", "wait", "try", "nap", "remove"}]
    BY <1>1 DEF Types
  <2> QED BY <1>1, <2>2, <2>3, <2>4 DEF Types, files
<1>3. Others(t) /\ pc'[t] = (IF timeout = SKY_INFINITE THEN "block" ELSE "try")
      /\ arg'[t] = [handle |-> g, mode |-> m, timeout |-> timeout]
  BY <1>1 DEF Others, Types
<1>4. Calls'
  BY <1>1, <1>3, CallsStay DEF files
<1>5. \A u \in Thread : pc'[u] = "remove" => pc[u] = "remove"
  BY <1>3 DEF Others
<1> QED BY <1>1, <1>2, <1>4, <1>5, FilesStay

LEMMA UnlockKeeps ==
  ASSUME FInv, NEW t \in Thread, NEW g \in Handle, sky_rwlock_unlock(t, g)
  PROVE  FInv'
<1> USE DEF FInv
<1>1. UNCHANGED <<files, now, call>> /\ flock' = [flock EXCEPT ![g] = "none"]
      /\ belief' = [belief EXCEPT ![t][g] = "none"] /\ lost' = [lost EXCEPT ![t] = @ \ {g}]
  BY DEF sky_rwlock_unlock, UnlockRest
<1>2. Types'
  BY <1>1 DEF Types, files, call
<1>3. Calls'
  BY <1>1 DEF Calls, files, call, Uses, Open
<1> QED BY <1>1, <1>2, <1>3, FilesStay DEF call

\* The name is free, so nobody who created it is left.
LEMMA CreateKeeps ==
  ASSUME FInv, NEW t \in Thread, sky_rwlock_create(t)
  PROVE  FInv'
<1> USE DEF FInv
<1>1. dir = None /\ UNCHANGED <<flock, now, call, belief, lost>>
  BY DEF sky_rwlock_create
<1>2. PICK g \in Handle \ Open, i \in Inode :
         /\ dir' = i
         /\ fd' = [fd EXCEPT ![g] = [inode |-> i, file_name |-> TRUE, opener |-> t]]
  BY DEF sky_rwlock_create
<1>3. [inode |-> i, file_name |-> TRUE, opener |-> t] \in HandleStruct
  BY DEF HandleStruct
<1>4. /\ fd'[g].inode = i /\ fd'[g] # None /\ \A k \in Handle \ {g} : fd'[k] = fd[k]
      /\ fd' \in [Handle -> HandleStruct \cup {None}]
  BY <1>2, <1>3, Constants DEF Types
<1>5. Open' = Open \cup {g}
  BY <1>2, <1>4 DEF Open
<1>6. Types'
  BY <1>1, <1>2, <1>4 DEF Types, call
<1>7. Calls'
  <2>1. \A u \in Thread, k \in Handle : Uses(u, k) => Uses(u, k)'
    BY <1>2, <1>4, <1>5 DEF Uses, Open
  <2>2. \A u \in Thread : arg[u].handle \in Handle \cup {None}
    BY DEF Types
  <2>3. None \notin Open
    BY Constants DEF Open
  <2> QED BY <1>1, <2>1, <2>2, <2>3 DEF Calls, call, Uses
<1>8. \A k \in Open : ~fd[k].file_name /\ fd'[k] = fd[k] /\ k # g
  <2>1. \A k \in Open : k \in Handle /\ fd[k] \in HandleStruct
    BY DEF Open, Types
  <2>2. \A k \in Open : fd[k].inode # None
    BY <2>1, Constants DEF HandleStruct
  <2> QED BY <1>1, <1>2, <1>4, <2>1, <2>2 DEF CreatorKeepsFile
<1>9. OneCreator' /\ CreatorKeepsFile'
  BY <1>2, <1>4, <1>5, <1>8 DEF OneCreator, CreatorKeepsFile
<1>10. Removing'
  <2>1. \A u \in Thread : pc'[u] # "remove"
    BY <1>1 DEF Removing, call
  <2> QED BY <2>1 DEF Removing
<1> QED BY <1>6, <1>7, <1>9, <1>10

LEMMA OpenKeeps ==
  ASSUME FInv, NEW t \in Thread, sky_rwlock_open(t)
  PROVE  FInv'
<1> USE DEF FInv
<1>1. dir # None /\ UNCHANGED <<dir, flock, now, call, belief, lost>>
  BY DEF sky_rwlock_open
<1>2. PICK g \in Handle \ Open :
         fd' = [fd EXCEPT ![g] = [inode |-> dir, file_name |-> FALSE, opener |-> t]]
  BY DEF sky_rwlock_open
<1>3. [inode |-> dir, file_name |-> FALSE, opener |-> t] \in HandleStruct
  BY <1>1 DEF HandleStruct, Types
<1>4. /\ ~fd'[g].file_name /\ fd'[g] # None /\ \A k \in Handle \ {g} : fd'[k] = fd[k]
      /\ fd' \in [Handle -> HandleStruct \cup {None}]
  BY <1>2, <1>3, Constants DEF Types
<1>5. Open' = Open \cup {g}
  BY <1>2, <1>4 DEF Open
<1>6. Types'
  BY <1>1, <1>4 DEF Types, call
<1>7. Calls'
  <2>1. \A u \in Thread, k \in Handle : Uses(u, k) => Uses(u, k)'
    BY <1>2, <1>4, <1>5 DEF Uses, Open
  <2>2. \A u \in Thread : arg[u].handle \in Handle \cup {None}
    BY DEF Types
  <2>3. None \notin Open
    BY Constants DEF Open
  <2> QED BY <1>1, <2>1, <2>2, <2>3 DEF Calls, call, Uses
<1>8. \A k \in Open : fd'[k] = fd[k] /\ k # g
  BY <1>2, <1>4 DEF Open
<1>9. OneCreator' /\ CreatorKeepsFile'
  BY <1>1, <1>4, <1>5, <1>8 DEF OneCreator, CreatorKeepsFile
<1>10. Removing'
  BY <1>1, <1>4, <1>5, <1>8 DEF Removing, call
<1> QED BY <1>6, <1>7, <1>9, <1>10

LEMMA ForgetEffect ==
  ASSUME Types, NEW gs \in SUBSET Handle, Forget(gs)
  PROVE  /\ Open' = Open \ gs /\ \A k \in Open \ gs : fd'[k] = fd[k]
         /\ fd' \in [Handle -> HandleStruct \cup {None}]
         /\ flock' \in [Handle -> Mode \cup {"none"}]
         /\ belief' \in [Thread -> [Handle -> Mode \cup {"none"}]]
         /\ lost' \in [Thread -> SUBSET Handle]
<1> USE DEF Types, Forget
<1>1. Open' = Open \ gs
  BY DEF Open
<1>2. \A k \in Open \ gs : fd'[k] = fd[k]
  BY DEF Open
<1>3. fd' \in [Handle -> HandleStruct \cup {None}] /\ flock' \in [Handle -> Mode \cup {"none"}]
  OBVIOUS
<1>4. belief' \in [Thread -> [Handle -> Mode \cup {"none"}]]
  OBVIOUS
<1>5. lost' \in [Thread -> SUBSET Handle]
  OBVIOUS
<1> QED BY <1>1, <1>2, <1>3, <1>4, <1>5

\* With a creator's handle closed, nobody has the name until it is removed.
LEMMA DestroyKeeps ==
  ASSUME FInv, NEW t \in Thread, NEW g \in Handle, sky_rwlock_destroy(t, g)
  PROVE  FInv'
<1> USE DEF FInv
<1>1. /\ pc[t] = "idle" /\ Uses(t, g) /\ \A u \in Thread : arg[u].handle # g
      /\ pc' = [pc EXCEPT ![t] = IF fd[g].file_name THEN "remove" ELSE "idle"]
      /\ Forget({g}) /\ UNCHANGED <<dir, now, arg, tick, left, age>>
  BY DEF sky_rwlock_destroy
<1>2. g \in Open /\ Open' = Open \ {g} /\ \A k \in Open \ {g} : fd'[k] = fd[k]
  BY <1>1, ForgetEffect DEF Uses
<1>3. pc'[t] = (IF fd[g].file_name THEN "remove" ELSE "idle")
      /\ \A u \in Thread \ {t} : pc'[u] = pc[u]
  BY <1>1 DEF Types
<1>4. Types'
  <2>1. pc' \in [Thread -> {"idle", "block", "wait", "try", "nap", "remove"}]
    BY <1>1 DEF Types
  <2> QED BY <1>1, <2>1, ForgetEffect DEF Types
<1>5. Calls'
  <2>1. \A u \in Thread, k \in Open \ {g} : Uses(u, k) => Uses(u, k)'
    BY <1>2 DEF Uses
  <2>2. arg[t] = NoCall
    BY <1>1 DEF Calls
  <2> QED BY <1>1, <1>3, <2>1, <2>2 DEF Calls, Uses
<1>6. OneCreator' /\ CreatorKeepsFile'
  BY <1>1, <1>2 DEF OneCreator, CreatorKeepsFile
<1>7. Removing'
  <2>1. CASE fd[g].file_name
    <3>1. dir # None
      BY <1>2, <2>1, Constants DEF CreatorKeepsFile, Open, Types, HandleStruct
    <3>2. \A k \in Open \ {g} : ~fd[k].file_name
      BY <1>2, <2>1 DEF OneCreator
    <3>3. \A u \in Thread : pc[u] # "remove"
      BY <1>2, <2>1 DEF Removing
    <3> QED BY <1>1, <1>2, <1>3, <3>1, <3>2, <3>3 DEF Removing
  <2>2. CASE ~fd[g].file_name
    BY <1>1, <1>2, <1>3, <2>2 DEF Removing
  <2> QED BY <2>1, <2>2
<1> QED BY <1>4, <1>5, <1>6, <1>7

LEMMA RemoveKeeps ==
  ASSUME FInv, NEW t \in Thread, Remove(t)
  PROVE  FInv'
<1> USE DEF FInv
<1>1. pc[t] = "remove" /\ dir' = None /\ Return(t) /\ UNCHANGED <<fd, flock, now, belief, lost>>
  BY DEF Remove
<1>2. Types'
  BY <1>1, ReturnEffect DEF Types, CallTypes
<1>3. Calls'
  BY <1>1, ReturnEffect, CallsStay
<1>4. \A g \in Open : ~fd[g].file_name
  BY <1>1 DEF Removing
<1>5. OneCreator' /\ CreatorKeepsFile'
  BY <1>1, <1>4 DEF OneCreator, CreatorKeepsFile, Open
<1>6. Removing'
  <2>1. \A u \in Thread : pc'[u] # "remove"
    BY <1>1, ReturnEffect DEF Others, Removing
  <2> QED BY <2>1 DEF Removing
<1> QED BY <1>2, <1>3, <1>5, <1>6

Dead(t) == IF SharedHandles THEN Thread ELSE {t}

\* A process that dies takes its threads' calls and their handles with it.
LEMMA CrashEffect ==
  ASSUME NEW t \in Thread, Crash(t)
  PROVE  /\ Dead(t) \subseteq Thread /\ UNCHANGED <<dir, now>>
         /\ Forget({g \in Open : fd[g].opener \in Dead(t)})
         /\ \A u \in Thread :
              IF u \in Dead(t)
              THEN pc'[u] = "idle" /\ arg'[u] = NoCall /\ tick'[u] = 0 /\ left'[u] = 0 /\ age'[u] = 0
              ELSE /\ pc'[u] = pc[u] /\ arg'[u] = arg[u] /\ tick'[u] = tick[u]
                   /\ left'[u] = left[u] /\ age'[u] = age[u]
         /\ pc' = [u \in Thread |-> IF u \in Dead(t) THEN "idle" ELSE pc[u]]
         /\ arg' = [u \in Thread |-> IF u \in Dead(t) THEN NoCall ELSE arg[u]]
         /\ tick' = [u \in Thread |-> IF u \in Dead(t) THEN 0 ELSE tick[u]]
         /\ left' = [u \in Thread |-> IF u \in Dead(t) THEN 0 ELSE left[u]]
         /\ age' = [u \in Thread |-> IF u \in Dead(t) THEN 0 ELSE age[u]]
<1>1. Dead(t) \subseteq Thread
  BY DEF Dead
<1> HIDE DEF Dead
<1>2. /\ UNCHANGED <<dir, now>> /\ Forget({g \in Open : fd[g].opener \in Dead(t)})
      /\ pc' = [u \in Thread |-> IF u \in Dead(t) THEN "idle" ELSE pc[u]]
      /\ arg' = [u \in Thread |-> IF u \in Dead(t) THEN NoCall ELSE arg[u]]
      /\ tick' = [u \in Thread |-> IF u \in Dead(t) THEN 0 ELSE tick[u]]
      /\ left' = [u \in Thread |-> IF u \in Dead(t) THEN 0 ELSE left[u]]
      /\ age' = [u \in Thread |-> IF u \in Dead(t) THEN 0 ELSE age[u]]
  BY DEF Crash, Dead
<1> QED BY <1>1, <1>2

LEMMA ResetTypes ==
  ASSUME NEW S, NEW z \in S, NEW f \in [Thread -> S], NEW D
  PROVE  [u \in Thread |-> IF u \in D THEN z ELSE f[u]] \in [Thread -> S]
OBVIOUS

LEMMA CrashKeeps ==
  ASSUME FInv, NEW t \in Thread, Crash(t)
  PROVE  FInv'
<1> USE DEF FInv
<1> DEFINE gone == {g \in Open : fd[g].opener \in Dead(t)}
<1>1. gone \subseteq Handle
  BY DEF Open
<1>2. Open' = Open \ gone /\ \A k \in Open \ gone : fd'[k] = fd[k]
  BY <1>1, CrashEffect, ForgetEffect
<1>3. Types'
  <2>1. /\ fd' \in [Handle -> HandleStruct \cup {None}]
        /\ flock' \in [Handle -> Mode \cup {"none"}]
        /\ belief' \in [Thread -> [Handle -> Mode \cup {"none"}]]
        /\ lost' \in [Thread -> SUBSET Handle]
    BY <1>1, CrashEffect, ForgetEffect
  <2>2. CallTypes'
    <3>1. NoCall \in [handle : Handle \cup {None}, mode : Mode \cup {"none"},
                     timeout : Timeouts \cup {0, SKY_INFINITE}]
      BY DEF NoCall
    <3>2. 0 \in 0..AgeBound /\ 0 \in 0..(Modulus - 1)
      BY Constants DEF AgeBound
    <3>3. pc' \in [Thread -> {"idle", "block", "wait", "try", "nap", "remove"}]
      BY CrashEffect DEF Types
    <3>4. arg' \in [Thread -> [handle : Handle \cup {None}, mode : Mode \cup {"none"},
                           timeout : Timeouts \cup {0, SKY_INFINITE}]]
      BY <3>1, CrashEffect DEF Types
    <3>5. tick' \in [Thread -> 0..(Modulus - 1)] /\ left' \in [Thread -> Int]
          /\ age' \in [Thread -> 0..AgeBound]
      <4>1. /\ tick' = [u \in Thread |-> IF u \in Dead(t) THEN 0 ELSE tick[u]]
            /\ left' = [u \in Thread |-> IF u \in Dead(t) THEN 0 ELSE left[u]]
            /\ age' = [u \in Thread |-> IF u \in Dead(t) THEN 0 ELSE age[u]]
        BY CrashEffect
      <4>2. tick \in [Thread -> 0..(Modulus - 1)] /\ left \in [Thread -> Int]
            /\ age \in [Thread -> 0..AgeBound]
        BY DEF Types
      <4> HIDE DEF FInv
      <4>3. tick' \in [Thread -> 0..(Modulus - 1)] /\ left' \in [Thread -> Int]
        BY <3>2, <4>1, <4>2, ResetTypes
      <4> QED BY <3>2, <4>1, <4>2, <4>3, ResetTypes
    <3> QED BY <3>3, <3>4, <3>5 DEF CallTypes
  <2> QED BY <2>1, <2>2, CrashEffect DEF Types, CallTypes
<1>4. Calls'
  <2> SUFFICES ASSUME NEW u \in Thread, u \notin Dead(t), pc[u] \notin {"idle", "remove"}
               PROVE  Uses(u, arg[u].handle)'
    BY CrashEffect DEF Calls
  <2>1. ~SharedHandles /\ u # t /\ Dead(t) = {t}
    BY DEF Dead
  <2>2. arg[u].handle \in Open /\ fd[arg[u].handle].opener = u /\ arg'[u] = arg[u]
    BY <2>1, CrashEffect DEF Calls, Uses
  <2> QED BY <1>2, <2>1, <2>2 DEF Uses
<1>5. OneCreator' /\ CreatorKeepsFile'
  BY <1>2, CrashEffect DEF OneCreator, CreatorKeepsFile
<1>6. Removing'
  <2>1. \A u \in Thread : pc'[u] = "remove" => pc[u] = "remove"
    BY CrashEffect
  <2> QED BY <1>2, <2>1, CrashEffect DEF Removing
<1> QED BY <1>3, <1>4, <1>5, <1>6

\* The clock one millisecond later.
LEMMA NextTick ==
  ASSUME now \in 0..(Modulus - 1)
  PROVE  (now + 1) % Modulus = IF now = Modulus - 1 THEN 0 ELSE now + 1
<1>1. \A a \in 0..(Modulus - 1) : a % Modulus = a
  BY Constants
<1>2. Modulus % Modulus = 0
  BY Constants
<1> QED BY <1>1, <1>2, Constants

LEMMA TickKeeps ==
  ASSUME FInv, Tick
  PROVE  FInv'
<1> USE DEF FInv
<1>1. /\ UNCHANGED <<files, flock, pc, arg, tick, belief, lost>>
      /\ now' = (now + 1) % Modulus
      /\ left' = [t \in Thread |-> IF Timed(t) THEN left[t] - 1 ELSE left[t]]
      /\ age' = [t \in Thread |-> IF Timed(t) /\ age[t] < AgeBound THEN age[t] + 1 ELSE age[t]]
  BY DEF Tick
<1>2. now' \in 0..(Modulus - 1)
  BY <1>1, NextTick, Constants DEF Types
<1>3. left' \in [Thread -> Int]
  BY <1>1 DEF Types
<1>4. age' \in [Thread -> 0..AgeBound]
  BY <1>1, Constants DEF Types, AgeBound
<1>5. Types'
  BY <1>1, <1>2, <1>3, <1>4 DEF Types, files
<1>6. Calls'
  BY <1>1 DEF Calls, files, Uses, Open
<1> QED BY <1>1, <1>5, <1>6, FilesStay

LEMMA NextFInv == FInv /\ [Next]_vars => FInv'
<1> SUFFICES ASSUME FInv, [Next]_vars PROVE FInv'
  OBVIOUS
<1>1. ASSUME NEW t \in Thread, Call(t) PROVE FInv'
  <2>1. ASSUME NEW g \in Handle, NEW timeout \in Timeouts \cup {0, SKY_INFINITE},
               sky_rwlock_wrlock(t, g, timeout) \/ sky_rwlock_rdlock(t, g, timeout)
        PROVE  FInv'
    <3>1. "ex" \in Mode /\ "sh" \in Mode
      BY DEF Mode
    <3> QED BY <2>1, <3>1, LockKeeps DEF sky_rwlock_wrlock, sky_rwlock_rdlock
  <2> QED BY <1>1, <2>1, CreateKeeps, OpenKeeps, DestroyKeeps, UnlockKeeps DEF Call
<1>2. ASSUME NEW t \in Thread, Step(t) \/ Signal(t) PROVE FInv'
  <2>1. CASE WaitGranted(t) \/ WaitInterrupted(t) \/ TryGranted(t)
    <3>1. UNCHANGED <<files, now>>
      BY <2>1 DEF WaitGranted, WaitInterrupted, TryGranted
    <3> QED BY <2>1, <3>1, ReturnKeeps
  <2> QED BY <1>2, <2>1, RemoveKeeps, BlockKeeps, TryFailsKeeps, NapKeeps DEF Step, Signal
<1>3. CASE UNCHANGED vars
  BY <1>3 DEF vars, files, call, FInv, Types, Calls, Uses, OneCreator, Removing, CreatorKeepsFile, Open
<1> QED BY <1>1, <1>2, <1>3, CrashKeeps, TickKeeps DEF Next
----------------------------------------------------------------------------
(* Time *)

\* What the loop reads off the clock is how long it has run, as long as that
\* is less than the clock's range, whether or not the clock wrapped.
LEMMA ElapsedIsAge ==
  ASSUME NEW t \in Thread, tick[t] \in 1..(Modulus - 1), age[t] \in 0..(Modulus - 1),
         now \in 0..(Modulus - 1), Clocked(t)
  PROVE  sky_systick_elapsed(tick[t]) = age[t]
<1>1. \A a \in 0..(Modulus - 1) : a % Modulus = a
  BY Constants
<1>2. CASE now < tick[t]
  <2>1. now = tick[t] + age[t] - Modulus
    BY <1>2, Constants DEF Clocked
  <2>2. ((Modulus - 1) - tick[t]) + now + 1 = age[t]
    BY <2>1, Constants
  <2> QED BY <1>1, <1>2, <2>2, Constants DEF sky_systick_elapsed, sky_systick_diff
<1>3. CASE now >= tick[t]
  <2>1. now = tick[t] + age[t]
    BY <1>3, Constants DEF Clocked
  <2> QED BY <1>3, <2>1, Constants DEF sky_systick_elapsed, sky_systick_diff
<1> QED BY <1>2, <1>3, Constants

\* A timed call has not run for as long as the clock's range.
LEMMA TimedFacts ==
  ASSUME FInv, Times, NEW t \in Thread, Timed(t)
  PROVE  /\ arg[t].timeout \in Timeouts /\ arg[t].timeout \in 1..(Modulus - Nap - 2 * Slack - 1)
         /\ tick[t] \in 1..(Modulus - 1) /\ left[t] \in Int
         /\ age[t] <= arg[t].timeout + Nap + 2 * Slack /\ age[t] \in 0..(Modulus - 1)
         /\ pc[t] = "try" => age[t] <= arg[t].timeout - 1 + Slack
<1>1. arg[t].timeout \in Timeouts /\ pc[t] \in {"try", "nap"}
  BY Constants DEF FInv, Calls, Timed
<1>2. arg[t].timeout \in 1..(Modulus - Nap - 2 * Slack - 1)
  BY <1>1, Constants
<1>3. tick[t] \in 1..(Modulus - 1) /\ left[t] \in Int /\ age[t] \in Nat
  BY Constants DEF FInv, Types, Times, OnTime, AgeBound
<1>4. /\ left[t] >= -Slack \/ (pc[t] = "nap" /\ left[t] = -Slack - 1 /\ now = 1)
      /\ age[t] + left[t] <= arg[t].timeout - 1 + Late(t)
  BY DEF Times, OnTime
<1>5. pc[t] = "try" => age[t] <= arg[t].timeout - 1 + Slack
  BY <1>2, <1>3, <1>4, Constants DEF Late
<1>6. pc[t] = "nap" => age[t] <= arg[t].timeout + Nap + 2 * Slack
  BY <1>2, <1>3, <1>4, Constants DEF Late
<1>7. age[t] <= arg[t].timeout + Nap + 2 * Slack
  BY <1>1, <1>2, <1>3, <1>5, <1>6, Constants
<1> QED BY <1>1, <1>2, <1>3, <1>5, <1>7, Constants

\* Time passes for nobody who is overdue.
LEMMA TickTimes ==
  ASSUME FInv, Times, Tick
  PROVE  Times'
<1>1. /\ UNCHANGED <<pc, arg, tick>> /\ now' = (now + 1) % Modulus
      /\ left' = [u \in Thread |-> IF Timed(u) THEN left[u] - 1 ELSE left[u]]
      /\ age' = [u \in Thread |-> IF Timed(u) /\ age[u] < AgeBound THEN age[u] + 1 ELSE age[u]]
      /\ \A u \in Thread : Timed(u) => left[u] > -Slack \/ (pc[u] = "nap" /\ now = 0)
  BY DEF Tick, TickReadable
<1>2. now \in 0..(Modulus - 1) /\ now' = IF now = Modulus - 1 THEN 0 ELSE now + 1
  BY <1>1, NextTick DEF FInv, Types
<1>3. \A u \in Thread : (Timed(u)' <=> Timed(u)) /\ Late(u)' = Late(u)
  BY <1>1 DEF Timed, Late
<1> SUFFICES ASSUME NEW u \in Thread PROVE OnTime(u)'
  BY DEF Times
<1>4. CASE ~Timed(u)
  BY <1>1, <1>3, <1>4 DEF Times, OnTime
<1>5. CASE Timed(u)
  <2>1. left'[u] = left[u] - 1 /\ age'[u] = age[u] + 1
    BY <1>1, <1>5, TimedFacts, Constants DEF AgeBound
  <2>2. /\ tick[u] \in 1..(Modulus - 1) /\ left[u] \in Int /\ age[u] \in 0..(Modulus - 1)
        /\ arg[u].timeout \in Int /\ Late(u) \in Int
    BY <1>5, TimedFacts, Constants DEF Late
  <2>3. /\ Clocked(u) /\ left[u] <= (IF pc[u] = "nap" THEN Nap ELSE 0)
        /\ left[u] >= -Slack \/ (pc[u] = "nap" /\ left[u] = -Slack - 1 /\ now = 1)
        /\ age[u] + left[u] <= arg[u].timeout - 1 + Late(u)
    BY <1>5 DEF Times, OnTime
  <2>4. Clocked(u)'
    BY <1>1, <1>2, <2>1, <2>2, <2>3, Constants DEF Clocked
  <2>5. left'[u] >= -Slack \/ (pc'[u] = "nap" /\ left'[u] = -Slack - 1 /\ now' = 1)
    <3>1. CASE left[u] > -Slack
      BY <2>1, <2>2, <3>1, Constants
    <3>2. CASE pc[u] = "nap" /\ now = 0
      BY <1>1, <1>2, <2>1, <2>2, <2>3, <3>2, Constants
    <3> QED BY <1>1, <1>5, <3>1, <3>2
  <2>6. left'[u] <= (IF pc'[u] = "nap" THEN Nap ELSE 0)
    BY <1>1, <2>1, <2>2, <2>3, Constants
  <2>7. age'[u] + left'[u] <= arg'[u].timeout - 1 + Late(u)'
    BY <1>1, <1>3, <2>1, <2>2, <2>3
  <2>8. tick'[u] # 0
    BY <1>1, <2>2
  <2> QED BY <1>3, <1>5, <2>4, <2>5, <2>6, <2>7, <2>8 DEF OnTime
<1> QED BY <1>4, <1>5

LEMMA ReturnTimes ==
  ASSUME FInv, Times, NEW t \in Thread, Return(t), UNCHANGED now
  PROVE  Times'
<1>1. ~Timed(t)' /\ left'[t] = 0 /\ age'[t] = 0 /\ Others(t)
  BY ReturnEffect DEF Timed, FInv
<1> QED BY <1>1, TimesStay

\* A step inside one call of a handle's function that goes on.
LEMMA GoesOnTimes ==
  ASSUME Times, NEW t \in Thread, Others(t), UNCHANGED now,
         ~Timed(t)' => left'[t] = 0 /\ age'[t] = 0,
         Timed(t)' => /\ tick'[t] # 0 /\ Clocked(t)'
                      /\ left'[t] <= (IF pc'[t] = "nap" THEN Nap ELSE 0)
                      /\ left'[t] >= -Slack
                      /\ age'[t] + left'[t] <= arg'[t].timeout - 1 + Late(t)'
  PROVE  Times'
<1>1. \A u \in Thread \ {t} : (Timed(u)' <=> Timed(u)) /\ (Clocked(u)' <=> Clocked(u)) /\ Late(u)' = Late(u)
  BY DEF Timed, Others, Clocked, Late
<1> QED BY <1>1 DEF Times, OnTime, Others

LEMMA LockTimes ==
  ASSUME FInv, Times, NEW t \in Thread, NEW g \in Handle, NEW m \in Mode,
         NEW timeout \in Timeouts \cup {0, SKY_INFINITE}, Lock(t, g, m, timeout)
  PROVE  Times'
<1>1. /\ UNCHANGED <<now, left, age>> /\ pc[t] = "idle"
      /\ pc' = [pc EXCEPT ![t] = IF timeout = SKY_INFINITE THEN "block" ELSE "try"]
      /\ arg' = [arg EXCEPT ![t] = [handle |-> g, mode |-> m, timeout |-> timeout]]
      /\ tick' = [tick EXCEPT ![t] = IF timeout \in Timeouts THEN now ELSE 0]
      /\ timeout \in Timeouts => now # 0
  BY DEF Lock, TickReadable
<1>2. /\ Others(t) /\ pc'[t] = (IF timeout = SKY_INFINITE THEN "block" ELSE "try")
      /\ arg'[t].timeout = timeout /\ tick'[t] = (IF timeout \in Timeouts THEN now ELSE 0)
  BY <1>1 DEF Others, FInv, Types
<1>3. left'[t] = 0 /\ age'[t] = 0
  BY <1>1 DEF Times, OnTime, Timed
<1>4. Timed(t)' => timeout \in Timeouts
  BY <1>2, Constants DEF Timed
<1>5. now \in Int
  BY DEF FInv, Types
<1>6. Timed(t)' => /\ tick'[t] # 0 /\ Clocked(t)'
                   /\ left'[t] <= (IF pc'[t] = "nap" THEN Nap ELSE 0)
                   /\ left'[t] >= -Slack
                   /\ age'[t] + left'[t] <= arg'[t].timeout - 1 + Late(t)'
  BY <1>1, <1>2, <1>3, <1>4, <1>5, Constants DEF Clocked, Late
<1> QED BY <1>1, <1>2, <1>3, <1>6, GoesOnTimes

LEMMA TryFailsTimes ==
  ASSUME FInv, Times, NEW t \in Thread, TryFails(t)
  PROVE  Times'
<1>1. CASE arg[t].timeout = 0
  BY <1>1, ReturnTimes DEF TryFails
<1>2. CASE arg[t].timeout # 0
  <2>1. /\ pc' = [pc EXCEPT ![t] = "nap"] /\ left' = [left EXCEPT ![t] = Nap]
        /\ UNCHANGED <<arg, tick, age, now>> /\ pc[t] = "try"
    BY <1>2 DEF TryFails
  <2>2. Others(t) /\ pc'[t] = "nap" /\ left'[t] = Nap
    BY <2>1 DEF Others, FInv, Types
  <2>3. Timed(t) /\ Timed(t)'
    BY <1>2, <2>1, <2>2 DEF Timed
  <2>4. tick[t] # 0 /\ Clocked(t)'
    BY <2>1, <2>3 DEF Times, OnTime, Clocked
  <2>5. age'[t] + left'[t] <= arg'[t].timeout - 1 + Late(t)'
    BY <2>1, <2>2, <2>3, TimedFacts, Constants DEF Late
  <2> QED BY <2>1, <2>2, <2>3, <2>4, <2>5, GoesOnTimes, Constants
<1> QED BY <1>1, <1>2

\* Who tries again has time left.
LEMMA NapTimes ==
  ASSUME FInv, Times, NEW t \in Thread, NapInterrupted(t) \/ Wake(t)
  PROVE  Times'
<1>1. pc[t] = "nap" /\ UNCHANGED now /\ Timed(t)
  BY Constants DEF NapInterrupted, Wake, Timed, FInv, Calls
<1>2. CASE Return(t)
  BY <1>1, <1>2, ReturnTimes
<1>3. CASE NapInterrupted(t)
  <2>1. /\ left' = [left EXCEPT ![t] = 0] /\ left[t] > 0
        /\ UNCHANGED <<pc, arg, tick, age>>
    BY <1>3 DEF NapInterrupted
  <2>2. Others(t) /\ left'[t] = 0 /\ Timed(t)' /\ (Clocked(t)' <=> Clocked(t)) /\ Late(t)' = Late(t)
    BY <1>1, <2>1 DEF Others, FInv, Types, Timed, Clocked, Late
  <2>3. age'[t] + left'[t] <= arg'[t].timeout - 1 + Late(t)'
    <3>1. age[t] + left[t] <= arg[t].timeout - 1 + Late(t)
      BY <1>1 DEF Times, OnTime
    <3>2. Late(t) = Slack + Nap
      BY <1>1 DEF Late
    <3> QED BY <1>1, <2>1, <2>2, <3>1, <3>2, TimedFacts, Constants
  <2> QED BY <1>1, <2>1, <2>2, <2>3, GoesOnTimes, Constants DEF Times, OnTime
<1>4. CASE /\ sky_systick_elapsed(tick[t]) < arg[t].timeout
           /\ pc' = [pc EXCEPT ![t] = "try"]
           /\ left' = [left EXCEPT ![t] = 0]
           /\ UNCHANGED <<arg, tick, age>>
  <2>1. Others(t) /\ pc'[t] = "try" /\ left'[t] = 0
    BY <1>4 DEF Others, FInv, Types
  <2>2. Timed(t)' /\ (Clocked(t)' <=> Clocked(t)) /\ Late(t)' = 0
    BY <1>1, <1>4, <2>1 DEF Timed, Clocked, Late
  <2>3. age[t] < arg[t].timeout
    <3>1. now \in 0..(Modulus - 1) /\ Clocked(t)
      BY <1>1 DEF FInv, Types, Times, OnTime
    <3> QED BY <1>1, <1>4, <3>1, TimedFacts, ElapsedIsAge
  <2>4. age'[t] + left'[t] <= arg'[t].timeout - 1 + Late(t)'
    BY <1>1, <1>4, <2>1, <2>2, <2>3, TimedFacts, Constants
  <2> QED BY <1>1, <1>4, <2>1, <2>2, <2>4, GoesOnTimes, Constants DEF Times, OnTime
<1> QED BY <1>2, <1>3, <1>4 DEF Wake

LEMMA NextTimes == FInv /\ Times /\ [Next]_vars => Times'
<1> SUFFICES ASSUME FInv, Times, [Next]_vars PROVE Times'
  OBVIOUS
<1>1. ASSUME UNCHANGED <<now, arg, tick, left, age>>, NEW t \in Thread,
             \A u \in Thread \ {t} : pc'[u] = pc[u], ~Timed(t), ~Timed(t)'
      PROVE  Times'
  BY <1>1, TimesStay DEF Others, Times, OnTime
<1>2. ASSUME NEW t \in Thread, Call(t) PROVE Times'
  <2>1. CASE sky_rwlock_create(t) \/ sky_rwlock_open(t)
             \/ \E g \in Handle : sky_rwlock_unlock(t, g)
    <3>1. UNCHANGED <<now, pc, arg, tick, left, age>> /\ pc[t] = "idle"
      BY <2>1 DEF sky_rwlock_create, sky_rwlock_open, sky_rwlock_unlock, UnlockRest, call
    <3> QED BY <1>1, <3>1 DEF Timed
  <2>2. CASE \E g \in Handle : sky_rwlock_destroy(t, g)
    <3>1. UNCHANGED <<now, arg, tick, left, age>> /\ pc[t] = "idle"
          /\ pc'[t] \in {"idle", "remove"} /\ \A u \in Thread \ {t} : pc'[u] = pc[u]
      BY <2>2 DEF sky_rwlock_destroy, FInv, Types
    <3> QED BY <1>1, <3>1 DEF Timed
  <2>3. ASSUME NEW g \in Handle, NEW timeout \in Timeouts \cup {0, SKY_INFINITE},
               sky_rwlock_wrlock(t, g, timeout) \/ sky_rwlock_rdlock(t, g, timeout)
        PROVE  Times'
    <3>1. "ex" \in Mode /\ "sh" \in Mode
      BY DEF Mode
    <3> QED BY <2>3, <3>1, LockTimes DEF sky_rwlock_wrlock, sky_rwlock_rdlock
  <2> QED BY <1>2, <2>1, <2>2, <2>3 DEF Call
<1>3. ASSUME NEW t \in Thread, Step(t) \/ Signal(t) PROVE Times'
  <2>1. CASE WaitGranted(t) \/ WaitInterrupted(t) \/ TryGranted(t) \/ Remove(t)
    <3>1. UNCHANGED now /\ Return(t)
      BY <2>1 DEF WaitGranted, WaitInterrupted, TryGranted, Remove
    <3> QED BY <3>1, ReturnTimes
  <2>2. CASE Block(t)
    <3>1. UNCHANGED <<now, arg, tick, left, age>> /\ pc[t] = "block" /\ pc'[t] = "wait"
          /\ \A u \in Thread \ {t} : pc'[u] = pc[u]
      BY <2>2 DEF Block, FInv, Types
    <3> QED BY <1>1, <3>1 DEF Timed
  <2> QED BY <1>3, <2>1, <2>2, TryFailsTimes, NapTimes DEF Step, Signal
<1>4. ASSUME NEW t \in Thread, Crash(t) PROVE Times'
  <2>1. \A u \in Thread : u \in Dead(t) => ~Timed(u)' /\ left'[u] = 0 /\ age'[u] = 0
    BY <1>4, CrashEffect DEF Timed
  <2>2. \A u \in Thread : u \notin Dead(t) =>
           /\ pc'[u] = pc[u] /\ arg'[u] = arg[u] /\ tick'[u] = tick[u]
           /\ left'[u] = left[u] /\ age'[u] = age[u] /\ UNCHANGED now
    BY <1>4, CrashEffect
  <2>3. \A u \in Thread : u \notin Dead(t) =>
           (Timed(u)' <=> Timed(u)) /\ (Clocked(u)' <=> Clocked(u)) /\ Late(u)' = Late(u)
    BY <2>2 DEF Timed, Clocked, Late
  <2> QED BY <2>1, <2>2, <2>3 DEF Times, OnTime
<1>5. CASE UNCHANGED vars
  BY <1>5 DEF vars, call, Times, OnTime, Timed, Clocked, Late
<1> QED BY <1>2, <1>3, <1>4, <1>5, TickTimes DEF Next
----------------------------------------------------------------------------
(* What callers were granted *)

LEMMA AskedEffect ==
  ASSUME FInv, NEW t \in Thread, NEW g \in Handle, NEW m, flock' = Asked(g, m), Forfeit(t, g, m)
  PROVE  /\ \A k \in Handle \ {g} : flock'[k] = flock[k]
         /\ flock[g] = m => flock'[g] = m
         /\ \A u \in Thread, k \in Handle :
              k \in lost'[u] <=> k \in lost[u] \/ (u = t /\ k = g /\ belief[t][g] \notin {"none", m})
<1> USE DEF FInv, Types
<1>1. /\ \A k \in Handle \ {g} : flock'[k] = flock[k]
      /\ flock[g] = m => flock'[g] = m
  BY DEF Asked
<1>2. \A u \in Thread, k \in Handle :
         k \in lost'[u] <=> k \in lost[u] \/ (u = t /\ k = g /\ belief[t][g] \notin {"none", m})
  BY DEF Forfeit
<1> QED BY <1>1, <1>2

LEMMA GrantedEffect ==
  ASSUME FInv, NEW t \in Thread, NEW g \in Handle, NEW m, Granted(t, g, m)
  PROVE  \A u \in Thread, k \in Handle :
            /\ belief'[u][k] = IF u = t /\ k = g THEN m ELSE belief[u][k]
            /\ k \in lost'[u] <=> k \in lost[u] /\ ~(u = t /\ k = g)
<1> USE DEF FInv, Types, Granted
<1>1. \A u \in Thread, k \in Handle : belief'[u][k] = IF u = t /\ k = g THEN m ELSE belief[u][k]
  OBVIOUS
<1>2. \A u \in Thread, k \in Handle : k \in lost'[u] <=> k \in lost[u] /\ ~(u = t /\ k = g)
  OBVIOUS
<1> QED BY <1>1, <1>2

\* The handles are the same and so is what is believed of them and lost.
LEMMA BeliefsStay ==
  ASSUME FInv, HInv, UNCHANGED <<fd, flock, belief, lost>>
  PROVE  HInv'
BY DEF HInv, Believers, HeldUntilReleased, Open

\* Asking takes away only what the thread itself gives up.
LEMMA AskedBeliefs ==
  ASSUME FInv, HInv, ~SharedHandles, NEW t \in Thread, Block(t) \/ TryFails(t)
  PROVE  HInv'
<1> DEFINE g == arg[t].handle
           m == arg[t].mode
<1>1. /\ flock' = Asked(g, m) /\ Forfeit(t, g, m) /\ UNCHANGED <<fd, belief>> /\ Handled(t)
  BY DEF Block, TryFails, files, Handled
<1>2. g \in Handle /\ fd[g].opener = t
  BY <1>1, HandledFacts
<1> HIDE DEF g, m
<1>3. Believers'
  BY <1>1 DEF HInv, Believers, Open
<1>4. HeldUntilReleased'
  <2> SUFFICES ASSUME NEW u \in Thread, NEW k \in Handle, belief[u][k] # "none", k \notin lost'[u]
               PROVE  k \in Open /\ flock'[k] = belief[u][k]
    BY <1>1 DEF HeldUntilReleased, Open
  <2>1. k \notin lost[u] /\ ~(u = t /\ k = g /\ belief[t][g] \notin {"none", m})
    BY <1>1, <1>2, AskedEffect
  <2>2. k \in Open /\ flock[k] = belief[u][k] /\ fd[k].opener = u
    BY <2>1 DEF HInv, Believers, HeldUntilReleased
  <2>3. CASE k # g
    BY <1>1, <1>2, <2>2, <2>3, AskedEffect
  <2>4. CASE k = g
    <3>1. u = t /\ belief[u][k] = m
      BY <1>2, <2>1, <2>2, <2>4
    <3> QED BY <1>1, <1>2, <2>2, <2>4, <3>1, AskedEffect
  <2> QED BY <2>3, <2>4
<1> QED BY <1>3, <1>4 DEF HInv

LEMMA GrantedBeliefs ==
  ASSUME FInv, HInv, ~SharedHandles, NEW t \in Thread, WaitGranted(t) \/ TryGranted(t)
  PROVE  HInv'
<1> DEFINE g == arg[t].handle
           m == arg[t].mode
<1>1. /\ flock' = [flock EXCEPT ![g] = m] /\ Granted(t, g, m) /\ UNCHANGED fd /\ Handled(t)
  BY DEF WaitGranted, TryGranted, files, Handled
<1>2. g \in Handle /\ g \in Open /\ fd[g].opener = t
  BY <1>1, HandledFacts
<1> HIDE DEF g, m
<1>3. Believers'
  BY <1>1, <1>2, GrantedEffect DEF HInv, Believers, Open
<1>4. HeldUntilReleased'
  <2> SUFFICES ASSUME NEW u \in Thread, NEW k \in Handle, belief'[u][k] # "none", k \notin lost'[u]
               PROVE  k \in Open /\ flock'[k] = belief'[u][k]
    BY <1>1 DEF HeldUntilReleased, Open
  <2>1. CASE u = t /\ k = g
    BY <1>1, <1>2, <2>1, GrantedEffect DEF FInv, Types
  <2>2. CASE ~(u = t /\ k = g)
    <3>1. belief'[u][k] = belief[u][k] /\ k \notin lost[u]
      BY <1>1, <1>2, <2>2, GrantedEffect
    <3>2. k \in Open /\ flock[k] = belief[u][k] /\ fd[k].opener = u
      BY <3>1 DEF HInv, Believers, HeldUntilReleased
    <3>3. k # g
      BY <1>2, <2>2, <3>2
    <3> QED BY <1>1, <1>2, <3>1, <3>2, <3>3 DEF FInv, Types
  <2> QED BY <2>1, <2>2
<1> QED BY <1>3, <1>4 DEF HInv

LEMMA UnlockBeliefs ==
  ASSUME FInv, HInv, ~SharedHandles, NEW t \in Thread, NEW g \in Handle, sky_rwlock_unlock(t, g)
  PROVE  HInv'
<1>1. /\ flock' = [flock EXCEPT ![g] = "none"] /\ UNCHANGED fd /\ Uses(t, g)
      /\ belief' = [belief EXCEPT ![t][g] = "none"] /\ lost' = [lost EXCEPT ![t] = @ \ {g}]
  BY DEF sky_rwlock_unlock, UnlockRest, files
<1>2. \A u \in Thread, k \in Handle :
         /\ belief'[u][k] = IF u = t /\ k = g THEN "none" ELSE belief[u][k]
         /\ ~(u = t /\ k = g) => (k \in lost'[u] <=> k \in lost[u])
         /\ k # g => flock'[k] = flock[k]
  BY <1>1 DEF FInv, Types
<1>3. fd[g].opener = t
  BY <1>1 DEF Uses
<1>4. Believers'
  BY <1>1, <1>2 DEF HInv, Believers, Open
<1>5. HeldUntilReleased'
  BY <1>1, <1>2, <1>3 DEF HInv, Believers, HeldUntilReleased, Open
<1> QED BY <1>4, <1>5 DEF HInv

LEMMA OpenBeliefs ==
  ASSUME FInv, HInv, ~SharedHandles, NEW t \in Thread, sky_rwlock_create(t) \/ sky_rwlock_open(t)
  PROVE  HInv'
<1>1. PICK g \in Handle \ Open, new \in HandleStruct : fd' = [fd EXCEPT ![g] = new]
  BY DEF sky_rwlock_create, sky_rwlock_open, HandleStruct, FInv, Types
<1>2. UNCHANGED <<flock, belief, lost>>
  BY DEF sky_rwlock_create, sky_rwlock_open
<1>3. \A k \in Open : k \in Open' /\ fd'[k] = fd[k]
  BY <1>1 DEF Open, FInv, Types
<1> QED BY <1>2, <1>3 DEF HInv, Believers, HeldUntilReleased

LEMMA ForgetBeliefs ==
  ASSUME FInv, HInv, NEW gs \in SUBSET Handle, Forget(gs)
  PROVE  HInv'
<1>1. Open' = Open \ gs /\ \A k \in Open \ gs : fd'[k] = fd[k]
  BY ForgetEffect DEF FInv
<1>2. \A u \in Thread, k \in Handle :
         /\ k \in gs => belief'[u][k] = "none"
         /\ k \notin gs => /\ belief'[u][k] = belief[u][k] /\ flock'[k] = flock[k]
                          /\ (k \in lost'[u] <=> k \in lost[u])
  BY DEF Forget
<1>3. Believers => Believers'
  BY <1>1, <1>2 DEF Believers
<1>4. HeldUntilReleased => HeldUntilReleased'
  <2> SUFFICES ASSUME HeldUntilReleased, NEW u \in Thread, NEW k \in Handle,
                      belief'[u][k] # "none", k \notin lost'[u]
               PROVE  k \in Open' /\ flock'[k] = belief'[u][k]
    BY DEF HeldUntilReleased
  <2> QED BY <1>1, <1>2 DEF HeldUntilReleased
<1> QED BY <1>3, <1>4 DEF HInv

LEMMA NextHInv == FInv /\ HInv /\ [Next]_vars => HInv'
<1> SUFFICES ASSUME FInv, HInv, [Next]_vars, ~SharedHandles PROVE HInv'
  BY DEF HInv
<1>1. ASSUME NEW t \in Thread, Call(t) PROVE HInv'
  <2>1. ASSUME NEW g \in Handle, sky_rwlock_destroy(t, g) PROVE HInv'
    BY <2>1, ForgetBeliefs DEF sky_rwlock_destroy
  <2>2. ASSUME NEW g \in Handle, NEW timeout \in Timeouts \cup {0, SKY_INFINITE},
               sky_rwlock_wrlock(t, g, timeout) \/ sky_rwlock_rdlock(t, g, timeout)
        PROVE  HInv'
    BY <2>2, BeliefsStay DEF sky_rwlock_wrlock, sky_rwlock_rdlock, Lock, files
  <2> QED BY <1>1, <2>1, <2>2, OpenBeliefs, UnlockBeliefs DEF Call
<1>2. ASSUME NEW t \in Thread, Step(t) \/ Signal(t) PROVE HInv'
  <2>1. CASE Remove(t) \/ WaitInterrupted(t) \/ NapInterrupted(t) \/ Wake(t)
    <3>1. UNCHANGED <<fd, flock, belief, lost>>
      BY <2>1 DEF Remove, WaitInterrupted, NapInterrupted, Wake, files
    <3> QED BY <3>1, BeliefsStay
  <2> QED BY <1>2, <2>1, AskedBeliefs, GrantedBeliefs DEF Step, Signal
<1>3. ASSUME NEW t \in Thread, Crash(t) PROVE HInv'
  <2>1. {g \in Open : fd[g].opener \in Dead(t)} \subseteq Handle
    BY DEF Open
  <2> QED BY <1>3, <2>1, CrashEffect, ForgetBeliefs
<1>4. CASE Tick \/ UNCHANGED vars
  BY <1>4, BeliefsStay DEF Tick, vars, files
<1> QED BY <1>1, <1>2, <1>3, <1>4 DEF Next

LEMMA NextInv == IInv /\ [Next]_vars => IInv'
BY NextFInv, NextTimes, NextHInv DEF IInv

LEMMA InvHolds == Spec => []IInv
BY InitInv, NextInv, PTL DEF Spec
----------------------------------------------------------------------------
(* The refinement *)

LEMMA ModesStay ==
  ASSUME UNCHANGED <<fd, belief, lost>>
  PROVE  UNCHANGED <<LockOf, ModeOf>>
BY DEF LockOf, ModeOf, HeldMode

LEMMA ModeSet ==
  ASSUME FInv, UNCHANGED fd, NEW g \in Open, NEW m, HeldMode(g)' = m,
         \A k \in Open \ {g} : HeldMode(k)' = HeldMode(k)
  PROVE  LockOf' = LockOf /\ ModeOf' = [ModeOf EXCEPT ![g] = m]
<1>1. LockOf' = LockOf
  BY DEF LockOf
<1>2. \A k \in Handle : ModeOf'[k] = IF k = g THEN m ELSE ModeOf[k]
  BY DEF ModeOf, Open
<1>3. g \in Handle /\ ModeOf = [k \in Handle |-> ModeOf[k]] /\ ModeOf' = [k \in Handle |-> ModeOf'[k]]
  BY DEF ModeOf, Open
<1> QED BY <1>1, <1>2, <1>3

LEMMA AskIsGiveUp ==
  ASSUME IInv, ~SharedHandles, NEW t \in Thread, Block(t) \/ TryFails(t)
  PROVE  [Abstract!Next]_(Abstract!vars)
<1>0. Handled(t) /\ FInv
  BY DEF Block, TryFails, Handled, IInv
<1>1. PICK g \in Handle, m \in Mode :
         /\ flock' = Asked(g, m) /\ Forfeit(t, g, m) /\ UNCHANGED <<fd, belief>> /\ FInv
         /\ g = arg[t].handle
  BY <1>0, HandledFacts DEF Block, TryFails, files
<1>2. g \in Handle /\ g \in Open /\ fd[g].opener = t
  BY <1>0, <1>1, HandledFacts
<1>3. CASE belief[t][g] \in {"none", m}
  <2>1. UNCHANGED lost
    BY <1>1, <1>3 DEF Forfeit
  <2> QED BY <1>1, <2>1, ModesStay DEF Abstract!vars
<1>4. CASE belief[t][g] \notin {"none", m}
  <2>1. HeldMode(g)' = "none"
    BY <1>1, <1>2, <1>4, AskedEffect DEF HeldMode
  <2>2. \A k \in Open \ {g} : HeldMode(k)' = HeldMode(k)
    <3>1. \A k \in Open : k \in Handle /\ fd[k].opener \in Thread
      BY <1>1 DEF FInv, Types, Open, HandleStruct
    <3> QED BY <1>1, <1>2, <3>1, AskedEffect DEF HeldMode
  <2>3. Abstract!GiveUp(g)
    BY <1>1, <1>2, <2>1, <2>2, ModeSet DEF Abstract!GiveUp
  <2> QED BY <1>2, <2>3 DEF Abstract!Next
<1> QED BY <1>3, <1>4

LEMMA GrantIsTake ==
  ASSUME IInv, ~SharedHandles, NEW t \in Thread, WaitGranted(t) \/ TryGranted(t)
  PROVE  [Abstract!Next]_(Abstract!vars)
<1>0. Handled(t) /\ FInv
  BY DEF WaitGranted, TryGranted, Handled, IInv
<1>1. PICK g \in Handle, m \in Mode :
         /\ Compatible(g, m) /\ Granted(t, g, m) /\ UNCHANGED fd /\ FInv
         /\ g = arg[t].handle
  BY <1>0, HandledFacts DEF WaitGranted, TryGranted, files
<1>2. g \in Handle /\ g \in Open /\ fd[g] # None /\ fd[g].opener = t /\ m \in {"sh", "ex"}
      /\ fd[g].inode # None
  BY <1>0, <1>1, HandledFacts, Constants DEF Mode, Open, HandleStruct
<1>3. \A k \in Open : k \in Handle /\ fd[k].opener \in Thread
  BY <1>1 DEF FInv, Types, Open, HandleStruct
<1>4. HeldMode(g)' = m
  BY <1>1, <1>2, GrantedEffect DEF HeldMode
<1>5. \A k \in Open \ {g} : HeldMode(k)' = HeldMode(k)
  BY <1>1, <1>2, <1>3, GrantedEffect DEF HeldMode
<1>6. LockOf' = LockOf /\ ModeOf' = [ModeOf EXCEPT ![g] = m]
  BY <1>1, <1>2, <1>4, <1>5, ModeSet
<1>7. LockOf[g] # None
  BY <1>2 DEF LockOf
<1>8. \A k \in Handle \ {g} :
         LockOf[k] = LockOf[g] => ModeOf[k] = "none" \/ (ModeOf[k] = "sh" /\ m = "sh")
  <2> SUFFICES ASSUME NEW k \in Handle \ {g}, LockOf[k] = LockOf[g], ModeOf[k] # "none"
               PROVE  ModeOf[k] = "sh" /\ m = "sh"
    OBVIOUS
  <2>1. k \in Open /\ ModeOf[k] = HeldMode(k) /\ fd[k].inode = fd[g].inode
    BY <1>2 DEF ModeOf, LockOf, Open
  <2>2. LET u == fd[k].opener IN u \in Thread /\ k \notin lost[u] /\ belief[u][k] = ModeOf[k]
    BY <1>3, <2>1 DEF HeldMode
  <2>3. flock[k] = ModeOf[k]
    BY <2>1, <2>2 DEF IInv, HInv, HeldUntilReleased
  <2> QED BY <1>1, <2>1, <2>3 DEF Compatible
<1>9. Abstract!Take(g, m)
  BY <1>6, <1>7, <1>8 DEF Abstract!Take, Abstract!Free
<1> QED BY <1>2, <1>9 DEF Abstract!Next

LEMMA UnlockIsGiveUp ==
  ASSUME IInv, ~SharedHandles, NEW t \in Thread, NEW g \in Handle, sky_rwlock_unlock(t, g)
  PROVE  [Abstract!Next]_(Abstract!vars)
<1>1. /\ UNCHANGED fd /\ Uses(t, g) /\ FInv
      /\ belief' = [belief EXCEPT ![t][g] = "none"] /\ lost' = [lost EXCEPT ![t] = @ \ {g}]
  BY DEF sky_rwlock_unlock, UnlockRest, files, IInv
<1>2. \A u \in Thread, k \in Handle :
         /\ belief'[u][k] = IF u = t /\ k = g THEN "none" ELSE belief[u][k]
         /\ ~(u = t /\ k = g) => (k \in lost'[u] <=> k \in lost[u])
  BY <1>1 DEF FInv, Types
<1>3. fd[g].opener = t /\ g \in Open
  BY <1>1 DEF Uses
<1>4. \A k \in Open : k \in Handle /\ fd[k].opener \in Thread
  BY <1>1 DEF FInv, Types, Open, HandleStruct
<1>5. HeldMode(g)' = "none"
  BY <1>1, <1>2, <1>3 DEF HeldMode
<1>6. \A k \in Open \ {g} : HeldMode(k)' = HeldMode(k)
  BY <1>1, <1>2, <1>4 DEF HeldMode
<1>7. Abstract!GiveUp(g)
  BY <1>1, <1>3, <1>5, <1>6, ModeSet DEF Abstract!GiveUp
<1> QED BY <1>7 DEF Abstract!Next

LEMMA OpenIsAttach ==
  ASSUME IInv, ~SharedHandles, NEW t \in Thread, sky_rwlock_create(t) \/ sky_rwlock_open(t)
  PROVE  [Abstract!Next]_(Abstract!vars)
<1>1. PICK g \in Handle \ Open, new \in HandleStruct : fd' = [fd EXCEPT ![g] = new]
  BY DEF sky_rwlock_create, sky_rwlock_open, HandleStruct, IInv, FInv, Types
<1>2. UNCHANGED <<flock, belief, lost>>
  BY DEF sky_rwlock_create, sky_rwlock_open
<1>3. /\ fd[g] = None /\ fd'[g] = new /\ new # None /\ new.inode \in Inode /\ new.opener \in Thread
      /\ \A k \in Handle \ {g} : fd'[k] = fd[k]
  BY <1>1, Constants DEF Open, HandleStruct, IInv, FInv, Types
<1>4. \A u \in Thread : belief[u][g] = "none"
  BY <1>1 DEF IInv, HInv, Believers
<1>5. LockOf' = [k \in Handle |-> IF k \in {g} THEN new.inode ELSE LockOf[k]]
  BY <1>3 DEF LockOf
<1>6. ModeOf' = ModeOf
  BY <1>2, <1>3, <1>4 DEF ModeOf, HeldMode
<1>7. \A k \in {g} : LockOf[k] = None
  BY <1>3 DEF LockOf
<1>8. Abstract!Attach({g})
  BY <1>3, <1>5, <1>6, <1>7 DEF Abstract!Attach
<1>9. {g} \in SUBSET Handle
  OBVIOUS
<1> QED BY <1>8, <1>9 DEF Abstract!Next

LEMMA ForgetIsDetach ==
  ASSUME IInv, NEW gs \in SUBSET Handle, Forget(gs)
  PROVE  [Abstract!Next]_(Abstract!vars)
<1>1. \A k \in Handle : fd'[k] = IF k \in gs THEN None ELSE fd[k]
  BY DEF Forget
<1>2. \A u \in Thread, k \in Handle :
         k \notin gs => belief'[u][k] = belief[u][k] /\ (k \in lost'[u] <=> k \in lost[u])
  BY DEF Forget
<1>3. \A k \in Handle : fd[k] # None => fd[k].opener \in Thread
  BY DEF IInv, FInv, Types, HandleStruct
<1>4. LockOf' = [k \in Handle |-> IF k \in gs THEN None ELSE LockOf[k]]
  BY <1>1 DEF LockOf
<1>5. ModeOf' = [k \in Handle |-> IF k \in gs THEN "none" ELSE ModeOf[k]]
  BY <1>1, <1>2, <1>3 DEF ModeOf, HeldMode
<1>6. Abstract!Detach(gs)
  BY <1>4, <1>5 DEF Abstract!Detach
<1> QED BY <1>6 DEF Abstract!Next

LEMMA InitImplements == Init => Abstract!Init
BY DEF Init, Abstract!Init, LockOf, ModeOf

LEMMA NextImplements ==
  ASSUME IInv, ~SharedHandles, [Next]_vars
  PROVE  [Abstract!Next]_(Abstract!vars)
<1>1. ASSUME UNCHANGED <<fd, belief, lost>> PROVE [Abstract!Next]_(Abstract!vars)
  BY <1>1, ModesStay DEF Abstract!vars
<1>2. ASSUME NEW t \in Thread, Call(t) PROVE [Abstract!Next]_(Abstract!vars)
  <2>1. ASSUME NEW g \in Handle, sky_rwlock_destroy(t, g) PROVE [Abstract!Next]_(Abstract!vars)
    BY <2>1, ForgetIsDetach DEF sky_rwlock_destroy
  <2>2. ASSUME NEW g \in Handle, NEW timeout \in Timeouts \cup {0, SKY_INFINITE},
               sky_rwlock_wrlock(t, g, timeout) \/ sky_rwlock_rdlock(t, g, timeout)
        PROVE  [Abstract!Next]_(Abstract!vars)
    BY <1>1, <2>2 DEF sky_rwlock_wrlock, sky_rwlock_rdlock, Lock, files
  <2> QED BY <1>2, <2>1, <2>2, OpenIsAttach, UnlockIsGiveUp DEF Call
<1>3. ASSUME NEW t \in Thread, Step(t) \/ Signal(t) PROVE [Abstract!Next]_(Abstract!vars)
  <2>1. CASE Remove(t) \/ WaitInterrupted(t) \/ NapInterrupted(t) \/ Wake(t)
    BY <1>1, <2>1 DEF Remove, WaitInterrupted, NapInterrupted, Wake, files
  <2> QED BY <1>3, <2>1, AskIsGiveUp, GrantIsTake DEF Step, Signal
<1>4. ASSUME NEW t \in Thread, Crash(t) PROVE [Abstract!Next]_(Abstract!vars)
  <2>1. {g \in Open : fd[g].opener \in Dead(t)} \subseteq Handle
    BY DEF Open
  <2> QED BY <1>4, <2>1, CrashEffect, ForgetIsDetach
<1>5. CASE Tick \/ UNCHANGED vars
  BY <1>1, <1>5 DEF Tick, vars, files
<1> QED BY <1>2, <1>3, <1>4, <1>5 DEF Next
----------------------------------------------------------------------------
(* The theorems *)

\* As long as a creator's handle is open the lock's file name is its own: its
\* open has O_EXCL (sky_rwlock.c:70), and only it removes the name (148).
THEOREM CreatorHasName == Spec => []CreatorKeepsFile
<1>1. IInv => CreatorKeepsFile
  BY DEF IInv, FInv
<1> QED BY InvHolds, <1>1, PTL

\* A timed call gives up within one nap of its timeout, on a clock that wraps
\* too (sky_rwlock.c:192, 247), whatever the threads and signals do, and every
\* variable has its type.
THEOREM TimedCallsEnd == Spec => []TimeoutKept
<1>1. IInv => TypeOK
  <2> SUFFICES ASSUME IInv PROVE TypeOK
    OBVIOUS
  <2>1. left \in [Thread -> (-Slack - 1)..Nap]
    <3>1. ASSUME NEW t \in Thread PROVE left[t] \in (-Slack - 1)..Nap
      <4>1. left[t] \in Int /\ OnTime(t)
        BY DEF IInv, FInv, Types, Times
      <4>2. CASE Timed(t)
        BY <4>1, <4>2, Constants DEF OnTime
      <4>3. CASE ~Timed(t)
        BY <4>1, <4>3, Constants DEF OnTime
      <4> QED BY <4>2, <4>3
    <3> QED BY <3>1 DEF IInv, FInv, Types
  <2>2. \A t \in Thread : arg[t] = NoCall \/ arg[t] \in
           [handle : Open, mode : Mode, timeout : Timeouts \cup {0, SKY_INFINITE}]
    BY DEF IInv, FInv, Types, Calls, Uses
  <2> QED BY <2>1, <2>2 DEF TypeOK, IInv, FInv, Types
<1>2. IInv => \A t \in Thread : arg[t].timeout \in Timeouts => age[t] <= arg[t].timeout + Nap + 2 * Slack
  <2> SUFFICES ASSUME IInv, NEW t \in Thread, arg[t].timeout \in Timeouts
               PROVE  age[t] <= arg[t].timeout + Nap + 2 * Slack
    OBVIOUS
  <2>1. CASE Timed(t)
    BY <2>1, TimedFacts DEF IInv
  <2>2. CASE ~Timed(t)
    BY <2>2, Constants DEF IInv, Times, OnTime
  <2> QED BY <2>1, <2>2
<1>3. IInv => TimeoutKept
  BY <1>1, <1>2 DEF TimeoutKept
<1> QED BY InvHolds, <1>3, PTL

\* What a thread was granted it has until it gives it up itself, as long as
\* each thread uses the handles it opened.  With shared handles it is not so:
\* flock knows the descriptor and not the thread (sky_rwlock.c:174, 280).
THEOREM LocksKept == ASSUME ~SharedHandles PROVE Spec => []HeldUntilReleased
<1>1. IInv => HeldUntilReleased
  BY DEF IInv, HInv
<1> QED BY InvHolds, <1>1, PTL

\* A named lock whose handles are not shared is the readers-writer lock of
\* SkyRwlockSpec, with the handles as clients, however its calls wait, time out
\* or are interrupted and wherever a process dies (sky_rwlock.c:161, 216).
THEOREM RwlockIsLock == ASSUME ~SharedHandles PROVE Spec => ImplementsLock
<1>1. Init => Abstract!Init
  BY InitImplements
<1>2. IInv /\ [Next]_vars => [Abstract!Next]_(Abstract!vars)
  BY NextImplements
<1> QED BY <1>1, <1>2, InvHolds, PTL DEF Spec, ImplementsLock, Abstract!Spec

\* What the refinement is good for: of two handles of one lock, none has
\* anything while the other writes.
WritersAlone == \A g, h \in Handle :
    g # h /\ LockOf[g] # None /\ LockOf[g] = LockOf[h] /\ ModeOf[g] = "ex" => ModeOf[h] = "none"

\* The promises of SkyRwlockSpec, as an invariant of it: a client without a
\* lock has nothing of it.
Promised == /\ LockOf \in [Handle -> Inode \cup {None}]
            /\ ModeOf \in [Handle -> {"none", "sh", "ex"}]
            /\ \A g \in Handle : LockOf[g] = None => ModeOf[g] = "none"
            /\ WritersAlone

\* Every step of the abstract lock keeps them: who takes finds the lock free,
\* who attaches had nothing.
LEMMA PromisedNext == Promised /\ [Abstract!Next]_(Abstract!vars) => Promised'
<1> SUFFICES ASSUME Promised, [Abstract!Next]_(Abstract!vars) PROVE Promised'
  OBVIOUS
<1>1. ASSUME NEW g \in Handle, Abstract!GiveUp(g) PROVE Promised'
  BY <1>1 DEF Abstract!GiveUp, Promised, WritersAlone
<1>2. ASSUME NEW g \in Handle, NEW m \in {"sh", "ex"}, Abstract!Take(g, m) PROVE Promised'
  BY <1>2 DEF Abstract!Take, Abstract!Free, Promised, WritersAlone
<1>3. ASSUME NEW some \in SUBSET Handle, Abstract!Attach(some) PROVE Promised'
  BY <1>3 DEF Abstract!Attach, Promised, WritersAlone
<1>4. ASSUME NEW some \in SUBSET Handle, Abstract!Detach(some) PROVE Promised'
  BY <1>4 DEF Abstract!Detach, Promised, WritersAlone
<1>5. CASE UNCHANGED Abstract!vars
  BY <1>5 DEF Abstract!vars, Promised, WritersAlone
<1> QED BY <1>1, <1>2, <1>3, <1>4, <1>5 DEF Abstract!Next

\* While a handle that nobody else uses holds the write lock of a file in /tmp,
\* no other handle of that file holds a lock of either kind, in any process
\* (sky_rwlock.c:161, 216).
THEOREM WritersExclude == ASSUME ~SharedHandles PROVE Spec => []WritersAlone
<1>1. Abstract!Init => Promised
  BY DEF Abstract!Init, Promised, WritersAlone
<1>2. Promised /\ [Abstract!Next]_(Abstract!vars) => Promised'
  BY PromisedNext
<1>3. Promised => WritersAlone
  BY DEF Promised
<1> QED BY <1>1, <1>2, <1>3, RwlockIsLock, PTL DEF ImplementsLock, Abstract!Spec
=============================================================================
