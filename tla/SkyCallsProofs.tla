--------------------------- MODULE SkyCallsProofs ---------------------------
(* Proofs about the calls of MCSkyCalls, for any number of threads, any      *)
(* timeouts, texts, expressions, routing tables, descriptors and users of    *)
(* the library.  Each part has an invariant of its own; as a step of the     *)
(* whole is a step of one part, each holds in the whole, whatever is fair.   *)
(* That of the critical section is in SkyCriticalSectionProofs.              *)
(*                                                                           *)
(* LockInv.  What a call has waited is not in any variable of the code, only *)
(* the time left until its deadline.  LockAges relates the two by what the   *)
(* clock was set; LockLate says that the time left gets below zero only as   *)
(* far as a sleeper is late, or the clock was set ahead.                     *)
(*                                                                           *)
(* RegexInv.  What parse has listed and what it will still list from where   *)
(* it is are together what findall gives (Listing); what match has counted   *)
(* wraps with its type (Counting).  findall is recursive over the text, so   *)
(* the list still to come is a function of the place of the next search,     *)
(* whose equation is all that the proof uses.  A search that finds the empty *)
(* string where it began does so for ever (Stuck).                           *)
(*                                                                           *)
(* GatewayInv.  What was received and the datagrams on their way are the     *)
(* routing table and its end (Receiving), unless the buffer is full: a       *)
(* message cut at its end leaves no room for the next, and the call fails    *)
(* before it answers.  DescriptorInv gives every descriptor of a call to the *)
(* call that runs.                                                           *)
(*                                                                           *)
(* LibraryInv.  The starts and stops of the users explain the count          *)
(* (Counted), and how far a start, a stop or a rollback has come tells       *)
(* which modules run and whether the registry is there.                      *)
EXTENDS MCSkyCalls, SkyCriticalSectionProofs, FiniteSetTheorems, SequenceTheorems,
        WellFoundedInduction, TLAPS

\* What % and \div are.
LEMMA Division ==
  ASSUME NEW S \in Nat, S > 0, NEW a \in Int
  PROVE  /\ a % S \in 0..(S - 1) /\ a \div S \in Int /\ S * (a \div S) \in Int
         /\ a = S * (a \div S) + (a % S)
OBVIOUS

\* A set of numbers has a least one.
LEMMA Least ==
  ASSUME NEW S \in SUBSET Nat, S # {}
  PROVE  \E k \in S : \A j \in S : k <= j
<1>1. \E k \in S : \A j \in S : ~ (<<j, k>> \in OpToRel(<, Nat))
  BY NatLessThanWellFounded, WFMin
<1>2. ASSUME NEW k \in Nat, NEW j \in Nat, j < k
      PROVE  <<j, k>> \in OpToRel(<, Nat)
  <2>1. <<j, k>> \in Nat \X Nat /\ <<j, k>>[1] < <<j, k>>[2]
    BY <1>2
  <2> QED BY <2>1 DEF OpToRel
<1>3. \A k, j \in Nat : k <= j \/ j < k
  OBVIOUS
<1> QED BY <1>1, <1>2, <1>3

----------------------------------------------------------------------------
(* The anonymous lock *)

LockTypes ==
    /\ rwLive \in BOOLEAN /\ rwReaders \in [RwThread -> 0..MaxRead] /\ rwWriter \in RwThread \cup {None}
    /\ rwPc \in [RwThread -> {"idle", "try", "wait"}]
    /\ rwMode \in [RwThread -> {"none", "sh", "ex"}]
    /\ rwTimeout \in [RwThread -> Timeouts \cup {0, Rwlock!SKY_INFINITE}]
    /\ rwDeadline \in [RwThread -> [sec : Int, msec : 0..(Second - 1)]]
    /\ rwWall \in 0..(Second - 1) /\ rwJumps \in 0..MaxJumps
    /\ rwAge \in [RwThread -> Nat] /\ rwAhead \in [RwThread -> Nat] /\ rwBack \in [RwThread -> Nat]

\* Readers and the writer exclude each other.
LockExcludes == rwWriter # None => \A t \in RwThread : rwReaders[t] = 0

\* A call is on a lock that exists, for one of two modes, and has room for one
\* read lock more.
LockCalls == \A t \in RwThread : rwPc[t] # "idle" =>
            rwLive /\ rwMode[t] \in {"sh", "ex"} /\ (rwMode[t] = "sh" => rwReaders[t] < MaxRead)

\* Nobody holds a lock that does not exist.
LockClosed == ~rwLive => rwWriter = None /\ \A t \in RwThread : rwReaders[t] = 0

LockAges == \A t \in RwThread :
           IF Rwlock!Timed(t) THEN rwAge[t] + rwAhead[t] = rwTimeout[t] + rwBack[t] - Rwlock!Left(t)
                       ELSE rwAge[t] = 0 /\ rwAhead[t] = 0 /\ rwBack[t] = 0

LockLate == \A t \in RwThread : Rwlock!Timed(t) => -rwAhead[t] - Rwlock!Left(t) <= Slack

LockInv == LockTypes /\ LockExcludes /\ LockCalls /\ LockClosed /\ LockAges /\ LockLate

\* Constants are what AnonAssumption says.
LEMMA LockConstants ==
  ASSUME Rwlock!AnonAssumption
  PROVE  /\ None \notin RwThread /\ None # "it" /\ Second \in Nat /\ Second > 0
         /\ \A ms \in Timeouts : ms \in Nat /\ ms > 0
         /\ Slack \in Nat /\ MaxRead \in Nat /\ MaxJumps \in Nat
         /\ \A ms \in Jumps : ms \in Int
         /\ Rwlock!SKY_INFINITE \notin Timeouts /\ 0 \notin Timeouts
BY DEF Rwlock!AnonAssumption, Rwlock!SKY_INFINITE

\* A deadline is a valid timespec (sky_abstime_after_msec), and the time left
\* until it is the timeout.
LEMMA AbstimeIsTimeout ==
  ASSUME Rwlock!AnonAssumption, rwWall \in 0..(Second - 1), NEW ms \in Timeouts
  PROVE  LET d == Rwlock!sky_abstime_after_msec(ms) IN
         /\ d \in [sec : Int, msec : 0..(Second - 1)]
         /\ d.sec * Second + d.msec - rwWall = ms
<1> DEFINE over == rwWall + (ms % Second)
<1> USE LockConstants
<1>0. ms \in Int
  OBVIOUS
<1>1. /\ ms % Second \in 0..(Second - 1) /\ ms \div Second \in Int
      /\ Second * (ms \div Second) \in Int
      /\ ms = Second * (ms \div Second) + (ms % Second)
  BY <1>0, Division
<1>2. over \in Int
  BY <1>1
<1> HIDE DEF over
<1>3. /\ over % Second \in 0..(Second - 1) /\ over \div Second \in Int
      /\ Second * (over \div Second) \in Int
      /\ over = Second * (over \div Second) + (over % Second)
  BY <1>2, Division
<1>4. Rwlock!sky_abstime_after_msec(ms) =
        [sec |-> ms \div Second + over \div Second, msec |-> over % Second]
  BY DEF Rwlock!sky_abstime_after_msec, over
<1>5. (ms \div Second + over \div Second) * Second =
         Second * (ms \div Second) + Second * (over \div Second)
  BY <1>1, <1>3
<1>6. over = rwWall + (ms % Second)
  BY DEF over
<1> HIDE LockConstants
<1>7. ms \div Second + over \div Second \in Int
  BY <1>1, <1>3
<1>8. Rwlock!sky_abstime_after_msec(ms) \in [sec : Int, msec : 0..(Second - 1)]
  BY <1>3, <1>4, <1>7
<1>9. (ms \div Second + over \div Second) * Second + (over % Second) - rwWall = ms
  <2>1. Second \in Nat
    BY LockConstants
  <2> QED BY <2>1, <1>0, <1>1, <1>3, <1>5, <1>6
<1> QED BY <1>4, <1>8, <1>9

\* A new lock is free and nobody calls.
LEMMA LockInit == Rwlock!AnonAssumption /\ Rwlock!Init => LockInv
<1> SUFFICES ASSUME Rwlock!AnonAssumption, Rwlock!Init PROVE LockInv
  OBVIOUS
<1>1. LockTypes
  <2>1. rwDeadline \in [RwThread -> [sec : Int, msec : 0..(Second - 1)]]
    <3>1. Rwlock!NoDeadline \in [sec : Int, msec : 0..(Second - 1)]
      BY LockConstants DEF Rwlock!NoDeadline
    <3> QED BY <3>1 DEF Rwlock!Init
  <2>2. /\ rwWall \in 0..(Second - 1) /\ rwJumps \in 0..MaxJumps
        /\ rwReaders \in [RwThread -> 0..MaxRead]
    BY LockConstants DEF Rwlock!Init
  <2> QED BY <2>1, <2>2 DEF Rwlock!Init, LockTypes
<1>2. LockExcludes /\ LockCalls /\ LockClosed
  BY DEF Rwlock!Init, LockExcludes, LockCalls, LockClosed
<1>3. LockAges /\ LockLate
  BY DEF Rwlock!Init, LockAges, LockLate, Rwlock!Timed
<1> QED BY <1>1, <1>2, <1>3 DEF LockInv

\* The clock moves by ms: every deadline that is waited for is ms nearer.
LEMMA MoveClockBrings ==
  ASSUME Rwlock!AnonAssumption, LockInv, NEW ms \in Int, Rwlock!MoveClock(ms),
         UNCHANGED <<rwPc, rwTimeout>>
  PROVE  /\ rwWall' \in 0..(Second - 1)
         /\ rwDeadline' \in [RwThread -> [sec : Int, msec : 0..(Second - 1)]]
         /\ \A t \in RwThread : /\ Rwlock!Timed(t)' = Rwlock!Timed(t)
                                /\ Rwlock!Timed(t) => Rwlock!Left(t) \in Int /\ Rwlock!Left(t)' = Rwlock!Left(t) - ms
<1> USE LockConstants DEF LockInv, LockTypes
<1> DEFINE to == rwWall + ms
<1>1. to \in Int /\ to = rwWall + ms
  OBVIOUS
<1>2. rwWall' = to % Second
      /\ rwDeadline' = [t \in RwThread |->
            IF Rwlock!Timed(t) THEN [rwDeadline[t] EXCEPT !.sec = @ - to \div Second] ELSE rwDeadline[t]]
  BY DEF Rwlock!MoveClock
<1> HIDE DEF to
<1>3. /\ to % Second \in 0..(Second - 1) /\ to \div Second \in Int
      /\ Second * (to \div Second) \in Int
      /\ to = Second * (to \div Second) + (to % Second)
  BY <1>1, Division
<1>4. rwDeadline' \in [RwThread -> [sec : Int, msec : 0..(Second - 1)]]
  BY <1>2, <1>3
<1>5. ASSUME NEW t \in RwThread
      PROVE  /\ Rwlock!Timed(t)' = Rwlock!Timed(t)
             /\ Rwlock!Timed(t) => Rwlock!Left(t) \in Int /\ Rwlock!Left(t)' = Rwlock!Left(t) - ms
  <2>1. Rwlock!Timed(t)' = Rwlock!Timed(t)
    BY DEF Rwlock!Timed
  <2>2. ASSUME Rwlock!Timed(t)
        PROVE Rwlock!Left(t) \in Int /\ Rwlock!Left(t)' = Rwlock!Left(t) - ms
    <3>1. rwDeadline'[t].sec = rwDeadline[t].sec - to \div Second
          /\ rwDeadline'[t].msec = rwDeadline[t].msec
      BY <1>2, <2>2
    <3>2. rwDeadline[t].sec \in Int /\ rwDeadline[t].msec \in Int
      OBVIOUS
    <3>3. (rwDeadline[t].sec - to \div Second) * Second =
            rwDeadline[t].sec * Second - Second * (to \div Second)
      BY <1>3, <3>2
    <3>4. rwDeadline[t].sec * Second \in Int
      BY <3>2
    <3>5. Rwlock!Left(t)' = rwDeadline'[t].sec * Second + rwDeadline'[t].msec - rwWall'
      BY DEF Rwlock!Left
    <3>6. Rwlock!Left(t) = rwDeadline[t].sec * Second + rwDeadline[t].msec - rwWall
      BY DEF Rwlock!Left
    <3>7. rwWall \in Int
      OBVIOUS
    <3> HIDE LockConstants DEF LockInv, LockTypes
    <3>8. rwWall' = to - Second * (to \div Second)
      <4>1. Second \in Nat
        BY LockConstants
      <4> QED BY <4>1, <1>1, <1>2, <1>3
    <3>9. Rwlock!Left(t)' = rwDeadline[t].sec * Second - Second * (to \div Second)
                       + rwDeadline[t].msec - (to - Second * (to \div Second))
      BY <3>1, <3>3, <3>5, <3>8
    <3>10. \A a, b, c, w \in Int : a - b + c - (w + ms - b) = a + c - w - ms
      OBVIOUS
    <3> QED BY <1>1, <1>3, <3>2, <3>4, <3>6, <3>7, <3>9, <3>10
  <2> QED BY <2>1, <2>2
<1> QED BY <1>2, <1>3, <1>4, <1>5

\* A call of t returns, with the lock or without it.
LEMMA ReturnKeepsInv ==
  ASSUME Rwlock!AnonAssumption, LockInv, NEW t \in RwThread, Rwlock!Return(t), UNCHANGED <<rwLive, rwWall, rwJumps>>,
         rwReaders' \in [RwThread -> 0..MaxRead], rwWriter' \in RwThread \cup {None},
         \A u \in RwThread \ {t} : rwReaders'[u] = rwReaders[u],
         LockExcludes', rwLive \/ UNCHANGED <<rwReaders, rwWriter>>
  PROVE  LockInv'
<1>1. LockTypes'
  <2>1. Rwlock!NoDeadline \in [sec : Int, msec : 0..(Second - 1)]
    BY LockConstants DEF Rwlock!NoDeadline
  <2>2. 0 \in Timeouts \cup {0, Rwlock!SKY_INFINITE}
    OBVIOUS
  <2> QED BY <2>1, <2>2 DEF LockInv, LockTypes, Rwlock!Return
<1>2. /\ rwPc'[t] = "idle" /\ rwAge'[t] = 0 /\ rwAhead'[t] = 0 /\ rwBack'[t] = 0
      /\ \A u \in RwThread \ {t} :
            /\ rwPc'[u] = rwPc[u] /\ rwMode'[u] = rwMode[u] /\ rwTimeout'[u] = rwTimeout[u]
            /\ rwDeadline'[u] = rwDeadline[u]
            /\ rwAge'[u] = rwAge[u] /\ rwAhead'[u] = rwAhead[u] /\ rwBack'[u] = rwBack[u]
  BY DEF Rwlock!Return, LockInv, LockTypes
<1>3. LockCalls' /\ LockClosed'
  BY <1>2 DEF LockInv, LockCalls, LockClosed
<1>4. /\ ~Rwlock!Timed(t)'
      /\ \A u \in RwThread \ {t} :
            Rwlock!Timed(u)' = Rwlock!Timed(u) /\ Rwlock!Left(u)' = Rwlock!Left(u)
  BY <1>2 DEF Rwlock!Timed, Rwlock!Left
<1>5. LockAges' /\ LockLate'
  BY <1>2, <1>4 DEF LockInv, LockAges, LockLate
<1> QED BY <1>1, <1>3, <1>5 DEF LockInv

\* So does a call that is given the lock.
LEMMA GrantedKeepsInv ==
  ASSUME Rwlock!AnonAssumption, LockInv, NEW t \in RwThread, Rwlock!Granted(t)
  PROVE  LockInv'
<1>1. rwLive /\ rwMode[t] \in {"sh", "ex"} /\ (rwMode[t] = "sh" => rwReaders[t] < MaxRead)
  BY DEF Rwlock!Granted, LockInv, LockCalls
<1>2. CASE rwMode[t] = "sh"
  <2>1. rwWriter = None /\ UNCHANGED rwWriter /\ rwReaders' = [rwReaders EXCEPT ![t] = rwReaders[t] + 1]
    BY <1>2 DEF Rwlock!Granted, Rwlock!Free, Rwlock!Grant
  <2>2. rwReaders' \in [RwThread -> 0..MaxRead]
    BY <1>1, <1>2, <2>1, LockConstants DEF LockInv, LockTypes
  <2>3. \A u \in RwThread \ {t} : rwReaders'[u] = rwReaders[u]
    BY <2>1 DEF LockInv, LockTypes
  <2>4. LockExcludes'
    BY <2>1 DEF LockExcludes
  <2> QED BY <1>1, <2>1, <2>2, <2>3, <2>4, ReturnKeepsInv DEF Rwlock!Granted, LockInv, LockTypes
<1>3. CASE rwMode[t] = "ex"
  <2>1. rwWriter' = t /\ UNCHANGED rwReaders /\ \A u \in RwThread : rwReaders[u] = 0
    BY <1>3 DEF Rwlock!Granted, Rwlock!Free, Rwlock!Grant
  <2>2. LockExcludes'
    BY <2>1 DEF LockExcludes
  <2> QED BY <1>1, <2>1, <2>2, ReturnKeepsInv DEF Rwlock!Granted, LockInv, LockTypes
<1> QED BY <1>1, <1>2, <1>3

\* A call begins with the whole timeout before it.
LEMMA LockKeepsInv ==
  ASSUME Rwlock!AnonAssumption, LockInv, NEW t \in RwThread, NEW m \in {"sh", "ex"},
         NEW ms \in Timeouts \cup {0, Rwlock!SKY_INFINITE}, Rwlock!Lock(t, m, ms)
  PROVE  LockInv'
<1> DEFINE d == IF ms \in Timeouts THEN Rwlock!sky_abstime_after_msec(ms) ELSE Rwlock!NoDeadline
<1>1. /\ rwPc[t] = "idle" /\ rwLive /\ (m = "sh" => rwReaders[t] < MaxRead)
      /\ UNCHANGED <<rwLive, rwReaders, rwWriter, rwAge, rwAhead, rwBack, rwWall, rwJumps>>
      /\ rwPc' = [rwPc EXCEPT ![t] = IF ms = 0 THEN "try" ELSE "wait"]
      /\ rwMode' = [rwMode EXCEPT ![t] = m] /\ rwTimeout' = [rwTimeout EXCEPT ![t] = ms]
      /\ rwDeadline' = [rwDeadline EXCEPT ![t] = d]
  BY DEF Rwlock!Lock, Rwlock!lock, Rwlock!history
<1>2. d \in [sec : Int, msec : 0..(Second - 1)]
  <2>1. Rwlock!NoDeadline \in [sec : Int, msec : 0..(Second - 1)]
    BY LockConstants DEF Rwlock!NoDeadline
  <2>2. ms \in Timeouts => Rwlock!sky_abstime_after_msec(ms) \in [sec : Int, msec : 0..(Second - 1)]
    BY AbstimeIsTimeout DEF LockInv, LockTypes
  <2> QED BY <2>1, <2>2
<1>3. ms \in Timeouts => d.sec * Second + d.msec - rwWall = ms
  BY AbstimeIsTimeout DEF LockInv, LockTypes
<1> HIDE DEF d
<1>4. LockTypes'
  BY <1>1, <1>2 DEF LockInv, LockTypes
<1>5. LockExcludes' /\ LockCalls' /\ LockClosed'
  BY <1>1 DEF LockInv, LockTypes, LockExcludes, LockCalls, LockClosed
<1>6. /\ \A u \in RwThread \ {t} : Rwlock!Timed(u)' = Rwlock!Timed(u) /\ Rwlock!Left(u)' = Rwlock!Left(u)
                                 /\ rwTimeout'[u] = rwTimeout[u]
      /\ rwTimeout'[t] = ms /\ (Rwlock!Timed(t)' => ms \in Timeouts) /\ (ms \in Timeouts => Rwlock!Left(t)' = ms)
      /\ ~Rwlock!Timed(t)
  BY <1>1, <1>3 DEF LockInv, LockTypes, Rwlock!Timed, Rwlock!Left
<1>7. rwAge[t] = 0 /\ rwAhead[t] = 0 /\ rwBack[t] = 0
  BY <1>6 DEF LockInv, LockAges
<1>8. \A v \in Timeouts : v \in Nat
  BY LockConstants
<1>9. LockAges'
  BY <1>1, <1>6, <1>7, <1>8 DEF LockInv, LockAges
<1>10. LockLate'
  BY <1>1, <1>6, <1>7, <1>8, LockConstants DEF LockInv, LockLate
<1> QED BY <1>4, <1>5, <1>9, <1>10 DEF LockInv

\* A millisecond: a call is one older, and has one less left.
LEMMA TickKeepsInv == ASSUME Rwlock!AnonAssumption, LockInv, Rwlock!Tick PROVE LockInv'
<1>1. /\ UNCHANGED <<rwLive, rwReaders, rwWriter, rwPc, rwMode, rwTimeout, rwAhead, rwBack, rwJumps>>
      /\ rwAge' = [t \in RwThread |-> IF Rwlock!Timed(t) THEN rwAge[t] + 1 ELSE 0]
      /\ \A t \in RwThread : Rwlock!Timed(t) => Rwlock!Left(t) > -Slack
      /\ Rwlock!MoveClock(1)
  BY DEF Rwlock!Tick, Rwlock!lock
<1>2. /\ rwWall' \in 0..(Second - 1)
      /\ rwDeadline' \in [RwThread -> [sec : Int, msec : 0..(Second - 1)]]
      /\ \A t \in RwThread : /\ Rwlock!Timed(t)' = Rwlock!Timed(t)
                             /\ Rwlock!Timed(t) => Rwlock!Left(t) \in Int /\ Rwlock!Left(t)' = Rwlock!Left(t) - 1
  BY <1>1, MoveClockBrings
<1>3. LockTypes'
  BY <1>1, <1>2 DEF LockInv, LockTypes
<1>4. LockExcludes' /\ LockCalls' /\ LockClosed'
  BY <1>1 DEF LockInv, LockExcludes, LockCalls, LockClosed
<1>5. LockAges'
  <2> SUFFICES ASSUME NEW t \in RwThread
               PROVE  IF Rwlock!Timed(t)' THEN rwAge'[t] + rwAhead[t] = rwTimeout[t] + rwBack[t] - Rwlock!Left(t)'
                                   ELSE rwAge'[t] = 0 /\ rwAhead[t] = 0 /\ rwBack[t] = 0
    BY <1>1 DEF LockAges
  <2>1. CASE Rwlock!Timed(t)
    <3>1. /\ rwAge'[t] = rwAge[t] + 1 /\ rwAge[t] \in Nat /\ rwAhead[t] \in Nat /\ rwBack[t] \in Nat
          /\ rwTimeout[t] \in Nat
      BY <1>1, <2>1, LockConstants DEF LockInv, LockTypes, Rwlock!Timed
    <3>2. rwAge[t] + rwAhead[t] = rwTimeout[t] + rwBack[t] - Rwlock!Left(t)
      BY <2>1 DEF LockInv, LockAges
    <3> QED BY <1>2, <2>1, <3>1, <3>2
  <2>2. CASE ~Rwlock!Timed(t)
    BY <1>1, <1>2, <2>2 DEF LockInv, LockAges
  <2> QED BY <2>1, <2>2
<1>6. LockLate'
  <2> SUFFICES ASSUME NEW t \in RwThread, Rwlock!Timed(t)
               PROVE  -rwAhead[t] - Rwlock!Left(t)' <= Slack
    BY <1>1, <1>2 DEF LockLate
  <2>1. rwAhead[t] \in Nat /\ Slack \in Nat
    BY LockConstants DEF LockInv, LockTypes
  <2> QED BY <1>1, <1>2, <2>1
<1> QED BY <1>3, <1>4, <1>5, <1>6 DEF LockInv

\* The clock is set: what is left changes by as much as ahead or back.
LEMMA SetClockKeepsInv ==
  ASSUME Rwlock!AnonAssumption, LockInv, NEW ms \in Jumps, Rwlock!SetClock(ms)
  PROVE  LockInv'
<1>1. /\ UNCHANGED <<rwLive, rwReaders, rwWriter, rwPc, rwMode, rwTimeout, rwAge>>
      /\ rwJumps' = rwJumps + 1 /\ rwJumps < MaxJumps
      /\ rwAhead' = [t \in RwThread |-> IF Rwlock!Timed(t) /\ ms > 0 THEN rwAhead[t] + ms ELSE rwAhead[t]]
      /\ rwBack' = [t \in RwThread |-> IF Rwlock!Timed(t) /\ ms < 0 THEN rwBack[t] - ms ELSE rwBack[t]]
      /\ Rwlock!MoveClock(ms)
  BY DEF Rwlock!SetClock, Rwlock!lock
<1>2. ms \in Int
  BY LockConstants
<1>3. /\ rwWall' \in 0..(Second - 1)
      /\ rwDeadline' \in [RwThread -> [sec : Int, msec : 0..(Second - 1)]]
      /\ \A t \in RwThread : /\ Rwlock!Timed(t)' = Rwlock!Timed(t)
                             /\ Rwlock!Timed(t) => Rwlock!Left(t) \in Int /\ Rwlock!Left(t)' = Rwlock!Left(t) - ms
  BY <1>1, <1>2, MoveClockBrings
<1>4. rwAhead' \in [RwThread -> Nat] /\ rwBack' \in [RwThread -> Nat]
  BY <1>1, <1>2 DEF LockInv, LockTypes
<1>5. rwJumps' \in 0..MaxJumps
  BY <1>1, LockConstants DEF LockInv, LockTypes
<1>6. LockTypes'
  BY <1>1, <1>3, <1>4, <1>5 DEF LockInv, LockTypes
<1>7. LockExcludes' /\ LockCalls' /\ LockClosed'
  BY <1>1 DEF LockInv, LockExcludes, LockCalls, LockClosed
<1>8. ASSUME NEW t \in RwThread, Rwlock!Timed(t)
      PROVE  /\ rwAge[t] + rwAhead'[t] = rwTimeout[t] + rwBack'[t] - Rwlock!Left(t)'
             /\ -rwAhead'[t] - Rwlock!Left(t)' <= Slack
  <2>1. /\ rwAge[t] \in Nat /\ rwAhead[t] \in Nat /\ rwBack[t] \in Nat /\ rwTimeout[t] \in Nat
        /\ Slack \in Nat
    BY <1>8, LockConstants DEF LockInv, LockTypes, Rwlock!Timed
  <2>2. /\ rwAge[t] + rwAhead[t] = rwTimeout[t] + rwBack[t] - Rwlock!Left(t)
        /\ -rwAhead[t] - Rwlock!Left(t) <= Slack
    BY <1>8 DEF LockInv, LockAges, LockLate
  <2>3. /\ rwAhead'[t] = IF ms > 0 THEN rwAhead[t] + ms ELSE rwAhead[t]
        /\ rwBack'[t] = IF ms < 0 THEN rwBack[t] - ms ELSE rwBack[t]
    BY <1>1, <1>8
  <2> QED BY <1>2, <1>3, <1>8, <2>1, <2>2, <2>3
<1>9. LockAges'
  BY <1>1, <1>3, <1>8 DEF LockInv, LockAges
<1>10. LockLate'
  BY <1>3, <1>8 DEF LockLate
<1> QED BY <1>6, <1>7, <1>9, <1>10 DEF LockInv

\* Every step of every thread and of the clock keeps the invariant.
LEMMA LockNext == Rwlock!AnonAssumption /\ LockInv /\ [Rwlock!Next]_(Rwlock!vars) => LockInv'
<1> SUFFICES ASSUME Rwlock!AnonAssumption, LockInv, [Rwlock!Next]_(Rwlock!vars) PROVE LockInv'
  OBVIOUS
<1>1. CASE Rwlock!sky_rwlock_create
  <2>1. rwLive' = TRUE /\ UNCHANGED <<rwReaders, rwWriter, Rwlock!call, rwWall, rwJumps>>
    BY <1>1 DEF Rwlock!sky_rwlock_create
  <2>2. LockAges' /\ LockLate'
    BY <2>1 DEF Rwlock!call, Rwlock!history, LockInv, LockAges, LockLate, Rwlock!Timed,
                Rwlock!Left
  <2> QED BY <2>1, <2>2 DEF Rwlock!call, Rwlock!history, LockInv, LockTypes, LockExcludes,
                            LockCalls, LockClosed
<1>2. CASE Rwlock!sky_rwlock_destroy
  <2>1. /\ rwLive' = FALSE /\ UNCHANGED <<rwReaders, rwWriter, Rwlock!call, rwWall, rwJumps>>
        /\ rwWriter = None /\ \A t \in RwThread : rwPc[t] = "idle" /\ rwReaders[t] = 0
    BY <1>2 DEF Rwlock!sky_rwlock_destroy
  <2>2. LockAges' /\ LockLate'
    BY <2>1 DEF Rwlock!call, Rwlock!history, LockInv, LockAges, LockLate, Rwlock!Timed,
                Rwlock!Left
  <2> QED BY <2>1, <2>2 DEF Rwlock!call, Rwlock!history, LockInv, LockTypes, LockExcludes,
                            LockCalls, LockClosed
<1>3. CASE Rwlock!Tick
  BY <1>3, TickKeepsInv
<1>4. ASSUME NEW ms \in Jumps, Rwlock!SetClock(ms) PROVE LockInv'
  BY <1>4, SetClockKeepsInv
<1>5. ASSUME NEW t \in RwThread, Rwlock!Granted(t) PROVE LockInv'
  BY <1>5, GrantedKeepsInv
<1>6. ASSUME NEW t \in RwThread, Rwlock!Refused(t) \/ Rwlock!TimedOut(t) PROVE LockInv'
  <2>1. Rwlock!Return(t) /\ UNCHANGED <<rwLive, rwReaders, rwWriter, rwWall, rwJumps>>
    BY <1>6 DEF Rwlock!Refused, Rwlock!TimedOut, Rwlock!lock
  <2>2. LockExcludes' /\ rwReaders' \in [RwThread -> 0..MaxRead] /\ rwWriter' \in RwThread \cup {None}
    BY <2>1 DEF LockInv, LockTypes, LockExcludes
  <2> QED BY <2>1, <2>2, ReturnKeepsInv
<1>7. ASSUME NEW t \in RwThread, Rwlock!sky_rwlock_unlock(t) PROVE LockInv'
  <2>1. /\ rwPc[t] = "idle" /\ UNCHANGED <<rwLive, Rwlock!call, rwWall, rwJumps>>
        /\ \/ rwWriter = t /\ rwWriter' = None /\ UNCHANGED rwReaders
           \/ /\ rwReaders[t] > 0 /\ rwReaders' = [rwReaders EXCEPT ![t] = rwReaders[t] - 1]
              /\ UNCHANGED rwWriter
    BY <1>7 DEF Rwlock!sky_rwlock_unlock
  <2>2. rwReaders' \in [RwThread -> 0..MaxRead]
    BY <2>1, LockConstants DEF LockInv, LockTypes
  <2>3. \A u \in RwThread \ {t} : rwReaders'[u] = rwReaders[u]
    BY <2>1 DEF LockInv, LockTypes
  <2>4. LockTypes'
    BY <2>1, <2>2 DEF Rwlock!call, Rwlock!history, LockInv, LockTypes
  <2>5. LockExcludes' /\ LockClosed'
    BY <2>1, <2>3, LockConstants DEF LockInv, LockTypes, LockExcludes, LockClosed
  <2>6. LockCalls'
    BY <2>1, <2>3 DEF Rwlock!call, LockInv, LockCalls
  <2>7. LockAges' /\ LockLate'
    BY <2>1 DEF Rwlock!call, Rwlock!history, LockInv, LockAges, LockLate, Rwlock!Timed,
                Rwlock!Left
  <2> QED BY <2>4, <2>5, <2>6, <2>7 DEF LockInv
<1>8. ASSUME NEW t \in RwThread, NEW ms \in Timeouts \cup {0, Rwlock!SKY_INFINITE},
             Rwlock!sky_rwlock_wrlock(t, ms) \/ Rwlock!sky_rwlock_rdlock(t, ms)
      PROVE  LockInv'
  BY <1>8, LockKeepsInv DEF Rwlock!sky_rwlock_wrlock, Rwlock!sky_rwlock_rdlock
<1>9. CASE UNCHANGED Rwlock!vars
  <2>1. LockTypes' /\ LockExcludes' /\ LockCalls' /\ LockClosed'
    BY <1>9 DEF Rwlock!vars, Rwlock!lock, Rwlock!call, Rwlock!history, LockInv, LockTypes,
                LockExcludes, LockCalls, LockClosed
  <2>2. LockAges' /\ LockLate'
    BY <1>9 DEF Rwlock!vars, Rwlock!lock, Rwlock!call, Rwlock!history, LockInv, LockAges,
                LockLate, Rwlock!Timed, Rwlock!Left
  <2> QED BY <2>1, <2>2 DEF LockInv
<1> QED BY <1>1, <1>2, <1>3, <1>4, <1>5, <1>6, <1>7, <1>8, <1>9 DEF Rwlock!Next, Rwlock!Step
----------------------------------------------------------------------------
(* Timeouts *)

\* The lock's types follow, ...
LEMMA LockInvTypes == Rwlock!AnonAssumption /\ LockInv => Rwlock!TypeOK
<1> SUFFICES ASSUME Rwlock!AnonAssumption, LockInv PROVE Rwlock!TypeOK
  OBVIOUS
<1>1. \A t \in RwThread : rwDeadline[t].sec \in Int /\ rwDeadline[t].msec \in 0..(Second - 1)
  BY DEF LockInv, LockTypes
<1> QED BY <1>1 DEF LockInv, LockTypes, Rwlock!TypeOK

\* ... and that no call waits longer than its timeout.
LEMMA LockInvDeadline == Rwlock!AnonAssumption /\ LockInv => Rwlock!DeadlineKept
<1> SUFFICES ASSUME Rwlock!AnonAssumption, LockInv, NEW t \in RwThread, Rwlock!Timed(t)
             PROVE  rwAge[t] <= rwTimeout[t] + rwBack[t] + Slack
  BY DEF Rwlock!DeadlineKept
<1>1. /\ rwAge[t] \in Nat /\ rwAhead[t] \in Nat /\ rwBack[t] \in Nat /\ rwTimeout[t] \in Nat
      /\ Slack \in Nat
  BY LockConstants DEF LockInv, LockTypes, Rwlock!Timed
<1>2. Rwlock!Left(t) \in Int
  <2>1. rwDeadline[t].sec \in Int /\ rwDeadline[t].msec \in Int /\ rwWall \in Int /\ Second \in Int
    BY LockConstants DEF LockInv, LockTypes
  <2>2. rwDeadline[t].sec * Second \in Int
    BY <2>1
  <2> QED BY <2>1, <2>2 DEF Rwlock!Left
<1>3. /\ rwAge[t] + rwAhead[t] = rwTimeout[t] + rwBack[t] - Rwlock!Left(t)
      /\ -rwAhead[t] - Rwlock!Left(t) <= Slack
  BY DEF LockInv, LockAges, LockLate
<1> QED BY <1>1, <1>2, <1>3

\* A call that gives up has let its deadline pass, and nobody else's step ends it.
LEMMA NextGivesUpInTime ==
  ASSUME Rwlock!AnonAssumption, LockInv, [Rwlock!Next]_(Rwlock!vars),
         NEW t \in RwThread, Rwlock!GivesUp(t), rwWriter # t
  PROVE  rwAge[t] + rwAhead[t] >= rwTimeout[t]
<1>1. /\ rwPc[t] = "wait" /\ rwTimeout[t] \in Timeouts /\ rwPc'[t] = "idle"
      /\ rwReaders'[t] = rwReaders[t] /\ rwWriter' # t
  BY DEF Rwlock!GivesUp, Rwlock!Timed
<1>2. Rwlock!TimedOut(t)
  <2>1. \A u \in RwThread \ {t} : ~Rwlock!Return(u)
    BY <1>1 DEF Rwlock!Return, LockInv, LockTypes
  <2>2. ~Rwlock!Granted(t)
    <3>1. rwMode[t] \in {"sh", "ex"} /\ rwReaders[t] \in Nat
      BY <1>1, LockConstants DEF LockInv, LockTypes, LockCalls
    <3>2. Rwlock!Grant(t, rwMode[t]) => rwReaders'[t] # rwReaders[t] \/ rwWriter' = t
      BY <3>1 DEF Rwlock!Grant, LockInv, LockTypes
    <3> QED BY <1>1, <3>2 DEF Rwlock!Granted
  <2>3. ~Rwlock!Refused(t)
    <3>1. rwDeadline[t].msec \in 0..(Second - 1)
      BY DEF LockInv, LockTypes
    <3> QED BY <1>1, <3>1 DEF Rwlock!Refused
  <2>4. ~UNCHANGED rwPc
    BY <1>1
  <2>5. /\ ~Rwlock!sky_rwlock_create /\ ~Rwlock!sky_rwlock_destroy /\ ~Rwlock!Tick /\ ~UNCHANGED Rwlock!vars
        /\ \A ms \in Jumps : ~Rwlock!SetClock(ms)
        /\ \A u \in RwThread : ~Rwlock!sky_rwlock_unlock(u)
    BY <2>4 DEF Rwlock!sky_rwlock_create, Rwlock!sky_rwlock_destroy, Rwlock!Tick, Rwlock!vars,
                Rwlock!SetClock,
                Rwlock!sky_rwlock_unlock, Rwlock!call
  <2>6. \A u \in RwThread, m \in {"sh", "ex"}, ms \in Timeouts \cup {0, Rwlock!SKY_INFINITE} :
           ~Rwlock!Lock(u, m, ms)
    BY <1>1 DEF Rwlock!Lock, LockInv, LockTypes
  <2>7. PICK u \in RwThread : Rwlock!Step(u)
    <3>1. \A u \in RwThread, ms \in Timeouts \cup {0, Rwlock!SKY_INFINITE} :
             ~Rwlock!sky_rwlock_wrlock(u, ms) /\ ~Rwlock!sky_rwlock_rdlock(u, ms)
      BY <2>6 DEF Rwlock!sky_rwlock_wrlock, Rwlock!sky_rwlock_rdlock
    <3>2. Rwlock!Next
      BY <2>5
    <3>3. PICK u \in RwThread : \/ Rwlock!Step(u) \/ Rwlock!sky_rwlock_unlock(u)
                                \/ \E ms \in Timeouts \cup {0, Rwlock!SKY_INFINITE} :
                                      Rwlock!sky_rwlock_wrlock(u, ms) \/ Rwlock!sky_rwlock_rdlock(u, ms)
      <4> HIDE DEF Rwlock!Step
      <4> QED BY <2>5, <3>2 DEF Rwlock!Next
    <3>4. ~Rwlock!sky_rwlock_unlock(u)
      BY <2>5
    <3> QED BY <3>1, <3>3, <3>4
  <2>8. u = t
    BY <2>1, <2>7 DEF Rwlock!Step, Rwlock!Granted, Rwlock!Refused, Rwlock!TimedOut
  <2> QED BY <2>2, <2>3, <2>7, <2>8 DEF Rwlock!Step
<1>3. Rwlock!Left(t) <= 0 /\ Rwlock!Left(t) \in Int
  <2>1. rwDeadline[t].sec \in Int /\ rwDeadline[t].msec \in Int /\ rwWall \in Int /\ Second \in Int
    BY LockConstants DEF LockInv, LockTypes
  <2>2. rwDeadline[t].sec * Second \in Int
    BY <2>1
  <2> QED BY <1>2, <2>1, <2>2 DEF Rwlock!Left, Rwlock!TimedOut
<1>4. rwAge[t] + rwAhead[t] = rwTimeout[t] + rwBack[t] - Rwlock!Left(t)
  BY <1>1 DEF LockInv, LockAges, Rwlock!Timed
<1>5. rwAge[t] \in Nat /\ rwAhead[t] \in Nat /\ rwBack[t] \in Nat /\ rwTimeout[t] \in Nat
  BY <1>1, LockConstants DEF LockInv, LockTypes
<1> QED BY <1>3, <1>4, <1>5

----------------------------------------------------------------------------
(* The Rwlock!lock *)

LockOn == [t \in RwThread |-> IF rwLive THEN "it" ELSE None]
LockMode == [t \in RwThread |->
            IF rwWriter = t THEN "ex" ELSE IF rwReaders[t] > 0 THEN "sh" ELSE "none"]

\* A grant is Take of the specification.
LEMMA GrantedIsTake ==
  ASSUME Rwlock!AnonAssumption, LockInv, NEW t \in RwThread, Rwlock!Granted(t)
  PROVE  [Rwlock!Abstract!Next]_(Rwlock!Abstract!vars)
<1> USE LockConstants DEF LockOn, LockMode
<1>1. rwLive /\ rwMode[t] \in {"sh", "ex"} /\ UNCHANGED rwLive /\ LockOn' = LockOn /\ LockOn[t] # None
  BY DEF Rwlock!Granted, LockInv, LockCalls
<1>2. CASE rwMode[t] = "sh"
  <2>1. rwWriter = None /\ UNCHANGED rwWriter /\ rwReaders' = [rwReaders EXCEPT ![t] = rwReaders[t] + 1]
    BY <1>2 DEF Rwlock!Granted, Rwlock!Free, Rwlock!Grant
  <2>2. rwReaders'[t] > 0 /\ \A u \in RwThread \ {t} : rwReaders'[u] = rwReaders[u]
    BY <2>1 DEF LockInv, LockTypes
  <2>3. LockMode' = [LockMode EXCEPT ![t] = "sh"]
    BY <2>1, <2>2
  <2>4. \A u \in RwThread : LockMode[u] \in {"none", "sh"}
    BY <2>1
  <2>5. Rwlock!Abstract!Take(t, "sh")
    BY <1>1, <2>3, <2>4 DEF Rwlock!Abstract!Take, Rwlock!Abstract!Free
  <2> QED BY <2>5 DEF Rwlock!Abstract!Next
<1>3. CASE rwMode[t] = "ex"
  <2>1. rwWriter = None /\ rwWriter' = t /\ UNCHANGED rwReaders /\ \A u \in RwThread : rwReaders[u] = 0
    BY <1>3 DEF Rwlock!Granted, Rwlock!Free, Rwlock!Grant
  <2>2. LockMode' = [LockMode EXCEPT ![t] = "ex"]
    BY <2>1
  <2>3. \A u \in RwThread : LockMode[u] = "none"
    BY <2>1
  <2>4. Rwlock!Abstract!Take(t, "ex")
    BY <1>1, <2>2, <2>3 DEF Rwlock!Abstract!Take, Rwlock!Abstract!Free
  <2> QED BY <2>4 DEF Rwlock!Abstract!Next
<1> QED BY <1>1, <1>2, <1>3

\* The last unlock of a thread is GiveUp; one of several read locks, no step.
LEMMA UnlockIsGiveUp ==
  ASSUME Rwlock!AnonAssumption, LockInv, NEW t \in RwThread, Rwlock!sky_rwlock_unlock(t)
  PROVE  [Rwlock!Abstract!Next]_(Rwlock!Abstract!vars)
<1> USE LockConstants DEF LockOn, LockMode
<1>1. LockOn' = LockOn
  BY DEF Rwlock!sky_rwlock_unlock
<1>2. CASE rwWriter = t /\ rwWriter' = None /\ UNCHANGED rwReaders
  <2>1. \A u \in RwThread : rwReaders[u] = 0
    BY <1>2 DEF LockInv, LockExcludes
  <2>2. LockMode' = [LockMode EXCEPT ![t] = "none"]
    <3>1. \A u \in RwThread : ~(rwReaders'[u] > 0) /\ rwWriter' # u
      BY <1>2, <2>1
    <3>2. \A u \in RwThread \ {t} : ~(rwReaders[u] > 0) /\ rwWriter # u
      BY <1>2, <2>1
    <3> QED BY <3>1, <3>2
  <2>3. Rwlock!Abstract!GiveUp(t)
    BY <1>1, <2>2 DEF Rwlock!Abstract!GiveUp
  <2> QED BY <2>3 DEF Rwlock!Abstract!Next
<1>3. CASE /\ rwReaders[t] > 0 /\ rwReaders' = [rwReaders EXCEPT ![t] = rwReaders[t] - 1]
           /\ UNCHANGED rwWriter
  <2>1. rwReaders'[t] = rwReaders[t] - 1 /\ \A u \in RwThread \ {t} : rwReaders'[u] = rwReaders[u]
    BY <1>3 DEF LockInv, LockTypes
  <2>2. rwReaders[t] \in Nat /\ rwWriter # t
    BY <1>3 DEF LockInv, LockTypes, LockExcludes
  <2>3. CASE rwReaders[t] = 1
    <3>1. LockMode' = [LockMode EXCEPT ![t] = "none"]
      <4>1. ~(rwReaders'[t] > 0) /\ rwWriter' # t
        BY <1>3, <2>1, <2>2, <2>3
      <4>2. \A u \in RwThread \ {t} : LockMode'[u] = LockMode[u]
        BY <1>3, <2>1
      <4>3. LockMode'[t] = "none"
        BY <4>1
      <4>4. LockMode' \in [RwThread -> {"none", "sh", "ex"}] /\ LockMode \in [RwThread -> {"none", "sh", "ex"}]
        OBVIOUS
      <4> HIDE DEF LockMode
      <4> QED BY <4>2, <4>3, <4>4
    <3>2. Rwlock!Abstract!GiveUp(t)
      BY <1>1, <3>1 DEF Rwlock!Abstract!GiveUp
    <3> QED BY <3>2 DEF Rwlock!Abstract!Next
  <2>4. CASE rwReaders[t] > 1
    <3>1. LockMode' = LockMode
      BY <1>3, <2>1, <2>2, <2>4
    <3> QED BY <1>1, <3>1 DEF Rwlock!Abstract!vars
  <2> QED BY <1>3, <2>2, <2>3, <2>4
<1> QED BY <1>2, <1>3 DEF Rwlock!sky_rwlock_unlock

\* A new lock is a new lock of SkyRwlockSpec.
LEMMA LockInitImplements == Rwlock!AnonAssumption /\ Rwlock!Init => Rwlock!Abstract!Init
<1> SUFFICES ASSUME Rwlock!AnonAssumption, Rwlock!Init PROVE Rwlock!Abstract!Init
  OBVIOUS
<1>1. ASSUME NEW t \in RwThread PROVE rwWriter # t /\ ~(rwReaders[t] > 0)
  <2>1. rwWriter = None /\ rwReaders[t] = 0
    BY DEF Rwlock!Init
  <2> QED BY <2>1, LockConstants
<1> QED BY <1>1 DEF Rwlock!Init, Rwlock!Abstract!Init

\* Every step is a step of that lock, or none.
LEMMA LockNextImplements ==
  ASSUME Rwlock!AnonAssumption, LockInv, [Rwlock!Next]_(Rwlock!vars)
  PROVE  [Rwlock!Abstract!Next]_(Rwlock!Abstract!vars)
<1>1. CASE Rwlock!sky_rwlock_create
  <2>1. Rwlock!Abstract!Attach(RwThread)
    BY <1>1 DEF Rwlock!sky_rwlock_create, Rwlock!Abstract!Attach
  <2> QED BY <2>1 DEF Rwlock!Abstract!Next
<1>2. CASE Rwlock!sky_rwlock_destroy
  <2>1. \A t \in RwThread : rwWriter # t /\ ~(rwReaders[t] > 0)
    BY <1>2, LockConstants DEF Rwlock!sky_rwlock_destroy
  <2>2. UNCHANGED <<rwReaders, rwWriter>> /\ rwLive' = FALSE
    BY <1>2 DEF Rwlock!sky_rwlock_destroy
  <2>3. Rwlock!Abstract!Detach(RwThread)
    BY <2>1, <2>2 DEF Rwlock!Abstract!Detach
  <2> QED BY <2>3 DEF Rwlock!Abstract!Next
<1>3. ASSUME NEW t \in RwThread, Rwlock!Granted(t)
      PROVE [Rwlock!Abstract!Next]_(Rwlock!Abstract!vars)
  BY <1>3, GrantedIsTake
<1>4. ASSUME NEW t \in RwThread, Rwlock!sky_rwlock_unlock(t)
      PROVE [Rwlock!Abstract!Next]_(Rwlock!Abstract!vars)
  BY <1>4, UnlockIsGiveUp
<1>5. CASE UNCHANGED Rwlock!lock
  BY <1>5 DEF Rwlock!lock, Rwlock!Abstract!vars
<1>6. Rwlock!Tick => UNCHANGED Rwlock!lock
  BY DEF Rwlock!Tick
<1>7. \A ms \in Jumps : Rwlock!SetClock(ms) => UNCHANGED Rwlock!lock
  BY DEF Rwlock!SetClock
<1>8. \A t \in RwThread : Rwlock!Refused(t) \/ Rwlock!TimedOut(t) => UNCHANGED Rwlock!lock
  BY DEF Rwlock!Refused, Rwlock!TimedOut
<1>9. \A t \in RwThread, ms \in Timeouts \cup {0, Rwlock!SKY_INFINITE} :
         Rwlock!sky_rwlock_wrlock(t, ms) \/ Rwlock!sky_rwlock_rdlock(t, ms) => UNCHANGED Rwlock!lock
  BY DEF Rwlock!sky_rwlock_wrlock, Rwlock!sky_rwlock_rdlock, Rwlock!Lock
<1>10. UNCHANGED Rwlock!vars => UNCHANGED Rwlock!lock
  BY DEF Rwlock!vars, Rwlock!lock
<1> QED BY <1>1, <1>2, <1>3, <1>4, <1>5, <1>6, <1>7, <1>8, <1>9, <1>10 DEF Rwlock!Next,
                                                                           Rwlock!Step
----------------------------------------------------------------------------
(* Regular expressions *)

\* A number and its remainder; the arithmetic of a count that wraps.
LEMMA NatDivision ==
  ASSUME NEW M \in Nat, M > 0, NEW n \in Nat
  PROVE  n % M \in 0..(M - 1) /\ \E k \in Nat : n = M * k + (n % M)
<1>1. /\ n % M \in 0..(M - 1) /\ n \div M \in Int /\ M * (n \div M) \in Int
      /\ n = M * (n \div M) + (n % M)
  OBVIOUS
<1>2. n \div M >= 0
  OBVIOUS
<1>3. n \div M \in Nat
  BY <1>1, <1>2
<1> DEFINE k == n \div M
           a == n % M
<1>4. a \in 0..(M - 1) /\ k \in Nat /\ n = M * k + a
  BY <1>1, <1>3
<1> HIDE DEF k, a
<1>5. \E j \in Nat : n = M * j + a
  BY <1>4
<1>6. n % M \in 0..(M - 1)
  BY <1>1
<1>7. \E j \in Nat : n = M * j + (n % M)
  BY <1>5, Zenon DEF a
<1> QED BY <1>6, <1>7, Zenon

\* The remainder of a multiple and a little.
LEMMA Remainder ==
  ASSUME NEW M \in Nat, M > 0, NEW a \in 0..(M - 1), NEW k \in Nat
  PROVE  (M * k + a) % M = a
OBVIOUS

\* A common factor.
LEMMA Distributes ==
  ASSUME NEW M \in Nat, NEW k \in Nat, NEW j \in Nat
  PROVE  M * k \in Nat /\ M * j \in Nat /\ M * k + M * j = M * (k + j)
OBVIOUS

\* Two equations added.
LEMMA Sums ==
  ASSUME NEW n \in Nat, NEW l \in Nat, NEW x \in Nat, NEW y \in Nat, NEW a \in Nat, NEW b \in Nat,
         n = x + a, a + l = y + b
  PROVE  n + l = (x + y) + b
OBVIOUS

\* Two summands taken together.
LEMMA Regroup ==
  ASSUME NEW n \in Nat, NEW a \in Nat, NEW b \in Nat, NEW c \in Nat, c = a + b
  PROVE  (n + a) + b = n + c
OBVIOUS

\* A sum may be reduced before or after a summand is added.
LEMMA ModAdds ==
  ASSUME NEW M \in Nat, M > 0, NEW n \in Nat, NEW l \in Nat
  PROVE  ((n % M) + l) % M = (n + l) % M
<1> DEFINE a == n % M
           b == (a + l) % M
<1>1. PICK k \in Nat : n = M * k + a
  BY NatDivision, Zenon
<1>2. a \in Nat /\ a + l \in Nat
  <2>1. a \in 0..(M - 1)
    BY NatDivision
  <2> HIDE DEF a
  <2> QED BY <2>1
<1>3. (a + l) % M \in 0..(M - 1) /\ \E j \in Nat : a + l = M * j + ((a + l) % M)
  <2> HIDE DEF a
  <2> QED BY <1>2, NatDivision
<1>4. PICK j \in Nat : a + l = M * j + b
  BY <1>3
<1>5. b \in 0..(M - 1) /\ b \in Nat
  BY <1>3
<1>6. n + l = M * (k + j) + b
  <2> HIDE DEF a, b
  <2>1. M * k \in Nat /\ M * j \in Nat /\ M * k + M * j = M * (k + j)
    BY Distributes
  <2>2. n + l = (M * k + M * j) + b
    BY <1>1, <1>2, <1>4, <1>5, <2>1, Sums
  <2> QED BY <2>1, <2>2
<1>7. (M * (k + j) + b) % M = b
  <2> HIDE DEF b
  <2>1. k + j \in Nat
    OBVIOUS
  <2> QED BY <1>5, <2>1, Remainder
<1> QED BY <1>6, <1>7

\* Pieces of the text.
Pieces == {<<>>} \cup Regex!Place \X Regex!Place

\* What a compiled expression is, that its matches are inside the text, and that
\* Python finds nothing where regexec does not.
LEMMA Shape ==
  ASSUME Regex!RegexAssumption, NEW r \in Regex!Regex
  PROVE  /\ r.nsub \in 0..MaxGroups
         /\ \A s \in Regex!Place : \A f \in {r.at[s], r.first[s]} :
               f # None => /\ f.eo \in Regex!Place /\ f.eo >= s
                           /\ f.group \in [1..r.nsub -> BOOLEAN]
         /\ \A s \in Regex!Place : r.at[s] = None => r.python[s] = <<>>
<1>1. PICK n \in 0..MaxGroups : r \in Regex!Compiled(n)
  BY DEF Regex!Regex
<1>2. PICK f \in Regex!FoundAt(n) : \E g \in Regex!FoundAt(n), y \in Regex!InTurnAt(n, f) :
         r = [nsub |-> n, at |-> f, first |-> g, python |-> y]
  BY <1>1 DEF Regex!Compiled
<1>3. PICK g \in Regex!FoundAt(n), y \in Regex!InTurnAt(n, f) :
         r = [nsub |-> n, at |-> f, first |-> g, python |-> y]
  BY <1>2
<1>4. r.nsub = n /\ r.at = f /\ r.first = g /\ r.python = y
  BY <1>3
<1>5. ASSUME NEW h \in Regex!FoundAt(n), NEW s \in Regex!Place, h[s] # None
      PROVE  h[s].eo \in Regex!Place /\ h[s].eo >= s /\ h[s].group \in [1..n -> BOOLEAN]
  <2>1. h[s].eo \in Regex!Ends(s) /\ \E u \in Regex!Place : h[s] \in Regex!Found(u, n)
    BY <1>5 DEF Regex!FoundAt
  <2>2. h[s].group \in [1..n -> BOOLEAN]
    BY <2>1 DEF Regex!Found
  <2>3. h[s].eo \in Regex!Place /\ h[s].eo >= s
    BY <2>1 DEF Regex!Ends, Regex!Place, Regex!RegexAssumption
  <2> QED BY <2>2, <2>3
<1>6. ASSUME NEW s \in Regex!Place, f[s] = None PROVE y[s] = <<>>
  <2>1. y[s] \in Regex!InTurn(s, n, f[s])
    BY DEF Regex!InTurnAt
  <2> QED BY <1>6, <2>1 DEF Regex!InTurn
<1> QED BY <1>4, <1>5, <1>6

\* The first place where a search from q finds a match, and where that ends.
Start(r, q) == Regex!First(Regex!Starts(r, q))
End(r, q) == Regex!At(r, q, Start(r, q)).eo

LEMMA FirstStart ==
  ASSUME Regex!RegexAssumption, NEW r \in Regex!Regex, NEW q \in 0..(Length + 1), Regex!Starts(r, q) # {}
  PROVE  /\ Start(r, q) \in Regex!Place /\ Start(r, q) >= q
         /\ Regex!At(r, q, Start(r, q)) # None
         /\ Regex!At(r, q, Start(r, q)).group \in [1..r.nsub -> BOOLEAN]
         /\ End(r, q) \in Regex!Place /\ End(r, q) >= Start(r, q)
<1>1. Regex!Starts(r, q) \in SUBSET Nat
  BY DEF Regex!Starts, Regex!RegexAssumption
<1>2. Start(r, q) \in Regex!Starts(r, q)
  BY <1>1, Least DEF Regex!First, Start
<1>3. /\ Start(r, q) \in Regex!Place /\ Start(r, q) >= q
      /\ Regex!At(r, q, Start(r, q)) # None
  BY <1>2 DEF Regex!Starts, Regex!Place, Regex!RegexAssumption
<1>4. Regex!At(r, q, Start(r, q)) \in {r.at[Start(r, q)], r.first[Start(r, q)]}
  BY DEF Regex!At
<1> QED BY <1>3, <1>4, Shape DEF End

\* A match is a sequence of at least one piece.
LEMMA MatchIsPieces ==
  ASSUME Regex!RegexAssumption, NEW r \in Regex!Regex, NEW q \in 0..(Length + 1), Regex!Starts(r, q) # {}
  PROVE  Regex!Matches(r, q) \in Seq(Pieces) /\ Len(Regex!Matches(r, q)) \in Nat \ {0}
<1> DEFINE s == Start(r, q)
           f == Regex!At(r, q, s)
           Stop(k) == /\ \A j \in 1..k : f.group[j]
                      /\ k < r.nsub => ~f.group[k + 1]
           n == CHOOSE k \in 0..r.nsub : Stop(k)
           m == IF n + 1 < MaxMatch THEN n + 1 ELSE MaxMatch
           K == {k \in 0..r.nsub : k < r.nsub => ~f.group[k + 1]}
<1>1. r.nsub \in Nat /\ f.eo \in Regex!Place /\ s \in Regex!Place
  BY Shape, FirstStart DEF Regex!RegexAssumption, End
<1>2. \E k \in 0..r.nsub : Stop(k)
  <2>1. K \in SUBSET Nat /\ r.nsub \in K
    BY <1>1
  <2>2. PICK k \in K : \A j \in K : k <= j
    BY <2>1, Least
  <2>3. ASSUME NEW j \in 1..k PROVE f.group[j]
    <3>1. j - 1 \in 0..r.nsub /\ j - 1 < k /\ j - 1 < r.nsub /\ (j - 1) + 1 = j
      BY <1>1, <2>2
    <3>2. j - 1 \notin K
      BY <2>2, <3>1
    <3> QED BY <3>1, <3>2
  <2> QED BY <2>2, <2>3
<1>3. n \in 0..r.nsub
  BY <1>2
<1>4. m \in Nat \ {0}
  <2> HIDE DEF n
  <2> QED BY <1>1, <1>3 DEF Regex!RegexAssumption
<1>5. Regex!Matches(r, q) = [j \in 1..m |-> Regex!Piece(s, f.eo)]
  BY DEF Regex!Matches, Start
<1>6. Regex!Piece(s, f.eo) \in Pieces
  BY <1>1 DEF Regex!Piece, Pieces
<1> HIDE DEF m, f, s
<1> QED BY <1>4, <1>5, <1>6

----------------------------------------------------------------------------
\* A search from q finds the empty string there, and will find it again.
Stuck(r, q) == Regex!Starts(r, q) # {} /\ End(r, q) = q

\* The list of all matches from a place on, by the place of the next search;
\* where it would find the empty string for ever it goes on by one place.
After(r, q) == IF End(r, q) = Start(r, q) /\ Stuck(r, End(r, q)) THEN Start(r, q) + 1 ELSE End(r, q)
Rest(r, f, q) == IF Regex!Starts(r, q) = {} THEN <<>> ELSE Regex!Matches(r, q) \o f[After(r, q)]
Lists(r, f) == f = [q \in 0..(Length + 1) |-> Rest(r, f, q)]

\* The next search starts further on, and not too far.
LEMMA AfterIsLater ==
  ASSUME Regex!RegexAssumption, NEW r \in Regex!Regex, NEW q \in 0..(Length + 1), Regex!Starts(r, q) # {}
  PROVE  After(r, q) \in 0..(Length + 1) /\ After(r, q) > q
<1>1. /\ Start(r, q) \in 0..Length /\ Start(r, q) >= q
      /\ End(r, q) \in 0..Length /\ End(r, q) >= Start(r, q) /\ Length \in Nat
  BY FirstStart DEF Regex!Place, Regex!RegexAssumption
<1>2. CASE End(r, q) = q
  <2>1. Start(r, q) = q /\ Stuck(r, End(r, q))
    BY <1>1, <1>2 DEF Stuck
  <2>2. After(r, q) = q + 1
    BY <1>2, <2>1 DEF After
  <2> QED BY <1>1, <1>2, <2>2
<1>3. CASE End(r, q) # q
  BY <1>1, <1>3 DEF After
<1> QED BY <1>2, <1>3

\* One step of such a list.
LEMMA RestIsPieces ==
  ASSUME Regex!RegexAssumption, NEW r \in Regex!Regex, NEW q \in 0..(Length + 1), NEW f,
         \A x \in 0..(Length + 1) : x > q => f[x] \in Seq(Pieces)
  PROVE  Rest(r, f, q) \in Seq(Pieces)
<1>1. CASE Regex!Starts(r, q) = {}
  BY <1>1 DEF Rest
<1>2. CASE Regex!Starts(r, q) # {}
  <2>1. Regex!Matches(r, q) \in Seq(Pieces)
    BY <1>2, MatchIsPieces
  <2>2. f[After(r, q)] \in Seq(Pieces)
    BY <1>2, AfterIsLater
  <2>3. Rest(r, f, q) = Regex!Matches(r, q) \o f[After(r, q)]
    BY <1>2 DEF Rest
  <2> QED BY <2>1, <2>2, <2>3
<1> QED BY <1>1, <1>2

\* Whatever is such a list is one of pieces: the last place where it is none
\* could not be.
LEMMA ListsArePieces ==
  ASSUME Regex!RegexAssumption, NEW r \in Regex!Regex, NEW f, Lists(r, f)
  PROVE  \A q \in 0..(Length + 1) : f[q] \in Seq(Pieces)
<1> DEFINE Bad == {q \in 0..(Length + 1) : f[q] \notin Seq(Pieces)}
           D == {d \in 0..(Length + 1) : (Length + 1) - d \in Bad}
<1> SUFFICES ASSUME Bad # {} PROVE FALSE
  OBVIOUS
<1>1. Length \in Nat
  BY DEF Regex!RegexAssumption
<1>2. D \in SUBSET Nat /\ D # {}
  <2>1. PICK q \in 0..(Length + 1) : q \in Bad
    OBVIOUS
  <2>2. (Length + 1) - q \in 0..(Length + 1) /\ (Length + 1) - ((Length + 1) - q) = q
    BY <1>1
  <2> HIDE DEF Bad
  <2>3. (Length + 1) - q \in D
    BY <2>1, <2>2
  <2>4. \A d \in D : d \in Nat
    BY <1>1
  <2> HIDE DEF D
  <2> QED BY <2>3, <2>4
<1>3. PICK d \in D : \A e \in D : d <= e
  BY <1>2, Least
<1>4. (Length + 1) - d \in Bad /\ d \in 0..(Length + 1)
  OBVIOUS
<1> DEFINE q == (Length + 1) - d
<1>5. ASSUME NEW x \in 0..(Length + 1), x > q PROVE f[x] \in Seq(Pieces)
  <2>1. (Length + 1) - x \in 0..(Length + 1) /\ (Length + 1) - ((Length + 1) - x) = x
        /\ (Length + 1) - x < d
    BY <1>1, <1>4, <1>5
  <2>2. (Length + 1) - x \notin D
    BY <1>3, <2>1
  <2>3. x \notin Bad
    BY <2>1, <2>2
  <2> QED BY <2>3
<1>6. q \in 0..(Length + 1) /\ f[q] \notin Seq(Pieces)
  BY <1>4
<1>7. f[q] = Rest(r, f, q)
  BY <1>6 DEF Lists
<1> HIDE DEF q
<1> QED BY <1>5, <1>6, <1>7, RestIsPieces

\* There is such a list: it can be made from the end of the text on.
LEMMA ListExists ==
  ASSUME Regex!RegexAssumption, NEW r \in Regex!Regex
  PROVE  \E f : Lists(r, f)
<1> DEFINE From(q) == q..(Length + 1)
           Good(g, q) == \A x \in From(q) : g[x] = Rest(r, g, x)
           T == {q \in 0..(Length + 1) : \E g \in [From(q) -> Seq(Pieces)] : Good(g, q)}
<1>1. Length \in Nat
  BY DEF Regex!RegexAssumption
<1>2. Length + 1 \in T
  <2>1. Regex!Starts(r, Length + 1) = {}
    BY <1>1 DEF Regex!Starts
  <2> DEFINE g == [x \in From(Length + 1) |-> <<>>]
  <2>2. From(Length + 1) = {Length + 1}
    BY <1>1
  <2>3. g \in [From(Length + 1) -> Seq(Pieces)]
    OBVIOUS
  <2>4. Good(g, Length + 1)
    BY <2>1, <2>2 DEF Rest
  <2>5. \E e \in [From(Length + 1) -> Seq(Pieces)] : Good(e, Length + 1)
    BY <2>3, <2>4
  <2>6. Length + 1 \in 0..(Length + 1)
    BY <1>1
  <2> HIDE DEF Good, From
  <2> QED BY <2>5, <2>6
<1>3. PICK t \in T : \A q \in T : t <= q
  <2>1. T \in SUBSET Nat /\ T # {}
    <3> HIDE DEF Good, From
    <3>1. T \subseteq 0..(Length + 1)
      OBVIOUS
    <3> HIDE DEF T
    <3> QED BY <1>1, <1>2, <3>1
  <2> HIDE DEF T
  <2> QED BY <2>1, Least
<1>4. t \in 0..(Length + 1)
  OBVIOUS
<1>5. PICK g \in [From(t) -> Seq(Pieces)] : Good(g, t)
  BY <1>3
<1>6. CASE t = 0
  <2>1. g = [x \in 0..(Length + 1) |-> Rest(r, g, x)]
    BY <1>5, <1>6
  <2> QED BY <2>1 DEF Lists
<1>7. CASE t # 0
  <2> DEFINE q == t - 1
             h == [x \in From(q) |-> IF x = q THEN Rest(r, g, q) ELSE g[x]]
  <2>1. q \in 0..(Length + 1) /\ q < t
    BY <1>4, <1>7, <1>1
  <2>2. \A x \in From(q) : x = q \/ x \in From(t)
    BY <1>1, <1>4, <1>7
  <2>3. \A x \in 0..(Length + 1) : x > q => x \in From(t) /\ x \in From(q) /\ x # q
    BY <1>1, <1>4, <1>7
  <2>4. Rest(r, g, q) \in Seq(Pieces)
    <3>1. \A x \in 0..(Length + 1) : x > q => g[x] \in Seq(Pieces)
      BY <2>3, <1>5
    <3> HIDE DEF q
    <3> QED BY <2>1, <3>1, RestIsPieces
  <2>5. h \in [From(q) -> Seq(Pieces)]
    <3> HIDE DEF q, From
    <3> QED BY <2>2, <2>4, <1>5
  <2>6. \A x \in 0..(Length + 1) : x > q => h[x] = g[x]
    <3> HIDE DEF q, From
    <3> QED BY <2>3
  <2>7. ASSUME NEW x \in From(q) PROVE h[x] = Rest(r, h, x)
    <3>1. x \in 0..(Length + 1) /\ x >= q
      BY <2>1, <1>1
    <3>2. Rest(r, h, x) = Rest(r, g, x)
      <4>1. CASE Regex!Starts(r, x) = {}
        BY <4>1 DEF Rest
      <4>2. CASE Regex!Starts(r, x) # {}
        <5>1. After(r, x) \in 0..(Length + 1) /\ After(r, x) > x
          BY <3>1, <4>2, AfterIsLater
        <5>2. After(r, x) > q
          BY <3>1, <5>1, <2>1
        <5>3. h[After(r, x)] = g[After(r, x)]
          BY <5>1, <5>2, <2>6
        <5> HIDE DEF h
        <5> QED BY <4>2, <5>3 DEF Rest
      <4> QED BY <4>1, <4>2
    <3>3. h[x] = Rest(r, g, x)
      <4>1. CASE x = q
        BY <4>1
      <4>2. CASE x # q
        BY <4>2, <2>2, <1>5
      <4> QED BY <4>1, <4>2
    <3> QED BY <3>2, <3>3
  <2>8. q \in T
    BY <2>1, <2>5, <2>7
  <2> QED BY <2>8, <2>1, <1>3, <1>4, <1>1
<1> QED BY <1>6, <1>7

\* For an expression that both read alike, that list is what re.findall gives.
LEMMA FindallIsList ==
  ASSUME Regex!RegexAssumption, NEW r \in Regex!Regex, Regex!ReadAlike(r)
  PROVE  \E f : Lists(r, f) /\ Regex!Findall(r) = f[0]
<1> DEFINE Left(q) == {s \in q..Length : r.python[s] # <<>>}
           Group(s, m, i) == IF m.group[i] THEN Regex!Piece(s, m.eo) ELSE <<>>
           Item(s, m) == IF r.nsub = 0 THEN Regex!Piece(s, m.eo)
                         ELSE IF r.nsub = 1 THEN Group(s, m, 1)
                         ELSE [i \in 1..r.nsub |-> Group(s, m, i)]
           Items(s) == [i \in 1..Len(r.python[s]) |-> Item(s, r.python[s][i])]
           e(s) == r.python[s][Len(r.python[s])].eo
           Next1(s) == IF e(s) > s THEN e(s) ELSE s + 1
           Found1(f) == f = [q \in 0..(Length + 1) |->
                              IF Left(q) = {} THEN <<>>
                              ELSE Items(Regex!First(Left(q))) \o f[Next1(Regex!First(Left(q)))]]
<1>1. Regex!Findall(r) = (CHOOSE f : Found1(f))[0]
  BY DEF Regex!Findall
<1>2. r.nsub = 0 /\ r.first = r.at /\ Length \in Nat /\ MaxMatch \in Nat \ {0}
  BY DEF Regex!ReadAlike, Regex!RegexAssumption
<1>22. ASSUME NEW s \in Regex!Place
       PROVE  r.python[s] = IF r.at[s] = None THEN <<>> ELSE <<r.at[s]>>
  BY Shape DEF Regex!ReadAlike
<1>23. ASSUME NEW x PROVE <<x>> # <<>> /\ Len(<<x>>) = 1 /\ <<x>>[1] = x
  OBVIOUS
<1>3. \A q, s : Regex!At(r, q, s) = r.at[s]
  BY <1>2 DEF Regex!At
<1>4. \A q \in 0..(Length + 1) : Left(q) = Regex!Starts(r, q)
  <2>1. \A q \in 0..(Length + 1) : \A s \in q..Length : s \in Regex!Place
    BY <1>2 DEF Regex!Place
  <2>2. \A s \in Regex!Place : r.python[s] # <<>> <=> r.at[s] # None
    BY <1>22, <1>23, Zenon
  <2> QED BY <2>1, <2>2, <1>3 DEF Regex!Starts
<1>5. ASSUME NEW q \in 0..(Length + 1), Regex!Starts(r, q) # {}
      PROVE  Regex!Matches(r, q) = Items(Start(r, q)) /\ After(r, q) = Next1(Start(r, q))
  <2> DEFINE s == Start(r, q)
             f == Regex!At(r, q, s)
             Stop(k) == /\ \A i \in 1..k : f.group[i]
                        /\ k < r.nsub => ~f.group[k + 1]
             n == CHOOSE k \in 0..r.nsub : Stop(k)
  <2>1. /\ s \in 0..Length /\ s \in Regex!Place /\ f = r.at[s] /\ f # None /\ f.eo = End(r, q)
        /\ f.eo \in 0..Length /\ f.eo >= s
    BY <1>3, <1>5, FirstStart DEF End, Regex!Place
  <2>2. r.python[s] = <<f>> /\ Len(r.python[s]) = 1 /\ e(s) = f.eo /\ r.python[s][1] = f
    <3> HIDE DEF s, f
    <3>1. r.python[s] = <<f>>
      BY <1>22, <2>1, Zenon
    <3>2. Len(<<f>>) = 1 /\ <<f>>[1] = f
      BY <1>23
    <3> QED BY <3>1, <3>2, Zenon
  <2>3. n = 0
    <3>1. 0..r.nsub = {0} /\ Stop(0)
      BY <1>2
    <3> HIDE DEF Stop
    <3> QED BY <3>1
  <2>4. 1..(IF n + 1 < MaxMatch THEN n + 1 ELSE MaxMatch) = 1..1
    <3> HIDE DEF n
    <3> QED BY <1>2, <2>3
  <2>5. Regex!Matches(r, q) = [i \in 1..1 |-> Regex!Piece(s, f.eo)]
    BY <2>4 DEF Regex!Matches, Start
  <2>6. Items(s) = [i \in 1..1 |-> Regex!Piece(s, f.eo)]
    <3>1. Item(s, f) = Regex!Piece(s, f.eo)
      BY <1>2
    <3> HIDE DEF Item, s, f
    <3>2. \A i \in 1..1 : Item(s, r.python[s][i]) = Regex!Piece(s, f.eo)
      <4>1. \A i \in 1..1 : i = 1
        OBVIOUS
      <4> QED BY <2>2, <3>1, <4>1, Zenon
    <3> QED BY <2>2, <3>2, Zenon
  <2>7. ASSUME f.eo > s PROVE After(r, q) = Next1(s)
    <3>1. End(r, q) # Start(r, q)
      BY <2>1, <2>7
    <3>2. After(r, q) = f.eo
      BY <2>1, <3>1, Zenon DEF After
    <3>3. Next1(s) = f.eo
      BY <2>2, <2>7, Zenon
    <3> QED BY <3>2, <3>3, Zenon
  <2>8. ASSUME ~(f.eo > s) PROVE After(r, q) = Next1(s)
    <3>1. f.eo = s
      BY <2>1, <2>8
    <3>2. Regex!Starts(r, s) # {} /\ Start(r, s) = s
      <4>1. s \in Regex!Starts(r, s)
        BY <1>3, <2>1 DEF Regex!Starts
      <4>2. s \in 0..(Length + 1) /\ Start(r, s) \in Regex!Starts(r, s)
            /\ \A u \in Regex!Starts(r, s) : Start(r, s) <= u
        <5> HIDE DEF s
        <5>1. Regex!Starts(r, s) \in SUBSET Nat
          BY <2>1 DEF Regex!Starts
        <5>2. s \in 0..(Length + 1)
          BY <1>2, <2>1
        <5>3. \E u \in Regex!Starts(r, s) : \A v \in Regex!Starts(r, s) : u <= v
          BY <4>1, <5>1, Least
        <5> QED BY <5>2, <5>3 DEF Start, Regex!First
      <4>3. Start(r, s) \in Nat /\ Start(r, s) >= s /\ Start(r, s) <= s
        BY <2>1, <4>1, <4>2 DEF Regex!Starts
      <4> QED BY <2>1, <4>1, <4>3
    <3>3. Stuck(r, s)
      BY <1>3, <2>1, <3>1, <3>2 DEF Stuck, End
    <3> QED BY <2>1, <2>2, <2>5, <2>6, <2>8, <3>1, <3>3 DEF After
  <2> HIDE DEF s, f
  <2> QED BY <2>5, <2>6, <2>7, <2>8 DEF s
<1>6. ASSUME NEW f PROVE Found1(f) <=> Lists(r, f)
  <2>1. ASSUME NEW q \in 0..(Length + 1)
        PROVE  (IF Left(q) = {} THEN <<>>
                ELSE Items(Regex!First(Left(q))) \o f[Next1(Regex!First(Left(q)))]) = Rest(r, f, q)
    <3> HIDE DEF Left, Items, Next1
    <3> QED BY <1>4, <1>5 DEF Rest, Start
  <2> HIDE DEF Left, Items, Next1
  <2> QED BY <2>1 DEF Lists
<1>7. \E f : Found1(f)
  <2> HIDE DEF Found1
  <2> QED BY <1>6, ListExists
<1> HIDE DEF Found1
<1>8. Found1(CHOOSE f : Found1(f))
  BY <1>7
<1> QED BY <1>1, <1>6, <1>8
----------------------------------------------------------------------------
\* One search: the list from where it begins is the match and the list from
\* where it ends, or it ends where it will find nothing for ever.
LEMMA Search ==
  ASSUME Regex!RegexAssumption, NEW r \in Regex!Regex, NEW q \in Regex!Place, Regex!Starts(r, q) # {}
  PROVE  /\ End(r, q) \in Regex!Place
         /\ Regex!Matches(r, q) \in Seq(Pieces)
         /\ \A f : Lists(r, f) => f[q] = Regex!Matches(r, q) \o f[End(r, q)] \/ Stuck(r, End(r, q))
         /\ Stuck(r, q) => Stuck(r, End(r, q))
<1>1. Length \in Nat /\ q \in 0..(Length + 1)
  BY DEF Regex!RegexAssumption, Regex!Place
<1>2. End(r, q) \in Regex!Place /\ Regex!Matches(r, q) \in Seq(Pieces)
  BY <1>1, FirstStart, MatchIsPieces
<1>3. ASSUME NEW f, Lists(r, f), ~Stuck(r, End(r, q))
      PROVE  f[q] = Regex!Matches(r, q) \o f[End(r, q)]
  <2>1. f[q] = Rest(r, f, q)
    BY <1>1, <1>3 DEF Lists
  <2>2. After(r, q) = End(r, q)
    BY <1>3 DEF After
  <2> QED BY <2>1, <2>2 DEF Rest
<1>4. Stuck(r, q) => Stuck(r, End(r, q))
  BY DEF Stuck
<1> QED BY <1>2, <1>3, <1>4

\* What is stored of a match, and the memory for it.
RegexTypes == /\ reRegex \in Regex!Regex \cup {None} /\ reSubStr \in Seq(Pieces)
              /\ rePc \in {"idle", "match", "parse"} /\ reP \in Regex!Place
              /\ reMatchCount \in 0..(Modulus - 1)
              /\ reAllocated \in 0..Memory /\ reLost \in 0..Memory
              /\ reComplete \in BOOLEAN /\ reMatched \in 0..(Modulus - 1) \cup {None}
              /\ rePc # "idle" => reRegex # None
              /\ Regex!MemoryAccounted

\* What parse has listed and what it will list are the list, if nothing failed.
Listing ==
    /\ rePc = "parse" /\ reComplete =>
          \A f : Lists(reRegex, f) => reSubStr \o f[reP] = f[0] \/ Stuck(reRegex, reP)
    /\ rePc # "parse" /\ reComplete =>
          reRegex # None /\ \A f : Lists(reRegex, f) => reSubStr = f[0]

\* What match has counted and what it will count are the list's length.
Counting ==
    /\ rePc = "match" =>
          \A f : Lists(reRegex, f) =>
             \/ \E n \in Nat : reMatchCount = n % Modulus /\ n + Len(f[reP]) = Len(f[0])
             \/ Stuck(reRegex, reP)
    /\ reMatched # None => \A f : Lists(reRegex, f) => reMatched = Len(f[0]) % Modulus
    /\ reRegex = None => reMatched = None

RegexInv == RegexTypes /\ Listing /\ Counting

\* A handle has no expression and nothing in its list.
LEMMA RegexInit == ASSUME Regex!RegexAssumption PROVE Regex!Init => RegexInv
<1> SUFFICES ASSUME Regex!Init PROVE RegexInv
  OBVIOUS
<1>1. <<>> \in Seq(Pieces) /\ Len(<<>>) = 0
  OBVIOUS
<1>2. 0 \in Regex!Place /\ 0 \in 0..(Modulus - 1) /\ 0 \in 0..Memory
  BY DEF Regex!Place, Regex!RegexAssumption
<1>3. Regex!MemoryAccounted
  BY <1>1 DEF Regex!Init, Regex!MemoryAccounted
<1>4. RegexTypes
  BY <1>1, <1>2, <1>3, Zenon DEF Regex!Init, RegexTypes
<1> QED BY <1>4 DEF Regex!Init, RegexInv, Listing, Counting

\* What push_back keeps is pieces of the text, and memory stays accounted for.
LEMMA Stored ==
  ASSUME Regex!RegexAssumption, RegexTypes, NEW m \in Seq(Pieces), NEW k \in 0..Len(m),
         NEW leak \in {0, 1}, Regex!Store(m, k, leak), reRegex # None, reRegex' = reRegex
  PROVE  /\ reSubStr' \in Seq(Pieces) /\ reAllocated' \in 0..Memory /\ reLost' \in 0..Memory
         /\ Regex!MemoryAccounted'
<1>1. SubSeq(m, 1, k) \in Seq(Pieces) /\ Len(SubSeq(m, 1, k)) = k
  <2>1. \A j \in 1..k : m[j] \in Pieces /\ j \in 1..Len(m)
    BY ElementOfSeq
  <2> QED BY <2>1, SubSeqProperties
<1> DEFINE new == SubSeq(m, 1, k)
<1> HIDE DEF new
<1>2. new \in Seq(Pieces) /\ Len(new) = k /\ reSubStr' = reSubStr \o new
  BY <1>1 DEF new, Regex!Store
<1>3. reSubStr' \in Seq(Pieces) /\ Len(reSubStr') = Len(reSubStr) + k
  BY <1>2, ConcatProperties DEF RegexTypes
<1>4. reAllocated = 2 * Len(reSubStr) + reLost /\ Len(reSubStr) \in Nat /\ reLost \in Nat
      /\ reAllocated \in Nat /\ k \in Nat /\ Memory \in Nat
  BY DEF RegexTypes, Regex!MemoryAccounted, Regex!RegexAssumption
<1>5. reAllocated + 2 * k + leak <= Memory /\ reAllocated' = reAllocated + 2 * k + leak
      /\ reLost' = reLost + leak
  BY DEF Regex!Store
<1>6. reAllocated' \in 0..Memory /\ reLost' \in 0..Memory
      /\ reAllocated' = 2 * Len(reSubStr') + reLost'
  BY <1>3, <1>4, <1>5
<1> QED BY <1>3, <1>6 DEF Regex!MemoryAccounted

\* Lists are joined in any order.
LEMMA Joined ==
  ASSUME NEW x \in Seq(Pieces), NEW y \in Seq(Pieces), NEW z \in Seq(Pieces)
  PROVE  (x \o y) \o z = x \o (y \o z)
BY ConcatAssociative

\* Every step of match, parse, compile and clear keeps the invariant.
LEMMA RegexNext ==
  ASSUME Regex!RegexAssumption, RegexInv, [Regex!Next]_(Regex!vars)
  PROVE RegexInv'
<1> USE DEF RegexInv
<1>0. Modulus \in Nat /\ Modulus > 0 /\ 0 \in Regex!Place /\ 0 \in 0..(Modulus - 1)
  BY DEF Regex!RegexAssumption, Regex!Place
<1>00. /\ <<>> \in Seq(Pieces) /\ Len(<<>>) = 0
       /\ Len(reSubStr) \in Nat
  BY DEF RegexTypes
<1>1. CASE Regex!sky_regex_create
  <2>1. RegexTypes'
    BY <1>1 DEF Regex!sky_regex_create, RegexTypes, Regex!MemoryAccounted
  <2>2. Listing' /\ Counting'
    BY <1>1 DEF Regex!sky_regex_create, RegexTypes, Listing, Counting, Regex!MemoryAccounted
  <2> QED BY <2>1, <2>2
<1>2. CASE Regex!sky_regex_destroy
  <2>1. reSubStr' = <<>> /\ reAllocated' = reLost /\ reLost' = reLost
    BY <1>2, <1>00 DEF Regex!sky_regex_destroy, Regex!sky_regex_substr_free, RegexTypes,
                       Regex!MemoryAccounted
  <2>2. Regex!MemoryAccounted'
    <3>1. reAllocated' = 2 * 0 + reLost'
      BY <2>1 DEF RegexTypes
    <3> QED BY <1>00, <2>1, <3>1 DEF Regex!MemoryAccounted
  <2>22. RegexTypes'
    BY <1>2, <1>0, <1>00, <2>1, <2>2, Zenon DEF Regex!sky_regex_destroy, RegexTypes
  <2>3. Listing' /\ Counting'
    BY <1>2 DEF Regex!sky_regex_destroy, Listing, Counting
  <2> QED BY <2>22, <2>3
<1>3. CASE Regex!sky_regex_match
  <2>1. RegexTypes'
    BY <1>3, <1>0 DEF Regex!sky_regex_match, RegexTypes, Regex!MemoryAccounted
  <2>2. Listing'
    BY <1>3 DEF Regex!sky_regex_match, Listing
  <2>3. reRegex \in Regex!Regex
    BY <1>3 DEF Regex!sky_regex_match, RegexTypes
  <2>4. ASSUME NEW f, Lists(reRegex, f)
        PROVE  \E n \in Nat : 0 = n % Modulus /\ n + Len(f[0]) = Len(f[0])
    <3>1. f[0] \in Seq(Pieces)
      BY <2>3, <2>4, ListsArePieces DEF Regex!RegexAssumption
    <3>2. 0 % Modulus = 0 /\ 0 + Len(f[0]) = Len(f[0])
      BY <1>0, <3>1
    <3> QED BY <3>2
  <2>5. Counting'
    BY <1>3, <2>4 DEF Regex!sky_regex_match, Counting
  <2> QED BY <2>1, <2>2, <2>5
<1>4. CASE Regex!sky_regex_parse
  <2>1. reSubStr' = <<>> /\ reAllocated' = reLost /\ reLost' = reLost
    BY <1>4, <1>00 DEF Regex!sky_regex_parse, Regex!sky_regex_substr_free, RegexTypes,
                       Regex!MemoryAccounted
  <2>2. Regex!MemoryAccounted'
    <3>1. reAllocated' = 2 * 0 + reLost'
      BY <2>1 DEF RegexTypes
    <3> QED BY <1>00, <2>1, <3>1 DEF Regex!MemoryAccounted
  <2>22. RegexTypes'
    BY <1>4, <1>0, <1>00, <2>1, <2>2, Zenon DEF Regex!sky_regex_parse, RegexTypes
  <2>3. reRegex \in Regex!Regex
    BY <1>4 DEF Regex!sky_regex_parse, RegexTypes
  <2>4. ASSUME NEW f, Lists(reRegex, f) PROVE <<>> \o f[0] = f[0]
    <3>1. f[0] \in Seq(Pieces)
      BY <2>3, <2>4, ListsArePieces DEF Regex!RegexAssumption
    <3> QED BY <3>1
  <2>5. Listing'
    BY <1>4, <2>1, <2>4 DEF Regex!sky_regex_parse, Listing
  <2>6. Counting'
    BY <1>4 DEF Regex!sky_regex_parse, Counting
  <2> QED BY <2>22, <2>5, <2>6
<1> DEFINE m == Regex!Matches(reRegex, reP)
<1>5. CASE Regex!MatchNext
  <2>1. /\ reRegex \in Regex!Regex /\ reP \in Regex!Place /\ Regex!Starts(reRegex, reP) # {} /\ reP' = End(reRegex, reP)
        /\ reRegex' = reRegex /\ rePc' = rePc /\ rePc = "match" /\ reMatched' = reMatched
    BY <1>5 DEF Regex!MatchNext, RegexTypes, Regex!NextPlace, End, Start
  <2>2. /\ reP' \in Regex!Place /\ m \in Seq(Pieces)
        /\ \A f : Lists(reRegex, f) => f[reP] = m \o f[reP'] \/ Stuck(reRegex, reP')
        /\ Stuck(reRegex, reP) => Stuck(reRegex, reP')
    BY <2>1, Search
  <2>3. reMatchCount' = (reMatchCount + Len(m)) % Modulus
    BY <1>5 DEF Regex!MatchNext
  <2> HIDE DEF m
  <2>4. reMatchCount' \in 0..(Modulus - 1)
    <3>1. reMatchCount + Len(m) \in Nat
      BY <1>0, <2>2 DEF RegexTypes
    <3> QED BY <1>0, <2>3, <3>1, NatDivision
  <2>5. RegexTypes'
    BY <1>5, <2>1, <2>2, <2>4 DEF Regex!MatchNext, RegexTypes, Regex!MemoryAccounted
  <2>6. Listing'
    BY <1>5, <2>1 DEF Regex!MatchNext, Listing
  <2>7. ASSUME NEW f, Lists(reRegex, f), ~Stuck(reRegex, reP')
        PROVE  \E n \in Nat : reMatchCount' = n % Modulus /\ n + Len(f[reP']) = Len(f[0])
    <3>1. PICK n \in Nat : reMatchCount = n % Modulus /\ n + Len(f[reP]) = Len(f[0])
      BY <2>1, <2>2, <2>7 DEF Counting
    <3>0. reP' \in 0..(Length + 1) /\ 0 \in 0..(Length + 1)
      BY <2>2 DEF Regex!Place, Regex!RegexAssumption
    <3>2. f[reP'] \in Seq(Pieces) /\ f[reP] = m \o f[reP'] /\ f[0] \in Seq(Pieces)
      BY <2>1, <2>2, <2>7, <3>0, ListsArePieces, Zenon
    <3>3. Len(f[reP]) = Len(m) + Len(f[reP']) /\ Len(m) \in Nat /\ Len(f[reP']) \in Nat
      BY <2>2, <3>2
    <3>4. reMatchCount' = (n + Len(m)) % Modulus
      <4>1. ((n % Modulus) + Len(m)) % Modulus = (n + Len(m)) % Modulus
        BY <1>0, <3>3, ModAdds
      <4> QED BY <2>3, <3>1, <4>1, Zenon
    <3>5. n + Len(m) \in Nat /\ (n + Len(m)) + Len(f[reP']) = Len(f[0])
      <4>1. n + Len(f[reP]) = Len(f[0])
        BY <3>1
      <4>3. Len(f[reP]) \in Nat /\ n + Len(m) \in Nat
        BY <3>3
      <4>4. (n + Len(m)) + Len(f[reP']) = n + Len(f[reP])
        <5> DEFINE a == Len(m)
                   b == Len(f[reP'])
                   c == Len(f[reP])
        <5>1. a \in Nat /\ b \in Nat /\ c \in Nat /\ c = a + b
          BY <3>3, <4>3
        <5> HIDE DEF a, b, c
        <5>2. (n + a) + b = n + c
          BY <5>1, Regroup
        <5> QED BY <5>2 DEF a, b, c
      <4> QED BY <4>1, <4>3, <4>4
    <3> QED BY <3>4, <3>5
  <2>8. Counting'
    BY <2>1, <2>7 DEF Counting
  <2> QED BY <2>5, <2>6, <2>8
<1>6. CASE Regex!MatchReturn
  <2>1. /\ reRegex \in Regex!Regex /\ reP \in Regex!Place /\ rePc = "match"
        /\ reRegex' = reRegex /\ rePc' = "idle" /\ reP' = 0 /\ reSubStr' = reSubStr
        /\ reMatched' = IF Regex!Exhausted THEN reMatchCount ELSE None
    BY <1>6 DEF Regex!MatchReturn, RegexTypes
  <2>2. RegexTypes'
    BY <1>6, <1>0, <2>1 DEF Regex!MatchReturn, RegexTypes, Regex!MemoryAccounted
  <2>3. Listing'
    BY <1>6, <2>1 DEF Regex!MatchReturn, Listing
  <2>4. ASSUME NEW f, Lists(reRegex, f), Regex!Exhausted PROVE reMatchCount = Len(f[0]) % Modulus
    <3>1. PICK n \in Nat : reMatchCount = n % Modulus /\ n + Len(f[reP]) = Len(f[0])
      BY <2>1, <2>4 DEF Counting, Stuck, Regex!Exhausted
    <3>2. f[reP] = <<>>
      BY <2>1, <2>4 DEF Lists, Rest, Regex!Place, Regex!RegexAssumption, Regex!Exhausted
    <3> QED BY <1>00, <3>1, <3>2
  <2>5. reRegex # None
    BY <2>1 DEF RegexTypes
  <2>6. Counting'
    BY <2>1, <2>4, <2>5 DEF Counting
  <2> QED BY <2>2, <2>3, <2>6
<1>7. CASE Regex!ParseNext
  <2>1. /\ reRegex \in Regex!Regex /\ reP \in Regex!Place /\ Regex!Starts(reRegex, reP) # {} /\ reP' = End(reRegex, reP)
        /\ reRegex' = reRegex /\ reRegex # None /\ rePc' = rePc /\ rePc = "parse" /\ reComplete' = reComplete
        /\ reMatched' = reMatched /\ reMatchCount' = reMatchCount
    BY <1>7 DEF Regex!ParseNext, RegexTypes, Regex!NextPlace, End, Start
  <2>2. /\ reP' \in Regex!Place /\ m \in Seq(Pieces)
        /\ \A f : Lists(reRegex, f) => f[reP] = m \o f[reP'] \/ Stuck(reRegex, reP')
        /\ Stuck(reRegex, reP) => Stuck(reRegex, reP')
    BY <2>1, Search
  <2>3. Regex!Store(m, Len(m), 0)
    BY <1>7 DEF Regex!ParseNext
  <2> HIDE DEF m
  <2>4. Len(m) \in 0..Len(m) /\ SubSeq(m, 1, Len(m)) = m
    BY <2>2, SubSeqFull
  <2>5. /\ reSubStr' \in Seq(Pieces) /\ reAllocated' \in 0..Memory /\ reLost' \in 0..Memory
        /\ Regex!MemoryAccounted'
    BY <2>1, <2>2, <2>3, <2>4, Stored
  <2>6. RegexTypes'
    BY <2>1, <2>2, <2>5 DEF RegexTypes
  <2>7. reSubStr' = reSubStr \o m
    BY <2>3, <2>4 DEF Regex!Store
  <2>8. ASSUME NEW f, Lists(reRegex, f), reComplete, ~Stuck(reRegex, reP')
        PROVE  reSubStr' \o f[reP'] = f[0]
    <3>1. reSubStr \o f[reP] = f[0]
      BY <2>1, <2>2, <2>8, Zenon DEF Listing
    <3>0. reP' \in 0..(Length + 1)
      BY <2>2 DEF Regex!Place, Regex!RegexAssumption
    <3>2. f[reP'] \in Seq(Pieces) /\ f[reP] = m \o f[reP']
      BY <2>1, <2>2, <2>8, <3>0, ListsArePieces, Zenon
    <3>3. (reSubStr \o m) \o f[reP'] = reSubStr \o (m \o f[reP'])
      <4>1. reSubStr \in Seq(Pieces) /\ m \in Seq(Pieces) /\ f[reP'] \in Seq(Pieces)
        BY <2>2, <3>2 DEF RegexTypes
      <4> QED BY <4>1, Joined
    <3> QED BY <2>7, <3>1, <3>2, <3>3
  <2>9. Listing'
    BY <2>1, <2>8 DEF Listing
  <2>10. Counting'
    BY <2>1 DEF Counting
  <2> QED BY <2>6, <2>9, <2>10
<1>8. CASE Regex!ParseFails
  <2>1. /\ reRegex \in Regex!Regex /\ reP \in Regex!Place /\ Regex!Starts(reRegex, reP) # {} /\ reP' = End(reRegex, reP)
        /\ reRegex' = reRegex /\ reRegex # None /\ rePc' = rePc /\ rePc = "parse" /\ reComplete' = FALSE
        /\ reMatched' = reMatched /\ reMatchCount' = reMatchCount
    BY <1>8 DEF Regex!ParseFails, RegexTypes, Regex!NextPlace, End, Start
  <2>2. reP' \in Regex!Place /\ m \in Seq(Pieces)
    BY <2>1, Search
  <2>3. PICK k \in 0..(Len(m) - 1), leak \in {0, 1} : Regex!Store(m, k, leak)
    BY <1>8 DEF Regex!ParseFails
  <2> HIDE DEF m
  <2>4. k \in 0..Len(m)
    BY <2>2
  <2>5. /\ reSubStr' \in Seq(Pieces) /\ reAllocated' \in 0..Memory /\ reLost' \in 0..Memory
        /\ Regex!MemoryAccounted'
    BY <2>1, <2>2, <2>3, <2>4, Stored
  <2>6. RegexTypes'
    BY <2>1, <2>2, <2>5 DEF RegexTypes
  <2>7. Listing' /\ Counting'
    BY <2>1 DEF Listing, Counting
  <2> QED BY <2>6, <2>7
<1>9. CASE Regex!ParseReturn
  <2>1. /\ reRegex \in Regex!Regex /\ reP \in Regex!Place /\ rePc = "parse"
        /\ reRegex' = reRegex /\ rePc' = "idle" /\ reMatched' = reMatched /\ reSubStr' = reSubStr
        /\ reComplete' = (reComplete /\ Regex!Exhausted) /\ reRegex # None
    BY <1>9 DEF Regex!ParseReturn, RegexTypes
  <2>2. RegexTypes'
    BY <1>9, <1>0 DEF Regex!ParseReturn, RegexTypes, Regex!MemoryAccounted
  <2>3. ASSUME NEW f, Lists(reRegex, f), reComplete, Regex!Exhausted PROVE reSubStr = f[0]
    <3>1. reSubStr \o f[reP] = f[0]
      BY <2>1, <2>3 DEF Listing, Stuck, Regex!Exhausted
    <3>2. f[reP] = <<>>
      BY <2>1, <2>3 DEF Lists, Rest, Regex!Place, Regex!RegexAssumption, Regex!Exhausted
    <3> QED BY <3>1, <3>2 DEF RegexTypes
  <2>4. Listing'
    BY <2>1, <2>3 DEF Listing
  <2>5. Counting'
    BY <2>1 DEF Counting
  <2> QED BY <2>2, <2>4, <2>5
<1>10. CASE UNCHANGED Regex!vars
  BY <1>10 DEF Regex!vars, RegexTypes, Regex!MemoryAccounted, Listing, Counting
<1> QED BY <1>1, <1>2, <1>3, <1>4, <1>5, <1>6, <1>7, <1>8, <1>9, <1>10 DEF Regex!Next,
                                                                           Regex!Step

\* The properties follow: when a search fails nothing more is to be listed.
LEMMA RegexRight ==
  ASSUME Regex!RegexAssumption, RegexInv
  PROVE  Regex!TypeOK /\ Regex!MemoryAccounted /\ Regex!ParseIsFindall /\ Regex!MatchAgrees
<1>1. Regex!TypeOK
  <2>1. reRegex = None \/ reRegex.nsub \in 0..MaxGroups
    BY Shape DEF RegexInv, RegexTypes
  <2>2. \A i \in 1..Len(reSubStr) : reSubStr[i] \in Pieces
    BY ElementOfSeq DEF RegexInv, RegexTypes
  <2> QED BY <2>1, <2>2 DEF RegexInv, RegexTypes, Regex!TypeOK, Pieces
<1>2. Regex!ParseIsFindall
  <2> SUFFICES ASSUME Regex!Parsed, Regex!ReadAlike(reRegex) PROVE reSubStr = Regex!Findall(reRegex)
    BY DEF Regex!ParseIsFindall
  <2>1. reRegex \in Regex!Regex
    BY DEF Regex!Parsed, RegexInv, RegexTypes
  <2>2. PICK f : Lists(reRegex, f) /\ Regex!Findall(reRegex) = f[0]
    BY <2>1, FindallIsList
  <2> QED BY <2>2 DEF Regex!Parsed, RegexInv, Listing
<1>3. Regex!MatchAgrees
  <2> SUFFICES ASSUME Regex!Parsed, reMatched # None PROVE reMatched = Len(reSubStr) % Modulus
    BY DEF Regex!MatchAgrees
  <2>1. reRegex \in Regex!Regex
    BY DEF Regex!Parsed, RegexInv, RegexTypes
  <2>2. PICK f : Lists(reRegex, f)
    BY <2>1, ListExists
  <2> QED BY <2>2 DEF Regex!Parsed, RegexInv, Listing, Counting
<1> QED BY <1>1, <1>2, <1>3 DEF RegexInv, RegexTypes
----------------------------------------------------------------------------
(* The local sockets *)

\* A queue of datagrams is the rest of a dump, from the place at on: a datagram
\* is what is between two of the places b.
RestOf(q, at, all) ==
    \E b \in [1..(Len(q) + 1) -> 1..(Len(all) + 1)] :
        /\ b[1] = at /\ b[Len(q) + 1] = Len(all) + 1
        /\ \A j \in 1..Len(q) : b[j] < b[j + 1] /\ q[j] = SubSeq(all, b[j], b[j + 1] - 1)

\* The k-th smallest of some places and the last one, by how many are smaller.
LEMMA Ranked ==
  ASSUME NEW L \in Nat \ {0}, NEW ends \in SUBSET (1..(L - 1))
  PROVE  LET Before(n) == {e \in ends : e < n}
             N == Cardinality(ends)
             E == ends \cup {L} IN
         /\ N \in Nat
         /\ \A k \in 1..(N + 1) : \E n \in E : Cardinality(Before(n)) = k - 1
         /\ \A n, m \in E : n < m => Cardinality(Before(n)) < Cardinality(Before(m))
         /\ Cardinality(Before(L)) = N
<1> DEFINE Before(n) == {e \in ends : e < n}
           N == Cardinality(ends)
           E == ends \cup {L}
           rank(n) == Cardinality(Before(n))
<1>1. IsFiniteSet(ends) /\ N \in Nat
  <2>1. IsFiniteSet(1..(L - 1))
    BY FS_Interval
  <2> QED BY <2>1, FS_Subset, FS_CardinalityType
<1>2. IsFiniteSet(E) /\ Cardinality(E) = N + 1
  <2>1. L \notin ends
    OBVIOUS
  <2> QED BY <1>1, <2>1, FS_AddElement
<1>3. ASSUME NEW n PROVE IsFiniteSet(Before(n)) /\ rank(n) \in Nat /\ rank(n) <= N
  <2>1. Before(n) \in SUBSET ends
    OBVIOUS
  <2> HIDE DEF Before
  <2> QED BY <1>1, <2>1, FS_Subset, FS_CardinalityType
<1>0. \A e \in ends : e \in Nat /\ e < L
  OBVIOUS
<1>00. \A e \in E : e \in Nat /\ ((e \in ends) <=> (e < L))
  BY <1>0
<1>4. Before(L) = ends
  BY <1>0, Zenon
<1>5. ASSUME NEW n \in E, NEW m \in E, n < m PROVE rank(n) < rank(m)
  <2>1. n \in ends /\ n \notin Before(n) /\ Before(n) \cup {n} \in SUBSET Before(m)
    <3>0. m \in Nat /\ n \in Nat
      BY <1>00
    <3>1. n \in ends
      <4>1. m <= L
        BY <1>00
      <4> QED BY <1>00, <1>5, <3>0, <4>1
    <3>2. ~(n < n)
      BY <3>0
    <3>3. ASSUME NEW e \in ends, e < n PROVE e < m
      BY <1>0, <1>5, <3>0, <3>3
    <3> QED BY <1>5, <3>1, <3>2, <3>3, Zenon
  <2> HIDE DEF Before, N, E
  <2>2. Cardinality(Before(n) \cup {n}) = rank(n) + 1
    BY <1>3, <2>1, FS_AddElement
  <2>3. rank(n) + 1 <= rank(m)
    BY <1>3, <2>1, <2>2, FS_Subset
  <2> QED BY <1>3, <2>3
<1> DEFINE f == [n \in E |-> rank(n)]
<1>6. f \in Injection(E, 0..N)
  <2>1. f \in [E -> 0..N]
    <3>1. \A n \in E : rank(n) \in 0..N
      <4> HIDE DEF N, rank
      <4> QED BY <1>1, <1>3 DEF rank
    <3> HIDE DEF rank, N
    <3> QED BY <3>1
  <2>2. ASSUME NEW n \in E, NEW m \in E, f[n] = f[m] PROVE n = m
    <3>1. n \in Nat /\ m \in Nat /\ rank(n) = rank(m)
      BY <2>2, <1>00
    <3> HIDE DEF E, rank
    <3>2. ~(n < m) /\ ~(m < n)
      <4>1. rank(n) \in Nat /\ \A k \in Nat : ~(k < k)
        BY <1>3 DEF rank
      <4> QED BY <1>5, <3>1, <4>1, Zenon
    <3> QED BY <3>1, <3>2
  <2>3. \A n, m \in E : f[n] = f[m] => n = m
    <3> HIDE DEF f, E
    <3> QED BY <2>2
  <2> HIDE DEF f, E
  <2> QED BY <2>1, <2>3, Zenon DEF Injection, IsInjective
<1>7. f \in Surjection(E, 0..N)
  <2>1. IsFiniteSet(0..N) /\ Cardinality(0..N) = N + 1
    <3> HIDE DEF N
    <3> QED BY <1>1, FS_Interval
  <2> HIDE DEF f, E, N
  <2> QED BY <1>2, <1>6, <2>1, FS_Injection
<1>8. ASSUME NEW k \in 1..(N + 1) PROVE \E n \in E : rank(n) = k - 1
  <2>1. k - 1 \in 0..N
    BY <1>1
  <2>2. \E n \in E : f[n] = k - 1
    <3> HIDE DEF f, E, N
    <3> QED BY <1>7, <2>1 DEF Surjection
  <2> HIDE DEF rank, E
  <2> QED BY <2>2
<1> HIDE DEF E, N
<1> QED BY <1>1, <1>4, <1>5, <1>8 DEF E, N

\* However a table is cut into datagrams, together they are the table.
LEMMA CutsAreRest ==
  ASSUME NEW M, NEW table \in Seq(M), table # <<>>, NEW c \in Socket!Cuts(table)
  PROVE  c \in Seq(Seq(M)) /\ c # <<>> /\ RestOf(c, 1, table)
<1> DEFINE L == Len(table)
<1>1. L \in Nat \ {0}
  OBVIOUS
<1>2. PICK ends \in SUBSET (1..(L - 1)) :
        c = [i \in 1..(Cardinality(ends) + 1) |->
               LET Before(n) == {e \in ends : e < n}
                   last == CHOOSE n \in ends \cup {L} : Cardinality(Before(n)) = i - 1
                   first == IF i = 1 THEN 1
                            ELSE 1 + (CHOOSE n \in ends : Cardinality(Before(n)) = i - 2) IN
               SubSeq(table, first, last)]
  BY DEF Socket!Cuts, Socket!Cardinality, Cardinality
<1> DEFINE Before(n) == {e \in ends : e < n}
           rank(n) == Cardinality(Before(n))
           N == Cardinality(ends)
           E == ends \cup {L}
           Last(i) == CHOOSE n \in E : rank(n) = i - 1
           First1(i) == IF i = 1 THEN 1 ELSE 1 + (CHOOSE n \in ends : rank(n) = i - 2)
<1>3. /\ N \in Nat
      /\ \A k \in 1..(N + 1) : \E n \in E : rank(n) = k - 1
      /\ \A n, m \in E : n < m => rank(n) < rank(m)
      /\ rank(L) = N
  <2> HIDE DEF L
  <2> QED BY <1>1, Ranked
<1>4. \A n \in E : n \in 1..L /\ n \in Nat /\ (n < L => n \in ends)
  BY <1>1
<1>44. \A i, j \in Nat : ~(i < i) /\ (i < j \/ j < i \/ i = j)
  OBVIOUS
<1>5. c = [i \in 1..(N + 1) |-> SubSeq(table, First1(i), Last(i))]
  BY <1>2
<1> HIDE DEF L, E, rank, N
<1>6. ASSUME NEW i \in 1..(N + 1) PROVE Last(i) \in E /\ rank(Last(i)) = i - 1
  BY <1>3
<1> HIDE DEF Last
<1>7. ASSUME NEW i \in 1..N
      PROVE  Last(i) < Last(i + 1) /\ First1(i + 1) = Last(i) + 1
  <2>1. i \in 1..(N + 1) /\ i + 1 \in 1..(N + 1) /\ i - 1 < i /\ (i + 1) - 1 = i /\ i # i - 1
        /\ (i + 1) - 2 = i - 1 /\ i + 1 # 1
    BY <1>3
  <2>0. i - 1 \in Nat /\ i \in Nat
    BY <1>3
  <2>2. Last(i) \in E /\ Last(i + 1) \in E /\ rank(Last(i)) = i - 1 /\ rank(Last(i + 1)) = i
    BY <1>6, <2>1
  <2>3. Last(i) < Last(i + 1)
    <3>1. Last(i) \in 1..L /\ Last(i + 1) \in 1..L
      BY <1>4, <2>2
    <3>2. ~(Last(i + 1) < Last(i))
      BY <1>3, <2>1, <2>2
    <3>3. Last(i + 1) # Last(i)
      BY <2>1, <2>2
    <3> QED BY <1>1, <3>1, <3>2, <3>3
  <2>4. Last(i) \in ends
    BY <1>1, <1>4, <2>2, <2>3
  <2>5. ASSUME NEW n \in ends, rank(n) = i - 1 PROVE n = Last(i)
    <3>1. n \in E
      BY DEF E
    <3>2. ~(n < Last(i)) /\ ~(Last(i) < n)
      BY <1>3, <1>44, <2>0, <2>2, <2>5, <3>1, Zenon
    <3> QED BY <1>4, <1>44, <2>2, <3>1, <3>2, Zenon
  <2>6. (CHOOSE n \in ends : rank(n) = i - 1) = Last(i)
    BY <2>2, <2>4, <2>5
  <2>7. First1(i + 1) = 1 + (CHOOSE n \in ends : rank(n) = i - 1)
    BY <2>1
  <2>8. Last(i) \in Nat
    BY <1>1, <1>4, <2>2
  <2>9. First1(i + 1) = Last(i) + 1
    <3>1. First1(i + 1) = 1 + Last(i)
      BY <2>6, <2>7, Zenon
    <3> HIDE DEF First1
    <3> QED BY <2>8, <3>1
  <2> QED BY <2>3, <2>9
<1>8. Last(N + 1) = L
  <2>1. N + 1 \in 1..(N + 1) /\ (N + 1) - 1 = N
    BY <1>3
  <2>2. Last(N + 1) \in E /\ rank(Last(N + 1)) = N /\ L \in E
    BY <1>6, <2>1 DEF E
  <2>0. N \in Nat
    BY <1>3
  <2>3. ~(Last(N + 1) < L) /\ ~(L < Last(N + 1))
    BY <1>3, <1>44, <2>0, <2>2, Zenon
  <2> QED BY <1>4, <1>44, <2>2, <2>3, Zenon
<1> DEFINE b == [j \in 1..((N + 1) + 1) |-> IF j = 1 THEN 1 ELSE Last(j - 1) + 1]
<1>9. \A j \in 1..(N + 1) : Last(j) \in 1..L
  BY <1>4, <1>6
<1>10. b \in [1..((N + 1) + 1) -> 1..(L + 1)]
  <2>1. \A j \in 1..((N + 1) + 1) : j # 1 => j - 1 \in 1..(N + 1)
    BY <1>3
  <2> QED BY <1>1, <1>9, <2>1
<1>11. ASSUME NEW j \in 1..(N + 1)
       PROVE  b[j] < b[j + 1] /\ b[j] = First1(j) /\ b[j + 1] - 1 = Last(j)
  <2>1. b[j + 1] = Last(j) + 1 /\ Last(j) \in 1..L
    BY <1>3, <1>9
  <2>2. CASE j = 1
    BY <2>1, <2>2, <1>1, <1>3
  <2>3. CASE j # 1
    <3>1. j - 1 \in 1..N /\ (j - 1) + 1 = j /\ j \in 1..((N + 1) + 1)
      BY <1>3, <2>3
    <3>2. Last(j - 1) < Last(j) /\ First1(j) = Last(j - 1) + 1
      BY <1>7, <3>1
    <3>3. b[j] = Last(j - 1) + 1
      BY <2>3, <3>1
    <3>4. Last(j - 1) \in 1..L
      BY <1>3, <1>9, <3>1
    <3> QED BY <1>1, <2>1, <3>2, <3>3, <3>4
  <2> QED BY <2>2, <2>3
<1>12. b[1] = 1 /\ b[(N + 1) + 1] = L + 1
  BY <1>3, <1>8
<1> HIDE DEF b, First1
<1>13. ASSUME NEW j \in 1..(N + 1) PROVE SubSeq(table, b[j], b[j + 1] - 1) \in Seq(M)
  <2>1. b[j] \in 1..(L + 1) /\ b[j + 1] \in 1..(L + 1)
    BY <1>3, <1>10
  <2>2. \A x \in b[j]..(b[j + 1] - 1) : table[x] \in M
    <3>1. \A x \in b[j]..(b[j + 1] - 1) : x \in 1..Len(table)
      BY <1>1, <2>1 DEF L
    <3> QED BY <3>1
  <2>3. b[j] \in Int /\ b[j + 1] - 1 \in Int
    BY <1>1, <2>1
  <2> QED BY <2>2, <2>3, SubSeqProperties
<1>14. \A j \in 1..(N + 1) : c[j] = SubSeq(table, b[j], b[j + 1] - 1)
  BY <1>5, <1>11
<1>15. c \in Seq(Seq(M)) /\ Len(c) = N + 1
  <2>1. N + 1 \in Nat /\ c \in [1..(N + 1) -> Seq(M)]
    <3>1. DOMAIN c = 1..(N + 1) /\ c = [i \in 1..(N + 1) |-> c[i]]
      BY <1>5
    <3>2. \A j \in 1..(N + 1) : c[j] \in Seq(M)
      BY <1>13, <1>14, Zenon
    <3>3. c \in [1..(N + 1) -> Seq(M)]
      BY <3>1, <3>2, Zenon
    <3> QED BY <1>3, <3>3
  <2> QED BY <2>1
<1>16. c # <<>>
  BY <1>3, <1>15
<1>17. RestOf(c, 1, table)
  <2>1. b \in [1..(Len(c) + 1) -> 1..(Len(table) + 1)]
    BY <1>10, <1>15 DEF L
  <2>2. b[1] = 1 /\ b[Len(c) + 1] = Len(table) + 1
    BY <1>12, <1>15 DEF L
  <2>3. \A j \in 1..Len(c) : b[j] < b[j + 1] /\ c[j] = SubSeq(table, b[j], b[j + 1] - 1)
    BY <1>11, <1>14, <1>15
  <2> QED BY <2>1, <2>2, <2>3 DEF RestOf
<1> QED BY <1>15, <1>16, <1>17

\* What a datagram is made of.
Message == Socket!Route \cup {Socket!DONE, Socket!ERROR}

\* A routing table and the end of its dump.
Whole(table) == table \o <<Socket!DONE>>

\* The end of a dump is its last message and no other.
LEMMA WholeTable ==
  ASSUME NEW t \in Seq(Socket!Route)
  PROVE  /\ t \in Seq(Message) /\ Whole(t) \in Seq(Message) /\ Len(Whole(t)) = Len(t) + 1
         /\ Len(t) \in Nat
         /\ \A k \in 1..Len(t) : Whole(t)[k] = t[k] /\ t[k] \in Socket!Route
         /\ Whole(t)[Len(t) + 1] = Socket!DONE
         /\ \A k \in 1..(Len(t) + 1) : (Whole(t)[k].kind = "done") <=> (k = Len(t) + 1)
<1>1. /\ t \in Seq(Message) /\ <<Socket!DONE>> \in Seq(Message)
      /\ Len(<<Socket!DONE>>) = 1 /\ <<Socket!DONE>>[1] = Socket!DONE
  BY DEF Message
<1>2. /\ Whole(t) \in Seq(Message) /\ Len(Whole(t)) = Len(t) + 1 /\ Len(t) \in Nat
      /\ \A k \in 1..(Len(t) + 1) : Whole(t)[k] = IF k <= Len(t) THEN t[k] ELSE <<Socket!DONE>>[k - Len(t)]
  BY <1>1, ConcatProperties DEF Whole
<1>3. \A k \in 1..Len(t) : Whole(t)[k] = t[k] /\ t[k] \in Socket!Route
  <2>1. \A k \in 1..Len(t) : k \in 1..(Len(t) + 1) /\ k <= Len(t)
    BY <1>2
  <2> QED BY <1>2, <2>1, ElementOfSeq
<1>4. Whole(t)[Len(t) + 1] = Socket!DONE
  <2>1. Len(t) + 1 \in 1..(Len(t) + 1) /\ ~(Len(t) + 1 <= Len(t)) /\ (Len(t) + 1) - Len(t) = 1
    BY <1>2
  <2> QED BY <1>1, <1>2, <2>1
<1>5. \A k \in 1..(Len(t) + 1) : k \in 1..Len(t) \/ k = Len(t) + 1
  BY <1>2
<1>6. \A k \in 1..Len(t) : k # Len(t) + 1
  BY <1>2
<1>7. Socket!DONE.kind = "done" /\ \A r \in Socket!Route : r.kind # "done"
  BY DEF Socket!DONE, Socket!Route
<1>8. \A k \in 1..(Len(t) + 1) : (Whole(t)[k].kind = "done") <=> (k = Len(t) + 1)
  BY <1>3, <1>4, <1>5, <1>6, <1>7, Zenon
<1> QED BY <1>1, <1>2, <1>3, <1>4, <1>8

\* A sequence of one.
LEMMA Single ==
  ASSUME NEW M, NEW x \in Seq(M), Len(x) = 1
  PROVE  x = <<x[1]>>
OBVIOUS

\* Each way of the kernel to send a table brings all of it and its end.
LEMMA DumpsAreRest ==
  ASSUME NEW t \in Seq(Socket!Route), NEW q \in Socket!Dumps(t)
  PROVE  q \in Seq(Seq(Message)) /\ RestOf(q, 1, Whole(t))
<1> DEFINE all == Whole(t)
<1>1. /\ t \in Seq(Message) /\ all \in Seq(Message) /\ Len(all) = Len(t) + 1 /\ Len(t) \in Nat
      /\ all[Len(t) + 1] = Socket!DONE
  BY WholeTable
<1>2. SubSeq(all, Len(t) + 1, Len(t) + 1) = <<Socket!DONE>>
  <2>1. /\ SubSeq(all, Len(t) + 1, Len(t) + 1) \in Seq(Message)
        /\ Len(SubSeq(all, Len(t) + 1, Len(t) + 1)) = 1
        /\ SubSeq(all, Len(t) + 1, Len(t) + 1)[1] = Socket!DONE
    <3>1. Len(t) + 1 \in Int /\ Len(t) + 1 <= Len(t) + 1 /\ (Len(t) + 1) - (Len(t) + 1) + 1 = 1
          /\ (Len(t) + 1) + 1 - 1 = Len(t) + 1 /\ 1 \in 1..1
          /\ \A k \in (Len(t) + 1)..(Len(t) + 1) : k = Len(t) + 1
      BY <1>1
    <3>2. \A k \in (Len(t) + 1)..(Len(t) + 1) : all[k] \in Message
      BY <1>1, <3>1 DEF Message
    <3> HIDE DEF all
    <3> QED BY <1>1, <3>1, <3>2, SubSeqProperties
  <2> DEFINE x == SubSeq(all, Len(t) + 1, Len(t) + 1)
  <2> HIDE DEF x
  <2>2. x \in Seq(Message) /\ Len(x) = 1 /\ x[1] = Socket!DONE
    BY <2>1 DEF x
  <2>3. x = <<Socket!DONE>>
    BY <2>2, Single
  <2> QED BY <2>3 DEF x
<1>3. <<Socket!DONE>> \in Seq(Message) /\ << <<Socket!DONE>> >> \in Seq(Seq(Message))
      /\ Len(<< <<Socket!DONE>> >>) = 1 /\ << <<Socket!DONE>> >>[1] = <<Socket!DONE>>
  BY DEF Message
<1>4. CASE t = <<>>
  <2>1. q = << <<Socket!DONE>> >> /\ Len(t) = 0
    BY <1>4 DEF Socket!Dumps
  <2> DEFINE b == <<1, 2>>
  <2>2. b \in [1..(Len(q) + 1) -> 1..(Len(all) + 1)] /\ b[1] = 1 /\ b[Len(q) + 1] = Len(all) + 1
        /\ Len(q) = 1
    BY <1>1, <1>3, <2>1
  <2>3. b[1] < b[1 + 1] /\ q[1] = SubSeq(all, b[1], b[1 + 1] - 1)
    <3>1. SubSeq(all, 1, 1) = <<Socket!DONE>>
      BY <1>2, <2>1
    <3>2. b[1] = 1 /\ b[1 + 1] = 2 /\ b[1 + 1] - 1 = 1
      OBVIOUS
    <3>3. b[1] < b[1 + 1]
      BY <3>2
    <3> HIDE DEF b, all
    <3>4. q[1] = <<Socket!DONE>>
      BY <1>3, <2>1
    <3> QED BY <3>1, <3>2, <3>3, <3>4, Zenon
  <2>4. \A j \in 1..Len(q) : b[j] < b[j + 1] /\ q[j] = SubSeq(all, b[j], b[j + 1] - 1)
    <3>1. \A j \in 1..Len(q) : j = 1
      BY <2>2
    <3> HIDE DEF b, all
    <3> QED BY <2>3, <3>1
  <2> QED BY <1>3, <2>1, <2>2, <2>4 DEF RestOf
<1>5. CASE t # <<>> /\ DoneApart
  <2>1. PICK c \in Socket!Cuts(t) : q = c \o << <<Socket!DONE>> >>
    BY <1>5 DEF Socket!Dumps
  <2>2. c \in Seq(Seq(Message)) /\ RestOf(c, 1, t)
    BY <1>1, <1>5, CutsAreRest
  <2>3. PICK a \in [1..(Len(c) + 1) -> 1..(Len(t) + 1)] :
            /\ a[1] = 1 /\ a[Len(c) + 1] = Len(t) + 1
            /\ \A j \in 1..Len(c) : a[j] < a[j + 1] /\ c[j] = SubSeq(t, a[j], a[j + 1] - 1)
    BY <2>2 DEF RestOf
  <2>4. /\ q \in Seq(Seq(Message)) /\ Len(q) = Len(c) + 1 /\ Len(c) \in Nat
        /\ \A j \in 1..(Len(c) + 1) : q[j] = IF j <= Len(c) THEN c[j] ELSE << <<Socket!DONE>> >>[j - Len(c)]
    BY <1>3, <2>1, <2>2, ConcatProperties
  <2> DEFINE b == [j \in 1..(Len(q) + 1) |-> IF j <= Len(c) + 1 THEN a[j] ELSE Len(all) + 1]
  <2>5. b \in [1..(Len(q) + 1) -> 1..(Len(all) + 1)]
    <3>1. \A j \in 1..(Len(q) + 1) : j <= Len(c) + 1 => a[j] \in 1..(Len(all) + 1)
      <4>1. \A j \in 1..(Len(q) + 1) : j <= Len(c) + 1 => j \in 1..(Len(c) + 1)
        BY <2>4
      <4>2. \A x \in 1..(Len(t) + 1) : x \in 1..(Len(all) + 1)
        BY <1>1
      <4> QED BY <2>3, <4>1, <4>2
    <3>2. Len(all) + 1 \in 1..(Len(all) + 1)
      BY <1>1
    <3> QED BY <3>1, <3>2
  <2>6. b[1] = 1 /\ b[Len(q) + 1] = Len(all) + 1
    BY <1>1, <2>3, <2>4
  <2>7. ASSUME NEW j \in 1..Len(q)
        PROVE  b[j] < b[j + 1] /\ q[j] = SubSeq(all, b[j], b[j + 1] - 1)
    <3>0. j \in Nat /\ j + 1 \in 1..(Len(q) + 1) /\ j \in 1..(Len(q) + 1) /\ j \in 1..(Len(c) + 1)
      BY <2>4
    <3>1. CASE j <= Len(c)
      <4>1. j \in 1..Len(c) /\ j + 1 \in 1..(Len(c) + 1) /\ j <= Len(c) + 1 /\ j + 1 <= Len(c) + 1
        BY <2>4, <3>0, <3>1
      <4>2. b[j] = a[j] /\ b[j + 1] = a[j + 1] /\ q[j] = c[j]
        BY <2>4, <3>0, <3>1, <4>1
      <4>3. a[j] < a[j + 1] /\ c[j] = SubSeq(t, a[j], a[j + 1] - 1)
            /\ a[j] \in 1..(Len(t) + 1) /\ a[j + 1] \in 1..(Len(t) + 1)
        BY <2>3, <3>0, <4>1
      <4>4. a[j] \in 1..Len(t) /\ a[j + 1] - 1 \in 1..Len(t)
        BY <1>1, <4>3
      <4>5. SubSeq(all, a[j], a[j + 1] - 1) = SubSeq(t, a[j], a[j + 1] - 1)
        BY <1>1, <1>3, <4>4, SubSeqOfConcat1 DEF Whole
      <4> HIDE DEF b, all
      <4> QED BY <4>2, <4>3, <4>5
    <3>2. CASE ~(j <= Len(c))
      <4>1. j = Len(c) + 1 /\ j <= Len(c) + 1 /\ ~(j + 1 <= Len(c) + 1) /\ j - Len(c) = 1
        BY <2>4, <3>0, <3>2
      <4>2. b[j] = a[j] /\ b[j + 1] = Len(all) + 1
        BY <3>0, <4>1
      <4>3. b[j] = Len(t) + 1
        BY <2>3, <4>1, <4>2
      <4>4. q[j] = <<Socket!DONE>>
        BY <1>3, <2>4, <3>0, <3>2, <4>1
      <4>5. b[j] < b[j + 1] /\ b[j + 1] - 1 = Len(t) + 1
        BY <1>1, <4>2, <4>3
      <4> HIDE DEF b, all
      <4> QED BY <1>2, <4>3, <4>4, <4>5
    <3> QED BY <3>1, <3>2
  <2> HIDE DEF b, all
  <2>8. \A j \in 1..Len(q) : b[j] < b[j + 1] /\ q[j] = SubSeq(all, b[j], b[j + 1] - 1)
    BY <2>7
  <2> QED BY <2>4, <2>5, <2>6, <2>8 DEF RestOf, all
<1>6. CASE t # <<>> /\ ~DoneApart
  <2>1. q \in Socket!Cuts(all)
    BY <1>6 DEF Socket!Dumps, Whole
  <2>2. all # <<>>
    BY <1>1
  <2> HIDE DEF all
  <2> QED BY <1>1, <2>1, <2>2, CutsAreRest DEF all
<1> QED BY <1>4, <1>5, <1>6

\* The first datagram of a rest, and the rest without it.
LEMMA FirstDatagram ==
  ASSUME NEW all \in Seq(Message), NEW q \in Seq(Seq(Message)), q # <<>>,
         NEW at, RestOf(q, at, all)
  PROVE  LET d == Head(q) IN
         /\ at \in 1..Len(all) /\ d \in Seq(Message) /\ Len(d) \in Nat \ {0}
         /\ at + Len(d) \in 1..(Len(all) + 1)
         /\ d = SubSeq(all, at, at + Len(d) - 1)
         /\ \A k \in 1..Len(d) : d[k] = all[at + k - 1]
         /\ Tail(q) \in Seq(Seq(Message)) /\ RestOf(Tail(q), at + Len(d), all)
<1> DEFINE d == Head(q)
<1>1. PICK b \in [1..(Len(q) + 1) -> 1..(Len(all) + 1)] :
        /\ b[1] = at /\ b[Len(q) + 1] = Len(all) + 1
        /\ \A j \in 1..Len(q) : b[j] < b[j + 1] /\ q[j] = SubSeq(all, b[j], b[j + 1] - 1)
  BY DEF RestOf
<1>2. /\ Len(q) \in Nat \ {0} /\ d = q[1] /\ d \in Seq(Message)
      /\ Tail(q) \in Seq(Seq(Message)) /\ Len(Tail(q)) = Len(q) - 1
      /\ \A j \in 1..Len(Tail(q)) : Tail(q)[j] = q[j + 1]
  BY HeadTailProperties, EmptySeq
<1>3. Len(all) \in Nat
  OBVIOUS
<1>4. 1 \in 1..Len(q) /\ 1 \in 1..(Len(q) + 1) /\ 2 \in 1..(Len(q) + 1) /\ 1 + 1 = 2
  BY <1>2
<1>5. at \in 1..(Len(all) + 1) /\ b[2] \in 1..(Len(all) + 1) /\ at < b[2]
      /\ d = SubSeq(all, at, b[2] - 1)
  BY <1>1, <1>2, <1>4
<1>6. /\ Len(d) = (b[2] - 1) - at + 1
      /\ \A k \in 1..((b[2] - 1) - at + 1) : d[k] = all[at + k - 1]
  <2>1. \A x \in at..(b[2] - 1) : all[x] \in Message
    <3>1. \A x \in at..(b[2] - 1) : x \in 1..Len(all)
      BY <1>3, <1>5
    <3> QED BY <3>1, ElementOfSeq
  <2>2. at \in Int /\ b[2] - 1 \in Int /\ at <= b[2] - 1
    BY <1>3, <1>5
  <2> HIDE DEF d
  <2> QED BY <1>5, <2>1, <2>2, SubSeqProperties
<1>7. Len(d) \in Nat \ {0} /\ at + Len(d) = b[2] /\ at + Len(d) - 1 = b[2] - 1 /\ at \in 1..Len(all)
  <2> DEFINE l == Len(d)
             z == b[2]
             L == Len(all)
  <2>1. l = (z - 1) - at + 1 /\ L \in Nat /\ at \in 1..(L + 1) /\ z \in 1..(L + 1) /\ at < z
    BY <1>3, <1>5, <1>6
  <2> HIDE DEF l, z, L
  <2>2. l \in Nat \ {0} /\ at + l = z /\ at + l - 1 = z - 1 /\ at \in 1..L
    BY <2>1
  <2> QED BY <2>2 DEF l, z, L
<1> DEFINE e == [j \in 1..(Len(Tail(q)) + 1) |-> b[j + 1]]
<1>8. \A j \in 1..(Len(Tail(q)) + 1) : j + 1 \in 1..(Len(q) + 1)
  BY <1>2
<1>9. e \in [1..(Len(Tail(q)) + 1) -> 1..(Len(all) + 1)]
  BY <1>8
<1>10. e[1] = b[2] /\ e[Len(Tail(q)) + 1] = Len(all) + 1
  BY <1>1, <1>2
<1>11. ASSUME NEW j \in 1..Len(Tail(q))
       PROVE  e[j] < e[j + 1] /\ Tail(q)[j] = SubSeq(all, e[j], e[j + 1] - 1)
  <2>1. j + 1 \in 1..Len(q) /\ j \in 1..(Len(Tail(q)) + 1) /\ j + 1 \in 1..(Len(Tail(q)) + 1)
    BY <1>2
  <2>2. e[j] = b[j + 1] /\ e[j + 1] = b[(j + 1) + 1]
    BY <2>1
  <2> HIDE DEF e
  <2> QED BY <1>1, <1>2, <2>1, <2>2
<1>12. RestOf(Tail(q), at + Len(d), all)
  <2> HIDE DEF e, d
  <2> QED BY <1>7, <1>9, <1>10, <1>11 DEF RestOf
<1> HIDE DEF d
<1> QED BY <1>2, <1>5, <1>6, <1>7, <1>12 DEF d

\* Routes of equal size: sizes add, ...
LEMMA Spread ==
  ASSUME NEW R \in Nat, NEW a \in Nat, NEW n \in Nat
  PROVE  R * a \in Nat /\ R * n \in Nat /\ R * (a + n) = R * a + R * n
OBVIOUS

\* ... grow with the number of routes, ...
LEMMA Grows ==
  ASSUME NEW R \in Nat \ {0}, NEW a \in Nat, NEW n \in Nat, R * a <= R * n
  PROVE  a <= n
OBVIOUS

\* ... and as many fit as the quotient says.
LEMMA Quotient ==
  ASSUME NEW R \in Nat \ {0}, NEW n \in Nat
  PROVE  n \div R \in Nat /\ R * (n \div R) <= n
<1>1. /\ n % R \in 0..(R - 1) /\ n \div R \in Int /\ R * (n \div R) \in Int
      /\ n = R * (n \div R) + (n % R)
  OBVIOUS
<1>2. n \div R >= 0
  OBVIOUS
<1> QED BY <1>1, <1>2

\* What messages take, the last of which is or is not the end of the dump.
LEMMA UnitsOf ==
  ASSUME Socket!LocalSocketAssumption, NEW d \in Seq(Message), Len(d) \in Nat \ {0}
  PROVE  /\ d[Len(d)] \in Socket!Route => Socket!Units(d) = RouteSize * Len(d)
         /\ d[Len(d)] = Socket!DONE => Socket!Units(d) = RouteSize * (Len(d) - 1) + 1
         /\ Socket!Units(d) \in Nat
<1>1. Len(d) - 1 \in Nat /\ RouteSize \in Nat
  BY DEF Socket!LocalSocketAssumption
<1>2. RouteSize * (Len(d) - 1) \in Nat /\ RouteSize * Len(d) \in Nat
  BY <1>1, Spread
<1>3. Socket!DONE.kind = "done" /\ \A r \in Socket!Route : r.kind \notin {"done", "error"}
  BY DEF Socket!DONE, Socket!Route
<1> QED BY <1>2, <1>3 DEF Socket!Units

All == Whole(soRoutes)
Receiving == RestOf(soQueue, Len(soMsgBuf) + 1, All) /\ soMsgBuf = SubSeq(All, 1, Len(soMsgBuf))

\* The types, what has been received of the table and what is to come: the rest
\* of the dump, unless the kernel said that there is an error or the buffer is
\* full.
GatewayInv ==
    /\ soPc \in {"idle", "send", "recv", "parse", "ioctl", "bind", "sendto"}
    /\ soRoutes \in Seq(Socket!Route) /\ Len(soRoutes) <= MaxRoutes
    /\ soOurs \in BOOLEAN /\ soAnswer \in 0..MaxRoutes
    /\ soMsgLen \in 0..Buffer /\ soMsgBuf \in Seq(Message)
    /\ soMsgBuf # <<>> => Socket!Units(soMsgBuf) <= soMsgLen
    /\ soPc \notin {"recv", "parse"} => soMsgBuf = <<>> /\ soMsgLen = 0
    /\ soPc = "recv" => /\ soQueue \in Seq(Seq(Message))
                        /\ soQueue = << <<Socket!ERROR>> >> \/ soMsgLen = Buffer \/ Receiving
    /\ soPc = "parse" => soMsgBuf = soRoutes

\* What recv takes is not more than there is room for, and is there.
LEMMA ReadIs ==
  ASSUME Socket!LocalSocketAssumption, GatewayInv, soPc = "recv", soQueue # <<>>, Socket!HeaderOK
  PROVE  /\ Receiving /\ soMsgLen < Buffer /\ Socket!Read \in Nat /\ soMsgLen + Socket!Read \in 0..Buffer
         /\ Len(Head(soQueue)) \in Nat \ {0} => Socket!Read <= Socket!Units(Head(soQueue))
         /\ Len(Head(soQueue)) \in Nat \ {0} /\ Socket!Read # Socket!Units(Head(soQueue)) =>
               Socket!Read < Socket!Units(Head(soQueue)) /\ soMsgLen + Socket!Read = Buffer
<1> DEFINE d == Head(soQueue)
           room == Buffer - soMsgLen
<1>1. d \in Seq(Message)
  BY HeadTailProperties DEF GatewayInv
<1>2. RouteSize \in Nat \ {0} /\ Buffer \in Nat /\ soMsgLen \in 0..Buffer
  BY DEF GatewayInv, Socket!LocalSocketAssumption
<1>3. Socket!Size(d[1]) \in Nat \ {0}
  BY <1>2 DEF Socket!Size
<1>4. Socket!Units(d) \in Int
  <2>1. Len(d) \in Nat
    BY <1>1
  <2>2. RouteSize * (Len(d) - 1) \in Int /\ RouteSize * Len(d) \in Int
    <3> DEFINE l == Len(d)
    <3> HIDE DEF l
    <3>1. l \in Nat => RouteSize * (l - 1) \in Int /\ RouteSize * l \in Int
      BY <1>2
    <3> QED BY <2>1, <3>1 DEF l
  <2> QED BY <2>2 DEF Socket!Units
<1>5. /\ Socket!Read >= Socket!Size(d[1]) /\ d[1].kind # "error"
      /\ Socket!Read = IF Socket!Units(d) < room THEN Socket!Units(d) ELSE room
  BY DEF Socket!HeaderOK, Socket!Read
<1> DEFINE u == Socket!Units(d)
           z == Socket!Size(d[1])
<1> HIDE DEF u, z
<1>6. Socket!Read >= z /\ Socket!Read = (IF u < room THEN u ELSE room) /\ u \in Int /\ z \in Nat \ {0}
  BY <1>3, <1>4, <1>5 DEF u, z
<1>7. /\ soMsgLen < Buffer /\ Socket!Read \in Nat /\ soMsgLen + Socket!Read \in 0..Buffer /\ Socket!Read <= u
      /\ Socket!Read # u => Socket!Read < u /\ soMsgLen + Socket!Read = Buffer
  <2> DEFINE x == Socket!Read
  <2>1. x >= z /\ x = (IF u < room THEN u ELSE room)
    BY <1>6
  <2> HIDE DEF x
  <2>2. /\ soMsgLen < Buffer /\ x \in Nat /\ soMsgLen + x \in 0..Buffer /\ x <= u
        /\ x # u => x < u /\ soMsgLen + x = Buffer
    BY <1>2, <1>6, <2>1
  <2> QED BY <2>2 DEF x
<1>8. soQueue # << <<Socket!ERROR>> >>
  <2>1. Socket!ERROR.kind = "error"
    BY DEF Socket!ERROR
  <2> SUFFICES ASSUME soQueue = << <<Socket!ERROR>> >> PROVE FALSE
    OBVIOUS
  <2>2. Head(soQueue) = <<Socket!ERROR>>
    OBVIOUS
  <2> QED BY <1>5, <2>1, <2>2
<1>9. Receiving
  <2>1. soMsgLen # Buffer
    BY <1>2, <1>7
  <2> QED BY <1>8, <2>1 DEF GatewayInv
<1> HIDE DEF d
<1> QED BY <1>7, <1>9 DEF u, d

\* What a datagram that is received says of the table.
LEMMA Datagram ==
  ASSUME Socket!LocalSocketAssumption, GatewayInv, soPc = "recv", soQueue # <<>>, Socket!HeaderOK
  PROVE  LET d == Head(soQueue)  at == Len(soMsgBuf) + 1 IN
         /\ Len(soMsgBuf) \in Nat /\ Len(d) \in Nat \ {0} /\ d \in Seq(Message)
         /\ at \in 1..(Len(soRoutes) + 1) /\ at + Len(d) \in 1..(Len(soRoutes) + 2)
         /\ d = SubSeq(All, at, at + Len(d) - 1)
         /\ \A k \in 1..Len(d) : d[k] = All[at + k - 1]
         /\ Tail(soQueue) \in Seq(Seq(Message)) /\ RestOf(Tail(soQueue), at + Len(d), All)
<1>1. All \in Seq(Message) /\ Len(All) = Len(soRoutes) + 1 /\ Len(soRoutes) \in Nat
  BY WholeTable DEF GatewayInv, All
<1>2. RestOf(soQueue, Len(soMsgBuf) + 1, All) /\ soQueue \in Seq(Seq(Message))
  BY ReadIs DEF Receiving, GatewayInv
<1>3. Len(soMsgBuf) \in Nat
  BY DEF GatewayInv
<1> HIDE DEF All
<1>4. Len(All) + 1 = Len(soRoutes) + 2
  BY <1>1
<1> QED BY <1>1, <1>2, <1>3, <1>4, FirstDatagram

\* When the end of a dump is received, every route was before.
LEMMA DoneReceived ==
  ASSUME Socket!LocalSocketAssumption, GatewayInv, Socket!RecvDone
  PROVE  soMsgBuf = soRoutes
<1>1. soPc = "recv" /\ soQueue # <<>> /\ Socket!HeaderOK /\ Head(soQueue)[1].kind = "done"
  BY DEF Socket!RecvDone
<1> DEFINE d == Head(soQueue)
           at == Len(soMsgBuf) + 1
<1>2. /\ Len(soMsgBuf) \in Nat /\ Len(d) \in Nat \ {0}
      /\ at \in 1..(Len(soRoutes) + 1) /\ \A k \in 1..Len(d) : d[k] = All[at + k - 1]
  BY <1>1, Datagram
<1>3. d[1] = All[at]
  <2>1. 1 \in 1..Len(d) /\ at + 1 - 1 = at
    BY <1>2
  <2> HIDE DEF d, at
  <2> QED BY <1>2, <2>1
<1>4. at = Len(soRoutes) + 1
  <2>1. All[at].kind = "done"
    BY <1>1, <1>3
  <2> HIDE DEF at
  <2> QED BY <1>2, <2>1, WholeTable DEF All, GatewayInv
<1>5. Len(soMsgBuf) = Len(soRoutes) /\ Len(soRoutes) \in Nat
  <2>1. Len(soRoutes) \in Nat
    BY DEF GatewayInv
  <2> QED BY <1>2, <1>4, <2>1
<1>6. soMsgBuf = SubSeq(All, 1, Len(soRoutes))
  BY <1>1, <1>5, ReadIs DEF Receiving
<1>7. SubSeq(All, 1, Len(soRoutes)) = soRoutes
  <2>1. soRoutes \in Seq(Message) /\ <<Socket!DONE>> \in Seq(Message)
    BY WholeTable DEF GatewayInv, Message
  <2>2. CASE soRoutes = <<>>
    <3>1. SubSeq(All, 1, 0) = <<>>
      BY SubSeqEmpty
    <3> QED BY <2>2, <3>1
  <2>3. CASE soRoutes # <<>>
    <3>1. 1 \in 1..Len(soRoutes) /\ Len(soRoutes) \in 1..Len(soRoutes)
      BY <1>5, <2>1, <2>3, EmptySeq
    <3>2. SubSeq(All, 1, Len(soRoutes)) = SubSeq(soRoutes, 1, Len(soRoutes))
      BY <2>1, <3>1, SubSeqOfConcat1 DEF All, Whole
    <3> QED BY <2>1, <3>2, SubSeqFull
  <2> QED BY <2>2, <2>3
<1> QED BY <1>6, <1>7

\* A datagram adds its routes to those received, or the buffer is full.
LEMMA RoutesReceived ==
  ASSUME Socket!LocalSocketAssumption, GatewayInv, Socket!RecvRoutes
  PROVE  /\ soMsgBuf' \in Seq(Message) /\ soMsgLen' \in 0..Buffer
         /\ soMsgBuf' # <<>> => Socket!Units(soMsgBuf') <= soMsgLen'
         /\ soQueue' \in Seq(Seq(Message)) /\ (soMsgLen' = Buffer \/ Receiving')
<1> DEFINE d == Head(soQueue)
           at == Len(soMsgBuf) + 1
           n == IF Socket!Read = Socket!Units(d) THEN Len(d) ELSE Socket!Read \div RouteSize
<1>1. /\ soPc = "recv" /\ soQueue # <<>> /\ Socket!HeaderOK /\ d[1].kind # "done"
      /\ soMsgBuf' = soMsgBuf \o SubSeq(d, 1, n)
      /\ soMsgLen' = soMsgLen + Socket!Read /\ soQueue' = Tail(soQueue) /\ soRoutes' = soRoutes
  BY DEF Socket!RecvRoutes
<1>2. /\ Len(soMsgBuf) \in Nat /\ Len(d) \in Nat \ {0} /\ d \in Seq(Message)
      /\ at \in 1..(Len(soRoutes) + 1) /\ at + Len(d) \in 1..(Len(soRoutes) + 2)
      /\ d = SubSeq(All, at, at + Len(d) - 1)
      /\ \A k \in 1..Len(d) : d[k] = All[at + k - 1]
      /\ Tail(soQueue) \in Seq(Seq(Message)) /\ RestOf(Tail(soQueue), at + Len(d), All)
  BY <1>1, Datagram
<1>3. /\ Socket!Read \in Nat /\ soMsgLen + Socket!Read \in 0..Buffer /\ Receiving /\ Socket!Read <= Socket!Units(d)
      /\ Socket!Read # Socket!Units(d) => Socket!Read < Socket!Units(d) /\ soMsgLen + Socket!Read = Buffer
  BY <1>1, <1>2, ReadIs
<1>4. /\ All \in Seq(Message) /\ Len(All) = Len(soRoutes) + 1 /\ Len(soRoutes) \in Nat
      /\ \A k \in 1..Len(soRoutes) : All[k] \in Socket!Route
      /\ All[Len(soRoutes) + 1] = Socket!DONE
      /\ \A k \in 1..(Len(soRoutes) + 1) : (All[k].kind = "done") <=> (k = Len(soRoutes) + 1)
  BY WholeTable DEF GatewayInv, All
<1>5. RouteSize \in Nat \ {0} /\ Buffer \in Nat /\ soMsgLen \in Nat /\ soMsgBuf \in Seq(Message)
      /\ (soMsgBuf # <<>> => Socket!Units(soMsgBuf) <= soMsgLen)
  BY DEF GatewayInv, Socket!LocalSocketAssumption
<1> DEFINE a == Len(soMsgBuf)
           l == Len(d)
           L == Len(soRoutes)
<1>6. a \in Nat /\ l \in Nat \ {0} /\ L \in Nat /\ a + l <= L + 1 /\ a < L
  <2>1. d[1] = All[at]
    <3>1. 1 \in 1..Len(d) /\ at + 1 - 1 = at
      BY <1>2
    <3> HIDE DEF d, at
    <3> QED BY <1>2, <3>1
  <2>2. at # Len(soRoutes) + 1
    <3>1. All[at].kind # "done"
      BY <1>1, <2>1
    <3> HIDE DEF at
    <3> QED BY <1>2, <1>4, <3>1
  <2>3. L \in Nat /\ a \in Nat /\ l \in Nat \ {0} /\ a + 1 \in 1..(L + 1) /\ a + 1 # L + 1
        /\ (a + 1) + l \in 1..(L + 2)
    BY <1>2, <1>4, <2>2
  <2> HIDE DEF a, l, L
  <2> QED BY <2>3
<1>7. soMsgBuf = SubSeq(All, 1, a)
  BY <1>3 DEF Receiving
<1>8. RouteSize * a \in Nat /\ RouteSize * a <= soMsgLen
  <2>1. RouteSize * a \in Nat
    <3> HIDE DEF a
    <3> QED BY <1>5, <1>6, Spread
  <2>2. CASE soMsgBuf = <<>>
    <3>1. a = 0 /\ RouteSize * 0 = 0
      BY <1>5, <2>2
    <3> QED BY <1>5, <3>1
  <2>3. CASE soMsgBuf # <<>>
    <3>1. a \in Nat \ {0}
      BY <1>5, <2>3, EmptySeq
    <3>2. soMsgBuf[a] = All[a]
      <4> DEFINE m == SubSeq(All, 1, a)
      <4>1. \A i \in 1..a : All[i] \in Message
        <5>1. \A i \in 1..a : i \in 1..Len(All)
          <6> HIDE DEF a
          <6> QED BY <1>4, <1>6 DEF L
        <5> QED BY <1>4, <5>1, ElementOfSeq
      <4>2. a \in Int /\ a \in 1..(a - 1 + 1) /\ 1 + a - 1 = a
        <5> HIDE DEF a
        <5> QED BY <3>1
      <4>3. m[a] = All[a]
        <5> HIDE DEF a
        <5> QED BY <4>1, <4>2, SubSeqProperties
      <4> HIDE DEF a
      <4> QED BY <1>7, <4>3
    <3>3. All[a] \in Socket!Route
      <4>1. a \in 1..Len(soRoutes)
        <5> HIDE DEF a
        <5> QED BY <1>6, <3>1 DEF L
      <4> QED BY <1>4, <4>1
    <3>4. Socket!Units(soMsgBuf) = RouteSize * a
      BY <1>5, <3>1, <3>2, <3>3, UnitsOf
    <3> QED BY <1>5, <2>1, <2>3, <3>4
  <2> QED BY <2>1, <2>2, <2>3
\* The last message of the datagram.
<1>9. d[l] = All[a + l] /\ (a + l <= L => d[l] \in Socket!Route) /\ (a + l = L + 1 => d[l] = Socket!DONE)
  <2>1. l \in 1..l /\ at + l - 1 = a + l
    <3> HIDE DEF a, l
    <3> QED BY <1>6 DEF a
  <2>2. d[l] = All[at + l - 1]
    BY <1>2, <2>1
  <2>3. a + l <= L => a + l \in 1..L
    <3> HIDE DEF a, l, L
    <3> QED BY <1>6
  <2> HIDE DEF at, d
  <2> QED BY <1>4, <2>1, <2>2, <2>3
<1>10. n \in 0..l /\ (n = l => Socket!Read = Socket!Units(d)) /\ (n # l => soMsgLen + Socket!Read = Buffer)
       /\ (Socket!Read # Socket!Units(d) => n < l /\ RouteSize * n <= Socket!Read)
  <2>1. CASE Socket!Read = Socket!Units(d)
    BY <1>6, <2>1
  <2>2. CASE Socket!Read # Socket!Units(d)
    <3>1. n = Socket!Read \div RouteSize /\ Socket!Read < Socket!Units(d) /\ soMsgLen + Socket!Read = Buffer
      BY <1>3, <2>2
    <3>2. n \in Nat /\ RouteSize * n <= Socket!Read /\ RouteSize * n \in Nat
      <4>1. Socket!Read \div RouteSize \in Nat /\ RouteSize * (Socket!Read \div RouteSize) <= Socket!Read
        BY <1>3, <1>5, Quotient
      <4>2. n \in Nat /\ RouteSize * n <= Socket!Read
        BY <3>1, <4>1, Zenon
      <4> HIDE DEF n
      <4> QED BY <1>5, <4>2, Spread
    <3>3. l - 1 \in Nat /\ RouteSize * l \in Nat /\ RouteSize * (l - 1) \in Nat
      <4> HIDE DEF l
      <4>1. l - 1 \in Nat /\ l \in Nat
        BY <1>6
      <4> QED BY <1>5, <4>1, Spread
    <3>4. n < l
      <4>1. CASE a + l <= L
        <5>1. Socket!Units(d) = RouteSize * l
          BY <1>2, <1>9, <4>1, UnitsOf
        <5> HIDE DEF n, l, d
        <5>2. RouteSize * n < RouteSize * l
          BY <1>3, <3>1, <3>2, <3>3, <5>1
        <5>3. l <= n => RouteSize * l <= RouteSize * n
          <6> SUFFICES ASSUME l <= n PROVE RouteSize * l <= RouteSize * n
            OBVIOUS
          <6>1. n - l \in Nat /\ l \in Nat /\ l + (n - l) = n
            BY <1>6, <3>2
          <6>2. RouteSize * (l + (n - l)) = RouteSize * l + RouteSize * (n - l)
                /\ RouteSize * (n - l) \in Nat
            BY <1>5, <6>1, Spread
          <6> QED BY <3>2, <3>3, <6>1, <6>2
        <5> QED BY <1>6, <3>2, <3>3, <5>2, <5>3
      <4>2. CASE ~(a + l <= L)
        <5>1. a + l = L + 1
          <6> HIDE DEF a, l, L
          <6> QED BY <1>6, <4>2
        <5>2. Socket!Units(d) = RouteSize * (l - 1) + 1
          BY <1>2, <1>9, <5>1, UnitsOf
        <5> HIDE DEF n, l, d
        <5>3. RouteSize * n <= RouteSize * (l - 1)
          BY <1>3, <3>1, <3>2, <3>3, <5>2
        <5>4. n <= l - 1
          BY <1>5, <3>2, <3>3, <5>3, Grows
        <5> QED BY <1>6, <3>2, <5>4
      <4> QED BY <4>1, <4>2
    <3> QED BY <1>6, <3>1, <3>2, <3>4
  <2> QED BY <2>1, <2>2
<1> HIDE DEF n
\* What is appended is the table from at on.
<1>11. SubSeq(d, 1, n) = SubSeq(All, at, a + n)
  <2>1. CASE n = 0
    <3>1. SubSeq(d, 1, 0) = <<>>
      BY SubSeqEmpty
    <3>2. a + 0 < at /\ a + 0 \in Int /\ at \in Int
      BY <1>2
    <3>3. SubSeq(All, at, a + 0) = <<>>
      BY <3>2, SubSeqEmpty
    <3> QED BY <2>1, <3>1, <3>3
  <2>2. CASE n # 0
    <3> DEFINE j == at + l - 1
    <3>1. /\ at \in 1..Len(All) /\ j \in 1..Len(All) /\ 1 \in 1..(j - at + 1)
          /\ n \in 1..(j - at + 1) /\ at + 1 - 1 = at /\ at + n - 1 = a + n
      <4> HIDE DEF a, l, L
      <4> QED BY <1>4, <1>6, <1>10, <2>2 DEF a, L
    <3>2. d = SubSeq(All, at, j)
      BY <1>2
    <3> HIDE DEF j, at, d
    <3> QED BY <1>4, <3>1, <3>2, SubSeqOfSubSeq
  <2> QED BY <2>1, <2>2
<1>12. soMsgBuf' = SubSeq(All, 1, a + n) /\ a + n \in Nat /\ a + n <= L + 1
  <2>1. a \in 0..Len(All) /\ a + n \in a..Len(All) /\ 1 \in 1..(Len(All) + 1)
        /\ a + n \in Nat /\ a + n <= L + 1 /\ a \in (1 - 1)..Len(All)
    <3> HIDE DEF a, l, L
    <3> QED BY <1>4, <1>6, <1>10 DEF L
  <2>2. SubSeq(All, 1, a) \o SubSeq(All, a + 1, a + n) = SubSeq(All, 1, a + n)
    <3> HIDE DEF a
    <3> QED BY <1>4, <2>1, ConcatAdjacentSubSeq
  <2> QED BY <1>1, <1>7, <1>11, <2>1, <2>2
<1>13. /\ soMsgBuf' \in Seq(Message) /\ Len(soMsgBuf') = a + n
       /\ a + n # 0 => soMsgBuf'[a + n] = All[a + n]
  <2> DEFINE k == a + n
  <2>1. k \in Nat /\ k <= L + 1 /\ soMsgBuf' = SubSeq(All, 1, k)
    BY <1>12
  <2> HIDE DEF k, a
  <2>2. \A i \in 1..k : All[i] \in Message
    <3>1. \A i \in 1..k : i \in 1..Len(All)
      BY <1>4, <2>1 DEF L
    <3> QED BY <1>4, <3>1, ElementOfSeq
  <2>3. /\ SubSeq(All, 1, k) \in Seq(Message)
        /\ Len(SubSeq(All, 1, k)) = IF 1 <= k THEN k - 1 + 1 ELSE 0
        /\ \A i \in 1..(k - 1 + 1) : SubSeq(All, 1, k)[i] = All[1 + i - 1]
    BY <2>1, <2>2, SubSeqProperties
  <2>4. Len(SubSeq(All, 1, k)) = k
    BY <2>1, <2>3
  <2>5. k # 0 => k \in 1..(k - 1 + 1) /\ 1 + k - 1 = k
    BY <2>1
  <2>6. k # 0 => soMsgBuf'[k] = All[k]
    BY <2>1, <2>3, <2>5
  <2> QED BY <2>1, <2>3, <2>4, <2>6 DEF k
<1>14. ASSUME soMsgBuf' # <<>> PROVE Socket!Units(soMsgBuf') <= soMsgLen'
  <2>1. a + n \in Nat \ {0}
    BY <1>13, <1>14, EmptySeq
  <2>2. RouteSize * (a + n) = RouteSize * a + RouteSize * n /\ RouteSize * n \in Nat
    <3> HIDE DEF a, l
    <3>1. n \in Nat
      BY <1>6, <1>10
    <3> QED BY <1>5, <1>6, <3>1, Spread
  <2>3. CASE a + n <= L
    <3>1. a + n \in 1..Len(soRoutes)
      BY <2>1, <2>3
    <3>2. soMsgBuf'[a + n] \in Socket!Route
      BY <1>4, <1>13, <2>1, <3>1
    <3>3. Socket!Units(soMsgBuf') = RouteSize * (a + n)
      BY <1>13, <2>1, <3>2, UnitsOf
    <3>4. RouteSize * n <= Socket!Read
      <4>1. CASE Socket!Read # Socket!Units(d)
        BY <1>10, <4>1
      <4>2. CASE Socket!Read = Socket!Units(d)
        <5>1. n = l
          BY <4>2 DEF n
        <5>2. Socket!Units(d) = RouteSize * l
          BY <1>2, <1>9, <2>3, <5>1, UnitsOf
        <5> HIDE DEF l, d
        <5> QED BY <1>3, <2>2, <4>2, <5>1, <5>2
      <4> QED BY <4>1, <4>2
    <3> HIDE DEF a, d
    <3> QED BY <1>1, <1>3, <1>5, <1>8, <2>2, <3>3, <3>4
  <2>4. CASE ~(a + n <= L)
    <3>1. a + n = L + 1 /\ n = l
      <4> HIDE DEF a, l, L
      <4> QED BY <1>6, <1>10, <1>12, <2>4
    <3>2. soMsgBuf'[a + n] = Socket!DONE
      BY <1>4, <1>13, <2>1, <3>1
    <3>3. Socket!Units(soMsgBuf') = RouteSize * ((a + n) - 1) + 1
      BY <1>13, <2>1, <3>2, UnitsOf
    <3>4. Socket!Read = Socket!Units(d) /\ Socket!Units(d) = RouteSize * (l - 1) + 1
      BY <1>2, <1>9, <1>10, <3>1, UnitsOf
    <3>5. (a + n) - 1 = a + (l - 1) /\ l - 1 \in Nat
      <4> HIDE DEF a, l, L
      <4> QED BY <1>6, <3>1
    <3>6. RouteSize * (a + (l - 1)) = RouteSize * a + RouteSize * (l - 1)
          /\ RouteSize * (l - 1) \in Nat
      <4> HIDE DEF a, l
      <4> QED BY <1>5, <1>6, <3>5, Spread
    <3> HIDE DEF a, d, l
    <3> QED BY <1>1, <1>3, <1>5, <1>8, <3>3, <3>4, <3>5, <3>6
  <2> QED BY <2>3, <2>4
<1>15. soMsgLen' = Buffer \/ Receiving'
  <2>1. CASE n # l
    BY <1>1, <1>10, <2>1
  <2>2. CASE n = l
    <3>1. Len(soMsgBuf') + 1 = at + Len(d)
      <4>1. Len(soMsgBuf') = a + l
        BY <1>13, <2>2
      <4>2. (a + l) + 1 = (a + 1) + l
        <5> HIDE DEF a, l
        <5> QED BY <1>6
      <4> QED BY <4>1, <4>2
    <3>2. All' = All
      BY <1>1 DEF All
    <3>3. RestOf(soQueue', Len(soMsgBuf') + 1, All')
      BY <1>1, <1>2, <3>1, <3>2
    <3>4. soMsgBuf' = SubSeq(All', 1, Len(soMsgBuf'))
      BY <1>12, <1>13, <3>2
    <3> QED BY <3>3, <3>4 DEF Receiving
  <2> QED BY <2>1, <2>2
<1> QED BY <1>1, <1>2, <1>3, <1>13, <1>14, <1>15

\* Who has a descriptor, where a call keeps its own, and that the descriptor 0
\* the code mistakes for a failure is never the call's.
DescriptorInv == /\ soFds \in [Fd -> {"free", "other", "call"}]
                 /\ soSockfd \in Fd \cup {Socket!NoSocket}
                 /\ soPc = "idle" => soSockfd = Socket!NoSocket
                 /\ 0 \in Fd => soFds[0] = "other"
                 /\ Socket!SocketsClosed

\* A step that leaves the descriptors to whom they are.
LEMMA SameSockets ==
  ASSUME DescriptorInv, soFds' = soFds, soSockfd' = soSockfd, soPc' = "idle" => soSockfd = Socket!NoSocket
  PROVE  DescriptorInv'
BY DEF DescriptorInv, Socket!SocketsClosed

\* socket(2) gives a call without one a descriptor, or none.
LEMMA CallOpens ==
  ASSUME Socket!LocalSocketAssumption, DescriptorInv, soPc = "idle",
         NEW f \in Socket!Socket, soFds' = Socket!Opened(f), soSockfd' = f, soPc' = "idle" => f < 0
  PROVE  DescriptorInv'
<1>1. CASE f = Socket!NoSocket
  BY <1>1 DEF DescriptorInv, Socket!SocketsClosed, Socket!Opened
<1>2. CASE f # Socket!NoSocket
  <2>1. f \in Fd /\ soFds[f] = "free" /\ soSockfd = Socket!NoSocket
    BY <1>2 DEF Socket!Socket, DescriptorInv
  <2>2. soFds' = [soFds EXCEPT ![f] = "call"] /\ soFds' \in [Fd -> {"free", "other", "call"}]
    BY <1>2, <2>1 DEF Socket!Opened, DescriptorInv
  <2>3. {g \in Fd : soFds'[g] = "call"} = {f}
    BY <2>1, <2>2 DEF DescriptorInv, Socket!SocketsClosed
  <2>4. f # Socket!NoSocket /\ soPc' # "idle"
    BY <1>2, <2>1 DEF Socket!LocalSocketAssumption
  <2>5. 0 \in Fd => soFds'[0] = "other"
    BY <2>1, <2>2 DEF DescriptorInv
  <2>6. Socket!SocketsClosed'
    BY <2>3, <2>4 DEF Socket!SocketsClosed
  <2> QED BY <2>1, <2>2, <2>4, <2>5, <2>6 DEF DescriptorInv
<1> QED BY <1>1, <1>2

\* A call ends by closing what it opened.
LEMMA CallCloses ==
  ASSUME Socket!LocalSocketAssumption, DescriptorInv, soFds' = Socket!Closed(soSockfd), soSockfd' = Socket!NoSocket
  PROVE  DescriptorInv'
<1>1. CASE soSockfd = Socket!NoSocket
  BY <1>1 DEF DescriptorInv, Socket!SocketsClosed, Socket!Closed
<1>2. CASE soSockfd # Socket!NoSocket
  <2>1. soSockfd \in Fd /\ soFds[soSockfd] = "call" /\ \A g \in Fd : soFds[g] = "call" => g = soSockfd
    BY <1>2 DEF DescriptorInv, Socket!SocketsClosed
  <2>2. soFds' = [soFds EXCEPT ![soSockfd] = "free"]
    BY <1>2 DEF Socket!Closed
  <2>3. {g \in Fd : soFds'[g] = "call"} = {}
    BY <2>1, <2>2 DEF DescriptorInv
  <2> QED BY <2>1, <2>2, <2>3 DEF DescriptorInv, Socket!SocketsClosed
<1> QED BY <1>1, <1>2

\* At first no call has a descriptor.
LEMMA SocketInit ==
  ASSUME Socket!LocalSocketAssumption, StdinOpen
  PROVE Socket!Init => DescriptorInv
BY DEF Socket!Init, DescriptorInv, Socket!SocketsClosed, Socket!NoSocket

\* Every step keeps the descriptor of a call with that call.
LEMMA SocketNext ==
  ASSUME Socket!LocalSocketAssumption, StdinOpen, DescriptorInv, [Socket!Next]_(Socket!vars)
  PROVE DescriptorInv'
<1> USE DEF Socket!netlink
<1>1. ASSUME Socket!OtherOpens \/ Socket!OtherCloses PROVE DescriptorInv'
  <2>1. /\ soSockfd' = soSockfd /\ soPc' = soPc
        /\ \E f \in Fd, who \in {"free", "other"} :
              soFds' = [soFds EXCEPT ![f] = who] /\ soFds[f] # "call" /\ (f = 0 => soFds[f] = "free")
    BY <1>1 DEF Socket!OtherOpens, Socket!OtherCloses, Socket!Socket
  <2>2. PICK f \in Fd, who \in {"free", "other"} :
              soFds' = [soFds EXCEPT ![f] = who] /\ soFds[f] # "call" /\ (f = 0 => soFds[f] = "free")
    BY <2>1
  <2>3. {g \in Fd : soFds'[g] = "call"} = {g \in Fd : soFds[g] = "call"}
    BY <2>2 DEF DescriptorInv
  <2>4. 0 \in Fd => soFds'[0] = "other"
    BY <2>2 DEF DescriptorInv
  <2> QED BY <2>1, <2>2, <2>3, <2>4 DEF DescriptorInv, Socket!SocketsClosed
<1>2. ASSUME Socket!sky_if_get_gateway \/ Socket!sky_socket_send_raw_udp PROVE DescriptorInv'
  <2>1. /\ soPc = "idle"
        /\ \E f \in Socket!Socket :
              soFds' = Socket!Opened(f) /\ soSockfd' = f /\ (soPc' = "idle" => f < 0)
    BY <1>2 DEF Socket!sky_if_get_gateway, Socket!sky_socket_send_raw_udp
  <2> QED BY <2>1, CallOpens
<1>3. ASSUME Socket!sky_if_get PROVE DescriptorInv'
  <2>1. soPc = "idle" /\ soPc' \in {"idle", "ioctl"}
    BY <1>3 DEF Socket!sky_if_get
  <2>2. PICK f \in Socket!Socket : /\ soFds' = Socket!Opened(f) /\ soSockfd' = IF f = 0 THEN Socket!NoSocket ELSE f
                                   /\ soPc' = IF f = 0 THEN "idle" ELSE "ioctl"
    BY <1>3 DEF Socket!sky_if_get
  <2>3. f # 0
    BY DEF Socket!Socket, DescriptorInv, Socket!NoSocket
  <2> QED BY <2>1, <2>2, <2>3, CallOpens
<1>4. ASSUME Socket!Send \/ Socket!RecvRoutes \/ Socket!RecvDone \/ Socket!Bind
      PROVE DescriptorInv'
  <2>1. soFds' = soFds /\ soSockfd' = soSockfd /\ soPc' # "idle"
    BY <1>4 DEF Socket!Send, Socket!RecvRoutes, Socket!RecvDone, Socket!Bind
  <2> QED BY <2>1, SameSockets
<1>5. ASSUME \/ Socket!SendFails \/ Socket!RecvBadHeader \/ Socket!RecvFails \/ Socket!Parse
             \/ Socket!Ioctl \/ Socket!BindFails \/ Socket!Sendto
      PROVE DescriptorInv'
  <2>1. soFds' = Socket!Closed(soSockfd) /\ soSockfd' = Socket!NoSocket
    BY <1>5 DEF Socket!SendFails, Socket!RecvBadHeader, Socket!RecvFails, Socket!Parse,
                Socket!GatewayReturns, Socket!Ioctl, Socket!BindFails, Socket!Sendto
  <2> QED BY <2>1, CallCloses
<1>6. ASSUME UNCHANGED Socket!vars PROVE DescriptorInv'
  BY <1>6, SameSockets DEF Socket!vars, DescriptorInv
<1> QED BY <1>1, <1>2, <1>3, <1>4, <1>5, <1>6 DEF Socket!Next, Socket!Step

\* At first there is no table.
LEMMA GatewayInit == ASSUME Socket!LocalSocketAssumption PROVE Socket!Init => GatewayInv
<1>1. <<>> \in Seq(Socket!Route) /\ <<>> \in Seq(Message) /\ Len(<<>>) = 0
  OBVIOUS
<1>2. 0 \in 0..MaxRoutes /\ 0 \in 0..Buffer /\ 0 <= MaxRoutes
  BY DEF Socket!LocalSocketAssumption
<1> QED BY <1>1, <1>2 DEF Socket!Init, GatewayInv, Socket!ANY

\* The first of some places of a table, or none.
LEMMA FirstOfIs ==
  ASSUME NEW n \in Nat, NEW S \in SUBSET (1..n)
  PROVE  Socket!FirstOf(S) \in 0..n
<1>1. CASE S = {}
  BY <1>1 DEF Socket!FirstOf, Socket!ANY
<1>2. CASE S # {}
  <2>1. S \in SUBSET Nat
    OBVIOUS
  <2>2. \E k \in S : \A j \in S : k <= j
    BY <1>2, <2>1, Least
  <2>3. Socket!FirstOf(S) \in S
    BY <1>2, <2>2 DEF Socket!FirstOf
  <2>4. \A k \in 1..n : k \in 0..n
    OBVIOUS
  <2> QED BY <2>3, <2>4, Zenon
<1> QED BY <1>1, <1>2

\* Whoever returns forgets the exchange.
LEMMA ReturnForgets ==
  ASSUME Socket!LocalSocketAssumption, GatewayInv, NEW addr \in 0..MaxRoutes, Socket!GatewayReturns(addr)
  PROVE  GatewayInv'
<1>1. <<>> \in Seq(Socket!Route) /\ <<>> \in Seq(Message) /\ Len(<<>>) = 0
  OBVIOUS
<1>2. 0 \in 0..Buffer /\ 0 <= MaxRoutes
  BY DEF Socket!LocalSocketAssumption
<1> QED BY <1>1, <1>2 DEF Socket!GatewayReturns, GatewayInv

\* A step that leaves the exchange as it is.
LEMMA ExchangeKept ==
  ASSUME GatewayInv, UNCHANGED Socket!netlink, soAnswer' \in 0..MaxRoutes,
         soPc' \in {"idle", "send", "recv", "parse", "ioctl", "bind", "sendto"},
         soPc' = soPc \/ {soPc, soPc'} \cap {"recv", "parse"} = {}
  PROVE  GatewayInv'
<1>1. /\ soRoutes' = soRoutes /\ soQueue' = soQueue /\ soOurs' = soOurs /\ soMsgBuf' = soMsgBuf
      /\ soMsgLen' = soMsgLen /\ All' = All
  BY DEF Socket!netlink, All
<1>2. Receiving' = Receiving /\ (soMsgBuf' # <<>> => Socket!Units(soMsgBuf') = Socket!Units(soMsgBuf))
  BY <1>1 DEF Receiving
<1> QED BY <1>1, <1>2 DEF GatewayInv

\* Every step keeps what was received and what is on its way the whole table.
LEMMA GatewayNext ==
  ASSUME Socket!LocalSocketAssumption, GatewayInv, [Socket!Next]_(Socket!vars)
  PROVE GatewayInv'
<1>0. Socket!ANY \in 0..MaxRoutes
  BY DEF Socket!ANY, Socket!LocalSocketAssumption
<1>1. ASSUME \/ Socket!OtherOpens \/ Socket!OtherCloses \/ Socket!sky_if_get_gateway \/ Socket!sky_if_get
             \/ Socket!sky_socket_send_raw_udp \/ Socket!Ioctl \/ Socket!BindFails \/ Socket!Bind \/ Socket!Sendto
      PROVE  GatewayInv'
  <2>1. UNCHANGED Socket!netlink
    BY <1>1 DEF Socket!OtherOpens, Socket!OtherCloses, Socket!sky_if_get_gateway,
                Socket!sky_if_get,
                Socket!sky_socket_send_raw_udp, Socket!Ioctl, Socket!BindFails, Socket!Bind,
                Socket!Sendto
  <2>2. soAnswer' \in 0..MaxRoutes
    BY <1>0, <1>1 DEF GatewayInv, Socket!OtherOpens, Socket!OtherCloses,
                      Socket!sky_if_get_gateway, Socket!sky_if_get,
                      Socket!sky_socket_send_raw_udp, Socket!Ioctl, Socket!BindFails,
                      Socket!Bind, Socket!Sendto
  <2>3. \/ soPc' = soPc
        \/ /\ soPc' \in {"idle", "send", "ioctl", "bind", "sendto"}
           /\ soPc \in {"idle", "ioctl", "bind", "sendto"}
    BY <1>1 DEF Socket!OtherOpens, Socket!OtherCloses, Socket!sky_if_get_gateway,
                Socket!sky_if_get,
                Socket!sky_socket_send_raw_udp, Socket!Ioctl, Socket!BindFails, Socket!Bind,
                Socket!Sendto
  <2>4. soPc' \in {"idle", "send", "recv", "parse", "ioctl", "bind", "sendto"}
        /\ (soPc' = soPc \/ {soPc, soPc'} \cap {"recv", "parse"} = {})
    BY <2>3 DEF GatewayInv
  <2> QED BY <2>1, <2>2, <2>4, ExchangeKept
<1>2. CASE UNCHANGED Socket!vars
  <2>1. UNCHANGED Socket!netlink /\ soPc' = soPc /\ soAnswer' \in 0..MaxRoutes
        /\ soPc' \in {"idle", "send", "recv", "parse", "ioctl", "bind", "sendto"}
    BY <1>2 DEF Socket!vars, GatewayInv
  <2> QED BY <2>1, ExchangeKept
<1>3. CASE Socket!Send
  <2>1. PICK n \in 0..MaxRoutes : soRoutes' \in [1..n -> Socket!Route]
    BY <1>3 DEF Socket!Send
  <2>2. soRoutes' \in Seq(Socket!Route) /\ Len(soRoutes') <= MaxRoutes
    <3>1. n \in Nat /\ n <= MaxRoutes
      BY DEF Socket!LocalSocketAssumption
    <3> QED BY <2>1, <3>1
  <2>3. /\ soPc = "send" /\ soPc' = "recv" /\ soOurs' \in BOOLEAN /\ soMsgBuf' = <<>> /\ soMsgLen' = 0
        /\ soAnswer' = soAnswer /\ soQueue' \in Socket!Dumps(soRoutes') \cup {<< <<Socket!ERROR>> >>}
    BY <1>3 DEF Socket!Send, GatewayInv
  <2>4. CASE soQueue' = << <<Socket!ERROR>> >>
    <3>1. soQueue' \in Seq(Seq(Message))
      BY <2>4 DEF Message
    <3>2. soMsgBuf' \in Seq(Message) /\ soMsgLen' \in 0..Buffer
      BY <2>3 DEF GatewayInv
    <3> QED BY <2>2, <2>3, <2>4, <3>1, <3>2 DEF GatewayInv
  <2>5. CASE soQueue' \in Socket!Dumps(soRoutes')
    <3> DEFINE t == soRoutes'
               q == soQueue'
    <3>1. t \in Seq(Socket!Route) /\ q \in Socket!Dumps(t)
      BY <2>2, <2>5
    <3> HIDE DEF t, q
    <3>2. q \in Seq(Seq(Message)) /\ RestOf(q, 1, Whole(t))
      BY <3>1, DumpsAreRest
    <3>3. SubSeq(Whole(t), 1, 0) = <<>>
      BY SubSeqEmpty
    <3>4. Len(soMsgBuf') = 0 /\ Len(soMsgBuf') + 1 = 1
      BY <2>3
    <3>5. All' = Whole(t)
      BY DEF All, t
    <3>6. Receiving'
      BY <2>3, <3>2, <3>3, <3>4, <3>5 DEF Receiving, q
    <3>7. soMsgBuf' \in Seq(Message) /\ soMsgLen' \in 0..Buffer
      BY <2>3 DEF GatewayInv
    <3> QED BY <2>2, <2>3, <3>2, <3>6, <3>7 DEF GatewayInv, q
  <2> QED BY <2>3, <2>4, <2>5
<1>4. CASE Socket!SendFails \/ Socket!RecvBadHeader \/ Socket!RecvFails
  BY <1>0, <1>4, ReturnForgets DEF Socket!SendFails, Socket!RecvBadHeader, Socket!RecvFails
<1>5. CASE Socket!Parse
  <2> DEFINE S == {k \in 1..Len(soMsgBuf) : Socket!IsDefault(soMsgBuf[k])}
  <2>1. Socket!GatewayReturns(Socket!FirstOf(S)) /\ soMsgBuf = soRoutes
    BY <1>5 DEF Socket!Parse, GatewayInv
  <2>2. Len(soRoutes) \in Nat /\ Len(soRoutes) <= MaxRoutes /\ MaxRoutes \in Nat
    BY DEF GatewayInv, Socket!LocalSocketAssumption
  <2>3. Socket!FirstOf(S) \in 0..Len(soRoutes)
    <3>1. S \in SUBSET (1..Len(soRoutes))
      BY <2>1
    <3> HIDE DEF S
    <3> QED BY <2>2, <3>1, FirstOfIs
  <2> HIDE DEF S
  <2>4. Socket!FirstOf(S) \in 0..MaxRoutes
    BY <2>2, <2>3
  <2> QED BY <2>1, <2>4, ReturnForgets
<1>6. CASE Socket!RecvDone
  <2>1. soMsgBuf = soRoutes
    BY <1>6, DoneReceived
  <2> QED BY <1>6, <2>1 DEF Socket!RecvDone, GatewayInv
<1>7. CASE Socket!RecvRoutes
  <2>1. /\ soMsgBuf' \in Seq(Message) /\ soMsgLen' \in 0..Buffer
        /\ soMsgBuf' # <<>> => Socket!Units(soMsgBuf') <= soMsgLen'
        /\ soQueue' \in Seq(Seq(Message)) /\ (soMsgLen' = Buffer \/ Receiving')
    BY <1>7, RoutesReceived
  <2>2. soPc = "recv" /\ soPc' = "recv" /\ soRoutes' = soRoutes /\ soOurs' = soOurs /\ soAnswer' = soAnswer
    BY <1>7 DEF Socket!RecvRoutes, Socket!Complete, Socket!seq_num
  <2> QED BY <2>1, <2>2 DEF GatewayInv
<1> QED BY <1>1, <1>2, <1>3, <1>4, <1>5, <1>6, <1>7 DEF Socket!Next, Socket!Step

\* The types follow.
LEMMA GatewayTypes ==
  ASSUME Socket!LocalSocketAssumption, DescriptorInv, GatewayInv PROVE Socket!TypeOK
<1>1. \A k \in 1..Len(soRoutes) : soRoutes[k] \in Socket!Route
  BY ElementOfSeq DEF GatewayInv
<1> QED BY <1>1 DEF DescriptorInv, GatewayInv, Socket!TypeOK

\* A step of a parse answers from the whole table.
LEMMA GatewayStep ==
  ASSUME Socket!LocalSocketAssumption, GatewayInv, Socket!Next, soPc = "parse", Socket!Answered,
         \A k \in 1..Len(soRoutes) : soRoutes[k].kind # "like"
  PROVE  soAnswer' = Socket!FirstOf({k \in 1..Len(soRoutes) : soRoutes[k].kind = "default" /\ soRoutes[k].mine})
<1>1. soPc' = "idle"
  BY DEF Socket!Answered
<1>2. Socket!Parse
  BY <1>1 DEF Socket!Next, Socket!Step, Socket!OtherOpens, Socket!OtherCloses,
              Socket!sky_if_get_gateway, Socket!sky_if_get,
              Socket!sky_socket_send_raw_udp, Socket!Send, Socket!SendFails, Socket!RecvRoutes,
              Socket!RecvDone, Socket!RecvBadHeader,
              Socket!RecvFails, Socket!Ioctl, Socket!BindFails, Socket!Bind, Socket!Sendto
<1>3. soMsgBuf = soRoutes
  BY DEF GatewayInv
<1>4. {k \in 1..Len(soMsgBuf) : Socket!IsDefault(soMsgBuf[k])}
      = {k \in 1..Len(soRoutes) : soRoutes[k].kind = "default" /\ soRoutes[k].mine}
  BY <1>3 DEF Socket!IsDefault
<1> QED BY <1>2, <1>4 DEF Socket!Parse, Socket!GatewayReturns
----------------------------------------------------------------------------
(* Start and stop of the library *)

\* held and surplus tell the count; a last stop is counted when it has run.
Counted ==
    /\ inHeld - inSurplus = IF inPc = "stop" THEN inCount - 1 ELSE inCount
    /\ inPc \in {"start", "rollback"} => inCount = 0
    /\ inPc = "stop" => inCount = 1

\* How far a start, a stop and a rollback have come with the modules and with
\* the registry, whose functions are the twelfth to start and the third to stop.
Filled == inList = TRUE /\ inCs = TRUE
Empty == inList = FALSE /\ inCs = FALSE

Starting ==
    inPc = "start" => /\ {Library!INIT_FUNCS[k] : k \in 1..inI} \subseteq inStarted
                      /\ IF inI < 12 THEN Empty ELSE Filled
Stopping == inPc = "stop" => IF inI < 3 THEN Filled ELSE Empty
RollingBack == inPc = "rollback" => inCs = FALSE /\ (inI < 2 => inList = FALSE)

Between == inPc = "idle" => IF inCount > 0 THEN inStarted = Library!Modules /\ Filled ELSE Empty

\* TypeOK, with the tables' length.
LibraryTypes ==
    /\ inCount \in Int /\ -MaxSurplus <= inCount /\ inCount <= MaxCount
    /\ inPc \in {"idle", "start", "rollback", "stop"}
    /\ inI \in Int /\ IF inPc = "rollback" THEN -1 <= inI /\ inI < 14 ELSE 0 <= inI /\ inI <= 14
    /\ inHeld \in Nat /\ inHeld <= MaxCount + MaxSurplus
    /\ inSurplus \in Nat /\ inSurplus <= MaxSurplus
Flags == inStarted \subseteq Library!Modules /\ inList \in BOOLEAN /\ inCs \in BOOLEAN

LibraryInv == LibraryTypes /\ Flags /\ Counted /\ Starting /\ Stopping /\ RollingBack
        /\ Between /\ Library!StopReversesStart

\* Fourteen modules, ...
LEMMA TableLength == Library!INIT_FUNC_CNT = 14
BY DEF Library!INIT_FUNC_CNT, Library!INIT_FUNCS

\* ... all in the first table.
LEMMA AllModules == Library!Modules = {Library!INIT_FUNCS[k] : k \in 1..14}
BY DEF Library!Modules, Library!ToSet, Library!INIT_FUNCS

\* Who is where in the first table, ...
LEMMA Order ==
  /\ \A k \in 0..13 : (Library!INIT_FUNCS[k + 1] = "share_memory") <=> k = 11
  /\ \A k \in 0..13 : (Library!INIT_FUNCS[k + 1] = "process") <=> k = 9
  /\ \A k \in 1..14 : (Library!INIT_FUNCS[k] = "mem") <=> k = 3
BY DEF Library!INIT_FUNCS

\* ... and once only.
LEMMA Distinct == \A k, j \in 1..14 : Library!INIT_FUNCS[j] = Library!INIT_FUNCS[k] => j = k
BY DEF Library!INIT_FUNCS

\* The second table is the first one backwards, but for mem.
LEMMA Backwards ==
  /\ \A k \in 0..13 : (Library!UNINIT_FUNCS[k + 1] = "share_memory") <=> k = 2
  /\ \A k \in 0..13 : (Library!UNINIT_FUNCS[k + 1] = "mem_init") <=> k = 11
  /\ \A k \in 0..13 \ {11} : Library!UNINIT_FUNCS[k + 1] = Library!INIT_FUNCS[14 - k]
BY DEF Library!UNINIT_FUNCS, Library!INIT_FUNCS

\* mem is one of them.
LEMMA MemIsModule == "mem" \in Library!Modules
BY AllModules, Order

\* The tables do not change.
LEMMA Fixed == Library!Modules' = Library!Modules /\ Library!INIT_FUNCS' = Library!INIT_FUNCS
BY DEF Library!Modules, Library!ToSet, Library!INIT_FUNCS

\* At first nothing runs.
LEMMA LibraryInit == ASSUME Library!InitAssumption PROVE Library!Init => LibraryInv
<1> SUFFICES ASSUME Library!Init PROVE LibraryInv
  OBVIOUS
<1> USE Fixed DEF Library!InitAssumption, Filled, Empty, Library!Init
<1>1. LibraryTypes /\ Flags
  <2>1. LibraryTypes
    BY DEF LibraryTypes, Flags
  <2>2. Flags
    BY DEF LibraryTypes, Flags
  <2> QED BY <2>1, <2>2
<1>2. Counted
  BY DEF Counted
<1>3. Starting /\ Stopping /\ RollingBack /\ Between /\ Library!StopReversesStart
  BY DEF Starting, Stopping, RollingBack, Between, Library!StopReversesStart
<1> QED BY <1>1, <1>2, <1>3 DEF LibraryInv

\* sky_init counts, or begins to start.
LEMMA InvInit == ASSUME Library!InitAssumption, LibraryInv, Library!sky_init PROVE LibraryInv'
<1> USE Fixed DEF Library!InitAssumption, Filled, Empty, Library!sky_init, LibraryInv,
                  LibraryTypes, Flags, Library!Goto, Library!registry
<1>1. LibraryTypes' /\ Flags'
  <2>1. LibraryTypes'
    BY DEF Counted
  <2>2. Flags'
    BY DEF Counted
  <2> QED BY <2>1, <2>2
<1>2. Counted'
  BY DEF Counted
<1>3. Starting' /\ Stopping' /\ RollingBack'
  BY DEF Starting, Stopping, RollingBack, Between
<1>4. Between' /\ Library!StopReversesStart'
  BY DEF Between, Library!StopReversesStart
<1> QED BY <1>1, <1>2, <1>3, <1>4

\* The next module starts.
LEMMA InvStarts == ASSUME Library!InitAssumption, LibraryInv, Library!Starts PROVE LibraryInv'
<1> USE Fixed DEF Library!InitAssumption, Filled, Empty, Library!Starts, LibraryInv,
                  LibraryTypes, Flags, Library!Goto, Library!registry
<1>0. Library!INIT_FUNC_CNT = 14
  BY TableLength
<1>1. inI \in 0..13 /\ inI + 1 \in 1..14 /\ Library!INIT_FUNCS[inI + 1] \in Library!Modules
  BY <1>0, AllModules
<1>2. LibraryTypes' /\ Flags'
  <2>1. LibraryTypes'
    BY <1>0, <1>1
  <2>2. Flags'
    BY <1>0, <1>1
  <2> QED BY <2>1, <2>2
<1>3. Counted'
  BY DEF Counted
<1>4. Starting'
  <2>1. 1..inI' = 1..inI \cup {inI + 1}
    BY <1>1
  <2>2. {Library!INIT_FUNCS[k] : k \in 1..inI'} \subseteq inStarted'
    BY <2>1 DEF Starting
  <2>3. IF inI' < 12 THEN Empty' ELSE Filled'
    BY <1>1, Order DEF Starting
  <2> QED BY <2>2, <2>3 DEF Starting
<1>5. Stopping' /\ RollingBack' /\ Between' /\ Library!StopReversesStart'
  BY DEF Stopping, RollingBack, Between, Library!StopReversesStart
<1> QED BY <1>2, <1>3, <1>4, <1>5

\* The next module fails, and the rollback begins.
LEMMA InvFails == ASSUME Library!InitAssumption, LibraryInv, Library!Fails PROVE LibraryInv'
<1> USE Fixed DEF Library!InitAssumption, Filled, Empty, Library!Fails, LibraryInv,
                  LibraryTypes, Flags, Library!Goto, Library!registry
<1>1. inI \in {9, 11} /\ inI' = inI - 1 /\ inPc' = "rollback" /\ inCs' = FALSE
  BY Order, TableLength DEF Starting
<1>2. LibraryTypes' /\ Flags'
  <2>1. LibraryTypes'
    BY <1>1, Order DEF Starting
  <2>2. Flags'
    BY <1>1, Order DEF Starting
  <2> QED BY <2>1, <2>2
<1>3. Counted'
  BY <1>1 DEF Counted
<1>4. Starting' /\ Stopping' /\ RollingBack' /\ Between' /\ Library!StopReversesStart'
  BY <1>1 DEF Starting, Stopping, RollingBack, Between, Library!StopReversesStart
<1> QED BY <1>2, <1>3, <1>4

\* Started modules are counted.
LEMMA InvStartCounted ==
  ASSUME Library!InitAssumption, LibraryInv, Library!StartCounted
  PROVE LibraryInv'
<1> USE Fixed DEF Library!InitAssumption, Filled, Empty, Library!StartCounted, LibraryInv,
                  LibraryTypes, Flags, Library!Goto, Library!registry
<1>1. inI = 14 /\ inPc = "start"
  BY TableLength
<1>5. inStarted = Library!Modules /\ Filled
  BY <1>1, AllModules DEF Starting
<1>2. LibraryTypes' /\ Flags'
  <2>1. LibraryTypes'
    BY TableLength DEF Counted
  <2>2. Flags'
    BY TableLength DEF Counted
  <2> QED BY <2>1, <2>2
<1>3. Counted'
  BY DEF Counted
<1>4. Starting' /\ Stopping' /\ RollingBack' /\ Between' /\ Library!StopReversesStart'
  <2>1. inPc' = "idle" /\ inCount' = 1 /\ inStarted' = inStarted /\ inList' = inList /\ inCs' = inCs
    BY <1>1 DEF Counted
  <2>2. Between'
    BY <2>1, <1>5 DEF Between
  <2> QED BY <2>1, <2>2 DEF Starting, Stopping, RollingBack, Library!StopReversesStart
<1> QED BY <1>2, <1>3, <1>4

\* The function at a place of the second table stops what the first table has
\* at the same place from its end, but for mem, and leaves the rest.
LEMMA Uninit ==
  ASSUME LibraryInv, NEW k \in 0..13, Library!CallUninit(k)
  PROVE  /\ inStarted' \subseteq Library!Modules
         /\ k # 11 => inStarted' = inStarted \ {Library!INIT_FUNCS[14 - k]}
         /\ k = 11 => inStarted' = inStarted \cup {"mem"}
         /\ IF k = 2 THEN inList' = FALSE /\ inCs' = FALSE ELSE inList' = inList /\ inCs' = inCs
BY Backwards, MemIsModule DEF Library!CallUninit, Library!registry, LibraryInv, LibraryTypes,
                              Flags

\* The rollback stops one module, or is done.
LEMMA InvRollback ==
  ASSUME Library!InitAssumption, LibraryInv, Library!Rollback \/ Library!RollbackDone
  PROVE LibraryInv'
<1> USE Fixed DEF Library!InitAssumption, Filled, Empty, LibraryInv, LibraryTypes, Flags,
                  Library!Goto, Library!registry
<1>1. CASE Library!Rollback
  <2>1. inI \in 0..13 /\ Library!CallUninit(inI) /\ inI' = inI - 1
    BY <1>1, TableLength DEF Library!Rollback
  <2>2. /\ inStarted' \subseteq Library!Modules /\ inList' \in BOOLEAN /\ inCs' = FALSE
        /\ inI' < 2 => inList' = FALSE
    <3>1. inCs = FALSE /\ (inI < 2 => inList = FALSE) /\ inList \in BOOLEAN
      BY <1>1 DEF RollingBack, Library!Rollback
    <3>2. inStarted' \subseteq Library!Modules
      BY <2>1, Uninit
    <3>3. IF inI = 2 THEN inList' = FALSE /\ inCs' = FALSE ELSE inList' = inList /\ inCs' = inCs
      BY <2>1, Uninit
    <3>4. inList' \in BOOLEAN /\ inCs' = FALSE
      BY <3>1, <3>3
    <3>5. inI' < 2 => inList' = FALSE
      BY <2>1, <3>1, <3>3
    <3> QED BY <3>2, <3>4, <3>5
  <2>3. LibraryTypes' /\ Flags'
    <3>1. LibraryTypes'
      BY <1>1, <2>1, <2>2, TableLength DEF Library!Rollback
    <3>2. Flags'
      BY <1>1, <2>1, <2>2, TableLength DEF Library!Rollback
    <3> QED BY <3>1, <3>2
  <2>4. Counted'
    BY <1>1 DEF Counted, Library!Rollback
  <2>5. Starting' /\ Stopping' /\ RollingBack' /\ Between' /\ Library!StopReversesStart'
    BY <1>1, <2>2 DEF Library!Rollback, Starting, Stopping, RollingBack, Between,
                      Library!StopReversesStart
  <2> QED BY <2>3, <2>4, <2>5
<1>2. CASE Library!RollbackDone
  <2>1. LibraryTypes' /\ Flags'
    <3>1. LibraryTypes'
      BY <1>2, TableLength DEF Library!RollbackDone
    <3>2. Flags'
      BY <1>2, TableLength DEF Library!RollbackDone
    <3> QED BY <3>1, <3>2
  <2>2. Counted'
    BY <1>2 DEF Counted, Library!RollbackDone
  <2>3. Starting' /\ Stopping' /\ RollingBack' /\ Between' /\ Library!StopReversesStart'
    BY <1>2 DEF Library!RollbackDone, Starting, Stopping, RollingBack, Counted, Between,
                Library!StopReversesStart
  <2> QED BY <2>1, <2>2, <2>3
<1> QED BY <1>1, <1>2

\* sky_uninit counts, or begins to stop.
LEMMA InvUninit ==
  ASSUME Library!InitAssumption, LibraryInv, Library!sky_uninit
  PROVE LibraryInv'
<1> USE Fixed DEF Library!InitAssumption, Filled, Empty, Library!sky_uninit, LibraryInv,
                  LibraryTypes, Flags, Library!Goto, Library!registry
<1>1. LibraryTypes' /\ Flags'
  <2>1. LibraryTypes'
    BY TableLength DEF Counted
  <2>2. Flags'
    BY TableLength DEF Counted
  <2> QED BY <2>1, <2>2
<1>2. Counted'
  BY DEF Counted
<1>3. Starting' /\ Stopping' /\ RollingBack' /\ Between'
  BY DEF Starting, Stopping, RollingBack, Between
<1>4. Library!StopReversesStart'
  BY TableLength, AllModules, MemIsModule DEF Library!StopReversesStart, Between
<1> QED BY <1>1, <1>2, <1>3, <1>4

\* The next module stops, or all have.
LEMMA InvStops ==
  ASSUME Library!InitAssumption, LibraryInv, Library!Stops \/ Library!StopCounted
  PROVE LibraryInv'
<1> USE Fixed DEF Library!InitAssumption, Filled, Empty, LibraryInv, LibraryTypes, Flags,
                  Library!Goto, Library!registry
<1>1. CASE Library!Stops
  <2>1. inI \in 0..13 /\ Library!CallUninit(inI) /\ inI' = inI + 1 /\ inPc = "stop" /\ inPc' = "stop"
    BY <1>1, TableLength DEF Library!Stops
  <2>2. inStarted' \subseteq Library!Modules /\ IF inI' < 3 THEN Filled' ELSE Empty'
    <3>1. IF inI < 3 THEN Filled ELSE Empty
      BY <2>1 DEF Stopping
    <3>2. /\ inStarted' \subseteq Library!Modules
          /\ IF inI = 2 THEN inList' = FALSE /\ inCs' = FALSE ELSE inList' = inList /\ inCs' = inCs
      BY <2>1, Uninit
    <3> QED BY <2>1, <3>1, <3>2
  <2>3. LibraryTypes' /\ Flags'
    <3>1. LibraryTypes'
      BY <1>1, <2>1, <2>2, TableLength DEF Library!Stops
    <3>2. Flags'
      BY <1>1, <2>1, <2>2, TableLength DEF Library!Stops
    <3> QED BY <3>1, <3>2
  <2>4. Counted'
    BY <1>1 DEF Counted, Library!Stops
  <2>5. Library!StopReversesStart'
    <3> DEFINE First(n) == {Library!INIT_FUNCS[k] : k \in 1..n}
    <3>1. inStarted = First(14 - inI) \cup {"mem"}
      BY <2>1, TableLength DEF Library!StopReversesStart
    <3>2. First(14 - inI) = First(13 - inI) \cup {Library!INIT_FUNCS[14 - inI]}
      BY <2>1
    <3>3. Library!INIT_FUNCS[14 - inI] \notin First(13 - inI)
      BY <2>1, Distinct, Order
    <3>4. Library!INIT_FUNCS[14 - inI] = "mem" <=> inI = 11
      BY <2>1, Distinct, Order
    <3> HIDE DEF First
    <3>5. inStarted' = First(13 - inI) \cup {"mem"}
      BY <2>1, <3>1, <3>2, <3>3, <3>4, Uninit
    <3>6. Library!INIT_FUNC_CNT' - inI' = 13 - inI
      BY <2>1, TableLength
    <3> QED BY <3>5, <3>6 DEF First, Library!StopReversesStart
  <2>6. Starting' /\ Stopping' /\ RollingBack' /\ Between'
    BY <2>1, <2>2 DEF Starting, Stopping, RollingBack, Between
  <2> QED BY <2>3, <2>4, <2>5, <2>6
<1>2. CASE Library!StopCounted
  <2>1. LibraryTypes' /\ Flags'
    <3>1. LibraryTypes'
      BY <1>2, TableLength DEF Library!StopCounted, Counted
    <3>2. Flags'
      BY <1>2, TableLength DEF Library!StopCounted, Counted
    <3> QED BY <3>1, <3>2
  <2>2. Counted'
    BY <1>2 DEF Counted, Library!StopCounted
  <2>3. Starting' /\ Stopping' /\ RollingBack' /\ Between' /\ Library!StopReversesStart'
    BY <1>2, TableLength DEF Library!StopCounted, Starting, Stopping, RollingBack, Counted,
                             Between,
                        Library!StopReversesStart
  <2> QED BY <2>1, <2>2, <2>3
<1> QED BY <1>1, <1>2

\* Every step keeps the invariant.
LEMMA LibraryNext ==
  ASSUME Library!InitAssumption, LibraryInv, [Library!Next]_(Library!vars)
  PROVE LibraryInv'
<1>1. CASE UNCHANGED Library!vars
  <2>1. /\ inCount' = inCount /\ inStarted' = inStarted /\ inList' = inList /\ inCs' = inCs
        /\ inPc' = inPc /\ inI' = inI /\ inHeld' = inHeld /\ inSurplus' = inSurplus
        /\ Library!Modules' = Library!Modules /\ Library!INIT_FUNCS' = Library!INIT_FUNCS
        /\ Library!INIT_FUNC_CNT' = Library!INIT_FUNC_CNT
    BY <1>1, Fixed DEF Library!vars, Library!registry, Library!INIT_FUNC_CNT
  <2>2. LibraryTypes' /\ Flags' /\ Counted'
    BY <2>1 DEF LibraryInv, LibraryTypes, Flags, Counted
  <2>3. Starting' /\ Stopping' /\ RollingBack'
    BY <2>1 DEF LibraryInv, Starting, Stopping, RollingBack, Filled, Empty
  <2>4. Between' /\ Library!StopReversesStart'
    BY <2>1 DEF LibraryInv, Between, Filled, Empty, Library!StopReversesStart
  <2> QED BY <2>2, <2>3, <2>4 DEF LibraryInv
<1> QED BY <1>1, InvInit, InvStarts, InvFails, InvStartCounted, InvRollback, InvUninit, InvStops
        DEF Library!Next, Library!Step

\* The properties follow.
LEMMA LibraryRight ==
  ASSUME LibraryInv
  PROVE Library!TypeOK /\ Library!ReadyWhileHeld /\ Library!CountTellsState /\ Library!StopReversesStart
<1>1. Library!TypeOK
  BY TableLength DEF LibraryInv, LibraryTypes, Flags, Library!TypeOK
<1>2. Library!CountTellsState
  <2>1. ASSUME inPc = "idle", inCount > 0 PROVE Library!Running
    BY <2>1 DEF LibraryInv, Between, Library!Running, Filled
  <2>2. ASSUME inPc = "idle", inCount <= 0 PROVE ~inList /\ ~inCs
    <3>1. Empty
      BY <2>2 DEF LibraryInv, LibraryTypes, Between
    <3> QED BY <3>1 DEF Empty
  <2> QED BY <2>1, <2>2 DEF Library!CountTellsState
<1>3. Library!ReadyWhileHeld
  <2> SUFFICES ASSUME inHeld > 0, inSurplus = 0 PROVE Library!Running
    BY DEF Library!ReadyWhileHeld
  <2>1. inPc = "idle" /\ inCount > 0
    BY DEF LibraryInv, LibraryTypes, Counted
  <2> QED BY <2>1 DEF LibraryInv, Between, Library!Running, Filled
<1> QED BY <1>1, <1>2, <1>3 DEF LibraryInv
----------------------------------------------------------------------------
(* The parts together *)

\* A step of the whole is a step of one part, and none of the others.
LEMMA StepOfParts ==
  ASSUME [CallsNext]_allVars
  PROVE  /\ [Next]_vars /\ [Rwlock!Next]_(Rwlock!vars) /\ [Regex!Next]_(Regex!vars)
         /\ [Socket!Next]_(Socket!vars) /\ [Library!Next]_(Library!vars)
<1> USE DEF rwVars, reVars, soVars, inVars, InSection, InRwlock, InRegex, InSocket, InLibrary
<1>1. UNCHANGED rwVars \/ Rwlock!Next
  BY DEF CallsNext, allVars
<1>2. UNCHANGED reVars \/ Regex!Next
  BY DEF CallsNext, allVars
<1>3. UNCHANGED soVars \/ Socket!Next
  BY DEF CallsNext, allVars
<1>4. UNCHANGED inVars \/ Library!Next
  BY DEF CallsNext, allVars
<1>5. UNCHANGED rwVars => UNCHANGED Rwlock!vars
  BY DEF Rwlock!vars, Rwlock!lock, Rwlock!call, Rwlock!history
<1>6. UNCHANGED reVars => UNCHANGED Regex!vars
  BY DEF Regex!vars
<1>7. UNCHANGED soVars => UNCHANGED Socket!vars
  BY DEF Socket!vars, Socket!netlink
<1>8. UNCHANGED inVars => UNCHANGED Library!vars
  BY DEF Library!vars, Library!registry
<1>9. UNCHANGED vars \/ Next
  BY DEF CallsNext, allVars
<1> QED BY <1>1, <1>2, <1>3, <1>4, <1>5, <1>6, <1>7, <1>8, <1>9

\* Whatever is fair, the parts begin and go on as they do alone.
LEMMA SpecOfParts ==
  CallsSpec => Spec /\ Rwlock!Spec /\ Regex!Spec /\ Socket!Spec /\ Library!Spec
<1>1. CallsInit => Init /\ Rwlock!Init /\ Regex!Init /\ Socket!Init /\ Library!Init
  BY DEF CallsInit
<1> QED BY <1>1, StepOfParts, PTL
        DEF CallsSpec, Spec, Rwlock!Spec, Regex!Spec, Socket!Spec, Library!Spec
----------------------------------------------------------------------------
(* The properties *)

\* A thread is inside the critical section of sky_critical_section.c exactly when,
\* and as deep as, its mutex says so, whatever else the program calls, ...
THEOREM SectionGuards == CallsSpec => []BeliefIsMutex
BY SpecOfParts, BeliefTrue, PTL

\* ... and whoever is inside is alone, as the lock of SkyRwlockSpec promises.
THEOREM SectionExcludes == CallsSpec => ImplementsLock
BY SpecOfParts, SectionIsLock, PTL

\* The invariant of the lock holds in the whole.
LEMMA LockHolds == CallsSpec => []LockInv
<1>1. Rwlock!AnonAssumption
  BY CallsAssumption
<1>2. Rwlock!Init => LockInv
  BY <1>1, LockInit
<1>3. LockInv /\ [Rwlock!Next]_(Rwlock!vars) => LockInv'
  BY <1>1, LockNext
<1> QED BY <1>2, <1>3, SpecOfParts, PTL DEF Rwlock!Spec

\* A timed call of sky_rwlock_rdlock or _wrlock on an anonymous lock (sky_rwlock.c:
\* 205-209 and 260-264) neither waits longer than its timeout nor gives up before,
\* but for what the wall clock was set by in the meantime.
THEOREM TimeoutsKept == CallsSpec => RwlockKeepsTime
<1>1. Rwlock!AnonAssumption
  BY CallsAssumption
<1>2. LockInv => Rwlock!TypeOK /\ Rwlock!DeadlineKept
  BY <1>1, LockInvTypes, LockInvDeadline
<1>3. LockInv /\ [Rwlock!Next]_(Rwlock!vars) =>
         [\A t \in RwThread : Rwlock!GivesUp(t) /\ rwWriter # t =>
             rwAge[t] + rwAhead[t] >= rwTimeout[t]]_(Rwlock!vars)
  BY <1>1, NextGivesUpInTime
<1> QED BY <1>2, <1>3, LockHolds, SpecOfParts, PTL
        DEF Rwlock!Spec, RwlockKeepsTime, Rwlock!RwlockKeepsTime, Rwlock!NotGivenUpEarly

\* The anonymous lock of sky_rwlock.c is what SkyRwlockSpec promises: a writer is
\* alone and readers are among themselves, however calls wait, time out or are
\* refused.
THEOREM AnonIsLock == CallsSpec => RwlockImplementsLock
<1>1. Rwlock!AnonAssumption
  BY CallsAssumption
<1>2. Rwlock!Init => Rwlock!Abstract!Init
  BY <1>1, LockInitImplements
<1>3. LockInv /\ [Rwlock!Next]_(Rwlock!vars) => [Rwlock!Abstract!Next]_(Rwlock!Abstract!vars)
  BY <1>1, LockNextImplements
<1> QED BY <1>2, <1>3, LockHolds, SpecOfParts, PTL
        DEF Rwlock!Spec, RwlockImplementsLock, Rwlock!RwlockImplementsLock, Rwlock!Abstract!Spec

\* So does that of the expressions, ...
LEMMA RegexHolds == CallsSpec => []RegexInv
<1>1. Regex!RegexAssumption
  BY CallsAssumption
<1>2. Regex!Init => RegexInv
  BY <1>1, RegexInit
<1>3. RegexInv /\ [Regex!Next]_(Regex!vars) => RegexInv'
  BY <1>1, RegexNext
<1> QED BY <1>2, <1>3, SpecOfParts, PTL DEF Regex!Spec

\* What sky_regex_parse lists is what re.findall of Python gives, if the
\* expression has no groups, finds the same where a text begins as elsewhere,
\* and finds the longest match first; and sky_regex_match counts what parse
\* lists, of any expression (sky_regex.c:92-189).  Both if no allocation and no
\* regexec failed, for texts of every length.  With an empty match the calls do
\* not return, and say nothing.
THEOREM ParseRight == CallsSpec => []ParseIsFindall
<1>1. Regex!RegexAssumption
  BY CallsAssumption
<1>2. RegexInv => ParseIsFindall
  BY <1>1, RegexRight DEF ParseIsFindall
<1> QED BY <1>2, RegexHolds, PTL

\* ... and that of the exchange.
LEMMA ExchangeHolds == CallsSpec => []GatewayInv
<1>1. Socket!LocalSocketAssumption
  BY CallsAssumption
<1>2. Socket!Init => GatewayInv
  BY <1>1, GatewayInit
<1>3. GatewayInv /\ [Socket!Next]_(Socket!vars) => GatewayInv'
  BY <1>1, GatewayNext
<1> QED BY <1>2, <1>3, SpecOfParts, PTL DEF Socket!Spec

\* A gateway call that meets no error answers from the whole routing table,
\* however long it is and however the kernel cuts the dump (sky_local_socket.c:
\* 268-402): a table that does not fit the buffer is an error.
THEOREM GatewayRight == CallsSpec => GatewayFound
<1>1. Socket!LocalSocketAssumption
  BY CallsAssumption
<1> DEFINE A == soPc = "parse" /\ Socket!Answered
                  /\ (\A k \in 1..Len(soRoutes) : soRoutes[k].kind # "like") =>
                soAnswer' = Socket!FirstOf({k \in 1..Len(soRoutes) :
                                              soRoutes[k].kind = "default" /\ soRoutes[k].mine})
<1>2. GatewayInv /\ [Socket!Next]_(Socket!vars) => [A]_(Socket!vars)
  BY <1>1, GatewayStep
<1> QED BY <1>2, ExchangeHolds, SpecOfParts, PTL
        DEF Socket!Spec, GatewayFound, Socket!GatewayFound

\* sky_regex.c keeps all its memory in the handle's list, but for a node whose
\* string could not be had; and where descriptor 0 stays open, every call of
\* sky_local_socket.c closes what it opened and nothing else, whichever of its
\* steps fails.
THEOREM NoLeaks == ASSUME StdinOpen PROVE CallsSpec => []NothingLeaks
<1>1. Regex!RegexAssumption /\ Socket!LocalSocketAssumption
  BY CallsAssumption
<1>2. Socket!Init => DescriptorInv
  BY <1>1, SocketInit
<1>3. DescriptorInv /\ [Socket!Next]_(Socket!vars) => DescriptorInv'
  BY <1>1, SocketNext
<1>4. RegexInv /\ GatewayInv /\ DescriptorInv => NothingLeaks
  BY <1>1, RegexRight, GatewayTypes DEF NothingLeaks, DescriptorInv
<1> QED BY <1>2, <1>3, <1>4, RegexHolds, ExchangeHolds, SpecOfParts, PTL DEF Socket!Spec

\* Whoever was told by sky_init that the library is started finds it running
\* until he stops it, the count tells whether it runs, and sky_uninit stops the
\* modules in the reverse of the order they were started in (sky.c:76-115),
\* however many users there are and wherever a start fails.
THEOREM LibraryStarted == CallsSpec => []LibraryRuns
<1>1. Library!InitAssumption
  BY CallsAssumption
<1>2. Library!Init => LibraryInv
  BY <1>1, LibraryInit
<1>3. LibraryInv /\ [Library!Next]_(Library!vars) => LibraryInv'
  BY <1>1, LibraryNext
<1>4. LibraryInv => LibraryRuns
  BY LibraryRight DEF LibraryRuns
<1> QED BY <1>2, <1>3, <1>4, SpecOfParts, PTL DEF Library!Spec
=============================================================================
