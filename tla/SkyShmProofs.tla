--------------------------- MODULE SkyShmProofs ---------------------------
(* Proofs about shared memory, for any number of processes, threads, names,  *)
(* objects and handles.                                                      *)
(*                                                                           *)
(* RInv is about the registry. RegistryLive and TeardownExclusive are not    *)
(* inductive: that a handle found by one close is found by no other needs    *)
(* that what a thread takes down, or still builds, is in no registry         *)
(* (Owners), that whoever is between enter and leave is alone there          *)
(* (Inside), and that what is pushed was built before (Built); Phases ties   *)
(* these to the place a call has reached.                                    *)
(*                                                                           *)
(* NInv is about the names, and needs RInv. CreatorKeepsName and NameOwned   *)
(* speak of creators that have returned; a step can only be judged with      *)
(* those still inside their call (Creator, NamesKept), with the mark mmap    *)
(* sets and destroy goes by (Marks), and with the fact that two creators     *)
(* never share an object (OneCreator). MappingBacked needs that who is about *)
(* to map knows of the size (Sized).                                         *)
EXTENDS SkyShm, TLAPS

\* Where a thread is tells what it is doing and whether it succeeded so far.
Phases ==
    \A t \in Thread :
       /\ pc[t] = "idle" => op[t] = "none" /\ h[t] = None
       /\ pc[t] # "idle" => op[t] # "none" /\ h[t] # None
       /\ pc[t] = "ftruncate" => op[t] = "create"
       /\ pc[t] = "fstat" => op[t] = "open"
       /\ pc[t] \in {"mmap", "push"} => op[t] # "destroy"
       /\ pc[t] \in {"remove", "free"} => op[t] = "destroy"
       /\ pc[t] \in {"unmap", "unlink", "free"} => (ok[t] <=> op[t] = "destroy")
       /\ pc[t] \notin {"leave", "unmap", "unlink", "free"} => ~ok[t]

\* A thread between enter and leave is the one inside the critical section.
Inside == \A t \in Thread : pc[t] \in {"push", "remove", "leave"} => cs[ProcOf[t]] = t

\* A handle that a thread owns is of its own process and in no registry, and
\* nobody else owns it.
Owners ==
    \A t \in Thread : Owned(t) =>
       /\ sm[h[t]] # None /\ sm[h[t]].proc = ProcOf[t]
       /\ \A p \in Proc : h[t] \notin list[p]
       /\ \A u \in Thread \ {t} : Owned(u) => h[u] # h[t]

\* What is in a registry is whole, and of its process.
Registered ==
    \A p \in Proc : \A g \in list[p] :
       sm[g] # None /\ sm[g].proc = p /\ sm[g].open /\ sm[g].mapped

\* A handle is built before it is registered, and registered before it is
\* returned.
Built ==
    \A t \in Thread : op[t] \in {"create", "open"} =>
       /\ pc[t] \in {"ftruncate", "fstat", "mmap", "enter", "push"} => sm[h[t]].open
       /\ pc[t] \in {"enter", "push"} => sm[h[t]].mapped
       /\ ok[t] => pc[t] = "leave" /\ h[t] \in list[ProcOf[t]]

RInv == TypeOK /\ Phases /\ Inside /\ Owners /\ Registered /\ Built

\* The handle's creator: it has been told so, or is being created.
Creator(g) == sm[g].is_creator \/ \E t \in Thread : h[t] = g /\ op[t] = "create"

\* Only what is being created or was created by the handle's own call has the
\* creator's mark; destroy unlinks what has it and frees what has not.
Marks ==
    \A t \in Thread :
       /\ op[t] = "open" => ~sm[h[t]].is_creator
       /\ op[t] = "create" /\ pc[t] \in {"enter", "push", "leave"} => sm[h[t]].is_creator
       /\ op[t] = "destroy" /\ pc[t] = "unlink" => sm[h[t]].is_creator
       /\ pc[t] = "free" => ~sm[h[t]].is_creator

\* An object has one creator among the handles that live.
OneCreator ==
    \A g, k \in Allocated : Creator(g) /\ Creator(k) /\ sm[g].file = sm[k].file => g = k

\* A creator's name is its own from its shm_open on.
NamesKept == \A g \in Allocated \ robbed : Creator(g) => ns[sm[g].name] = sm[g].file

\* Who is about to map an object knows that it has its size.
Sized ==
    \A t \in Thread :
       pc[t] = "mmap" /\ (op[t] = "create" \/ st_size[t] > 0) => size[sm[h[t]].file] = 1

NInv == Marks /\ OneCreator /\ NamesKept /\ NameOwned /\ Sized /\ MappingBacked

IInv == RInv /\ NInv
----------------------------------------------------------------------------
LEMMA InitInv == Init => IInv
<1> SUFFICES ASSUME Init PROVE IInv
  OBVIOUS
<1>1. TypeOK
  BY ShmAssumption DEF Init, TypeOK, PC
<1>2. Phases /\ Inside /\ Owners /\ Registered /\ Built
  BY DEF Init, Phases, Inside, Owners, Owned, Registered, Built
<1>3. Allocated = {}
  BY DEF Init, Allocated
<1>4. NInv
  BY <1>3 DEF Init, NInv, Marks, OneCreator, NamesKept, NameOwned, Sized, MappingBacked
<1> QED BY <1>1, <1>2, <1>4 DEF IInv, RInv

LEMMA Phase ==
  ASSUME RInv, NEW t \in Thread, pc[t] # "idle"
  PROVE  /\ h[t] \in Handle /\ op[t] \in {"create", "open", "destroy"}
         /\ Owned(t) => sm[h[t]] \in HandleStruct /\ sm[h[t]].proc = ProcOf[t]
         /\ pc[t] \in {"ftruncate", "fstat", "mmap", "push", "unmap", "unlink", "free"} => Owned(t)
         /\ pc[t] = "enter" => (Owned(t) <=> op[t] # "destroy")
BY DEF RInv, TypeOK, Phases, Owners, Owned

\* Who owns what stays as it is when a call only goes on.
LEMMA OwnersStay ==
  ASSUME RInv, UNCHANGED <<op, h, ok, list>>,
         \A g \in Handle : sm[g] # None => sm'[g] # None /\ sm'[g].proc = sm[g].proc
  PROVE  Owners'
<1>1. \A u \in Thread : Owned(u)' <=> Owned(u)
  BY DEF Owned
<1>2. \A u \in Thread : Owned(u) => h[u] \in Handle
  BY DEF Owned, RInv, TypeOK
<1> QED BY <1>1, <1>2 DEF Owners, RInv

LEMMA FtruncateKeeps ==
  ASSUME RInv, NEW t \in Thread, Ftruncate(t)
  PROVE  RInv'
<1> USE ShmAssumption DEF RInv
<1>1. TypeOK'
  BY DEF TypeOK, Ftruncate, Goto, history, PC
<1>2. Phases'
  BY DEF TypeOK, Ftruncate, Goto, Phases, PC
<1>3. Inside'
  BY DEF TypeOK, Ftruncate, Goto, Inside, PC
<1>4. Owners'
  BY OwnersStay DEF Ftruncate
<1>5. Registered'
  BY DEF Ftruncate, Registered
<1>6. Built'
  BY DEF TypeOK, Ftruncate, Goto, Built, Phases
<1> QED BY <1>1, <1>2, <1>3, <1>4, <1>5, <1>6

LEMMA FstatKeeps ==
  ASSUME RInv, NEW t \in Thread, Fstat(t)
  PROVE  RInv'
<1> USE ShmAssumption DEF RInv
<1>0. h[t] \in Handle /\ sm[h[t]] \in HandleStruct
  BY Phase DEF Fstat
<1>1. TypeOK'
  BY <1>0 DEF TypeOK, Fstat, Goto, history, kernel, PC, HandleStruct
<1>2. Phases'
  BY DEF TypeOK, Fstat, Goto, Phases, PC
<1>3. Inside'
  BY DEF TypeOK, Fstat, Goto, Inside, PC
<1>4. Owners'
  BY OwnersStay DEF Fstat
<1>5. Registered'
  BY DEF Fstat, Registered
<1>6. Built'
  BY DEF TypeOK, Fstat, Goto, Built, Phases
<1> QED BY <1>1, <1>2, <1>3, <1>4, <1>5, <1>6

\* mmap changes nothing, or marks the thread's own handle mapped, and the
\* creator's as the creator's.
LEMMA MmapEffect ==
  ASSUME RInv, NEW t \in Thread, Mmap(t)
  PROVE  /\ sm' \in [Handle -> HandleStruct \cup {None}]
         /\ \A g \in Handle \ {h[t]} : sm'[g] = sm[g]
         /\ h[t] \in Handle /\ sm'[h[t]] \in HandleStruct /\ sm[h[t]] \in HandleStruct
         /\ sm'[h[t]].proc = sm[h[t]].proc /\ sm'[h[t]].name = sm[h[t]].name
         /\ sm'[h[t]].file = sm[h[t]].file /\ sm'[h[t]].open = sm[h[t]].open
         /\ \/ /\ pc' = [pc EXCEPT ![t] = "enter"] /\ sm'[h[t]].mapped
               /\ sm'[h[t]].is_creator <=> op[t] = "create"
               /\ op[t] = "create" \/ st_size[t] > 0
            \/ pc' = [pc EXCEPT ![t] = "unmap"] /\ UNCHANGED sm
<1> USE ShmAssumption DEF RInv
<1>0. h[t] \in Handle /\ sm[h[t]] \in HandleStruct /\ sm \in [Handle -> HandleStruct \cup {None}]
  BY Phase DEF Mmap, TypeOK
<1>1. CASE pc' = [pc EXCEPT ![t] = "unmap"] /\ UNCHANGED sm
  BY <1>0, <1>1
<1>2. CASE /\ op[t] = "create" \/ st_size[t] > 0
           /\ sm' = [sm EXCEPT ![h[t]].mapped = TRUE, ![h[t]].is_creator = (op[t] = "create")]
           /\ pc' = [pc EXCEPT ![t] = "enter"]
  <2>1. CASE op[t] = "create"
    <3>1. (op[t] = "create") = TRUE
      BY <2>1
    <3>2. sm' = [sm EXCEPT ![h[t]].mapped = TRUE, ![h[t]].is_creator = TRUE]
      BY <1>2, <3>1, Zenon
    <3>3. sm' = [sm EXCEPT ![h[t]] = [sm[h[t]] EXCEPT !.mapped = TRUE, !.is_creator = TRUE]]
      BY <3>2, <1>0, Zenon
    <3>4. [sm[h[t]] EXCEPT !.mapped = TRUE, !.is_creator = TRUE] \in HandleStruct
      BY <1>0 DEF HandleStruct
    <3>5. sm'[h[t]] = [sm[h[t]] EXCEPT !.mapped = TRUE, !.is_creator = TRUE]
      BY <1>0, <3>3
    <3>6. sm' \in [Handle -> HandleStruct \cup {None}] /\ \A g \in Handle \ {h[t]} : sm'[g] = sm[g]
      BY <1>0, <3>3, <3>4
    <3>7. sm'[h[t]].mapped = TRUE /\ sm'[h[t]].is_creator = TRUE /\ sm'[h[t]].proc = sm[h[t]].proc
          /\ sm'[h[t]].name = sm[h[t]].name /\ sm'[h[t]].file = sm[h[t]].file
          /\ sm'[h[t]].open = sm[h[t]].open
      BY <1>0, <3>5 DEF HandleStruct
    <3> QED BY <1>0, <1>2, <2>1, <3>4, <3>5, <3>6, <3>7
  <2>2. CASE op[t] # "create"
    <3>1. (op[t] = "create") = FALSE
      BY <2>2
    <3>2. sm' = [sm EXCEPT ![h[t]].mapped = TRUE, ![h[t]].is_creator = FALSE]
      BY <1>2, <3>1, Zenon
    <3>3. sm' = [sm EXCEPT ![h[t]] = [sm[h[t]] EXCEPT !.mapped = TRUE, !.is_creator = FALSE]]
      BY <3>2, <1>0, Zenon
    <3>4. [sm[h[t]] EXCEPT !.mapped = TRUE, !.is_creator = FALSE] \in HandleStruct
      BY <1>0 DEF HandleStruct
    <3>5. sm'[h[t]] = [sm[h[t]] EXCEPT !.mapped = TRUE, !.is_creator = FALSE]
      BY <1>0, <3>3
    <3>6. sm' \in [Handle -> HandleStruct \cup {None}] /\ \A g \in Handle \ {h[t]} : sm'[g] = sm[g]
      BY <1>0, <3>3, <3>4
    <3>7. sm'[h[t]].mapped = TRUE /\ sm'[h[t]].is_creator = FALSE /\ sm'[h[t]].proc = sm[h[t]].proc
          /\ sm'[h[t]].name = sm[h[t]].name /\ sm'[h[t]].file = sm[h[t]].file
          /\ sm'[h[t]].open = sm[h[t]].open
      BY <1>0, <3>5 DEF HandleStruct
    <3> QED BY <1>0, <1>2, <2>2, <3>4, <3>5, <3>6, <3>7
  <2> QED BY <2>1, <2>2
<1> QED BY <1>1, <1>2, Zenon DEF Mmap, Goto

LEMMA MmapKeeps ==
  ASSUME RInv, NEW t \in Thread, Mmap(t)
  PROVE  RInv'
<1> USE ShmAssumption DEF RInv
<1>0. Owned(t) /\ h[t] \in Handle /\ sm[h[t]] \in HandleStruct
  BY Phase DEF Mmap
<1>1. TypeOK'
  <2>1. sm' \in [Handle -> HandleStruct \cup {None}]
    BY MmapEffect
  <2>2. pc' \in [Thread -> PC]
    BY DEF TypeOK, Mmap, Goto, PC
  <2> QED BY <2>1, <2>2 DEF TypeOK, Mmap, kernel, history
<1>2. Phases'
  BY DEF TypeOK, Mmap, Goto, Phases, PC
<1>3. Inside'
  BY DEF TypeOK, Mmap, Goto, Inside, PC
<1>4. Owners'
  <2>1. sm'[h[t]] # None /\ sm'[h[t]].proc = sm[h[t]].proc
    BY <1>0, MmapEffect
  <2>2. \A g \in Handle \ {h[t]} : sm'[g] = sm[g]
    BY MmapEffect
  <2>3. UNCHANGED <<op, h, ok, list>>
    BY DEF Mmap
  <2> QED BY <2>1, <2>2, <2>3, OwnersStay
<1>5. Registered'
  <2>1. \A p \in Proc : h[t] \notin list[p] /\ list[p] \subseteq Handle
    BY <1>0 DEF Owners, TypeOK
  <2>2. UNCHANGED list /\ \A g \in Handle \ {h[t]} : sm'[g] = sm[g]
    BY MmapEffect DEF Mmap
  <2> QED BY <2>1, <2>2 DEF Registered
<1>6. Built'
  <2>1. UNCHANGED <<op, h, ok, list>>
    BY DEF Mmap
  <2>2. \A u \in Thread \ {t} : pc'[u] = pc[u] /\ h[u] \in Handle \cup {None}
    BY DEF Mmap, Goto, TypeOK
  <2>3. \A u \in Thread \ {t} :
           /\ pc[u] \in {"ftruncate", "fstat", "mmap", "enter", "push"}
           /\ op[u] \in {"create", "open"}
           => h[u] # h[t] /\ h[u] \in Handle
    BY <1>0 DEF Owned, Owners, Phases, TypeOK
  <2>4. \A u \in Thread \ {t} : op[u] \in {"create", "open"} =>
           /\ pc'[u] \in {"ftruncate", "fstat", "mmap", "enter", "push"} => sm'[h[u]].open
           /\ pc'[u] \in {"enter", "push"} => sm'[h[u]].mapped
           /\ ok'[u] => pc'[u] = "leave" /\ h[u] \in list[ProcOf[u]]
    BY <2>1, <2>2, <2>3, MmapEffect DEF Built
  <2>5. pc'[t] \in {"enter", "push"} => sm'[h[t]].mapped
    BY MmapEffect DEF TypeOK
  <2>6. ~ok[t]
    BY DEF Mmap, Phases
  <2>7. sm[h[t]].open
    BY DEF Mmap, Built, Phases, TypeOK
  <2> QED BY <2>1, <2>4, <2>5, <2>6, <2>7, MmapEffect DEF Built
<1> QED BY <1>1, <1>2, <1>3, <1>4, <1>5, <1>6

\* Entering, a thread finds nobody inside.
LEMMA EnterKeeps ==
  ASSUME RInv, NEW t \in Thread, Enter(t)
  PROVE  RInv'
<1> USE ShmAssumption DEF RInv
<1>1. TypeOK'
  BY DEF TypeOK, Enter, Goto, InList, kernel, history, PC
<1>2. Phases'
  BY DEF TypeOK, Enter, Goto, InList, Phases, PC
<1>3. Inside'
  <2> SUFFICES ASSUME NEW u \in Thread, pc'[u] \in {"push", "remove", "leave"}
               PROVE  cs'[ProcOf[u]] = u
    BY DEF Inside
  <2>1. CASE u = t
    BY <2>1 DEF TypeOK, Enter
  <2>2. CASE u # t
    <3>1. pc[u] = pc'[u]
      BY <2>2 DEF TypeOK, Enter, Goto
    <3>2. cs[ProcOf[u]] = u /\ u # None
      BY <3>1 DEF Inside
    <3> QED BY <3>2 DEF TypeOK, Enter
  <2> QED BY <2>1, <2>2
<1>4. Owners'
  BY OwnersStay DEF Enter
<1>5. Registered'
  BY DEF TypeOK, Enter, Goto, Registered
<1>6. Built'
  BY DEF TypeOK, Enter, Goto, InList, Built
<1> QED BY <1>1, <1>2, <1>3, <1>4, <1>5, <1>6

LEMMA UnmapKeeps ==
  ASSUME RInv, NEW t \in Thread, Unmap(t)
  PROVE  RInv'
<1> USE ShmAssumption DEF RInv
<1>0. Owned(t) /\ h[t] \in Handle /\ sm[h[t]] \in HandleStruct
  BY Phase DEF Unmap
<1>1. TypeOK'
  BY <1>0 DEF TypeOK, Unmap, Goto, kernel, history, PC, HandleStruct
<1>2. Phases'
  BY DEF TypeOK, Unmap, Goto, Phases, PC
<1>3. Inside'
  BY DEF TypeOK, Unmap, Goto, Inside, PC
<1>4. Owners'
  <2>1. sm'[h[t]] # None /\ sm'[h[t]].proc = sm[h[t]].proc
    BY <1>0 DEF Unmap, TypeOK, HandleStruct
  <2>2. \A g \in Handle \ {h[t]} : sm'[g] = sm[g]
    BY <1>0 DEF Unmap, TypeOK
  <2> QED BY <2>1, <2>2, OwnersStay DEF Unmap
<1>5. Registered'
  BY <1>0 DEF TypeOK, Unmap, Goto, Registered, Owners, HandleStruct
<1>6. Built'
  BY <1>0 DEF TypeOK, Unmap, Goto, Built, Owners, Owned, Phases
<1> QED BY <1>1, <1>2, <1>3, <1>4, <1>5, <1>6

LEMMA PushKeeps ==
  ASSUME RInv, NEW t \in Thread, Push(t)
  PROVE  RInv'
<1> USE ShmAssumption DEF RInv
<1>0. Owned(t) /\ h[t] \in Handle /\ sm[h[t]] \in HandleStruct /\ sm[h[t]].proc = ProcOf[t]
  BY Phase DEF Push
<1>1. TypeOK'
  <2>1. list' \in [Proc -> SUBSET Handle] /\ ok' \in [Thread -> BOOLEAN]
    <3>1. list' = [list EXCEPT ![ProcOf[t]] = @ \cup {h[t]}] \/ UNCHANGED list
      BY Zenon DEF Push
    <3>2. ok' = [ok EXCEPT ![t] = TRUE] \/ UNCHANGED ok
      BY Zenon DEF Push
    <3>3. ok' \in [Thread -> BOOLEAN]
      BY <3>2 DEF TypeOK
    <3>4. list \in [Proc -> SUBSET Handle] /\ ProcOf[t] \in Proc
      BY DEF TypeOK
    <3> HIDE DEF RInv
    <3>5. list' \in [Proc -> SUBSET Handle]
      BY <1>0, <3>1, <3>4
    <3> QED BY <3>3, <3>5
  <2>2. pc' \in [Thread -> PC]
    BY DEF TypeOK, Push, Goto, PC
  <2> QED BY <2>1, <2>2 DEF TypeOK, Push, kernel, history
<1>2. Phases'
  BY DEF TypeOK, Push, Goto, Phases, PC
<1>3. Inside'
  BY DEF TypeOK, Push, Goto, Inside, PC
<1>4. Owners'
  <2>1. \A u \in Thread : Owned(u)' => Owned(u) /\ (u = t => UNCHANGED list)
    BY <1>0 DEF Push, Owned, TypeOK, Phases
  <2>2. \A p \in Proc : list'[p] \subseteq list[p] \cup {h[t]}
    BY DEF Push, TypeOK
  <2> QED BY <1>0, <2>1, <2>2 DEF Push, Owners
<1>5. Registered'
  <2>1. sm[h[t]].open /\ sm[h[t]].mapped
    BY DEF Push, Built, Phases, TypeOK
  <2>2. \A p \in Proc : list'[p] \subseteq list[p] \cup (IF p = ProcOf[t] THEN {h[t]} ELSE {})
    BY DEF Push, TypeOK
  <2> QED BY <1>0, <2>1, <2>2 DEF Push, Registered
<1>6. Built'
  <2>1. \A p \in Proc : list[p] \subseteq list'[p]
    BY DEF Push, TypeOK
  <2>2. \A u \in Thread \ {t} : pc'[u] = pc[u] /\ ok'[u] = ok[u]
    BY DEF Push, Goto, TypeOK
  <2>3. pc'[t] = "leave"
    BY DEF Push, Goto, TypeOK
  <2>4. ok'[t] => h[t] \in list'[ProcOf[t]]
    <3>1. ~ok[t] /\ ProcOf[t] \in Proc
      BY DEF Phases, Push
    <3>2. CASE UNCHANGED ok
      BY <3>1, <3>2
    <3>3. CASE list' = [list EXCEPT ![ProcOf[t]] = @ \cup {h[t]}]
      BY <3>1, <3>3 DEF TypeOK
    <3> QED BY <3>2, <3>3, Zenon DEF Push
  <2>5. UNCHANGED <<sm, op, h>>
    BY DEF Push
  <2> QED BY <2>1, <2>2, <2>3, <2>4, <2>5 DEF Built
<1> QED BY <1>1, <1>2, <1>3, <1>4, <1>5, <1>6

\* Of two closes of the same handle only one finds it in the registry.
LEMMA RemoveKeeps ==
  ASSUME RInv, NEW t \in Thread, Remove(t)
  PROVE  RInv'
<1> USE ShmAssumption DEF RInv
<1>0. h[t] \in Handle /\ op[t] = "destroy" /\ ~ok[t] /\ cs[ProcOf[t]] = t
  BY Phase DEF Remove, Phases, Inside
<1>1. TypeOK'
  <2>1. list' \in [Proc -> SUBSET Handle]
    BY <1>0 DEF TypeOK, Remove
  <2>2. ok' \in [Thread -> BOOLEAN]
    <3>1. (h[t] \in list[ProcOf[t]]) \in BOOLEAN
      OBVIOUS
    <3> QED BY <3>1, Zenon DEF TypeOK, Remove
  <2>3. pc' \in [Thread -> PC]
    BY DEF TypeOK, Remove, Goto, PC
  <2> QED BY <2>1, <2>2, <2>3 DEF TypeOK, Remove, kernel, history
<1>2. Phases'
  BY DEF TypeOK, Remove, Goto, Phases, PC
<1>3. Inside'
  BY DEF TypeOK, Remove, Goto, Inside, PC
<1>4. Owners'
  <2>1. \A u \in Thread \ {t} : (Owned(u)' <=> Owned(u)) /\ h'[u] = h[u]
    BY DEF Remove, Owned, TypeOK
  <2>2. Owned(t)' => /\ h[t] \in list[ProcOf[t]] /\ h'[t] = h[t]
                     /\ sm[h[t]] # None /\ sm[h[t]].proc = ProcOf[t]
    BY <1>0 DEF Remove, Owned, TypeOK, Registered
  <2>3. Owned(t)' => \A p \in Proc : h[t] \notin list'[p]
    BY <2>2 DEF Remove, Registered, TypeOK
  <2>4. \A p \in Proc : list'[p] \subseteq list[p]
    BY DEF Remove, TypeOK
  <2> QED BY <2>1, <2>2, <2>3, <2>4 DEF Remove, Owners
<1>5. Registered'
  BY DEF Remove, Registered, TypeOK
<1>6. Built'
  <2>1. \A u \in Thread \ {t} : ProcOf[u] = ProcOf[t] => pc[u] # "leave"
    BY <1>0 DEF Inside, TypeOK
  <2>2. \A u \in Thread : ProcOf[u] # ProcOf[t] => list'[ProcOf[u]] = list[ProcOf[u]]
    BY DEF Remove, TypeOK
  <2> QED BY <1>0, <2>1, <2>2 DEF TypeOK, Remove, Goto, Built
<1> QED BY <1>1, <1>2, <1>3, <1>4, <1>5, <1>6

LEMMA LeaveKeeps ==
  ASSUME RInv, NEW t \in Thread, Leave(t)
  PROVE  RInv'
<1> USE ShmAssumption DEF RInv
<1>0. h[t] \in Handle /\ cs[ProcOf[t]] = t
  BY Phase DEF Leave, Inside
<1>1. TypeOK'
  <2>1. cs' \in [Proc -> Thread \cup {None}] /\ known' \in [Proc -> SUBSET Handle]
    BY <1>0 DEF TypeOK, Leave
  <2>2. pc' \in [Thread -> PC]
    BY DEF TypeOK, Leave, Goto, Return, PC
  <2>3. /\ op' \in [Thread -> {"none", "create", "open", "destroy"}]
        /\ h' \in [Thread -> Handle \cup {None}] /\ st_size' \in [Thread -> {0, 1}]
        /\ ok' \in [Thread -> BOOLEAN]
    BY DEF TypeOK, Leave, Return
  <2> QED BY <2>1, <2>2, <2>3 DEF TypeOK, Leave, kernel, history
<1>2. Phases'
  BY DEF TypeOK, Leave, Goto, Return, Phases, PC
<1>3. Inside'
  <2>1. \A u \in Thread : pc'[u] \in {"push", "remove", "leave"} => u # t /\ pc'[u] = pc[u]
    BY DEF TypeOK, Leave, Goto, Return
  <2> QED BY <1>0, <2>1 DEF Leave, Inside, TypeOK
<1>4. Owners'
  <2>1. \A u \in Thread : Owned(u)' => Owned(u) /\ h'[u] = h[u]
    BY DEF Leave, Goto, Return, Owned, TypeOK
  <2> QED BY <2>1 DEF Leave, Owners
<1>5. Registered'
  BY DEF Leave, Registered
<1>6. Built'
  BY DEF TypeOK, Leave, Goto, Return, Built
<1> QED BY <1>1, <1>2, <1>3, <1>4, <1>5, <1>6

\* A handle that is freed is in no registry and nobody else's.
LEMMA FreeKeeps ==
  ASSUME RInv, NEW t \in Thread, Unlink(t) \/ Free(t)
  PROVE  RInv'
<1> USE ShmAssumption DEF RInv
<1>0. Owned(t) /\ h[t] \in Handle /\ sm[h[t]] \in HandleStruct
  BY Phase DEF Unlink, Free
<1>1. /\ sm' = [sm EXCEPT ![h[t]] = None] /\ Return(t) /\ UNCHANGED <<size, up, list, cs, known>>
      /\ \A p \in Proc : h[t] \notin list[p]
  BY <1>0 DEF Unlink, Free, Owners, kernel
<1>2. TypeOK'
  <2>1. ns' \in [Name -> Object \cup {None}] /\ robbed' \in SUBSET Handle /\ UNCHANGED abandoned
    BY <1>0 DEF TypeOK, Unlink, Free, kernel, Creators, Allocated
  <2> QED BY <1>1, <2>1 DEF TypeOK, Return, PC
<1>3. Phases'
  BY <1>1 DEF TypeOK, Return, Phases, PC
<1>4. Inside'
  BY <1>1 DEF TypeOK, Return, Inside
<1>5. Owners'
  <2>1. \A u \in Thread : Owned(u)' => u # t /\ Owned(u) /\ h'[u] = h[u]
    BY <1>1 DEF Return, Owned, TypeOK
  <2>2. \A u \in Thread \ {t} : Owned(u) => sm'[h[u]] = sm[h[u]]
    BY <1>0, <1>1 DEF Owners, TypeOK
  <2> QED BY <1>1, <2>1, <2>2 DEF Owners
<1>6. Registered'
  BY <1>1 DEF Registered, TypeOK
<1>7. Built'
  <2>1. \A u \in Thread : op'[u] \in {"create", "open"} =>
           u # t /\ op[u] = op'[u] /\ pc'[u] = pc[u] /\ ok'[u] = ok[u] /\ h'[u] = h[u]
    BY <1>1 DEF Return, TypeOK
  <2>2. \A u \in Thread \ {t} :
           /\ pc[u] \in {"ftruncate", "fstat", "mmap", "enter", "push"}
           /\ op[u] \in {"create", "open"}
           => h[u] # h[t] /\ h[u] \in Handle
    BY <1>0 DEF Owned, Owners, Phases, TypeOK
  <2>3. \A g \in Handle \ {h[t]} : sm'[g] = sm[g]
    BY <1>1 DEF TypeOK
  <2>4. UNCHANGED list
    BY <1>1
  <2> QED BY <2>1, <2>2, <2>3, <2>4 DEF Built
<1> QED BY <1>2, <1>3, <1>4, <1>5, <1>6, <1>7

\* A structure fresh from the allocator is in no registry and nobody's.
LEMMA BornKeeps ==
  ASSUME RInv, NEW t \in Thread, NEW n \in Name, NEW g \in Handle, NEW o \in Object,
         sm[g] = None, sm' = [sm EXCEPT ![g] = Fresh(t, n, o)],
         \/ Begin(t, "create", g, "ftruncate")
         \/ Begin(t, "open", g, "fstat"),
         ns' \in [Name -> Object \cup {None}], size' \in [Object -> {0, 1}]
  PROVE  RInv'
<1> USE ShmAssumption DEF RInv
<1>1. Fresh(t, n, o) \in HandleStruct /\ Fresh(t, n, o) # None
      /\ Fresh(t, n, o).proc = ProcOf[t] /\ Fresh(t, n, o).open
  <2>1. ProcOf[t] \in Proc
    OBVIOUS
  <2>2. Fresh(t, n, o) \in HandleStruct
    BY <2>1 DEF Fresh, HandleStruct
  <2> HIDE DEF RInv
  <2> QED BY <2>2 DEF Fresh
<1>2. /\ pc[t] = "idle" /\ UNCHANGED <<up, list, cs, known, st_size, ok, history>>
      /\ h' = [h EXCEPT ![t] = g] /\ ~ok[t]
      /\ \/ op' = [op EXCEPT ![t] = "create"] /\ pc' = [pc EXCEPT ![t] = "ftruncate"]
         \/ op' = [op EXCEPT ![t] = "open"] /\ pc' = [pc EXCEPT ![t] = "fstat"]
  BY DEF Begin, Phases
<1>3. /\ sm'[g] = Fresh(t, n, o) /\ \A k \in Handle \ {g} : sm'[k] = sm[k]
      /\ sm' \in [Handle -> HandleStruct \cup {None}]
  BY <1>1 DEF TypeOK
<1>4. \A u \in Thread \ {t} : /\ pc'[u] = pc[u] /\ op'[u] = op[u] /\ h'[u] = h[u]
                              /\ ok'[u] = ok[u]
  BY <1>2 DEF TypeOK
<1>5. h'[t] = g /\ pc'[t] \in {"ftruncate", "fstat"} /\ ~ok'[t]
      /\ op'[t] \in {"create", "open"}
      /\ (pc'[t] = "ftruncate" => op'[t] = "create") /\ (pc'[t] = "fstat" => op'[t] = "open")
  BY <1>2 DEF TypeOK
<1>6. /\ \A u \in Thread : Owned(u) => h[u] # g /\ h[u] \in Handle
      /\ \A p \in Proc : g \notin list[p] /\ list[p] \subseteq Handle
  BY DEF Owners, Registered, Owned, TypeOK
<1>7. TypeOK'
  <2>1. /\ pc' \in [Thread -> PC] /\ op' \in [Thread -> {"none", "create", "open", "destroy"}]
        /\ h' \in [Thread -> Handle \cup {None}]
    BY <1>2 DEF TypeOK, PC
  <2> QED BY <1>2, <1>3, <2>1 DEF TypeOK, history
<1>8. Phases'
  <2>1. g # None
    OBVIOUS
  <2> QED BY <1>4, <1>5, <2>1 DEF Phases
<1>9. Inside'
  BY <1>2, <1>4, <1>5 DEF Inside
<1>10. Owners'
  <2>1. \A u \in Thread \ {t} : Owned(u)' <=> Owned(u)
    BY <1>4 DEF Owned
  <2> QED BY <1>1, <1>2, <1>3, <1>4, <1>5, <1>6, <2>1 DEF Owners
<1>11. Registered'
  BY <1>2, <1>3, <1>6 DEF Registered
<1>12. Built'
  <2>1. \A u \in Thread \ {t} :
           /\ pc[u] \in {"ftruncate", "fstat", "mmap", "enter", "push"}
           /\ op[u] \in {"create", "open"}
           => h[u] # g /\ h[u] \in Handle
    BY <1>6 DEF Owned, Phases, TypeOK
  <2> QED BY <1>1, <1>2, <1>3, <1>4, <1>5, <2>1 DEF Built
<1> QED BY <1>7, <1>8, <1>9, <1>10, <1>11, <1>12

LEMMA CallKeeps ==
  ASSUME RInv, NEW t \in Thread, Call(t)
  PROVE  RInv'
<1> USE ShmAssumption DEF RInv
<1>1. CASE \E n \in Name : sky_share_memory_create(t, n)
  <2>1. PICK n \in Name, g \in Handle \ Allocated, o \in Object :
           /\ Begin(t, "create", g, "ftruncate")
           /\ ns' = [ns EXCEPT ![n] = o]
           /\ size' = [size EXCEPT ![o] = 0]
           /\ sm' = [sm EXCEPT ![g] = Fresh(t, n, o)]
    BY <1>1 DEF sky_share_memory_create
  <2>2. ns' \in [Name -> Object \cup {None}] /\ size' \in [Object -> {0, 1}]
    BY <2>1 DEF TypeOK
  <2>3. g \in Handle /\ sm[g] = None
    BY DEF Allocated
  <2> QED BY <2>1, <2>2, <2>3, BornKeeps
<1>2. CASE \E n \in Name : sky_share_memory_open(t, n)
  <2>1. PICK n \in Name, g \in Handle \ Allocated :
           /\ ns[n] # None /\ Begin(t, "open", g, "fstat")
           /\ sm' = [sm EXCEPT ![g] = Fresh(t, n, ns[n])] /\ UNCHANGED <<ns, size>>
    BY <1>2 DEF sky_share_memory_open, kernel
  <2>2. ns' \in [Name -> Object \cup {None}] /\ size' \in [Object -> {0, 1}]
        /\ ns[n] \in Object
    BY <2>1 DEF TypeOK
  <2>3. g \in Handle /\ sm[g] = None
    BY DEF Allocated
  <2> QED BY <2>1, <2>2, <2>3, BornKeeps
<1>3. CASE \E g \in Handle : sky_share_memory_destroy(t, g)
  <2>1. PICK g \in Handle : sky_share_memory_destroy(t, g)
    BY <1>3
  <2>2. /\ pc[t] = "idle" /\ UNCHANGED <<ns, size, sm, up, list, cs, known, st_size, ok, history>>
        /\ h' = [h EXCEPT ![t] = g] /\ op' = [op EXCEPT ![t] = "destroy"]
        /\ pc' = [pc EXCEPT ![t] = "enter"] /\ ~ok[t] /\ g # None
    BY <2>1 DEF sky_share_memory_destroy, Begin, Phases, kernel
  <2>3. TypeOK'
    BY <2>2 DEF TypeOK, PC, history
  <2>4. Phases' /\ Inside' /\ Registered'
    BY <2>2 DEF TypeOK, Phases, Inside, Registered
  <2>5. \A u \in Thread : Owned(u)' => Owned(u) /\ h'[u] = h[u]
    BY <2>2 DEF Owned, TypeOK
  <2>6. Owners'
    BY <2>2, <2>5 DEF Owners
  <2>7. Built'
    BY <2>2 DEF Built, TypeOK
  <2> QED BY <2>3, <2>4, <2>6, <2>7
<1> QED BY <1>1, <1>2, <1>3 DEF Call

\* A process that ends takes its own handles, threads and registry with it and
\* nobody else's.
LEMMA ProcessKeeps ==
  ASSUME RInv, NEW p \in Proc,
         sky_share_memory_init(p) \/ sky_share_memory_uninit(p) \/ Exit(p)
  PROVE  RInv'
<1> USE ShmAssumption DEF RInv
<1>1. CASE sky_share_memory_init(p)
  <2>1. UNCHANGED <<ns, size, sm, list, cs, known, pc, op, h, st_size, ok, robbed, abandoned>>
        /\ up' = [up EXCEPT ![p] = TRUE]
    BY <1>1 DEF sky_share_memory_init, kernel, locals, history
  <2>2. \A u \in Thread : Owned(u)' <=> Owned(u)
    BY <2>1 DEF Owned
  <2> QED BY <2>1, <2>2 DEF TypeOK, Phases, Inside, Owners, Registered, Built
<1>2. CASE sky_share_memory_uninit(p)
  <2>1. /\ UNCHANGED <<ns, size, sm, cs, known, pc, op, h, st_size, ok, robbed>>
        /\ up' = [up EXCEPT ![p] = FALSE] /\ list' = [list EXCEPT ![p] = {}]
        /\ abandoned' = abandoned \cup Lost(p)
        /\ \A u \in Thread : ProcOf[u] = p => pc[u] = "idle"
    BY <1>2 DEF sky_share_memory_uninit, kernel, locals
  <2>2. \A u \in Thread : Owned(u)' <=> Owned(u)
    BY <2>1 DEF Owned
  <2>3. Lost(p) \subseteq Object
    BY DEF Lost, Mine, Allocated, TypeOK, HandleStruct
  <2>4. TypeOK'
    BY <2>1, <2>3 DEF TypeOK
  <2>5. \A q \in Proc : IF q = p THEN list'[q] = {} ELSE list'[q] = list[q]
    BY <2>1 DEF TypeOK
  <2>6. Phases' /\ Inside' /\ Owners' /\ Registered'
    <3>1. Phases' /\ Inside'
      BY <2>1 DEF Phases, Inside
    <3>2. Owners'
      <4>1. \A q \in Proc : list'[q] \subseteq list[q]
        BY <2>5
      <4> QED BY <2>1, <2>2, <4>1 DEF Owners
    <3>3. Registered'
      <4>1. \A q \in Proc : list'[q] \subseteq list[q] /\ list[q] \subseteq Handle
        BY <2>5 DEF TypeOK
      <4> QED BY <2>1, <4>1 DEF Registered
    <3> QED BY <3>1, <3>2, <3>3
  <2>7. Built'
    <3>1. \A u \in Thread : op[u] # "none" => list'[ProcOf[u]] = list[ProcOf[u]]
      BY <2>1 DEF Phases, TypeOK
    <3> QED BY <2>1, <3>1 DEF Built
  <2> QED BY <2>4, <2>6, <2>7
<1>3. CASE Exit(p)
  <2>1. Lost(p) \subseteq Object
    BY DEF Lost, Mine, Allocated, TypeOK, HandleStruct
  <2>2. \A u \in Thread :
           IF ProcOf[u] = p
           THEN pc'[u] = "idle" /\ op'[u] = "none" /\ h'[u] = None /\ ok'[u] = FALSE
           ELSE pc'[u] = pc[u] /\ op'[u] = op[u] /\ h'[u] = h[u] /\ ok'[u] = ok[u]
    BY <1>3 DEF Exit
  <2>3. \A q \in Proc : IF q = p THEN list'[q] = {} /\ cs'[q] = None
                                ELSE list'[q] = list[q] /\ cs'[q] = cs[q]
    BY <1>3 DEF Exit, TypeOK
  <2>4. \A g \in Handle : sm[g] # None /\ sm[g].proc # p => sm'[g] = sm[g]
    BY <1>3 DEF Exit, Mine
  <2>5. TypeOK'
    <3>1. /\ sm' \in [Handle -> HandleStruct \cup {None}] /\ up' \in [Proc -> BOOLEAN]
          /\ list' \in [Proc -> SUBSET Handle] /\ cs' \in [Proc -> Thread \cup {None}]
          /\ known' \in [Proc -> SUBSET Handle]
      BY <1>3 DEF Exit, TypeOK
    <3>2. /\ pc' \in [Thread -> PC] /\ op' \in [Thread -> {"none", "create", "open", "destroy"}]
          /\ h' \in [Thread -> Handle \cup {None}] /\ st_size' \in [Thread -> {0, 1}]
      BY <1>3 DEF Exit, TypeOK, PC
    <3>3. ok' \in [Thread -> BOOLEAN]
      BY <1>3 DEF Exit, TypeOK
    <3>4. robbed' \subseteq Handle /\ abandoned' \subseteq Object /\ UNCHANGED <<ns, size>>
      BY <1>3, <2>1 DEF Exit, TypeOK, kernel
    <3> QED BY <3>1, <3>2, <3>3, <3>4 DEF TypeOK
  <2>6. Phases'
    BY <2>2 DEF Phases
  <2>7. Inside'
    BY <2>2, <2>3 DEF Inside
  <2>8. \A u \in Thread : Owned(u)' => ProcOf[u] # p /\ Owned(u) /\ h'[u] = h[u]
    BY <2>2 DEF Owned
  <2>9. \A u \in Thread : Owned(u) => h[u] \in Handle
    BY DEF Owned, TypeOK
  <2>10. Owners'
    BY <2>3, <2>4, <2>8, <2>9 DEF Owners
  <2>11. Registered'
    <3>1. \A q \in Proc : list[q] \subseteq Handle
      BY DEF TypeOK
    <3> QED BY <2>3, <2>4, <3>1 DEF Registered
  <2>12. Built'
    <3>1. \A u \in Thread : op'[u] \in {"create", "open"} => ProcOf[u] # p
      BY <2>2
    <3>2. \A u \in Thread :
           /\ pc[u] \in {"ftruncate", "fstat", "mmap", "enter", "push"}
           /\ op[u] \in {"create", "open"}
           => h[u] \in Handle /\ sm[h[u]] # None /\ sm[h[u]].proc = ProcOf[u]
      BY DEF Owned, Owners, Phases, TypeOK
    <3> QED BY <2>2, <2>3, <2>4, <3>1, <3>2 DEF Built
  <2> QED BY <2>5, <2>6, <2>7, <2>10, <2>11, <2>12
<1> QED BY <1>1, <1>2, <1>3

LEMMA StutterKeeps ==
  ASSUME RInv, UNCHANGED vars
  PROVE  RInv'
<1>1. UNCHANGED <<ns, size, sm, up, list, cs, known, pc, op, h, st_size, ok, robbed, abandoned>>
  BY DEF vars, kernel, locals, history
<1>2. \A u \in Thread : Owned(u)' <=> Owned(u)
  BY <1>1 DEF Owned
<1> QED BY <1>1, <1>2 DEF RInv, TypeOK, Phases, Inside, Owners, Registered, Built

LEMMA NextRInv == RInv /\ [Next]_vars => RInv'
<1> SUFFICES ASSUME RInv, [Next]_vars PROVE RInv'
  OBVIOUS
<1>1. ASSUME NEW t \in Thread, Call(t) \/ Step(t) PROVE RInv'
  BY <1>1, CallKeeps, FtruncateKeeps, FstatKeeps, MmapKeeps, EnterKeeps, PushKeeps, RemoveKeeps,
     LeaveKeeps, UnmapKeeps, FreeKeeps DEF Step
<1>2. ASSUME NEW p \in Proc,
             sky_share_memory_init(p) \/ sky_share_memory_uninit(p) \/ Exit(p)
      PROVE  RInv'
  BY <1>2, ProcessKeeps
<1> QED BY <1>1, <1>2, StutterKeeps DEF Next
----------------------------------------------------------------------------
(* The names *)

\* The handle a thread is building or about to free is allocated, of its own
\* process, and no other thread is taking it down.
Holds(u) == op[u] \in {"create", "open"} \/ pc[u] \in {"unlink", "free"}

LEMMA Holding ==
  ASSUME RInv, NEW u \in Thread, Holds(u)
  PROVE  /\ pc[u] # "idle" /\ h[u] \in Handle /\ sm[h[u]] \in HandleStruct
         /\ sm[h[u]].proc = ProcOf[u]
         /\ \A t \in Thread \ {u} : Owned(t) => h[t] # h[u]
<1> USE ShmAssumption DEF RInv
<1>1. pc[u] # "idle"
  BY DEF Holds, Phases
<1>2. CASE Owned(u)
  BY <1>1, <1>2, Phase DEF Owners
<1>3. CASE ~Owned(u)
  <2>1. op[u] \in {"create", "open"} /\ ok[u] /\ h[u] # None
    BY <1>1, <1>3 DEF Holds, Owned, Phases
  <2>2. h[u] \in list[ProcOf[u]]
    BY <2>1 DEF Built
  <2>3. sm[h[u]] # None /\ sm[h[u]].proc = ProcOf[u] /\ h[u] \in Handle
    BY <2>2 DEF Registered, TypeOK
  <2> QED BY <1>1, <2>2, <2>3 DEF Owners, TypeOK
<1> QED BY <1>2, <1>3

\* A step of one thread that touches no handle of the others leaves theirs
\* marked as they were.
LEMMA MarksStay ==
  ASSUME Marks, NEW t \in Thread,
         \A u \in Thread \ {t} : pc'[u] = pc[u] /\ op'[u] = op[u] /\ h'[u] = h[u],
         \A u \in Thread \ {t} : Holds(u) => sm'[h[u]] = sm[h[u]],
         op'[t] = "open" => ~sm'[h'[t]].is_creator,
         op'[t] = "create" /\ pc'[t] \in {"enter", "push", "leave"} => sm'[h'[t]].is_creator,
         op'[t] = "destroy" /\ pc'[t] = "unlink" => sm'[h'[t]].is_creator,
         pc'[t] = "free" => ~sm'[h'[t]].is_creator
  PROVE  Marks'
BY DEF Marks, Holds

\* The names are in order as long as no handle comes or goes and none changes
\* its name, its file or its part as a creator.
LEMMA NamesStay ==
  ASSUME NInv, UNCHANGED <<ns, robbed>>, abandoned \subseteq abandoned',
         \A g \in Handle : sm'[g] = None <=> sm[g] = None,
         \A g \in Allocated : /\ sm'[g].name = sm[g].name
                             /\ sm'[g].file = sm[g].file
                             /\ (Creator(g)' <=> Creator(g))
  PROVE  OneCreator' /\ NamesKept' /\ NameOwned'
<1>1. Allocated' = Allocated
  BY DEF Allocated
<1>3. OneCreator'
  BY <1>1 DEF OneCreator, NInv
<1>4. NamesKept'
  BY <1>1 DEF NamesKept, NInv
<1>5. \A n \in Name : Creators(n)' = Creators(n)
  BY <1>1 DEF Creators, Creator
<1>6. NameOwned'
  BY <1>5 DEF NameOwned, NInv
<1> QED BY <1>3, <1>4, <1>6

\* What is mapped has memory behind it as long as no size changes and nothing
\* is mapped.
LEMMA SizesStay ==
  ASSUME NInv, UNCHANGED size,
         \A g \in Handle : sm'[g] # None /\ sm'[g].mapped =>
            sm[g] # None /\ sm[g].mapped /\ sm'[g].file = sm[g].file,
         \A u \in Thread : pc'[u] = "mmap" =>
            /\ pc[u] = "mmap" /\ h'[u] = h[u] /\ op'[u] = op[u] /\ st_size'[u] = st_size[u]
            /\ sm'[h[u]].file = sm[h[u]].file
  PROVE  Sized' /\ MappingBacked'
BY DEF NInv, Sized, MappingBacked, Allocated

LEMMA FtruncateNames ==
  ASSUME IInv, NEW t \in Thread, Ftruncate(t)
  PROVE  NInv'
<1> USE DEF IInv, RInv
<1>1. h[t] \in Handle /\ sm[h[t]] \in HandleStruct /\ op[t] = "create"
  BY Phase DEF Ftruncate, Phases
<1>2. UNCHANGED <<ns, sm, op, h, st_size, robbed, abandoned>>
  BY DEF Ftruncate, history
<1>3. \A u \in Thread \ {t} : pc'[u] = pc[u]
  BY DEF Ftruncate, Goto, TypeOK
<1>4. pc'[t] \in {"mmap", "unmap"}
  BY DEF Ftruncate, Goto, TypeOK
<1>5. Marks'
  BY <1>1, <1>2, <1>3, <1>4, MarksStay DEF NInv
<1>6. OneCreator' /\ NamesKept' /\ NameOwned'
  <2>1. \A g \in Handle : Creator(g)' <=> Creator(g)
    BY <1>2 DEF Creator
  <2> QED BY <1>2, <2>1, NamesStay DEF Allocated
<1>7. \A o \in Object : size[o] = 1 => size'[o] = 1
  BY DEF Ftruncate, TypeOK
<1>8. pc'[t] = "mmap" => size'[sm[h[t]].file] = 1
  BY <1>1 DEF Ftruncate, Goto, TypeOK, HandleStruct
<1>9. Sized'
  <2>1. \A u \in Thread : pc[u] = "mmap" => sm[h[u]] \in HandleStruct
    BY Phase
  <2> QED BY <1>2, <1>3, <1>7, <1>8, <2>1 DEF Sized, NInv, HandleStruct
<1>10. MappingBacked'
  BY <1>2, <1>7 DEF MappingBacked, NInv, Allocated, TypeOK, HandleStruct
<1> QED BY <1>5, <1>6, <1>9, <1>10 DEF NInv

LEMMA FstatNames ==
  ASSUME IInv, NEW t \in Thread, Fstat(t)
  PROVE  NInv'
<1> USE DEF IInv, RInv
<1>1. h[t] \in Handle /\ sm[h[t]] \in HandleStruct /\ op[t] = "open"
  BY Phase DEF Fstat, Phases
<1>2. UNCHANGED <<ns, size, sm, op, h, robbed, abandoned>>
  BY DEF Fstat, kernel, history
<1>3. \A u \in Thread \ {t} : pc'[u] = pc[u] /\ st_size'[u] = st_size[u]
  BY DEF Fstat, Goto, TypeOK
<1>4. pc'[t] \in {"mmap", "unmap"}
  BY DEF Fstat, Goto, TypeOK
<1>5. Marks'
  BY <1>1, <1>2, <1>3, <1>4, MarksStay DEF NInv, Marks
<1>6. OneCreator' /\ NamesKept' /\ NameOwned'
  <2>1. \A g \in Handle : Creator(g)' <=> Creator(g)
    BY <1>2 DEF Creator
  <2> QED BY <1>2, <2>1, NamesStay DEF Allocated
<1>7. pc'[t] = "mmap" => st_size'[t] = size[sm[h[t]].file]
  BY DEF Fstat, Goto, TypeOK
<1>8. size[sm[h[t]].file] \in {0, 1}
  BY <1>1 DEF TypeOK, HandleStruct
<1>9. Sized'
  BY <1>1, <1>2, <1>3, <1>7, <1>8 DEF Sized, NInv
<1>10. MappingBacked'
  BY <1>2 DEF MappingBacked, NInv, Allocated
<1> QED BY <1>5, <1>6, <1>9, <1>10 DEF NInv

\* The creator's mark replaces the call it is made by.
LEMMA MmapNames ==
  ASSUME IInv, NEW t \in Thread, Mmap(t)
  PROVE  NInv'
<1> USE DEF IInv, RInv
<1>1. Owned(t) /\ op[t] \in {"create", "open"} /\ pc[t] = "mmap"
  BY Phase DEF Mmap, Phases, TypeOK
<1>2. UNCHANGED <<ns, size, op, h, st_size, robbed, abandoned>>
  BY DEF Mmap, kernel, history
<1>3. \A u \in Thread \ {t} : pc'[u] = pc[u]
  BY DEF Mmap, Goto, TypeOK
<1>4. \A u \in Thread \ {t} : Holds(u) => sm'[h[u]] = sm[h[u]]
  BY <1>1, Holding, MmapEffect
<1>5. pc'[t] \in {"enter", "unmap"} /\ (pc'[t] = "enter" => (sm'[h[t]].is_creator <=> op[t] = "create"))
  BY MmapEffect DEF TypeOK
<1>6. op[t] = "open" => ~sm'[h[t]].is_creator
  BY MmapEffect DEF NInv, Marks
<1>7. Marks'
  BY <1>2, <1>3, <1>4, <1>5, <1>6, MarksStay DEF NInv
<1>8. OneCreator' /\ NamesKept' /\ NameOwned'
  <2>1. \A g \in Handle \ {h[t]} : Creator(g)' <=> Creator(g)
    BY <1>2, MmapEffect DEF Creator
  <2>2. Creator(h[t])' <=> Creator(h[t])
    <3>1. CASE op[t] = "create"
      BY <1>2, <3>1 DEF Creator
    <3>2. CASE op[t] = "open"
      BY <1>2, <1>6, <3>2 DEF Creator, NInv, Marks
    <3> QED BY <1>1, <3>1, <3>2
  <2>3. \A g \in Handle : /\ (sm'[g] = None <=> sm[g] = None)
                         /\ sm'[g].name = sm[g].name /\ sm'[g].file = sm[g].file
    BY ShmAssumption, MmapEffect
  <2> QED BY <1>2, <2>1, <2>2, <2>3, NamesStay DEF Allocated
<1>9. Sized'
  <2>1. pc'[t] # "mmap"
    BY <1>5
  <2>2. \A u \in Thread \ {t} : pc[u] = "mmap" => Holds(u)
    BY DEF Phases, Holds, TypeOK
  <2> QED BY <1>2, <1>3, <1>4, <2>1, <2>2 DEF Sized, NInv
<1>10. MappingBacked'
  <2>1. sm'[h[t]].mapped => sm[h[t]].mapped \/ op[t] = "create" \/ st_size[t] > 0
    BY MmapEffect
  <2>2. h[t] \in Allocated /\ h[t] \in Handle
    BY ShmAssumption, MmapEffect DEF Allocated
  <2>3. sm'[h[t]].mapped => size[sm'[h[t]].file] = 1
    BY <1>1, <2>1, <2>2, MmapEffect DEF NInv, Sized, MappingBacked
  <2>4. \A g \in Handle \ {h[t]} : sm'[g] = sm[g]
    BY MmapEffect
  <2> QED BY <1>2, <2>3, <2>4 DEF MappingBacked, NInv, Allocated
<1> QED BY <1>7, <1>8, <1>9, <1>10 DEF NInv

\* The registry's operations leave the names alone.
LEMMA RegistryNames ==
  ASSUME IInv, NEW t \in Thread, Enter(t) \/ Push(t) \/ Remove(t)
  PROVE  NInv'
<1> USE DEF IInv, RInv
<1>1. UNCHANGED <<ns, size, sm, op, h, st_size, robbed, abandoned>>
  BY DEF Enter, Push, Remove, kernel, history
<1>2. \A u \in Thread \ {t} : pc'[u] = pc[u]
  BY DEF Enter, Push, Remove, Goto, TypeOK
<1>3. pc[t] \in {"enter", "push", "remove"} /\ pc'[t] \in {"push", "remove", "leave"}
  BY DEF Enter, Push, Remove, Goto, InList, TypeOK
<1>4. op[t] = "create" => pc[t] \in {"enter", "push", "leave"}
  BY <1>3 DEF Phases
<1>5. Marks'
  BY <1>1, <1>2, <1>3, <1>4, MarksStay DEF NInv, Marks
<1>6. OneCreator' /\ NamesKept' /\ NameOwned'
  <2>1. \A g \in Handle : Creator(g)' <=> Creator(g)
    BY <1>1 DEF Creator
  <2> QED BY <1>1, <2>1, NamesStay DEF Allocated
<1>7. Sized' /\ MappingBacked'
  BY <1>1, <1>2, <1>3, SizesStay
<1> QED BY <1>5, <1>6, <1>7 DEF NInv

\* The creator that returns has its mark.
LEMMA LeaveNames ==
  ASSUME IInv, NEW t \in Thread, Leave(t)
  PROVE  NInv'
<1> USE DEF IInv, RInv
<1>1. UNCHANGED <<ns, size, sm, robbed, abandoned>> /\ pc[t] = "leave"
  BY DEF Leave, kernel, history
<1>2. \A u \in Thread \ {t} : pc'[u] = pc[u] /\ op'[u] = op[u] /\ h'[u] = h[u] /\ st_size'[u] = st_size[u]
  BY DEF Leave, Goto, Return, TypeOK
<1>3. \/ pc'[t] = "idle" /\ op'[t] = "none" /\ h'[t] = None
      \/ pc'[t] = "unmap" /\ op'[t] = op[t] /\ h'[t] = h[t]
  BY DEF Leave, Goto, Return, TypeOK
<1>4. Marks'
  BY <1>1, <1>2, <1>3, MarksStay DEF NInv, Marks
<1>5. OneCreator' /\ NamesKept' /\ NameOwned'
  <2>1. op[t] = "create" => sm[h[t]].is_creator
    BY <1>1 DEF NInv, Marks
  <2>2. ASSUME NEW g \in Handle, Creator(g) PROVE Creator(g)'
    <3>1. CASE sm[g].is_creator
      BY <1>1, <3>1 DEF Creator
    <3>2. CASE ~sm[g].is_creator
      <4>1. PICK u \in Thread : h[u] = g /\ op[u] = "create"
        BY <2>2, <3>2 DEF Creator
      <4>2. u # t
        BY <2>1, <3>2, <4>1
      <4> QED BY <1>2, <4>1, <4>2 DEF Creator
    <3> QED BY <3>1, <3>2
  <2>3. ASSUME NEW g \in Handle, Creator(g)' PROVE Creator(g)
    BY <1>1, <1>2, <1>3, <2>3 DEF Creator
  <2> QED BY <1>1, <2>2, <2>3, NamesStay DEF Allocated
<1>6. Sized' /\ MappingBacked'
  BY <1>1, <1>2, <1>3, SizesStay
<1> QED BY <1>4, <1>5, <1>6 DEF NInv

\* destroy goes on to unlink with a creator's handle and to free with any other.
LEMMA UnmapNames ==
  ASSUME IInv, NEW t \in Thread, Unmap(t)
  PROVE  NInv'
<1> USE DEF IInv, RInv
<1>1. Owned(t) /\ h[t] \in Handle /\ sm[h[t]] \in HandleStruct
  BY Phase DEF Unmap
<1>2. UNCHANGED <<ns, size, op, h, st_size, robbed, abandoned>> /\ pc[t] = "unmap"
  BY DEF Unmap, kernel, history
<1>3. \A u \in Thread \ {t} : pc'[u] = pc[u]
  BY DEF Unmap, Goto, TypeOK
<1>4. /\ \A g \in Handle \ {h[t]} : sm'[g] = sm[g]
      /\ sm'[h[t]] \in HandleStruct /\ ~sm'[h[t]].mapped
      /\ sm'[h[t]].name = sm[h[t]].name /\ sm'[h[t]].file = sm[h[t]].file
      /\ sm'[h[t]].is_creator = sm[h[t]].is_creator
  BY <1>1 DEF Unmap, TypeOK, HandleStruct
<1>5. \A u \in Thread \ {t} : Holds(u) => sm'[h[u]] = sm[h[u]]
  BY <1>1, <1>4, Holding
<1>6. /\ pc'[t] \in {"free", "unlink"}
      /\ pc'[t] = "free" => op[t] = "destroy" /\ ~sm[h[t]].is_creator
      /\ pc'[t] = "unlink" => op[t] # "destroy" \/ sm[h[t]].is_creator
  BY DEF Unmap, Goto, TypeOK
<1>7. Marks'
  BY <1>2, <1>3, <1>4, <1>5, <1>6, MarksStay DEF NInv, Marks
<1>8. OneCreator' /\ NamesKept' /\ NameOwned'
  <2>1. \A g \in Handle : sm'[g].is_creator = sm[g].is_creator
    BY <1>4
  <2>2. \A g \in Handle : Creator(g)' <=> Creator(g)
    BY <1>2, <2>1 DEF Creator
  <2>3. \A g \in Handle : /\ (sm'[g] = None <=> sm[g] = None)
                         /\ sm'[g].name = sm[g].name /\ sm'[g].file = sm[g].file
    BY ShmAssumption, <1>1, <1>4
  <2> QED BY <1>2, <2>2, <2>3, NamesStay DEF Allocated
<1>9. Sized' /\ MappingBacked'
  <2>1. \A u \in Thread : pc'[u] = "mmap" => u # t /\ Holds(u)
    BY <1>3, <1>6 DEF Phases, Holds, TypeOK
  <2>2. \A g \in Handle : sm'[g] # None /\ sm'[g].mapped =>
            sm[g] # None /\ sm[g].mapped /\ sm'[g].file = sm[g].file
    BY <1>4
  <2>3. \A u \in Thread : pc'[u] = "mmap" =>
            /\ pc[u] = "mmap" /\ h'[u] = h[u] /\ op'[u] = op[u] /\ st_size'[u] = st_size[u]
            /\ sm'[h[u]].file = sm[h[u]].file
    BY <1>2, <1>3, <1>5, <2>1
  <2> QED BY <1>2, <2>2, <2>3, SizesStay
<1> QED BY <1>7, <1>8, <1>9 DEF NInv

\* The handle that is freed takes nobody else's name with it, or the others
\* are robbed; what is not unlinked is not a creator's.
LEMMA FreeNames ==
  ASSUME IInv, NEW t \in Thread, Unlink(t) \/ Free(t)
  PROVE  NInv'
<1> USE DEF IInv, RInv
<1> DEFINE k == h[t]
           n == sm[k].name
<1>1. Owned(t) /\ k \in Handle /\ sm[k] \in HandleStruct /\ k \in Allocated
  BY ShmAssumption, Phase DEF Unlink, Free, Allocated
<1>2. /\ UNCHANGED <<size, abandoned>> /\ sm' = [sm EXCEPT ![k] = None]
      /\ pc[t] \in {"unlink", "free"}
      /\ robbed \ {k} \subseteq robbed'
      /\ \A u \in Thread \ {t} :
            pc'[u] = pc[u] /\ op'[u] = op[u] /\ h'[u] = h[u] /\ st_size'[u] = st_size[u]
      /\ pc'[t] = "idle" /\ op'[t] = "none" /\ h'[t] = None
  BY DEF Unlink, Free, Return, kernel, TypeOK
<1>3. sm'[k] = None /\ \A g \in Handle \ {k} : sm'[g] = sm[g]
  BY <1>1, <1>2 DEF TypeOK
<1>4. Allocated' = Allocated \ {k}
  BY <1>1, <1>3 DEF Allocated
<1>5. \A u \in Thread \ {t} : Holds(u) => h[u] \in Handle /\ sm'[h[u]] = sm[h[u]]
  BY <1>1, <1>3, Holding
<1>6. Marks'
  BY <1>2, <1>5, MarksStay DEF NInv
<1>7. ASSUME NEW g \in Handle \ {k} PROVE Creator(g)' <=> Creator(g)
  <2>1. sm'[g].is_creator = sm[g].is_creator /\ g # None
    BY ShmAssumption, <1>3
  <2>2. \A u \in Thread : (h'[u] = g /\ op'[u] = "create") <=> (h[u] = g /\ op[u] = "create")
    BY <1>2, <2>1
  <2> QED BY <2>1, <2>2 DEF Creator
<1>8. OneCreator'
  BY <1>3, <1>4, <1>7 DEF OneCreator, NInv, Allocated
<1>9. Sized' /\ MappingBacked'
  <2>1. \A u \in Thread : pc'[u] = "mmap" =>
            /\ pc[u] = "mmap" /\ h'[u] = h[u] /\ op'[u] = op[u] /\ st_size'[u] = st_size[u]
            /\ u # t /\ Holds(u)
    BY <1>2 DEF Phases, Holds, TypeOK
  <2>2. \A g \in Handle : sm'[g] # None /\ sm'[g].mapped =>
            sm[g] # None /\ sm[g].mapped /\ sm'[g].file = sm[g].file
    BY <1>3
  <2> QED BY <1>2, <1>5, <2>1, <2>2, SizesStay
<1>10. CASE Unlink(t)
  <2>1. /\ ns' = [ns EXCEPT ![n] = None] /\ n \in Name /\ pc[t] = "unlink"
        /\ op[t] = "open" \/ k \in robbed => robbed' = (robbed \cup Creators(n)) \ {k}
    BY <1>1, <1>10 DEF Unlink, HandleStruct
  <2>2. ns'[n] = None /\ \A m \in Name \ {n} : ns'[m] = ns[m]
    BY <2>1 DEF TypeOK
  <2>3. \A m \in Name : sm[k].name # m => Creators(m) \subseteq Creators(m)'
    <3>1. ASSUME NEW m \in Name \ {n}, NEW g \in Creators(m) PROVE g \in Creators(m)'
      <4>1. /\ g \in Allocated /\ g \in Handle /\ sm[g].name = m /\ sm[g].file = ns[m]
            /\ Creator(g) /\ g # k
        BY <3>1 DEF Creators, Creator, Allocated
      <4>2. g \in Allocated' /\ sm'[g] = sm[g] /\ Creator(g)'
        BY <1>3, <1>4, <1>7, <4>1
      <4> QED BY <2>2, <4>1, <4>2 DEF Creators, Creator
    <3> QED BY <3>1
  <2>4. NameOwned'
    BY <1>2, <2>2, <2>3 DEF NameOwned, NInv
  <2>5. NamesKept'
    <3> SUFFICES ASSUME NEW g \in Allocated', g \notin robbed', Creator(g)'
                 PROVE  ns'[sm'[g].name] = sm'[g].file
      BY DEF NamesKept
    <3>1. /\ g \in Allocated /\ g \in Handle /\ g # k /\ sm'[g] = sm[g] /\ Creator(g)
          /\ g \notin robbed /\ sm[g] \in HandleStruct
      BY <1>2, <1>3, <1>4, <1>7 DEF Allocated, TypeOK
    <3>2. ns[sm[g].name] = sm[g].file /\ sm[g].name \in Name
      BY <3>1 DEF NInv, NamesKept, HandleStruct
    <3>3. sm[g].name # n
      <4> SUFFICES ASSUME sm[g].name = n PROVE FALSE
        OBVIOUS
      <4>1. g \in Creators(n)
        BY <3>1, <3>2 DEF Creators, Creator
      <4>2. op[t] # "open" /\ k \notin robbed
        BY <2>1, <3>1, <4>1
      <4>3. Creator(k)
        BY <1>2, <2>1, <4>2 DEF Creator, NInv, Marks, TypeOK, Phases
      <4>4. ns[n] = sm[k].file
        BY <1>1, <4>2, <4>3 DEF NInv, NamesKept
      <4> QED BY <1>1, <3>1, <3>2, <4>3, <4>4 DEF NInv, OneCreator
    <3> QED BY <2>2, <3>1, <3>2, <3>3
  <2> QED BY <2>4, <2>5, <1>6, <1>8, <1>9 DEF NInv
<1>11. CASE Free(t)
  <2>1. UNCHANGED ns /\ pc[t] = "free"
    BY <1>11 DEF Free, kernel
  <2>2. ~Creator(k)
    <3>1. ~sm[k].is_creator
      BY <2>1 DEF NInv, Marks
    <3>2. op[t] # "create"
      BY <2>1 DEF Phases
    <3>3. \A u \in Thread \ {t} : op[u] = "create" => h[u] # k
      BY <1>1, Holding DEF Holds
    <3> QED BY <3>1, <3>2, <3>3 DEF Creator
  <2>3. \A m \in Name : Creators(m) \subseteq Creators(m)'
    <3>1. ASSUME NEW m \in Name, NEW g \in Creators(m) PROVE g \in Creators(m)'
      <4>1. /\ g \in Allocated /\ g \in Handle /\ sm[g].name = m /\ sm[g].file = ns[m]
            /\ Creator(g)
        BY <3>1 DEF Creators, Creator, Allocated
      <4>2. g \in Allocated' /\ sm'[g] = sm[g] /\ Creator(g)'
        BY <1>3, <1>4, <1>7, <2>2, <4>1
      <4> QED BY <2>1, <4>1, <4>2 DEF Creators, Creator
    <3> QED BY <3>1
  <2>4. NameOwned'
    BY <1>2, <2>1, <2>3 DEF NameOwned, NInv
  <2>5. NamesKept'
    BY <1>2, <1>3, <1>4, <1>7, <2>1 DEF NamesKept, NInv, Allocated
  <2> QED BY <2>4, <2>5, <1>6, <1>8, <1>9 DEF NInv
<1> QED BY <1>10, <1>11

\* The name a creator takes leads nowhere and its object is nobody's: it robs
\* no one, and no one robs it.
LEMMA CreateNames ==
  ASSUME IInv, NEW t \in Thread, NEW n \in Name, sky_share_memory_create(t, n)
  PROVE  NInv'
<1> USE DEF IInv, RInv
<1>1. PICK g \in Handle \ Allocated, o \in Object :
         /\ ns[n] = None /\ ~InUse(o) /\ Begin(t, "create", g, "ftruncate")
         /\ ns' = [ns EXCEPT ![n] = o] /\ size' = [size EXCEPT ![o] = 0]
         /\ sm' = [sm EXCEPT ![g] = Fresh(t, n, o)]
  BY DEF sky_share_memory_create
<1>2. g \in Handle /\ sm[g] = None /\ g \notin Allocated
  BY DEF Allocated
<1>3. /\ UNCHANGED <<st_size, robbed, abandoned>> /\ pc[t] = "idle"
      /\ pc'[t] = "ftruncate" /\ op'[t] = "create" /\ h'[t] = g
      /\ \A u \in Thread \ {t} : pc'[u] = pc[u] /\ op'[u] = op[u] /\ h'[u] = h[u]
  BY <1>1 DEF Begin, history, TypeOK
<1>4. /\ sm'[g] = Fresh(t, n, o) /\ Fresh(t, n, o) # None
      /\ \A k \in Handle \ {g} : sm'[k] = sm[k]
  <2>1. Fresh(t, n, o) \in HandleStruct
    BY ShmAssumption DEF Fresh, HandleStruct
  <2> QED BY ShmAssumption, <1>1, <1>2, <2>1 DEF TypeOK
<1>5. Allocated' = Allocated \cup {g}
  BY <1>2, <1>4 DEF Allocated
<1>6. sm'[g].name = n /\ sm'[g].file = o /\ ~sm'[g].mapped
  BY <1>4 DEF Fresh
<1>7. \A u \in Thread : Holds(u) => h[u] \in Handle /\ h[u] \in Allocated /\ h[u] # g
  BY ShmAssumption, <1>2, Holding DEF Allocated
<1>8. Marks'
  <2>1. \A u \in Thread \ {t} : Holds(u) => sm'[h[u]] = sm[h[u]]
    BY <1>4, <1>7
  <2> QED BY <1>3, <2>1, MarksStay DEF NInv
<1>9. \A k \in Allocated : sm'[k] = sm[k] /\ k # g /\ (Creator(k)' <=> Creator(k))
  <2> SUFFICES ASSUME NEW k \in Allocated
               PROVE  sm'[k] = sm[k] /\ k # g /\ (Creator(k)' <=> Creator(k))
    OBVIOUS
  <2>1. k # g /\ sm'[k] = sm[k]
    BY <1>2, <1>4 DEF Allocated
  <2>2. op[t] # "create"
    BY <1>3 DEF Phases
  <2>3. \A u \in Thread : (h'[u] = k /\ op'[u] = "create") <=> (h[u] = k /\ op[u] = "create")
    BY <1>3, <2>1, <2>2
  <2> QED BY <2>1, <2>3 DEF Creator
<1>10. \A k \in Allocated : sm[k].file # o
  BY <1>1 DEF InUse
<1>11. OneCreator'
  BY <1>5, <1>6, <1>9, <1>10 DEF OneCreator, NInv
<1>12. ns'[n] = o /\ \A m \in Name \ {n} : ns'[m] = ns[m]
  BY <1>1 DEF TypeOK
<1>13. NamesKept'
  <2> SUFFICES ASSUME NEW k \in Allocated', k \notin robbed', Creator(k)'
               PROVE  ns'[sm'[k].name] = sm'[k].file
    BY DEF NamesKept
  <2>1. CASE k = g
    BY <1>6, <1>12, <2>1
  <2>2. CASE k # g
    <3>1. k \in Allocated /\ k \notin robbed /\ Creator(k) /\ sm'[k] = sm[k]
      BY <1>3, <1>5, <1>9, <2>2
    <3>2. sm[k] \in HandleStruct
      BY <3>1 DEF Allocated, TypeOK
    <3>3. ns[sm[k].name] = sm[k].file /\ sm[k].file # None /\ sm[k].name \in Name
      BY ShmAssumption, <3>1, <3>2 DEF NInv, NamesKept, HandleStruct
    <3> QED BY <1>1, <1>12, <3>1, <3>3
  <2> QED BY <2>1, <2>2
<1>14. NameOwned'
  <2>1. Creator(g)'
    BY <1>3 DEF Creator
  <2>2. g \in Creators(n)'
    BY <1>5, <1>6, <1>12, <2>1 DEF Creators, Creator
  <2>3. \A m \in Name \ {n} : Creators(m) \subseteq Creators(m)'
    BY <1>5, <1>9, <1>12 DEF Creators, Creator
  <2> QED BY <1>3, <1>12, <2>2, <2>3 DEF NameOwned, NInv
<1>15. \A q \in Object \ {o} : size'[q] = size[q]
  BY <1>1 DEF TypeOK
<1>16. \A k \in Allocated : size'[sm[k].file] = size[sm[k].file]
  BY <1>10, <1>15 DEF Allocated, TypeOK, HandleStruct
<1>17. Sized'
  <2>1. \A u \in Thread : pc'[u] = "mmap" => u # t /\ Holds(u)
    BY <1>3 DEF Phases, Holds, TypeOK
  <2> QED BY <1>3, <1>7, <1>9, <1>16, <2>1 DEF Sized, NInv
<1>18. MappingBacked'
  BY <1>5, <1>6, <1>9, <1>16 DEF MappingBacked, NInv
<1> QED BY <1>8, <1>11, <1>13, <1>14, <1>17, <1>18 DEF NInv

\* A handle that is opened is no creator.
LEMMA OpenNames ==
  ASSUME IInv, NEW t \in Thread, NEW n \in Name, sky_share_memory_open(t, n)
  PROVE  NInv'
<1> USE DEF IInv, RInv
<1>1. PICK g \in Handle \ Allocated :
         /\ ns[n] # None /\ Begin(t, "open", g, "fstat")
         /\ sm' = [sm EXCEPT ![g] = Fresh(t, n, ns[n])] /\ UNCHANGED <<ns, size>>
  BY DEF sky_share_memory_open, kernel
<1>2. g \in Handle /\ sm[g] = None /\ g \notin Allocated
  BY DEF Allocated
<1>3. /\ UNCHANGED <<st_size, robbed, abandoned>> /\ pc[t] = "idle"
      /\ pc'[t] = "fstat" /\ op'[t] = "open" /\ h'[t] = g
      /\ \A u \in Thread \ {t} : pc'[u] = pc[u] /\ op'[u] = op[u] /\ h'[u] = h[u]
  BY <1>1 DEF Begin, history, TypeOK
<1>4. /\ sm'[g] = Fresh(t, n, ns[n]) /\ Fresh(t, n, ns[n]) # None
      /\ \A k \in Handle \ {g} : sm'[k] = sm[k]
  <2>1. ns[n] \in Object
    BY <1>1 DEF TypeOK
  <2>2. Fresh(t, n, ns[n]) \in HandleStruct
    BY ShmAssumption, <2>1 DEF Fresh, HandleStruct
  <2> QED BY ShmAssumption, <1>1, <1>2, <2>2 DEF TypeOK
<1>5. Allocated' = Allocated \cup {g}
  BY <1>2, <1>4 DEF Allocated
<1>6. ~sm'[g].is_creator /\ ~sm'[g].mapped
  BY <1>4 DEF Fresh
<1>7. \A u \in Thread : Holds(u) => h[u] \in Handle /\ h[u] \in Allocated /\ h[u] # g
  BY ShmAssumption, <1>2, Holding DEF Allocated
<1>8. Marks'
  <2>1. \A u \in Thread \ {t} : Holds(u) => sm'[h[u]] = sm[h[u]]
    BY <1>4, <1>7
  <2> QED BY <1>3, <1>6, <2>1, MarksStay DEF NInv
<1>9. \A k \in Allocated : sm'[k] = sm[k] /\ k # g /\ (Creator(k)' <=> Creator(k))
  <2> SUFFICES ASSUME NEW k \in Allocated
               PROVE  sm'[k] = sm[k] /\ k # g /\ (Creator(k)' <=> Creator(k))
    OBVIOUS
  <2>1. k # g /\ sm'[k] = sm[k]
    BY <1>2, <1>4 DEF Allocated
  <2>2. op[t] # "create"
    BY <1>3 DEF Phases
  <2>3. \A u \in Thread : (h'[u] = k /\ op'[u] = "create") <=> (h[u] = k /\ op[u] = "create")
    BY <1>3, <2>1, <2>2
  <2> QED BY <2>1, <2>3 DEF Creator
<1>10. ~Creator(g)'
  BY <1>3, <1>6, <1>7 DEF Creator, Holds
<1>11. OneCreator' /\ NamesKept'
  BY <1>1, <1>3, <1>5, <1>9, <1>10 DEF OneCreator, NamesKept, NInv
<1>12. NameOwned'
  <2>1. \A m \in Name : Creators(m) \subseteq Creators(m)'
    BY <1>1, <1>5, <1>9 DEF Creators, Creator
  <2> QED BY <1>1, <1>3, <2>1 DEF NameOwned, NInv
<1>13. Sized'
  <2>1. \A u \in Thread : pc'[u] = "mmap" => u # t /\ Holds(u)
    BY <1>3 DEF Phases, Holds, TypeOK
  <2> QED BY <1>1, <1>3, <1>7, <1>9, <2>1 DEF Sized, NInv
<1>14. MappingBacked'
  BY <1>1, <1>5, <1>6, <1>9 DEF MappingBacked, NInv
<1> QED BY <1>8, <1>11, <1>12, <1>13, <1>14 DEF NInv

LEMMA DestroyNames ==
  ASSUME IInv, NEW t \in Thread, NEW g \in Handle, sky_share_memory_destroy(t, g)
  PROVE  NInv'
<1> USE DEF IInv, RInv
<1>1. UNCHANGED <<ns, size, sm, st_size, robbed, abandoned>> /\ pc[t] = "idle"
  BY DEF sky_share_memory_destroy, Begin, kernel, history
<1>2. /\ pc'[t] = "enter" /\ op'[t] = "destroy" /\ op[t] # "create"
      /\ \A u \in Thread \ {t} : pc'[u] = pc[u] /\ op'[u] = op[u] /\ h'[u] = h[u]
  BY DEF sky_share_memory_destroy, Begin, Phases, TypeOK
<1>3. Marks'
  BY <1>1, <1>2, MarksStay DEF NInv
<1>4. OneCreator' /\ NamesKept' /\ NameOwned'
  <2>1. \A k \in Handle : Creator(k)' <=> Creator(k)
    <3>1. \A k \in Handle, u \in Thread :
             (h'[u] = k /\ op'[u] = "create") <=> (h[u] = k /\ op[u] = "create")
      BY <1>2
    <3> QED BY <1>1, <3>1 DEF Creator
  <2> QED BY <1>1, <2>1, NamesStay DEF Allocated
<1>5. Sized' /\ MappingBacked'
  BY <1>1, <1>2, SizesStay
<1> QED BY <1>3, <1>4, <1>5 DEF NInv

\* What a process leaves behind when it ends or drops its registry counts as
\* abandoned.
LEMMA ProcessNames ==
  ASSUME IInv, NEW p \in Proc,
         sky_share_memory_init(p) \/ sky_share_memory_uninit(p) \/ Exit(p)
  PROVE  NInv'
<1> USE DEF IInv, RInv
<1>1. CASE sky_share_memory_init(p) \/ sky_share_memory_uninit(p)
  <2>1. UNCHANGED <<ns, size, sm, pc, op, h, st_size, robbed>> /\ abandoned \subseteq abandoned'
    BY <1>1 DEF sky_share_memory_init, sky_share_memory_uninit, kernel, locals, history
  <2>2. Marks'
    BY <2>1 DEF NInv, Marks
  <2>3. \A g \in Handle : Creator(g)' <=> Creator(g)
    BY <2>1 DEF Creator
  <2>4. OneCreator' /\ NamesKept' /\ NameOwned'
    BY <2>1, <2>3, NamesStay DEF Allocated
  <2>5. Sized' /\ MappingBacked'
    BY <2>1, SizesStay
  <2> QED BY <2>2, <2>4, <2>5 DEF NInv
<1>2. CASE Exit(p)
  <2>1. /\ UNCHANGED <<ns, size>> /\ abandoned' = abandoned \cup Lost(p)
        /\ robbed' = robbed \ Mine(p)
        /\ sm' = [g \in Handle |-> IF g \in Mine(p) THEN None ELSE sm[g]]
    BY <1>2 DEF Exit, kernel
  <2>2. \A u \in Thread :
           IF ProcOf[u] = p
           THEN pc'[u] = "idle" /\ op'[u] = "none" /\ h'[u] = None
           ELSE pc'[u] = pc[u] /\ op'[u] = op[u] /\ h'[u] = h[u] /\ st_size'[u] = st_size[u]
    BY <1>2 DEF Exit
  <2>3. Allocated' = Allocated \ Mine(p)
    BY <2>1 DEF Allocated, Mine
  <2>4. \A g \in Allocated \ Mine(p) : sm'[g] = sm[g] /\ g \in Handle
    BY <2>1 DEF Allocated
  <2>5. \A u \in Thread : Holds(u) => h[u] \in Handle /\ h[u] \in Allocated /\ sm[h[u]].proc = ProcOf[u]
    BY ShmAssumption, Holding DEF Allocated
  <2>6. \A u \in Thread : Holds(u) /\ ProcOf[u] # p => h[u] \in Allocated \ Mine(p)
    BY <2>5 DEF Mine
  <2>7. \A g \in Allocated \ Mine(p) : Creator(g)' <=> Creator(g)
    <3> SUFFICES ASSUME NEW g \in Allocated \ Mine(p) PROVE Creator(g)' <=> Creator(g)
      OBVIOUS
    <3>1. \A u \in Thread : h[u] = g /\ op[u] = "create" => ProcOf[u] # p
      BY <2>5 DEF Holds, Mine
    <3>2. \A u \in Thread : (h'[u] = g /\ op'[u] = "create") <=> (h[u] = g /\ op[u] = "create")
      BY <2>2, <3>1
    <3> QED BY <2>4, <3>2 DEF Creator
  <2>8. Marks'
    <3>1. \A u \in Thread : ProcOf[u] # p /\ Holds(u) => sm'[h[u]] = sm[h[u]]
      BY <2>4, <2>6
    <3> QED BY <2>2, <3>1 DEF Marks, NInv, Holds
  <2>9. OneCreator' /\ NamesKept'
    BY <2>1, <2>3, <2>4, <2>7 DEF OneCreator, NamesKept, NInv
  <2>10. NameOwned'
    <3> SUFFICES ASSUME NEW n \in Name, ns[n] # None, ns[n] \notin abandoned'
                 PROVE  Creators(n)' # {}
      BY <2>1 DEF NameOwned
    <3>1. PICK g \in Creators(n) : TRUE
      BY <2>1 DEF NameOwned, NInv
    <3>2. g \in Allocated /\ sm[g].file = ns[n] /\ sm[g].name = n /\ Creator(g)
      BY <3>1 DEF Creators, Creator
    <3>3. g \in Allocated \ Mine(p)
      BY <2>1, <3>2 DEF Lost
    <3>4. g \in Creators(n)'
      BY <2>1, <2>3, <2>4, <2>7, <3>2, <3>3 DEF Creators, Creator
    <3> QED BY <3>4
  <2>11. Sized' /\ MappingBacked'
    <3>1. \A u \in Thread : pc'[u] = "mmap" =>
            /\ pc[u] = "mmap" /\ h'[u] = h[u] /\ op'[u] = op[u] /\ st_size'[u] = st_size[u]
            /\ ProcOf[u] # p /\ Holds(u)
      BY <2>2 DEF Phases, Holds, TypeOK
    <3>2. \A u \in Thread : pc'[u] = "mmap" => sm'[h[u]].file = sm[h[u]].file
      BY <2>4, <2>6, <3>1
    <3>3. \A g \in Handle : sm'[g] # None => sm'[g] = sm[g]
      BY <2>1
    <3> QED BY <2>1, <3>1, <3>2, <3>3, SizesStay
  <2> QED BY <2>8, <2>9, <2>10, <2>11 DEF NInv
<1> QED BY <1>1, <1>2

LEMMA StutterNames ==
  ASSUME IInv, UNCHANGED vars
  PROVE  NInv'
<1>1. UNCHANGED <<ns, size, sm, pc, op, h, st_size, robbed, abandoned>>
  BY DEF vars, kernel, locals, history
<1>2. \A g \in Handle : Creator(g)' <=> Creator(g)
  BY <1>1 DEF Creator
<1>3. OneCreator' /\ NamesKept' /\ NameOwned'
  BY <1>1, <1>2, NamesStay DEF Allocated, IInv
<1> QED BY <1>1, <1>3 DEF IInv, NInv, Marks, Sized, MappingBacked, Allocated

LEMMA NextInv == IInv /\ [Next]_vars => IInv'
<1> SUFFICES ASSUME IInv, [Next]_vars PROVE IInv'
  OBVIOUS
<1>1. RInv'
  BY NextRInv DEF IInv
<1>2. ASSUME NEW t \in Thread, Call(t) \/ Step(t) PROVE NInv'
  BY <1>2, CreateNames, OpenNames, DestroyNames, FtruncateNames, FstatNames, MmapNames,
     RegistryNames, LeaveNames, UnmapNames, FreeNames DEF Call, Step
<1>3. ASSUME NEW p \in Proc,
             sky_share_memory_init(p) \/ sky_share_memory_uninit(p) \/ Exit(p)
      PROVE  NInv'
  BY <1>3, ProcessNames
<1> QED BY <1>1, <1>2, <1>3, StutterNames DEF Next, IInv

LEMMA InvHolds == Spec => []IInv
BY InitInv, NextInv, PTL DEF Spec
----------------------------------------------------------------------------
(* The theorems *)

\* Every variable has its type, whatever the processes do and wherever they
\* end.
THEOREM TypesKept == Spec => []TypeOK
<1>1. IInv => TypeOK
  BY DEF IInv, RInv
<1> QED BY InvHolds, <1>1, PTL

\* A handle found in share_mem_list is open, mapped, the process's own and not
\* being taken down: it is pushed as the last step of create and open and
\* removed as the first of destroy (sky_ipc_shm.c:146, 260, 311).
THEOREM RegistryWhole == Spec => []RegistryLive
<1>1. IInv => RegistryLive
  <2> SUFFICES ASSUME IInv, NEW p \in Proc, NEW g \in list[p]
               PROVE  /\ sm[g] # None /\ sm[g].proc = p /\ sm[g].open /\ sm[g].mapped
                      /\ \A t \in Thread : Owned(t) => h[t] # g
    BY DEF RegistryLive, IInv, RInv
  <2> QED BY DEF IInv, RInv, Registered, Owners
<1> QED BY InvHolds, <1>1, PTL

\* However often, and from however many threads, a handle is closed, one close
\* only takes it down (sky_ipc_shm.c:311).
THEOREM HandlesTakenDownOnce == Spec => []TeardownExclusive
<1>1. IInv => TeardownExclusive
  BY DEF IInv, RInv, Owners, TeardownExclusive
<1> QED BY InvHolds, <1>1, PTL

\* share_mem_list_cs keeps the operations on a process's registry apart
\* (sky_ipc_shm.c:145, 259, 310).
THEOREM RegistryGuarded == Spec => []RegistryLocked
<1>1. IInv => RegistryLocked
  BY DEF IInv, RInv, Inside, RegistryLocked
<1> QED BY InvHolds, <1>1, PTL

\* open never maps an object that its creator has not sized yet: fstat then
\* gives the length zero and mmap fails (sky_ipc_shm.c:230, 239).
THEOREM MappingsHaveMemory == Spec => []MappingBacked
<1>1. IInv => MappingBacked
  BY DEF IInv, NInv
<1> QED BY InvHolds, <1>1, PTL

\* Only a failed open (sky_ipc_shm.c:280), or the close of a creator that had
\* lost its name to one (319), takes a living creator's name away.
THEOREM NamesNotTaken == Spec => []CreatorKeepsName
<1>1. IInv => CreatorKeepsName
  BY DEF IInv, NInv, NamesKept, Creator, CreatorKeepsName
<1> QED BY InvHolds, <1>1, PTL

\* A name that exists has a creator left to unlink it (sky_ipc_shm.c:166, 319),
\* or outlived the process or the registry of the one that should have.
THEOREM NamesHaveOwners == Spec => []NameOwned
<1>1. IInv => NameOwned
  BY DEF IInv, NInv
<1> QED BY InvHolds, <1>1, PTL
=============================================================================
