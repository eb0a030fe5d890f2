--------------------------- MODULE SkyRwlockSpec ---------------------------
(* What a readers-writer lock promises, whichever way sky_rwlock.c makes it: *)
(* clients that refer to the same lock share it as readers or have it alone  *)
(* as writer.  A client may give its lock up at any time, also by asking for *)
(* the other mode, and several clients may come or go at once.               *)
CONSTANTS Client, LockId, None

VARIABLES on,    \* the lock a client refers to
          mode   \* what it has of it: "none", "sh" or "ex"

vars == <<on, mode>>

Init == on = [c \in Client |-> None] /\ mode = [c \in Client |-> "none"]

Attach(new) == /\ \A c \in new : on[c] = None
               /\ \E l \in LockId : on' = [c \in Client |-> IF c \in new THEN l ELSE on[c]]
               /\ UNCHANGED mode

Detach(old) == /\ on' = [c \in Client |-> IF c \in old THEN None ELSE on[c]]
               /\ mode' = [c \in Client |-> IF c \in old THEN "none" ELSE mode[c]]

\* Nobody else has this lock, or everybody reads.
Free(c, m) == \A d \in Client \ {c} :
                 on[d] = on[c] => mode[d] = "none" \/ (mode[d] = "sh" /\ m = "sh")

Take(c, m) == /\ on[c] # None /\ Free(c, m)
              /\ mode' = [mode EXCEPT ![c] = m]
              /\ UNCHANGED on

GiveUp(c) == mode' = [mode EXCEPT ![c] = "none"] /\ UNCHANGED on

Next == \/ \E c \in Client : GiveUp(c) \/ \E m \in {"sh", "ex"} : Take(c, m)
        \/ \E some \in SUBSET Client : Attach(some) \/ Detach(some)

Spec == Init /\ [][Next]_vars
=============================================================================
