---------------------------- MODULE SkyHashSpec ----------------------------
(* What the table of sky_hash.c promises its caller: a map that remembers    *)
(* the last value added under every key until it is destroyed.  An add may   *)
(* be refused, which changes nothing; nothing else takes a key away.         *)
CONSTANTS Key, Value, None

VARIABLES live,    \* is there a table?
          map,     \* the value of each key, None where there is none
          answer   \* of the last call

vars == <<live, map, answer>>

Empty == [k \in Key |-> None]

Init == live = FALSE /\ map = Empty /\ answer = None

Create == ~live /\ live' = TRUE /\ answer' = None /\ UNCHANGED map

Destroy == live /\ live' = FALSE /\ map' = Empty /\ answer' = None

Add(k, v) == /\ live /\ map' = [map EXCEPT ![k] = v]
             /\ answer' = "added" /\ UNCHANGED live

\* Only a key that is new can be refused.
Refuse(k) == live /\ map[k] = None /\ answer' = "refused" /\ UNCHANGED <<live, map>>

Find(k) == live /\ answer' = map[k] /\ UNCHANGED <<live, map>>

Next == \/ Create \/ Destroy
        \/ \E k \in Key : Refuse(k) \/ Find(k) \/ \E v \in Value : Add(k, v)

Spec == Init /\ [][Next]_vars
=============================================================================
