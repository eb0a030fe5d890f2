------------------------------ MODULE MCSkyShm ------------------------------
(* SkyShm with two processes, one of them with two threads.                  *)
EXTENDS SkyShm, TLC

CONSTANTS p1, p2, t1, t2, t3, o1, o2, g1, g2

Threads == {t1, t2, t3}
TwoProcesses == [t \in Threads |-> IF t = t3 THEN p2 ELSE p1]
Symmetry == Permutations({o1, o2}) \cup Permutations({g1, g2}) \cup Permutations({t1, t2})
=============================================================================
