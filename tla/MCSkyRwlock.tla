---------------------------- MODULE MCSkyRwlock ----------------------------
(* SkyRwlock with a clock of a few ticks that wraps during the calls.        *)
EXTENDS SkyRwlock, TLC

CONSTANTS t1, t2, g1, g2, g3, i1, i2

Symmetry == Permutations({t1, t2}) \cup Permutations({g1, g2, g3}) \cup Permutations({i1, i2})
=============================================================================
