----------------------------- MODULE MCSkyList -----------------------------
(* SkyList on a small heap.                                                  *)
EXTENDS SkyList

CONSTANTS n1, n2, n3, a

Nodes == {n1, n2, n3}
Values == {a, NULL}
=============================================================================
