---------------------------- MODULE MCSkyHandle ----------------------------
(* SkyHandle with two objects of any kind; the address of a map's keys has   *)
(* the bits of a list's type, of a map's type or of no type.                 *)
EXTENDS SkyHandle

CONSTANTS a1, a2
=============================================================================
