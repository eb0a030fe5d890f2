----------------------------- MODULE MCSkyTime -----------------------------
(* The calendar by itself, where there is a summer time, for what sky_sys.h  *)
(* says of dstflag.  MCSkyData checks the rest.                              *)
EXTENDS SkyTime

Berlin == {[west |-> -3600, summer |-> TRUE]}
=============================================================================
