------------------------------ MODULE MCSkyMap ------------------------------
(* SkyMap with two handles, two keys and two values, one pair of which the   *)
(* filter rejects.                                                           *)
EXTENDS SkyMap, TLC

CONSTANTS m1, m2, k1, k2, a, b

Keys == {k1, k2}
Values == {a, b}
Symmetry == Permutations({m1, m2})
MostPairs == (Keys \X Values) \ {<<k2, b>>}

\* Two maps that exist, or are about to, have one value between them: what the
\* second value is for, updates and the filter, is about one map.
OneMapOrValue == \/ Open # Map /\ pc \notin {"clone", "clonevector"}
                 \/ b \notin {str[x] : x \in Block} /\ call.value # b
=============================================================================
