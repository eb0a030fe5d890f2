------------------------------- MODULE SkyHex -------------------------------
(* src/sky/src/sky_str.c: a caller turns octets into hexadecimal digits and  *)
(* back.  A char of the caller's is an octet, from 0 to 255; whether C takes *)
(* it for a number below zero is up to the machine (CharSigned).  A step is  *)
(* one round of a loop.                                                      *)
EXTENDS Integers, Sequences

CONSTANTS Octet,       \* bound: the octets callers convert
          MaxLength,   \* bound: of their strings
          CharSigned   \* x86: TRUE, ARM: FALSE

HexAssumption ==
    Octet \subseteq 0..255 /\ MaxLength \in Nat /\ CharSigned \in BOOLEAN

VARIABLES
    pc, i,        \* the call and its loop index
    str, hex,     \* the caller's octets, the digits made of them
    back,         \* the octets made of the digits
    str_len,      \* the room for these that the caller states
    overrun       \* has a call written behind a buffer?

vars == <<pc, i, str, hex, back, str_len, overrun>>

Init == /\ pc = "start" /\ i = 0 /\ str = <<>> /\ hex = <<>> /\ back = <<>>
        /\ str_len = 0 /\ overrun = FALSE
----------------------------------------------------------------------------
\* What sprintf makes of "%02x" and a char that is promoted to int: two digits,
\* or eight that begin with ff.
Negative(c) == CharSigned /\ c >= 128
Printed(c) == IF Negative(c) THEN <<15, 15, 15, 15, 15, 15, c \div 16, c % 16>>
                             ELSE <<c \div 16, c % 16>>

\* With room for the digits, hex_len >= 2 * str_len; otherwise nothing happens.
sky_str_to_hex ==
    /\ pc = "start"
    /\ \E n \in 1..MaxLength : str' \in [1..n -> Octet]
    /\ pc' = "to_hex"
    /\ UNCHANGED <<i, hex, back, str_len, overrun>>

\* The first two digits of what was printed into a buffer of four.
FirstTwo(c) == SubSeq(Printed(c), 1, 2)

ToHexNext ==
    /\ pc = "to_hex" /\ i < Len(str)
    /\ hex' = hex \o FirstTwo(str[i + 1])
    /\ overrun' = (overrun \/ Len(Printed(str[i + 1])) + 1 > 4)
    /\ i' = i + 1
    /\ UNCHANGED <<pc, str, back, str_len>>

ToHexReturn ==
    /\ pc = "to_hex" /\ i = Len(str)
    /\ pc' = "hex" /\ i' = 0
    /\ UNCHANGED <<str, hex, back, str_len, overrun>>

\* The room the caller states must not be larger than the digits need.
sky_str_from_hex ==
    /\ pc = "hex"
    /\ \E len \in 0..MaxLength :
          /\ len * 2 <= Len(hex)
          /\ str_len' = len
    /\ pc' = "from_hex"
    /\ UNCHANGED <<i, str, hex, back, overrun>>

FromHexNext ==
    /\ pc = "from_hex" /\ i < Len(hex)
    /\ back' = back \o <<hex[i + 1] * 16 + hex[i + 2]>>
    /\ overrun' = (overrun \/ Len(back') > str_len)
    /\ i' = i + 2
    /\ UNCHANGED <<pc, str, hex, str_len>>

FromHexReturn ==
    /\ pc = "from_hex" /\ i >= Len(hex)
    /\ pc' = "done"
    /\ UNCHANGED <<i, str, hex, back, str_len, overrun>>

Forget == /\ pc = "done"
          /\ pc' = "start" /\ i' = 0 /\ str' = <<>> /\ hex' = <<>> /\ back' = <<>>
          /\ str_len' = 0 /\ overrun' = FALSE

Next == \/ sky_str_to_hex \/ ToHexNext \/ ToHexReturn
        \/ sky_str_from_hex \/ FromHexNext \/ FromHexReturn \/ Forget

Spec == Init /\ [][Next]_vars
----------------------------------------------------------------------------
(* Properties *)

Plain == \A k \in 1..Len(str) : ~Negative(str[k])

\* The digits are turned back into the octets they were made of, if no octet
\* is a negative char.
RoundTrip == pc = "done" /\ Plain => back = str

\* No call writes behind a buffer, if no octet is a negative char and the
\* caller of from_hex states just the room that the digits need.
InsideBuffers ==
    overrun => ~Plain \/ (pc \in {"from_hex", "done"} /\ 2 * str_len < Len(hex))
=============================================================================
