----------------------------- MODULE SkyBase64 -----------------------------
(* src/sky/src/sky_base64.c, base64: a caller encodes octets and decodes     *)
(* what came out.  A character is its index in base64_encoding_table, or the *)
(* pad, or the 0 of fresh memory; a step is one round of a loop.             *)
(*                                                                           *)
(* A definition named for a fault (PadsOnce) is a variant of the one that    *)
(* follows it and no action uses it.                                         *)
EXTENDS Integers, Sequences

CONSTANTS Octet,     \* bound: the octets callers encode
          MaxLength, \* bound: of the data
          Modulus    \* of uint32_t: 2^32 in the program

\* A text's length is a uint32_t.
Base64Assumption ==
    /\ Octet \subseteq 0..255 /\ MaxLength \in Nat /\ Modulus \in Nat \ {0}
    /\ 4 * ((MaxLength + 2) \div 3) < Modulus

VARIABLES
    ready,         \* has sky_base64_init filled base64_decoding_table?
    pc, data, i,   \* the call, the caller's octets, the octets or characters read
    encoded_data,  \* the text
    decoded_data,  \* the octets decoded so far
    output_length  \* of the call

vars == <<ready, pc, data, i, encoded_data, decoded_data, output_length>>

Pad == 64
Nul == 65

Init == /\ ready = FALSE /\ pc = "start" /\ data = <<>> /\ i = 0
        /\ encoded_data = <<>> /\ decoded_data = <<>> /\ output_length = 0
----------------------------------------------------------------------------
sky_base64_init ==
    /\ pc = "start"
    /\ ready' = TRUE
    /\ UNCHANGED <<pc, data, i, encoded_data, decoded_data, output_length>>

\* The decoding table is all zeros until it is filled.
base64_decoding_table(c) == IF ready /\ c < 64 THEN c ELSE 0

base64_mod_table(length) == <<0, 2, 1>>[(length % 3) + 1]

Smaller(a, b) == IF a < b THEN a ELSE b
----------------------------------------------------------------------------
sky_base64_encode ==
    /\ pc = "start"
    /\ \E n \in 0..MaxLength : data' \in [1..n -> Octet]
    /\ output_length' = 4 * ((Len(data') + 2) \div 3)
    /\ encoded_data' = [k \in 1..output_length' |-> Nul]
    /\ pc' = "encode" /\ i' = 0
    /\ UNCHANGED <<ready, decoded_data>>

octet(k) == IF k <= Len(data) THEN data[k] ELSE 0

Encoded(triple) ==
    LET j == 4 * (i \div 3) IN
    [encoded_data EXCEPT ![j + 1] = triple \div (64 * 64 * 64),
                         ![j + 2] = (triple \div (64 * 64)) % 64,
                         ![j + 3] = (triple \div 64) % 64,
                         ![j + 4] = triple % 64]

\* Three octets, zeros where there are no more, are four characters.
EncodeOctets ==
    /\ pc = "encode" /\ i < Len(data)
    /\ encoded_data' = Encoded(octet(i + 1) * 65536 + octet(i + 2) * 256 + octet(i + 3))
    /\ i' = Smaller(i + 3, Len(data))
    /\ UNCHANGED <<ready, pc, data, decoded_data, output_length>>

EncodePads ==
    /\ pc = "encode" /\ i >= Len(data)
    /\ encoded_data' = [k \in 1..output_length |->
          IF k > output_length - base64_mod_table(Len(data)) THEN Pad ELSE encoded_data[k]]
    /\ pc' = "encoded" /\ i' = 0
    /\ UNCHANGED <<ready, data, decoded_data, output_length>>
----------------------------------------------------------------------------
PadsOnce == {IF Len(encoded_data) > 0 /\ encoded_data[Len(encoded_data)] = Pad THEN 1 ELSE 0}

\* The two characters before an empty text are whatever lies there.
Pads == IF encoded_data = <<>> THEN 0..2
        ELSE LET n == Len(encoded_data) IN
             {(IF encoded_data[n] = Pad THEN 1 ELSE 0)
                + (IF encoded_data[n - 1] = Pad THEN 1 ELSE 0)}

sky_base64_decode ==
    /\ pc = "encoded" /\ Len(encoded_data) % 4 = 0
    /\ \E pads \in Pads :
          output_length' = ((Len(encoded_data) \div 4) * 3 - pads) % Modulus
    /\ decoded_data' = <<>>
    /\ pc' = "decode" /\ i' = 0
    /\ UNCHANGED <<ready, data, encoded_data>>

sextet(k) == IF encoded_data[k] = Pad THEN 0 ELSE base64_decoding_table(encoded_data[k])

Triple == sextet(i + 1) * (64 * 64 * 64) + sextet(i + 2) * (64 * 64)
            + sextet(i + 3) * 64 + sextet(i + 4)

\* Four characters are three octets, as far as there is room for them.
DecodeCharacters ==
    /\ pc = "decode" /\ i < Len(encoded_data)
    /\ LET octets == <<(Triple \div 65536) % 256, (Triple \div 256) % 256, Triple % 256>>
           room == output_length - Len(decoded_data) IN
          decoded_data' = decoded_data \o SubSeq(octets, 1, Smaller(room, 3))
    /\ i' = i + 4
    /\ UNCHANGED <<ready, pc, data, encoded_data, output_length>>

DecodeReturn ==
    /\ pc = "decode" /\ i >= Len(encoded_data)
    /\ pc' = "decoded"
    /\ UNCHANGED <<ready, data, i, encoded_data, decoded_data, output_length>>

\* The caller frees both.
Forget ==
    /\ pc = "decoded"
    /\ pc' = "start" /\ data' = <<>> /\ i' = 0
    /\ encoded_data' = <<>> /\ decoded_data' = <<>> /\ output_length' = 0
    /\ UNCHANGED ready

Next == \/ sky_base64_init
        \/ sky_base64_encode \/ EncodeOctets \/ EncodePads
        \/ sky_base64_decode \/ DecodeCharacters \/ DecodeReturn
        \/ Forget

Spec == Init /\ [][Next]_vars
----------------------------------------------------------------------------
(* Properties *)

\* Every variable has its type; encode fills its memory with characters, and
\* decode writes inside the memory it asked for.
TypeOK ==
    /\ ready \in BOOLEAN
    /\ pc \in {"start", "encode", "encoded", "decode", "decoded"}
    /\ i \in Nat /\ output_length \in Nat
    /\ \A k \in 1..Len(data) : data[k] \in 0..255
    /\ \A k \in 1..Len(encoded_data) : encoded_data[k] \in 0..65
    /\ pc = "encoded" => \A k \in 1..Len(encoded_data) : encoded_data[k] # Nul
    /\ Len(decoded_data) <= output_length
    /\ \A k \in 1..Len(decoded_data) : decoded_data[k] \in 0..255

\* The bits of the octets, first bit first, zeros behind the last.
Bit(k) == (octet((k \div 8) + 1) \div <<128, 64, 32, 16, 8, 4, 2, 1>>[(k % 8) + 1]) % 2
Bits6(k) == 32 * Bit(k) + 16 * Bit(k + 1) + 8 * Bit(k + 2)
              + 4 * Bit(k + 3) + 2 * Bit(k + 4) + Bit(k + 5)

\* A text is the octets' bits in sixes, with pads for sixes that have none.
EncodeIsBase64 ==
    pc = "encoded" =>
        \A k \in 1..Len(encoded_data) :
            encoded_data[k] = IF 6 * (k - 1) < 8 * Len(data) THEN Bits6(6 * (k - 1)) ELSE Pad

\* Once sky_base64_init has run, decode gives back the octets that encode was
\* given, and their number, unless there are none.
RoundTrip ==
    pc = "decoded" /\ ready /\ data # <<>> =>
        decoded_data = data /\ output_length = Len(data)
=============================================================================
