----------------------------- MODULE MCSkyData -----------------------------
(* The components whose calls neither wait nor loop without end: the first   *)
(* instance of a program, the hash table, and the conversions of octets,     *)
(* times and paths.  They share nothing, so each behaviour runs one of them, *)
(* the part, and the states are the sum of theirs.  The processes are those  *)
(* of SkyProcess, as it stands.  SkyDataProofs proves the properties for all *)
(* values of the constants, which have the names they have in the parts      *)
(* where two parts do not share one.                                         *)
EXTENDS SkyProcess, Integers, Sequences, SequencesExt, TLC

CONSTANTS
    Key, Value, Sizes, HashModulus, Spare, Object,  \* of the hash table
    Octet, MaxLength, TextModulus,                  \* of base64
    HexOctet, HexLength, CharSigned,                \* of the hexadecimal digits
    Moments, Microseconds, Zones,                   \* of the calendar
    Path, SKY_PATH_MAX, Buffers                     \* of the program's file

Symmetry == Permutations(Proc) \cup Permutations(Desc)

\* Greenwich, Berlin with its summer time, the first zone to see a day begin, and
\* one a little short of a minute from Greenwich.
FourZones == {[west |-> 0, summer |-> FALSE], [west |-> -3600, summer |-> TRUE],
              [west |-> -50400, summer |-> FALSE], [west |-> 59, summer |-> FALSE]}

\* Every path of up to five characters.
Paths == {q \in BoundedSeq({"a", "b", "/"}, 5) :
             /\ Len(q) > 1 /\ q[1] = "/" /\ q[Len(q)] # "/"
             /\ \A k \in 1..(Len(q) - 1) : ~(q[k] = "/" /\ q[k + 1] = "/")}

VARIABLES part,
    haSize, haRoom, haTab, haKeys, haHeap, haAnswer, haCramped,
    baReady, baPc, baData, baI, baEncoded, baDecoded, baLength,
    hxPc, hxI, hxStr, hxHex, hxBack, hxLen, hxOverrun,
    tiZone, tiClock, tiTime, tiSysTime, tiSource,
    paExe, paName, paDirectory, paMoved

haVars == <<haSize, haRoom, haTab, haKeys, haHeap, haAnswer, haCramped>>
baVars == <<baReady, baPc, baData, baI, baEncoded, baDecoded, baLength>>
hxVars == <<hxPc, hxI, hxStr, hxHex, hxBack, hxLen, hxOverrun>>
tiVars == <<tiZone, tiClock, tiTime, tiSysTime, tiSource>>
paVars == <<paExe, paName, paDirectory, paMoved>>
allVars == <<part, vars, haVars, baVars, hxVars, tiVars, paVars>>
----------------------------------------------------------------------------
(* The parts *)

Hash == INSTANCE SkyHash WITH
    Modulus <- HashModulus,
    size <- haSize, room <- haRoom, htab <- haTab, key_array <- haKeys, heap <- haHeap,
    answer <- haAnswer, cramped <- haCramped

Base64 == INSTANCE SkyBase64 WITH
    Modulus <- TextModulus,
    ready <- baReady, pc <- baPc, data <- baData, i <- baI, encoded_data <- baEncoded,
    decoded_data <- baDecoded, output_length <- baLength

Hex == INSTANCE SkyHex WITH
    Octet <- HexOctet, MaxLength <- HexLength,
    pc <- hxPc, i <- hxI, str <- hxStr, hex <- hxHex, back <- hxBack, str_len <- hxLen,
    overrun <- hxOverrun

Time == INSTANCE SkyTime WITH
    zone <- tiZone, clock <- tiClock, time <- tiTime, sys_time <- tiSysTime, source <- tiSource

File == INSTANCE SkySysPath WITH
    exe <- paExe, name <- paName, directory <- paDirectory, moved <- paMoved

ASSUME DataAssumption ==
    /\ ProcessAssumption /\ Hash!HashAssumption
    /\ Base64!Base64Assumption /\ Hex!HexAssumption /\ Time!TimeAssumption
    /\ File!PathAssumption
----------------------------------------------------------------------------
DataInit == /\ part \in {"process", "hash", "base64", "hex", "time", "file"}
            /\ Init /\ Hash!Init
            /\ Base64!Init /\ Hex!Init /\ Time!Init /\ File!Init
            \* Of a part that does not run, one initial state stands for all.
            /\ part # "time" =>
                  /\ tiZone = CHOOSE z \in Zones : TRUE
                  /\ tiClock = CHOOSE c \in [time : Moments, useconds : Microseconds] : TRUE
            /\ part # "file" => paExe = CHOOSE q \in Path : TRUE

DataNext ==
    \/ /\ part = "process" /\ Next
       /\ UNCHANGED <<part, haVars, baVars, hxVars, tiVars, paVars>>
    \/ /\ part = "hash" /\ Hash!Next
       /\ UNCHANGED <<part, vars, baVars, hxVars, tiVars, paVars>>
    \/ /\ part = "base64" /\ Base64!Next
       /\ UNCHANGED <<part, vars, haVars, hxVars, tiVars, paVars>>
    \/ /\ part = "hex" /\ Hex!Next
       /\ UNCHANGED <<part, vars, haVars, baVars, tiVars, paVars>>
    \/ /\ part = "time" /\ Time!Next
       /\ UNCHANGED <<part, vars, haVars, baVars, hxVars, paVars>>
    \/ /\ part = "file" /\ File!Next
       /\ UNCHANGED <<part, vars, haVars, baVars, hxVars, tiVars>>

DataSpec == DataInit /\ [][DataNext]_allVars
----------------------------------------------------------------------------
(* Properties *)

\* The table is the map of SkyHashSpec, owns the copies of its keys whichever
\* allocation fails, and has room for what was asked for (sky_hash.c:33-193).
HashIsMap == /\ [](Hash!TypeOK /\ Hash!KeysOwned /\ Hash!RoomForSize)
             /\ Hash!ImplementsHash

\* What is decoded or read from digits is what was encoded or printed, inside
\* the buffers (sky_base64.c:41-133, sky_str.c:98-141).
TextInverts == /\ Base64!TypeOK /\ Base64!EncodeIsBase64 /\ Base64!RoundTrip
               /\ Hex!RoundTrip /\ Hex!InsideBuffers

\* What is made of a date is the moment it was taken, but for the hour of summer
\* time and the zone of a date in UTC (sky_sys.c:119-272).
DateKeepsMoment == []Time!TypeOK /\ Time!DateKeepsMoment

\* Name and directory of the program are the halves of its path, and fit the
\* caller's buffers (sky_sys.c:322-401).
HalvesJoin == File!TypeOK /\ File!HalvesJoin
=============================================================================
