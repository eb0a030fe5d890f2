----------------------------- MODULE SkySysPath -----------------------------
(* src/sky/src/sky_sys.c, sky_sys_get_process_name and _directory: two       *)
(* halves of the path of the running program, which each call reads anew     *)
(* from /proc/self/exe.  The program's file may be moved, or removed, while  *)
(* the program runs: the kernel tells the new path, or the old one with      *)
(* " (deleted)" behind it.                                                   *)
(*                                                                           *)
(* A path is a sequence of slashes and of characters that are not.  moved is *)
(* a history variable; a definition named for a fault (DirectoryWithSlash)   *)
(* is a variant of the one that follows it and no action uses it.            *)
EXTENDS Integers, Sequences, SequencesExt

CONSTANTS Path,          \* bound: the paths that programs can have
          SKY_PATH_MAX,  \* of the code's own buffer; not defined in src/
          Buffers        \* bound: the lengths of callers' buffers

\* A path starts at the root, names are not empty, and the last is a file.
PathAssumption ==
    /\ Path \subseteq Seq(STRING)
    /\ \A q \in Path : /\ Len(q) > 1 /\ q[1] = "/" /\ q[Len(q)] # "/"
                       /\ \A k \in 1..(Len(q) - 1) : ~(q[k] = "/" /\ q[k + 1] = "/")
    /\ SKY_PATH_MAX \in Nat \ {0} /\ Buffers \subseteq Nat

VARIABLES
    exe,              \* what /proc/self/exe points to
    name, directory,  \* the answers: [code, buf, len]; len is the buffer's
    moved             \* has exe changed since the first of the two calls?

vars == <<exe, name, directory, moved>>

NoAnswer == [code |-> 0, buf |-> <<>>, len |-> 0]
Fails(code, len) == [code |-> code, buf |-> <<>>, len |-> len]

Init == exe \in Path /\ name = NoAnswer /\ directory = NoAnswer /\ moved = FALSE
----------------------------------------------------------------------------
\* readlink cuts what does not fit and does not say so: then the name is a
\* part of a name, or empty, or that of a directory.
readlink == SubSeq(exe, 1, IF Len(exe) < SKY_PATH_MAX THEN Len(exe) ELSE SKY_PATH_MAX)

Slash == CHOOSE k \in 1..Len(readlink) :
            readlink[k] = "/" /\ \A m \in (k + 1)..Len(readlink) : readlink[m] # "/"

AfterSlash == SubSeq(readlink, Slash + 1, Len(readlink))
BeforeSlash == SubSeq(readlink, 1, Slash - 1)

\* What is the same in both functions; a file in the root counts as an error.
Answer(part, len) ==
    IF len <= 1 THEN Fails(-2, len)
    ELSE IF Slash = 1 THEN Fails(-4, len)
    ELSE IF Len(part) + 1 > len THEN Fails(-5, len)
    ELSE [code |-> Len(part), buf |-> part, len |-> len]

\* readlink may also fail (-3).
sky_sys_get_process_name(len) ==
    /\ name = NoAnswer
    /\ name' \in {Answer(AfterSlash, len), Fails(-3, len)}
    /\ UNCHANGED <<exe, directory, moved>>

DirectoryWithSlash(len) ==
    /\ directory = NoAnswer
    /\ directory' = Answer(SubSeq(readlink, 1, Slash), len)
    /\ UNCHANGED <<exe, name, moved>>

sky_sys_get_process_directory(len) ==
    /\ directory = NoAnswer
    /\ directory' \in {Answer(BeforeSlash, len), Fails(-3, len)}
    /\ UNCHANGED <<exe, name, moved>>

Move == /\ exe' \in Path \ {exe}
        /\ moved' = (name # NoAnswer \/ directory # NoAnswer)
        /\ ~moved
        /\ UNCHANGED <<name, directory>>

\* The caller has no more use for the answers.
Forget == /\ name' = NoAnswer /\ directory' = NoAnswer /\ moved' = FALSE
          /\ UNCHANGED exe

Next == \/ \E len \in Buffers :
              sky_sys_get_process_name(len) \/ sky_sys_get_process_directory(len)
        \/ Move \/ Forget

Spec == Init /\ [][Next]_vars
----------------------------------------------------------------------------
(* Properties *)

\* Every variable has its type; an answer and the 0 behind it fit the caller's
\* buffer.
TypeOK ==
    /\ exe \in Path /\ moved \in BOOLEAN
    /\ \A answer \in {name, directory} :
          /\ answer.code \in {-5, -4, -3, -2} \cup Nat
          /\ answer.code >= 0 => answer.code = Len(answer.buf)
          /\ answer.len > 0 /\ answer.code >= 0 => Len(answer.buf) < answer.len

Both == name.len * directory.len > 0 /\ name.code >= 0 /\ directory.code >= 0

\* Two answers that a caller got are the two halves of one path, the program's,
\* as long as nobody moved it in between and its path is no longer than
\* SKY_PATH_MAX: then it may be cut, and the halves still fit each other.
HalvesJoin ==
    Both /\ ~moved =>
        LET joined == directory.buf \o <<"/">> \o name.buf IN
        IF Len(exe) <= SKY_PATH_MAX THEN joined = exe ELSE IsPrefix(joined, exe)
=============================================================================
