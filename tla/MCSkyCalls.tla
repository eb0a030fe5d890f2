---------------------------- MODULE MCSkyCalls ----------------------------
(* The components whose calls wait or loop, under fairness: the critical     *)
(* section, the anonymous readers-writer lock, the regular expressions, the  *)
(* local sockets, and start and stop of the library.  They share nothing, so *)
(* each behaviour runs one of them, the part, and the states are the sum of  *)
(* theirs.  SkyCallsProofs proves the safety properties of all parts but the *)
(* first for all values of the constants, which have the names they have in  *)
(* the parts.                                                                *)
EXTENDS SkyCriticalSection, Integers

CONSTANTS
    RwThread, Second, Timeouts, Slack, MaxRead, Jumps, MaxJumps,  \* of the lock
    Length, MaxGroups, EmptyMatch, ShorterFirst, MaxMatch, Memory, Modulus,  \* of regex
    Fd, StdinOpen, MaxRoutes, RouteSize, Buffer, DoneApart,       \* of the sockets
    MaxCount, MaxSurplus                                          \* of the library

\* The clock is set by more than a timeout, in either direction.
BothWays == {-5, 5}

VARIABLES part,
    rwLive, rwReaders, rwWriter, rwPc, rwMode, rwTimeout, rwDeadline,
    rwWall, rwJumps, rwAge, rwAhead, rwBack,
    reRegex, reSubStr, rePc, reP, reMatchCount, reAllocated, reLost, reComplete, reMatched,
    soFds, soPc, soSockfd, soRoutes, soQueue, soOurs, soMsgBuf, soMsgLen, soAnswer,
    inCount, inStarted, inList, inCs, inPc, inI, inHeld, inSurplus

rwVars == <<rwLive, rwReaders, rwWriter, rwPc, rwMode, rwTimeout, rwDeadline,
            rwWall, rwJumps, rwAge, rwAhead, rwBack>>
reVars == <<reRegex, reSubStr, rePc, reP, reMatchCount, reAllocated, reLost, reComplete, reMatched>>
soVars == <<soFds, soPc, soSockfd, soRoutes, soQueue, soOurs, soMsgBuf, soMsgLen, soAnswer>>
inVars == <<inCount, inStarted, inList, inCs, inPc, inI, inHeld, inSurplus>>
allVars == <<part, vars, rwVars, reVars, soVars, inVars>>

Rwlock == INSTANCE SkyAnonRwlock WITH
    Thread <- RwThread,
    live <- rwLive, readers <- rwReaders, writer <- rwWriter, pc <- rwPc, mode <- rwMode,
    timeout <- rwTimeout, deadline <- rwDeadline, wall <- rwWall, jumps <- rwJumps,
    age <- rwAge, ahead <- rwAhead, back <- rwBack

Regex == INSTANCE SkyRegex WITH
    regex <- reRegex, sub_str <- reSubStr, pc <- rePc, p <- reP, match_count <- reMatchCount,
    allocated <- reAllocated, lost <- reLost, complete <- reComplete, matched <- reMatched

Socket == INSTANCE SkyLocalSocket WITH
    fds <- soFds, pc <- soPc, sockfd <- soSockfd, routes <- soRoutes, queue <- soQueue,
    ours <- soOurs, msg_buf <- soMsgBuf, msg_len <- soMsgLen, answer <- soAnswer

Library == INSTANCE SkyInit WITH
    init_count <- inCount, started <- inStarted, list <- inList, cs <- inCs,
    pc <- inPc, i <- inI, held <- inHeld, surplus <- inSurplus

ASSUME CallsAssumption ==
    /\ Rwlock!AnonAssumption /\ Regex!RegexAssumption
    /\ Socket!LocalSocketAssumption /\ Library!InitAssumption

InSection(A) == part = "section" /\ A /\ UNCHANGED <<part, rwVars, reVars, soVars, inVars>>
InRwlock(A) == part = "rwlock" /\ A /\ UNCHANGED <<part, vars, reVars, soVars, inVars>>
InRegex(A) == part = "regex" /\ A /\ UNCHANGED <<part, vars, rwVars, soVars, inVars>>
InSocket(A) == part = "socket" /\ A /\ UNCHANGED <<part, vars, rwVars, reVars, inVars>>
InLibrary(A) == part = "library" /\ A /\ UNCHANGED <<part, vars, rwVars, reVars, soVars>>

CallsInit == /\ part \in {"section", "rwlock", "regex", "socket", "library"}
             /\ Init /\ Rwlock!Init /\ Regex!Init /\ Socket!Init /\ Library!Init

CallsNext == \/ InSection(Next) \/ InRwlock(Rwlock!Next) \/ InRegex(Regex!Next)
             \/ InSocket(Socket!Next) \/ InLibrary(Library!Next)

\* The fairness of each part's own FairSpec.
CallsSpec ==
    /\ CallsInit /\ [][CallsNext]_allVars
    /\ \A t \in Thread : WF_allVars(InSection(Entered(t)))
    /\ WF_allVars(InRwlock(Rwlock!Tick))
    /\ \A t \in RwThread : WF_allVars(InRwlock(Rwlock!Step(t)))
    /\ WF_allVars(InRegex(Regex!Step)) /\ WF_allVars(InSocket(Socket!Step))
----------------------------------------------------------------------------
(* Properties *)

\* The anonymous lock implements SkyRwlockSpec as well (sky_rwlock.c:161-287).
RwlockImplementsLock == Rwlock!RwlockImplementsLock

\* A timed call on it gives up neither late nor early, but for what the wall
\* clock was set by, and every deadline is a valid timespec (sky_sys.c:280-307).
RwlockKeepsTime == Rwlock!RwlockKeepsTime

\* sky_regex_parse gives the list of re.findall for an expression that regexec
\* and Python read alike, and sky_regex_match counts what parse lists for every
\* expression, when neither an allocation nor regexec failed (sky_regex.c:92-189).
\* Of the other expressions it is false: see MCSkyRegex.cfg.
ParseIsFindall == Regex!ParseIsFindall /\ Regex!MatchAgrees

\* All memory of sky_regex.c is in the handle's list or in nodes whose string
\* could not be had, and no call of sky_local_socket.c leaves a descriptor
\* open or closes another's, whichever step fails.
NothingLeaks == Regex!TypeOK /\ Regex!MemoryAccounted /\ Socket!TypeOK /\ Socket!SocketsClosed

\* Whoever was told that the library is started finds it running until he stops
\* it, the count tells whether it runs, and modules stop in the reverse of the
\* order they were started in (sky.c:76-115).
LibraryRuns == /\ Library!TypeOK /\ Library!ReadyWhileHeld
               /\ Library!CountTellsState /\ Library!StopReversesStart

\* A gateway call that meets no error answers from the whole routing table,
\* however the kernel cuts the dump (sky_local_socket.c:268-402).
GatewayFound == Socket!GatewayFound

\* Every call returns: nested enters without waiting, timed lock calls whatever
\* the holder does, searches and netlink exchanges when they have read it all.
CallsReturn ==
    /\ NestedEnterReturns /\ Rwlock!TimedReturns
    /\ Regex!CallReturns /\ Socket!CallReturns
=============================================================================
