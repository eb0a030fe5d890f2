--------------------------- MODULE SkyLocalSocket ---------------------------
(* src/sky/src/sky_local_socket.c: a thread asks the kernel for the default  *)
(* gateway of an interface over netlink, asks for addresses with ioctl, and  *)
(* sends raw UDP packets, while other threads use descriptors too.  A step   *)
(* is a system call, with what the code does until the next one.             *)
(*                                                                           *)
(* A dump of the routing table is a sequence of messages, which the kernel   *)
(* packs into datagrams.  A route is its kind and whether it is on the       *)
(* interface; its gateway is its place in the table.  The contents of        *)
(* packets and addresses are left out.                                       *)
(*                                                                           *)
(* A definition named for a fault (SeqAsSent) is a variant of the one that   *)
(* follows it and no action uses it.                                         *)
EXTENDS Integers, Sequences, FiniteSets

CONSTANTS Fd,         \* bound: the descriptors of the process
          StdinOpen,  \* does descriptor 0 stay open?
          MaxRoutes,  \* bound: of the routing table
          RouteSize,  \* of a route's message; that of the end is 1
          Buffer,     \* of msg_buf, in the same unit
          DoneApart   \* does the kernel send NLMSG_DONE as a datagram of its own?

LocalSocketAssumption ==
    /\ Fd \subseteq Nat /\ StdinOpen \in BOOLEAN /\ MaxRoutes \in Nat
    /\ RouteSize \in Nat \ {0} /\ Buffer \in Nat \ {0} /\ DoneApart \in BOOLEAN

VARIABLES
    fds,       \* who opened each descriptor: "free", "other" or "call"
    pc, sockfd,
    routes,    \* the kernel's routing table during a gateway call
    queue,     \* the datagrams to be received
    ours,      \* is the socket's netlink address the process id?
    msg_buf, msg_len,  \* the whole messages received, the bytes used
    answer     \* of the last gateway call: a place in routes, or ANY

netlink == <<routes, queue, ours, msg_buf, msg_len>>
vars == <<fds, pc, sockfd, netlink, answer>>

ANY == 0
NoSocket == -1

Route == [kind : {"default", "like", "net", "unparsed"}, mine : BOOLEAN]
DONE == [kind |-> "done", mine |-> FALSE]
ERROR == [kind |-> "error", mine |-> FALSE]

Init == /\ fds = [f \in Fd |-> IF f = 0 /\ StdinOpen THEN "other" ELSE "free"]
        /\ pc = "idle" /\ sockfd = NoSocket
        /\ routes = <<>> /\ queue = <<>> /\ ours = FALSE /\ msg_buf = <<>> /\ msg_len = 0
        /\ answer = ANY
----------------------------------------------------------------------------
(* The kernel *)

\* socket(2) takes the lowest free descriptor, or fails.
Socket == {f \in Fd : fds[f] = "free" /\ \A g \in Fd : g < f => fds[g] # "free"} \cup {NoSocket}
Opened(f) == IF f = NoSocket THEN fds ELSE [fds EXCEPT ![f] = "call"]
Closed(f) == IF f = NoSocket THEN fds ELSE [fds EXCEPT ![f] = "free"]

\* Another thread opens or closes a descriptor of its own.
OtherOpens ==
    /\ \E f \in Socket \ {NoSocket} : fds' = [fds EXCEPT ![f] = "other"]
    /\ UNCHANGED <<pc, sockfd, netlink, answer>>

OtherCloses ==
    /\ \E f \in Fd : /\ fds[f] = "other" /\ (f = 0 => ~StdinOpen)
                     /\ fds' = [fds EXCEPT ![f] = "free"]
    /\ UNCHANGED <<pc, sockfd, netlink, answer>>

\* The ways to cut a table into datagrams; the end comes last.
Cuts(table) ==
    {[i \in 1..(Cardinality(ends) + 1) |->
        LET Before(n) == {e \in ends : e < n}
            last == CHOOSE n \in ends \cup {Len(table)} :
                       Cardinality(Before(n)) = i - 1
            first == IF i = 1 THEN 1
                     ELSE 1 + (CHOOSE n \in ends : Cardinality(Before(n)) = i - 2) IN
        SubSeq(table, first, last)] :
     ends \in SUBSET (1..(Len(table) - 1))}

Dumps(table) ==
    IF table = <<>> THEN {<< <<DONE>> >>}
    ELSE IF DoneApart THEN {c \o << <<DONE>> >> : c \in Cuts(table)}
         ELSE Cuts(table \o <<DONE>>)

Size(message) == IF message.kind \in {"done", "error"} THEN 1 ELSE RouteSize
Units(d) == IF d[Len(d)].kind \in {"done", "error"} THEN RouteSize * (Len(d) - 1) + 1
                                                     ELSE RouteSize * Len(d)
----------------------------------------------------------------------------
(* sky_if_get_gateway *)

GatewayReturns(addr) ==
    /\ answer' = addr
    /\ fds' = Closed(sockfd) /\ sockfd' = NoSocket /\ pc' = "idle"
    /\ routes' = <<>> /\ queue' = <<>> /\ ours' = FALSE /\ msg_buf' = <<>> /\ msg_len' = 0

sky_if_get_gateway ==
    /\ pc = "idle"
    /\ \E f \in Socket :
          /\ fds' = Opened(f) /\ sockfd' = f
          /\ pc' = IF f < 0 THEN "idle" ELSE "send"
    /\ answer' = ANY
    /\ UNCHANGED netlink

\* The kernel answers at once, with what its routing table is then.
Send ==
    /\ pc = "send"
    /\ \E n \in 0..MaxRoutes : routes' \in [1..n -> Route]
    /\ queue' \in Dumps(routes') \cup {<< <<ERROR>> >>}
    /\ ours' \in BOOLEAN
    /\ pc' = "recv"
    /\ UNCHANGED <<fds, sockfd, msg_buf, msg_len, answer>>

SendFails ==
    /\ pc = "send"
    /\ GatewayReturns(ANY)

\* The request has the number 0, msg_seq++; read_nl_sock is given msg_seq.
SeqAsSent == 0
seq_num == 1

\* A header says that it is the last, when the loop stops although more comes.
Complete == seq_num = 0 /\ ours

\* What recv can hand over, and whether a first message in it is in order.
Read == LET units == Units(Head(queue))  room == Buffer - msg_len IN
        IF units < room THEN units ELSE room
HeaderOK == Read >= Size(Head(queue)[1]) /\ Head(queue)[1].kind # "error"

RecvRoutes ==
    /\ pc = "recv" /\ queue # <<>> /\ HeaderOK
    /\ LET d == Head(queue)
           whole == IF Read = Units(d) THEN Len(d) ELSE Read \div RouteSize IN
          /\ d[1].kind # "done"
          /\ msg_buf' = msg_buf \o SubSeq(d, 1, whole)
    /\ msg_len' = msg_len + Read
    /\ queue' = Tail(queue)
    /\ pc' = IF Complete THEN "parse" ELSE "recv"
    /\ UNCHANGED <<fds, sockfd, routes, ours, answer>>

RecvDone ==
    /\ pc = "recv" /\ queue # <<>> /\ HeaderOK
    /\ Head(queue)[1].kind = "done"
    /\ queue' = Tail(queue)
    /\ pc' = "parse"
    /\ UNCHANGED <<fds, sockfd, routes, ours, msg_buf, msg_len, answer>>

\* An error, or a datagram that finds the buffer too full for its first message.
RecvBadHeader ==
    /\ pc = "recv" /\ queue # <<>> /\ ~HeaderOK
    /\ GatewayReturns(ANY)

\* recv itself fails, say because a signal handler has run.
RecvFails ==
    /\ pc = "recv"
    /\ GatewayReturns(ANY)

\* strstr( "10.0.0.0", "0.0.0.0" ) is no different from the default route.
IsDefault(r) == r.kind \in {"default", "like"} /\ r.mine

FirstOf(S) == IF S = {} THEN ANY ELSE CHOOSE k \in S : \A j \in S : k <= j

Parse ==
    /\ pc = "parse"
    /\ GatewayReturns(FirstOf({k \in 1..Len(msg_buf) : IsDefault(msg_buf[k])}))
----------------------------------------------------------------------------
(* sky_if_get_hwaddr, sky_if_get_ip and sky_if_get_netmask *)

\* A descriptor of 0 is taken for a failure, and -1 is not.
sky_if_get ==
    /\ pc = "idle"
    /\ \E f \in Socket :
          /\ fds' = Opened(f)
          /\ sockfd' = IF f = 0 THEN NoSocket ELSE f
          /\ pc' = IF f = 0 THEN "idle" ELSE "ioctl"
    /\ UNCHANGED <<netlink, answer>>

\* ioctl, whatever it says, and close.
Ioctl ==
    /\ pc = "ioctl"
    /\ fds' = Closed(sockfd) /\ sockfd' = NoSocket /\ pc' = "idle"
    /\ UNCHANGED <<netlink, answer>>
----------------------------------------------------------------------------
\* Data that is too long is refused before, which changes nothing.
sky_socket_send_raw_udp ==
    /\ pc = "idle"
    /\ \E f \in Socket :
          /\ fds' = Opened(f) /\ sockfd' = f
          /\ pc' = IF f < 0 THEN "idle" ELSE "bind"
    /\ UNCHANGED <<netlink, answer>>

BindFailsOpen ==
    /\ pc = "bind"
    /\ sockfd' = NoSocket /\ pc' = "idle"
    /\ UNCHANGED <<fds, netlink, answer>>

BindFails ==
    /\ pc = "bind"
    /\ fds' = Closed(sockfd) /\ sockfd' = NoSocket /\ pc' = "idle"
    /\ UNCHANGED <<netlink, answer>>

Bind == pc = "bind" /\ pc' = "sendto" /\ UNCHANGED <<fds, sockfd, netlink, answer>>

\* Sent or not, the socket is closed.
Sendto ==
    /\ pc = "sendto"
    /\ fds' = Closed(sockfd) /\ sockfd' = NoSocket /\ pc' = "idle"
    /\ UNCHANGED <<netlink, answer>>
----------------------------------------------------------------------------
Step == \/ Send \/ SendFails \/ RecvRoutes \/ RecvDone \/ RecvBadHeader \/ Parse
        \/ Ioctl \/ BindFails \/ Bind \/ Sendto

Next == \/ OtherOpens \/ OtherCloses
        \/ sky_if_get_gateway \/ sky_if_get \/ sky_socket_send_raw_udp
        \/ Step \/ RecvFails

Spec == Init /\ [][Next]_vars
\* A thread that can run runs; a recv returns when there is a datagram.
FairSpec == Spec /\ WF_vars(Step)
----------------------------------------------------------------------------
(* Properties *)

\* Every variable has its type, and what is received fits the buffer.
TypeOK ==
    /\ fds \in [Fd -> {"free", "other", "call"}]
    /\ pc \in {"idle", "send", "recv", "parse", "ioctl", "bind", "sendto"}
    /\ sockfd \in Fd \cup {NoSocket}
    /\ \A k \in 1..Len(routes) : routes[k] \in Route
    /\ ours \in BOOLEAN /\ msg_len \in 0..Buffer
    /\ msg_buf # <<>> => Units(msg_buf) <= msg_len
    /\ answer \in 0..MaxRoutes

\* Whatever fails, a call leaves no descriptor open, and it never closes one
\* that somebody else has opened.
SocketsClosed ==
    {f \in Fd : fds[f] = "call"} = IF sockfd = NoSocket THEN {} ELSE {sockfd}

Answered == pc \in {"send", "recv", "parse"} /\ pc' = "idle"

\* A gateway call that meets no error answers from the whole table, however
\* the kernel cuts it: it finds the default route of the interface, and says
\* that there is none only when there is none.  Other routes to nets that end
\* in 0.0.0.0 are left out here.
GatewayFound ==
    [][pc = "parse" /\ Answered /\ (\A k \in 1..Len(routes) : routes[k].kind # "like") =>
          answer' = FirstOf({k \in 1..Len(routes) : routes[k].kind = "default" /\ routes[k].mine})]_vars

\* A gateway call returns when the kernel sends the end of the dump apart.
CallReturns == pc # "idle" ~> pc = "idle"

=============================================================================
