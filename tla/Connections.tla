---------------------------- MODULE Connections ----------------------------
(***************************************************************************)
(* Listener and Connection values (stdlib/networking.go) shared by several *)
(* evaluators.  A value is a struct of callables around one native state:  *)
(* a closed flag under a mutex, and an operating-system socket used        *)
(* outside the mutex.  An operation tests the flag in one step and uses    *)
(* the socket in another; close takes the flag in one step and closes the  *)
(* socket in another.  Anything may happen in between.                     *)
(*                                                                         *)
(* The net package and the kernel are external: a TCP socket delivers its  *)
(* bytes in order to the other end, which holds a bounded number of them;  *)
(* a UDP socket delivers datagrams, or loses them.  Only sizes of data are *)
(* kept.                                                                   *)
(***************************************************************************)
EXTENDS HandleCalls

CONSTANTS
    Listeners,      \* native listeners that may be made
    Streams,        \* TCP connections that may be made, both ends counted
    Packets,        \* UDP connections that may be made
    Sizes,          \* buffer sizes a program passes, negative ones included
    Lengths,        \* lengths of the data a program writes
    Room            \* bytes or datagrams a socket holds before it is read

ASSUME SizesAreIntegers == Sizes \subseteq Int
ASSUME LengthsArePositive == Lengths \subseteq Nat \ {0}
ASSUME RoomIsPositive == Room \in Nat \ {0}

Connected == Streams \cup Packets
Sockets == Listeners \cup Connected

ASSUME SocketsAreHandles == Sockets \subseteq Handles
ASSUME SocketKindsDiffer ==
    Listeners \cap Connected = {} /\ Streams \cap Packets = {}

VARIABLE
    socket      \* the operating system's side of each handle

-----------------------------------------------------------------------------
(* Types                                                                   *)

\* peer is the other end of a stream, or the default peer of a UDP socket.
\* queue holds what arrived: bytes, datagrams, or the ends to be accepted.
Data == "data"

Socket == [open : BOOLEAN, peer : Connected \cup {None}, queue : Seq({Data} \cup Streams)]

NoSocket == [open |-> FALSE, peer |-> None, queue |-> <<>>]

Reads == {"read", "read_from"}
Writes == {"write", "write_to"}

Ops == Reads \cup Writes \cup {"listen", "dial_tcp", "dial_udp", "accept", "close"}

SocketsTyped ==
    /\ socket \in [Sockets -> Socket]
    /\ \A t \in Tasks : call[t].op \in Writes => call[t].size > 0

SocketsInit == socket = [h \in Sockets |-> NoSocket]

-----------------------------------------------------------------------------
(* Calls                                                                   *)

\* Struct values hold the callables of their kind.
BeginSocketCall(t) ==
    /\ \/ \E h \in Connected : Exists(h) /\
            \/ \E op \in Reads, n \in Sizes : Begin(t, op, h, None, n)
            \/ \E n \in Lengths : Begin(t, "write", h, socket[h].peer, n)
            \/ \E n \in Lengths, to \in Packets : Begin(t, "write_to", h, to, n)
            \/ Begin(t, "close", h, None, 0)
       \/ \E l \in Listeners, op \in {"accept", "close"} :
            Exists(l) /\ Begin(t, op, l, None, 0)
       \/ Begin(t, "listen", None, None, 0)
       \/ \E to \in Listeners : Begin(t, "dial_tcp", None, to, 0)
       \/ \E to \in Packets : Begin(t, "dial_udp", None, to, 0)
    /\ UNCHANGED socket

\* Mutant: the flag is only looked at by close.
RejectsUnlessOpen(t) ==
    \/ call[t].op \in Reads /\ call[t].size < 0
    \/ call[t].op \in {"write_to", "read_from"} /\ call[t].on \notin Packets

\* read and read_from look at the size first, write_to and read_from at the
\* network next, and all at the flag last (isClosed).
Rejects(t) ==
    \/ call[t].op \in Reads /\ call[t].size < 0
    \/ call[t].op \in {"write_to", "read_from"} /\ call[t].on \notin Packets
    \/ closed[call[t].on] = TRUE

Check(t) ==
    /\ call[t].at = "called"
    /\ call[t].on \in Sockets
    /\ call[t].op # "close"
    /\ IF Rejects(t) THEN Failed(t) ELSE Proceeds(t)
    /\ UNCHANGED <<closed, socket>>

-----------------------------------------------------------------------------
(* The net package and the kernel                                          *)

Closed(h) == ~socket[h].open

PeerClosed(h) == Closed(socket[h].peer)

HasRoom(h) == Len(socket[h].queue) < Room

Arrives(h, item) == [socket EXCEPT ![h].queue = Append(@, item)]

Leaves(h, n) == [socket EXCEPT ![h].queue = SubSeq(@, n + 1, Len(@))]

\* Closing a listener refuses the ends nobody accepted.
SocketClosed(h) ==
    [s \in Sockets |->
        IF s = h \/ (h \in Listeners /\ \E i \in DOMAIN socket[h].queue : socket[h].queue[i] = s)
        THEN [socket[s] EXCEPT !.open = FALSE]
        ELSE socket[s]]

\* One read of a stream: nothing for an empty buffer, else some of the bytes
\* there are; the end of the stream is an error (io.EOF).
StreamRead(t, h) ==
    \/ /\ Closed(h) \/ (call[t].size > 0 /\ socket[h].queue = <<>> /\ PeerClosed(h))
       /\ Failed(t)
       /\ UNCHANGED socket
    \/ /\ ~Closed(h)
       /\ \E n \in 0 .. call[t].size :
            /\ n <= Len(socket[h].queue)
            /\ n = 0 => call[t].size = 0
            /\ socket' = Leaves(h, n)
       /\ call' = Ended(t, "ok")

\* A stream takes the data a byte at a time while the other end has room; one
\* that is closed may swallow them or report it.
StreamWrite(t, h) ==
    \/ /\ Closed(h) \/ PeerClosed(h)
       /\ Failed(t)
       /\ UNCHANGED socket
    \/ /\ ~Closed(h)
       /\ \/ PeerClosed(h) /\ UNCHANGED socket
          \/ ~PeerClosed(h) /\ HasRoom(socket[h].peer) /\ socket' = Arrives(socket[h].peer, Data)
       /\ call' = IF call[t].size = 1 THEN Ended(t, "ok") ELSE [call EXCEPT ![t].size = @ - 1]

PacketRead(t, h) ==
    \/ Closed(h) /\ Failed(t) /\ UNCHANGED socket
    \/ /\ ~Closed(h)
       /\ socket[h].queue # <<>>
       /\ socket' = Leaves(h, 1)
       /\ call' = Ended(t, "ok")

PacketWrite(t, h) ==
    \/ Closed(h) /\ Failed(t) /\ UNCHANGED socket
    \/ /\ ~Closed(h)
       /\ \/ UNCHANGED socket
          \/ /\ ~Closed(call[t].to)
             /\ HasRoom(call[t].to)
             /\ socket' = Arrives(call[t].to, Data)
       /\ call' = Ended(t, "ok")

-----------------------------------------------------------------------------
(* Operations                                                              *)

Unused(kind) == {h \in kind : CanMake(h) /\ socket[h] = NoSocket}

Read(t) ==
    /\ \E op \in Reads : Working(t, op)
    /\ IF call[t].on \in Streams THEN StreamRead(t, call[t].on) ELSE PacketRead(t, call[t].on)
    /\ UNCHANGED closed

\* write sends to the default peer, write_to to the address it is given.
Write(t) ==
    /\ \E op \in Writes : Working(t, op)
    /\ IF call[t].on \in Streams THEN StreamWrite(t, call[t].on) ELSE PacketWrite(t, call[t].on)
    /\ UNCHANGED closed

\* The accepted end gets a native state of its own.
Accept(t) ==
    /\ Working(t, "accept")
    /\ LET l == call[t].on IN
       \/ Closed(l) /\ Failed(t) /\ UNCHANGED <<closed, socket>>
       \/ /\ ~Closed(l)
          /\ socket[l].queue # <<>>
          /\ CanMake(Head(socket[l].queue))
          /\ closed' = Made(Head(socket[l].queue))
          /\ socket' = Leaves(l, 1)
          /\ call' = Ended(t, "ok")

\* Mutant: operations keep the lock while they use the socket.
TakeSocketFlagBehindReaders(t) ==
    /\ Calling(t, "close")
    /\ call[t].on \in Sockets
    /\ \A u \in Tasks : ~(call[u].on = call[t].on /\ call[u].at = "io")
    /\ TakesFlag(t)
    /\ UNCHANGED socket

TakeSocketFlag(t) ==
    /\ Calling(t, "close")
    /\ call[t].on \in Sockets
    /\ TakesFlag(t)
    /\ UNCHANGED socket

\* The system releases the socket even when it reports an error.
CloseSocket(t) ==
    /\ call[t].at = "closing"
    /\ call[t].on \in Sockets
    /\ socket' = SocketClosed(call[t].on)
    /\ \E outcome \in Outcomes : call' = Ended(t, outcome)
    /\ UNCHANGED closed

Listen(t) ==
    /\ Calling(t, "listen")
    /\ Unused(Listeners) # {}
    /\ LET l == CHOOSE h \in Unused(Listeners) : TRUE IN
       /\ closed' = Made(l)
       /\ socket' = [socket EXCEPT ![l].open = TRUE]
    /\ call' = Ended(t, "ok")

\* The kernel connects both ends; the other waits in the listener's queue.
DialTCP(t) ==
    /\ Calling(t, "dial_tcp")
    /\ LET l == call[t].to
           near == CHOOSE h \in Unused(Streams) : TRUE
           far == CHOOSE h \in Unused(Streams) : h # near IN
       \/ Closed(l) /\ Failed(t) /\ UNCHANGED <<closed, socket>>
       \/ /\ ~Closed(l)
          /\ HasRoom(l)
          /\ \E h \in Unused(Streams) : h # near
          /\ closed' = Made(near)
          /\ socket' = [Arrives(l, far) EXCEPT ![near] = [@ EXCEPT !.open = TRUE, !.peer = far],
                                               ![far] = [@ EXCEPT !.open = TRUE, !.peer = near]]
          /\ call' = Ended(t, "ok")

\* An unconnected socket that remembers the address it was given.
DialUDP(t) ==
    /\ Calling(t, "dial_udp")
    /\ Unused(Packets) # {}
    /\ LET p == CHOOSE h \in Unused(Packets) : TRUE IN
       /\ closed' = Made(p)
       /\ socket' = [socket EXCEPT ![p] = [@ EXCEPT !.open = TRUE, !.peer = call[t].to]]
    /\ call' = Ended(t, "ok")

\* The system may refuse any call, part of the data written or not.
SocketFails(t) ==
    /\ \/ call[t].at = "io" /\ call[t].on \in Sockets
       \/ \E op \in {"listen", "dial_tcp", "dial_udp"} : Calling(t, op)
    /\ Failed(t)
    /\ UNCHANGED <<closed, socket>>

SocketWork(t) ==
    \/ Check(t)
    \/ Read(t)
    \/ Write(t)
    \/ Accept(t)
    \/ TakeSocketFlag(t)
    \/ CloseSocket(t)
    \/ Listen(t)
    \/ DialTCP(t)
    \/ DialUDP(t)
=============================================================================
