------------------------- MODULE NativeHandles_proofs -------------------------
(***************************************************************************)
(* Proofs about NativeHandles, for any number of evaluators and handles,   *)
(* any mix of them, and any sizes of data: its type invariant, and that    *)
(* listeners, connections and files keep the promise of SharedHandles.     *)
(***************************************************************************)
EXTENDS NativeHandles, SequenceTheorems, TLAPS

-----------------------------------------------------------------------------
(* The inductive invariant.                                                *)

Makers == {"listen", "dial_tcp", "dial_udp", "open"}

AllOps == Reads \cup Writes \cup
              {"listen", "dial_tcp", "dial_udp", "accept", "close", "open", "read_file", "write_file"}

CallType == [op : AllOps \cup Outcomes, at : {"idle", "called", "io", "closing"},
             on : Handles \cup {None}, to : Handles \cup {None}, size : Int, late : BOOLEAN]

Flags == [Handles -> BOOLEAN \cup {None}]

\* A call in progress is on a native state that exists and that its operation
\* is about.  A call that began late stays out, one that set the flag finds it
\* set, and nobody sets the flag of a file that is in use.
Known(c, flags) ==
    /\ c.at = "idle" <=> c.op \in Outcomes
    /\ c.at = "idle" \/ c.op \in Makers <=> c.on = None
    /\ c.on # None => flags[c.on] # None
    /\ c.at \in {"io", "closing"} => c.on # None /\ ~c.late
    /\ c.late \/ c.at = "closing" => c.on # None /\ flags[c.on] = TRUE
    /\ c.op \in Reads \cup Writes => c.on \in Connected
    /\ c.op = "accept" => c.on \in Listeners
    /\ c.op \in {"read_file", "write_file"} => c.on \in FileHandles
    /\ c.op = "write_file" => c.size \in 1 .. Pieces + 1
    /\ c.op = "write_file" /\ c.at = "called" => c.size = Pieces + 1
    /\ c.op \in Writes => c.size > 0
    /\ c.op = "dial_tcp" => c.to \in Listeners
    /\ c.op = "dial_udp" => c.to \in Packets
    /\ c.op \in Writes /\ c.on \in Packets => c.to \in Packets
    /\ c.at = "io" /\ c.on \in FileHandles => flags[c.on] = FALSE

Using(t, f) == call[t].on = f /\ call[t].at \in {"io", "closing"}

\* The mutex of a native file.
FileMutex == \A f \in FileHandles, t, u \in Tasks : Using(t, f) /\ Using(u, f) => t = u

CallInv ==
    /\ closed \in Flags
    /\ call \in [Tasks -> CallType]
    /\ \A t \in Tasks : Known(call[t], closed)
    /\ FileMutex

\* A socket is open while its flag is clear, and a connection has another end.
SocketKnown(h) ==
    /\ closed[h] = FALSE => socket[h].open
    /\ h \in Streams /\ Exists(h) => socket[h].peer \in Streams
    /\ h \in Packets /\ Exists(h) => socket[h].peer \in Packets

\* The ends that wait in a listener's queue are open while the listener is,
\* and nobody has a handle on them; none waits twice.
WaitsIn(s, l) ==
    /\ ~Exists(s)
    /\ socket[s].peer \in Streams
    /\ socket[l].open => socket[s].open

Waiting(l) ==
    /\ socket[l].queue \in Seq(Streams)
    /\ \A i \in DOMAIN socket[l].queue : WaitsIn(socket[l].queue[i], l)

WaitingOnce ==
    \A l, m \in Listeners : \A i \in DOMAIN socket[l].queue, j \in DOMAIN socket[m].queue :
        socket[l].queue[i] = socket[m].queue[j] => l = m /\ i = j

SocketInv ==
    /\ socket \in [Sockets -> Socket]
    /\ \A h \in Sockets : SocketKnown(h)
    /\ \A l \in Listeners : Waiting(l)
    /\ WaitingOnce

HandleInv == CallInv /\ SocketInv /\ FilesTyped

LEMMA InvTypes == HandleInv => TypeOK
<1> SUFFICES ASSUME HandleInv PROVE TypeOK
  OBVIOUS
<1>1. CallsTyped(Reads \cup Writes \cup
          {"listen", "dial_tcp", "dial_udp", "accept", "close", "open", "read_file", "write_file"})
  BY DEF HandleInv, CallInv, CallsTyped, CallType, AllOps, Flags, Known
<1>2. SocketsTyped
  BY DEF HandleInv, CallInv, SocketInv, SocketsTyped, Known
<1> QED
  BY <1>1, <1>2 DEF HandleInv, TypeOK

LEMMA Apart ==
    /\ None \notin Handles /\ None # TRUE /\ None # FALSE
    /\ Sockets \subseteq Handles /\ FileHandles \subseteq Handles
    /\ Listeners \subseteq Sockets /\ Streams \subseteq Sockets /\ Packets \subseteq Sockets
    /\ Connected \subseteq Sockets
    /\ \A h \in Listeners : h \notin Streams /\ h \notin Packets /\ h \notin Connected
    /\ \A h \in Streams : h \notin Packets
    /\ \A h \in FileHandles : h \notin Sockets /\ h \notin Connected /\ h \notin Listeners
BY NoneIsNoHandle, SocketsAreHandles, SocketKindsDiffer, FileHandlesAreHandles, FilesAreNoSockets
   DEF Sockets, Connected

LEMMA InitHandles == Init => HandleInv
<1> SUFFICES ASSUME Init PROVE HandleInv
  OBVIOUS
<1>1. /\ closed = [h \in Handles |-> None] /\ call = [t \in Tasks |-> Idle("ok")]
      /\ socket = [h \in Sockets |-> NoSocket]
  BY DEF Init, CallsInit, SocketsInit
<1>2. Idle("ok") \in CallType
  BY DEF Idle, CallType, Outcomes
<1>3. Known(Idle("ok"), closed)
  BY DEF Idle, Known, Outcomes, Reads, Writes, Makers
<1>4. CallInv
  <2>1. \A t \in Tasks : call[t] = Idle("ok")
    BY <1>1
  <2>2. FileMutex
    BY <2>1 DEF FileMutex, Using, Idle
  <2> QED
    BY <1>1, <1>2, <1>3, <2>1, <2>2 DEF CallInv, Flags
<1>5. SocketInv
  <2>1. NoSocket \in Socket /\ NoSocket.queue = <<>> /\ DOMAIN <<>> = {}
    BY EmptySeq DEF NoSocket, Socket
  <2>2. \A h \in Sockets : SocketKnown(h)
    BY <1>1, Apart DEF SocketKnown, Exists
  <2>3. \A l \in Listeners : Waiting(l)
    BY <1>1, <2>1, EmptySeq, Apart DEF Waiting
  <2>4. WaitingOnce
    BY <1>1, <2>1, Apart DEF WaitingOnce
  <2> QED
    BY <1>1, <2>1, <2>2, <2>3, <2>4 DEF SocketInv
<1>6. FilesTyped
  <2>1. Whole("old") \in Seq(Contents)
    <3>1. Whole("old") \in [1 .. Pieces -> Contents] /\ Pieces \in Nat
      BY PiecesIsPositive DEF Whole, Contents
    <3> QED
      BY <3>1, IsASeq
  <2> QED
    BY <2>1, EmptySeq DEF Init, FilesInit, FilesTyped
<1> QED
  BY <1>4, <1>5, <1>6 DEF HandleInv

-----------------------------------------------------------------------------
(* What a step of one task does to the calls.                              *)

\* A flag is set once and for all, and that of a file only by a task that has
\* the file to itself.
FlagsAdvance(t) ==
    /\ closed' \in Flags
    /\ \A h \in Handles : Exists(h) => closed'[h] # None /\ (closed[h] = TRUE => closed'[h] = TRUE)
    /\ \A f \in FileHandles : closed[f] = FALSE /\ closed'[f] # FALSE =>
           \A u \in Tasks : u # t => ~Using(u, f)

LEMMA CallStep ==
    ASSUME CallInv, NEW t \in Tasks, NEW c \in CallType, call' = [call EXCEPT ![t] = c],
           FlagsAdvance(t), Known(c, closed'),
           c.on \in FileHandles /\ c.at \in {"io", "closing"} =>
               \A u \in Tasks : u # t => ~Using(u, c.on)
    PROVE  CallInv'
<1>1. /\ call' \in [Tasks -> CallType] /\ call'[t] = c
      /\ \A u \in Tasks : u # t => call'[u] = call[u]
  BY DEF CallInv
<1>2. ASSUME NEW u \in Tasks PROVE Known(call'[u], closed')
  <2>1. CASE u = t
    BY <1>1, <2>1
  <2>2. CASE u # t
    <3> DEFINE d == call[u]
    <3>1. call'[u] = d /\ d \in CallType /\ Known(d, closed)
      BY <1>1, <2>2 DEF CallInv
    <3>2. d.on # None => d.on \in Handles
      BY <3>1 DEF CallType
    <3>3. d.at = "io" /\ d.on \in FileHandles => Using(u, d.on)
      BY DEF Using
    <3> HIDE DEF d
    <3>4. d.on # None => closed'[d.on] # None /\ (closed[d.on] = TRUE => closed'[d.on] = TRUE)
      BY <3>1, <3>2 DEF FlagsAdvance, Known, Exists
    <3>5. d.at = "io" /\ d.on \in FileHandles => closed'[d.on] = FALSE
      BY <2>2, <3>1, <3>3 DEF FlagsAdvance, Known
    <3> QED
      BY <3>1, <3>4, <3>5 DEF Known
  <2> QED
    BY <2>1, <2>2
<1>3. FileMutex'
  <2> SUFFICES ASSUME NEW f \in FileHandles, NEW u \in Tasks, NEW v \in Tasks,
                      Using(u, f)', Using(v, f)', u # v
               PROVE  FALSE
    BY DEF FileMutex
  <2>1. \A w \in Tasks : w # t => (Using(w, f)' <=> Using(w, f))
    BY <1>1 DEF Using
  <2>2. Using(t, f)' => f = c.on /\ c.at \in {"io", "closing"}
    BY <1>1 DEF Using
  <2> QED
    BY <2>1, <2>2 DEF CallInv, FileMutex
<1> QED
  BY <1>1, <1>2, <1>3 DEF CallInv, FlagsAdvance

\* A call that only ends changes nothing for the others.
LEMMA EndStep ==
    ASSUME CallInv, NEW t \in Tasks, NEW outcome \in Outcomes, call' = Ended(t, outcome),
           FlagsAdvance(t)
    PROVE  CallInv'
<1>1. Idle(outcome) \in CallType /\ Idle(outcome).at = "idle"
  BY DEF Idle, CallType, Outcomes
<1>2. Known(Idle(outcome), closed')
  BY DEF Idle, Known, Outcomes, Reads, Writes, Makers
<1> QED
  BY <1>1, <1>2, CallStep DEF Ended

LEMMA FlagsKept == ASSUME CallInv, UNCHANGED closed, NEW t PROVE FlagsAdvance(t)
BY DEF CallInv, FlagsAdvance, Exists

\* A new native state is one that did not exist.
LEMMA FlagMade ==
    ASSUME CallInv, NEW h \in Handles, CanMake(h), closed' = Made(h), NEW t
    PROVE  /\ FlagsAdvance(t)
           /\ ~Exists(h) /\ closed'[h] = FALSE
           /\ \A g \in Handles : g # h => closed'[g] = closed[g]
<1>1. /\ ~Exists(h) /\ closed'[h] = FALSE /\ closed' \in Flags
      /\ \A g \in Handles : g # h => closed'[g] = closed[g]
  BY DEF CallInv, CanMake, Made, Flags
<1>2. FlagsAdvance(t)
  BY <1>1, Apart DEF FlagsAdvance, Exists
<1> QED
  BY <1>1, <1>2

\* What a call that begins is about.
Fits(op, h, to, size) ==
    /\ op \in AllOps /\ h \in Handles \cup {None} /\ to \in Handles \cup {None} /\ size \in Int
    /\ op \in Makers <=> h = None
    /\ h # None => Exists(h)
    /\ op \in Reads \cup Writes => h \in Connected
    /\ op = "accept" => h \in Listeners
    /\ op \in {"read_file", "write_file"} => h \in FileHandles
    /\ op = "write_file" => size = Pieces + 1
    /\ op \in Writes => size > 0
    /\ op = "dial_tcp" => to \in Listeners
    /\ op = "dial_udp" => to \in Packets
    /\ op \in Writes /\ h \in Packets => to \in Packets

LEMMA BeginStep ==
    ASSUME CallInv, NEW t \in Tasks, NEW op, NEW h, NEW to, NEW size,
           Begin(t, op, h, to, size), Fits(op, h, to, size)
    PROVE  CallInv'
<1> DEFINE c == [op |-> op, at |-> "called", on |-> h, to |-> to, size |-> size,
                 late |-> h # None /\ closed[h] = TRUE]
<1>1. call' = [call EXCEPT ![t] = c] /\ closed' = closed
  BY DEF Begin
<1>2. c \in CallType
  BY DEF CallType, Fits
<1>3. op \notin Outcomes
  BY DEF Fits, AllOps, Reads, Writes, Outcomes
<1>4. Known(c, closed')
  <2>1. Pieces + 1 \in 1 .. Pieces + 1
    BY PiecesIsPositive
  <2> QED
    BY <1>1, <1>3, <2>1 DEF Known, Fits, Exists
<1>5. c.at = "called"
  OBVIOUS
<1> HIDE DEF c
<1> QED
  BY <1>1, <1>2, <1>4, <1>5, FlagsKept, CallStep

\* A call that found the flag clear goes on; nobody else is in the file.
LEMMA ProceedStep ==
    ASSUME CallInv, NEW t \in Tasks, Proceeds(t), UNCHANGED closed,
           call[t].at = "called", call[t].on \in Handles, closed[call[t].on] # TRUE,
           call[t].on \in FileHandles => Unlocked(call[t].on)
    PROVE  CallInv'
<1> DEFINE c == [call[t] EXCEPT !.at = "io"]
<1>1. call[t] \in CallType /\ Known(call[t], closed) /\ closed \in Flags
  BY DEF CallInv
<1>2. /\ call' = [call EXCEPT ![t] = c] /\ c \in CallType /\ c.at = "io"
      /\ c.op = call[t].op /\ c.on = call[t].on /\ c.to = call[t].to
      /\ c.size = call[t].size /\ c.late = call[t].late
  BY <1>1 DEF Proceeds, CallInv, CallType
<1> HIDE DEF c
<1>3. closed[c.on] = FALSE /\ c.on # None
  BY <1>1, <1>2, Apart DEF Flags, Known
<1>4. c.late \in BOOLEAN
  BY <1>2 DEF CallType
<1>5. Known(c, closed')
  BY <1>1, <1>2, <1>3, <1>4 DEF Known
<1>6. c.on \in FileHandles => \A u \in Tasks : u # t => ~Using(u, c.on)
  BY <1>2 DEF Unlocked, Using
<1> QED
  BY <1>2, <1>5, <1>6, FlagsKept, CallStep

\* The task that sets the flag has a file to itself.
LEMMA TakeStep ==
    ASSUME CallInv, NEW t \in Tasks, TakesFlag(t), Calling(t, "close"),
           call[t].on \in Handles, call[t].on \in FileHandles => Unlocked(call[t].on)
    PROVE  /\ CallInv'
           /\ \A h \in Handles : closed'[h] = FALSE => closed[h] = FALSE
           /\ \A h \in Handles : Exists(h)' <=> Exists(h)
<1> DEFINE h == call[t].on
<1>1. call[t] \in CallType /\ Known(call[t], closed) /\ closed \in Flags /\ call[t].at = "called"
  BY DEF CallInv, Calling
<1>2. CASE closed[h] = TRUE
  <2>1. call' = Ended(t, "failed") /\ closed' = closed
    BY <1>2 DEF TakesFlag, Failed
  <2> QED
    BY <2>1, FlagsKept, EndStep DEF Outcomes, Exists
<1>3. CASE closed[h] # TRUE
  <2> DEFINE c == [call[t] EXCEPT !.at = "closing"]
  <2>1. /\ call' = [call EXCEPT ![t] = c] /\ c \in CallType /\ c.at = "closing"
        /\ c.op = "close" /\ c.on = h /\ c.late = call[t].late
    BY <1>1, <1>3 DEF TakesFlag, Calling, CallInv, CallType
  <2>2. closed' = [closed EXCEPT ![h] = TRUE]
    BY <1>3 DEF TakesFlag
  <2> HIDE DEF c
  <2>3. /\ closed' \in Flags /\ closed'[h] = TRUE /\ closed[h] = FALSE
        /\ \A g \in Handles : g # h => closed'[g] = closed[g]
    BY <1>1, <1>3, <2>2, Apart DEF Flags, Known
  <2>4. h \in FileHandles => \A u \in Tasks : u # t => ~Using(u, h)
    BY DEF Unlocked, Using
  <2>5. FlagsAdvance(t)
    BY <2>3, <2>4, Apart DEF FlagsAdvance, Exists
  <2>6. h # None /\ c.late = FALSE
    <3>1. call[t].late \in BOOLEAN
      BY <1>1 DEF CallType
    <3> QED
      BY <1>1, <2>1, <2>3, <3>1, Apart DEF Known
  <2>7. Known(c, closed')
    BY <1>1, <2>1, <2>3, <2>6, Apart DEF Known, Outcomes, Makers, Reads, Writes
  <2>8. CallInv'
    BY <2>1, <2>4, <2>5, <2>7, CallStep
  <2> QED
    BY <2>3, <2>8, Apart DEF Exists
<1> QED
  BY <1>2, <1>3

-----------------------------------------------------------------------------
(* What a step does to the sockets.                                        *)

LEMMA SocketsSame ==
    ASSUME SocketInv, UNCHANGED socket,
           \A h \in Handles : closed'[h] = FALSE => closed[h] = FALSE,
           \A h \in Handles : Exists(h)' <=> Exists(h)
    PROVE  SocketInv'
<1>1. \A h \in Sockets : SocketKnown(h)'
  BY Apart DEF SocketInv, SocketKnown
<1>2. ASSUME NEW l \in Listeners PROVE Waiting(l)'
  <2>1. \A i \in DOMAIN socket[l].queue : socket[l].queue[i] \in Handles
    BY Apart DEF SocketInv, Waiting
  <2> QED
    BY <2>1 DEF SocketInv, Waiting, WaitsIn
<1> QED
  BY <1>1, <1>2 DEF SocketInv, WaitingOnce

LEMMA OnceMeans ==
    ASSUME WaitingOnce, NEW l \in Listeners, NEW m \in Listeners,
           NEW i \in DOMAIN socket[l].queue, NEW j \in DOMAIN socket[m].queue,
           socket[l].queue[i] = socket[m].queue[j]
    PROVE  l = m /\ i = j
BY DEF WaitingOnce

\* Queues that stay or become empty hold nothing twice.
LEMMA OnceKept ==
    ASSUME WaitingOnce,
           \A l \in Listeners : socket'[l].queue = socket[l].queue \/ socket'[l].queue = <<>>
    PROVE  WaitingOnce'
<1> SUFFICES ASSUME NEW l \in Listeners, NEW m \in Listeners,
                    NEW i \in DOMAIN socket'[l].queue, NEW j \in DOMAIN socket'[m].queue,
                    socket'[l].queue[i] = socket'[m].queue[j]
             PROVE  l = m /\ i = j
  BY DEF WaitingOnce
<1>1. DOMAIN <<>> = {}
  OBVIOUS
<1>2. socket'[l].queue = socket[l].queue /\ socket'[m].queue = socket[m].queue
  BY <1>1
<1> QED
  BY <1>2 DEF WaitingOnce

\* Data moves through connections only.
LEMMA DataMoves ==
    ASSUME SocketInv, UNCHANGED closed, NEW h \in Connected, NEW q \in Seq({Data} \cup Streams),
           socket' = [socket EXCEPT ![h].queue = q]
    PROVE  SocketInv'
<1>1. /\ socket' \in [Sockets -> Socket]
      /\ \A g \in Sockets : socket'[g].open = socket[g].open /\ socket'[g].peer = socket[g].peer
      /\ \A l \in Listeners : socket'[l] = socket[l]
  <2>1. \A g \in Sockets : g # h => socket'[g] = socket[g]
    BY DEF SocketInv
  <2>2. h \in Sockets /\ socket[h] \in Socket
    BY Apart DEF SocketInv
  <2>3. socket'[h] = [socket[h] EXCEPT !.queue = q] /\ socket'[h] \in Socket
    BY <2>2 DEF SocketInv, Socket
  <2>4. socket'[h].open = socket[h].open /\ socket'[h].peer = socket[h].peer
    BY <2>2, <2>3 DEF Socket
  <2>5. socket' \in [Sockets -> Socket]
    BY <2>2, <2>3 DEF SocketInv
  <2> QED
    BY <2>1, <2>4, <2>5, Apart
<1>2. \A g \in Sockets : SocketKnown(g)'
  BY <1>1 DEF SocketInv, SocketKnown, Exists
<1>3. ASSUME NEW l \in Listeners PROVE Waiting(l)'
  <2>1. \A i \in DOMAIN socket[l].queue : socket[l].queue[i] \in Sockets
    BY Apart DEF SocketInv, Waiting
  <2> QED
    BY <1>1, <2>1, Apart DEF SocketInv, Waiting, WaitsIn, Exists
<1>4. WaitingOnce'
  BY <1>1, OnceKept DEF SocketInv
<1> QED
  BY <1>1, <1>2, <1>3, <1>4 DEF SocketInv

LEMMA LeavesQueue ==
    ASSUME NEW S, NEW q \in Seq(S), NEW n \in Nat, n <= Len(q)
    PROVE  /\ SubSeq(q, n + 1, Len(q)) \in Seq(S)
           /\ Len(SubSeq(q, n + 1, Len(q))) = Len(q) - n
           /\ \A i \in 1 .. Len(q) - n : SubSeq(q, n + 1, Len(q))[i] = q[n + i]
OBVIOUS

\* The end at the head of the queue gets a handle and waits no more.
LEMMA AcceptMoves ==
    ASSUME CallInv, SocketInv, NEW l \in Listeners, ~Closed(l), socket[l].queue # <<>>,
           closed' = Made(Head(socket[l].queue)), socket' = Leaves(l, 1)
    PROVE  SocketInv'
<1> DEFINE q == socket[l].queue
           s == Head(q)
           r == SubSeq(q, 2, Len(q))
<1>1. q \in Seq(Streams) /\ q # <<>> /\ Len(q) \in Nat \ {0} /\ s = q[1] /\ 1 \in DOMAIN q
  BY EmptySeq DEF SocketInv, Waiting
<1>2. /\ s \in Streams /\ s \in Handles /\ socket[s].peer \in Streams /\ socket[s].open
  BY <1>1, Apart DEF SocketInv, Waiting, WaitsIn, Closed
<1>3. /\ r \in Seq(Streams) /\ DOMAIN r = 1 .. Len(q) - 1
      /\ \A i \in 1 .. Len(q) - 1 : r[i] = q[i + 1] /\ i + 1 \in DOMAIN q
  BY <1>1
<1>4. /\ closed'[s] = FALSE /\ \A g \in Handles : g # s => closed'[g] = closed[g]
  BY <1>2 DEF CallInv, Made, Flags
<1> HIDE DEF s
<1>5. /\ \A g \in Sockets : socket'[g].open = socket[g].open /\ socket'[g].peer = socket[g].peer
      /\ socket' \in [Sockets -> Socket]
      /\ socket'[l].queue = r
      /\ \A g \in Sockets : g # l => socket'[g] = socket[g]
  <2>1. r \in Seq({Data} \cup Streams)
    BY <1>3, SeqMonotonic
  <2>2. socket' = [socket EXCEPT ![l].queue = r] /\ l \in Sockets /\ socket[l] \in Socket
    BY Apart DEF SocketInv, Leaves
  <2> HIDE DEF r
  <2>3. socket'[l] = [socket[l] EXCEPT !.queue = r] /\ \A g \in Sockets : g # l => socket'[g] = socket[g]
    BY <2>2 DEF SocketInv
  <2>4. /\ socket'[l] \in Socket /\ socket'[l].queue = r
        /\ socket'[l].open = socket[l].open /\ socket'[l].peer = socket[l].peer
    BY <2>1, <2>2, <2>3 DEF Socket
  <2> QED
    BY <2>2, <2>3, <2>4 DEF SocketInv
<1> HIDE DEF r
<1>6. \A g \in Sockets : SocketKnown(g)'
  BY <1>2, <1>4, <1>5, Apart DEF SocketInv, SocketKnown, Exists
\* What waits elsewhere, or behind it, is another end.
<1>7. ASSUME NEW m \in Listeners
      PROVE  /\ socket'[m].queue \in Seq(Streams)
             /\ \A i \in DOMAIN socket'[m].queue :
                    \E j \in DOMAIN socket[m].queue :
                        /\ socket'[m].queue[i] = socket[m].queue[j]
                        /\ j = IF m = l THEN i + 1 ELSE i
                        /\ socket[m].queue[j] # s
  <2>1. CASE m = l
    <3>1. ASSUME NEW i \in 1 .. Len(q) - 1 PROVE q[i + 1] # s
      <4>1. i + 1 \in DOMAIN q /\ i + 1 # 1
        BY <1>3
      <4> QED
        BY <1>1, <4>1 DEF SocketInv, WaitingOnce
    <3> QED
      BY <1>3, <1>5, <2>1, <3>1
  <2>2. CASE m # l
    <3>1. socket'[m].queue = socket[m].queue /\ socket[m].queue \in Seq(Streams)
      BY <1>5, <2>2, Apart DEF SocketInv, Waiting
    <3>2. \A i \in DOMAIN socket[m].queue : socket[m].queue[i] # s
      BY <1>1, <2>2 DEF SocketInv, WaitingOnce
    <3> QED
      BY <2>2, <3>1, <3>2
  <2> QED
    BY <2>1, <2>2
<1>8. ASSUME NEW m \in Listeners PROVE Waiting(m)'
  <2>1. ASSUME NEW e \in Streams, e # s, WaitsIn(e, m) PROVE WaitsIn(e, m)'
    BY <1>4, <1>5, <2>1, Apart DEF WaitsIn, Exists
  <2>2. ASSUME NEW i \in DOMAIN socket'[m].queue PROVE WaitsIn(socket[m].queue[i], m)'
    <3>1. PICK e \in Streams : e = socket'[m].queue[i] /\ e # s /\ WaitsIn(e, m)
      BY <1>7 DEF SocketInv, Waiting
    <3>2. WaitsIn(e, m)'
      BY <2>1, <3>1
    <3> QED
      BY <3>1, <3>2
  <2> QED
    BY <1>7, <2>2 DEF Waiting
<1>9. WaitingOnce'
  <2> SUFFICES ASSUME NEW m \in Listeners, NEW k \in Listeners,
                      NEW i \in DOMAIN socket'[m].queue, NEW j \in DOMAIN socket'[k].queue,
                      socket'[m].queue[i] = socket'[k].queue[j]
               PROVE  m = k /\ i = j
    BY DEF WaitingOnce
  <2>1. PICK a \in DOMAIN socket[m].queue :
            socket'[m].queue[i] = socket[m].queue[a] /\ a = IF m = l THEN i + 1 ELSE i
    BY <1>7
  <2>2. PICK b \in DOMAIN socket[k].queue :
            socket'[k].queue[j] = socket[k].queue[b] /\ b = IF k = l THEN j + 1 ELSE j
    BY <1>7
  <2>3. m = k /\ a = b
    BY <2>1, <2>2 DEF SocketInv, WaitingOnce
  <2>4. i \in Nat /\ j \in Nat
    <3>1. socket'[m].queue \in Seq(Streams) /\ socket'[k].queue \in Seq(Streams)
      BY <1>7
    <3> QED
      BY <3>1
  <2> QED
    BY <2>1, <2>2, <2>3, <2>4
<1> QED
  BY <1>5, <1>6, <1>8, <1>9 DEF SocketInv

Opened(peer) == [open |-> TRUE, peer |-> peer, queue |-> <<>>]

LEMMA OpenedType ==
    ASSUME NEW peer \in Connected \cup {None}
    PROVE  /\ Opened(peer) \in Socket
           /\ Opened(peer).open = TRUE /\ Opened(peer).peer = peer /\ Opened(peer).queue = <<>>
<1>1. <<>> \in Seq({Data} \cup Streams)
  BY EmptySeq
<1> QED
  BY <1>1 DEF Opened, Socket

\* What making a socket does to it.
LEMMA OpenedFrom ==
    /\ [NoSocket EXCEPT !.open = TRUE] = Opened(None)
    /\ \A peer \in Connected : [NoSocket EXCEPT !.open = TRUE, !.peer = peer] = Opened(peer)
<1>1. NoSocket \in Socket /\ <<>> \in Seq({Data} \cup Streams)
  BY EmptySeq DEF NoSocket, Socket
<1>2. ASSUME NEW a \in Socket, NEW b \in Socket,
             a.open = b.open, a.peer = b.peer, a.queue = b.queue
      PROVE  a = b
  BY <1>2 DEF Socket
<1>3. [NoSocket EXCEPT !.open = TRUE] = Opened(None)
  <2> DEFINE a == [NoSocket EXCEPT !.open = TRUE]
  <2>1. /\ a \in Socket /\ a.open = TRUE /\ a.peer = None /\ a.queue = <<>>
    BY <1>1 DEF NoSocket, Socket
  <2> HIDE DEF a
  <2>2. a = Opened(None)
    <3> DEFINE b == Opened(None)
    <3>1. b \in Socket /\ b.open = TRUE /\ b.peer = None /\ b.queue = <<>>
      BY OpenedType
    <3> HIDE DEF b
    <3>2. a = b
      BY <1>2, <2>1, <3>1
    <3> QED
      BY <3>2 DEF b
  <2> QED
    BY <2>2 DEF a
<1>4. ASSUME NEW peer \in Connected
      PROVE  [NoSocket EXCEPT !.open = TRUE, !.peer = peer] = Opened(peer)
  <2> DEFINE a == [NoSocket EXCEPT !.open = TRUE, !.peer = peer]
  <2>1. /\ a \in Socket /\ a.open = TRUE /\ a.peer = peer /\ a.queue = <<>>
    BY <1>1 DEF NoSocket, Socket
  <2> HIDE DEF a
  <2>2. a = Opened(peer)
    <3> DEFINE b == Opened(peer)
    <3>1. b \in Socket /\ b.open = TRUE /\ b.peer = peer /\ b.queue = <<>>
      BY OpenedType
    <3> HIDE DEF b
    <3>2. a = b
      BY <1>2, <2>1, <3>1
    <3> QED
      BY <3>2 DEF b
  <2> QED
    BY <2>2 DEF a
<1> QED
  BY <1>3, <1>4

\* A socket that is opened waits nowhere and keeps its queue.
LEMMA OpenMoves ==
    ASSUME CallInv, SocketInv, NEW h \in Listeners \cup Packets, CanMake(h),
           socket[h] = NoSocket, closed' = Made(h), NEW peer \in Packets \cup {None},
           h \in Packets => peer \in Packets,
           socket' = [g \in Sockets |-> IF g = h THEN Opened(peer) ELSE socket[g]]
    PROVE  SocketInv'
<1>1. /\ h \in Sockets /\ h \in Handles /\ h \notin Streams
  BY Apart
<1>2. /\ closed'[h] = FALSE /\ ~Exists(h)
      /\ \A g \in Handles : g # h => closed'[g] = closed[g]
  BY <1>1, FlagMade
<1>3. /\ socket'[h] \in Socket /\ socket'[h].queue = <<>>
      /\ socket'[h].open /\ socket'[h].peer = peer
      /\ \A g \in Sockets : g # h => socket'[g] = socket[g]
  <2>1. peer \in Connected \cup {None}
    BY DEF Connected
  <2> QED
    BY <1>1, <2>1, OpenedType
<1>4. socket' \in [Sockets -> Socket]
  BY <1>1, <1>3 DEF SocketInv
<1>5. \A g \in Sockets : SocketKnown(g)'
  BY <1>1, <1>2, <1>3, Apart DEF SocketInv, SocketKnown, Exists
<1>6. ASSUME NEW m \in Listeners
      PROVE  \/ m # h /\ socket'[m] = socket[m]
             \/ m = h /\ socket'[m].queue = <<>>
  BY <1>3, Apart
<1>7. ASSUME NEW m \in Listeners PROVE Waiting(m)'
  <2>1. CASE m = h /\ socket'[m].queue = <<>>
    <3>1. DOMAIN <<>> = {} /\ <<>> \in Seq(Streams)
      BY EmptySeq
    <3> QED
      BY <2>1, <3>1 DEF Waiting
  <2>2. CASE m # h /\ socket'[m] = socket[m]
    <3>1. ASSUME NEW e \in Streams, WaitsIn(e, m) PROVE WaitsIn(e, m)'
      <4>1. e # h /\ e \in Sockets /\ e \in Handles
        BY <1>1, Apart
      <4> QED
        BY <1>2, <1>3, <2>2, <3>1, <4>1 DEF WaitsIn, Exists
    <3>2. \A i \in DOMAIN socket[m].queue :
              socket[m].queue[i] \in Streams /\ WaitsIn(socket[m].queue[i], m)
      BY DEF SocketInv, Waiting
    <3>3. (\A i \in DOMAIN socket[m].queue : WaitsIn(socket[m].queue[i], m))'
      BY <2>2, <3>1, <3>2
    <3> QED
      BY <2>2, <3>3 DEF SocketInv, Waiting
  <2> QED
    BY <1>6, <2>1, <2>2
<1>8. WaitingOnce'
  BY <1>6, OnceKept DEF SocketInv
<1> QED
  BY <1>4, <1>5, <1>7, <1>8 DEF SocketInv

\* Both ends of a connection are new, and the far one waits in the queue.
Dialed(l, near, far) ==
    [g \in Sockets |->
        IF g = near THEN Opened(far)
        ELSE IF g = far THEN Opened(near)
        ELSE IF g = l THEN [socket[l] EXCEPT !.queue = Append(@, far)]
        ELSE socket[g]]

LEMMA DialMoves ==
    ASSUME CallInv, SocketInv, NEW l \in Listeners, ~Closed(l),
           NEW near \in Unused(Streams), NEW far \in Unused(Streams), near # far,
           closed' = Made(near),
           socket' = Dialed(l, near, far)
    PROVE  SocketInv'
<1> DEFINE q == socket[l].queue
           p == Append(q, far)
<1>1. /\ near \in Streams /\ far \in Streams /\ CanMake(near) /\ CanMake(far)
      /\ socket[near] = NoSocket /\ socket[far] = NoSocket
      /\ near \in Sockets /\ far \in Sockets /\ l \in Sockets /\ l # near /\ l # far
      /\ near \in Handles /\ far \in Handles
  BY Apart DEF Unused
<1>2. /\ closed'[near] = FALSE /\ ~Exists(near) /\ ~Exists(far)
      /\ \A g \in Handles : g # near => closed'[g] = closed[g]
  <2>1. ~Exists(far)
    BY <1>1 DEF CanMake
  <2> QED
    BY <1>1, <2>1, FlagMade
<1>3. /\ socket'[near] = Opened(far) /\ socket'[far] = Opened(near)
      /\ socket'[l] = [socket[l] EXCEPT !.queue = p]
      /\ \A g \in Sockets : g # near /\ g # far /\ g # l => socket'[g] = socket[g]
      /\ socket' = [g \in Sockets |-> socket'[g]]
  BY <1>1 DEF Dialed
<1>4. /\ q \in Seq(Streams) /\ p \in Seq(Streams) /\ Len(q) \in Nat
      /\ Len(p) = Len(q) + 1 /\ p[Len(q) + 1] = far
      /\ \A i \in 1 .. Len(q) : p[i] = q[i]
  <2>1. q \in Seq(Streams)
    BY DEF SocketInv, Waiting
  <2> QED
    BY <1>1, <2>1, AppendProperties
<1> HIDE DEF q, p
<1>5. /\ socket'[near] \in Socket /\ socket'[near].open /\ socket'[near].peer = far
      /\ socket'[far] \in Socket /\ socket'[far].open /\ socket'[far].peer = near
      /\ socket'[l] \in Socket /\ socket'[l].open /\ socket[l].open
      /\ socket'[l].peer = socket[l].peer /\ socket'[l].queue = p
  <2>1. near \in Connected \cup {None} /\ far \in Connected \cup {None}
    BY <1>1 DEF Connected
  <2>2. socket[l] \in Socket /\ socket[l].open
    BY <1>1 DEF SocketInv, Closed
  <2>3. p \in Seq({Data} \cup Streams)
    <3>1. Streams \subseteq {Data} \cup Streams
      OBVIOUS
    <3> QED
      BY <1>4, <3>1, SeqMonotonic
  <2>4. /\ socket'[l] \in Socket /\ socket'[l].open
        /\ socket'[l].peer = socket[l].peer /\ socket'[l].queue = p
    BY <1>3, <2>2, <2>3 DEF Socket
  <2> QED
    BY <1>3, <2>1, <2>2, <2>4, OpenedType, ZenonT(60)
<1>6. socket' \in [Sockets -> Socket]
  <2>1. \A g \in Sockets : socket'[g] \in Socket
    BY <1>3, <1>5 DEF SocketInv
  <2> QED
    BY <1>3, <2>1
<1>7. \A g \in Sockets : SocketKnown(g)'
  <2>1. SocketKnown(near)'
    BY <1>1, <1>5, Apart DEF SocketKnown
  <2>2. SocketKnown(far)'
    BY <1>1, <1>2, <1>5, Apart DEF SocketKnown, Exists
  <2>3. SocketKnown(l)'
    BY <1>1, <1>5, Apart DEF SocketKnown
  <2>4. ASSUME NEW g \in Sockets, g # near, g # far, g # l PROVE SocketKnown(g)'
    BY <1>2, <1>3, <2>4, Apart DEF SocketInv, SocketKnown, Exists
  <2> QED
    BY <2>1, <2>2, <2>3, <2>4
\* Neither end has waited before.
<1>8. \A m \in Listeners : \A i \in DOMAIN socket[m].queue :
          /\ socket[m].queue[i] \in Streams
          /\ socket[m].queue[i] # near /\ socket[m].queue[i] # far
          /\ WaitsIn(socket[m].queue[i], m)
  <2>1. NoSocket.peer \notin Streams
    BY Apart DEF NoSocket, Sockets, Connected
  <2>2. ASSUME NEW m, NEW e, WaitsIn(e, m) PROVE e # near /\ e # far
    BY <1>1, <2>1, <2>2 DEF WaitsIn
  <2> QED
    BY <2>2 DEF SocketInv, Waiting
<1>9. \A m \in Listeners : m # l => socket'[m] = socket[m]
  BY <1>1, <1>3, Apart
<1>10. ASSUME NEW m \in Listeners, NEW i \in DOMAIN socket'[m].queue
       PROVE  \/ i \in DOMAIN socket[m].queue /\ socket'[m].queue[i] = socket[m].queue[i]
              \/ m = l /\ i = Len(q) + 1 /\ socket'[m].queue[i] = far
  <2>1. \A k \in DOMAIN p : (k \in DOMAIN q /\ p[k] = q[k]) \/ (k = Len(q) + 1 /\ p[k] = far)
    BY <1>4
  <2>2. CASE m = l
    BY <1>5, <2>1, <2>2 DEF q
  <2>3. CASE m # l
    BY <1>9, <2>3
  <2> QED
    BY <2>2, <2>3
<1>11. ASSUME NEW m \in Listeners PROVE Waiting(m)'
  <2>1. ASSUME NEW e \in Streams, e # near, e # far, WaitsIn(e, m) PROVE WaitsIn(e, m)'
    <3>1. e \in Handles /\ e \in Sockets /\ e # l
      BY <1>1, Apart
    <3>2. socket'[m].open => socket[m].open
      BY <1>5, <1>9
    <3> QED
      BY <1>2, <1>3, <1>5, <2>1, <3>1, <3>2 DEF WaitsIn, Exists
  <2>2. WaitsIn(far, m)'
    BY <1>1, <1>2, <1>5 DEF WaitsIn, Exists
  <2>3. (\A i \in DOMAIN socket[m].queue : WaitsIn(socket[m].queue[i], m))'
    BY <1>8, <1>10, <2>1, <2>2
  <2>4. socket'[m].queue \in Seq(Streams)
    BY <1>4, <1>5, <1>9 DEF SocketInv, Waiting
  <2> QED
    BY <2>3, <2>4 DEF Waiting
<1>12. WaitingOnce'
  <2> SUFFICES ASSUME NEW m \in Listeners, NEW k \in Listeners,
                      NEW i \in DOMAIN socket'[m].queue, NEW j \in DOMAIN socket'[k].queue,
                      socket'[m].queue[i] = socket'[k].queue[j]
               PROVE  m = k /\ i = j
    BY DEF WaitingOnce
  <2>1. CASE i \in DOMAIN socket[m].queue /\ socket'[m].queue[i] = socket[m].queue[i]
    <3>1. j \in DOMAIN socket[k].queue /\ socket'[k].queue[j] = socket[k].queue[j]
      BY <1>8, <1>10, <2>1
    <3>2. socket[m].queue[i] = socket[k].queue[j] /\ WaitingOnce
      BY <2>1, <3>1 DEF SocketInv
    <3> QED
      BY <2>1, <3>1, <3>2, OnceMeans
  <2>2. CASE m = l /\ i = Len(q) + 1 /\ socket'[m].queue[i] = far
    BY <1>8, <1>10, <2>2
  <2> QED
    BY <1>10, <2>1, <2>2
<1> QED
  BY <1>6, <1>7, <1>11, <1>12 DEF SocketInv

\* Nobody has a handle on what is closed beside the handle's own socket.
LEMMA CloseMoves ==
    ASSUME SocketInv, UNCHANGED closed, NEW h \in Sockets, closed[h] = TRUE,
           socket' = SocketClosed(h)
    PROVE  /\ SocketInv'
           /\ ~socket'[h].open
           /\ \A g \in Sockets : g # h /\ Exists(g) => socket'[g].open = socket[g].open
<1> DEFINE Shut(s) == \/ s = h
                      \/ h \in Listeners /\ \E i \in DOMAIN socket[h].queue : socket[h].queue[i] = s
<1>1. ASSUME NEW s \in Sockets
      PROVE  socket'[s] = (IF Shut(s) THEN [socket[s] EXCEPT !.open = FALSE] ELSE socket[s])
  BY DEF SocketClosed
<1> HIDE DEF Shut
<1>2. \A s \in Sockets :
          /\ socket'[s] \in Socket /\ socket'[s].peer = socket[s].peer
          /\ socket'[s].queue = socket[s].queue
          /\ socket'[s].open = IF Shut(s) THEN FALSE ELSE socket[s].open
  <2> SUFFICES ASSUME NEW s \in Sockets
               PROVE  /\ socket'[s] \in Socket /\ socket'[s].peer = socket[s].peer
                      /\ socket'[s].queue = socket[s].queue
                      /\ socket'[s].open = IF Shut(s) THEN FALSE ELSE socket[s].open
    OBVIOUS
  <2>1. socket[s] \in Socket
    BY DEF SocketInv
  <2>2. CASE Shut(s)
    BY <1>1, <2>1, <2>2 DEF Socket
  <2>3. CASE ~Shut(s)
    BY <1>1, <2>1, <2>3
  <2> QED
    BY <2>2, <2>3
<1>3. socket' \in [Sockets -> Socket]
  BY <1>2 DEF SocketClosed
<1>4. \A s \in Sockets : Shut(s) /\ s # h => ~Exists(s)
  BY DEF SocketInv, Waiting, WaitsIn, Shut
<1>5. \A s \in Sockets : SocketKnown(s)'
  <2>1. \A s \in Sockets : closed[s] = FALSE => ~Shut(s)
    BY <1>4, Apart DEF Exists, Shut
  <2> QED
    BY <1>2, <2>1 DEF SocketInv, SocketKnown, Exists
<1>6. ASSUME NEW m \in Listeners PROVE Waiting(m)'
  <2>0. socket'[m].queue = socket[m].queue
    BY <1>2, Apart
  <2>1. ASSUME NEW i \in DOMAIN socket[m].queue PROVE WaitsIn(socket[m].queue[i], m)'
    <3>1. PICK e \in Streams : e = socket[m].queue[i] /\ WaitsIn(e, m)
      BY DEF SocketInv, Waiting
    <3>2. e # h /\ e \in Sockets /\ m \in Sockets
      BY <3>1, Apart DEF WaitsIn, Exists
    <3>3. m # h => ~Shut(e)
      BY <3>1, <3>2 DEF SocketInv, WaitingOnce, Shut
    <3>4. socket'[m].open => socket'[e].open
      <4>1. Shut(h)
        BY DEF Shut
      <4> QED
        BY <1>2, <3>1, <3>2, <3>3, <4>1 DEF WaitsIn
    <3>5. WaitsIn(e, m)'
      BY <1>2, <3>1, <3>2, <3>4 DEF WaitsIn, Exists
    <3> QED
      BY <2>0, <3>1, <3>5
  <2> QED
    BY <2>0, <2>1 DEF SocketInv, Waiting
<1>7. WaitingOnce'
  <2>1. \A m \in Listeners : socket'[m].queue = socket[m].queue
    BY <1>2, Apart
  <2> QED
    BY <2>1, OnceKept DEF SocketInv
<1>8. Shut(h)
  BY DEF Shut
<1> QED
  BY <1>2, <1>3, <1>4, <1>5, <1>6, <1>7, <1>8 DEF SocketInv

-----------------------------------------------------------------------------
(* What a step is to those who share the handles.                          *)

\* Nobody but the task that closes a socket changes whether it is open.
OpenKept == \A g \in Sockets : Exists(g) => socket'[g].open = socket[g].open

StepBegins(t) ==
    /\ \E op, h, to, size : Begin(t, op, h, to, size) /\ Fits(op, h, to, size)
    /\ UNCHANGED closed /\ OpenKept

StepFails(t) ==
    /\ call[t].at \in {"called", "io"}
    /\ call' = Ended(t, "failed")
    /\ UNCHANGED closed /\ OpenKept

StepGoesOn(t) ==
    /\ call[t].at \in {"called", "io"} /\ call[t].on # None
    /\ \E c \in CallType : /\ call' = [call EXCEPT ![t] = c]
                           /\ c.at = "io" /\ c.on = call[t].on /\ c.late = call[t].late
    /\ UNCHANGED closed /\ OpenKept

Usable(h) == IF h \in Sockets THEN socket[h].open ELSE closed[h] = FALSE

StepSucceeds(t) ==
    /\ call[t].at = "io" /\ Usable(call[t].on)
    /\ call' = Ended(t, "ok")
    /\ \/ UNCHANGED closed
       \/ \E h \in Handles : CanMake(h) /\ closed' = Made(h)
    /\ OpenKept

StepMakes(t) ==
    /\ call[t].at = "called" /\ call[t].on = None
    /\ call' = Ended(t, "ok")
    /\ \E h \in Handles : CanMake(h) /\ closed' = Made(h)
    /\ OpenKept

StepTakes(t) ==
    /\ call[t].at = "called"
    /\ call[t].on \in Sockets \cup FileHandles
    /\ TakesFlag(t)
    /\ OpenKept

StepReleases(t) ==
    /\ call[t].at = "closing"
    /\ call[t].on \in Sockets \cup FileHandles
    /\ call[t].on \in Sockets => ~socket'[call[t].on].open
    /\ \E outcome \in Outcomes : call' = Ended(t, outcome)
    /\ UNCHANGED closed
    /\ \A g \in Sockets : g # call[t].on /\ Exists(g) => socket'[g].open = socket[g].open

Step(t) ==
    \/ StepBegins(t) \/ StepFails(t) \/ StepGoesOn(t) \/ StepSucceeds(t)
    \/ StepMakes(t) \/ StepTakes(t) \/ StepReleases(t)

LEMMA CallFacts ==
    ASSUME HandleInv, NEW t \in Tasks
    PROVE  /\ CallInv /\ SocketInv /\ FilesTyped
           /\ call[t] \in CallType /\ Known(call[t], closed) /\ closed \in Flags
           /\ call[t].on # None => call[t].on \in Handles
BY DEF HandleInv, CallInv, CallType

LEMMA FilesSame == ASSUME FilesTyped, UNCHANGED fileVars PROVE FilesTyped'
BY DEF FilesTyped, fileVars

LEMMA NoSocketsMoved == ASSUME SocketInv, UNCHANGED <<closed, socket>> PROVE SocketInv' /\ OpenKept
BY SocketsSame DEF Exists, OpenKept

LEMMA OpsDiffer ==
    /\ Makers \cap Outcomes = {} /\ Makers \cap (Reads \cup Writes) = {} /\ Reads \cap Writes = {}
    /\ (Reads \cup Writes) \cap Outcomes = {} /\ "close" \notin Makers \cup Outcomes \cup Reads \cup Writes
    /\ "accept" \notin Makers \cup Outcomes \cup Reads \cup Writes
    /\ {"read_file", "write_file"} \cap (Makers \cup Outcomes \cup Reads \cup Writes) = {}
BY DEF Makers, Outcomes, Reads, Writes

-----------------------------------------------------------------------------
(* Calls begin, and fail.                                                  *)

LEMMA SocketCallsFit ==
    ASSUME HandleInv, NEW t \in Tasks, BeginSocketCall(t)
    PROVE  \E op, h, to, size : Begin(t, op, h, to, size) /\ Fits(op, h, to, size)
<1> USE OpsDiffer DEF Makers, Reads, Writes, AllOps
<1>0. SocketInv
  BY DEF HandleInv
<1>1. ASSUME NEW h \in Connected, Exists(h), NEW op \in Reads, NEW n \in Sizes, Begin(t, op, h, None, n)
      PROVE  Fits(op, h, None, n)
  BY <1>1, Apart, SizesAreIntegers DEF Fits
<1>2. ASSUME NEW h \in Connected, Exists(h), NEW n \in Lengths, Begin(t, "write", h, socket[h].peer, n)
      PROVE  Fits("write", h, socket[h].peer, n)
  <2>1. socket[h].peer \in Connected \cup {None}
    BY <1>0, Apart DEF SocketInv, Socket
  <2>2. socket[h].peer \in Handles \cup {None}
    BY <2>1, Apart
  <2>3. h \in Packets => socket[h].peer \in Packets
    BY <1>0, <1>2, Apart DEF SocketInv, SocketKnown
  <2> QED
    BY <1>2, <2>2, <2>3, Apart, LengthsArePositive DEF Fits
<1>3. ASSUME NEW h \in Connected, Exists(h), NEW n \in Lengths, NEW to \in Packets,
             Begin(t, "write_to", h, to, n)
      PROVE  Fits("write_to", h, to, n)
  BY <1>3, Apart, LengthsArePositive DEF Fits
<1>4. ASSUME NEW h \in Connected \cup Listeners, Exists(h) PROVE Fits("close", h, None, 0)
  BY <1>4, Apart DEF Fits
<1>5. ASSUME NEW l \in Listeners, Exists(l) PROVE Fits("accept", l, None, 0)
  BY <1>5, Apart DEF Fits
<1>6. Fits("listen", None, None, 0)
  BY Apart DEF Fits
<1>7. ASSUME NEW to \in Listeners PROVE Fits("dial_tcp", None, to, 0)
  BY Apart DEF Fits
<1>8. ASSUME NEW to \in Packets PROVE Fits("dial_udp", None, to, 0)
  BY Apart DEF Fits
<1> QED
  BY <1>1, <1>2, <1>3, <1>4, <1>5, <1>6, <1>7, <1>8 DEF BeginSocketCall

LEMMA FileCallsFit ==
    ASSUME HandleInv, NEW t \in Tasks, BeginFileCall(t)
    PROVE  \E op, h, to, size : Begin(t, op, h, to, size) /\ Fits(op, h, to, size)
<1> USE OpsDiffer DEF Makers, Reads, Writes, AllOps
<1>1. Fits("open", None, None, 0)
  BY Apart DEF Fits
<1>2. ASSUME NEW f \in FileHandles, Exists(f)
      PROVE  /\ Fits("read_file", f, None, 0) /\ Fits("write_file", f, None, Pieces + 1)
             /\ Fits("close", f, None, 0)
  BY <1>2, Apart, PiecesIsPositive DEF Fits
<1> QED
  BY <1>1, <1>2 DEF BeginFileCall

LEMMA BeginKeeps ==
    ASSUME HandleInv, NEW t \in Tasks,
           \/ BeginSocketCall(t) /\ UNCHANGED fileVars
           \/ BeginFileCall(t) /\ UNCHANGED socket
    PROVE  HandleInv' /\ StepBegins(t)
<1>1. UNCHANGED <<socket, fileVars>>
  BY DEF BeginSocketCall, BeginFileCall
<1>2. PICK op, h, to, size : Begin(t, op, h, to, size) /\ Fits(op, h, to, size)
  BY SocketCallsFit, FileCallsFit
<1>3. UNCHANGED closed
  BY <1>2 DEF Begin
<1>4. CallInv'
  BY <1>2, BeginStep DEF HandleInv
<1>5. SocketInv' /\ OpenKept
  BY <1>1, <1>3, NoSocketsMoved DEF HandleInv
<1>6. FilesTyped'
  BY <1>1, FilesSame DEF HandleInv
<1> QED
  BY <1>2, <1>3, <1>4, <1>5, <1>6 DEF HandleInv, StepBegins

\* A failure that leaves the sockets alone.
LEMMA FailKeeps ==
    ASSUME HandleInv, NEW t \in Tasks, call[t].at \in {"called", "io"}, Failed(t),
           UNCHANGED <<closed, socket>>, FilesTyped'
    PROVE  HandleInv' /\ StepFails(t)
<1>1. CallInv'
  BY FlagsKept, EndStep DEF HandleInv, Failed, Outcomes
<1>2. SocketInv' /\ OpenKept
  BY NoSocketsMoved DEF HandleInv
<1> QED
  BY <1>1, <1>2 DEF HandleInv, StepFails, Failed

LEMMA SocketFailsKeeps ==
    ASSUME HandleInv, NEW t \in Tasks, SocketFails(t), UNCHANGED fileVars
    PROVE  HandleInv' /\ StepFails(t)
BY FailKeeps, FilesSame DEF HandleInv, SocketFails, Calling

LEMMA FileFailsKeeps ==
    ASSUME HandleInv, NEW t \in Tasks, FileFails(t), UNCHANGED socket
    PROVE  HandleInv' /\ StepFails(t)
<1>1. call[t].at \in {"called", "io"} /\ Failed(t) /\ UNCHANGED <<closed, socket>>
  BY DEF FileFails, Calling, Working
<1>2. FilesTyped'
  <2>1. stored' \in {stored, None} /\ UNCHANGED <<disk, seen>>
    BY DEF FileFails
  <2> QED
    BY <2>1 DEF HandleInv, FilesTyped
<1> QED
  BY <1>1, <1>2, FailKeeps

LEMMA CheckKeeps ==
    ASSUME HandleInv, NEW t \in Tasks, Check(t), UNCHANGED fileVars
    PROVE  HandleInv' /\ (StepFails(t) \/ StepGoesOn(t))
<1>1. /\ call[t].at = "called" /\ call[t].on \in Sockets
      /\ UNCHANGED <<closed, socket>> /\ FilesTyped'
  BY FilesSame DEF HandleInv, Check
<1>2. CASE Failed(t)
  BY <1>1, <1>2, FailKeeps
<1>3. CASE ~Rejects(t) /\ Proceeds(t)
  <2>1. closed[call[t].on] # TRUE /\ call[t].on \in Handles /\ call[t].on \notin FileHandles
    BY <1>1, <1>3, Apart DEF Rejects
  <2>2. CallInv'
    BY <1>1, <1>3, <2>1, ProceedStep DEF HandleInv
  <2>3. SocketInv' /\ OpenKept
    BY <1>1, NoSocketsMoved DEF HandleInv
  <2>4. StepGoesOn(t)
    <3> DEFINE c == [call[t] EXCEPT !.at = "io"]
    <3>1. /\ call' = [call EXCEPT ![t] = c] /\ c \in CallType
          /\ c.at = "io" /\ c.on = call[t].on /\ c.late = call[t].late
      BY <1>3, CallFacts DEF Proceeds, CallInv, CallType
    <3>2. call[t].on # None
      BY <2>1, Apart
    <3> HIDE DEF c
    <3> QED
      BY <1>1, <2>3, <3>1, <3>2 DEF StepGoesOn
  <2> QED
    BY <1>1, <2>2, <2>3, <2>4 DEF HandleInv
<1> QED
  BY <1>2, <1>3 DEF Check

-----------------------------------------------------------------------------
(* Data moves.                                                             *)

\* A call that ends well after a move of data through one connection.
LEMMA DataEnds ==
    ASSUME HandleInv, NEW t \in Tasks, call[t].at = "io", call[t].on \in Sockets,
           socket[call[t].on].open, call' = Ended(t, "ok"), UNCHANGED <<closed, fileVars>>,
           SocketInv', OpenKept
    PROVE  HandleInv' /\ StepSucceeds(t)
<1>1. CallInv'
  BY FlagsKept, EndStep DEF HandleInv, Outcomes
<1>2. FilesTyped'
  BY FilesSame DEF HandleInv
<1> QED
  BY <1>1, <1>2 DEF HandleInv, StepSucceeds, Usable

\* The sockets after data arrived at, or left, a connection.
LEMMA DataArrives ==
    ASSUME SocketInv, UNCHANGED closed, NEW h \in Connected, socket' = Arrives(h, Data)
    PROVE  SocketInv' /\ OpenKept
<1>1. h \in Sockets /\ socket[h].queue \in Seq({Data} \cup Streams)
  BY Apart DEF SocketInv, Socket
<1>2. Append(socket[h].queue, Data) \in Seq({Data} \cup Streams)
  BY <1>1, AppendProperties
<1>3. socket' = [socket EXCEPT ![h].queue = Append(socket[h].queue, Data)]
  BY DEF Arrives
<1>4. OpenKept
  BY <1>1, <1>3 DEF OpenKept, SocketInv, Socket
<1> QED
  BY <1>2, <1>3, <1>4, DataMoves

LEMMA DataLeaves ==
    ASSUME SocketInv, UNCHANGED closed, NEW h \in Connected, NEW n \in Nat,
           n <= Len(socket[h].queue), socket' = Leaves(h, n)
    PROVE  SocketInv' /\ OpenKept
<1> DEFINE q == socket[h].queue
<1>1. h \in Sockets /\ q \in Seq({Data} \cup Streams)
  BY Apart DEF SocketInv, Socket
<1>2. SubSeq(q, n + 1, Len(q)) \in Seq({Data} \cup Streams)
  BY <1>1, LeavesQueue
<1>3. socket' = [socket EXCEPT ![h].queue = SubSeq(q, n + 1, Len(q))]
  BY DEF Leaves
<1>4. OpenKept
  BY <1>1, <1>3 DEF OpenKept, SocketInv, Socket
<1> QED
  BY <1>2, <1>3, <1>4, DataMoves

LEMMA ReadKeeps ==
    ASSUME HandleInv, NEW t \in Tasks, Read(t), UNCHANGED fileVars
    PROVE  HandleInv' /\ (StepFails(t) \/ StepSucceeds(t))
<1> DEFINE h == call[t].on
<1>0. /\ call[t].at = "io" /\ call[t].op \in Reads /\ UNCHANGED closed
      /\ IF h \in Streams THEN StreamRead(t, h) ELSE PacketRead(t, h)
  BY DEF Read, Working
<1>1. h \in Connected /\ h \in Sockets /\ SocketInv /\ call[t].size \in Int
  BY <1>0, CallFacts, Apart DEF Known, CallType
<1> HIDE DEF h
<1>2. CASE Failed(t) /\ UNCHANGED socket
  BY <1>0, <1>2, FailKeeps, FilesSame DEF HandleInv
<1>3. CASE ~Closed(h) /\ socket' = Leaves(h, 1) /\ socket[h].queue # <<>> /\ call' = Ended(t, "ok")
  <2>1. socket[h].queue \in Seq({Data} \cup Streams)
    BY <1>1 DEF SocketInv, Socket
  <2>2. 1 <= Len(socket[h].queue)
    BY <1>3, <2>1, EmptySeq
  <2>3. SocketInv' /\ OpenKept
    BY <1>0, <1>1, <1>3, <2>2, DataLeaves
  <2> QED
    BY <1>0, <1>1, <1>3, <2>3, DataEnds DEF Closed, h
<1>4. CASE /\ ~Closed(h) /\ call' = Ended(t, "ok")
           /\ \E n \in 0 .. call[t].size : n <= Len(socket[h].queue) /\ socket' = Leaves(h, n)
  <2>1. PICK n \in Nat : n <= Len(socket[h].queue) /\ socket' = Leaves(h, n)
    BY <1>1, <1>4
  <2>2. SocketInv' /\ OpenKept
    BY <1>0, <1>1, <2>1, DataLeaves
  <2> QED
    BY <1>0, <1>1, <1>4, <2>2, DataEnds DEF Closed, h
<1> QED
  BY <1>0, <1>2, <1>3, <1>4 DEF StreamRead, PacketRead

LEMMA WriteKeeps ==
    ASSUME HandleInv, NEW t \in Tasks, Write(t), UNCHANGED fileVars
    PROVE  HandleInv' /\ (StepFails(t) \/ StepSucceeds(t) \/ StepGoesOn(t))
<1> DEFINE h == call[t].on
<1>0. /\ call[t].at = "io" /\ call[t].op \in Writes /\ UNCHANGED closed
      /\ IF h \in Streams THEN StreamWrite(t, h) ELSE PacketWrite(t, h)
  BY DEF Write, Working
<1>1. /\ h \in Connected /\ h \in Sockets /\ SocketInv /\ h # None /\ Exists(h)
      /\ call[t].size \in Int /\ call[t].size > 0
      /\ h \in Packets => call[t].to \in Packets
  BY <1>0, CallFacts, Apart, OpsDiffer DEF Known, CallType, Exists
<1> HIDE DEF h
<1>2. CASE Failed(t) /\ UNCHANGED socket
  BY <1>0, <1>2, FailKeeps, FilesSame DEF HandleInv
<1>3. ASSUME ~Closed(h),
             UNCHANGED socket \/ \E g \in Connected : socket' = Arrives(g, Data)
      PROVE  SocketInv' /\ OpenKept
  BY <1>0, <1>1, <1>3, NoSocketsMoved, DataArrives
<1>4. CASE /\ h \in Streams /\ ~Closed(h)
           /\ UNCHANGED socket \/ socket' = Arrives(socket[h].peer, Data)
           /\ call' = Ended(t, "ok") \/ (call[t].size # 1 /\ call' = [call EXCEPT ![t].size = @ - 1])
  <2>1. socket[h].peer \in Connected
    BY <1>1, <1>4 DEF SocketInv, SocketKnown, Connected
  <2>2. SocketInv' /\ OpenKept
    BY <1>3, <1>4, <2>1
  <2>3. CASE call' = Ended(t, "ok")
    BY <1>0, <1>1, <1>4, <2>2, <2>3, DataEnds DEF Closed, h
  <2>4. CASE call[t].size # 1 /\ call' = [call EXCEPT ![t].size = @ - 1]
    <3> DEFINE c == [call[t] EXCEPT !.size = @ - 1]
    <3>1. call[t] \in CallType /\ Known(call[t], closed) /\ CallInv
      BY CallFacts
    <3>2. /\ c \in CallType /\ c.op = call[t].op /\ c.at = "io" /\ c.on = h
          /\ c.to = call[t].to /\ c.late = call[t].late /\ c.size = call[t].size - 1
      BY <1>0, <1>1, <3>1 DEF CallType, h
    <3>3. call' = [call EXCEPT ![t] = c]
      BY <2>4
    <3> HIDE DEF c
    <3>4. Known(c, closed')
      BY <1>0, <1>1, <2>4, <3>1, <3>2, OpsDiffer DEF Known, h
    <3>5. h \notin FileHandles
      BY <1>1, Apart
    <3>6. CallInv'
      BY <1>0, <3>1, <3>2, <3>3, <3>4, <3>5, FlagsKept, CallStep
    <3>7. StepGoesOn(t)
      BY <1>0, <1>1, <2>2, <3>2, <3>3 DEF StepGoesOn, h
    <3> QED
      BY <2>2, <3>6, <3>7, FilesSame DEF HandleInv
  <2> QED
    BY <1>4, <2>3, <2>4
<1>5. CASE /\ h \in Packets /\ ~Closed(h) /\ call' = Ended(t, "ok")
           /\ UNCHANGED socket \/ socket' = Arrives(call[t].to, Data)
  <2>1. call[t].to \in Connected
    BY <1>1, <1>5 DEF Connected
  <2>3. SocketInv' /\ OpenKept
    BY <1>3, <1>5, <2>1
  <2> QED
    BY <1>0, <1>1, <1>5, <2>3, DataEnds DEF Closed, h
<1>6. CASE h \in Streams
  BY <1>0, <1>2, <1>4, <1>6 DEF StreamWrite
<1>7. CASE h \notin Streams
  <2>1. h \in Packets
    BY <1>1, <1>7 DEF Connected
  <2> QED
    BY <1>0, <1>2, <1>5, <1>7, <2>1 DEF PacketWrite
<1> QED
  BY <1>6, <1>7

LEMMA AcceptKeeps ==
    ASSUME HandleInv, NEW t \in Tasks, Accept(t), UNCHANGED fileVars
    PROVE  HandleInv' /\ (StepFails(t) \/ StepSucceeds(t))
<1> DEFINE l == call[t].on
<1>0. call[t].at = "io" /\ call[t].op = "accept"
  BY DEF Accept, Working
<1>1. l \in Listeners /\ l \in Sockets /\ CallInv /\ SocketInv
  BY <1>0, CallFacts, Apart DEF Known
<1>2. \/ Failed(t) /\ UNCHANGED <<closed, socket>>
      \/ /\ ~Closed(l) /\ socket[l].queue # <<>> /\ CanMake(Head(socket[l].queue))
         /\ closed' = Made(Head(socket[l].queue)) /\ socket' = Leaves(l, 1)
         /\ call' = Ended(t, "ok")
  BY DEF Accept
<1> HIDE DEF l
<1>3. CASE Failed(t) /\ UNCHANGED <<closed, socket>>
  BY <1>0, <1>3, FailKeeps, FilesSame DEF HandleInv
<1>4. CASE /\ ~Closed(l) /\ socket[l].queue # <<>> /\ CanMake(Head(socket[l].queue))
           /\ closed' = Made(Head(socket[l].queue)) /\ socket' = Leaves(l, 1)
           /\ call' = Ended(t, "ok")
  <2> DEFINE s == Head(socket[l].queue)
  <2>1. s \in Handles
    <3>1. socket[l].queue \in Seq(Streams)
      BY <1>1 DEF SocketInv, Waiting
    <3>2. s \in Streams
      BY <1>4, <3>1, EmptySeq
    <3> QED
      BY <3>2, Apart
  <2>2. SocketInv'
    BY <1>1, <1>4, AcceptMoves
  <2>3. OpenKept
    BY <1>1, <1>4 DEF OpenKept, Leaves, SocketInv, Socket
  <2> HIDE DEF s
  <2>4. CanMake(s) /\ closed' = Made(s)
    BY <1>4 DEF s
  <2>5. FlagsAdvance(t)
    BY <1>1, <2>1, <2>4, FlagMade
  <2>6. CallInv'
    BY <1>1, <1>4, <2>5, EndStep DEF Outcomes
  <2>7. Usable(l)
    BY <1>1, <1>4 DEF Usable, Closed
  <2>8. StepSucceeds(t)
    BY <1>0, <1>4, <2>1, <2>3, <2>4, <2>7 DEF StepSucceeds, l
  <2> QED
    BY <2>2, <2>6, <2>8, FilesSame DEF HandleInv
<1> QED
  BY <1>2, <1>3, <1>4

-----------------------------------------------------------------------------
(* Sockets are closed and made.                                            *)

LEMMA TakeKeeps ==
    ASSUME HandleInv, NEW t \in Tasks, TakeSocketFlag(t), UNCHANGED fileVars
    PROVE  HandleInv' /\ StepTakes(t)
<1>1. /\ TakesFlag(t) /\ Calling(t, "close") /\ call[t].on \in Sockets /\ UNCHANGED socket
      /\ call[t].at = "called"
  BY DEF TakeSocketFlag, Calling
<1>2. call[t].on \in Handles /\ call[t].on \notin FileHandles
  BY <1>1, Apart
<1>3. /\ CallInv'
      /\ \A h \in Handles : closed'[h] = FALSE => closed[h] = FALSE
      /\ \A h \in Handles : Exists(h)' <=> Exists(h)
  BY <1>1, <1>2, TakeStep DEF HandleInv
<1>4. SocketInv'
  BY <1>1, <1>3, SocketsSame DEF HandleInv
<1>5. OpenKept
  BY <1>1 DEF OpenKept
<1> QED
  BY <1>1, <1>3, <1>4, <1>5, FilesSame DEF HandleInv, StepTakes

LEMMA CloseKeeps ==
    ASSUME HandleInv, NEW t \in Tasks, CloseSocket(t), UNCHANGED fileVars
    PROVE  HandleInv' /\ StepReleases(t)
<1> DEFINE h == call[t].on
<1>1. /\ call[t].at = "closing" /\ h \in Sockets /\ UNCHANGED closed
      /\ socket' = SocketClosed(h) /\ \E outcome \in Outcomes : call' = Ended(t, outcome)
  BY DEF CloseSocket
<1>2. closed[h] = TRUE
  BY <1>1, CallFacts DEF Known
<1> HIDE DEF h
<1>3. /\ SocketInv' /\ ~socket'[h].open
      /\ \A g \in Sockets : g # h /\ Exists(g) => socket'[g].open = socket[g].open
  BY <1>1, <1>2, CloseMoves DEF HandleInv
<1>4. CallInv'
  BY <1>1, FlagsKept, EndStep DEF HandleInv
<1>5. StepReleases(t)
  BY <1>1, <1>3 DEF StepReleases, h
<1> QED
  BY <1>3, <1>4, <1>5, FilesSame DEF HandleInv

\* A call ends that made a native state.
LEMMA MakeKeeps ==
    ASSUME HandleInv, NEW t \in Tasks, call[t].at = "called", call[t].op \in Makers,
           call' = Ended(t, "ok"), NEW h \in Handles, CanMake(h), closed' = Made(h),
           SocketInv', OpenKept, UNCHANGED fileVars
    PROVE  HandleInv' /\ StepMakes(t)
<1>1. FlagsAdvance(t)
  BY FlagMade DEF HandleInv
<1>2. CallInv'
  BY <1>1, EndStep DEF HandleInv, Outcomes
<1>3. call[t].on = None
  BY CallFacts DEF Known
<1> QED
  BY <1>2, <1>3, FilesSame DEF HandleInv, StepMakes

LEMMA OpenedKeeps ==
    ASSUME HandleInv, NEW t \in Tasks, call[t].at = "called", call[t].op \in Makers,
           call' = Ended(t, "ok"), NEW h \in Listeners \cup Packets, h \in Unused(Listeners) \cup Unused(Packets),
           closed' = Made(h), NEW peer \in Packets \cup {None}, h \in Packets => peer \in Packets,
           socket' = [g \in Sockets |-> IF g = h THEN Opened(peer) ELSE socket[g]],
           UNCHANGED fileVars
    PROVE  HandleInv' /\ StepMakes(t)
<1>1. CanMake(h) /\ socket[h] = NoSocket /\ h \in Handles
  BY Apart DEF Unused
<1>2. SocketInv'
  BY <1>1, OpenMoves DEF HandleInv
<1>3. OpenKept
  <2>1. ~Exists(h)
    BY <1>1 DEF CanMake
  <2> QED
    BY <2>1 DEF OpenKept
<1> QED
  BY <1>1, <1>2, <1>3, MakeKeeps

LEMMA ListenKeeps ==
    ASSUME HandleInv, NEW t \in Tasks, Listen(t), UNCHANGED fileVars
    PROVE  HandleInv' /\ StepMakes(t)
<1> DEFINE l == CHOOSE h \in Unused(Listeners) : TRUE
<1>1. /\ call[t].at = "called" /\ call[t].op \in Makers /\ call' = Ended(t, "ok")
      /\ l \in Unused(Listeners) /\ closed' = Made(l)
      /\ socket' = [socket EXCEPT ![l].open = TRUE]
  BY DEF Listen, Calling, Makers
<1> HIDE DEF l
<1>2. l \in Listeners /\ l \in Sockets /\ l \notin Packets /\ socket[l] = NoSocket
  BY <1>1, Apart DEF Unused
<1>3. [socket[l] EXCEPT !.open = TRUE] = Opened(None)
  BY <1>2, OpenedFrom
<1>4. socket' = [g \in Sockets |-> IF g = l THEN Opened(None) ELSE socket[g]]
  <2>1. socket \in [Sockets -> Socket]
    BY DEF HandleInv, SocketInv
  <2> QED
    BY <1>1, <1>3, <2>1
<1> QED
  BY <1>1, <1>2, <1>4, OpenedKeeps, ZenonT(60)

LEMMA DialUDPKeeps ==
    ASSUME HandleInv, NEW t \in Tasks, DialUDP(t), UNCHANGED fileVars
    PROVE  HandleInv' /\ StepMakes(t)
<1> DEFINE p == CHOOSE h \in Unused(Packets) : TRUE
           to == call[t].to
<1>1. /\ call[t].at = "called" /\ call[t].op = "dial_udp" /\ call' = Ended(t, "ok")
      /\ p \in Unused(Packets) /\ closed' = Made(p)
      /\ socket' = [socket EXCEPT ![p] = [@ EXCEPT !.open = TRUE, !.peer = to]]
  BY DEF DialUDP, Calling
<1> HIDE DEF p
<1>2. p \in Packets /\ p \in Sockets /\ socket[p] = NoSocket
  BY <1>1, Apart DEF Unused
<1>3. to \in Packets
  BY <1>1, CallFacts DEF Known
<1>4. call[t].op \in Makers
  BY <1>1 DEF Makers
<1> HIDE DEF to
<1>5. [socket[p] EXCEPT !.open = TRUE, !.peer = to] = Opened(to)
  BY <1>2, <1>3, OpenedFrom DEF Connected
<1>6. socket' = [g \in Sockets |-> IF g = p THEN Opened(to) ELSE socket[g]]
  <2>1. socket \in [Sockets -> Socket]
    BY DEF HandleInv, SocketInv
  <2> QED
    BY <1>1, <1>5, <2>1
<1> QED
  <2>1. /\ p \in Listeners \cup Packets /\ p \in Unused(Listeners) \cup Unused(Packets)
        /\ to \in Packets \cup {None} /\ closed' = Made(p)
    BY <1>1, <1>2, <1>3
  <2>2. call[t].at = "called" /\ call[t].op \in Makers /\ call' = Ended(t, "ok")
    BY <1>1, <1>4
  <2> HIDE DEF to
  <2> QED
    BY <1>3, <1>6, <2>1, <2>2, OpenedKeeps

LEMMA DialTCPKeeps ==
    ASSUME HandleInv, NEW t \in Tasks, DialTCP(t), UNCHANGED fileVars
    PROVE  HandleInv' /\ (StepFails(t) \/ StepMakes(t))
<1> DEFINE l == call[t].to
           near == CHOOSE h \in Unused(Streams) : TRUE
           far == CHOOSE h \in Unused(Streams) : h # near
<1>1. /\ call[t].at = "called" /\ call[t].op = "dial_tcp" /\ call[t].op \in Makers
      /\ SocketInv /\ CallInv
  BY DEF DialTCP, Calling, Makers, HandleInv
<1>2. l \in Listeners /\ l \in Sockets
  BY <1>1, CallFacts, Apart DEF Known
<1>3. \/ Failed(t) /\ UNCHANGED <<closed, socket>>
      \/ /\ ~Closed(l) /\ (\E h \in Unused(Streams) : h # near)
         /\ closed' = Made(near)
         /\ socket' = [Arrives(l, far) EXCEPT ![near] = [@ EXCEPT !.open = TRUE, !.peer = far],
                                              ![far] = [@ EXCEPT !.open = TRUE, !.peer = near]]
         /\ call' = Ended(t, "ok")
  BY DEF DialTCP
<1>4. (\E h \in Unused(Streams) : h # near)
          => near \in Unused(Streams) /\ far \in Unused(Streams) /\ near # far
  OBVIOUS
<1> HIDE DEF l, near, far
<1>5. CASE Failed(t) /\ UNCHANGED <<closed, socket>>
  BY <1>1, <1>5, FailKeeps, FilesSame DEF HandleInv
<1>6. CASE /\ ~Closed(l) /\ (\E h \in Unused(Streams) : h # near)
           /\ closed' = Made(near)
           /\ socket' = [Arrives(l, far) EXCEPT ![near] = [@ EXCEPT !.open = TRUE, !.peer = far],
                                                ![far] = [@ EXCEPT !.open = TRUE, !.peer = near]]
           /\ call' = Ended(t, "ok")
  <2>1. /\ near \in Unused(Streams) /\ far \in Unused(Streams) /\ near # far
        /\ near \in Streams /\ far \in Streams /\ near \in Sockets /\ far \in Sockets
        /\ near \in Handles /\ l # near /\ l # far
        /\ CanMake(near) /\ socket[near] = NoSocket /\ socket[far] = NoSocket
    BY <1>2, <1>4, <1>6, Apart DEF Unused
  <2>2. socket \in [Sockets -> Socket]
    BY <1>1 DEF SocketInv
  <2>3. [socket[near] EXCEPT !.open = TRUE, !.peer = far] = Opened(far)
    BY <2>1, OpenedFrom DEF Connected
  <2>4. [socket[far] EXCEPT !.open = TRUE, !.peer = near] = Opened(near)
    BY <2>1, OpenedFrom DEF Connected
  <2>5. socket' = Dialed(l, near, far)
    <3>1. Arrives(l, far) = [g \in Sockets |->
              IF g = l THEN [socket[l] EXCEPT !.queue = Append(@, far)] ELSE socket[g]]
      BY <1>2, <2>2 DEF Arrives
    <3> DEFINE a == Arrives(l, far)
    <3>2. a[near] = socket[near] /\ a[far] = socket[far]
      BY <2>1, <3>1
    <3>3. socket' = [a EXCEPT ![near] = [a[near] EXCEPT !.open = TRUE, !.peer = far],
                              ![far] = [a[far] EXCEPT !.open = TRUE, !.peer = near]]
      BY <1>6, <2>1
    <3>4. DOMAIN a = Sockets
      BY <3>1
    <3> HIDE DEF a
    <3>5. socket' = [a EXCEPT ![near] = Opened(far), ![far] = Opened(near)]
      BY <2>3, <2>4, <3>2, <3>3
    <3>6. socket' = [g \in Sockets |-> IF g = near THEN Opened(far)
                                       ELSE IF g = far THEN Opened(near) ELSE a[g]]
      BY <2>1, <3>4, <3>5
    <3>7. \A g \in Sockets : a[g] = IF g = l THEN [socket[l] EXCEPT !.queue = Append(@, far)] ELSE socket[g]
      BY <3>1 DEF a
    <3> QED
      BY <3>6, <3>7 DEF Dialed
  <2>6. SocketInv'
    BY <1>1, <1>2, <1>6, <2>1, <2>5, DialMoves
  <2>7. OpenKept
    <3>1. ~Exists(near) /\ ~Exists(far)
      BY <2>1 DEF Unused, CanMake
    <3>2. socket'[l] = [socket[l] EXCEPT !.queue = Append(@, far)]
      BY <1>2, <2>1, <2>5 DEF Dialed
    <3>3. socket'[l].open = socket[l].open
      BY <1>2, <2>2, <3>2 DEF Socket
    <3>4. \A g \in Sockets : g # near /\ g # far /\ g # l => socket'[g] = socket[g]
      BY <2>5 DEF Dialed
    <3> QED
      BY <3>1, <3>3, <3>4 DEF OpenKept
  <2> QED
    BY <1>1, <1>6, <2>1, <2>6, <2>7, MakeKeeps
<1> QED
  BY <1>3, <1>5, <1>6


-----------------------------------------------------------------------------
(* Files.                                                                  *)

LEMMA OpenFileKeeps ==
    ASSUME HandleInv, NEW t \in Tasks, OpenFile(t), UNCHANGED socket
    PROVE  HandleInv' /\ StepMakes(t)
<1> DEFINE f == CHOOSE g \in FileHandles : CanMake(g)
<1>1. /\ call[t].at = "called" /\ call[t].op \in Makers /\ call' = Ended(t, "ok")
      /\ f \in FileHandles /\ CanMake(f) /\ closed' = Made(f) /\ UNCHANGED fileVars
  BY DEF OpenFile, Calling, Makers
<1> HIDE DEF f
<1>2. f \in Handles /\ f \notin Sockets
  BY <1>1, Apart
<1>3. \A g \in Sockets : closed'[g] = closed[g]
  BY <1>1, <1>2, FlagMade, Apart DEF HandleInv
<1>4. SocketInv'
  <2>1. \A g \in Sockets : SocketKnown(g)'
    BY <1>3 DEF HandleInv, SocketInv, SocketKnown, Exists
  <2>2. ASSUME NEW l \in Listeners PROVE Waiting(l)'
    <3>1. \A i \in DOMAIN socket[l].queue : socket[l].queue[i] \in Sockets
      BY Apart DEF HandleInv, SocketInv, Waiting
    <3> QED
      BY <1>3, <3>1 DEF HandleInv, SocketInv, Waiting, WaitsIn, Exists
  <2> QED
    BY <2>1, <2>2 DEF HandleInv, SocketInv, WaitingOnce
<1>5. OpenKept
  BY DEF OpenKept
<1> QED
  BY <1>1, <1>2, <1>4, <1>5, MakeKeeps

\* A call that keeps its handle, its time of beginning and the mutex.
LEMMA GoOnKeeps ==
    ASSUME HandleInv, NEW t \in Tasks, call[t].at = "io", NEW c \in CallType,
           call' = [call EXCEPT ![t] = c], c.at = "io", c.on = call[t].on, c.late = call[t].late,
           Known(c, closed), UNCHANGED <<closed, socket>>, FilesTyped'
    PROVE  HandleInv' /\ StepGoesOn(t)
<1>1. CallInv /\ Known(call[t], closed) /\ FlagsAdvance(t)
  BY FlagsKept, CallFacts
<1>2. c.on \in FileHandles => \A u \in Tasks : u # t => ~Using(u, c.on)
  BY <1>1 DEF CallInv, FileMutex, Using
<1>3. Known(c, closed')
  OBVIOUS
<1>4. CallInv'
  BY <1>1, <1>2, <1>3, CallStep
<1>5. SocketInv' /\ OpenKept
  BY NoSocketsMoved DEF HandleInv
<1>6. call[t].on # None
  BY <1>1 DEF Known
<1> QED
  BY <1>4, <1>5, <1>6 DEF HandleInv, StepGoesOn

\* A call on a file ends well.
LEMMA FileEnds ==
    ASSUME HandleInv, NEW t \in Tasks, call[t].at = "io", call[t].on \in FileHandles,
           call' = Ended(t, "ok"), UNCHANGED <<closed, socket>>, FilesTyped'
    PROVE  HandleInv' /\ StepSucceeds(t)
<1>1. CallInv'
  BY FlagsKept, EndStep DEF HandleInv, Outcomes
<1>2. SocketInv' /\ OpenKept
  BY NoSocketsMoved DEF HandleInv
<1>3. Usable(call[t].on)
  BY CallFacts, Apart DEF Known, Usable
<1> QED
  BY <1>1, <1>2, <1>3 DEF HandleInv, StepSucceeds

LEMMA LockKeeps ==
    ASSUME HandleInv, NEW t \in Tasks, LockFile(t), UNCHANGED socket
    PROVE  HandleInv' /\ (StepFails(t) \/ StepGoesOn(t) \/ StepTakes(t))
<1>1. /\ call[t].at = "called" /\ call[t].on \in FileHandles /\ Unlocked(call[t].on)
      /\ call[t].on \in Handles /\ call[t].on # None
      /\ CallInv /\ call[t] \in CallType
  BY CallFacts, Apart DEF LockFile
<1>2. FilesTyped'
  <2>1. seen' = [seen EXCEPT ![call[t].on] = <<>>] /\ UNCHANGED <<disk, stored>>
    BY DEF LockFile
  <2> QED
    BY <2>1, EmptySeq DEF HandleInv, FilesTyped
<1>3. CASE call[t].op = "close" /\ TakesFlag(t)
  <2>1. /\ CallInv'
        /\ \A h \in Handles : closed'[h] = FALSE => closed[h] = FALSE
        /\ \A h \in Handles : Exists(h)' <=> Exists(h)
    BY <1>1, <1>3, TakeStep DEF Calling
  <2>2. SocketInv' /\ OpenKept
    BY <2>1, SocketsSame DEF HandleInv, OpenKept
  <2> QED
    BY <1>1, <1>2, <1>3, <2>1, <2>2 DEF HandleInv, StepTakes
<1>4. CASE Failed(t) /\ UNCHANGED closed
  BY <1>1, <1>2, <1>4, FailKeeps
<1>5. CASE closed[call[t].on] # TRUE /\ Proceeds(t) /\ UNCHANGED closed
  <2>1. CallInv'
    BY <1>1, <1>5, ProceedStep
  <2>2. SocketInv' /\ OpenKept
    BY <1>5, NoSocketsMoved DEF HandleInv
  <2>3. StepGoesOn(t)
    <3> DEFINE c == [call[t] EXCEPT !.at = "io"]
    <3>1. /\ call' = [call EXCEPT ![t] = c] /\ c \in CallType
          /\ c.at = "io" /\ c.on = call[t].on /\ c.late = call[t].late
      BY <1>1, <1>5 DEF Proceeds, CallInv, CallType
    <3> HIDE DEF c
    <3> QED
      BY <1>1, <1>5, <2>2, <3>1 DEF StepGoesOn
  <2> QED
    BY <1>2, <2>1, <2>2, <2>3 DEF HandleInv
<1> QED
  BY <1>3, <1>4, <1>5 DEF LockFile

LEMMA ReadFileKeeps ==
    ASSUME HandleInv, NEW t \in Tasks, ReadFile(t), UNCHANGED socket
    PROVE  HandleInv' /\ (StepSucceeds(t) \/ StepGoesOn(t))
<1> DEFINE f == call[t].on
           offset == Len(seen[f])
<1>1. call[t].at = "io" /\ call[t].op = "read_file" /\ UNCHANGED <<closed, disk, stored>>
  BY DEF ReadFile, Working
<1>2. f \in FileHandles /\ FilesTyped /\ call[t] \in CallType /\ Known(call[t], closed) /\ CallInv
  BY <1>1, CallFacts DEF Known
<1>3. CASE call' = Ended(t, "ok") /\ UNCHANGED seen
  <2>1. FilesTyped'
    BY <1>1, <1>3, FilesSame DEF HandleInv, fileVars
  <2> QED
    BY <1>1, <1>2, <1>3, <2>1, FileEnds
<1>4. CASE /\ \E n \in offset + 1 .. Len(disk) :
                  seen' = [seen EXCEPT ![f] = @ \o SubSeq(disk, offset + 1, n)]
           /\ UNCHANGED call
  <2>1. PICK n \in offset + 1 .. Len(disk) :
            seen' = [seen EXCEPT ![f] = @ \o SubSeq(disk, offset + 1, n)]
    BY <1>4
  <2>2. seen[f] \in Seq(Contents) /\ disk \in Seq(Contents)
    BY <1>2 DEF FilesTyped
  <2>3. SubSeq(disk, offset + 1, n) \in Seq(Contents)
    BY <2>1, <2>2
  <2>4. seen[f] \o SubSeq(disk, offset + 1, n) \in Seq(Contents)
    BY <2>2, <2>3
  <2>5. FilesTyped'
    BY <1>1, <1>2, <2>1, <2>4 DEF FilesTyped
  <2>6. call' = [call EXCEPT ![t] = call[t]]
    BY <1>2, <1>4 DEF CallInv
  <2> QED
    BY <1>1, <1>2, <2>5, <2>6, GoOnKeeps
<1> QED
  BY <1>3, <1>4 DEF ReadFile

LEMMA WrittenTyped ==
    ASSUME disk \in Seq(Contents), NEW offset \in Nat
    PROVE  Written(offset) \in Seq(Contents)
<1> DEFINE n == IF Len(disk) > offset THEN Len(disk) ELSE offset + 1
<1>1. n \in Nat
  OBVIOUS
<1>2. Written(offset) \in [1 .. n -> Contents]
  BY DEF Written, Contents
<1> HIDE DEF n
<1> QED
  BY <1>1, <1>2, IsASeq

LEMMA WriteFileKeeps ==
    ASSUME HandleInv, NEW t \in Tasks, WriteFile(t), UNCHANGED socket
    PROVE  HandleInv' /\ (StepSucceeds(t) \/ StepGoesOn(t))
<1>1. call[t].at = "io" /\ call[t].op = "write_file" /\ UNCHANGED <<closed, seen>>
  BY DEF WriteFile, Working
<1>2. /\ call[t].on \in FileHandles /\ FilesTyped /\ call[t] \in CallType /\ Known(call[t], closed)
      /\ CallInv /\ call[t].size \in 1 .. Pieces + 1
  BY <1>1, CallFacts DEF Known
<1>3. disk' \in Seq(Contents)
  <2>1. CASE call[t].size > Pieces
    BY <2>1, EmptySeq DEF WriteFile
  <2>2. CASE ~(call[t].size > Pieces)
    <3>1. Pieces - call[t].size \in Nat
      BY <1>2, <2>2, PiecesIsPositive
    <3>2. disk' = Written(Pieces - call[t].size)
      BY <2>2 DEF WriteFile
    <3> QED
      BY <1>2, <3>1, <3>2, WrittenTyped DEF FilesTyped
  <2> QED
    BY <2>1, <2>2
<1>4. FilesTyped'
  <2>1. stored' \in {stored, Whole("new")}
    BY DEF WriteFile
  <2>2. Whole("new")' = Whole("new") /\ Whole("old")' = Whole("old")
    BY DEF Whole
  <2> QED
    BY <1>1, <1>2, <1>3, <2>1, <2>2 DEF FilesTyped
<1>5. CASE call' = Ended(t, "ok")
  BY <1>1, <1>2, <1>4, <1>5, FileEnds
<1>6. CASE call[t].size # 1 /\ call' = [call EXCEPT ![t].size = @ - 1]
  <2> DEFINE c == [call[t] EXCEPT !.size = @ - 1]
  <2>1. /\ c \in CallType /\ c.op = call[t].op /\ c.at = "io" /\ c.on = call[t].on
        /\ c.to = call[t].to /\ c.late = call[t].late /\ c.size = call[t].size - 1
    BY <1>1, <1>2 DEF CallType
  <2>2. call' = [call EXCEPT ![t] = c]
    BY <1>6
  <2> HIDE DEF c
  <2>3. c.size \in 1 .. Pieces + 1
    BY <1>2, <1>6, <2>1, PiecesIsPositive
  <2>4. Known(c, closed)
    BY <1>1, <1>2, <2>1, <2>3, OpsDiffer DEF Known
  <2> QED
    BY <1>1, <1>4, <2>1, <2>2, <2>4, GoOnKeeps
<1> QED
  BY <1>5, <1>6 DEF WriteFile

LEMMA CloseFileKeeps ==
    ASSUME HandleInv, NEW t \in Tasks, CloseFile(t), UNCHANGED socket
    PROVE  HandleInv' /\ StepReleases(t)
<1>1. /\ call[t].at = "closing" /\ call[t].on \in FileHandles /\ UNCHANGED <<closed, fileVars>>
      /\ \E outcome \in Outcomes : call' = Ended(t, outcome)
  BY DEF CloseFile
<1>2. CallInv'
  BY <1>1, FlagsKept, EndStep DEF HandleInv
<1>3. SocketInv' /\ OpenKept
  BY <1>1, NoSocketsMoved DEF HandleInv
<1>4. FilesTyped'
  BY <1>1, FilesSame DEF HandleInv
<1>5. StepReleases(t)
  BY <1>1, Apart DEF StepReleases
<1> QED
  BY <1>2, <1>3, <1>4, <1>5 DEF HandleInv

-----------------------------------------------------------------------------
(* The invariant.                                                          *)

LEMMA TaskKeeps ==
    ASSUME HandleInv, NEW t \in Tasks, OnSockets(t) \/ OnFiles(t)
    PROVE  HandleInv' /\ Step(t)
<1>1. CASE \/ BeginSocketCall(t) /\ UNCHANGED fileVars
           \/ BeginFileCall(t) /\ UNCHANGED socket
  BY <1>1, BeginKeeps DEF Step
<1>2. CASE SocketFails(t) /\ UNCHANGED fileVars
  BY <1>2, SocketFailsKeeps DEF Step
<1>3. CASE SocketWork(t) /\ UNCHANGED fileVars
  <2>1. CASE Check(t)
    BY <1>3, <2>1, CheckKeeps DEF Step
  <2>2. CASE Read(t)
    BY <1>3, <2>2, ReadKeeps DEF Step
  <2>3. CASE Write(t)
    BY <1>3, <2>3, WriteKeeps DEF Step
  <2>4. CASE Accept(t)
    BY <1>3, <2>4, AcceptKeeps DEF Step
  <2>5. CASE TakeSocketFlag(t)
    BY <1>3, <2>5, TakeKeeps DEF Step
  <2>6. CASE CloseSocket(t)
    BY <1>3, <2>6, CloseKeeps DEF Step
  <2>7. CASE Listen(t)
    BY <1>3, <2>7, ListenKeeps DEF Step
  <2>8. CASE DialTCP(t)
    BY <1>3, <2>8, DialTCPKeeps DEF Step
  <2>9. CASE DialUDP(t)
    BY <1>3, <2>9, DialUDPKeeps DEF Step
  <2> QED
    BY <1>3, <2>1, <2>2, <2>3, <2>4, <2>5, <2>6, <2>7, <2>8, <2>9 DEF SocketWork
<1>4. CASE LockFile(t) /\ UNCHANGED socket
  BY <1>4, LockKeeps DEF Step
<1>5. CASE FileFails(t) /\ UNCHANGED socket
  BY <1>5, FileFailsKeeps DEF Step
<1>6. CASE FileWork(t) /\ UNCHANGED socket
  <2>1. CASE OpenFile(t)
    BY <1>6, <2>1, OpenFileKeeps DEF Step
  <2>2. CASE ReadFile(t)
    BY <1>6, <2>2, ReadFileKeeps DEF Step
  <2>3. CASE WriteFile(t)
    BY <1>6, <2>3, WriteFileKeeps DEF Step
  <2>4. CASE CloseFile(t)
    BY <1>6, <2>4, CloseFileKeeps DEF Step
  <2> QED
    BY <1>6, <2>1, <2>2, <2>3, <2>4 DEF FileWork
<1> QED
  BY <1>1, <1>2, <1>3, <1>4, <1>5, <1>6 DEF OnSockets, OnFiles

LEMMA IdleKeeps == HandleInv /\ UNCHANGED vars => HandleInv'
<1> SUFFICES ASSUME HandleInv, UNCHANGED vars PROVE HandleInv'
  OBVIOUS
<1>1. UNCHANGED <<closed, call, socket, fileVars>>
  BY DEF vars
<1>2. CallInv'
  BY <1>1 DEF HandleInv, CallInv, FileMutex, Using
<1>3. SocketInv'
  BY <1>1, NoSocketsMoved DEF HandleInv
<1>4. FilesTyped'
  BY <1>1, FilesSame DEF HandleInv
<1> QED
  BY <1>2, <1>3, <1>4 DEF HandleInv

LEMMA NextKeeps == HandleInv /\ [Next]_vars => HandleInv'
BY TaskKeeps, IdleKeeps DEF Next

LEMMA HandlesInvariant == Spec => []HandleInv
BY InitHandles, NextKeeps, PTL DEF Spec


-----------------------------------------------------------------------------
(* The promise.                                                            *)

lives == [h \in Handles |-> Life(h)]
pendings == [t \in Tasks |-> Pending(t)]

LEMMA CallMoves ==
    ASSUME CallInv, NEW t \in Tasks, NEW c, call' = [call EXCEPT ![t] = c]
    PROVE  /\ call'[t] = c
           /\ \A u \in Tasks : u # t => call'[u] = call[u]
           /\ pendings' = [pendings EXCEPT ![t] = Pending(t)']
<1>1. /\ call'[t] = c
      /\ \A u \in Tasks : u # t => call'[u] = call[u]
  BY DEF CallInv
<1>2. \A u \in Tasks : u # t => Pending(u)' = Pending(u)
  BY <1>1 DEF Pending
<1> QED
  BY <1>1, <1>2 DEF pendings

\* Only who takes a handle and who releases it change what it has come to.
LEMMA LifeSame ==
    ASSUME CallInv, NEW t \in Tasks, NEW c, call' = [call EXCEPT ![t] = c],
           NEW h \in Handles, closed'[h] = closed[h],
           call[t].at = "closing" => call[t].on # h,
           c.at = "closing" => c.on # h,
           h \in Sockets /\ Exists(h) => socket'[h].open = socket[h].open
    PROVE  Life(h)' = Life(h)
<1>1. Exists(h)' <=> Exists(h)
  BY DEF Exists
<1>2. CASE Exists(h)
  <2>1. \A u \in Tasks : (call'[u].on = h /\ call'[u].at = "closing")
                             <=> (call[u].on = h /\ call[u].at = "closing")
    BY CallMoves
  <2>2. Released(h)' <=> Released(h)
    BY <1>2, <2>1 DEF Released, Closed
  <2> QED
    BY <1>1, <2>2 DEF Life
<1>3. CASE ~Exists(h)
  BY <1>1, <1>3 DEF Life
<1> QED
  BY <1>2, <1>3

LEMMA LivesSame ==
    ASSUME CallInv, NEW t \in Tasks, NEW c, call' = [call EXCEPT ![t] = c],
           UNCHANGED closed, call[t].at # "closing", c.at # "closing", OpenKept
    PROVE  lives' = lives
<1>1. \A h \in Handles : Life(h)' = Life(h)
  BY LifeSame DEF OpenKept
<1> QED
  BY <1>1 DEF lives

\* A native state that is made appears open.
LEMMA LivesMade ==
    ASSUME CallInv, NEW t \in Tasks, NEW c, call' = [call EXCEPT ![t] = c],
           call[t].at # "closing", c.at # "closing", OpenKept,
           NEW n \in Handles, CanMake(n), closed' = Made(n)
    PROVE  Promise!Open({n})
<1>1. /\ ~Exists(n) /\ closed'[n] = FALSE
      /\ \A g \in Handles : g # n => closed'[g] = closed[g]
  BY FlagMade
<1>2. \A h \in Handles : h # n => Life(h)' = Life(h)
  BY <1>1, LifeSame DEF OpenKept
<1>3. Life(n) = "absent" /\ Life(n)' = "open"
  BY <1>1, Apart DEF Life, Exists
<1> QED
  BY <1>2, <1>3 DEF Promise!Open

LEMMA OpenNone == ASSUME lives' = lives PROVE Promise!Open({})
<1>1. lives = [h \in Handles |-> lives[h]]
  BY DEF lives
<1>2. lives' = [h \in Handles |-> lives[h]]
  BY <1>1
<1> QED
  BY <1>2 DEF Promise!Open, lives

LEMMA BeginsPromise ==
    ASSUME HandleInv, NEW t \in Tasks, StepBegins(t)
    PROVE  Promise!Next
<1>1. PICK op, h, to, size : Begin(t, op, h, to, size) /\ Fits(op, h, to, size)
  BY DEF StepBegins
<1> DEFINE c == [op |-> op, at |-> "called", on |-> h, to |-> to, size |-> size,
                 late |-> h # None /\ closed[h] = TRUE]
<1>2. call[t].at = "idle" /\ call' = [call EXCEPT ![t] = c] /\ UNCHANGED closed /\ OpenKept
  BY <1>1 DEF Begin, StepBegins
<1>3. c.at = "called" /\ c.on = h /\ c.late = (h # None /\ closed[h] = TRUE)
  OBVIOUS
<1> HIDE DEF c
<1>4. lives' = lives
  BY <1>2, <1>3, LivesSame, CallFacts
<1>5. /\ call'[t] = c
      /\ pendings' = [pendings EXCEPT ![t] = Pending(t)']
  BY <1>2, CallMoves, CallFacts
<1>6. pendings[t].on = None
  BY <1>2 DEF pendings, Pending
<1>7. CASE h = None
  <2>1. Pending(t)' = Promise!NoCall("ok")
    BY <1>3, <1>5, <1>7 DEF Pending, Promise!NoCall
  <2>2. Promise!Open({})
    BY <1>4, OpenNone
  <2>3. Promise!Elsewhere(t, "ok")
    BY <1>5, <1>6, <2>1, <2>2 DEF Promise!Elsewhere, pendings
  <2> QED
    BY <2>3 DEF Promise!Next, Promise!Outcomes
<1>8. CASE h # None
  <2>1. h \in Handles /\ Exists(h) /\ closed[h] \in BOOLEAN
    BY <1>1, <1>8, CallFacts DEF Fits, Flags, Exists
  <2>2. lives[h] # "absent" /\ (lives[h] = "open" <=> closed[h] = FALSE)
    BY <2>1 DEF lives, Life
  <2>3. Pending(t)' = [on |-> h, chance |-> IF lives[h] = "open" THEN "early" ELSE "late"]
    BY <1>3, <1>5, <1>8, <2>1, <2>2 DEF Pending
  <2>4. Promise!Begin(t, h)
    BY <1>4, <1>5, <1>6, <2>2, <2>3 DEF Promise!Begin, pendings, lives
  <2> QED
    BY <2>1, <2>4 DEF Promise!Next
<1> QED
  BY <1>7, <1>8

\* What ends leaves no call behind.
LEMMA EndedPending ==
    ASSUME CallInv, NEW t \in Tasks, NEW outcome \in Outcomes, call' = Ended(t, outcome)
    PROVE  /\ call' = [call EXCEPT ![t] = Idle(outcome)] /\ Idle(outcome).at # "closing"
           /\ pendings' = [pendings EXCEPT ![t] = Promise!NoCall(outcome)]
<1>1. call' = [call EXCEPT ![t] = Idle(outcome)] /\ Idle(outcome).at = "idle" /\ Idle(outcome).op = outcome
  BY DEF Ended, Idle
<1>2. call'[t] = Idle(outcome) /\ pendings' = [pendings EXCEPT ![t] = Pending(t)']
  BY <1>1, CallMoves
<1>3. Pending(t)' = Promise!NoCall(outcome)
  BY <1>1, <1>2 DEF Pending, Promise!NoCall
<1> QED
  BY <1>1, <1>2, <1>3

LEMMA FailsPromise ==
    ASSUME HandleInv, NEW t \in Tasks, StepFails(t)
    PROVE  Promise!Next
<1>1. call[t].at \in {"called", "io"} /\ call' = Ended(t, "failed") /\ UNCHANGED closed /\ OpenKept
  BY DEF StepFails
<1>2. CallInv
  BY CallFacts
<1>3. /\ call' = [call EXCEPT ![t] = Idle("failed")] /\ Idle("failed").at # "closing"
      /\ pendings' = [pendings EXCEPT ![t] = Promise!NoCall("failed")]
  BY <1>1, <1>2, EndedPending DEF Outcomes
<1>4. lives' = lives
  BY <1>1, <1>2, <1>3, LivesSame
<1>5. pendings[t].on = call[t].on /\ pendings[t].chance # "closing"
  BY <1>1 DEF pendings, Pending
<1>6. CASE call[t].on = None
  <2>1. Promise!Open({})
    BY <1>4, OpenNone
  <2>2. Promise!Elsewhere(t, "failed")
    BY <1>3, <1>5, <1>6, <2>1 DEF Promise!Elsewhere, pendings
  <2> QED
    BY <2>2 DEF Promise!Next, Promise!Outcomes
<1>7. CASE call[t].on # None
  <2>1. Promise!Fail(t)
    BY <1>3, <1>4, <1>5, <1>7 DEF Promise!Fail, pendings, lives
  <2> QED
    BY <2>1 DEF Promise!Next
<1> QED
  BY <1>6, <1>7

LEMMA GoesOnPromise ==
    ASSUME HandleInv, NEW t \in Tasks, StepGoesOn(t)
    PROVE  UNCHANGED <<lives, pendings>>
<1>1. PICK c \in CallType : /\ call' = [call EXCEPT ![t] = c]
                            /\ c.at = "io" /\ c.on = call[t].on /\ c.late = call[t].late
  BY DEF StepGoesOn
<1>2. call[t].at \in {"called", "io"} /\ call[t].on # None /\ UNCHANGED closed /\ OpenKept /\ CallInv
  BY CallFacts DEF StepGoesOn
<1>3. lives' = lives
  BY <1>1, <1>2, LivesSame
<1>4. call'[t] = c /\ pendings' = [pendings EXCEPT ![t] = Pending(t)']
  BY <1>1, <1>2, CallMoves
<1>5. Pending(t)' = Pending(t)
  BY <1>1, <1>2, <1>4 DEF Pending
<1> QED
  BY <1>3, <1>4, <1>5 DEF pendings

LEMMA SucceedsPromise ==
    ASSUME HandleInv, NEW t \in Tasks, StepSucceeds(t)
    PROVE  Promise!Next
<1> DEFINE h == call[t].on
<1>1. /\ call[t].at = "io" /\ Usable(h) /\ call' = Ended(t, "ok") /\ OpenKept
      /\ UNCHANGED closed \/ \E n \in Handles : CanMake(n) /\ closed' = Made(n)
  BY DEF StepSucceeds
<1>2. /\ CallInv /\ h \in Handles /\ h # None /\ ~call[t].late /\ Exists(h)
  BY <1>1, CallFacts DEF Known, Exists
<1>3. /\ call' = [call EXCEPT ![t] = Idle("ok")] /\ Idle("ok").at # "closing"
      /\ pendings' = [pendings EXCEPT ![t] = Promise!NoCall("ok")]
  BY <1>1, <1>2, EndedPending DEF Outcomes
<1>4. pendings[t] = [on |-> h, chance |-> "early"]
  BY <1>1, <1>2 DEF pendings, Pending
<1>5. lives[h] # "released"
  BY <1>1, <1>2 DEF lives, Life, Usable, Released, Closed
<1>6. \E new \in {{}} \cup {{n} : n \in Handles} : Promise!Open(new)
  <2>1. CASE UNCHANGED closed
    <3>1. Promise!Open({})
      BY <1>1, <1>2, <1>3, <2>1, LivesSame, OpenNone
    <3> QED
      BY <3>1
  <2>2. CASE \E n \in Handles : CanMake(n) /\ closed' = Made(n)
    <3>1. PICK n \in Handles : CanMake(n) /\ closed' = Made(n)
      BY <2>2
    <3>2. Promise!Open({n})
      BY <1>1, <1>2, <1>3, <3>1, LivesMade
    <3> QED
      BY <3>2
  <2> QED
    BY <1>1, <2>1, <2>2
<1>7. Promise!Succeed(t)
  <2>1. Promise!Calling(t, h, "early")
    BY <1>4 DEF Promise!Calling, pendings
  <2> QED
    BY <1>2, <1>3, <1>5, <1>6, <2>1 DEF Promise!Succeed, pendings, lives
<1> QED
  BY <1>7 DEF Promise!Next

LEMMA MakesPromise ==
    ASSUME HandleInv, NEW t \in Tasks, StepMakes(t)
    PROVE  Promise!Next
<1>1. PICK n \in Handles : CanMake(n) /\ closed' = Made(n)
  BY DEF StepMakes
<1>2. /\ call[t].at = "called" /\ call[t].on = None /\ call' = Ended(t, "ok") /\ OpenKept /\ CallInv
  BY CallFacts DEF StepMakes
<1>3. /\ call' = [call EXCEPT ![t] = Idle("ok")] /\ Idle("ok").at # "closing"
      /\ pendings' = [pendings EXCEPT ![t] = Promise!NoCall("ok")]
  BY <1>2, EndedPending DEF Outcomes
<1>4. Promise!Open({n})
  BY <1>1, <1>2, <1>3, LivesMade
<1>5. pendings[t].on = None
  BY <1>2 DEF pendings, Pending
<1>6. Promise!Elsewhere(t, "ok")
  BY <1>3, <1>4, <1>5 DEF Promise!Elsewhere, pendings
<1> QED
  BY <1>6 DEF Promise!Next, Promise!Outcomes

LEMMA TakesPromise ==
    ASSUME HandleInv, NEW t \in Tasks, StepTakes(t)
    PROVE  Promise!Next
<1> PICK h : h = call[t].on
  OBVIOUS
<1>1. /\ call[t].at = "called" /\ h \in Sockets \cup FileHandles /\ TakesFlag(t) /\ OpenKept
      /\ h \in Handles /\ h # None /\ CallInv /\ SocketInv /\ closed \in Flags
      /\ Known(call[t], closed) /\ call[t] \in CallType
  BY CallFacts, Apart DEF StepTakes
<1>2. CASE closed[h] = TRUE
  <2>1. StepFails(t)
    BY <1>1, <1>2 DEF TakesFlag, Failed, StepFails
  <2> QED
    BY <2>1, FailsPromise
<1>3. CASE closed[h] # TRUE
  <2> DEFINE c == [call[t] EXCEPT !.at = "closing"]
  <2>1. call' = [call EXCEPT ![t] = c] /\ c.at = "closing" /\ c.on = h
    BY <1>1, <1>3 DEF TakesFlag, CallInv, CallType
  <2>2. closed' = [closed EXCEPT ![h] = TRUE]
    BY <1>1, <1>3 DEF TakesFlag
  <2> HIDE DEF c
  <2>3. /\ closed[h] = FALSE /\ closed'[h] = TRUE /\ ~call[t].late
        /\ \A g \in Handles : g # h => closed'[g] = closed[g]
    BY <1>1, <1>3, <2>2, Apart DEF Flags, Known
  <2>4. call'[t] = c /\ pendings' = [pendings EXCEPT ![t] = Pending(t)']
    BY <1>1, <2>1, CallMoves
  <2>5. Pending(t)' = [on |-> h, chance |-> "closing"] /\ pendings[t] = [on |-> h, chance |-> "early"]
    BY <1>1, <2>1, <2>3, <2>4 DEF Pending, pendings
  <2>6. \A g \in Handles : g # h => Life(g)' = Life(g)
    BY <1>1, <2>1, <2>3, LifeSame DEF OpenKept
  <2>7. Life(h) = "open" /\ Life(h)' = "taken"
    <3>1. Exists(h) /\ Exists(h)'
      BY <2>3, Apart DEF Exists
    <3>2. ~Released(h)'
      <4>1. CASE h \in Sockets
        BY <2>3, <3>1, <4>1, <1>1 DEF Released, Closed, OpenKept, SocketInv, SocketKnown
      <4>2. CASE h \notin Sockets
        BY <2>1, <2>4, <4>2 DEF Released
      <4> QED
        BY <4>1, <4>2
    <3> QED
      BY <2>3, <3>1, <3>2 DEF Life
  <2>8. lives' = [lives EXCEPT ![h] = "taken"] /\ lives[h] = "open"
    BY <1>1, <2>6, <2>7 DEF lives
  <2>9. pendings' = [pendings EXCEPT ![t].chance = "closing"]
    <3>1. [pendings[t] EXCEPT !.chance = "closing"] = [on |-> h, chance |-> "closing"]
      BY <2>5
    <3> QED
      BY <2>4, <2>5, <3>1
  <2>10. Promise!Take(t)
    <3>1. Promise!Calling(t, h, "early")
      BY <2>5 DEF Promise!Calling, pendings
    <3> QED
      BY <1>1, <2>8, <2>9, <3>1 DEF Promise!Take, pendings, lives
  <2> QED
    BY <2>10 DEF Promise!Next
<1> QED
  BY <1>2, <1>3

LEMMA ReleasesPromise ==
    ASSUME HandleInv, NEW t \in Tasks, StepReleases(t)
    PROVE  Promise!Next
<1> PICK h : h = call[t].on
  OBVIOUS
<1>1. /\ call[t].at = "closing" /\ h \in Sockets \cup FileHandles
      /\ h \in Sockets => ~socket'[h].open
      /\ UNCHANGED closed
      /\ \A g \in Sockets : g # h /\ Exists(g) => socket'[g].open = socket[g].open
      /\ h \in Handles /\ h # None /\ CallInv /\ closed[h] = TRUE
  BY CallFacts, Apart DEF StepReleases, Known
<1>2. PICK outcome \in Outcomes : call' = Ended(t, outcome)
  BY DEF StepReleases
<1>3. /\ call' = [call EXCEPT ![t] = Idle(outcome)] /\ Idle(outcome).at # "closing"
      /\ pendings' = [pendings EXCEPT ![t] = Promise!NoCall(outcome)]
  BY <1>1, <1>2, EndedPending
<1>4. \A g \in Handles : g # h => Life(g)' = Life(g)
  BY <1>1, <1>3, LifeSame
<1>5. Life(h)' = "released"
  <2>1. Released(h)'
    <3>1. CASE h \in Sockets
      BY <1>1, <3>1 DEF Released, Closed
    <3>2. CASE h \in FileHandles /\ h \notin Sockets
      <4>1. /\ call'[t].at # "closing"
            /\ \A u \in Tasks : u # t => call'[u] = call[u]
        BY <1>1, <1>3, CallMoves
      <4>2. \A u \in Tasks : u # t => ~(call[u].on = h /\ call[u].at = "closing")
        BY <1>1, <3>2 DEF CallInv, FileMutex, Using
      <4> QED
        BY <3>2, <4>1, <4>2 DEF Released
    <3> QED
      BY <1>1, <3>1, <3>2
  <2> QED
    BY <1>1, <2>1, Apart DEF Life, Exists
<1>6. lives' = [lives EXCEPT ![h] = "released"]
  BY <1>1, <1>4, <1>5 DEF lives
<1>7. Promise!Release(t)
  <2>1. Promise!Calling(t, h, "closing")
    BY <1>1 DEF Promise!Calling, Pending
  <2>2. outcome \in Promise!Outcomes
    BY DEF Outcomes, Promise!Outcomes
  <2> QED
    BY <1>1, <1>3, <1>6, <2>1, <2>2 DEF Promise!Release, pendings, lives
<1> QED
  BY <1>7 DEF Promise!Next

\* The call of some task makes every step one of the promise, or none at all.
LEMMA StepPromise ==
    ASSUME HandleInv, [Next]_vars
    PROVE  Promise!Next \/ UNCHANGED <<lives, pendings>>
<1>1. CASE Next
  <2>1. PICK t \in Tasks : OnSockets(t) \/ OnFiles(t)
    BY <1>1 DEF Next
  <2>2. Step(t)
    BY <2>1, TaskKeeps
  <2> QED
    BY <2>2, BeginsPromise, FailsPromise, GoesOnPromise, SucceedsPromise, MakesPromise,
       TakesPromise, ReleasesPromise DEF Step
<1>2. CASE UNCHANGED vars
  <2>1. UNCHANGED <<closed, call, socket>>
    BY <1>2 DEF vars
  <2>2. \A h \in Handles : Life(h)' = Life(h)
    BY <2>1 DEF Life, Exists, Released, Closed
  <2>3. \A t \in Tasks : Pending(t)' = Pending(t)
    BY <2>1 DEF Pending
  <2> QED
    BY <2>2, <2>3 DEF lives, pendings
<1> QED
  BY <1>1, <1>2

LEMMA InitPromise == ASSUME Init PROVE Promise!Init
<1>1. closed = [h \in Handles |-> None] /\ call = [t \in Tasks |-> Idle("ok")]
  BY DEF Init, CallsInit
<1>2. \A h \in Handles : Life(h) = "absent"
  BY <1>1 DEF Life, Exists
<1>3. \A t \in Tasks : Pending(t) = Promise!NoCall("ok")
  BY <1>1 DEF Pending, Idle, Promise!NoCall
<1> QED
  BY <1>2, <1>3 DEF Promise!Init

-----------------------------------------------------------------------------
(* Reads and writes of a file through its only handle.                     *)

Alone(f) == \A g \in FileHandles : Exists(g) => g = f

In(t, f, op) == Working(t, op) /\ call[t].on = f

SoFar(f) == Len(seen[f]) <= Len(disk) /\ seen[f] = SubSeq(disk, 1, Len(seen[f]))

NewPieces(n) == [i \in 1 .. n |-> "new"]

\* A write has stored the pieces it has done, a read has seen the front of the
\* contents, and what the last write promised is there when no write is under
\* way.
WholeBy(f) ==
    /\ \A t \in Tasks : In(t, f, "write_file") =>
           call[t].size > Pieces \/ disk = NewPieces(Pieces - call[t].size)
    /\ stored = None \/ disk = stored \/ \E t \in Tasks : In(t, f, "write_file")
    /\ \A t \in Tasks : In(t, f, "read_file") => SoFar(f)

WholeInv == \A f \in FileHandles : Alone(f) => WholeBy(f)

LEMMA InitWhole == ASSUME Init PROVE WholeInv
<1>1. disk = stored
  BY DEF Init, FilesInit
<1>2. \A t \in Tasks : call[t].at = "idle"
  BY DEF Init, CallsInit, Idle
<1> QED
  BY <1>1, <1>2 DEF WholeInv, WholeBy, In, Working

LEMMA StepExists ==
    ASSUME HandleInv, NEW t \in Tasks, Step(t), NEW h \in Handles, Exists(h)
    PROVE  Exists(h)'
<1>1. CASE UNCHANGED closed
  BY <1>1 DEF Exists
<1>2. CASE \E n \in Handles : CanMake(n) /\ closed' = Made(n)
  <2>1. PICK n \in Handles : CanMake(n) /\ closed' = Made(n)
    BY <1>2
  <2>2. ~Exists(n) /\ \A g \in Handles : g # n => closed'[g] = closed[g]
    BY <2>1, FlagMade, CallFacts
  <2> QED
    BY <2>2 DEF Exists
<1>3. CASE TakesFlag(t)
  <2>1. closed' = closed \/ closed' = [closed EXCEPT ![call[t].on] = TRUE]
    BY <1>3 DEF TakesFlag
  <2> QED
    BY <2>1, CallFacts, Apart DEF Flags, Exists
<1> QED
  BY <1>1, <1>2, <1>3 DEF Step, StepBegins, StepFails, StepGoesOn, StepSucceeds, StepMakes,
     StepTakes, StepReleases

\* The sole handle of a file has been the sole one.
LEMMA WasAlone ==
    ASSUME HandleInv, NEW t \in Tasks, Step(t), NEW f \in FileHandles, Alone(f)'
    PROVE  Alone(f)
BY StepExists, Apart DEF Alone

LEMMA StepOthers ==
    ASSUME HandleInv, NEW t \in Tasks, Step(t)
    PROVE  /\ \A u \in Tasks : u # t => call'[u] = call[u]
           /\ call'[t].at = "io" => /\ call'[t].on = call[t].on
                                    /\ call[t].at \in {"called", "io"}
<1>1. CASE \E c : call' = [call EXCEPT ![t] = c] /\ c.at # "io"
  BY <1>1, CallMoves, CallFacts
<1>2. CASE StepGoesOn(t)
  BY <1>2, CallMoves, CallFacts DEF StepGoesOn
<1>3. ASSUME NEW outcome, call' = Ended(t, outcome)
      PROVE  call' = [call EXCEPT ![t] = Idle(outcome)] /\ Idle(outcome).at # "io"
  BY <1>3 DEF Ended, Idle
<1>4. CASE StepBegins(t)
  <2>1. PICK op, h, to, size : Begin(t, op, h, to, size)
    BY <1>4 DEF StepBegins
  <2> DEFINE c == [op |-> op, at |-> "called", on |-> h, to |-> to, size |-> size,
                   late |-> h # None /\ closed[h] = TRUE]
  <2>2. call' = [call EXCEPT ![t] = c] /\ c.at = "called"
    BY <2>1 DEF Begin
  <2> QED
    BY <1>1, <2>2
<1>5. CASE StepTakes(t)
  <2>1. CASE call' = Ended(t, "failed")
    BY <1>1, <1>3, <2>1
  <2>2. CASE call' = [call EXCEPT ![t].at = "closing"]
    <3>1. /\ call' = [call EXCEPT ![t] = [call[t] EXCEPT !.at = "closing"]]
          /\ [call[t] EXCEPT !.at = "closing"].at = "closing"
      BY <2>2, CallFacts DEF CallType
    <3> QED
      BY <1>1, <3>1
  <2> QED
    BY <1>5, <2>1, <2>2 DEF StepTakes, TakesFlag, Failed
<1> QED
  BY <1>1, <1>2, <1>3, <1>4, <1>5 DEF Step, StepFails, StepSucceeds, StepMakes, StepReleases

\* A step that leaves the contents alone: it starts a write or goes on with
\* none, and what readers have seen stays or is forgotten.
LEMMA WholeSame ==
    ASSUME HandleInv, WholeInv, NEW t \in Tasks, Step(t), UNCHANGED disk,
           stored' = None \/ (stored' = stored /\ \A f \in FileHandles : ~In(t, f, "write_file")),
           \A f \in FileHandles : In(t, f, "write_file")' => call'[t].size > Pieces,
           \A f \in FileHandles : \A u \in Tasks : In(u, f, "read_file")' =>
               \/ In(u, f, "read_file") /\ seen'[f] = seen[f]
               \/ seen'[f] = <<>>
    PROVE  WholeInv'
<1> SUFFICES ASSUME NEW f \in FileHandles, Alone(f)' PROVE WholeBy(f)'
  BY DEF WholeInv
<1>1. WholeBy(f)
  BY WasAlone DEF WholeInv
<1>2. \A u \in Tasks : u # t => call'[u] = call[u]
  BY StepOthers
<1>3. \A u \in Tasks : \A op : u # t => (In(u, f, op)' <=> In(u, f, op))
  BY <1>2 DEF In, Working
<1>4. ASSUME NEW u \in Tasks, In(u, f, "write_file")'
      PROVE  call'[u].size > Pieces \/ disk' = NewPieces(Pieces - call'[u].size)
  BY <1>1, <1>2, <1>3, <1>4 DEF WholeBy
<1>5. stored' = None \/ disk' = stored' \/ \E u \in Tasks : In(u, f, "write_file")'
  BY <1>1, <1>3 DEF WholeBy
<1>6. ASSUME NEW u \in Tasks, In(u, f, "read_file")' PROVE SoFar(f)'
  <2>1. CASE In(u, f, "read_file") /\ seen'[f] = seen[f]
    BY <1>1, <2>1 DEF WholeBy, SoFar
  <2>2. CASE seen'[f] = <<>>
    <3>1. Len(<<>>) = 0 /\ SubSeq(disk, 1, 0) = <<>> /\ Len(disk) \in Nat
      BY SubSeqEmpty, CallFacts DEF FilesTyped
    <3> QED
      BY <2>2, <3>1 DEF SoFar
  <2> QED
    BY <1>6, <2>1, <2>2
<1> QED
  BY <1>4, <1>5, <1>6 DEF WholeBy, NewPieces

\* A step of a task that is at no file.
LEMMA AwayWhole ==
    ASSUME HandleInv, WholeInv, NEW t \in Tasks, Step(t), UNCHANGED fileVars,
           call[t].at \in {"idle", "closing"} \/ call[t].on \notin FileHandles
    PROVE  WholeInv'
<1>1. \A f \in FileHandles : \A op : ~In(t, f, op) /\ ~In(t, f, op)'
  BY StepOthers DEF In, Working
<1>2. \A u \in Tasks : \A f, op : u # t => (In(u, f, op)' <=> In(u, f, op))
  BY StepOthers DEF In, Working
<1> QED
  BY <1>1, <1>2, WholeSame DEF fileVars

LEMMA SocketsAway ==
    ASSUME HandleInv, NEW t \in Tasks, OnSockets(t)
    PROVE  call[t].at \in {"idle", "closing"} \/ call[t].on \notin FileHandles
<1>1. Known(call[t], closed)
  BY CallFacts
<1>2. CASE BeginSocketCall(t)
  BY <1>2 DEF BeginSocketCall, Begin
<1>3. CASE call[t].on \in Sockets
  BY <1>3, Apart
<1>4. CASE call[t].op \in Makers /\ call[t].at = "called"
  BY <1>1, <1>4, Apart DEF Known
<1>5. CASE Read(t) \/ Write(t) \/ Accept(t)
  <2>1. call[t].op \in Reads \cup Writes \cup {"accept"}
    BY <1>5 DEF Read, Write, Accept, Working
  <2> QED
    BY <1>1, <2>1, Apart DEF Known
<1> QED
  BY <1>2, <1>3, <1>4, <1>5 DEF OnSockets, SocketWork, SocketFails, Check, TakeSocketFlag, CloseSocket,
     Listen, DialTCP, DialUDP, Calling, Makers

LEMMA LockWhole ==
    ASSUME HandleInv, WholeInv, NEW t \in Tasks, Step(t), LockFile(t)
    PROVE  WholeInv'
<1>1. /\ call[t].at = "called" /\ call[t].on \in FileHandles
      /\ UNCHANGED <<disk, stored>> /\ seen' = [seen EXCEPT ![call[t].on] = <<>>]
  BY DEF LockFile
<1>2. Known(call[t], closed) /\ seen \in [FileHandles -> Seq(Contents)] /\ CallInv
  BY CallFacts DEF FilesTyped
<1>3. \A f \in FileHandles : \A op : ~In(t, f, op)
  BY <1>1 DEF In, Working
<1>4. call'[t].at = "io" => /\ call'[t].on = call[t].on /\ call'[t].op = call[t].op
                            /\ call'[t].size = call[t].size
  <2>1. CASE Proceeds(t)
    BY <1>2, <2>1 DEF Proceeds, CallInv, CallType
  <2>2. CASE Failed(t)
    BY <1>2, <2>2 DEF Failed, Ended, Idle, CallInv
  <2>3. CASE TakesFlag(t)
    BY <1>2, <2>2, <2>3 DEF TakesFlag, CallInv, CallType
  <2> QED
    BY <2>1, <2>2, <2>3 DEF LockFile
<1>5. \A f \in FileHandles : In(t, f, "write_file")' => call'[t].size > Pieces
  BY <1>1, <1>2, <1>4, PiecesIsPositive DEF In, Working, Known
<1>6. ASSUME NEW f \in FileHandles, NEW u \in Tasks, In(u, f, "read_file")'
      PROVE  \/ In(u, f, "read_file") /\ seen'[f] = seen[f]
             \/ seen'[f] = <<>>
  <2>1. CASE f = call[t].on
    BY <1>1, <1>2, <2>1
  <2>2. CASE f # call[t].on
    <3>1. u # t /\ call'[u] = call[u]
      BY <1>4, <1>6, <2>2, StepOthers DEF In, Working
    <3> QED
      BY <1>1, <1>2, <1>6, <2>2, <3>1 DEF In, Working
  <2> QED
    BY <2>1, <2>2
<1> QED
  BY <1>1, <1>3, <1>5, <1>6, WholeSame

\* Who has a file by its only handle has it to itself.
LEMMA OneAtIt ==
    ASSUME HandleInv, NEW f \in FileHandles, NEW t \in Tasks, NEW u \in Tasks,
           NEW op1, NEW op2, In(t, f, op1), In(u, f, op2)
    PROVE  t = u /\ op1 = op2
BY CallFacts DEF CallInv, FileMutex, Using, In, Working

LEMMA ReadWhole ==
    ASSUME HandleInv, WholeInv, NEW t \in Tasks, Step(t), ReadFile(t)
    PROVE  WholeInv'
<1> PICK f : f = call[t].on
  OBVIOUS
<1>1. /\ call[t].at = "io" /\ call[t].op = "read_file" /\ UNCHANGED <<disk, stored>>
      /\ f \in FileHandles /\ In(t, f, "read_file") /\ CallInv /\ FilesTyped
  BY CallFacts DEF ReadFile, Working, Known, In
<1>2. \A g \in FileHandles : ~In(t, g, "write_file")
  BY <1>1 DEF In, Working
<1>3. CASE call' = Ended(t, "ok") /\ UNCHANGED seen
  <2>1. call'[t].at = "idle"
    BY <1>1, <1>3 DEF CallInv, Ended, Idle
  <2>2. \A g \in FileHandles : \A op : ~In(t, g, op)'
    BY <2>1 DEF In, Working
  <2>3. \A u \in Tasks : \A g, op : u # t => (In(u, g, op)' <=> In(u, g, op))
    BY StepOthers DEF In, Working
  <2> QED
    BY <1>1, <1>2, <1>3, <2>2, <2>3, WholeSame
<1>4. CASE /\ \E n \in Len(seen[f]) + 1 .. Len(disk) :
                  seen' = [seen EXCEPT ![f] = @ \o SubSeq(disk, Len(seen[f]) + 1, n)]
           /\ UNCHANGED call
  <2> SUFFICES ASSUME NEW g \in FileHandles, Alone(g)' PROVE WholeBy(g)'
    BY DEF WholeInv
  <2>1. WholeBy(g)
    BY WasAlone DEF WholeInv
  <2>2. g = f
    <3>1. Alone(g) /\ Exists(f)
      BY <1>1, WasAlone, CallFacts, Apart DEF Known, Exists
    <3> QED
      BY <1>1, <3>1 DEF Alone
  <2>3. \A u \in Tasks : \A op : In(u, g, op)' <=> In(u, g, op)
    BY <1>4 DEF In, Working
  <2>4. SoFar(f)'
    <3>1. PICK n \in Len(seen[f]) + 1 .. Len(disk) :
              seen' = [seen EXCEPT ![f] = @ \o SubSeq(disk, Len(seen[f]) + 1, n)]
      BY <1>4
    <3> DEFINE k == Len(seen[f])
    <3>2. /\ disk \in Seq(Contents) /\ k \in Nat /\ k <= Len(disk) /\ seen[f] = SubSeq(disk, 1, k)
          /\ n \in k .. Len(disk) /\ 1 \in 1 .. Len(disk) + 1
      BY <1>1, <2>1, <2>2, <3>1 DEF WholeBy, SoFar, FilesTyped
    <3>3. seen'[f] = SubSeq(disk, 1, k) \o SubSeq(disk, k + 1, n)
      BY <1>1, <3>1, <3>2 DEF FilesTyped
    <3> HIDE DEF k
    <3>4. SubSeq(disk, 1, k) \o SubSeq(disk, k + 1, n) = SubSeq(disk, 1, n)
      BY <3>2, ConcatAdjacentSubSeq
    <3>5. Len(SubSeq(disk, 1, n)) = n
      BY <3>2
    <3> QED
      BY <1>1, <3>2, <3>3, <3>4, <3>5 DEF SoFar
  <2> QED
    BY <1>1, <1>4, <2>1, <2>2, <2>3, <2>4 DEF WholeBy
<1> QED
  BY <1>3, <1>4 DEF ReadFile

\* The next piece comes after those that are there.
LEMMA NextPiece ==
    ASSUME NEW n \in Nat, disk = NewPieces(n)
    PROVE  Written(n) = NewPieces(n + 1)
<1>1. Len(disk) = n
  BY DEF NewPieces
<1> QED
  BY <1>1 DEF Written, NewPieces

LEMMA WriteWhole ==
    ASSUME HandleInv, WholeInv, NEW t \in Tasks, Step(t), WriteFile(t)
    PROVE  WholeInv'
<1> PICK f, size : f = call[t].on /\ size = call[t].size
  OBVIOUS
<1>1. /\ call[t].at = "io" /\ call[t].op = "write_file" /\ UNCHANGED seen
      /\ f \in FileHandles /\ In(t, f, "write_file") /\ CallInv /\ FilesTyped
      /\ size \in 1 .. Pieces + 1 /\ Exists(f) /\ call[t] \in CallType
  BY CallFacts, Apart DEF WriteFile, Working, Known, In, Exists
<1> SUFFICES ASSUME NEW g \in FileHandles, Alone(g)' PROVE WholeBy(g)'
  BY DEF WholeInv
<1>2. WholeBy(g) /\ g = f
  BY <1>1, WasAlone DEF WholeInv, Alone
<1>3. \A u \in Tasks : u # t => call'[u] = call[u]
  BY StepOthers
<1>4. ASSUME NEW u \in Tasks, NEW op, In(u, f, op)' PROVE u = t /\ op = "write_file"
  <2>1. CASE u # t
    <3>1. In(u, f, op)
      BY <1>3, <1>4, <2>1 DEF In, Working
    <3> QED
      BY <1>1, <2>1, <3>1, OneAtIt
  <2>2. CASE u = t
    <3>1. call'[t] = Idle("ok") \/ call'[t].op = "write_file"
      BY <1>1 DEF WriteFile, Ended, CallInv, CallType
    <3> QED
      BY <1>4, <2>2, <3>1 DEF In, Working, Idle
  <2> QED
    BY <2>1, <2>2
<1>5. disk' = NewPieces(Pieces - (size - 1))
  <2>1. CASE size > Pieces
    <3>1. disk' = <<>> /\ size = Pieces + 1 /\ Pieces \in Nat
      BY <1>1, <2>1, PiecesIsPositive DEF WriteFile
    <3>2. NewPieces(0) = <<>>
      BY DEF NewPieces
    <3>3. Pieces - (size - 1) = 0
      BY <3>1
    <3> QED
      BY <3>1, <3>2, <3>3
  <2>2. CASE ~(size > Pieces)
    <3>1. disk' = Written(Pieces - size) /\ Pieces - size \in Nat
      BY <1>1, <2>2, PiecesIsPositive DEF WriteFile
    <3>2. disk = NewPieces(Pieces - size)
      BY <1>1, <1>2, <2>2 DEF WholeBy
    <3>3. Written(Pieces - size) = NewPieces(Pieces - size + 1)
      BY <3>1, <3>2, NextPiece
    <3>4. Pieces - size + 1 = Pieces - (size - 1)
      BY <1>1, PiecesIsPositive
    <3> QED
      BY <3>1, <3>3, <3>4
  <2> QED
    BY <2>1, <2>2
<1>6. CASE size = 1
  <2>1. call' = Ended(t, "ok") /\ stored' = Whole("new")
    BY <1>6 DEF WriteFile
  <2>2. call'[t].at = "idle"
    BY <1>1, <2>1 DEF Ended, Idle, CallInv
  <2>3. \A u \in Tasks : \A op : ~In(u, f, op)'
    BY <1>4, <2>2 DEF In, Working
  <2>4. disk' = stored'
    <3>1. Pieces - (size - 1) = Pieces
      BY <1>6, PiecesIsPositive
    <3> QED
      BY <1>5, <2>1, <3>1 DEF Whole, NewPieces
  <2> QED
    BY <1>2, <2>3, <2>4 DEF WholeBy
<1>7. CASE size # 1
  <2>1. call' = [call EXCEPT ![t].size = @ - 1]
    BY <1>7 DEF WriteFile
  <2>2. call'[t].size = size - 1 /\ In(t, f, "write_file")'
    BY <1>1, <2>1 DEF In, Working, CallInv, CallType
  <2>3. (\A u \in Tasks : In(u, f, "write_file") => call[u].size > Pieces \/ disk = NewPieces(Pieces - call[u].size))'
    BY <1>4, <1>5, <2>2
  <2>4. (\A u \in Tasks : In(u, f, "read_file") => SoFar(f))'
    BY <1>4
  <2> QED
    BY <1>2, <2>2, <2>3, <2>4 DEF WholeBy
<1> QED
  BY <1>6, <1>7

LEMMA FailWhole ==
    ASSUME HandleInv, WholeInv, NEW t \in Tasks, Step(t), FileFails(t)
    PROVE  WholeInv'
<1>1. /\ UNCHANGED <<disk, seen>> /\ call' = Ended(t, "failed")
      /\ stored' = IF call[t].op = "write_file" THEN None ELSE stored
  BY DEF FileFails, Failed
<1>2. call'[t].at = "idle"
  BY <1>1, CallFacts DEF CallInv, Ended, Idle
<1>3. \A g \in FileHandles : \A op : ~In(t, g, op)'
  BY <1>2 DEF In, Working
<1>4. \A u \in Tasks : \A g, op : u # t => (In(u, g, op)' <=> In(u, g, op))
  BY StepOthers DEF In, Working
<1>5. stored' = None \/ (stored' = stored /\ \A f \in FileHandles : ~In(t, f, "write_file"))
  BY <1>1 DEF In, Working
<1> QED
  BY <1>1, <1>3, <1>4, <1>5, WholeSame

LEMMA WholeKept == HandleInv /\ WholeInv /\ [Next]_vars => WholeInv'
<1> SUFFICES ASSUME HandleInv, WholeInv, [Next]_vars PROVE WholeInv'
  OBVIOUS
<1>1. CASE UNCHANGED vars
  BY <1>1 DEF vars, fileVars, WholeInv, WholeBy, Alone, Exists, In, Working, SoFar, NewPieces
<1>2. ASSUME NEW t \in Tasks, OnSockets(t) PROVE WholeInv'
  <2>1. UNCHANGED fileVars
    BY <1>2 DEF OnSockets
  <2> QED
    BY <1>2, <2>1, TaskKeeps, SocketsAway, AwayWhole
<1>3. ASSUME NEW t \in Tasks, OnFiles(t) PROVE WholeInv'
  <2>1. Step(t)
    BY <1>3, TaskKeeps
  <2>2. CASE BeginFileCall(t)
    BY <2>1, <2>2, AwayWhole DEF BeginFileCall, Begin
  <2>3. CASE LockFile(t)
    BY <2>1, <2>3, LockWhole
  <2>4. CASE OpenFile(t)
    <3>1. call[t].on \notin FileHandles
      BY <2>4, CallFacts, Apart DEF OpenFile, Calling, Known, Makers
    <3> QED
      BY <2>1, <2>4, <3>1, AwayWhole DEF OpenFile
  <2>5. CASE ReadFile(t)
    BY <2>1, <2>5, ReadWhole
  <2>6. CASE WriteFile(t)
    BY <2>1, <2>6, WriteWhole
  <2>7. CASE CloseFile(t)
    BY <2>1, <2>7, AwayWhole DEF CloseFile, fileVars
  <2>8. CASE FileFails(t)
    BY <2>1, <2>8, FailWhole
  <2> QED
    BY <1>3, <2>2, <2>3, <2>4, <2>5, <2>6, <2>7, <2>8 DEF OnFiles, FileWork
<1> QED
  BY <1>1, <1>2, <1>3 DEF Next

LEMMA WholeInvariant == Spec => [](HandleInv /\ WholeInv)
BY InitHandles, InitWhole, NextKeeps, WholeKept, PTL DEF Spec

\* A read that ends well has seen everything.
LEMMA ReadEnds ==
    ASSUME HandleInv, WholeInv, NEW t \in Tasks, [Next]_vars,
           Working(t, "read_file"), call'[t] = Idle("ok"),
           \A g \in FileHandles : Exists(g) => g = call[t].on, stored # None
    PROVE  seen[call[t].on] = stored
<1> DEFINE f == call[t].on
<1>1. f \in FileHandles /\ In(t, f, "read_file") /\ FilesTyped /\ CallInv
  BY CallFacts DEF Working, Known, In
<1>2. WholeBy(f)
  BY <1>1 DEF WholeInv, Alone
<1>3. disk = stored
  BY <1>1, <1>2, OneAtIt DEF WholeBy
<1>4. ReadFile(t) /\ Len(seen[f]) >= Len(disk)
  <2>1. call'[t] # call[t]
    BY DEF Idle, Working
  <2>2. PICK u \in Tasks : OnSockets(u) \/ OnFiles(u)
    BY <2>1 DEF Next, vars
  <2>3. u = t
    <3>1. u # t => call'[t] = call[t]
      BY <2>2, TaskKeeps, StepOthers
    <3> QED
      BY <2>1, <3>1
  <2>4. ~OnSockets(t)
    BY <1>1, SocketsAway DEF In, Working
  <2>5. ~FileFails(t)
    BY <1>1 DEF FileFails, Failed, Ended, Idle, CallInv
  <2>6. ReadFile(t)
    BY <2>2, <2>3, <2>4, <2>5 DEF OnFiles, FileWork, BeginFileCall, Begin, LockFile, OpenFile, WriteFile,
       CloseFile, Working, Calling
  <2> QED
    BY <2>1, <2>6 DEF ReadFile
<1>5. SoFar(f)
  BY <1>1, <1>2 DEF WholeBy
<1>6. disk \in Seq(Contents) /\ seen[f] \in Seq(Contents)
  BY <1>1 DEF FilesTyped
<1>7. Len(seen[f]) = Len(disk)
  BY <1>4, <1>5, <1>6 DEF SoFar
<1>8. seen[f] = disk
  BY <1>5, <1>6, <1>7, SubSeqFull DEF SoFar
<1> QED
  BY <1>3, <1>8

-----------------------------------------------------------------------------
(* Theorems                                                                *)

\* Calls, sockets and files keep their types, whichever tasks share them
\* (networking.go, io.go).
THEOREM HandlesTyped == Spec => []TypeOK
BY HandlesInvariant, InvTypes, PTL

\* Native handles of every kind keep the promise of SharedHandles: a resource
\* is released once, by the call that took its flag, no call that began after
\* that succeeds, and none succeeds on what is released (networking.go,
\* isClosed and close; io.go, nativeFile).
THEOREM PromiseKept == Spec => HandlesAsPromised
<1>1. HandleInv /\ [Next]_vars => [Promise!Next]_<<lives, pendings>>
  BY StepPromise
<1>2. Init => Promise!Init
  BY InitPromise
<1>3. Spec => Promise!Spec
  BY <1>1, <1>2, HandlesInvariant, PTL DEF Spec, Promise!Spec, lives, pendings
<1> QED
  BY <1>3, HandlesTyped, PTL DEF HandlesAsPromised

\* A read through the only handle of a file returns exactly what the last
\* write stored, unless that write failed (io.go, nativeFile: "Its lock
\* serializes reads, writes, and close").
THEOREM ReadsReturnTheLastWrite == Spec => ReadsAreWhole
<1>1. HandleInv /\ WholeInv /\ [Next]_vars
          => [\A t \in Tasks :
                 (/\ Working(t, "read_file")
                  /\ call'[t] = Idle("ok")
                  /\ \A g \in FileHandles : Exists(g) => g = call[t].on
                  /\ stored # None)
                 => seen[call[t].on] = stored]_<<closed, call, fileVars>>
  BY ReadEnds
<1> QED
  BY <1>1, WholeInvariant, PTL DEF Spec, ReadsAreWhole

=============================================================================
