--------------------------- MODULE NativeHandles ---------------------------
(***************************************************************************)
(* Evaluators of one process that share native handles of every kind:      *)
(* listeners, connections (Connections) and files (Files).  They implement *)
(* the promise of SharedHandles.                                           *)
(***************************************************************************)
EXTENDS Connections, Files

ASSUME FilesAreNoSockets == FileHandles \cap Sockets = {}

vars == <<closed, call, socket, fileVars>>

TypeOK ==
    /\ CallsTyped(Reads \cup Writes \cup
           {"listen", "dial_tcp", "dial_udp", "accept", "close", "open", "read_file", "write_file"})
    /\ SocketsTyped
    /\ FilesTyped

Init == CallsInit /\ SocketsInit /\ FilesInit

OnSockets(t) == (BeginSocketCall(t) \/ SocketWork(t) \/ SocketFails(t)) /\ UNCHANGED fileVars

OnFiles(t) == (BeginFileCall(t) \/ LockFile(t) \/ FileWork(t) \/ FileFails(t)) /\ UNCHANGED socket

Next == \E t \in Tasks : OnSockets(t) \/ OnFiles(t)

Works(t) ==
    \/ SocketWork(t) /\ UNCHANGED fileVars
    \/ FileWork(t) /\ UNCHANGED socket

\* The Go scheduler runs every goroutine that can run, and a mutex is handed
\* to whoever waits longest (sync.Mutex does not starve a waiter).  Nothing
\* makes programs call, peers send, or the system fail.
Spec ==
    /\ Init
    /\ [][Next]_vars
    /\ \A t \in Tasks : WF_vars(Works(t)) /\ SF_vars(LockFile(t) /\ UNCHANGED socket)

-----------------------------------------------------------------------------
Released(h) ==
    IF h \in Sockets THEN Closed(h)
    ELSE \A t \in Tasks : ~(call[t].on = h /\ call[t].at = "closing")

Life(h) ==
    IF ~Exists(h) THEN "absent"
    ELSE IF closed[h] = FALSE THEN "open"
    ELSE IF ~Released(h) THEN "taken" ELSE "released"

Pending(t) ==
    IF call[t].at = "idle" THEN [on |-> None, chance |-> call[t].op]
    ELSE IF call[t].on = None THEN [on |-> None, chance |-> "ok"]
    ELSE IF call[t].at = "closing" THEN [on |-> call[t].on, chance |-> "closing"]
    ELSE [on |-> call[t].on, chance |-> IF call[t].late THEN "late" ELSE "early"]

Promise == INSTANCE SharedHandles WITH
    life <- [h \in Handles |-> Life(h)],
    pending <- [t \in Tasks |-> Pending(t)]

\* Every resource is released by one call and after its flag is taken; no call
\* that began with the flag set succeeds, and none succeeds on a resource that
\* is released, whatever another task does between the test of the flag and
\* the use of the resource (networking.go, isClosed and close; io.go,
\* nativeFile).
HandlesAsPromised == Promise!Spec /\ []TypeOK

\* Calling close on a handle releases every task that is in it, the caller
\* included: from waiting for data, for room at the other end, for a
\* connection to accept, or for the mutex of a file (networking.go, close:
\* "Blocking I/O holds no state lock").
BlockedCallsEnd ==
    \A t \in Tasks :
        (\E u \in Tasks : call[u].op = "close" /\ call[u].on = call[t].on)
            ~> call[t].at = "idle"
=============================================================================
