------------------------------- MODULE Files -------------------------------
(***************************************************************************)
(* File values (stdlib/io.go, builtinOpen and nativeFile) on one file of   *)
(* the file system.  read rewinds and reads to the end, write truncates,   *)
(* rewinds and writes, each a sequence of system calls under the handle's  *)
(* mutex; nothing orders the system calls of two handles.  The contents    *)
(* are pieces, and a write stores Pieces of them, one system call each.    *)
(***************************************************************************)
EXTENDS HandleCalls

CONSTANTS
    FileHandles,    \* native files that may be opened
    Pieces          \* pieces a write stores

ASSUME FileHandlesAreHandles == FileHandles \subseteq Handles
ASSUME PiecesIsPositive == Pieces \in Nat \ {0}

VARIABLES
    disk,       \* the contents of the file
    stored,     \* what the last write promised: its contents, or None if it failed
    seen        \* what the read that holds each handle has read so far

fileVars == <<disk, stored, seen>>

\* Writing past the end of the file leaves a hole.
Contents == {"old", "new", "hole"}

Whole(piece) == [i \in 1 .. Pieces |-> piece]

FilesTyped ==
    /\ disk \in Seq(Contents)
    /\ stored \in {Whole("old"), Whole("new"), None}
    /\ seen \in [FileHandles -> Seq(Contents)]

FilesInit ==
    /\ disk = Whole("old")
    /\ stored = Whole("old")
    /\ seen = [f \in FileHandles |-> <<>>]

\* A write has the pieces and the truncation to do.
BeginFileCall(t) ==
    /\ \/ Begin(t, "open", None, None, 0)
       \/ \E f \in FileHandles : Exists(f) /\
            \/ Begin(t, "read_file", f, None, 0)
            \/ Begin(t, "write_file", f, None, Pieces + 1)
            \/ Begin(t, "close", f, None, 0)
    /\ UNCHANGED fileVars

\* The file exists; another handle on it is another offset.
OpenFile(t) ==
    /\ Calling(t, "open")
    /\ \E f \in FileHandles : CanMake(f)
    /\ closed' = Made(CHOOSE f \in FileHandles : CanMake(f))
    /\ call' = Ended(t, "ok")
    /\ UNCHANGED fileVars

\* Mutant: a second call enters while a read is under way.
UnlockedByReaders(f) ==
    \A t \in Tasks : call[t].on = f => ~Working(t, "write_file") /\ call[t].at # "closing"

Unlocked(f) == \A t \in Tasks : call[t].on = f => call[t].at \notin {"io", "closing"}

\* Under the mutex, which every operation holds until it returns, the flag is
\* tested before the first system call.
LockFile(t) ==
    /\ call[t].at = "called"
    /\ call[t].on \in FileHandles
    /\ Unlocked(call[t].on)
    /\ IF call[t].op = "close"
       THEN TakesFlag(t)
       ELSE /\ IF closed[call[t].on] = TRUE THEN Failed(t) ELSE Proceeds(t)
            /\ UNCHANGED closed
    /\ seen' = [seen EXCEPT ![call[t].on] = <<>>]
    /\ UNCHANGED <<disk, stored>>

\* Reads what there is from the offset on, or finds the end of the file.
ReadFile(t) ==
    /\ Working(t, "read_file")
    /\ LET f == call[t].on
           offset == Len(seen[f]) IN
       IF offset >= Len(disk)
       THEN call' = Ended(t, "ok") /\ UNCHANGED seen
       ELSE /\ \E n \in offset + 1 .. Len(disk) :
                 seen' = [seen EXCEPT ![f] = @ \o SubSeq(disk, offset + 1, n)]
            /\ UNCHANGED call
    /\ UNCHANGED <<closed, disk, stored>>

Written(offset) ==
    [i \in 1 .. (IF Len(disk) > offset THEN Len(disk) ELSE offset + 1) |->
        IF i = offset + 1 THEN "new" ELSE IF i <= Len(disk) THEN disk[i] ELSE "hole"]

WriteFile(t) ==
    /\ Working(t, "write_file")
    /\ disk' = IF call[t].size > Pieces THEN <<>> ELSE Written(Pieces - call[t].size)
    /\ IF call[t].size = 1
       THEN call' = Ended(t, "ok") /\ stored' = Whole("new")
       ELSE call' = [call EXCEPT ![t].size = @ - 1] /\ UNCHANGED stored
    /\ UNCHANGED <<closed, seen>>

CloseFile(t) ==
    /\ call[t].at = "closing"
    /\ call[t].on \in FileHandles
    /\ \E outcome \in Outcomes : call' = Ended(t, outcome)
    /\ UNCHANGED <<closed, fileVars>>

\* The system may refuse an open (FileNotFound, PermissionDenied) or any step
\* of a read or a write (IOError), which is then left where it is.
FileFails(t) ==
    /\ Calling(t, "open") \/ Working(t, "read_file") \/ Working(t, "write_file")
    /\ stored' = IF call[t].op = "write_file" THEN None ELSE stored
    /\ Failed(t)
    /\ UNCHANGED <<closed, disk, seen>>

FileWork(t) ==
    \/ OpenFile(t)
    \/ ReadFile(t)
    \/ WriteFile(t)
    \/ CloseFile(t)

-----------------------------------------------------------------------------
\* A read through the only handle of a file returns exactly what the last
\* write stored, unless that write failed: no other call of the handle moves
\* the offset or truncates the file meanwhile (io.go, nativeFile: "Its lock
\* serializes reads, writes, and close"; read: "Repeated calls therefore
\* return the contents again").
ReadsAreWhole ==
    [][\A t \in Tasks :
        (/\ Working(t, "read_file")
         /\ call'[t] = Idle("ok")
         /\ \A g \in FileHandles : Exists(g) => g = call[t].on
         /\ stored # None)
        => seen[call[t].on] = stored]_<<closed, call, fileVars>>
=============================================================================
