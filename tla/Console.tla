------------------------------ MODULE Console ------------------------------
(***************************************************************************)
(* The standard input of a session: the line reader of the REPL            *)
(* (repl/repl.go, Start), io.stdin (stdlib/io.go, nativeIOStream) and the  *)
(* terminal package (stdlib/terminal.go) all take bytes from one input,    *)
(* and the terminal package changes the mode of the device behind it.      *)
(* In a file run io.stdin has a buffer of its own and the terminal package *)
(* reads the input itself; in the REPL all three share one buffer, which   *)
(* hides the device from the terminal package.                             *)
(*                                                                         *)
(* The kernel is external: a cooked terminal hands out whole lines, a raw  *)
(* one or a pipe hands out bytes, and any request may fail.                *)
(***************************************************************************)
EXTENDS Integers, Sequences

CONSTANTS
    Nothing,
    MaxArrivals,    \* bytes that ever arrive
    MaxResponse     \* bytes of a cursor report (64 in the code)

ASSUME BoundsAreNatural == MaxArrivals \in Nat /\ MaxResponse \in Nat \ {0}
ASSUME NothingIsSeparate == Nothing \notin {"repl", "stdin", "cooked", "raw"}

VARIABLES
    mode,           \* "repl" or "file"
    tty,            \* whether the input is a terminal
    uses,           \* what the program calls: "streams", "keys" or "both"
    kernel,         \* bytes that arrived and nobody read
    ended,          \* whether the input has ended
    buffers,        \* bytes read ahead, of the REPL and of io.stdin
    device,         \* mode of the terminal
    rawState,       \* what raw_mode saved, or Nothing
    reading,        \* the read in progress
    delivered,      \* arrival numbers of the bytes consumed, in order
    asked,          \* cursor reports asked for and not sent yet
    spoiled         \* whether restoring the device has failed

session == <<mode, tty, uses>>
input == <<kernel, ended, buffers, delivered>>
consoleVars == <<session, input, device, rawState, reading, asked, spoiled>>

-----------------------------------------------------------------------------
(* Types                                                                   *)

\* x is any one-byte character, lead and cont make one of two bytes, esc and R
\* enclose a cursor report.
Kinds == {"x", "newline", "lead", "cont", "esc", "R"}
Byte == [kind : Kinds, number : 1 .. MaxArrivals]

Lines == {"repl_line", "read_line"}
StreamReads == Lines \cup {"read"}
KeyReads == {"read_key", "cursor_save"}

\* restores is what the device goes back to when the read ends, or Nothing.
ReadCall == [op : StreamReads \cup KeyReads \cup {"eval", "stopped"},
         got : Seq(Byte), restores : {"cooked", "raw", Nothing}]

Evaluating == [op |-> "eval", got |-> <<>>, restores |-> Nothing]
Prompt == [op |-> "repl_line", got |-> <<>>, restores |-> Nothing]

ConsoleTyped ==
    /\ mode \in {"repl", "file"}
    /\ tty \in BOOLEAN
    /\ uses \in {"streams", "keys", "both"}
    /\ kernel \in Seq(Byte)
    /\ ended \in BOOLEAN
    /\ buffers \in [{"repl", "stdin"} -> Seq(Byte)]
    /\ device \in {"cooked", "raw"}
    /\ rawState \in {"cooked", "raw", Nothing}
    /\ reading \in ReadCall
    /\ delivered \in Seq(1 .. MaxArrivals)
    /\ asked \in 0 .. MaxArrivals
    /\ spoiled \in BOOLEAN

ConsoleInit ==
    /\ mode \in {"repl", "file"}
    /\ tty \in BOOLEAN
    /\ uses \in {"streams", "keys", "both"}
    /\ kernel = <<>>
    /\ ended = FALSE
    /\ buffers = [b \in {"repl", "stdin"} |-> <<>>]
    /\ device = "cooked"
    /\ rawState = Nothing
    /\ reading = IF mode = "repl" THEN Prompt ELSE Evaluating
    /\ delivered = <<>>
    /\ asked = 0
    /\ spoiled = FALSE

-----------------------------------------------------------------------------
(* The device                                                              *)

Arrived == Len(delivered) + Len(buffers["repl"]) + Len(buffers["stdin"]) + Len(kernel)

Arrive(kinds) ==
    /\ ~ended
    /\ Arrived + Len(kinds) <= MaxArrivals
    /\ kernel' = kernel \o [i \in DOMAIN kinds |-> [kind |-> kinds[i], number |-> Arrived + i]]

\* The user, or the other end of the pipe.
Type ==
    /\ \E kinds \in {<<"x">>, <<"newline">>, <<"lead", "cont">>, <<"lead">>} : Arrive(kinds)
    /\ UNCHANGED <<session, ended, buffers, delivered, device, rawState, reading, asked, spoiled>>

\* The terminal answers a request for the cursor position.
Report ==
    /\ tty
    /\ asked > 0
    /\ Arrive(<<"esc", "R">>)
    /\ asked' = asked - 1
    /\ UNCHANGED <<session, ended, buffers, delivered, device, rawState, reading, spoiled>>

EndInput ==
    /\ ~ended
    /\ ended' = TRUE
    /\ UNCHANGED <<session, kernel, buffers, delivered, device, rawState, reading, asked, spoiled>>

Newlines(bytes) == {i \in DOMAIN bytes : bytes[i].kind = "newline"}

\* How much one read may take: a cooked terminal keeps a line until it is
\* complete, and hands out one at a time.
Ready ==
    IF ~tty \/ device = "raw" \/ (ended /\ Newlines(kernel) = {}) THEN Len(kernel)
    ELSE IF Newlines(kernel) = {} THEN 0
    ELSE CHOOSE i \in Newlines(kernel) : \A j \in Newlines(kernel) : i <= j

-----------------------------------------------------------------------------
(* Readers                                                                 *)

\* Mutant: io.stdin wraps the reader of the REPL in a buffer of its own.
BufferOfItsOwn(op) ==
    IF op \in StreamReads \ {"repl_line"} THEN "stdin"
    ELSE IF mode = "repl" THEN "repl" ELSE Nothing

\* newIOStream keeps a reader that has a buffer already; the terminal package
\* reads what the evaluator was given, the buffer or the input.
BufferOf(op) ==
    IF mode = "repl" THEN "repl" ELSE IF op \in StreamReads THEN "stdin" ELSE Nothing

Reading == reading.op \in StreamReads \cup KeyReads

LastKind(bytes) == bytes[Len(bytes)].kind

\* Mutant: the end of the input ends no character.
DrainedLine == ended /\ kernel = <<>> /\ reading.op \notin KeyReads

\* Whether the reader has all it wants: a line, a character (readRune) or a
\* report (readCursorResponse); read wants everything.
Satisfied ==
    /\ reading.got # <<>>
    /\ CASE reading.op \in Lines -> LastKind(reading.got) = "newline"
         [] reading.op = "read_key" -> reading.got[1].kind # "lead" \/ Len(reading.got) = 2
         [] reading.op = "cursor_save" -> LastKind(reading.got) = "R" \/ Len(reading.got) = MaxResponse
         [] OTHER -> FALSE

\* A buffer is filled with what one read returns when it is empty.
Fill ==
    /\ Reading
    /\ ~Satisfied
    /\ LET b == BufferOf(reading.op) IN
       /\ b # Nothing
       /\ buffers[b] = <<>>
       /\ Ready > 0
       /\ buffers' = [buffers EXCEPT ![b] = SubSeq(kernel, 1, Ready)]
    /\ kernel' = SubSeq(kernel, Ready + 1, Len(kernel))
    /\ UNCHANGED <<session, ended, delivered, device, rawState, reading, asked, spoiled>>

Take ==
    /\ Reading
    /\ ~Satisfied
    /\ LET b == BufferOf(reading.op)
           source == IF b = Nothing THEN SubSeq(kernel, 1, Ready) ELSE buffers[b] IN
       /\ source # <<>>
       /\ reading' = [reading EXCEPT !.got = Append(@, Head(source))]
       /\ delivered' = Append(delivered, Head(source).number)
       /\ IF b = Nothing
          THEN kernel' = Tail(kernel) /\ UNCHANGED buffers
          ELSE buffers' = [buffers EXCEPT ![b] = Tail(@)] /\ UNCHANGED kernel
    /\ UNCHANGED <<session, ended, device, rawState, asked, spoiled>>

Drained == ended /\ kernel = <<>> /\ (BufferOf(reading.op) # Nothing => buffers[BufferOf(reading.op)] = <<>>)

\* Mutant: the device is restored by the successful return only.
RestoresOnSuccess ==
    \/ (reading.restores = Nothing \/ ~Satisfied) /\ UNCHANGED <<device, spoiled>>
    \/ reading.restores # Nothing /\ Satisfied /\ device' = reading.restores /\ UNCHANGED spoiled
    \/ reading.restores # Nothing /\ Satisfied /\ spoiled' = TRUE /\ UNCHANGED device

\* The deferred restore of a temporary raw mode; its failure is ignored.
Restores ==
    \/ reading.restores = Nothing /\ UNCHANGED <<device, spoiled>>
    \/ reading.restores # Nothing /\ device' = reading.restores /\ UNCHANGED spoiled
    \/ reading.restores # Nothing /\ spoiled' = TRUE /\ UNCHANGED device

\* The REPL evaluates a line, unless the end of the input left none.
NextCall ==
    IF reading.op = "repl_line" /\ reading.got = <<>> THEN [Evaluating EXCEPT !.op = "stopped"] ELSE Evaluating

\* A read ends when it is satisfied, at the end of the input, or when the
\* system fails it with whatever it has taken.
Finish ==
    /\ Reading
    /\ Satisfied \/ Drained
    /\ Restores
    /\ reading' = NextCall
    /\ UNCHANGED <<session, input, rawState, asked>>

ReadFails ==
    /\ Reading
    /\ ~Satisfied
    /\ Restores
    /\ reading' = NextCall
    /\ UNCHANGED <<session, input, rawState, asked>>

-----------------------------------------------------------------------------
(* The program                                                             *)

Calls(op) ==
    /\ reading.op = "eval"
    /\ uses \in {"both", IF op \in StreamReads THEN "streams" ELSE "keys"}

StartStreamRead ==
    /\ \E op \in {"read_line", "read"} :
        /\ Calls(op)
        /\ reading' = [Evaluating EXCEPT !.op = op]
    /\ UNCHANGED <<session, input, device, rawState, asked, spoiled>>

\* fileDescriptor: a buffer has none.
HasDescriptor == BufferOf("read_key") = Nothing

\* temporaryRawLocked: raw for the time of the call, unless raw_mode is on or
\* the input is no terminal.  cursor_save asks for a report then.
StartKeyRead ==
    /\ \E op \in KeyReads :
        /\ Calls(op)
        /\ IF rawState = Nothing /\ HasDescriptor /\ tty
           THEN reading' = [Evaluating EXCEPT !.op = op, !.restores = device] /\ device' = "raw"
           ELSE reading' = [Evaluating EXCEPT !.op = op] /\ UNCHANGED device
        /\ asked' = IF op = "cursor_save" THEN asked + 1 ELSE asked
    /\ asked' <= MaxArrivals
    /\ UNCHANGED <<session, input, rawState, spoiled>>

\* Once on, it stays as it is; a failure changes nothing.
RawMode ==
    /\ Calls("raw_mode")
    /\ rawState = Nothing
    /\ HasDescriptor /\ tty
    /\ rawState' = device
    /\ device' = "raw"
    /\ UNCHANGED <<session, input, reading, asked, spoiled>>

NormalMode ==
    /\ Calls("normal_mode")
    /\ rawState # Nothing
    /\ device' = rawState
    /\ rawState' = Nothing
    /\ UNCHANGED <<session, input, reading, asked, spoiled>>

\* The line is evaluated, or the file has run.
EndEval ==
    /\ reading.op = "eval"
    /\ reading' = IF mode = "repl" THEN Prompt ELSE [Evaluating EXCEPT !.op = "stopped"]
    /\ UNCHANGED <<session, input, device, rawState, asked, spoiled>>

ReadStep == Fill \/ Take \/ Finish

ConsoleNext ==
    \/ Type
    \/ Report
    \/ EndInput
    \/ ReadStep
    \/ ReadFails
    \/ StartStreamRead
    \/ StartKeyRead
    \/ RawMode
    \/ NormalMode
    \/ EndEval

\* Reads go on when they can; nobody has to type, call or fail.
ConsoleSpec == ConsoleInit /\ [][ConsoleNext]_consoleVars /\ WF_consoleVars(ReadStep)

-----------------------------------------------------------------------------
(* Properties                                                              *)

\* Bytes are consumed in the order they arrived, each once and none passed
\* over, whoever consumes them: io.stdin and the REPL always, and the terminal
\* package too in the REPL (repl.go: "Share this exact buffer with
\* core:io.stdin"; io.go, newIOStream: "a second buffer could strand those
\* bytes").  Only a file run that mixes io.stdin with the terminal package may
\* find keys typed earlier stranded in the buffer of io.stdin.
InputInOrder ==
    /\ ConsoleTyped
    /\ mode = "repl" \/ uses # "both" => \A i \in DOMAIN delivered : delivered[i] = i

\* The device is raw exactly while raw_mode is on or a read of the terminal
\* package has made it so, however reads and mode changes follow each other
\* and fail; only a failed restore, which the code ignores, breaks this
\* (terminal.go, temporaryRawLocked).
RawModeFollowsState ==
    ~spoiled => device = IF rawState # Nothing \/ reading.restores # Nothing THEN "raw" ELSE "cooked"

\* No read outlives the input: once it has ended, a read in progress returns
\* what there is, or fails.
EndOfInputEndsReads == (ended /\ Reading) ~> ~Reading
=============================================================================
