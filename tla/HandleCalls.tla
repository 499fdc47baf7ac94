---------------------------- MODULE HandleCalls ----------------------------
(***************************************************************************)
(* What the native handles of stdlib/networking.go and stdlib/io.go share: *)
(* a value made by a call is a struct of callables around one native       *)
(* state with a closed flag, which several evaluators may call at once.    *)
(***************************************************************************)
EXTENDS Integers, Sequences

CONSTANTS
    Tasks,          \* evaluators that run concurrently
    Handles,        \* native states that may be made
    None,
    Mixes           \* which native states may be made in one behaviour

ASSUME MixesAreSets == \A mix \in Mixes : mix \subseteq Handles
ASSUME NoneIsNoHandle == None \notin Handles \cup BOOLEAN

VARIABLES
    closed,     \* the flag of each native state; None until the state exists
    call        \* what each task is doing

\* at: "idle", "called" (the flag is not tested yet), "io" (it was clear),
\* "closing" (this call set it).  to is an address; size a buffer or what is
\* left to do; late whether the call began after the flag was set.  An idle
\* task remembers whether its last call succeeded.
Outcomes == {"ok", "failed"}

Idle(outcome) ==
    [op |-> outcome, at |-> "idle", on |-> None, to |-> None, size |-> 0, late |-> FALSE]

CallsTyped(ops) ==
    /\ closed \in [Handles -> BOOLEAN \cup {None}]
    /\ call \in [Tasks -> [op : ops \cup Outcomes, at : {"idle", "called", "io", "closing"},
                           on : Handles \cup {None}, to : Handles \cup {None},
                           size : Int, late : BOOLEAN]]
    /\ \A t \in Tasks : call[t].at = "idle" <=> call[t].op \in Outcomes

CallsInit ==
    /\ closed = [h \in Handles |-> None]
    /\ call = [t \in Tasks |-> Idle("ok")]

Exists(h) == closed[h] # None

\* The next native state of a kind; those of one kind are alike.
CanMake(h) == ~Exists(h) /\ \E mix \in Mixes : {h} \cup {g \in Handles : Exists(g)} \subseteq mix

Made(h) == [closed EXCEPT ![h] = FALSE]

\* A call arrives with its arguments.
Begin(t, op, h, to, size) ==
    /\ call[t].at = "idle"
    /\ call' = [call EXCEPT ![t] =
           [op |-> op, at |-> "called", on |-> h, to |-> to, size |-> size,
            late |-> h # None /\ closed[h] = TRUE]]
    /\ UNCHANGED closed

Calling(t, op) == call[t].at = "called" /\ call[t].op = op

Working(t, op) == call[t].at = "io" /\ call[t].op = op

Ended(t, outcome) == [call EXCEPT ![t] = Idle(outcome)]

\* The failure is the error struct the signature declares, or a language error
\* for a negative size.
Failed(t) == call' = Ended(t, "failed")

Proceeds(t) == call' = [call EXCEPT ![t].at = "io"]

\* The call that finds the flag clear sets it and has the handle to itself.
TakesFlag(t) ==
    IF closed[call[t].on] = TRUE
    THEN Failed(t) /\ UNCHANGED closed
    ELSE /\ closed' = [closed EXCEPT ![call[t].on] = TRUE]
         /\ call' = [call EXCEPT ![t].at = "closing"]
=============================================================================
