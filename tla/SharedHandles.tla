--------------------------- MODULE SharedHandles ---------------------------
(***************************************************************************)
(* What every native handle promises the evaluators that share it          *)
(* (stdlib/networking.go and the File of stdlib/io.go), whatever kind of   *)
(* resource it wraps.  The resource is released once.  A call made after   *)
(* some close has taken the handle never succeeds, and once the resource   *)
(* is released no call that was still on its way succeeds either.          *)
(***************************************************************************)
CONSTANTS Tasks, Handles, None

VARIABLES
    life,       \* what each handle has come to
    pending     \* the handle each task is calling, and what it may still do

Lives == {"absent", "open", "taken", "released"}

\* A late call began after the handle was taken; a closing call took it.  An
\* idle task remembers how its last call ended.
Chances == {"early", "late", "closing"}
Outcomes == {"ok", "failed"}

NoCall(outcome) == [on |-> None, chance |-> outcome]

TypeOK ==
    /\ life \in [Handles -> Lives]
    /\ pending \in [Tasks -> [on : Handles \cup {None}, chance : Chances \cup Outcomes]]

Init ==
    /\ life = [h \in Handles |-> "absent"]
    /\ pending = [t \in Tasks |-> NoCall("ok")]

Calling(t, h, chance) == pending[t] = [on |-> h, chance |-> chance]

\* Handles appear open.
Open(new) ==
    /\ \A h \in new : life[h] = "absent"
    /\ life' = [h \in Handles |-> IF h \in new THEN "open" ELSE life[h]]

Begin(t, h) ==
    /\ pending[t].on = None
    /\ life[h] # "absent"
    /\ pending' = [pending EXCEPT ![t] =
           [on |-> h, chance |-> IF life[h] = "open" THEN "early" ELSE "late"]]
    /\ UNCHANGED life

\* A successful call may bring a handle into being: accept does.
Succeed(t) ==
    \E h \in Handles :
        /\ Calling(t, h, "early")
        /\ life[h] # "released"
        /\ pending' = [pending EXCEPT ![t] = NoCall("ok")]
        /\ \E new \in {{}} \cup {{n} : n \in Handles} : Open(new)

Fail(t) ==
    /\ pending[t].on # None
    /\ pending[t].chance # "closing"
    /\ pending' = [pending EXCEPT ![t] = NoCall("failed")]
    /\ UNCHANGED life

Take(t) ==
    \E h \in Handles :
        /\ Calling(t, h, "early")
        /\ life[h] = "open"
        /\ life' = [life EXCEPT ![h] = "taken"]
        /\ pending' = [pending EXCEPT ![t].chance = "closing"]

\* The task that took the handle releases the resource and ends its call.
Release(t) ==
    \E h \in Handles :
        /\ Calling(t, h, "closing")
        /\ life' = [life EXCEPT ![h] = "released"]
        /\ \E outcome \in Outcomes : pending' = [pending EXCEPT ![t] = NoCall(outcome)]

\* A call that is on no handle, such as the one that makes it, ends.
Elsewhere(t, outcome) ==
    /\ pending[t].on = None
    /\ pending' = [pending EXCEPT ![t] = NoCall(outcome)]
    /\ \E new \in {{}} \cup {{n} : n \in Handles} : Open(new)

Next ==
    \/ \E t \in Tasks, outcome \in Outcomes : Elsewhere(t, outcome)
    \/ \E t \in Tasks :
        \/ \E h \in Handles : Begin(t, h)
        \/ Succeed(t)
        \/ Fail(t)
        \/ Take(t)
        \/ Release(t)

Spec == Init /\ [][Next]_<<life, pending>>
=============================================================================
