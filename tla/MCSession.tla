------------------------------ MODULE MCSession ------------------------------
(***************************************************************************)
(* Model-checking instance of two parts of a session that share no state:  *)
(* ModuleLoading and Console.  A behaviour moves one of them, chosen at    *)
(* the start, and the other rests as it began.                             *)
(***************************************************************************)
EXTENDS MCModuleLoading, Console

CONSTANT MixedArrivals      \* bytes that arrive where InputInOrder promises nothing

VARIABLE part
sessionVars == <<part, vars, consoleVars>>

PackagesRest == searchPath = <<lib, app>>
ConsoleRests == mode = "file" /\ ~tty /\ uses = "streams"

SessionInit ==
    /\ Init /\ ConsoleInit
    /\ \/ part = "packages" /\ ConsoleRests
       \/ part = "console" /\ PackagesRest

PackagesStep == part = "packages" /\ Next /\ UNCHANGED <<part, consoleVars>>

\* A file run that mixes io.stdin with the terminal package gets fewer bytes.
ConsoleStep ==
    /\ part = "console" /\ ConsoleNext /\ UNCHANGED <<part, vars>>
    /\ mode = "file" /\ uses = "both" => Arrived' <= MixedArrivals

SessionNext == PackagesStep \/ ConsoleStep

SessionSpec ==
    /\ SessionInit
    /\ [][SessionNext]_sessionVars
    /\ WF_consoleVars(part = "console" /\ ReadStep)
=============================================================================
