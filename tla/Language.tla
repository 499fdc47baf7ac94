------------------------------- MODULE Language -------------------------------
(***************************************************************************)
(* Four parts of the language and its library that share no state, started *)
(* one at a time: the contexts of the parser, one operator expression from *)
(* its tokens to its value, one call through contracts, and a map of       *)
(* core:collections that makes its values itself.                          *)
(***************************************************************************)
EXTENDS ParserContexts, Expressions, CallContracts, DefaultMaps

languageVars == <<parserVars, exprVars, callVars, mapsVars>>

LanguageInit ==
    /\ ParserIdle /\ MapsInit
    /\ \/ ExprIdle /\ CallIdle
       \/ ExprInit /\ CallIdle
       \/ ExprIdle /\ CallInit

\* A parser is followed, or a map used, only where no expression and no call
\* was chosen, and each while the other rests.
Unchosen == phase = "idle" /\ at = "idle"

ParserStep == Unchosen /\ MapsInit /\ ParserNext /\ UNCHANGED <<exprVars, callVars, mapsVars>>
MapsStep == Unchosen /\ ParserIdle /\ MapsNext /\ UNCHANGED <<parserVars, exprVars, callVars>>
ExprStep == ExprNext /\ UNCHANGED <<parserVars, callVars, mapsVars>>
CallStep == CallNext /\ UNCHANGED <<parserVars, exprVars, mapsVars>>

LanguageNext == ParserStep \/ ExprStep \/ CallStep \/ MapsStep
LanguageSpec == LanguageInit /\ [][LanguageNext]_languageVars
=============================================================================
