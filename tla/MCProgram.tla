------------------------------ MODULE MCProgram ------------------------------
(***************************************************************************)
(* Model-checking instance of Language and of Objects, which share no      *)
(* state: a behaviour moves one of them, chosen at the start, and the      *)
(* other rests as it began.                                                *)
(*                                                                         *)
(* The layouts of structs are those in which one type embeds another,      *)
(* itself or nothing, with a method of its own, of the other, an untyped   *)
(* field, or a name that nothing declares.                                 *)
(***************************************************************************)
EXTENDS MCLanguage, Objects

CONSTANTS A, B, Nowhere

Field(name, type) == [name |-> name, type |-> type, embedded |-> FALSE]
EmbeddedField(type) == [name |-> "in", type |-> type, embedded |-> TRUE]

LayoutsOf == [n \in {A, B, Nowhere} |->
    CASE n = A -> {<<Field("m", Method(A))>>, <<EmbeddedField(Nominal(B))>>}
      [] n = B -> {<<EmbeddedField(Nominal(A))>>, <<EmbeddedField(Nominal(Nowhere))>>}
      [] OTHER -> {}]

MemberNames == {"m", "in"}
TypeNames == {A, B, Nowhere}
Enums == {A}

-----------------------------------------------------------------------------
VARIABLE part
programVars == <<part, languageVars, objectsVars>>

LanguageRests == Unchosen /\ ParserIdle /\ MapsInit

ProgramInit ==
    /\ LanguageInit /\ ObjectsInit
    /\ part \in IF LanguageRests THEN {"language", "objects"} ELSE {"language"}

LanguageStep == part = "language" /\ LanguageNext /\ UNCHANGED <<part, objectsVars>>
ObjectsStep == part = "objects" /\ ObjectsNext /\ UNCHANGED <<part, languageVars>>

ProgramNext == LanguageStep \/ ObjectsStep
ProgramSpec == ProgramInit /\ [][ProgramNext]_programVars
=============================================================================
