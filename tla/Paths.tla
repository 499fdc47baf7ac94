-------------------------------- MODULE Paths --------------------------------
(***************************************************************************)
(* The lexical half of core:path on a platform whose separator is "/": how *)
(* a text is cleaned, taken apart, joined and changed.  A text is the      *)
(* sequence of pieces between its separators, a piece the sequence of      *)
(* segments between its dots: "/a.x" is <<Empty, <<"a", "x">> >>.          *)
(***************************************************************************)
EXTENDS Integers, Sequences, SequencesExt

CONSTANT Segments            \* what stands between dots; "" is nothing

ASSUME SegmentsAssumption == "" \in Segments

Pieces == Seq(Segments) \ {<<>>}
AllTexts == Seq(Pieces) \ {<<>>}

Empty == <<"">>           \* between two separators, and the empty text
Dot == <<"", "">>
DotDot == <<"", "", "">>

EmptyText == <<Empty>>
Root == <<Empty, Empty>>
Current == <<Dot>>

(* Concatenation; `suffix` is the sequence of segments after its first dot. *)
EndsWithSeparator(text) == Len(text) > 1 /\ Last(text) = Empty
Joined(text, next) ==
  IF text = EmptyText \/ EndsWithSeparator(text)
    THEN Front(text) \o next ELSE text \o next
Suffixed(text, suffix) == [text EXCEPT ![Len(text)] = @ \o suffix]

-----------------------------------------------------------------------------
(* A loop over `items`: step[<<x, item>>] is what one turn makes of x.     *)
Folded(step, start, items) ==
  LET after[n \in 0 .. Len(items)] ==
        IF n = 0 THEN start ELSE step[<<after[n - 1], items[n]>>]
  IN after[Len(items)]

(* Cleaning.                                                               *)

Rooted(text) == Len(text) > 1 /\ Head(text) = Empty
Components(text) ==
  Folded([turn \in Seq(Pieces) \X Pieces |->
            IF turn[2] = Empty THEN turn[1] ELSE Append(turn[1], turn[2])],
         <<>>, text)

Build(rooted, components) ==
  IF rooted THEN IF components = <<>> THEN Root ELSE <<Empty>> \o components
  ELSE IF components = <<>> THEN Current ELSE components

(* As Entered, ".." always taking the component before it. *)
EnteredPopping(rooted, stack, piece) ==
  IF piece = Dot THEN stack
  ELSE IF piece # DotDot THEN Append(stack, piece)
  ELSE IF stack # <<>> THEN Front(stack)
  ELSE IF rooted THEN stack ELSE Append(stack, piece)

(* One piece of _clean: ".." undoes a name and stays only before names. *)
Entered(rooted, stack, piece) ==
  IF piece = Dot THEN stack
  ELSE IF piece # DotDot THEN Append(stack, piece)
  ELSE IF stack # <<>> /\ Last(stack) # DotDot THEN Front(stack)
  ELSE IF rooted THEN stack ELSE Append(stack, piece)

Clean(text) ==
  LET rooted == Rooted(text)
  IN Build(rooted, Folded([turn \in Seq(Pieces) \X Pieces |-> Entered(rooted, turn[1], turn[2])],
                          <<>>, Components(text)))

JoinTexts(base, texts) ==
  Clean(Folded([turn \in AllTexts \X AllTexts |-> Joined(turn[1], turn[2])], base, texts))

-----------------------------------------------------------------------------
(* Taking apart.                                                           *)

ParentText(text) ==
  LET components == Components(Clean(text))
  IN IF components = <<>> THEN Clean(text)
     ELSE Build(Rooted(Clean(text)), Front(components))

NameOf(text) ==
  LET components == Components(Clean(text))
  IN IF components = <<>> THEN Root ELSE <<Last(components)>>

Parts(text) ==
  (IF Rooted(text) THEN <<Root>> ELSE <<>>)
    \o [i \in DOMAIN Components(Clean(text)) |-> <<Components(Clean(text))[i]>>]

(* As Suffix, a dot in front counting as well. *)
SuffixOfHidden(text) ==
  LET piece == Last(NameOf(text))
  IN IF Len(piece) = 1 \/ piece = Dot THEN <<>> ELSE <<Last(piece)>>
(* From the last dot on, unless that is the first character. *)
Suffix(text) ==
  LET piece == Last(NameOf(text))
  IN IF Len(piece) = 1 \/ (Len(piece) = 2 /\ piece[1] = "") THEN <<>>
     ELSE <<Last(piece)>>

Stem(text) ==
  IF Suffix(text) = <<>> THEN NameOf(text) ELSE <<Front(Last(NameOf(text)))>>

(* Every dot but one in front. *)
SuffixList(text) ==
  LET piece == Last(NameOf(text))
      first == IF piece[1] = "" /\ Len(piece) > 1 THEN 3 ELSE 2
  IN SubSeq(piece, first, Len(piece))

(* As far as the root or the current directory, their own parents. *)
Parents(text) ==
  LET ancestor[n \in Nat] ==
        IF n = 0 THEN text ELSE ParentText(ancestor[n - 1])
      last == CHOOSE n \in 0 .. Len(text) :
                /\ ancestor[n + 1] = ancestor[n]
                /\ \A m \in 0 .. n - 1 : ancestor[m + 1] # ancestor[m]
  IN [n \in 1 .. last |-> ancestor[n]]

-----------------------------------------------------------------------------
(* Changing.  An operation yields the one path it answers, or none when it *)
(* refuses.                                                                *)

IsRelative(text, base) ==
  /\ Rooted(Clean(text)) = Rooted(Clean(base))
  /\ IsPrefix(Components(Clean(base)), Components(Clean(text)))

RelativeText(text, base) ==
  LET from == Len(Components(Clean(base))) + 1
      rest == SubSeq(Components(Clean(text)), from, Len(Components(Clean(text))))
  IN IF rest = <<>> THEN EmptyText ELSE rest
RelativeTo(text, base) ==
  IF IsRelative(text, base) THEN {Clean(RelativeText(text, base))} ELSE {}

WithName(text, name) ==
  IF name # EmptyText /\ NameOf(name) = name /\ name \notin {<<Dot>>, <<DotDot>>}
    THEN {JoinTexts(ParentText(text), <<name>>)} ELSE {}

WithStem(text, stem) ==
  IF stem # EmptyText /\ NameOf(stem) = stem
    THEN {JoinTexts(ParentText(text), <<Suffixed(stem, Suffix(text))>>)} ELSE {}

WithSuffix(text, suffix) ==
  {JoinTexts(ParentText(text), <<Suffixed(Stem(text), suffix)>>)}
=============================================================================
