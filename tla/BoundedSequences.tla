-------------------------- MODULE BoundedSequences --------------------------
(***************************************************************************)
(* What core:collections promises (docs/stdlib/collections.md), in terms   *)
(* of sequences alone: a collection is a sequence and the length it is     *)
(* bounded by.  Nothing here knows of backing arrays, of capacities or of  *)
(* two fields that could name different arrays.                            *)
(***************************************************************************)
EXTENDS Integers, Sequences, SequencesExt

CONSTANTS
  Values,      \* what is stored
  Equal(_, _), \* collection membership
  Offsets      \* integers given as positions and amounts

VARIABLES
  contents,   \* the collections created so far
  bounds,     \* the greatest length of each, or Unbounded
  answer      \* what the last operation returned

sequenceVars == <<contents, bounds, answer>>

Unbounded == -1
Null == <<"null", 0>>
Given(value) == <<"value", value>>
Raised(error) == <<error, 0>>

(* What is kept of a sequence that grew at one end. *)
Newest(q, bound) ==
  IF bound = Unbounded \/ Len(q) <= bound THEN q
  ELSE SubSeq(q, Len(q) - bound + 1, Len(q))
Foremost(q, bound) ==
  IF bound = Unbounded \/ Len(q) <= bound THEN q ELSE SubSeq(q, 1, bound)

Full(c) == bounds[c] # Unbounded /\ Len(contents[c]) >= bounds[c]
Positions(q, value) == {i \in DOMAIN q : Equal(q[i], value)}

(* Negative positions count from the end; positions outside are clamped. *)
Clamped(position, length) ==
  LET from == IF position < 0 THEN position + length ELSE position
  IN IF from < 0 THEN 0 ELSE IF from > length THEN length ELSE from

-----------------------------------------------------------------------------
SequencesInit == contents = <<>> /\ bounds = <<>> /\ answer = Null

Becomes(c, q) ==
  /\ contents' = [contents EXCEPT ![c] = q]
  /\ UNCHANGED bounds

(* A new collection, empty, given or made from others, within its bound. *)
New ==
  /\ Len(contents') = Len(contents) + 1
  /\ contents = Front(contents') /\ bounds = Front(bounds')
  /\ \A i \in DOMAIN Last(contents') : Last(contents')[i] \in Values
  /\ Last(bounds') # Unbounded => Len(Last(contents')) <= Last(bounds')
  /\ answer' = Null

AddRight(c, q) ==
  Becomes(c, Newest(contents[c] \o q, bounds[c])) /\ answer' = Null
AddLeft(c, q) ==
  Becomes(c, Foremost(Reverse(q) \o contents[c], bounds[c])) /\ answer' = Null

TakeRight(c) ==
  IF contents[c] = <<>>
    THEN answer' = Raised("IndexError") /\ UNCHANGED <<contents, bounds>>
    ELSE Becomes(c, Front(contents[c])) /\ answer' = Given(Last(contents[c]))
TakeLeft(c) ==
  IF contents[c] = <<>>
    THEN answer' = Raised("IndexError") /\ UNCHANGED <<contents, bounds>>
    ELSE Becomes(c, Tail(contents[c])) /\ answer' = Given(Head(contents[c]))

Place(c, position, value) ==
  IF Full(c)
    THEN answer' = Raised("IndexError") /\ UNCHANGED <<contents, bounds>>
    ELSE /\ Becomes(c, InsertAt(contents[c],
                                Clamped(position, Len(contents[c])) + 1, value))
         /\ answer' = Null

RemoveEqual(c, value) ==
  LET found == Positions(contents[c], value)
  IN IF found = {}
       THEN answer' = Raised("ValueError") /\ UNCHANGED <<contents, bounds>>
       ELSE /\ \E i \in found :
                 /\ \A j \in found : i <= j
                 /\ Becomes(c, RemoveAt(contents[c], i))
            /\ answer' = Null

Put(c, index, value) ==
  IF index \in 0 .. Len(contents[c]) - 1
    THEN Becomes(c, [contents[c] EXCEPT ![index + 1] = value]) /\ answer' = Null
    ELSE answer' = Raised("IndexError") /\ UNCHANGED <<contents, bounds>>

(* The element at i moves by the amount, around the end. *)
Turned(c, amount) ==
  LET q == contents[c]
  IN /\ Becomes(c, [i \in DOMAIN q |-> q[((i - 1 - amount) % Len(q)) + 1]])
     /\ answer' = Null

Operation(c) ==
  \/ \E value \in Values :
       AddRight(c, <<value>>) \/ AddLeft(c, <<value>>) \/ RemoveEqual(c, value)
  \/ \E d \in DOMAIN contents :
       AddRight(c, contents[d]) \/ AddLeft(c, contents[d])
  \/ TakeRight(c) \/ TakeLeft(c)
  \/ Becomes(c, <<>>) /\ answer' = Null
  \/ Becomes(c, Reverse(contents[c])) /\ answer' = Null
  \/ \E p \in Offsets :
       \/ Turned(c, p)
       \/ \E value \in Values : Place(c, p, value) \/ Put(c, p, value)

SequencesNext ==
  \/ New
  \/ \E c \in DOMAIN contents : Operation(c)

SequencesSpec == SequencesInit /\ [][SequencesNext]_sequenceVars
=============================================================================
