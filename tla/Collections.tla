---------------------------- MODULE Collections ----------------------------
(***************************************************************************)
(* Native arrays and the Deque and Stack of core:collections.  An array is *)
(* a Go slice: a backing of slots, of which the first `length` are in use. *)
(* An operation works in place or moves the array to a new backing; a for  *)
(* loop keeps the slice it was given, so that it sees what is done in      *)
(* place and nothing that happens after a move.  A Deque holds its array   *)
(* twice: in the field `values`, which the module's functions read, and in *)
(* the closures of its methods.                                            *)
(*                                                                         *)
(* The program may take any operation at any moment, also inside a loop    *)
(* body and inside the value of an index assignment.                       *)
(***************************************************************************)
EXTENDS Integers, Sequences, FiniteSets, FiniteSetsExt, SequencesExt

CONSTANTS
  Programs,     \* what programs use, and bounds on how far they are followed
  Unequal,      \* values not equal to themselves (NaN)
  MaxArrays     \* bound: arrays created

ASSUME CollectionsAssumption ==
  /\ MaxArrays \in Nat
  /\ \A p \in Programs :
       /\ p.values \subseteq Nat \ {0}
       /\ p.bounds \subseteq Nat /\ p.offsets \subseteq Int
       /\ p.direct \in BOOLEAN
       /\ p.maxHandles \in Nat /\ p.maxCapacity \in Nat /\ p.maxNesting \in Nat

VARIABLES
  arrays,   \* every object.Array: its backing and the length in use
  handles,  \* every Deque and Stack
  stack,    \* loops running and index assignments waiting for a value
  answer,   \* what the last operation returned
  crashed,  \* the interpreter stopped on a Go runtime error
  program   \* the program that runs

vars == <<arrays, handles, stack, answer, crashed, program>>

Values == program.values            \* elements: positive numbers
Bounds == program.bounds            \* arguments of deque()
Offsets == program.offsets          \* integers used as indexes, positions and amounts
direct == program.direct            \* it uses `values` and the constructors itself
MaxHandles == program.maxHandles    \* Deques and Stacks created
MaxCapacity == program.maxCapacity  \* slots of a backing
MaxNesting == program.maxNesting    \* loops and index assignments at once

Nil == 0            \* an empty slot
Unbounded == -1     \* no maximum length
Null == <<"null", 0>>
Given(value) == <<"value", value>>
Raised(error) == <<error, 0>>

Slots == UNION {[1 .. n -> Values \cup {Nil}] : n \in 0 .. MaxCapacity}
ArrayIds == DOMAIN arrays
Content(a) == SubSeq(a.slots, 1, a.length)
Equal(x, y) == x = y /\ x \notin Unequal        \* objectsEqual

(* An operand of the module's functions: an array or a handle. *)
Plain(a) == [kind |-> "array", id |-> a]
Handle(h) == [kind |-> "handle", id |-> h]

(* In other programs an array inside a Deque or Stack stays there. *)
Held == IF direct THEN ArrayIds
        ELSE ArrayIds \ {handles[h].field : h \in DOMAIN handles}
Operands == {Plain(a) : a \in Held} \cup {Handle(h) : h \in DOMAIN handles}

ArrayOf(c) == IF c.kind = "array" THEN c.id ELSE handles[c.id].field
Target(c) == arrays[ArrayOf(c)]

(* dequeMaxLength: a Deque that deque() made carries its bound. *)
BoundOf(c) == IF c.kind = "array" THEN Unbounded ELSE handles[c.id].max

-----------------------------------------------------------------------------
(* Slices.  `old` is the backing that a move leaves to the loops on it.    *)

Slice(a) == [slots |-> a.slots, length |-> a.length, moved |-> FALSE,
             old |-> <<>>]
Moved(s, slots, length) ==
  [slots |-> slots, length |-> length, moved |-> TRUE,
   old |-> IF s.moved THEN s.old ELSE s.slots]

Filled(q, capacity) ==
  q \o [i \in 1 .. capacity - Len(q) |-> Nil]

(* The capacities append() may choose for a new backing. *)
Capacities(length) == IF length = 0 THEN {0} ELSE length .. MaxCapacity

(* append() *)
Appended(s, q) ==
  LET total == s.length + Len(q)
  IN IF total <= Len(s.slots)
       THEN {[s EXCEPT !.length = total,
                       !.slots = [i \in DOMAIN @ |->
                         IF i > s.length /\ i <= total THEN q[i - s.length]
                         ELSE @[i]]]}
       ELSE {Moved(s, Filled(Content(s) \o q, capacity), total) :
               capacity \in Capacities(total)}

(* copy(values[i:], values[i+1:]): the last element stays where it was. *)
ClosedUp(s, i) ==
  [j \in DOMAIN s.slots |->
     IF j >= i /\ j < s.length THEN s.slots[j + 1] ELSE s.slots[j]]
OpenedUp(s, i) ==
  [j \in DOMAIN s.slots |->
     IF j > i /\ j <= s.length THEN s.slots[j - 1] ELSE s.slots[j]]

(* The unused backing slot is cleared before the slice is shortened. *)
Shortened(s) ==
  [s EXCEPT !.slots[s.length] = Nil, !.length = @ - 1]

AppendDeque(s, value, max) ==
  IF max = 0 THEN {s}
  ELSE IF max # Unbounded /\ s.length >= max
    THEN {[s EXCEPT !.slots = [ClosedUp(s, 1) EXCEPT ![s.length] = value]]}
  ELSE Appended(s, <<value>>)

AppendLeftDeque(s, value, max) ==
  IF max = 0 THEN {s}
  ELSE IF max # Unbounded /\ s.length >= max
    THEN {[s EXCEPT !.slots = [OpenedUp(s, 1) EXCEPT ![1] = value]]}
  ELSE IF s.length < MaxCapacity
    THEN {Moved(s, <<value>> \o Content(s), s.length + 1)}
  ELSE {}

(* extend and extend_left of a bounded Deque add one element at a time;     *)
(* Reached[n] holds what n of them may lead to.                            *)
AddAt(end, s, value, max) ==
  IF end = "right" THEN AppendDeque(s, value, max)
  ELSE AppendLeftDeque(s, value, max)

OneByOne(end, s, q, max) ==
  LET Reached[n \in 0 .. Len(q)] ==
        IF n = 0 THEN {s}
        ELSE UNION {AddAt(end, t, q[n], max) : t \in Reached[n - 1]}
  IN Reached[Len(q)]

-----------------------------------------------------------------------------
(* Stepping.                                                               *)

Item == [kind : {"for", "assign"},
         array : 0 .. MaxArrays,     \* the loop's array while on its backing
         slots : Slots,              \* a backing the array has left
         length : 0 .. MaxCapacity,  \* of the slice the loop was given
         position : 0 .. MaxCapacity,
         value : Values \cup {Nil},  \* bound by the current iteration
         on : [kind : {"none", "array", "handle"}, id : Nat],
         index : Offsets \cup {0}]

Nothing == [kind |-> "none", id |-> 0]
Loop(a) == [kind |-> "for", array |-> a, slots |-> <<>>,
            length |-> arrays[a].length, position |-> 0, value |-> Nil,
            on |-> Nothing, index |-> 0]
Waiting(c, i) == [kind |-> "assign", array |-> 0, slots |-> <<>>, length |-> 0,
                  position |-> 0, value |-> Nil, on |-> c, index |-> i]

(* As Left, the loops reading whatever backing the array has. *)
LeftAttached(a, old) == stack

Left(a, old) ==
  [i \in DOMAIN stack |->
     IF stack[i].kind = "for" /\ stack[i].array = a
       THEN [stack[i] EXCEPT !.array = 0, !.slots = old] ELSE stack[i]]

(* values.Elements = ... *)
Store(a, outcomes) ==
  \E s \in outcomes :
    /\ arrays' = [arrays EXCEPT ![a] = [slots |-> s.slots, length |-> s.length]]
    /\ stack' = IF s.moved THEN Left(a, s.old) ELSE stack
    /\ UNCHANGED handles

Answer(result) == answer' = result /\ UNCHANGED <<crashed, program>>
Silent == UNCHANGED <<answer, crashed, program>>
Crash ==
  crashed' = TRUE /\ UNCHANGED <<arrays, handles, stack, answer, program>>
Fail(error) == Answer(Raised(error)) /\ UNCHANGED <<arrays, handles, stack>>
Do(c, outcomes, result) == Store(ArrayOf(c), outcomes) /\ Answer(result)

Create(q, capacities) ==
  /\ Len(arrays) < MaxArrays
  /\ \E capacity \in capacities :
       arrays' = Append(arrays, [slots |-> Filled(q, capacity),
                                 length |-> Len(q)])
NewArray == Len(arrays) + 1

(* newSequenceInstance: methods capture the array the field holds. *)
Sequence(kind, a, max) ==
  /\ Len(handles) < MaxHandles
  /\ handles' = Append(handles, [kind |-> kind, field |-> a, captured |-> a,
                                 max |-> max])

-----------------------------------------------------------------------------
Init ==
  /\ arrays = <<>> /\ handles = <<>> /\ stack = <<>>
  /\ answer = Null /\ crashed = FALSE
  /\ program \in Programs

(* Array literals and arrays.of. *)
Literal(q) ==
  /\ Create(q, Capacities(Len(q)))
  /\ Answer(Null) /\ UNCHANGED <<handles, stack>>

(* core:arrays returns fresh arrays: append, remove, rest, reverse. *)
Fresh(q) ==
  {Append(q, value) : value \in Values}
    \cup {RemoveAt(q, i) : i \in DOMAIN q} \cup {Reverse(q)}
Derive(a) ==
  /\ \E q \in Fresh(Content(arrays[a])) :
       Len(q) <= MaxCapacity /\ Create(q, {Len(q)})
  /\ Answer(Null) /\ UNCHANGED <<handles, stack>>

NewDeque(max) ==
  /\ Create(<<>>, {0})
  /\ Sequence("Deque", NewArray, max)
  /\ Answer(Null) /\ UNCHANGED stack

NewStack ==
  /\ Create(<<>>, {0})
  /\ Sequence("Stack", NewArray, Unbounded)
  /\ Answer(Null) /\ UNCHANGED stack

(* collectionCopy: a Deque made by its constructor has no bound to copy. *)
Copy(c) ==
  LET q == Content(Target(c))
      kind == handles[c.id].kind
  IN IF c.kind = "handle" /\ BoundOf(c) = Unbounded /\ kind = "Deque"
       THEN Crash
       ELSE /\ Create(q, Capacities(Len(q)))
            /\ IF c.kind = "handle" THEN Sequence(kind, NewArray, BoundOf(c))
               ELSE UNCHANGED handles
            /\ Answer(Null) /\ UNCHANGED stack

(* collections.Deque(array) and collections.Stack(array): no methods. *)
Construct(kind, a) ==
  /\ direct /\ Len(handles) < MaxHandles
  /\ handles' = Append(handles, [kind |-> kind, field |-> a, captured |-> 0,
                                 max |-> Unbounded])
  /\ Answer(Null) /\ UNCHANGED <<arrays, stack>>

(* handle.values = array *)
SetValues(h, a) ==
  /\ direct
  /\ handles' = [handles EXCEPT ![h].field = a]
  /\ Answer(Null) /\ UNCHANGED <<arrays, stack>>

-----------------------------------------------------------------------------
(* Methods work on the captured array.                                     *)

Method(h, kind) == handles[h].kind = kind /\ handles[h].captured # 0
Captured(h) == Slice(arrays[handles[h].captured])
Run(h, outcomes, result) == Store(handles[h].captured, outcomes) /\ Answer(result)

DequeAppend(h, value) ==
  /\ Method(h, "Deque")
  /\ Run(h, AppendDeque(Captured(h), value, handles[h].max), Null)
DequeAppendLeft(h, value) ==
  /\ Method(h, "Deque")
  /\ Run(h, AppendLeftDeque(Captured(h), value, handles[h].max), Null)
Push(h, value) ==
  /\ Method(h, "Stack")
  /\ Run(h, Appended(Captured(h), <<value>>), Null)

(* popCollection *)
Pop(h) ==
  /\ handles[h].captured # 0
  /\ LET s == Captured(h)
     IN IF s.length = 0 THEN Fail("IndexError")
        ELSE Run(h, {Shortened(s)}, Given(s.slots[s.length]))

-----------------------------------------------------------------------------
(* The module's functions work on what the field holds.                    *)

Clear(c) ==
  LET s == Slice(Target(c))
      cleared == [s EXCEPT !.slots =
                    [i \in DOMAIN @ |-> IF i <= s.length THEN Nil ELSE @[i]]]
  IN Do(c, {Moved(cleared, <<>>, 0)}, Null)

Extend(c, d) ==
  LET s == Slice(Target(c))
      added == Content(Target(d))
  IN Do(c, IF BoundOf(c) # Unbounded
             THEN OneByOne("right", s, added, BoundOf(c))
             ELSE Appended(s, added), Null)

(* As ExtendLeft, keeping the order of what is added. *)
ExtendLeftInOrder(c, d) ==
  LET s == Slice(Target(c))
      q == Content(Target(d)) \o Content(s)
  IN Do(c, {t \in {Moved(s, q, Len(q))} : Len(q) <= MaxCapacity}, Null)

ExtendLeft(c, d) ==
  LET s == Slice(Target(c))
      added == Content(Target(d))
      q == Reverse(added) \o Content(s)
  IN Do(c, IF BoundOf(c) # Unbounded
             THEN OneByOne("left", s, added, BoundOf(c))
             ELSE {t \in {Moved(s, q, Len(q))} : Len(q) <= MaxCapacity}, Null)

(* normalizedInsertIndex *)
InsertPosition(index, length) ==
  LET i == IF index < 0 THEN index + length ELSE index
  IN IF i < 0 THEN 0 ELSE IF i > length THEN length ELSE i

Insert(c, index, value) ==
  LET s == Slice(Target(c))
      position == InsertPosition(index, s.length) + 1
  IN IF BoundOf(c) # Unbounded /\ s.length >= BoundOf(c)
       THEN Fail("IndexError")
       ELSE Do(c, {[t EXCEPT !.slots =
                      [OpenedUp(t, position) EXCEPT ![position] = value]] :
                     t \in Appended(s, <<Nil>>)}, Null)

PopLeft(c) ==
  LET s == Slice(Target(c))
  IN IF s.length = 0 THEN Fail("IndexError")
     ELSE Do(c, {Shortened([s EXCEPT !.slots = ClosedUp(s, 1)])},
             Given(s.slots[1]))

RemoveElement(c, value) ==
  LET s == Slice(Target(c))
      found == {i \in 1 .. s.length : Equal(s.slots[i], value)}
  IN IF found = {} THEN Fail("ValueError")
     ELSE Do(c, {Shortened([s EXCEPT !.slots = ClosedUp(s, Min(found))])}, Null)

ReverseInPlace(c) ==
  LET s == Slice(Target(c))
  IN Do(c, {[s EXCEPT !.slots =
               [i \in DOMAIN @ |->
                  IF i <= s.length THEN @[s.length + 1 - i] ELSE @[i]]]}, Null)

(* Go's remainder has the sign of the amount. *)
Remainder(amount, length) ==
  IF amount < 0 THEN -((-amount) % length) ELSE amount % length
Shift(amount, length) ==
  LET shift == Remainder(amount, length)
  IN IF shift < 0 THEN shift + length ELSE shift

Rotate(c, amount) ==
  LET s == Slice(Target(c))
      shift == Shift(amount, s.length)
      rest == s.length - shift
  IN IF s.length = 0 \/ shift = 0 THEN Do(c, {s}, Null)
     ELSE Do(c, {Moved(s, SubSeq(s.slots, rest + 1, s.length)
                            \o SubSeq(s.slots, 1, rest), s.length)}, Null)

-----------------------------------------------------------------------------
(* Loops and index assignments.                                            *)

Top == Last(stack)
Under == Front(stack)
InLoop == stack # <<>> /\ Top.kind = "for"
Assigning == stack # <<>> /\ Top.kind = "assign"
Enter(item) ==
  /\ Len(stack) < MaxNesting
  /\ stack' = Append(stack, item)
  /\ UNCHANGED <<arrays, handles>> /\ Silent

(* evalForStatement: the range is taken once. *)
BeginFor(a) == Enter(Loop(a))

NextElement ==
  /\ InLoop /\ Top.position < Top.length
  /\ LET slots == IF Top.array = 0 THEN Top.slots ELSE arrays[Top.array].slots
         at == Top.position + 1
     IN stack' = Append(Under, [Top EXCEPT !.position = at, !.value = slots[at]])
  /\ UNCHANGED <<arrays, handles>> /\ Silent

(* evalIndexAssignment: an array's index is checked before the value. *)
BeginIndexAssign(c, index) ==
  IF c.kind = "array" /\ index \notin 0 .. Target(c).length - 1
    THEN Fail("IndexError") ELSE Enter(Waiting(c, index))

Put(a, index, value) ==
  /\ arrays' = [arrays EXCEPT ![a].slots[index + 1] = value]
  /\ stack' = Under
  /\ Answer(Null) /\ UNCHANGED handles
Refused(error) ==
  /\ stack' = Under
  /\ Answer(Raised(error)) /\ UNCHANGED <<arrays, handles>>

(* An array is written at the index that was checked; a Deque or Stack is  *)
(* given the value by set_item, which checks the index then.               *)
EndIndexAssign(value) ==
  /\ Assigning
  /\ LET plain == Top.on.kind = "array"
         a == IF plain THEN Top.on.id ELSE handles[Top.on.id].captured
         inside == a # 0 /\ Top.index \in 0 .. arrays[a].length - 1
     IN IF inside THEN Put(a, Top.index, value)
        ELSE IF plain THEN Crash
        ELSE IF a = 0 THEN Refused("AttributeError")
        ELSE Refused("IndexError")

(* A loop ends, is broken out of, or fails; a value fails. *)
Leave ==
  /\ stack # <<>>
  /\ stack' = Under /\ UNCHANGED <<arrays, handles>> /\ Silent

-----------------------------------------------------------------------------
Literals == UNION {[1 .. n -> Values] : n \in 0 .. MaxCapacity}

Creation ==
  /\ ~crashed
  /\ \/ \E q \in Literals : Literal(q)
     \/ \E a \in Held : Derive(a)
     \/ \E max \in Bounds : NewDeque(max)
     \/ NewStack
     \/ \E c \in Operands : Copy(c)
     \/ \E a \in Held, kind \in {"Deque", "Stack"} : Construct(kind, a)
     \/ \E a \in Held, h \in DOMAIN handles : SetValues(h, a)

Methods ==
  ~crashed /\ \E h \in DOMAIN handles :
    \/ \E value \in Values :
         DequeAppend(h, value) \/ DequeAppendLeft(h, value) \/ Push(h, value)
    \/ Pop(h)

Functions ==
  ~crashed /\ \E c \in Operands :
    \/ Clear(c) \/ PopLeft(c) \/ ReverseInPlace(c)
    \/ \E d \in Operands : Extend(c, d) \/ ExtendLeft(c, d)
    \/ \E value \in Values : RemoveElement(c, value)
    \/ \E i \in Offsets :
         \/ Rotate(c, i)
         \/ \E value \in Values : Insert(c, i, value)

Statements ==
  /\ ~crashed
  /\ \/ \E a \in Held : BeginFor(a)
     \/ NextElement
     \/ \E c \in Operands, i \in Offsets : BeginIndexAssign(c, i)
     \/ \E value \in Values : EndIndexAssign(value)
     \/ Leave

Next == Creation \/ Methods \/ Functions \/ Statements

Spec == Init /\ [][Next]_vars

-----------------------------------------------------------------------------
Answers == {Null} \cup {Given(v) : v \in Values \cup {Nil}}
           \cup {Raised(e) : e \in {"IndexError", "ValueError", "AttributeError"}}

(* Every variable has its type; an array is no longer than its backing.     *)
TypeOK ==
  /\ arrays \in Seq([slots : Slots, length : 0 .. MaxCapacity])
  /\ Len(arrays) <= MaxArrays
  /\ \A a \in ArrayIds : arrays[a].length <= Len(arrays[a].slots)
  /\ handles \in Seq([kind : {"Deque", "Stack"}, field : ArrayIds,
                      captured : ArrayIds \cup {0},
                      max : Bounds \cup {Unbounded}])
  /\ stack \in Seq(Item) /\ Len(stack) <= MaxNesting
  /\ answer \in Answers
  /\ crashed \in BOOLEAN /\ program \in Programs

(* A loop stays inside the backing of the slice it was given, though the    *)
(* array it walks shrinks, grows, is cleared or moves meanwhile.            *)
LoopsStayInside ==
  /\ TypeOK
  /\ \A i \in DOMAIN stack :
       stack[i].kind = "for" =>
         stack[i].length <= IF stack[i].array = 0 THEN Len(stack[i].slots)
                            ELSE Len(arrays[stack[i].array].slots)

(* What the operations compute is what sequences promise: every step of a   *)
(* program that leaves `values` alone is a step of BoundedSequences, where  *)
(* there are neither slots nor closures.                                    *)
Promised == INSTANCE BoundedSequences WITH
  Values <- UNION {p.values : p \in Programs},
  Offsets <- UNION {p.offsets : p \in Programs},
  contents <- [a \in ArrayIds |-> Content(arrays[a])],
  bounds <- [a \in ArrayIds |->
               IF \E h \in DOMAIN handles : handles[h].field = a
                 THEN handles[CHOOSE h \in DOMAIN handles :
                                handles[h].field = a].max
                 ELSE Unbounded]
ImplementsSequences ==
  /\ Promised!SequencesInit
  /\ [][direct \/ Promised!SequencesNext]_(Promised!sequenceVars)

(* docs/language_guide/errors.md: an index out of range is an IndexError.   *)
NoCrash == ~crashed
=============================================================================
