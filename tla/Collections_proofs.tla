-------------------------- MODULE Collections_proofs --------------------------
(***************************************************************************)
(* Proofs about Collections, for all values, offsets and bounds, and for   *)
(* any number of arrays, handles and nested loops: a loop stays inside the *)
(* backing of its slice, and what a program sees of arrays, Deques and     *)
(* Stacks is what BoundedSequences promises.                               *)
(***************************************************************************)
EXTENDS Collections, SequenceTheorems, FiniteSetTheorems, TLAPS

(* What waits on the stack names arrays and handles that exist.             *)
References ==
    \A i \in DOMAIN stack :
        /\ stack[i].array \in ArrayIds \cup {0}
        /\ stack[i].kind = "assign" =>
               /\ stack[i].index \in Offsets
               /\ \/ stack[i].on.kind = "array" /\ stack[i].on.id \in ArrayIds
                  \/ stack[i].on.kind = "handle" /\ stack[i].on.id \in DOMAIN handles

(* A program that leaves `values` alone: a handle has one array, which no   *)
(* other handle has and which is within the handle's bound.                 *)
Owned ==
    /\ \A a \in ArrayIds : Content(arrays[a]) \in Seq(Values)
    /\ \A h \in DOMAIN handles :
           /\ handles[h].captured = handles[h].field
           /\ handles[h].kind = "Stack" => handles[h].max = Unbounded
           /\ handles[h].max # Unbounded => arrays[handles[h].field].length <= handles[h].max
           /\ \A g \in DOMAIN handles : handles[g].field = handles[h].field => g = h

Shaped == LoopsStayInside /\ References
Kept == direct \/ Owned

-----------------------------------------------------------------------------
(* Slots and slices.                                                       *)

Cells == Values \cup {Nil}

\* The program's parameters are what CollectionsAssumption says.
LEMMA ProgramFacts ==
  ASSUME program \in Programs
  PROVE  /\ Values \subseteq Nat \ {0} /\ Nil \in Cells /\ Values \subseteq Cells
         /\ Bounds \subseteq Nat /\ Offsets \subseteq Int
         /\ MaxHandles \in Nat /\ MaxCapacity \in Nat /\ MaxNesting \in Nat
BY CollectionsAssumption DEF CollectionsAssumption, Values, Bounds, Offsets, MaxHandles,
   MaxCapacity, MaxNesting, Cells

\* A function on an interval is a sequence of that length.
LEMMA IntervalSeq ==
  ASSUME NEW S, NEW n \in Nat, NEW s \in [1 .. n -> S]
  PROVE  s \in Seq(S) /\ Len(s) = n
<1>1. s \in Seq(S)
  BY SeqDef
<1>2. DOMAIN s = 1 .. Len(s) /\ Len(s) \in Nat /\ DOMAIN s = 1 .. n
  BY <1>1, LenProperties
<1>3. \A a, b \in Nat : 1 .. a = 1 .. b => a = b
  <2>1. SUFFICES ASSUME NEW a \in Nat, NEW b \in Nat, 1 .. a = 1 .. b PROVE a = b
    OBVIOUS
  <2>2. (a # 0 => a \in 1 .. a) /\ (b # 0 => b \in 1 .. b)
    OBVIOUS
  <2>3. (a # 0 => a \in 1 .. b) /\ (b # 0 => b \in 1 .. a)
    BY <2>1, <2>2
  <2>4. QED
    BY <2>3
<1>4. QED
  BY <1>1, <1>2, <1>3

\* Slots are the sequences of cells up to the greatest capacity.
LEMMA SlotsOf ==
  ASSUME program \in Programs, NEW n \in 0 .. MaxCapacity, NEW q \in [1 .. n -> Cells]
  PROVE  q \in Slots /\ Len(q) = n
<1>1. n \in Nat
  BY ProgramFacts
<1>2. Len(q) = n
  BY <1>1, IntervalSeq
<1>3. QED
  BY <1>2 DEF Slots, Cells

\* What a backing is.
LEMMA SlotsFacts ==
  ASSUME program \in Programs, NEW q \in Slots
  PROVE  /\ Len(q) \in 0 .. MaxCapacity /\ Len(q) \in Nat /\ DOMAIN q = 1 .. Len(q)
         /\ q \in [1 .. Len(q) -> Cells] /\ q \in Seq(Cells)
         /\ \A i \in 1 .. Len(q) : q[i] \in Cells
<1>1. PICK n \in 0 .. MaxCapacity : q \in [1 .. n -> Cells]
  BY DEF Slots, Cells
<1>2. n \in Nat
  BY ProgramFacts
<1>3. Len(q) = n /\ q \in Seq(Cells)
  BY <1>1, <1>2, IntervalSeq
<1>4. QED
  BY <1>1, <1>2, <1>3

\* A short enough sequence of cells is a backing.
LEMMA CellsSlots ==
  ASSUME program \in Programs, NEW q \in Seq(Cells), Len(q) <= MaxCapacity
  PROVE  q \in Slots
<1>1. Len(q) \in Nat /\ q \in [1 .. Len(q) -> Cells]
  BY LenProperties, ElementOfSeq, SeqDef
<1>2. Len(q) \in 0 .. MaxCapacity
  BY <1>1, ProgramFacts
<1>3. QED
  BY <1>1, <1>2, SlotsOf

\* A prefix of a sequence, and any stretch of it.
LEMMA Stretch ==
  ASSUME NEW S, NEW s \in Seq(S), NEW a \in Nat, NEW b \in Nat, 1 <= a, b <= Len(s), a <= b + 1
  PROVE  /\ SubSeq(s, a, b) \in Seq(S) /\ Len(SubSeq(s, a, b)) = b - a + 1
         /\ \A i \in 1 .. b - a + 1 : SubSeq(s, a, b)[i] = s[a + i - 1]
<1>1. Len(s) \in Nat /\ DOMAIN s = 1 .. Len(s) /\ \A i \in 1 .. Len(s) : s[i] \in S
  BY LenProperties, ElementOfSeq
<1>2. \A i \in a .. b : s[i] \in S
  <2>1. \A i \in a .. b : i \in 1 .. Len(s)
    BY <1>1
  <2>2. QED
    BY <2>1, <1>1
<1>3. a \in Int /\ b \in Int
  OBVIOUS
<1>4. /\ SubSeq(s, a, b) \in Seq(S)
      /\ Len(SubSeq(s, a, b)) = IF a <= b THEN b - a + 1 ELSE 0
      /\ \A i \in 1 .. b - a + 1 : SubSeq(s, a, b)[i] = s[a + i - 1]
  BY <1>2, <1>3, SubSeqProperties
<1>5. (IF a <= b THEN b - a + 1 ELSE 0) = b - a + 1
  OBVIOUS
<1>6. QED
  BY <1>4, <1>5

\* The content of a slice is the part in use.
LEMMA ContentFacts ==
  ASSUME program \in Programs, NEW a, a.slots \in Slots, a.length \in Nat, a.length <= Len(a.slots)
  PROVE  /\ Content(a) \in Seq(Cells) /\ Len(Content(a)) = a.length
         /\ \A i \in 1 .. a.length : Content(a)[i] = a.slots[i] /\ a.slots[i] \in Cells
         /\ a.length \in 0 .. MaxCapacity
<1>1. /\ a.slots \in Seq(Cells) /\ Len(a.slots) \in 0 .. MaxCapacity
      /\ \A i \in 1 .. Len(a.slots) : a.slots[i] \in Cells
  BY SlotsFacts
<1>2. PICK n \in Nat : n = a.length
  OBVIOUS
<1>3. 1 \in Nat /\ 1 <= 1 /\ 1 <= n + 1 /\ n <= Len(a.slots) /\ n - 1 + 1 = n
  BY <1>2
<1>4. /\ SubSeq(a.slots, 1, n) \in Seq(Cells) /\ Len(SubSeq(a.slots, 1, n)) = n
      /\ \A i \in 1 .. n : SubSeq(a.slots, 1, n)[i] = a.slots[1 + i - 1]
  BY <1>1, <1>3, Stretch
<1>5. \A i \in 1 .. n : 1 + i - 1 = i /\ i \in 1 .. Len(a.slots)
  <2>1. Len(a.slots) \in Nat
    BY <1>1
  <2>2. QED
    BY <1>3, <2>1
<1>6. n \in 0 .. MaxCapacity
  BY <1>1, <1>3, ProgramFacts
<1>7. QED
  BY <1>1, <1>2, <1>4, <1>5, <1>6 DEF Content

\* A backing that holds q and has the given capacity.
LEMMA FilledFacts ==
  ASSUME program \in Programs, NEW q \in Seq(Cells), NEW c \in Nat, Len(q) <= c, c <= MaxCapacity
  PROVE  /\ Filled(q, c) \in Slots /\ Len(Filled(q, c)) = c
         /\ \A i \in 1 .. Len(q) : Filled(q, c)[i] = q[i]
<1>1. Len(q) \in Nat
  BY LenProperties
<1>2. PICK n \in Nat : n = c - Len(q)
  BY <1>1
<1> DEFINE empty == [i \in 1 .. n |-> Nil]
<1>3. empty \in [1 .. n -> Cells]
  BY ProgramFacts
<1>4. empty \in Seq(Cells) /\ Len(empty) = n
  BY <1>3, IntervalSeq
<1> HIDE DEF empty
<1>5. /\ q \o empty \in Seq(Cells) /\ Len(q \o empty) = Len(q) + n
      /\ \A i \in 1 .. Len(q) + n : (q \o empty)[i] = IF i <= Len(q) THEN q[i] ELSE empty[i - Len(q)]
  BY <1>4, ConcatProperties
<1>6. Filled(q, c) = q \o empty
  BY <1>2 DEF Filled, empty
<1>7. Len(q) + n = c /\ \A i \in 1 .. Len(q) : i \in 1 .. Len(q) + n /\ i <= Len(q)
  BY <1>1, <1>2
<1>8. QED
  BY <1>5, <1>6, <1>7, CellsSlots

\* A slice whose content is known cell by cell.
LEMMA ContentIs ==
  ASSUME program \in Programs, NEW a, a.slots \in Slots, a.length \in Nat, a.length <= Len(a.slots),
         NEW q \in Seq(Cells), Len(q) = a.length, \A i \in 1 .. a.length : a.slots[i] = q[i]
  PROVE  Content(a) = q
<1>1. /\ Content(a) \in Seq(Cells) /\ Len(Content(a)) = a.length
      /\ \A i \in 1 .. a.length : Content(a)[i] = a.slots[i]
  BY ContentFacts
<1>2. DOMAIN Content(a) = 1 .. a.length /\ DOMAIN q = 1 .. a.length
  BY <1>1, LenProperties
<1>3. \A i \in 1 .. a.length : Content(a)[i] = q[i]
  BY <1>1
<1>4. QED
  BY <1>1, <1>2, <1>3, SeqEqual

\* s may replace the slice of an array whose backing has n slots.
Fits(s, n) ==
    /\ s \in [slots : Slots, length : Nat, moved : BOOLEAN, old : Slots]
    /\ s.length <= Len(s.slots)
    /\ IF s.moved THEN Len(s.old) = n ELSE Len(s.slots) = n

\* A slice that fits is well typed.
LEMMA FitsFacts ==
  ASSUME program \in Programs, NEW n, NEW s, Fits(s, n)
  PROVE  /\ s.slots \in Slots /\ s.length \in Nat /\ s.length <= Len(s.slots)
         /\ s.length \in 0 .. MaxCapacity
         /\ Len(s.slots) \in Nat /\ Len(s.slots) <= MaxCapacity /\ DOMAIN s.slots = 1 .. Len(s.slots)
         /\ s.slots \in Seq(Cells)
         /\ \A i \in 1 .. s.length : i \in 1 .. Len(s.slots) /\ s.slots[i] \in Cells
         /\ \A i \in 1 .. Len(s.slots) : s.slots[i] \in Cells
         /\ s = [slots |-> s.slots, length |-> s.length, moved |-> s.moved, old |-> s.old]
         /\ s.moved \in BOOLEAN /\ s.old \in Slots
         /\ Content(s) \in Seq(Cells) /\ Len(Content(s)) = s.length
         /\ \A i \in 1 .. s.length : Content(s)[i] = s.slots[i]
<1>1. s.slots \in Slots /\ s.length \in Nat /\ s.length <= Len(s.slots) /\ s.moved \in BOOLEAN /\ s.old \in Slots
  BY DEF Fits
<1>2. s = [slots |-> s.slots, length |-> s.length, moved |-> s.moved, old |-> s.old]
  BY DEF Fits
<1>3. /\ Len(s.slots) \in 0 .. MaxCapacity /\ Len(s.slots) \in Nat /\ DOMAIN s.slots = 1 .. Len(s.slots)
      /\ s.slots \in Seq(Cells) /\ \A i \in 1 .. Len(s.slots) : s.slots[i] \in Cells
  BY <1>1, SlotsFacts
<1>4. /\ Content(s) \in Seq(Cells) /\ Len(Content(s)) = s.length
      /\ \A i \in 1 .. s.length : Content(s)[i] = s.slots[i]
      /\ s.length \in 0 .. MaxCapacity
  BY <1>1, ContentFacts
<1>5. Len(s.slots) <= MaxCapacity /\ \A i \in 1 .. s.length : i \in 1 .. Len(s.slots) /\ s.slots[i] \in Cells
  BY <1>1, <1>3, ProgramFacts
<1>6. QED
  BY <1>1, <1>2, <1>3, <1>4, <1>5

\* append() in place or to a new backing.
LEMMA AppendedFacts ==
  ASSUME program \in Programs, NEW n, NEW s, Fits(s, n), NEW q \in Seq(Cells), NEW t \in Appended(s, q)
  PROVE  Fits(t, n) /\ t.length = s.length + Len(q) /\ Content(t) = Content(s) \o q
<1>0. Len(q) \in Nat /\ \A i \in 1 .. Len(q) : q[i] \in Cells
  BY LenProperties, ElementOfSeq
<1>1. PICK total \in Nat : total = s.length + Len(q)
  BY <1>0, FitsFacts
<1>2. /\ Content(s) \o q \in Seq(Cells) /\ Len(Content(s) \o q) = total
      /\ \A i \in 1 .. total : (Content(s) \o q)[i] = IF i <= s.length THEN s.slots[i] ELSE q[i - s.length]
  <2>1. Content(s) \in Seq(Cells) /\ Len(Content(s)) = s.length /\ s.length \in Nat
        /\ \A i \in 1 .. s.length : Content(s)[i] = s.slots[i]
    BY FitsFacts
  <2>2. /\ Content(s) \o q \in Seq(Cells) /\ Len(Content(s) \o q) = total
        /\ \A i \in 1 .. total : (Content(s) \o q)[i] = IF i <= s.length THEN Content(s)[i] ELSE q[i - s.length]
    <3>1. /\ Content(s) \o q \in Seq(Cells) /\ Len(Content(s) \o q) = Len(Content(s)) + Len(q)
          /\ \A i \in 1 .. Len(Content(s)) + Len(q) :
                 (Content(s) \o q)[i] = IF i <= Len(Content(s)) THEN Content(s)[i] ELSE q[i - Len(Content(s))]
      BY ONLY <2>1, q \in Seq(Cells), ConcatProperties
    <3>2. Len(Content(s)) + Len(q) = total
      BY <2>1, <1>1
    <3>3. QED
      BY <3>1, <3>2, <2>1
  <2>3. QED
    <3>1. \A i \in 1 .. total : i <= s.length => i \in 1 .. s.length
      BY <2>1
    <3>2. QED
      BY <2>1, <2>2, <3>1
<1>3. CASE total <= Len(s.slots)
  <2> DEFINE slots == [i \in DOMAIN s.slots |-> IF i > s.length /\ i <= total THEN q[i - s.length] ELSE s.slots[i]]
  <2>1. s.length \in Nat /\ Len(s.slots) \in Nat /\ DOMAIN s.slots = 1 .. Len(s.slots)
        /\ Len(s.slots) \in 0 .. MaxCapacity /\ \A i \in 1 .. Len(s.slots) : s.slots[i] \in Cells
    BY FitsFacts, SlotsFacts
  <2>2. ASSUME NEW i \in 1 .. Len(s.slots), i > s.length /\ i <= total PROVE q[i - s.length] \in Cells
    <3>1. i - s.length \in 1 .. Len(q)
      BY <2>1, <2>2, <1>0, <1>1
    <3>2. QED
      BY <3>1, <1>0
  <2>3. slots \in [1 .. Len(s.slots) -> Cells]
    BY <2>1, <2>2
  <2>4. slots \in Slots /\ Len(slots) = Len(s.slots)
    BY <2>1, <2>3, SlotsOf
  <2>5. t = [s EXCEPT !.slots = slots, !.length = total]
    <3>1. t = [s EXCEPT !.length = total,
                       !.slots = [i \in DOMAIN s.slots |-> IF i > s.length /\ i <= total THEN q[i - s.length] ELSE s.slots[i]]]
      BY <1>1, <1>3 DEF Appended
    <3>2. s = [slots |-> s.slots, length |-> s.length, moved |-> s.moved, old |-> s.old]
      BY FitsFacts
    <3>3. QED
      BY <3>1, <3>2
  <2>6. \A i \in 1 .. total : slots[i] = (Content(s) \o q)[i]
    <3>1. ASSUME NEW i \in 1 .. total PROVE slots[i] = (Content(s) \o q)[i]
      <4>1. i \in DOMAIN s.slots
        BY <2>1, <1>3, <1>1
      <4>2. slots[i] = IF i > s.length /\ i <= total THEN q[i - s.length] ELSE s.slots[i]
        BY <4>1
      <4>3. i <= total /\ (i > s.length <=> ~(i <= s.length))
        BY <2>1, <1>1
      <4>4. QED
        BY <4>2, <4>3, <1>2
    <3>2. QED
      BY <3>1
  <2> HIDE DEF slots
  <2>7. Fits(t, n) /\ t.slots = slots /\ t.length = total
    <3>1. slots \in Slots /\ Len(slots) = Len(s.slots) /\ total \in Nat /\ total <= Len(slots)
      BY <2>4, <1>3
    <3>2. QED
      BY <3>1, <2>5 DEF Fits
  <2>8. Content(t) = Content(s) \o q
    <3>1. t.slots \in Slots /\ t.length \in Nat /\ t.length <= Len(t.slots)
      BY <2>7, FitsFacts
    <3>2. Len(Content(s) \o q) = t.length /\ \A i \in 1 .. t.length : t.slots[i] = (Content(s) \o q)[i]
      BY <2>6, <2>7, <1>2
    <3>3. QED
      BY <3>1, <3>2, <1>2, ContentIs
  <2>9. QED
    BY <2>7, <2>8, <1>1
<1>4. CASE ~(total <= Len(s.slots))
  <2>1. PICK capacity \in Capacities(total) : t = Moved(s, Filled(Content(s) \o q, capacity), total)
    BY <1>1, <1>4 DEF Appended
  <2>2. capacity \in Nat /\ total <= capacity /\ capacity <= MaxCapacity
    <3>1. total # 0
      BY <1>1, <1>4, FitsFacts
    <3>2. QED
      BY <3>1, <2>1, <1>1, ProgramFacts DEF Capacities
  <2>3. /\ Filled(Content(s) \o q, capacity) \in Slots /\ Len(Filled(Content(s) \o q, capacity)) = capacity
        /\ \A i \in 1 .. total : Filled(Content(s) \o q, capacity)[i] = (Content(s) \o q)[i]
    BY <1>2, <2>2, FilledFacts
  <2>4. Fits(t, n) /\ t.slots = Filled(Content(s) \o q, capacity) /\ t.length = total
    <3> DEFINE slots == Filled(Content(s) \o q, capacity)
    <3>1. slots \in Slots /\ total \in Nat /\ total <= Len(slots) /\ t = Moved(s, slots, total)
      BY <2>1, <2>2, <2>3
    <3> HIDE DEF slots
    <3>2. Fits(t, n) /\ t.slots = slots /\ t.length = total
      BY <3>1 DEF Moved, Fits
    <3>3. QED
      BY <3>2 DEF slots
  <2>5. Content(t) = Content(s) \o q
    <3>1. t.slots \in Slots /\ t.length \in Nat /\ t.length <= Len(t.slots)
      BY <2>4, FitsFacts
    <3>2. Len(Content(s) \o q) = t.length /\ \A i \in 1 .. t.length : t.slots[i] = (Content(s) \o q)[i]
      BY <2>3, <2>4, <1>2
    <3>3. QED
      BY <3>1, <3>2, <1>2, ContentIs
  <2>6. QED
    BY <2>4, <2>5, <1>1
<1>5. QED
  BY <1>3, <1>4

\* The last cell in use is cleared and given back.
LEMMA ShortenedFacts ==
  ASSUME program \in Programs, NEW n, NEW s, Fits(s, n), s.length > 0
  PROVE  /\ Fits(Shortened(s), n) /\ Shortened(s).length = s.length - 1
         /\ \A i \in 1 .. s.length - 1 : Shortened(s).slots[i] = s.slots[i]
<1> DEFINE slots == [s.slots EXCEPT ![s.length] = Nil]
<1>1. /\ s.slots \in Slots /\ s.slots \in [1 .. Len(s.slots) -> Cells] /\ Len(s.slots) \in 0 .. MaxCapacity
      /\ s.length \in Nat /\ s.length <= Len(s.slots) /\ Len(s.slots) \in Nat /\ DOMAIN s.slots = 1 .. Len(s.slots)
  BY FitsFacts, SlotsFacts
<1>2. slots \in [1 .. Len(s.slots) -> Cells]
  BY <1>1, ProgramFacts
<1>3. slots \in Slots /\ Len(slots) = Len(s.slots)
  BY <1>1, <1>2, SlotsOf
<1>4. PICK m \in Nat : m = s.length - 1
  BY <1>1
<1>5. Shortened(s) = [s EXCEPT !.slots = slots, !.length = m]
  <2>1. Shortened(s) = [s EXCEPT !.slots = [s.slots EXCEPT ![s.length] = Nil], !.length = s.length - 1]
    <3>1. s = [slots |-> s.slots, length |-> s.length, moved |-> s.moved, old |-> s.old]
      BY FitsFacts
    <3>2. QED
      BY <3>1 DEF Shortened
  <2>2. QED
    BY <2>1, <1>4
<1>6. \A i \in 1 .. s.length - 1 : slots[i] = s.slots[i]
  BY <1>1
<1>7. m <= Len(slots)
  BY <1>1, <1>3, <1>4
<1> HIDE DEF slots
<1>8. /\ Fits([s EXCEPT !.slots = slots, !.length = m], n)
      /\ [s EXCEPT !.slots = slots, !.length = m].slots = slots
      /\ [s EXCEPT !.slots = slots, !.length = m].length = m
  BY <1>3, <1>7 DEF Fits
<1>9. QED
  BY <1>5, <1>6, <1>8, <1>4

\* copy() over a slot, and copy() that frees one.
LEMMA ClosedUpFacts ==
  ASSUME program \in Programs, NEW n, NEW s, Fits(s, n), NEW i \in 1 .. s.length
  PROVE  /\ ClosedUp(s, i) \in Slots /\ Len(ClosedUp(s, i)) = Len(s.slots)
         /\ \A j \in 1 .. Len(s.slots) :
                ClosedUp(s, i)[j] = IF j >= i /\ j < s.length THEN s.slots[j + 1] ELSE s.slots[j]
<1>1. /\ s.length \in Nat /\ s.length <= Len(s.slots) /\ Len(s.slots) \in Nat /\ DOMAIN s.slots = 1 .. Len(s.slots)
      /\ Len(s.slots) \in 0 .. MaxCapacity /\ \A j \in 1 .. Len(s.slots) : s.slots[j] \in Cells
  BY FitsFacts, SlotsFacts
<1>2. ASSUME NEW j \in 1 .. Len(s.slots), j < s.length PROVE j + 1 \in 1 .. Len(s.slots)
  BY <1>1, <1>2
<1>3. ClosedUp(s, i) \in [1 .. Len(s.slots) -> Cells]
  BY <1>1, <1>2 DEF ClosedUp
<1>4. QED
  BY <1>1, <1>3, SlotsOf DEF ClosedUp

\* Opening up moves what follows to the right.
LEMMA OpenedUpFacts ==
  ASSUME program \in Programs, NEW n, NEW s, Fits(s, n), NEW i \in 1 .. s.length
  PROVE  /\ OpenedUp(s, i) \in Slots /\ Len(OpenedUp(s, i)) = Len(s.slots)
         /\ \A j \in 1 .. Len(s.slots) :
                OpenedUp(s, i)[j] = IF j > i /\ j <= s.length THEN s.slots[j - 1] ELSE s.slots[j]
<1>1. /\ s.length \in Nat /\ s.length <= Len(s.slots) /\ Len(s.slots) \in Nat /\ DOMAIN s.slots = 1 .. Len(s.slots)
      /\ Len(s.slots) \in 0 .. MaxCapacity /\ \A j \in 1 .. Len(s.slots) : s.slots[j] \in Cells
  BY FitsFacts, SlotsFacts
<1>2. ASSUME NEW j \in 1 .. Len(s.slots), j > i PROVE j - 1 \in 1 .. Len(s.slots)
  BY <1>1, <1>2
<1>3. OpenedUp(s, i) \in [1 .. Len(s.slots) -> Cells]
  BY <1>1, <1>2 DEF OpenedUp
<1>4. QED
  BY <1>1, <1>3, SlotsOf DEF OpenedUp

\* One cell of some slots is written.
LEMMA WriteFacts ==
  ASSUME program \in Programs, NEW q \in Slots, NEW i \in 1 .. Len(q), NEW value \in Cells
  PROVE  /\ [q EXCEPT ![i] = value] \in Slots /\ Len([q EXCEPT ![i] = value]) = Len(q)
         /\ \A j \in 1 .. Len(q) : [q EXCEPT ![i] = value][j] = IF j = i THEN value ELSE q[j]
<1>1. q \in [1 .. Len(q) -> Cells] /\ Len(q) \in 0 .. MaxCapacity
  BY SlotsFacts
<1>2. [q EXCEPT ![i] = value] \in [1 .. Len(q) -> Cells]
  BY <1>1
<1>3. QED
  BY <1>1, <1>2, SlotsOf

\* Other slots of the same capacity in place of the old ones.
LEMMA Rewritten ==
  ASSUME program \in Programs, NEW n, NEW s, Fits(s, n), NEW slots \in Slots, Len(slots) = Len(s.slots),
         NEW t, t = [s EXCEPT !.slots = slots]
  PROVE  Fits(t, n) /\ t.slots = slots /\ t.length = s.length /\ t.moved = s.moved
BY DEF Fits

\* A move to other slots.
LEMMA MovedFits ==
  ASSUME program \in Programs, NEW n, NEW s, Fits(s, n), NEW slots \in Slots, NEW t,
         t = Moved(s, slots, Len(slots))
  PROVE  Fits(t, n) /\ t.slots = slots /\ t.length = Len(slots) /\ t.moved
<1>1. Len(slots) \in Nat
  BY SlotsFacts
<1>2. QED
  BY <1>1 DEF Moved, Fits

-----------------------------------------------------------------------------
(* Bounded sequences.                                                      *)

Limits == Nat \cup {Unbounded}

\* What is kept of a sequence that grew at one end.
LEMMA NewestFacts ==
  ASSUME NEW S, NEW q \in Seq(S), NEW bound \in Limits
  PROVE  /\ Promised!Newest(q, bound) \in Seq(S)
         /\ Len(Promised!Newest(q, bound)) = IF bound = Unbounded \/ Len(q) <= bound THEN Len(q) ELSE bound
         /\ \A i \in 1 .. Len(Promised!Newest(q, bound)) :
                Promised!Newest(q, bound)[i] = q[i + Len(q) - Len(Promised!Newest(q, bound))]
<1>1. Len(q) \in Nat
  BY LenProperties
<1>2. CASE bound = Unbounded \/ Len(q) <= bound
  <2>1. Promised!Newest(q, bound) = q
    BY <1>2 DEF Promised!Newest, Promised!Unbounded, Unbounded
  <2>2. \A i \in 1 .. Len(q) : i + Len(q) - Len(q) = i
    BY <1>1
  <2>3. QED
    BY <2>1, <2>2, <1>2
<1>3. CASE ~(bound = Unbounded \/ Len(q) <= bound)
  <2>1. bound \in Nat /\ bound < Len(q)
    BY <1>1, <1>3 DEF Limits, Unbounded
  <2>2. PICK a \in Nat : a = Len(q) - bound + 1
    BY <2>1, <1>1
  <2>3. 1 <= a /\ a <= Len(q) + 1 /\ Len(q) - a + 1 = bound
    BY <2>1, <2>2, <1>1
  <2>4. /\ SubSeq(q, a, Len(q)) \in Seq(S) /\ Len(SubSeq(q, a, Len(q))) = Len(q) - a + 1
        /\ \A i \in 1 .. Len(q) - a + 1 : SubSeq(q, a, Len(q))[i] = q[a + i - 1]
    <3>1. Len(q) <= Len(q)
      BY <1>1
    <3>2. QED
      BY <2>3, <1>1, <3>1, Stretch
  <2>5. Promised!Newest(q, bound) = SubSeq(q, a, Len(q))
    BY <1>3, <2>2 DEF Promised!Newest, Promised!Unbounded, Unbounded
  <2>6. \A i \in 1 .. bound : a + i - 1 = i + Len(q) - bound
    BY <2>1, <2>2, <1>1
  <2>7. QED
    BY <2>3, <2>4, <2>5, <2>6, <1>3
<1>4. QED
  BY <1>2, <1>3

\* What is kept of a sequence that grew on the left.
LEMMA ForemostFacts ==
  ASSUME NEW S, NEW q \in Seq(S), NEW bound \in Limits
  PROVE  /\ Promised!Foremost(q, bound) \in Seq(S)
         /\ Len(Promised!Foremost(q, bound)) = IF bound = Unbounded \/ Len(q) <= bound THEN Len(q) ELSE bound
         /\ \A i \in 1 .. Len(Promised!Foremost(q, bound)) : Promised!Foremost(q, bound)[i] = q[i]
<1>1. Len(q) \in Nat
  BY LenProperties
<1>2. CASE bound = Unbounded \/ Len(q) <= bound
  BY <1>2 DEF Promised!Foremost, Promised!Unbounded, Unbounded
<1>3. CASE ~(bound = Unbounded \/ Len(q) <= bound)
  <2>1. bound \in Nat /\ bound < Len(q)
    BY <1>1, <1>3 DEF Limits, Unbounded
  <2>2. 1 \in Nat /\ 1 <= 1 /\ 1 <= bound + 1 /\ bound <= Len(q) /\ bound - 1 + 1 = bound
    BY <2>1, <1>1
  <2>3. /\ SubSeq(q, 1, bound) \in Seq(S) /\ Len(SubSeq(q, 1, bound)) = bound
        /\ \A i \in 1 .. bound : SubSeq(q, 1, bound)[i] = q[1 + i - 1]
    BY <2>1, <2>2, Stretch
  <2>4. Promised!Foremost(q, bound) = SubSeq(q, 1, bound)
    BY <1>3 DEF Promised!Foremost, Promised!Unbounded, Unbounded
  <2>5. \A i \in 1 .. bound : 1 + i - 1 = i
    BY <2>1
  <2>6. QED
    BY <2>3, <2>4, <2>5, <1>3
<1>4. QED
  BY <1>2, <1>3

\* A sequence with one more element at either end.
LEMMA EndFacts ==
  ASSUME NEW S, NEW q \in Seq(S), NEW value \in S
  PROVE  /\ q \o <<value>> \in Seq(S) /\ Len(q \o <<value>>) = Len(q) + 1
         /\ \A i \in 1 .. Len(q) + 1 : (q \o <<value>>)[i] = IF i <= Len(q) THEN q[i] ELSE value
         /\ <<value>> \o q \in Seq(S) /\ Len(<<value>> \o q) = Len(q) + 1
         /\ \A i \in 1 .. Len(q) + 1 : (<<value>> \o q)[i] = IF i = 1 THEN value ELSE q[i - 1]
<1>1. <<value>> \in Seq(S) /\ Len(<<value>>) = 1 /\ <<value>>[1] = value /\ Len(q) \in Nat
  BY LenProperties
<1>2. /\ q \o <<value>> \in Seq(S) /\ Len(q \o <<value>>) = Len(q) + Len(<<value>>)
      /\ \A i \in 1 .. Len(q) + Len(<<value>>) :
             (q \o <<value>>)[i] = IF i <= Len(q) THEN q[i] ELSE <<value>>[i - Len(q)]
  BY ONLY <1>1, q \in Seq(S), ConcatProperties
<1>3. /\ <<value>> \o q \in Seq(S) /\ Len(<<value>> \o q) = Len(<<value>>) + Len(q)
      /\ \A i \in 1 .. Len(<<value>>) + Len(q) :
             (<<value>> \o q)[i] = IF i <= Len(<<value>>) THEN <<value>>[i] ELSE q[i - Len(<<value>>)]
  BY ONLY <1>1, q \in Seq(S), ConcatProperties
<1>4. ASSUME NEW i \in 1 .. Len(q) + 1
      PROVE  /\ (q \o <<value>>)[i] = IF i <= Len(q) THEN q[i] ELSE value
             /\ (<<value>> \o q)[i] = IF i = 1 THEN value ELSE q[i - 1]
  <2>1. i \in 1 .. Len(<<value>>) + Len(q) /\ i \in 1 .. Len(q) + Len(<<value>>)
    BY <1>1
  <2>2. (~(i <= Len(q)) => i - Len(q) = 1) /\ (i <= 1 <=> i = 1)
    BY <1>1
  <2>3. (q \o <<value>>)[i] = IF i <= Len(q) THEN q[i] ELSE value
    BY <1>1, <1>2, <2>1, <2>2
  <2>4. (<<value>> \o q)[i] = IF i = 1 THEN value ELSE q[i - 1]
    BY <1>1, <1>3, <2>1, <2>2
  <2>5. QED
    BY <2>3, <2>4
<1>5. QED
  BY <1>1, <1>2, <1>3, <1>4

-----------------------------------------------------------------------------
(* What operations on slices compute.                                      *)

\* s is no longer than a bound allows.
Within(s, max) == max # Unbounded => s.length <= max

\* append() of a Deque keeps the newest elements.
LEMMA AppendDequeFacts ==
  ASSUME program \in Programs, NEW n, NEW s, Fits(s, n), NEW value \in Cells, NEW max \in Limits,
         NEW t \in AppendDeque(s, value, max)
  PROVE  /\ Fits(t, n)
         /\ Within(s, max) => /\ Within(t, max)
                              /\ Content(t) = Promised!Newest(Content(s) \o <<value>>, max)
<1> DEFINE new == Promised!Newest(Content(s) \o <<value>>, max)
<1>1. /\ s.length \in Nat /\ s.length <= Len(s.slots) /\ Len(s.slots) \in Nat
      /\ Content(s) \in Seq(Cells) /\ Len(Content(s)) = s.length
      /\ \A i \in 1 .. s.length : Content(s)[i] = s.slots[i]
  BY FitsFacts
<1>2. PICK q \in Seq(Cells) : q = Content(s) \o <<value>>
  BY <1>1, EndFacts
<1>3. Len(q) = s.length + 1 /\ \A i \in 1 .. s.length + 1 : q[i] = IF i <= s.length THEN s.slots[i] ELSE value
  <2>1. PICK c \in Seq(Cells) : c = Content(s)
    BY <1>1
  <2>2. Len(q) = Len(c) + 1 /\ \A i \in 1 .. Len(c) + 1 : q[i] = IF i <= Len(c) THEN c[i] ELSE value
    BY <1>2, <2>1, EndFacts
  <2>3. \A i \in 1 .. s.length + 1 : i <= s.length => i \in 1 .. s.length
    BY <1>1
  <2>4. QED
    BY <2>1, <2>2, <2>3, <1>1
<1>4. /\ new \in Seq(Cells)
      /\ Len(new) = IF max = Unbounded \/ s.length + 1 <= max THEN s.length + 1 ELSE max
      /\ \A i \in 1 .. Len(new) : new[i] = q[i + (s.length + 1) - Len(new)]
  <2>1. PICK r : r = Promised!Newest(q, max)
    OBVIOUS
  <2>2. /\ r \in Seq(Cells) /\ Len(r) = IF max = Unbounded \/ Len(q) <= max THEN Len(q) ELSE max
        /\ \A i \in 1 .. Len(r) : r[i] = q[i + Len(q) - Len(r)]
    BY <2>1, NewestFacts
  <2>3. new = r
    BY <2>1, <1>2
  <2> HIDE DEF new
  <2>4. QED
    BY <2>2, <2>3, <1>3
<1> HIDE DEF new
<1>5. CASE max = 0
  <2>1. t = s /\ max # Unbounded
    BY <1>5 DEF AppendDeque, Unbounded
  <2>2. ASSUME Within(s, max) PROVE Content(t) = new
    <3>1. s.length = 0 /\ Len(new) = 0
      BY <2>1, <2>2, <1>1, <1>4, <1>5 DEF Within
    <3>2. QED
      BY <3>1, <2>1, <1>1, <1>4, EmptySeq
  <2>3. QED
    BY <2>1, <2>2 DEF new
<1>6. CASE max # 0 /\ max # Unbounded /\ s.length >= max
  <2>1. max \in Nat /\ s.length \in 1 .. s.length /\ 1 \in 1 .. s.length /\ s.length \in 1 .. Len(s.slots)
    BY <1>1, <1>6 DEF Limits
  <2>2. /\ ClosedUp(s, 1) \in Slots /\ Len(ClosedUp(s, 1)) = Len(s.slots)
        /\ \A j \in 1 .. Len(s.slots) :
               ClosedUp(s, 1)[j] = IF j >= 1 /\ j < s.length THEN s.slots[j + 1] ELSE s.slots[j]
    BY <2>1, ClosedUpFacts
  <2>3. PICK slots \in Slots : /\ slots = [ClosedUp(s, 1) EXCEPT ![s.length] = value]
                               /\ Len(slots) = Len(s.slots)
                               /\ \A j \in 1 .. Len(s.slots) :
                                      slots[j] = IF j = s.length THEN value ELSE ClosedUp(s, 1)[j]
    <3>1. s.length \in 1 .. Len(ClosedUp(s, 1))
      BY <2>1, <2>2
    <3>2. PICK c \in Slots : c = ClosedUp(s, 1)
      BY <2>2
    <3>3. PICK i \in 1 .. Len(c) : i = s.length
      BY <3>1, <3>2
    <3>4. /\ [c EXCEPT ![i] = value] \in Slots /\ Len([c EXCEPT ![i] = value]) = Len(c)
          /\ \A j \in 1 .. Len(c) : [c EXCEPT ![i] = value][j] = IF j = i THEN value ELSE c[j]
      BY WriteFacts
    <3>5. QED
      BY <3>2, <3>3, <3>4, <2>2
  <2>4. t = [s EXCEPT !.slots = slots]
    BY <1>6, <2>3 DEF AppendDeque
  <2>5. Fits(t, n) /\ t.slots = slots /\ t.length = s.length
    BY <2>3, <2>4, Rewritten
  <2>6. ASSUME Within(s, max) PROVE Content(t) = new
    <3>1. max = s.length /\ Len(new) = s.length /\ s.length + 1 - Len(new) = 1
      BY <2>6, <1>6, <1>1, <1>4, <2>1 DEF Within
    <3>2. ASSUME NEW i \in 1 .. t.length PROVE t.slots[i] = new[i]
      <4>1. i \in 1 .. Len(new) /\ i \in 1 .. Len(s.slots) /\ i + 1 \in 1 .. s.length + 1 /\ i + (s.length + 1) - Len(new) = i + 1
        BY <3>1, <2>5, <1>1
      <4>2. new[i] = q[i + 1]
        BY <4>1, <1>4
      <4>3. i = s.length \/ (i < s.length /\ i + 1 <= s.length /\ i >= 1 /\ i # s.length)
        BY <2>5, <1>1
      <4>4. slots[i] = IF i = s.length THEN value ELSE IF i < s.length THEN s.slots[i + 1] ELSE s.slots[i]
        BY <2>2, <2>3, <4>1, <4>3
      <4>5. i = s.length => ~(i + 1 <= s.length)
        BY <1>1
      <4>6. QED
        BY <4>1, <4>2, <4>3, <4>4, <4>5, <1>3, <2>5
    <3>3. t.slots \in Slots /\ t.length \in Nat /\ t.length <= Len(t.slots) /\ Len(new) = t.length
      BY <2>5, <3>1, <1>1, FitsFacts
    <3>4. QED
      BY <3>2, <3>3, <1>4, ContentIs
  <2>7. QED
    BY <2>5, <2>6 DEF new, Within
<1>7. CASE max # 0 /\ ~(max # Unbounded /\ s.length >= max)
  <2>1. t \in Appended(s, <<value>>)
    BY <1>7 DEF AppendDeque
  <2>2. <<value>> \in Seq(Cells) /\ Len(<<value>>) = 1
    OBVIOUS
  <2>3. Fits(t, n) /\ t.length = s.length + 1 /\ Content(t) = Content(s) \o <<value>>
    BY <2>1, <2>2, AppendedFacts
  <2>4. max = Unbounded \/ s.length + 1 <= max
    BY <1>7, <1>1 DEF Limits
  <2>5. Within(t, max)
    BY <2>3, <2>4 DEF Within
  <2>6. Promised!Newest(q, max) = q
    BY <2>4, <1>3 DEF Promised!Newest, Promised!Unbounded, Unbounded
  <2>7. QED
    BY <2>3, <2>5, <2>6, <1>2
<1>8. QED
  BY <1>5, <1>6, <1>7

\* append_left() of a Deque keeps the foremost elements.
LEMMA AppendLeftDequeFacts ==
  ASSUME program \in Programs, NEW n, NEW s, Fits(s, n), NEW value \in Cells, NEW max \in Limits,
         NEW t \in AppendLeftDeque(s, value, max)
  PROVE  /\ Fits(t, n)
         /\ Within(s, max) => /\ Within(t, max)
                              /\ Content(t) = Promised!Foremost(<<value>> \o Content(s), max)
<1> DEFINE new == Promised!Foremost(<<value>> \o Content(s), max)
<1>1. /\ s.length \in Nat /\ s.length <= Len(s.slots) /\ Len(s.slots) \in Nat
      /\ Content(s) \in Seq(Cells) /\ Len(Content(s)) = s.length
      /\ \A i \in 1 .. s.length : Content(s)[i] = s.slots[i]
  BY FitsFacts
<1>2. PICK q \in Seq(Cells) : q = <<value>> \o Content(s)
  BY <1>1, EndFacts
<1>3. Len(q) = s.length + 1 /\ \A i \in 1 .. s.length + 1 : q[i] = IF i = 1 THEN value ELSE s.slots[i - 1]
  <2>1. PICK c \in Seq(Cells) : c = Content(s)
    BY <1>1
  <2>2. Len(q) = Len(c) + 1 /\ \A i \in 1 .. Len(c) + 1 : q[i] = IF i = 1 THEN value ELSE c[i - 1]
    BY <1>2, <2>1, EndFacts
  <2>3. \A i \in 1 .. s.length + 1 : i # 1 => i - 1 \in 1 .. s.length
    BY <1>1
  <2>4. QED
    BY <2>1, <2>2, <2>3, <1>1
<1>4. /\ new \in Seq(Cells)
      /\ Len(new) = IF max = Unbounded \/ s.length + 1 <= max THEN s.length + 1 ELSE max
      /\ \A i \in 1 .. Len(new) : new[i] = q[i]
  <2>1. PICK r : r = Promised!Foremost(q, max)
    OBVIOUS
  <2>2. /\ r \in Seq(Cells) /\ Len(r) = IF max = Unbounded \/ Len(q) <= max THEN Len(q) ELSE max
        /\ \A i \in 1 .. Len(r) : r[i] = q[i]
    BY <2>1, ForemostFacts
  <2>3. new = r
    BY <2>1, <1>2
  <2> HIDE DEF new
  <2>4. QED
    BY <2>2, <2>3, <1>3
<1> HIDE DEF new
<1>5. CASE max = 0
  <2>1. t = s /\ max # Unbounded
    BY <1>5 DEF AppendLeftDeque, Unbounded
  <2>2. ASSUME Within(s, max) PROVE Content(t) = new
    <3>1. s.length = 0 /\ Len(new) = 0
      BY <2>1, <2>2, <1>1, <1>4, <1>5 DEF Within
    <3>2. QED
      BY <3>1, <2>1, <1>1, <1>4, EmptySeq
  <2>3. QED
    BY <2>1, <2>2 DEF new
<1>6. CASE max # 0 /\ max # Unbounded /\ s.length >= max
  <2>1. max \in Nat /\ 1 \in 1 .. s.length /\ 1 \in 1 .. Len(s.slots)
    BY <1>1, <1>6 DEF Limits
  <2>2. /\ OpenedUp(s, 1) \in Slots /\ Len(OpenedUp(s, 1)) = Len(s.slots)
        /\ \A j \in 1 .. Len(s.slots) :
               OpenedUp(s, 1)[j] = IF j > 1 /\ j <= s.length THEN s.slots[j - 1] ELSE s.slots[j]
    BY <2>1, OpenedUpFacts
  <2>3. PICK slots \in Slots : /\ slots = [OpenedUp(s, 1) EXCEPT ![1] = value]
                               /\ Len(slots) = Len(s.slots)
                               /\ \A j \in 1 .. Len(s.slots) :
                                      slots[j] = IF j = 1 THEN value ELSE OpenedUp(s, 1)[j]
    <3>1. PICK c \in Slots : c = OpenedUp(s, 1)
      BY <2>2
    <3>2. PICK i \in 1 .. Len(c) : i = 1
      BY <2>1, <2>2, <3>1
    <3>3. /\ [c EXCEPT ![i] = value] \in Slots /\ Len([c EXCEPT ![i] = value]) = Len(c)
          /\ \A j \in 1 .. Len(c) : [c EXCEPT ![i] = value][j] = IF j = i THEN value ELSE c[j]
      BY WriteFacts
    <3>4. QED
      BY <3>1, <3>2, <3>3, <2>2
  <2>4. t = [s EXCEPT !.slots = slots]
    BY <1>6, <2>3 DEF AppendLeftDeque
  <2>5. Fits(t, n) /\ t.slots = slots /\ t.length = s.length
    BY <2>3, <2>4, Rewritten
  <2>6. ASSUME Within(s, max) PROVE Content(t) = new
    <3>1. max = s.length /\ Len(new) = s.length
      BY <2>6, <1>6, <1>1, <1>4, <2>1 DEF Within
    <3>2. ASSUME NEW i \in 1 .. t.length PROVE t.slots[i] = new[i]
      <4>1. i \in 1 .. Len(new) /\ i \in 1 .. Len(s.slots) /\ i \in 1 .. s.length + 1 /\ i <= s.length
        BY <3>1, <2>5, <1>1
      <4>2. new[i] = IF i = 1 THEN value ELSE s.slots[i - 1]
        BY <4>1, <1>4, <1>3
      <4>3. slots[i] = IF i = 1 THEN value ELSE s.slots[i - 1]
        <5>1. i = 1 \/ i > 1
          BY <4>1
        <5>2. QED
          BY <5>1, <4>1, <2>2, <2>3
      <4>4. QED
        BY <4>2, <4>3, <2>5
    <3>3. t.slots \in Slots /\ t.length \in Nat /\ t.length <= Len(t.slots) /\ Len(new) = t.length
      BY <2>5, <3>1, <1>1, FitsFacts
    <3>4. QED
      BY <3>2, <3>3, <1>4, ContentIs
  <2>7. QED
    BY <2>5, <2>6 DEF new, Within
<1>7. CASE max # 0 /\ ~(max # Unbounded /\ s.length >= max)
  <2>1. s.length < MaxCapacity /\ t = Moved(s, <<value>> \o Content(s), s.length + 1)
    BY <1>7 DEF AppendLeftDeque
  <2>2. q \in Slots
    <3>1. Len(q) <= MaxCapacity
      BY <2>1, <1>3, <1>1, ProgramFacts
    <3>2. QED
      BY <3>1, CellsSlots
  <2>3. t = Moved(s, q, Len(q))
    BY <2>1, <1>2, <1>3
  <2>4. Fits(t, n) /\ t.slots = q /\ t.length = Len(q)
    BY <2>2, <2>3, MovedFits
  <2>5. Content(t) = q
    <3>1. Len(q) \in Nat /\ Len(q) <= Len(q)
      BY <1>1, <1>3
    <3>2. QED
      BY <2>2, <2>4, <3>1, ContentIs
  <2>6. max = Unbounded \/ s.length + 1 <= max
    BY <1>7, <1>1 DEF Limits
  <2>7. Within(t, max)
    BY <2>4, <2>6, <1>3 DEF Within
  <2>8. Promised!Foremost(q, max) = q
    BY <2>6, <1>3 DEF Promised!Foremost, Promised!Unbounded, Unbounded
  <2>9. QED
    BY <2>4, <2>5, <2>7, <2>8, <1>2
<1>8. QED
  BY <1>5, <1>6, <1>7

\* A nonempty set of naturals has a least member: the intervals up to its
\* members are finite sets, and strict inclusion of those is well founded.
LEMMA LeastOf ==
  ASSUME NEW T \in SUBSET Nat, T # {}
  PROVE  \E i \in T : \A j \in T : i <= j
<1> DEFINE Spans == {1..n : n \in T}
           R == StrictSubsetOrdering(Nat)
<1>1. IsWellFoundedOn(R, FiniteSubsetsOf(Nat))
  BY FS_StrictSubsetOrderingWellFounded
<1>2. ASSUME NEW n \in Nat PROVE 1..n \in FiniteSubsetsOf(Nat)
  BY FS_Interval DEF FiniteSubsetsOf
<1>3. Spans # {} /\ Spans \subseteq FiniteSubsetsOf(Nat)
  BY <1>2
<1>4. PICK x \in Spans : \A y \in Spans : ~(<<y, x>> \in R)
  <2> HIDE DEF Spans, R
  <2> QED
    BY <1>1, <1>3, WFMin
<1>5. PICK i \in T : x = 1..i
  BY <1>4
<1>6. ASSUME NEW j \in T, j < i PROVE FALSE
  <2>1. 1..j \in SUBSET Nat /\ 1..i \in SUBSET Nat /\ 1..j \subseteq 1..i
    BY <1>6
  <2>2. i \in 1..i /\ i \notin 1..j
    BY <1>6
  <2>3. <<1..j, 1..i>> \in R
    BY <2>1, <2>2 DEF StrictSubsetOrdering
  <2>4. QED
    BY <2>3, <1>4, <1>5
<1>7. QED
  BY <1>6

\* What adding the elements of q one by one may lead to.
Further(end, value, max, reached) == UNION {AddAt(end, t, value, max) : t \in reached}
Table(end, s, q, max, n, f) ==
    f = [k \in 0 .. n |-> IF k = 0 THEN {s} ELSE Further(end, q[k], max, f[k - 1])]

\* Reached of OneByOne exists: a table of its first n entries does, for every n.
LEMMA TableExists ==
  ASSUME NEW end, NEW s, NEW q, NEW max, NEW n \in Nat
  PROVE  \E f : Table(end, s, q, max, n, f)
<1> DEFINE Bad == {o \in Nat : ~ \E f : Table(end, s, q, max, o, f)}
<1>1. SUFFICES ASSUME Bad # {} PROVE FALSE
  OBVIOUS
<1>2. PICK o \in Bad : \A k \in Bad : o <= k
  <2>1. Bad \in SUBSET Nat
    OBVIOUS
  <2> HIDE DEF Bad
  <2>2. QED
    BY <1>1, <2>1, LeastOf
<1>3. CASE o = 0
  <2> DEFINE f == [k \in 0 .. 0 |-> {s}]
  <2>1. f = [k \in 0 .. 0 |-> IF k = 0 THEN {s} ELSE Further(end, q[k], max, f[k - 1])]
    OBVIOUS
  <2>2. QED
    BY <2>1, <1>2, <1>3 DEF Table
<1>4. CASE o # 0
  <2>1. o - 1 \in Nat /\ o \in Nat /\ ~(o <= o - 1)
    BY <1>4
  <2>2. PICK g : Table(end, s, q, max, o - 1, g)
    BY <2>1, <1>2
  <2> DEFINE f == [k \in 0 .. o |-> IF k = o THEN Further(end, q[o], max, g[o - 1]) ELSE g[k]]
  <2>3. ASSUME NEW k \in 0 .. o
        PROVE  f[k] = IF k = 0 THEN {s} ELSE Further(end, q[k], max, f[k - 1])
    <3>1. CASE k = o
      <4>1. o - 1 \in 0 .. o /\ o - 1 # o
        BY <2>1
      <4>2. f[o - 1] = g[o - 1] /\ f[o] = Further(end, q[o], max, g[o - 1])
        BY <4>1, <2>1
      <4>3. QED
        BY <4>2, <3>1, <1>4
    <3>2. CASE k # o
      <4>1. k \in 0 .. o - 1 /\ (k # 0 => k - 1 \in 0 .. o /\ k - 1 # o)
        BY <3>2, <2>1
      <4>2. g[k] = IF k = 0 THEN {s} ELSE Further(end, q[k], max, g[k - 1])
        BY <2>2, <4>1 DEF Table
      <4>3. f[k] = g[k] /\ (k # 0 => f[k - 1] = g[k - 1])
        BY <4>1, <3>2
      <4>4. QED
        BY <4>2, <4>3
    <3>3. QED
      BY <3>1, <3>2
  <2>4. f = [k \in 0 .. o |-> IF k = 0 THEN {s} ELSE Further(end, q[k], max, f[k - 1])]
    BY <2>3
  <2>5. QED
    BY <2>4, <1>2 DEF Table
<1>5. QED
  BY <1>3, <1>4

\* OneByOne is the last entry of such a table.
LEMMA OneByOneUnfolds ==
  ASSUME NEW end, NEW s, NEW q, NEW max, Len(q) \in Nat
  PROVE  \E f : Table(end, s, q, max, Len(q), f) /\ OneByOne(end, s, q, max) = f[Len(q)]
<1> DEFINE f == CHOOSE f : Table(end, s, q, max, Len(q), f)
<1>1. Table(end, s, q, max, Len(q), f)
  BY TableExists
<1>2. OneByOne(end, s, q, max) = f[Len(q)]
  BY DEF OneByOne, Table, Further
<1>3. QED
  BY <1>1, <1>2

\* Elements that are added one by one leave what adding them at once does.
LEMMA NewestAgain ==
  ASSUME NEW S, NEW a \in Seq(S), NEW v \in S, NEW max \in Limits
  PROVE  Promised!Newest(Promised!Newest(a, max) \o <<v>>, max) = Promised!Newest(a \o <<v>>, max)
<1>1. PICK b : b = Promised!Newest(a, max)
  OBVIOUS
<1>2. /\ b \in Seq(S) /\ Len(b) = IF max = Unbounded \/ Len(a) <= max THEN Len(a) ELSE max
      /\ \A i \in 1 .. Len(b) : b[i] = a[i + Len(a) - Len(b)]
  BY <1>1, NewestFacts
<1>3. PICK d : d = b \o <<v>>
  OBVIOUS
<1>4. /\ d \in Seq(S) /\ Len(d) = Len(b) + 1
      /\ \A i \in 1 .. Len(b) + 1 : d[i] = IF i <= Len(b) THEN b[i] ELSE v
  BY <1>2, <1>3, EndFacts
<1>5. PICK e : e = Promised!Newest(d, max)
  OBVIOUS
<1>6. /\ e \in Seq(S) /\ Len(e) = IF max = Unbounded \/ Len(d) <= max THEN Len(d) ELSE max
      /\ \A i \in 1 .. Len(e) : e[i] = d[i + Len(d) - Len(e)]
  BY <1>4, <1>5, NewestFacts
<1>7. PICK w : w = a \o <<v>>
  OBVIOUS
<1>8. /\ w \in Seq(S) /\ Len(w) = Len(a) + 1
      /\ \A i \in 1 .. Len(a) + 1 : w[i] = IF i <= Len(a) THEN a[i] ELSE v
  BY <1>7, EndFacts
<1>9. PICK r : r = Promised!Newest(w, max)
  OBVIOUS
<1>10. /\ r \in Seq(S) /\ Len(r) = IF max = Unbounded \/ Len(w) <= max THEN Len(w) ELSE max
       /\ \A i \in 1 .. Len(r) : r[i] = w[i + Len(w) - Len(r)]
  BY <1>8, <1>9, NewestFacts
<1>11. Len(a) \in Nat /\ Len(b) \in Nat /\ Len(d) \in Nat /\ Len(e) \in Nat /\ Len(r) \in Nat /\ Len(w) \in Nat
  BY <1>2, <1>4, <1>6, <1>8, <1>10, LenProperties
<1>12. Len(e) = Len(r) /\ Len(e) <= Len(d) /\ Len(b) <= Len(a)
  BY <1>2, <1>4, <1>6, <1>8, <1>10, <1>11 DEF Limits, Unbounded
<1>13. ASSUME NEW i \in 1 .. Len(e) PROVE e[i] = r[i]
  <2>1. PICK j \in 1 .. Len(d) : j = i + Len(d) - Len(e)
    <3>1. i + Len(d) - Len(e) \in 1 .. Len(d)
      BY <1>11, <1>12
    <3>2. QED
      BY <3>1
  <2>2. PICK l \in 1 .. Len(w) : l = i + Len(w) - Len(r)
    <3>1. Len(r) <= Len(w)
      BY <1>10, <1>11 DEF Limits
    <3>2. i + Len(w) - Len(r) \in 1 .. Len(w)
      BY <3>1, <1>11, <1>12
    <3>3. QED
      BY <3>2
  <2>3. e[i] = (IF j <= Len(b) THEN b[j] ELSE v) /\ r[i] = IF l <= Len(a) THEN a[l] ELSE v
    BY <2>1, <2>2, <1>4, <1>6, <1>8, <1>10, <1>12
  <2>4. (j <= Len(b) <=> l <= Len(a)) /\ l = j + Len(a) - Len(b)
    BY <2>1, <2>2, <1>4, <1>8, <1>11, <1>12
  <2>5. j <= Len(b) => b[j] = a[l]
    BY <2>4, <1>2, <1>11
  <2>6. QED
    BY <2>3, <2>4, <2>5
<1>14. e = r
  BY <1>6, <1>10, <1>12, <1>13, SeqEqual
<1>15. QED
  BY <1>1, <1>3, <1>5, <1>7, <1>9, <1>14

\* Cutting before an element is added on the left changes nothing.
LEMMA ForemostAgain ==
  ASSUME NEW S, NEW a \in Seq(S), NEW v \in S, NEW max \in Limits
  PROVE  Promised!Foremost(<<v>> \o Promised!Foremost(a, max), max) = Promised!Foremost(<<v>> \o a, max)
<1>1. PICK b : b = Promised!Foremost(a, max)
  OBVIOUS
<1>2. /\ b \in Seq(S) /\ Len(b) = IF max = Unbounded \/ Len(a) <= max THEN Len(a) ELSE max
      /\ \A i \in 1 .. Len(b) : b[i] = a[i]
  BY <1>1, ForemostFacts
<1>3. PICK d : d = <<v>> \o b
  OBVIOUS
<1>4. /\ d \in Seq(S) /\ Len(d) = Len(b) + 1
      /\ \A i \in 1 .. Len(b) + 1 : d[i] = IF i = 1 THEN v ELSE b[i - 1]
  BY <1>2, <1>3, EndFacts
<1>5. PICK e : e = Promised!Foremost(d, max)
  OBVIOUS
<1>6. /\ e \in Seq(S) /\ Len(e) = IF max = Unbounded \/ Len(d) <= max THEN Len(d) ELSE max
      /\ \A i \in 1 .. Len(e) : e[i] = d[i]
  BY <1>4, <1>5, ForemostFacts
<1>7. PICK w : w = <<v>> \o a
  OBVIOUS
<1>8. /\ w \in Seq(S) /\ Len(w) = Len(a) + 1
      /\ \A i \in 1 .. Len(a) + 1 : w[i] = IF i = 1 THEN v ELSE a[i - 1]
  BY <1>7, EndFacts
<1>9. PICK r : r = Promised!Foremost(w, max)
  OBVIOUS
<1>10. /\ r \in Seq(S) /\ Len(r) = IF max = Unbounded \/ Len(w) <= max THEN Len(w) ELSE max
       /\ \A i \in 1 .. Len(r) : r[i] = w[i]
  BY <1>8, <1>9, ForemostFacts
<1>11. Len(a) \in Nat /\ Len(b) \in Nat /\ Len(d) \in Nat /\ Len(e) \in Nat /\ Len(r) \in Nat /\ Len(w) \in Nat
  BY <1>2, <1>4, <1>6, <1>8, <1>10, LenProperties
<1>12. Len(e) = Len(r) /\ Len(e) <= Len(d) /\ Len(r) <= Len(w) /\ Len(b) <= Len(a)
  BY <1>2, <1>4, <1>6, <1>8, <1>10, <1>11 DEF Limits, Unbounded
<1>13. ASSUME NEW i \in 1 .. Len(e) PROVE e[i] = r[i]
  <2>1. i \in 1 .. Len(d) /\ i \in 1 .. Len(w) /\ i \in 1 .. Len(r)
    BY <1>11, <1>12
  <2>2. e[i] = (IF i = 1 THEN v ELSE b[i - 1]) /\ r[i] = IF i = 1 THEN v ELSE a[i - 1]
    BY <2>1, <1>4, <1>6, <1>8, <1>10, <1>12
  <2>3. i # 1 => i - 1 \in 1 .. Len(b)
    BY <2>1, <1>4, <1>11
  <2>4. QED
    BY <2>2, <2>3, <1>2
<1>14. e = r
  BY <1>6, <1>10, <1>12, <1>13, SeqEqual
<1>15. QED
  BY <1>1, <1>3, <1>5, <1>7, <1>9, <1>14

\* Reversal, and the first elements of a sequence.
LEMMA ReverseFacts ==
  ASSUME NEW S, NEW q \in Seq(S)
  PROVE  /\ Reverse(q) \in Seq(S) /\ Len(Reverse(q)) = Len(q)
         /\ \A i \in 1 .. Len(q) : Reverse(q)[i] = q[Len(q) - i + 1]
<1>1. Len(q) \in Nat /\ \A i \in 1 .. Len(q) : q[i] \in S
  BY LenProperties, ElementOfSeq
<1>2. \A i \in 1 .. Len(q) : Len(q) - i + 1 \in 1 .. Len(q)
  BY <1>1
<1>3. Reverse(q) \in [1 .. Len(q) -> S]
  BY <1>1, <1>2 DEF Reverse
<1>4. QED
  BY <1>1, <1>3, IntervalSeq DEF Reverse

\* A prefix of a sequence.
LEMMA PrefixFacts ==
  ASSUME NEW S, NEW q \in Seq(S), NEW k \in Nat, k <= Len(q)
  PROVE  /\ SubSeq(q, 1, k) \in Seq(S) /\ Len(SubSeq(q, 1, k)) = k
         /\ \A i \in 1 .. k : SubSeq(q, 1, k)[i] = q[i]
<1>1. 1 \in Nat /\ 1 <= 1 /\ 1 <= k + 1 /\ k - 1 + 1 = k /\ \A i \in 1 .. k : 1 + i - 1 = i
  OBVIOUS
<1>2. /\ SubSeq(q, 1, k) \in Seq(S) /\ Len(SubSeq(q, 1, k)) = k - 1 + 1
      /\ \A i \in 1 .. k - 1 + 1 : SubSeq(q, 1, k)[i] = q[1 + i - 1]
  BY <1>1, Stretch
<1>3. QED
  BY <1>1, <1>2

\* What a prefix of q adds at either end.
Single(value) == <<value>>

Prefix(q, k) == SubSeq(q, 1, k)

\* One element more of a prefix is one element more at the end.
LEMMA PrefixAddsRight ==
  ASSUME NEW S, NEW c \in Seq(S), NEW q \in Seq(S), NEW l \in 1 .. Len(q), NEW k \in Nat, k = l - 1
  PROVE  c \o Prefix(q, l) = (c \o Prefix(q, k)) \o Single(q[l])
<1>1. /\ Len(q) \in Nat /\ Len(c) \in Nat /\ \A i \in 1 .. Len(q) : q[i] \in S
      /\ k \in Nat /\ l \in Nat /\ l = k + 1 /\ k <= Len(q) /\ l <= Len(q)
  BY LenProperties, ElementOfSeq
<1>2. PICK v \in S : v = q[l]
  BY <1>1
<1>3. PICK p : p = SubSeq(q, 1, k)
  OBVIOUS
<1>4. p \in Seq(S) /\ Len(p) = k /\ \A i \in 1 .. k : p[i] = q[i]
  BY <1>1, <1>3, PrefixFacts
<1>5. PICK p2 : p2 = SubSeq(q, 1, l)
  OBVIOUS
<1>6. p2 \in Seq(S) /\ Len(p2) = l /\ \A i \in 1 .. l : p2[i] = q[i]
  BY <1>1, <1>5, PrefixFacts
<1>7. PICK x : x = p \o <<v>>
  OBVIOUS
<1>8. x \in Seq(S) /\ Len(x) = l /\ \A i \in 1 .. l : x[i] = IF i <= k THEN p[i] ELSE v
  BY <1>4, <1>7, EndFacts
<1>9. p2 = x
  <2>1. ASSUME NEW i \in 1 .. l PROVE p2[i] = x[i]
    <3>1. (i <= k /\ i \in 1 .. k) \/ (~(i <= k) /\ i = l)
      OBVIOUS
    <3>2. QED
      BY <3>1, <1>2, <1>4, <1>6, <1>8
  <2>2. QED
    BY <2>1, <1>6, <1>8, SeqEqual
<1>10. <<v>> \in Seq(S)
  OBVIOUS
<1>11. c \o (p \o <<v>>) = (c \o p) \o <<v>>
  BY <1>4, <1>10, ConcatAssociative
<1>12. QED
  BY <1>2, <1>3, <1>5, <1>7, <1>9, <1>11 DEF Single, Prefix

\* The next element of a reversed prefix comes first.
LEMMA PrefixAddsLeft ==
  ASSUME NEW S, NEW c \in Seq(S), NEW q \in Seq(S), NEW l \in 1 .. Len(q), NEW k \in Nat, k = l - 1
  PROVE  Reverse(Prefix(q, l)) \o c = Single(q[l]) \o (Reverse(Prefix(q, k)) \o c)
<1>1. /\ Len(q) \in Nat /\ Len(c) \in Nat /\ \A i \in 1 .. Len(q) : q[i] \in S
      /\ k \in Nat /\ l \in Nat /\ l = k + 1 /\ k <= Len(q) /\ l <= Len(q)
  BY LenProperties, ElementOfSeq
<1>2. PICK v \in S : v = q[l]
  BY <1>1
<1>3. PICK p : p = SubSeq(q, 1, k)
  OBVIOUS
<1>4. p \in Seq(S) /\ Len(p) = k /\ \A i \in 1 .. k : p[i] = q[i]
  BY <1>1, <1>3, PrefixFacts
<1>5. PICK p2 : p2 = SubSeq(q, 1, l)
  OBVIOUS
<1>6. p2 \in Seq(S) /\ Len(p2) = l /\ \A i \in 1 .. l : p2[i] = q[i]
  BY <1>1, <1>5, PrefixFacts
<1>7. PICK rp : rp = Reverse(p)
  OBVIOUS
<1>8. rp \in Seq(S) /\ Len(rp) = k /\ \A i \in 1 .. k : rp[i] = p[k - i + 1]
  <2>1. Reverse(p) \in Seq(S) /\ Len(Reverse(p)) = Len(p) /\ \A i \in 1 .. Len(p) : Reverse(p)[i] = p[Len(p) - i + 1]
    BY <1>4, ReverseFacts
  <2>2. QED
    BY ONLY <2>1, <1>4, <1>7
<1>9. PICK rp2 : rp2 = Reverse(p2)
  OBVIOUS
<1>10. rp2 \in Seq(S) /\ Len(rp2) = l /\ \A i \in 1 .. l : rp2[i] = p2[l - i + 1]
  BY <1>6, <1>9, ReverseFacts
<1>11. PICK y : y = <<v>> \o rp
  OBVIOUS
<1>12. y \in Seq(S) /\ Len(y) = l /\ \A i \in 1 .. l : y[i] = IF i = 1 THEN v ELSE rp[i - 1]
  BY <1>8, <1>11, EndFacts
<1>13. rp2 = y
  <2>1. ASSUME NEW i \in 1 .. l PROVE rp2[i] = y[i]
    <3>1. rp2[i] = q[l - i + 1]
      <4>1. l - i + 1 \in 1 .. l
        OBVIOUS
      <4>2. QED
        BY <4>1, <1>6, <1>10
    <3>2. CASE i = 1
      <4>1. l - i + 1 = l
        BY <3>2
      <4>2. QED
        BY <4>1, <3>1, <3>2, <1>2, <1>12
    <3>3. CASE i # 1
      <4>1. i - 1 \in 1 .. k /\ k - (i - 1) + 1 \in 1 .. k /\ k - (i - 1) + 1 = l - i + 1
        BY <3>3
      <4>2. rp[i - 1] = q[l - i + 1]
        BY <4>1, <1>4, <1>8
      <4>3. QED
        BY <4>2, <3>1, <3>3, <1>12
    <3>4. QED
      BY <3>2, <3>3
  <2>2. QED
    BY <2>1, <1>10, <1>12, SeqEqual
<1>14. <<v>> \in Seq(S)
  OBVIOUS
<1>15. (<<v>> \o rp) \o c = <<v>> \o (rp \o c)
  BY <1>8, <1>14, ConcatAssociative
<1>16. QED
  BY <1>2, <1>3, <1>5, <1>7, <1>9, <1>11, <1>13, <1>15 DEF Single, Prefix

\* What adding the first k elements of q one by one makes of c.
Gained(end, c, q, k, max) ==
    IF end = "right" THEN Promised!Newest(c \o SubSeq(q, 1, k), max)
    ELSE Promised!Foremost(Reverse(SubSeq(q, 1, k)) \o c, max)

\* What a collection has after none, one, and all of the elements added.
LEMMA GainedNothing ==
  ASSUME NEW end \in {"right", "left"}, NEW c \in Seq(Cells), NEW q \in Seq(Cells), NEW max \in Limits,
         max # Unbounded => Len(c) <= max
  PROVE  Gained(end, c, q, 0, max) = c
<1>1. Len(q) \in Nat
  BY LenProperties
<1>2. SubSeq(q, 1, 0) \in Seq(Cells) /\ Len(SubSeq(q, 1, 0)) = 0
  BY <1>1, PrefixFacts
<1>3. SubSeq(q, 1, 0) = <<>>
  BY <1>2, EmptySeq
<1>4. Reverse(SubSeq(q, 1, 0)) \in Seq(Cells) /\ Len(Reverse(SubSeq(q, 1, 0))) = 0
  BY <1>2, ReverseFacts
<1>5. Reverse(SubSeq(q, 1, 0)) = <<>>
  BY <1>4, EmptySeq
<1>6. c \o <<>> = c /\ <<>> \o c = c
  BY ConcatEmptySeq
<1>7. QED
  BY <1>3, <1>5, <1>6 DEF Gained, Promised!Newest, Promised!Foremost, Promised!Unbounded, Unbounded

\* One more element is added to what was kept so far.
LEMMA AddAtFacts ==
  ASSUME program \in Programs, NEW n, NEW s, Fits(s, n), NEW end \in {"right", "left"},
         NEW c \in Seq(Cells), NEW q \in Seq(Cells), NEW l \in 1 .. Len(q), NEW k \in Nat, k = l - 1,
         NEW max \in Limits, NEW t \in AddAt(end, s, q[l], max)
  PROVE  /\ Fits(t, n)
         /\ Within(s, max) /\ Content(s) = Gained(end, c, q, k, max) =>
                Within(t, max) /\ Content(t) = Gained(end, c, q, l, max)
<1>1. PICK v : v = q[l]
  OBVIOUS
<1>2. PICK p : p = SubSeq(q, 1, k)
  OBVIOUS
<1>3. PICK p2 : p2 = SubSeq(q, 1, l)
  OBVIOUS
<1>4. /\ c \o p2 = (c \o p) \o <<v>> /\ Reverse(p2) \o c = <<v>> \o (Reverse(p) \o c)
      /\ c \o p \in Seq(Cells) /\ Reverse(p) \o c \in Seq(Cells) /\ v \in Cells
  <2>1. /\ c \o SubSeq(q, 1, l) = (c \o SubSeq(q, 1, k)) \o <<q[l]>>
        /\ Reverse(SubSeq(q, 1, l)) \o c = <<q[l]>> \o (Reverse(SubSeq(q, 1, k)) \o c)
        /\ c \o SubSeq(q, 1, k) \in Seq(Cells) /\ Reverse(SubSeq(q, 1, k)) \o c \in Seq(Cells) /\ q[l] \in Cells
    <3>1. l \in 1 .. Len(q) /\ k \in Nat /\ k = l - 1 /\ k <= Len(q) /\ Len(q) \in Nat
      BY LenProperties
    <3>2. /\ c \o Prefix(q, l) = (c \o Prefix(q, k)) \o Single(q[l])
          /\ Reverse(Prefix(q, l)) \o c = Single(q[l]) \o (Reverse(Prefix(q, k)) \o c)
      <4>1. c \in Seq(Cells) /\ q \in Seq(Cells)
        OBVIOUS
      <4>2. c \o Prefix(q, l) = (c \o Prefix(q, k)) \o Single(q[l])
        BY ONLY <3>1, <4>1, PrefixAddsRight
      <4>3. Reverse(Prefix(q, l)) \o c = Single(q[l]) \o (Reverse(Prefix(q, k)) \o c)
        BY ONLY <3>1, <4>1, PrefixAddsLeft
      <4>4. QED
        BY <4>2, <4>3
    <3>3. SubSeq(q, 1, k) \in Seq(Cells)
      BY <3>1, PrefixFacts
    <3>4. Reverse(SubSeq(q, 1, k)) \in Seq(Cells)
      BY <3>3, ReverseFacts
    <3>5. c \o SubSeq(q, 1, k) \in Seq(Cells) /\ Reverse(SubSeq(q, 1, k)) \o c \in Seq(Cells)
      BY <3>3, <3>4, ConcatProperties
    <3>6. q[l] \in Cells
      BY <3>1, ElementOfSeq
    <3>7. QED
      BY <3>2, <3>5, <3>6 DEF Prefix, Single
  <2>2. QED
    BY <2>1, <1>1, <1>2, <1>3
<1>5. CASE end = "right"
  <2>1. t \in AppendDeque(s, v, max)
    BY <1>1, <1>5 DEF AddAt
  <2>2. /\ Fits(t, n)
        /\ Within(s, max) => Within(t, max) /\ Content(t) = Promised!Newest(Content(s) \o <<v>>, max)
    BY <2>1, <1>4, AppendDequeFacts
  <2>3. Promised!Newest(Promised!Newest(c \o p, max) \o <<v>>, max) = Promised!Newest((c \o p) \o <<v>>, max)
    BY <1>4, NewestAgain
  <2>4. Gained(end, c, q, k, max) = Promised!Newest(c \o p, max)
        /\ Gained(end, c, q, l, max) = Promised!Newest(c \o p2, max)
    BY <1>2, <1>3, <1>5 DEF Gained
  <2>5. QED
    BY <2>2, <2>3, <2>4, <1>4
<1>6. CASE end = "left"
  <2>1. t \in AppendLeftDeque(s, v, max)
    BY <1>1, <1>6 DEF AddAt
  <2>2. /\ Fits(t, n)
        /\ Within(s, max) => Within(t, max) /\ Content(t) = Promised!Foremost(<<v>> \o Content(s), max)
    BY <2>1, <1>4, AppendLeftDequeFacts
  <2>3. Promised!Foremost(<<v>> \o Promised!Foremost(Reverse(p) \o c, max), max)
          = Promised!Foremost(<<v>> \o (Reverse(p) \o c), max)
    BY <1>4, ForemostAgain
  <2>4. Gained(end, c, q, k, max) = Promised!Foremost(Reverse(p) \o c, max)
        /\ Gained(end, c, q, l, max) = Promised!Foremost(Reverse(p2) \o c, max)
    BY <1>2, <1>3, <1>6 DEF Gained
  <2>5. QED
    BY <2>2, <2>3, <2>4, <1>4
<1>7. QED
  BY <1>5, <1>6

LEMMA OneByOneFacts ==
  ASSUME program \in Programs, NEW n, NEW s, Fits(s, n), NEW end \in {"right", "left"},
         NEW q \in Seq(Cells), NEW max \in Limits, NEW t \in OneByOne(end, s, q, max)
  PROVE  /\ Fits(t, n)
         /\ Within(s, max) => Within(t, max) /\ Content(t) = Gained(end, Content(s), q, Len(q), max)
<1>1. Len(q) \in Nat
  BY LenProperties
<1>2. PICK f : Table(end, s, q, max, Len(q), f) /\ OneByOne(end, s, q, max) = f[Len(q)]
  BY <1>1, OneByOneUnfolds
<1>3. \A k \in 0 .. Len(q) : f[k] = IF k = 0 THEN {s} ELSE Further(end, q[k], max, f[k - 1])
  BY <1>2 DEF Table
<1>4. PICK c \in Seq(Cells) : c = Content(s) /\ Len(c) = s.length
  BY FitsFacts
<1> DEFINE Good(k) == \A u \in f[k] :
               /\ Fits(u, n)
               /\ Within(s, max) => Within(u, max) /\ Content(u) = Gained(end, c, q, k, max)
           Bad == {k \in 0 .. Len(q) : ~Good(k)}
<1>5. Good(0)
  <2>1. f[0] = {s}
    BY <1>1, <1>3
  <2>2. ASSUME Within(s, max) PROVE Content(s) = Gained(end, c, q, 0, max)
    <3>1. max # Unbounded => Len(c) <= max
      BY <2>2, <1>4 DEF Within
    <3>2. QED
      BY <3>1, <1>4, GainedNothing
  <2>3. QED
    BY <2>1, <2>2
<1>6. ASSUME NEW l \in 1 .. Len(q), Good(l - 1) PROVE Good(l)
  <2>1. PICK k \in Nat : k = l - 1
    <3>1. l - 1 \in Nat
      OBVIOUS
    <3>2. QED
      BY <3>1
  <2>2. l \in Nat /\ l = k + 1 /\ l <= Len(q) /\ l \in 0 .. Len(q) /\ l # 0
    BY <2>1, <1>1
  <2>3. f[l] = Further(end, q[l], max, f[k])
    BY <2>1, <2>2, <1>3
  <2>4. ASSUME NEW u \in f[l]
        PROVE  /\ Fits(u, n)
               /\ Within(s, max) => Within(u, max) /\ Content(u) = Gained(end, c, q, l, max)
    <3>1. PICK w \in f[k] : u \in AddAt(end, w, q[l], max)
      BY <2>3 DEF Further
    <3>2. /\ Fits(w, n)
          /\ Within(s, max) => Within(w, max) /\ Content(w) = Gained(end, c, q, k, max)
      BY <1>6, <2>1
    <3>3. /\ Fits(u, n)
          /\ Within(w, max) /\ Content(w) = Gained(end, c, q, k, max) =>
                 Within(u, max) /\ Content(u) = Gained(end, c, q, l, max)
      BY <3>1, <3>2, <2>2, AddAtFacts
    <3>4. QED
      BY <3>2, <3>3
  <2>5. QED
    BY <2>4
<1>7. Bad = {}
  <2>1. SUFFICES ASSUME Bad # {} PROVE FALSE
    OBVIOUS
  <2>2. Bad \in SUBSET Nat
    OBVIOUS
  <2>3. PICK l \in Bad : \A k \in Bad : l <= k
    <3> HIDE DEF Bad
    <3>1. QED
      BY <2>1, <2>2, LeastOf
  <2>4. l \in 1 .. Len(q) /\ l - 1 \in 0 .. Len(q) /\ ~(l <= l - 1)
    <3>1. l # 0
      BY <1>5
    <3>2. QED
      BY <3>1, <1>1
  <2>5. Good(l - 1)
    BY <2>3, <2>4
  <2>6. QED
    BY <2>4, <2>5, <1>6
<1>8. Len(q) \in 0 .. Len(q)
  BY <1>1
<1>9. Good(Len(q))
  BY <1>7, <1>8
<1>10. QED
  BY <1>2, <1>4, <1>9

\* Sequences with one element less or more.
LEMMA FrontFacts ==
  ASSUME NEW S, NEW q \in Seq(S), NEW n \in Nat, Len(q) = n + 1
  PROVE  /\ Last(q) = q[n + 1] /\ Last(q) \in S
         /\ Front(q) \in Seq(S) /\ Len(Front(q)) = n
         /\ \A k \in 1 .. n : Front(q)[k] = q[k]
<1>1. n <= Len(q) /\ n + 1 \in 1 .. Len(q) /\ Len(q) - 1 = n
  OBVIOUS
<1>2. q[n + 1] \in S
  BY <1>1, ElementOfSeq
<1>3. /\ SubSeq(q, 1, n) \in Seq(S) /\ Len(SubSeq(q, 1, n)) = n
      /\ \A i \in 1 .. n : SubSeq(q, 1, n)[i] = q[i]
  BY <1>1, PrefixFacts
<1>4. QED
  BY <1>1, <1>2, <1>3 DEF Front, Last

\* RemoveAt and InsertAt, element by element.
LEMMA RemoveAtFacts ==
  ASSUME NEW S, NEW q \in Seq(S), NEW i \in 1 .. Len(q)
  PROVE  /\ RemoveAt(q, i) \in Seq(S) /\ Len(RemoveAt(q, i)) = Len(q) - 1
         /\ \A j \in 1 .. Len(q) - 1 : RemoveAt(q, i)[j] = IF j < i THEN q[j] ELSE q[j + 1]
<1>1. Len(q) \in Nat
  BY LenProperties
<1>2. PICK b \in Nat : b = i - 1
  <2>1. i - 1 \in Nat
    BY <1>1
  <2>2. QED
    BY <2>1
<1>3. PICK a \in Nat : a = i + 1
  BY <1>1
<1>4. PICK p : p = SubSeq(q, 1, b)
  OBVIOUS
<1>5. p \in Seq(S) /\ Len(p) = b /\ \A j \in 1 .. b : p[j] = q[j]
  <2>1. b <= Len(q)
    BY <1>1, <1>2
  <2>2. QED
    BY <2>1, <1>4, PrefixFacts
<1>6. PICK r : r = SubSeq(q, a, Len(q))
  OBVIOUS
<1>7. r \in Seq(S) /\ Len(r) = Len(q) - a + 1 /\ \A j \in 1 .. Len(q) - a + 1 : r[j] = q[a + j - 1]
  <2>1. 1 <= a /\ Len(q) <= Len(q) /\ a <= Len(q) + 1
    BY <1>1, <1>3
  <2>2. QED
    BY <2>1, <1>1, <1>6, Stretch
<1>8. PICK w : w = p \o r
  OBVIOUS
<1>9. /\ w \in Seq(S) /\ Len(w) = Len(p) + Len(r)
      /\ \A j \in 1 .. Len(p) + Len(r) : w[j] = IF j <= Len(p) THEN p[j] ELSE r[j - Len(p)]
  BY <1>5, <1>7, <1>8, ConcatProperties
<1>10. Len(p) + Len(r) = Len(q) - 1
  BY <1>1, <1>2, <1>3, <1>5, <1>7
<1>11. ASSUME NEW j \in 1 .. Len(q) - 1 PROVE w[j] = IF j < i THEN q[j] ELSE q[j + 1]
  <2>1. w[j] = IF j <= b THEN p[j] ELSE r[j - b]
    BY <1>5, <1>9, <1>10
  <2>2. CASE j < i
    <3>1. j <= b /\ j \in 1 .. b
      BY <2>2, <1>2
    <3>2. QED
      BY <3>1, <2>1, <2>2, <1>5
  <2>3. CASE ~(j < i)
    <3>1. ~(j <= b) /\ j - b \in 1 .. Len(q) - a + 1 /\ a + (j - b) - 1 = j + 1
      BY <2>3, <1>1, <1>2, <1>3
    <3>2. QED
      BY <3>1, <2>1, <2>3, <1>7
  <2>4. QED
    BY <2>2, <2>3
<1>12. RemoveAt(q, i) = w
  BY <1>2, <1>3, <1>4, <1>6, <1>8 DEF RemoveAt
<1>13. QED
  BY <1>9, <1>10, <1>11, <1>12

LEMMA InsertAtFacts ==
  ASSUME NEW S, NEW q \in Seq(S), NEW i \in 1 .. Len(q) + 1, NEW v \in S
  PROVE  /\ InsertAt(q, i, v) \in Seq(S) /\ Len(InsertAt(q, i, v)) = Len(q) + 1
         /\ \A j \in 1 .. Len(q) + 1 :
                InsertAt(q, i, v)[j] = IF j < i THEN q[j] ELSE IF j = i THEN v ELSE q[j - 1]
<1>1. Len(q) \in Nat
  BY LenProperties
<1>2. PICK b \in Nat : b = i - 1
  <2>1. i - 1 \in Nat
    BY <1>1
  <2>2. QED
    BY <2>1
<1>3. PICK a \in Nat : a = i
  BY <1>1
<1>4. PICK p : p = SubSeq(q, 1, b)
  OBVIOUS
<1>5. p \in Seq(S) /\ Len(p) = b /\ \A j \in 1 .. b : p[j] = q[j]
  <2>1. b <= Len(q)
    BY <1>1, <1>2
  <2>2. QED
    BY <2>1, <1>4, PrefixFacts
<1>6. PICK r : r = SubSeq(q, a, Len(q))
  OBVIOUS
<1>7. r \in Seq(S) /\ Len(r) = Len(q) - a + 1 /\ \A j \in 1 .. Len(q) - a + 1 : r[j] = q[a + j - 1]
  <2>1. 1 <= a /\ Len(q) <= Len(q) /\ a <= Len(q) + 1
    BY <1>1, <1>3
  <2>2. QED
    BY <2>1, <1>1, <1>6, Stretch
<1>8. PICK u : u = p \o <<v>>
  OBVIOUS
<1>9. /\ u \in Seq(S) /\ Len(u) = Len(p) + 1
      /\ \A j \in 1 .. Len(p) + 1 : u[j] = IF j <= Len(p) THEN p[j] ELSE v
  BY <1>5, <1>8, EndFacts
<1>10. PICK w : w = u \o r
  OBVIOUS
<1>11. /\ w \in Seq(S) /\ Len(w) = Len(u) + Len(r)
       /\ \A j \in 1 .. Len(u) + Len(r) : w[j] = IF j <= Len(u) THEN u[j] ELSE r[j - Len(u)]
  BY <1>7, <1>9, <1>10, ConcatProperties
<1>12. Len(u) = i /\ Len(u) + Len(r) = Len(q) + 1
  BY <1>1, <1>2, <1>3, <1>5, <1>7, <1>9
<1>13. ASSUME NEW j \in 1 .. Len(q) + 1
       PROVE  w[j] = IF j < i THEN q[j] ELSE IF j = i THEN v ELSE q[j - 1]
  <2>1. w[j] = IF j <= i THEN u[j] ELSE r[j - i]
    BY <1>11, <1>12
  <2>2. CASE j < i
    <3>1. j <= b /\ j \in 1 .. b /\ j \in 1 .. b + 1 /\ j <= i
      BY <2>2, <1>2
    <3>2. u[j] = p[j]
      BY <3>1, <1>5, <1>9
    <3>3. QED
      BY <3>1, <3>2, <2>1, <2>2, <1>5
  <2>3. CASE j = i
    <3>1. ~(j <= b) /\ j \in 1 .. b + 1 /\ j <= i /\ ~(j < i)
      BY <2>3, <1>2
    <3>2. u[j] = v
      BY <3>1, <1>5, <1>9
    <3>3. QED
      BY <3>1, <3>2, <2>1, <2>3
  <2>4. CASE j > i
    <3>1. ~(j <= i) /\ j - i \in 1 .. Len(q) - a + 1 /\ a + (j - i) - 1 = j - 1 /\ ~(j < i) /\ j # i
      BY <2>4, <1>1, <1>3
    <3>2. QED
      BY <3>1, <2>1, <1>7
  <2>5. QED
    BY <2>2, <2>3, <2>4
<1>14. InsertAt(q, i, v) = w
  BY <1>2, <1>3, <1>4, <1>6, <1>8, <1>10 DEF InsertAt
<1>15. QED
  BY <1>11, <1>12, <1>13, <1>14

-----------------------------------------------------------------------------
(* Removing, inserting and moving elements.                                *)

LEMMA NoSlots ==
  ASSUME program \in Programs
  PROVE  <<>> \in Slots
<1>1. PICK q : q = <<>> /\ q \in Seq(Cells) /\ Len(q) = 0
  <2>1. <<>> \in Seq(Cells) /\ Len(<<>>) = 0
    BY EmptySeq
  <2>2. QED
    BY <2>1
<1>2. Len(q) <= MaxCapacity
  BY <1>1, ProgramFacts
<1>3. q \in Slots
  BY <1>1, <1>2, CellsSlots
<1>4. QED
  BY <1>1, <1>3

\* Slices are those of arrays.
LEMMA SliceFacts ==
  ASSUME program \in Programs, NEW a, a.slots \in Slots, a.length \in Nat, a.length <= Len(a.slots)
  PROVE  /\ Fits(Slice(a), Len(a.slots)) /\ Content(Slice(a)) = Content(a)
         /\ Slice(a).length = a.length /\ Slice(a).slots = a.slots /\ Slice(a).moved = FALSE
<1>1. <<>> \in Slots
  BY NoSlots
<1>2. QED
  BY <1>1 DEF Slice, Fits, Content

\* What pop(), pop_left() and remove() leave.
LEMMA PopFacts ==
  ASSUME program \in Programs, NEW n, NEW s, Fits(s, n), s.length > 0
  PROVE  /\ Fits(Shortened(s), n) /\ Content(Shortened(s)) = Front(Content(s))
         /\ Shortened(s).length = s.length - 1
         /\ s.slots[s.length] = Last(Content(s)) /\ s.slots[s.length] \in Cells
<1>1. /\ s.length \in Nat /\ Content(s) \in Seq(Cells) /\ Len(Content(s)) = s.length
      /\ \A i \in 1 .. s.length : Content(s)[i] = s.slots[i] /\ s.slots[i] \in Cells
  BY FitsFacts
<1>2. PICK m \in Nat : m = s.length - 1
  BY <1>1
<1>3. Len(Content(s)) = m + 1 /\ s.length = m + 1 /\ s.length \in 1 .. s.length
  BY <1>1, <1>2
<1>4. /\ Last(Content(s)) = Content(s)[m + 1]
      /\ Front(Content(s)) \in Seq(Cells) /\ Len(Front(Content(s))) = m
      /\ \A k \in 1 .. m : Front(Content(s))[k] = Content(s)[k]
  BY <1>1, <1>3, FrontFacts
<1>5. /\ Fits(Shortened(s), n) /\ Shortened(s).length = m
      /\ \A i \in 1 .. m : Shortened(s).slots[i] = s.slots[i]
  BY <1>2, ShortenedFacts
<1>6. PICK t : t = Shortened(s)
  OBVIOUS
<1>7. t.slots \in Slots /\ t.length \in Nat /\ t.length <= Len(t.slots)
  BY <1>5, <1>6, FitsFacts
<1>8. \A i \in 1 .. m : i \in 1 .. s.length
  BY <1>3
<1>9. Len(Front(Content(s))) = t.length /\ \A i \in 1 .. t.length : t.slots[i] = Front(Content(s))[i]
  BY <1>1, <1>4, <1>5, <1>6, <1>8
<1>10. Content(t) = Front(Content(s))
  BY <1>4, <1>7, <1>9, ContentIs
<1>11. QED
  BY <1>1, <1>2, <1>3, <1>4, <1>5, <1>6, <1>10

LEMMA TakenFacts ==
  ASSUME program \in Programs, NEW n, NEW s, Fits(s, n), NEW i \in 1 .. s.length,
         NEW t, t = Shortened([s EXCEPT !.slots = ClosedUp(s, i)])
  PROVE  Fits(t, n) /\ t.length = s.length - 1 /\ Content(t) = RemoveAt(Content(s), i)
<1>1. /\ s.length \in Nat /\ s.length <= Len(s.slots) /\ Len(s.slots) \in Nat
      /\ Content(s) \in Seq(Cells) /\ Len(Content(s)) = s.length
      /\ \A k \in 1 .. s.length : Content(s)[k] = s.slots[k] /\ s.slots[k] \in Cells
  BY FitsFacts
<1>2. PICK slots \in Slots : slots = ClosedUp(s, i)
  BY ClosedUpFacts
<1>3. /\ Len(slots) = Len(s.slots)
      /\ \A j \in 1 .. Len(s.slots) : slots[j] = IF j >= i /\ j < s.length THEN s.slots[j + 1] ELSE s.slots[j]
  BY <1>2, ClosedUpFacts
<1>4. PICK u : u = [s EXCEPT !.slots = slots]
  OBVIOUS
<1>5. Fits(u, n) /\ u.slots = slots /\ u.length = s.length
  BY <1>3, <1>4, Rewritten
<1>6. t = Shortened(u) /\ u.length > 0
  BY <1>1, <1>2, <1>4, <1>5
<1>7. /\ Fits(t, n) /\ t.length = s.length - 1
      /\ \A k \in 1 .. s.length - 1 : t.slots[k] = slots[k]
  BY <1>5, <1>6, ShortenedFacts
<1>8. PICK c \in Seq(Cells) : c = Content(s)
  BY <1>1
<1>9. /\ RemoveAt(c, i) \in Seq(Cells) /\ Len(RemoveAt(c, i)) = s.length - 1
      /\ \A j \in 1 .. s.length - 1 : RemoveAt(c, i)[j] = IF j < i THEN c[j] ELSE c[j + 1]
  <2>1. i \in 1 .. Len(c) /\ Len(c) = s.length
    BY <1>1, <1>8
  <2>2. QED
    BY <2>1, RemoveAtFacts
<1>10. ASSUME NEW j \in 1 .. t.length PROVE t.slots[j] = RemoveAt(c, i)[j]
  <2>1. j \in 1 .. s.length - 1 /\ j \in 1 .. s.length /\ j + 1 \in 1 .. s.length /\ j \in 1 .. Len(s.slots) /\ j < s.length
    BY <1>1, <1>7
  <2>2. t.slots[j] = IF j >= i THEN s.slots[j + 1] ELSE s.slots[j]
    BY <2>1, <1>3, <1>7
  <2>3. RemoveAt(c, i)[j] = IF j < i THEN s.slots[j] ELSE s.slots[j + 1]
    BY <2>1, <1>1, <1>8, <1>9
  <2>4. j < i <=> ~(j >= i)
    BY <2>1
  <2>5. QED
    BY <2>2, <2>3, <2>4
<1>11. t.slots \in Slots /\ t.length \in Nat /\ t.length <= Len(t.slots) /\ Len(RemoveAt(c, i)) = t.length
  BY <1>7, <1>9, FitsFacts
<1>12. Content(t) = RemoveAt(c, i)
  BY <1>9, <1>10, <1>11, ContentIs
<1>13. QED
  BY <1>7, <1>8, <1>12

\* clear() leaves nothing.
LEMMA ClearedFacts ==
  ASSUME program \in Programs, NEW n, NEW s, Fits(s, n),
         NEW t, t = Moved([s EXCEPT !.slots =
                     [i \in DOMAIN s.slots |-> IF i <= s.length THEN Nil ELSE s.slots[i]]], <<>>, 0)
  PROVE  Fits(t, n) /\ t.length = 0 /\ Content(t) = <<>>
<1> DEFINE slots == [i \in DOMAIN s.slots |-> IF i <= s.length THEN Nil ELSE s.slots[i]]
<1>1. /\ s.length \in Nat /\ Len(s.slots) \in 0 .. MaxCapacity /\ DOMAIN s.slots = 1 .. Len(s.slots)
      /\ \A i \in 1 .. Len(s.slots) : s.slots[i] \in Cells
  BY FitsFacts, SlotsFacts
<1>2. slots \in [1 .. Len(s.slots) -> Cells]
  BY <1>1, ProgramFacts
<1>3. slots \in Slots /\ Len(slots) = Len(s.slots)
  BY <1>1, <1>2, SlotsOf
<1>4. PICK u : u = [s EXCEPT !.slots = slots]
  OBVIOUS
<1>5. t = Moved(u, <<>>, 0)
  BY <1>4
<1> HIDE DEF slots
<1>6. Fits(u, n)
  BY <1>3, <1>4, Rewritten
<1>7. PICK q \in Slots : q = <<>> /\ Len(q) = 0
  <2>1. Len(<<>>) = 0
    OBVIOUS
  <2>2. QED
    BY <2>1, NoSlots
<1>8. t = Moved(u, q, Len(q))
  BY <1>5, <1>7
<1>9. Fits(t, n) /\ t.slots = q /\ t.length = 0
  BY <1>6, <1>7, <1>8, MovedFits
<1>10. Content(t) \in Seq(Cells) /\ Len(Content(t)) = 0
  BY <1>9, FitsFacts
<1>11. QED
  BY <1>9, <1>10, EmptySeq

\* insert() makes room and writes.
LEMMA InsertedFacts ==
  ASSUME program \in Programs, NEW n, NEW s, Fits(s, n), NEW i \in 1 .. s.length + 1, NEW v \in Cells,
         NEW u \in Appended(s, <<Nil>>),
         NEW t, t = [u EXCEPT !.slots = [OpenedUp(u, i) EXCEPT ![i] = v]]
  PROVE  Fits(t, n) /\ t.length = s.length + 1 /\ Content(t) = InsertAt(Content(s), i, v)
<1>1. PICK c \in Seq(Cells) : c = Content(s) /\ Len(c) = s.length /\ s.length \in Nat
  BY FitsFacts
<1>2. Fits(u, n) /\ u.length = s.length + 1 /\ Content(u) = c \o <<Nil>>
  <2>1. <<Nil>> \in Seq(Cells) /\ Len(<<Nil>>) = 1
    BY ProgramFacts
  <2>2. Fits(u, n) /\ u.length = s.length + Len(<<Nil>>) /\ Content(u) = Content(s) \o <<Nil>>
    BY <2>1, AppendedFacts
  <2>3. QED
    BY <2>1, <2>2, <1>1
<1>3. /\ u.length \in Nat /\ u.length <= Len(u.slots) /\ Len(u.slots) \in Nat
      /\ \A k \in 1 .. u.length : Content(u)[k] = u.slots[k]
  BY <1>2, FitsFacts
<1>4. \A k \in 1 .. s.length : u.slots[k] = c[k]
  <2>1. \A k \in 1 .. Len(c) + 1 : (c \o <<Nil>>)[k] = IF k <= Len(c) THEN c[k] ELSE Nil
    BY EndFacts, ProgramFacts
  <2>2. \A k \in 1 .. s.length : k \in 1 .. Len(c) + 1 /\ k <= Len(c) /\ k \in 1 .. u.length
    BY <1>1, <1>2
  <2>3. QED
    BY <2>1, <2>2, <1>2, <1>3
<1>5. i \in 1 .. u.length
  BY <1>2
<1>6. PICK opened \in Slots : opened = OpenedUp(u, i)
  BY <1>2, <1>5, OpenedUpFacts
<1>7. /\ Len(opened) = Len(u.slots)
      /\ \A j \in 1 .. Len(u.slots) : opened[j] = IF j > i /\ j <= u.length THEN u.slots[j - 1] ELSE u.slots[j]
  BY <1>2, <1>5, <1>6, OpenedUpFacts
<1>8. i \in 1 .. Len(opened)
  BY <1>3, <1>5, <1>7
<1>9. PICK slots \in Slots : /\ slots = [opened EXCEPT ![i] = v] /\ Len(slots) = Len(opened)
                             /\ \A j \in 1 .. Len(opened) : slots[j] = IF j = i THEN v ELSE opened[j]
  <2>1. /\ [opened EXCEPT ![i] = v] \in Slots /\ Len([opened EXCEPT ![i] = v]) = Len(opened)
        /\ \A j \in 1 .. Len(opened) : [opened EXCEPT ![i] = v][j] = IF j = i THEN v ELSE opened[j]
    BY <1>8, WriteFacts
  <2>2. QED
    BY <2>1
<1>10. t = [u EXCEPT !.slots = slots]
  BY <1>6, <1>9
<1>11. Fits(t, n) /\ t.slots = slots /\ t.length = u.length
  <2>1. Fits(u, n) /\ slots \in Slots /\ Len(slots) = Len(u.slots)
    BY <1>2, <1>7, <1>9
  <2>2. QED
    BY ONLY <2>1, <1>10, program \in Programs, Rewritten
<1>12. /\ InsertAt(c, i, v) \in Seq(Cells) /\ Len(InsertAt(c, i, v)) = s.length + 1
       /\ \A j \in 1 .. s.length + 1 :
              InsertAt(c, i, v)[j] = IF j < i THEN c[j] ELSE IF j = i THEN v ELSE c[j - 1]
  <2>1. i \in 1 .. Len(c) + 1 /\ Len(c) = s.length
    BY <1>1
  <2>2. /\ InsertAt(c, i, v) \in Seq(Cells) /\ Len(InsertAt(c, i, v)) = Len(c) + 1
        /\ \A j \in 1 .. Len(c) + 1 :
              InsertAt(c, i, v)[j] = IF j < i THEN c[j] ELSE IF j = i THEN v ELSE c[j - 1]
    BY ONLY <2>1, c \in Seq(Cells), v \in Cells, InsertAtFacts
  <2>3. QED
    BY <2>1, <2>2
<1>13. ASSUME NEW j \in 1 .. t.length PROVE t.slots[j] = InsertAt(c, i, v)[j]
  <2>1. j \in 1 .. s.length + 1 /\ j \in 1 .. Len(u.slots) /\ j <= u.length
    BY <1>2, <1>3, <1>11
  <2>2. t.slots[j] = IF j = i THEN v ELSE IF j > i THEN u.slots[j - 1] ELSE u.slots[j]
    BY <2>1, <1>7, <1>9, <1>11
  <2>3. CASE j = i
    <3>1. ~(j < i)
      BY <2>3
    <3>2. QED
      BY <3>1, <2>1, <2>2, <2>3, <1>12
  <2>4. CASE j < i
    <3>1. j # i /\ ~(j > i) /\ j \in 1 .. s.length
      BY <2>4, <2>1, <1>1
    <3>2. QED
      BY <3>1, <2>1, <2>2, <2>4, <1>4, <1>12
  <2>5. CASE j > i
    <3>1. j # i /\ ~(j < i) /\ j - 1 \in 1 .. s.length
      BY <2>5, <2>1, <1>1
    <3>2. QED
      BY <3>1, <2>1, <2>2, <2>5, <1>4, <1>12
  <2>6. QED
    BY <2>1, <2>3, <2>4, <2>5
<1>14. t.slots \in Slots /\ t.length \in Nat /\ t.length <= Len(t.slots) /\ Len(InsertAt(c, i, v)) = t.length
  BY <1>2, <1>11, <1>12, FitsFacts
<1>15. Content(t) = InsertAt(c, i, v)
  BY <1>12, <1>13, <1>14, ContentIs
<1>16. QED
  BY <1>1, <1>2, <1>11, <1>15

\* reverse() in place.
LEMMA ReversedFacts ==
  ASSUME program \in Programs, NEW n, NEW s, Fits(s, n),
         NEW t, t = [s EXCEPT !.slots =
                       [i \in DOMAIN s.slots |-> IF i <= s.length THEN s.slots[s.length + 1 - i] ELSE s.slots[i]]]
  PROVE  Fits(t, n) /\ t.length = s.length /\ Content(t) = Reverse(Content(s))
<1> DEFINE slots == [i \in DOMAIN s.slots |-> IF i <= s.length THEN s.slots[s.length + 1 - i] ELSE s.slots[i]]
<1>1. /\ s.length \in Nat /\ s.length <= Len(s.slots) /\ Len(s.slots) \in Nat
      /\ Len(s.slots) \in 0 .. MaxCapacity /\ DOMAIN s.slots = 1 .. Len(s.slots)
      /\ \A i \in 1 .. Len(s.slots) : s.slots[i] \in Cells
      /\ \A i \in 1 .. s.length : Content(s)[i] = s.slots[i]
  BY FitsFacts, SlotsFacts
<1>2. \A i \in 1 .. Len(s.slots) : i <= s.length => s.length + 1 - i \in 1 .. Len(s.slots) /\ s.length + 1 - i \in 1 .. s.length
  BY <1>1
<1>3. slots \in [1 .. Len(s.slots) -> Cells]
  BY <1>1, <1>2
<1>4. slots \in Slots /\ Len(slots) = Len(s.slots)
  BY <1>1, <1>3, SlotsOf
<1>5. \A i \in 1 .. s.length : slots[i] = s.slots[s.length + 1 - i]
  BY <1>1
<1>6. t = [s EXCEPT !.slots = slots]
  OBVIOUS
<1> HIDE DEF slots
<1>7. Fits(t, n) /\ t.slots = slots /\ t.length = s.length
  BY ONLY <1>4, <1>6, Fits(s, n), program \in Programs, Rewritten
<1>8. PICK c \in Seq(Cells) : c = Content(s) /\ Len(c) = s.length
  BY FitsFacts
<1>9. /\ Reverse(c) \in Seq(Cells) /\ Len(Reverse(c)) = s.length
      /\ \A i \in 1 .. s.length : Reverse(c)[i] = c[s.length - i + 1]
  BY <1>8, ReverseFacts
<1>10. ASSUME NEW i \in 1 .. t.length PROVE t.slots[i] = Reverse(c)[i]
  <2>1. i \in 1 .. s.length /\ s.length - i + 1 = s.length + 1 - i /\ s.length + 1 - i \in 1 .. s.length
    BY <1>1, <1>7
  <2>2. QED
    BY <2>1, <1>1, <1>5, <1>7, <1>8, <1>9
<1>11. t.slots \in Slots /\ t.length \in Nat /\ t.length <= Len(t.slots) /\ Len(Reverse(c)) = t.length
  BY <1>1, <1>7, <1>9, FitsFacts
<1>12. Content(t) = Reverse(c)
  BY <1>9, <1>10, <1>11, ContentIs
<1>13. QED
  BY <1>7, <1>8, <1>12

-----------------------------------------------------------------------------
(* Turning.                                                                *)

\* A number has one quotient and one remainder.
LEMMA OneRemainder ==
  ASSUME NEW n \in Nat \ {0}, NEW k \in Int, NEW m \in Int, NEW r \in 0 .. n - 1, NEW t \in 0 .. n - 1,
         n * k + r = n * m + t
  PROVE  k = m /\ r = t
<1>1. n * (k - m) = t - r
  OBVIOUS
<1>2. ASSUME NEW d \in Int, d >= 1 PROVE n * d >= n
  BY <1>2
<1>3. ASSUME NEW d \in Int, d <= -1 PROVE n * d <= -n
  BY <1>3
<1>4. k - m \in Int /\ t - r < n /\ t - r > -n
  OBVIOUS
<1>5. ~(k - m >= 1) /\ ~(k - m <= -1)
  BY <1>1, <1>2, <1>3, <1>4
<1>6. QED
  BY <1>5

LEMMA RemainderIs ==
  ASSUME NEW n \in Nat \ {0}, NEW a \in Int, NEW k \in Int, NEW r \in 0 .. n - 1, a = n * k + r
  PROVE  a % n = r
<1>1. a % n \in 0 .. n - 1 /\ a \div n \in Int /\ a = n * (a \div n) + (a % n)
  OBVIOUS
<1>2. PICK t \in 0 .. n - 1 : t = a % n
  BY <1>1
<1>3. PICK m \in Int : m = a \div n
  BY <1>1
<1>4. n * k + r = n * m + t
  BY <1>1, <1>2, <1>3
<1>5. k = m /\ r = t
  BY ONLY n \in Nat \ {0}, k \in Int, m \in Int, r \in 0 .. n - 1, t \in 0 .. n - 1, <1>4, OneRemainder
<1>6. QED
  BY <1>2, <1>5

\* The shift is the remainder of the division that rounds down.
LEMMA ShiftFacts ==
  ASSUME NEW n \in Nat \ {0}, NEW a \in Int
  PROVE  Shift(a, n) = a % n /\ a % n \in 0 .. n - 1
<1>1. a % n \in 0 .. n - 1
  OBVIOUS
<1>2. CASE a >= 0
  <2>1. Remainder(a, n) = a % n
    BY <1>2 DEF Remainder
  <2>2. QED
    BY <2>1, <1>1 DEF Shift
<1>3. CASE a < 0
  <2>1. PICK b \in Nat : b = -a
    BY <1>3
  <2>2. b % n \in 0 .. n - 1 /\ b \div n \in Int /\ b = n * (b \div n) + (b % n)
    OBVIOUS
  <2>3. PICK r \in 0 .. n - 1 : r = b % n
    BY <2>2
  <2>4. PICK k \in Int : k = b \div n
    BY <2>2
  <2>5. b = n * k + r /\ Remainder(a, n) = -r
    BY <2>1, <2>2, <2>3, <2>4, <1>3 DEF Remainder
  <2>6. CASE r = 0
    <3>1. a = n * (-k) + 0 /\ -k \in Int /\ 0 \in 0 .. n - 1
      BY <2>1, <2>5, <2>6
    <3>2. a % n = 0
      BY <3>1, RemainderIs
    <3>3. QED
      BY <3>2, <2>5, <2>6, <1>1 DEF Shift
  <2>7. CASE r # 0
    <3>1. a = n * (-k - 1) + (n - r) /\ -k - 1 \in Int /\ n - r \in 0 .. n - 1
      BY <2>1, <2>5, <2>7
    <3>2. a % n = n - r
      BY <3>1, RemainderIs
    <3>3. -r < 0 /\ -r + n = n - r
      BY <2>7
    <3>4. QED
      BY <3>2, <3>3, <2>5, <1>1 DEF Shift
  <2>8. QED
    BY <2>6, <2>7
<1>4. QED
  BY <1>2, <1>3

\* Where the element that a turn brings to position i was.
LEMMA TurnedFrom ==
  ASSUME NEW n \in Nat \ {0}, NEW a \in Int, NEW i \in 1 .. n, NEW shift \in 0 .. n - 1, shift = a % n
  PROVE  (i - 1 - a) % n = IF i > shift THEN i - 1 - shift ELSE i - 1 - shift + n
<1>1. PICK k \in Int : a = n * k + shift
  <2>1. a \div n \in Int /\ a = n * (a \div n) + (a % n)
    OBVIOUS
  <2>2. QED
    BY <2>1
<1>2. PICK b \in Int : b = i - 1 - a
  OBVIOUS
<1>3. CASE i > shift
  <2>1. b = n * (-k) + (i - 1 - shift) /\ -k \in Int /\ i - 1 - shift \in 0 .. n - 1
    BY <1>1, <1>2, <1>3
  <2>2. b % n = i - 1 - shift
    BY <2>1, RemainderIs
  <2>3. QED
    BY <2>2, <1>2, <1>3
<1>4. CASE ~(i > shift)
  <2>1. b = n * (-k - 1) + (i - 1 - shift + n) /\ -k - 1 \in Int /\ i - 1 - shift + n \in 0 .. n - 1
    BY <1>1, <1>2, <1>4
  <2>2. b % n = i - 1 - shift + n
    BY <2>1, RemainderIs
  <2>3. QED
    BY <2>2, <1>2, <1>4
<1>5. QED
  BY <1>3, <1>4

Rotation(q, amount) == [i \in DOMAIN q |-> q[((i - 1 - amount) % Len(q)) + 1]]

\* A rotation, element by element.
LEMMA RotationFacts ==
  ASSUME NEW S, NEW q \in Seq(S), NEW amount \in Int, NEW shift \in 0 .. Len(q) - 1, Len(q) # 0,
         shift = amount % Len(q)
  PROVE  /\ Rotation(q, amount) \in Seq(S) /\ Len(Rotation(q, amount)) = Len(q)
         /\ \A i \in 1 .. Len(q) :
                Rotation(q, amount)[i] = IF i > shift THEN q[i - shift] ELSE q[i - shift + Len(q)]
<1>1. PICK n \in Nat \ {0} : n = Len(q) /\ DOMAIN q = 1 .. n /\ \A i \in 1 .. n : q[i] \in S
  <2>1. Len(q) \in Nat /\ DOMAIN q = 1 .. Len(q) /\ \A i \in 1 .. Len(q) : q[i] \in S
    BY LenProperties, ElementOfSeq
  <2>2. QED
    BY <2>1
<1>2. ASSUME NEW i \in 1 .. n
      PROVE  /\ q[((i - 1 - amount) % n) + 1] = IF i > shift THEN q[i - shift] ELSE q[i - shift + n]
             /\ q[((i - 1 - amount) % n) + 1] \in S
  <2>1. (i - 1 - amount) % n = IF i > shift THEN i - 1 - shift ELSE i - 1 - shift + n
    BY <1>1, TurnedFrom
  <2>2. CASE i > shift
    <3>1. (i - 1 - shift) + 1 = i - shift /\ i - shift \in 1 .. n
      BY <2>2, <1>1
    <3>2. QED
      BY <3>1, <2>1, <2>2, <1>1
  <2>3. CASE ~(i > shift)
    <3>1. (i - 1 - shift + n) + 1 = i - shift + n /\ i - shift + n \in 1 .. n
      BY <2>3, <1>1
    <3>2. QED
      BY <3>1, <2>1, <2>3, <1>1
  <2>4. QED
    BY <2>2, <2>3
<1>3. Rotation(q, amount) = [i \in 1 .. n |-> q[((i - 1 - amount) % n) + 1]]
  BY <1>1 DEF Rotation
<1>4. Rotation(q, amount) \in [1 .. n -> S]
  BY <1>2, <1>3
<1>5. Rotation(q, amount) \in Seq(S) /\ Len(Rotation(q, amount)) = n
  BY <1>4, IntervalSeq
<1>6. \A i \in 1 .. n : Rotation(q, amount)[i] = IF i > shift THEN q[i - shift] ELSE q[i - shift + n]
  BY <1>2, <1>3
<1>7. QED
  BY <1>1, <1>5, <1>6

\* rotate() where nothing moves.
LEMMA RestFacts ==
  ASSUME NEW S, NEW q \in Seq(S), NEW amount \in Int, Len(q) = 0 \/ amount % Len(q) = 0
  PROVE  Rotation(q, amount) = q
<1>1. Len(q) \in Nat /\ DOMAIN q = 1 .. Len(q)
  BY LenProperties
<1>2. CASE Len(q) = 0
  <2>1. DOMAIN q = {}
    BY <1>1, <1>2
  <2>2. q = [i \in DOMAIN q |-> q[i]]
    BY SeqDef
  <2>3. QED
    BY <2>1, <2>2 DEF Rotation
<1>3. CASE Len(q) # 0
  <2>1. PICK shift \in 0 .. Len(q) - 1 : shift = amount % Len(q) /\ shift = 0
    BY <1>1, <1>3
  <2>2. /\ Rotation(q, amount) \in Seq(S) /\ Len(Rotation(q, amount)) = Len(q)
        /\ \A i \in 1 .. Len(q) :
               Rotation(q, amount)[i] = IF i > shift THEN q[i - shift] ELSE q[i - shift + Len(q)]
    BY <1>3, <2>1, RotationFacts
  <2>3. \A i \in 1 .. Len(q) : i > shift /\ i - shift = i
    BY <2>1
  <2>4. \A i \in 1 .. Len(q) : Rotation(q, amount)[i] = q[i]
    BY <2>2, <2>3
  <2>5. DOMAIN Rotation(q, amount) = 1 .. Len(q)
    BY <2>2, LenProperties
  <2>6. QED
    BY <2>2, <2>4, <2>5, <1>1, SeqEqual
<1>4. QED
  BY <1>2, <1>3

\* rotate() where elements move.
LEMMA RotatedFacts ==
  ASSUME program \in Programs, NEW n, NEW s, Fits(s, n), NEW amount \in Int, s.length # 0,
         NEW shift \in 1 .. s.length - 1, shift = amount % s.length,
         NEW rest \in Nat, rest = s.length - shift,
         NEW t, t = Moved(s, SubSeq(s.slots, rest + 1, s.length) \o SubSeq(s.slots, 1, rest), s.length)
  PROVE  Fits(t, n) /\ t.length = s.length /\ Content(t) = Rotation(Content(s), amount)
<1>1. /\ s.length \in Nat /\ s.length <= Len(s.slots) /\ Len(s.slots) \in Nat /\ s.slots \in Seq(Cells)
      /\ Len(s.slots) <= MaxCapacity
      /\ \A i \in 1 .. s.length : Content(s)[i] = s.slots[i]
  BY FitsFacts
<1>2. PICK length \in Nat : length = s.length
  BY <1>1
<1>3. PICK first \in Nat : first = rest + 1
  OBVIOUS
<1>0. shift \in Nat /\ 1 <= shift /\ shift <= length - 1 /\ rest = length - shift
  BY <1>2
<1>4. PICK a : a = SubSeq(s.slots, first, length)
  OBVIOUS
<1>5. a \in Seq(Cells) /\ Len(a) = shift /\ \A i \in 1 .. shift : a[i] = s.slots[first + i - 1]
  <2>1. 1 <= first /\ length <= Len(s.slots) /\ first <= length + 1 /\ length - first + 1 = shift
    BY ONLY <1>0, <1>1, <1>2, <1>3, rest \in Nat
  <2>2. /\ SubSeq(s.slots, first, length) \in Seq(Cells)
        /\ Len(SubSeq(s.slots, first, length)) = length - first + 1
        /\ \A i \in 1 .. length - first + 1 : SubSeq(s.slots, first, length)[i] = s.slots[first + i - 1]
    BY <2>1, <1>1, Stretch
  <2>3. QED
    BY <2>1, <2>2, <1>4
<1>6. PICK b : b = SubSeq(s.slots, 1, rest)
  OBVIOUS
<1>7. b \in Seq(Cells) /\ Len(b) = rest /\ \A i \in 1 .. rest : b[i] = s.slots[i]
  <2>1. rest <= Len(s.slots)
    BY <1>1
  <2>2. QED
    BY <2>1, <1>1, <1>6, PrefixFacts
<1>8. PICK w : w = a \o b
  OBVIOUS
<1>9. /\ w \in Seq(Cells) /\ Len(w) = length
      /\ \A i \in 1 .. length : w[i] = IF i <= shift THEN a[i] ELSE b[i - shift]
  <2>1. /\ w \in Seq(Cells) /\ Len(w) = Len(a) + Len(b)
        /\ \A i \in 1 .. Len(a) + Len(b) : w[i] = IF i <= Len(a) THEN a[i] ELSE b[i - Len(a)]
    BY <1>5, <1>7, <1>8, ConcatProperties
  <2>2. Len(a) + Len(b) = length
    BY <1>2, <1>5, <1>7
  <2>3. QED
    BY <2>1, <2>2, <1>5
<1>10. w \in Slots
  <2>1. Len(w) <= MaxCapacity
    <3>1. MaxCapacity \in Nat
      BY ProgramFacts
    <3>2. QED
      BY ONLY <3>1, <1>1, <1>2, <1>9
  <2>2. QED
    BY ONLY <2>1, <1>9, program \in Programs, CellsSlots
<1>11. t = Moved(s, w, Len(w))
  BY <1>2, <1>3, <1>4, <1>6, <1>8, <1>9
<1>12. Fits(t, n) /\ t.slots = w /\ t.length = length
  BY <1>9, <1>10, <1>11, MovedFits
<1>13. PICK c \in Seq(Cells) : c = Content(s) /\ Len(c) = length
  BY <1>2, FitsFacts
<1>14. /\ Rotation(c, amount) \in Seq(Cells) /\ Len(Rotation(c, amount)) = length
       /\ \A i \in 1 .. length :
              Rotation(c, amount)[i] = IF i > shift THEN c[i - shift] ELSE c[i - shift + length]
  <2>1. shift \in 0 .. Len(c) - 1 /\ Len(c) # 0 /\ shift = amount % Len(c)
    BY <1>2, <1>13
  <2>2. /\ Rotation(c, amount) \in Seq(Cells) /\ Len(Rotation(c, amount)) = Len(c)
        /\ \A i \in 1 .. Len(c) :
               Rotation(c, amount)[i] = IF i > shift THEN c[i - shift] ELSE c[i - shift + Len(c)]
    BY <2>1, RotationFacts
  <2>3. QED
    BY <2>2, <1>13
<1>15. ASSUME NEW i \in 1 .. t.length PROVE t.slots[i] = Rotation(c, amount)[i]
  <2>1. i \in 1 .. length
    BY <1>12
  <2>2. CASE i <= shift
    <3>1. i \in 1 .. shift /\ ~(i > shift) /\ first + i - 1 = i - shift + length /\ i - shift + length \in 1 .. length
      <4>1. i \in Int /\ 1 <= i /\ i <= length /\ length \in Nat /\ shift \in Nat /\ first = length - shift + 1
        BY ONLY <2>1, <1>0, <1>3, rest \in Nat, length \in Nat
      <4>2. first + i - 1 = i - shift + length
        BY ONLY <4>1
      <4>3. i \in 1 .. shift /\ ~(i > shift)
        BY ONLY <4>1, <2>2
      <4>4. i - shift + length \in 1 .. length
        BY ONLY <4>1, <2>2, <1>0
      <4>5. QED
        BY <4>2, <4>3, <4>4
    <3>2. QED
      BY <3>1, <2>1, <2>2, <1>1, <1>2, <1>5, <1>9, <1>12, <1>13, <1>14
  <2>3. CASE ~(i <= shift)
    <3>1. i - shift \in 1 .. rest /\ i > shift /\ i - shift \in 1 .. length
      BY ONLY <2>1, <2>3, <1>0, <1>2, rest \in Nat, length \in Nat
    <3>2. QED
      BY <3>1, <2>1, <2>3, <1>1, <1>2, <1>7, <1>9, <1>12, <1>13, <1>14
  <2>4. QED
    BY <2>2, <2>3
<1>16. t.slots \in Slots /\ t.length \in Nat /\ t.length <= Len(t.slots) /\ Len(Rotation(c, amount)) = t.length
  BY <1>9, <1>10, <1>12, <1>14
<1>17. Content(t) = Rotation(c, amount)
  BY <1>14, <1>15, <1>16, ContentIs
<1>18. QED
  BY <1>2, <1>12, <1>13, <1>17

-----------------------------------------------------------------------------
(* Arrays, handles and the stack.                                          *)

\* The program stays, and everything that it alone determines.
LEMMA SameProgram ==
  ASSUME program' = program
  PROVE  /\ Values' = Values /\ Bounds' = Bounds /\ Offsets' = Offsets /\ (direct <=> direct')
         /\ MaxHandles' = MaxHandles /\ MaxCapacity' = MaxCapacity /\ MaxNesting' = MaxNesting
         /\ Slots' = Slots /\ Item' = Item /\ Answers' = Answers
<1>1. /\ Values' = Values /\ Bounds' = Bounds /\ Offsets' = Offsets /\ (direct <=> direct')
      /\ MaxHandles' = MaxHandles /\ MaxCapacity' = MaxCapacity /\ MaxNesting' = MaxNesting
  BY DEF Values, Bounds, Offsets, direct, MaxHandles, MaxCapacity, MaxNesting
<1>2. Slots' = Slots
  BY <1>1 DEF Slots
<1>3. QED
  BY <1>1, <1>2 DEF Item, Answers

\* What the invariant says of each variable.
LEMMA ShapeFacts ==
  ASSUME Shaped
  PROVE  /\ program \in Programs /\ crashed \in BOOLEAN /\ answer \in Answers
         /\ Len(arrays) \in 0 .. MaxArrays /\ Len(arrays) \in Nat /\ ArrayIds = 1 .. Len(arrays)
         /\ arrays \in Seq([slots : Slots, length : 0 .. MaxCapacity])
         /\ \A a \in ArrayIds :
                /\ arrays[a] \in [slots : Slots, length : 0 .. MaxCapacity]
                /\ arrays[a].slots \in Slots /\ arrays[a].length \in Nat
                /\ arrays[a].length <= Len(arrays[a].slots)
         /\ Len(handles) \in Nat /\ DOMAIN handles = 1 .. Len(handles)
         /\ \A h \in DOMAIN handles :
                /\ handles[h].kind \in {"Deque", "Stack"} /\ handles[h].field \in ArrayIds
                /\ handles[h].captured \in ArrayIds \cup {0}
                /\ handles[h].max \in Bounds \cup {Unbounded} /\ handles[h].max \in Limits
         /\ stack \in Seq(Item) /\ Len(stack) \in Nat /\ Len(stack) <= MaxNesting
         /\ DOMAIN stack = 1 .. Len(stack) /\ \A i \in DOMAIN stack : stack[i] \in Item
<1>1. TypeOK
  BY DEF Shaped, LoopsStayInside
<1> DEFINE Record == [slots : Slots, length : 0 .. MaxCapacity]
           Kinds == [kind : {"Deque", "Stack"}, field : ArrayIds, captured : ArrayIds \cup {0},
                     max : Bounds \cup {Unbounded}]
<1>2. /\ arrays \in Seq(Record) /\ Len(arrays) <= MaxArrays
      /\ \A a \in ArrayIds : arrays[a].length <= Len(arrays[a].slots)
      /\ handles \in Seq(Kinds) /\ stack \in Seq(Item) /\ Len(stack) <= MaxNesting
      /\ program \in Programs /\ crashed \in BOOLEAN /\ answer \in Answers
  BY <1>1 DEF TypeOK
<1> HIDE DEF Record, Kinds
<1>3. /\ Len(arrays) \in Nat /\ DOMAIN arrays = 1 .. Len(arrays) /\ \A a \in 1 .. Len(arrays) : arrays[a] \in Record
      /\ Len(handles) \in Nat /\ DOMAIN handles = 1 .. Len(handles) /\ \A h \in 1 .. Len(handles) : handles[h] \in Kinds
      /\ Len(stack) \in Nat /\ DOMAIN stack = 1 .. Len(stack) /\ \A i \in 1 .. Len(stack) : stack[i] \in Item
  BY <1>2, LenProperties, ElementOfSeq
<1>4. ArrayIds = 1 .. Len(arrays) /\ Len(arrays) \in 0 .. MaxArrays
  BY <1>2, <1>3, CollectionsAssumption DEF ArrayIds, CollectionsAssumption
<1>5. ASSUME NEW a \in ArrayIds
      PROVE  arrays[a] \in Record /\ arrays[a].slots \in Slots /\ arrays[a].length \in Nat
  <2>1. arrays[a] \in Record
    BY <1>3, <1>4
  <2>2. QED
    BY <2>1, <1>2, ProgramFacts DEF Record
<1>6. ASSUME NEW h \in DOMAIN handles
      PROVE  /\ handles[h].kind \in {"Deque", "Stack"} /\ handles[h].field \in ArrayIds
             /\ handles[h].captured \in ArrayIds \cup {0}
             /\ handles[h].max \in Bounds \cup {Unbounded} /\ handles[h].max \in Limits
  <2>1. handles[h] \in Kinds
    BY <1>3
  <2>2. QED
    BY <2>1, <1>2, ProgramFacts DEF Kinds, Limits
<1>7. \A i \in DOMAIN stack : stack[i] \in Item
  BY <1>3
<1>8. QED
  BY <1>2, <1>3, <1>4, <1>5, <1>6, <1>7 DEF Record

\* What the invariant says of the stack.
LEMMA ItemFacts ==
  ASSUME program \in Programs, NEW item \in Item
  PROVE  /\ item.kind \in {"for", "assign"} /\ item.array \in 0 .. MaxArrays /\ item.slots \in Slots
         /\ item.length \in 0 .. MaxCapacity /\ item.length \in Nat
         /\ item.position \in 0 .. MaxCapacity /\ item.position \in Nat
         /\ item.value \in Cells
         /\ item.on.kind \in {"none", "array", "handle"} /\ item.on.id \in Nat
         /\ item.index \in Offsets \cup {0} /\ item.index \in Int
BY ProgramFacts DEF Item, Cells

\* A loop whose array moves keeps the old backing.
LEMMA LeftFacts ==
  ASSUME Shaped, NEW a \in ArrayIds, NEW old \in Slots
  PROVE  /\ Left(a, old) \in Seq(Item) /\ Len(Left(a, old)) = Len(stack) /\ DOMAIN Left(a, old) = DOMAIN stack
         /\ \A i \in DOMAIN stack :
                Left(a, old)[i] = IF stack[i].kind = "for" /\ stack[i].array = a
                                    THEN [stack[i] EXCEPT !.array = 0, !.slots = old] ELSE stack[i]
<1>1. /\ Len(stack) \in Nat /\ DOMAIN stack = 1 .. Len(stack) /\ program \in Programs
      /\ \A i \in DOMAIN stack : stack[i] \in Item
  BY ShapeFacts
<1>2. 0 \in 0 .. MaxArrays
  BY CollectionsAssumption DEF CollectionsAssumption
<1>3. ASSUME NEW item \in Item PROVE [item EXCEPT !.array = 0, !.slots = old] \in Item
  BY <1>2 DEF Item
<1>4. ASSUME NEW i \in 1 .. Len(stack)
      PROVE  (IF stack[i].kind = "for" /\ stack[i].array = a
                THEN [stack[i] EXCEPT !.array = 0, !.slots = old] ELSE stack[i]) \in Item
  <2>1. PICK item \in Item : item = stack[i]
    BY <1>1
  <2>2. [item EXCEPT !.array = 0, !.slots = old] \in Item
    BY <1>3
  <2>3. QED
    BY <2>1, <2>2
<1>5. Left(a, old) \in [1 .. Len(stack) -> Item]
  BY <1>1, <1>4 DEF Left
<1>6. Left(a, old) \in Seq(Item) /\ Len(Left(a, old)) = Len(stack)
  BY <1>1, <1>5, IntervalSeq
<1>7. QED
  BY <1>1, <1>5, <1>6 DEF Left

\* Loops inside and references kept, for the stack as it may become.
Inside(q) ==
    \A i \in DOMAIN q :
        q[i].kind = "for" =>
            q[i].length <= IF q[i].array = 0 THEN Len(q[i].slots) ELSE Len(arrays[q[i].array].slots)

LEMMA ShapeIs ==
  ASSUME Shaped
  PROVE  Inside(stack) /\ References
BY DEF Shaped, LoopsStayInside, Inside

\* values.Elements = ... keeps the shape of everything.
LEMMA Stored ==
  ASSUME Shaped, NEW a \in ArrayIds, NEW outcomes, \A t \in outcomes : Fits(t, Len(arrays[a].slots)),
         Store(a, outcomes), answer' \in Answers, UNCHANGED <<crashed, program>>
  PROVE  Shaped'
<1>1. /\ program \in Programs /\ crashed \in BOOLEAN
      /\ Len(arrays) \in 0 .. MaxArrays /\ Len(arrays) \in Nat /\ DOMAIN arrays = 1 .. Len(arrays) /\ ArrayIds = 1 .. Len(arrays)
      /\ arrays \in Seq([slots : Slots, length : 0 .. MaxCapacity])
      /\ \A b \in ArrayIds : arrays[b].slots \in Slots /\ arrays[b].length \in Nat
                             /\ arrays[b].length <= Len(arrays[b].slots)
      /\ stack \in Seq(Item) /\ Len(stack) <= MaxNesting /\ \A i \in DOMAIN stack : stack[i] \in Item
  BY ShapeFacts DEF ArrayIds
<1>2. PICK s \in outcomes :
        /\ arrays' = [arrays EXCEPT ![a] = [slots |-> s.slots, length |-> s.length]]
        /\ stack' = IF s.moved THEN Left(a, s.old) ELSE stack
  BY DEF Store
<1>3. Fits(s, Len(arrays[a].slots))
  BY <1>2
<1>4. /\ s.slots \in Slots /\ s.length \in 0 .. MaxCapacity /\ s.length <= Len(s.slots) /\ s.moved \in BOOLEAN
      /\ s.old \in Slots
  BY <1>1, <1>3, FitsFacts
<1>5. IF s.moved THEN Len(s.old) = Len(arrays[a].slots) ELSE Len(s.slots) = Len(arrays[a].slots)
  BY <1>3 DEF Fits
<1>6. PICK e \in [slots : Slots, length : 0 .. MaxCapacity] : e = [slots |-> s.slots, length |-> s.length]
  BY <1>4
<1>7. e.slots = s.slots /\ e.length = s.length
  BY <1>6
<1>8. /\ arrays' \in Seq([slots : Slots, length : 0 .. MaxCapacity]) /\ Len(arrays') = Len(arrays)
      /\ \A b \in 1 .. Len(arrays) : arrays'[b] = IF b = a THEN e ELSE arrays[b]
  <2> DEFINE Record == [slots : Slots, length : 0 .. MaxCapacity]
  <2>1. arrays \in Seq(Record) /\ e \in Record /\ a \in 1 .. Len(arrays)
    BY <1>1, <1>6
  <2> HIDE DEF Record
  <2>2. /\ [arrays EXCEPT ![a] = e] \in Seq(Record) /\ Len([arrays EXCEPT ![a] = e]) = Len(arrays)
        /\ \A b \in 1 .. Len(arrays) : [arrays EXCEPT ![a] = e][b] = IF b = a THEN e ELSE arrays[b]
    BY ONLY <2>1, ExceptSeq
  <2>3. arrays' = [arrays EXCEPT ![a] = e]
    BY <1>2, <1>6
  <2>4. QED
    BY <2>2, <2>3 DEF Record
<1>9. DOMAIN arrays' = 1 .. Len(arrays) /\ ArrayIds' = ArrayIds
  BY <1>1, <1>2 DEF ArrayIds
<1>10. \A b \in ArrayIds' : arrays'[b].length <= Len(arrays'[b].slots)
  BY <1>1, <1>4, <1>7, <1>8, <1>9
<1>11. handles' = handles
  BY DEF Store
<1>12. /\ stack' \in Seq(Item) /\ Len(stack') <= MaxNesting /\ DOMAIN stack' = DOMAIN stack
       /\ \A i \in DOMAIN stack :
              stack'[i] = IF s.moved /\ stack[i].kind = "for" /\ stack[i].array = a
                            THEN [stack[i] EXCEPT !.array = 0, !.slots = s.old] ELSE stack[i]
  <2>1. CASE s.moved
    <3>1. stack' = Left(a, s.old)
      BY <1>2, <2>1
    <3>2. /\ Left(a, s.old) \in Seq(Item) /\ Len(Left(a, s.old)) = Len(stack) /\ DOMAIN Left(a, s.old) = DOMAIN stack
          /\ \A i \in DOMAIN stack :
                 Left(a, s.old)[i] = IF stack[i].kind = "for" /\ stack[i].array = a
                                       THEN [stack[i] EXCEPT !.array = 0, !.slots = s.old] ELSE stack[i]
      BY <1>4, LeftFacts
    <3>3. QED
      BY <3>1, <3>2, <2>1, <1>1
  <2>2. CASE ~s.moved
    BY <1>1, <1>2, <2>2
  <2>3. QED
    BY <1>4, <2>1, <2>2
<1>13. TypeOK'
  BY <1>1, <1>8, <1>9, <1>10, <1>11, <1>12, SameProgram DEF TypeOK, Shaped, LoopsStayInside
<1>14. ASSUME NEW i \in DOMAIN stack
       PROVE  /\ stack'[i].kind = stack[i].kind /\ stack'[i].on = stack[i].on /\ stack'[i].index = stack[i].index
              /\ stack'[i].length = stack[i].length
              /\ stack'[i].array = IF s.moved /\ stack[i].kind = "for" /\ stack[i].array = a THEN 0 ELSE stack[i].array
              /\ stack'[i].slots = IF s.moved /\ stack[i].kind = "for" /\ stack[i].array = a THEN s.old ELSE stack[i].slots
  <2>1. PICK item \in Item : item = stack[i]
    BY <1>1
  <2>2. PICK other : other = [item EXCEPT !.array = 0, !.slots = s.old]
    OBVIOUS
  <2>3. /\ other.kind = item.kind /\ other.on = item.on /\ other.index = item.index /\ other.length = item.length
        /\ other.array = 0 /\ other.slots = s.old
    BY <2>2 DEF Item
  <2>4. stack'[i] = IF s.moved /\ item.kind = "for" /\ item.array = a THEN other ELSE item
    BY <1>12, <2>1, <2>2
  <2>5. QED
    BY <2>1, <2>3, <2>4
<1>15. References'
  <2>1. References
    BY ShapeIs
  <2>2. \A i \in DOMAIN stack : stack'[i].array \in ArrayIds \cup {0}
    BY <2>1, <1>14 DEF References
  <2>3. QED
    BY <2>1, <2>2, <1>9, <1>11, <1>12, <1>14, SameProgram DEF References
<1>16. ASSUME NEW i \in DOMAIN stack, stack'[i].kind = "for"
       PROVE  stack'[i].length <= IF stack'[i].array = 0 THEN Len(stack'[i].slots) ELSE Len(arrays'[stack'[i].array].slots)
  <2>1. stack[i].length <= IF stack[i].array = 0 THEN Len(stack[i].slots) ELSE Len(arrays[stack[i].array].slots)
    BY <1>14, <1>16, ShapeIs DEF Inside
  <2>2. stack[i].array \in ArrayIds \cup {0} /\ a # 0
    BY <1>1, ShapeIs DEF References
  <2>3. stack'[i].length = stack[i].length /\ stack[i].kind = "for"
    BY <1>14, <1>16
  <2>4. CASE stack[i].array = a /\ s.moved
    <3>1. stack'[i].array = 0 /\ stack'[i].slots = s.old
      BY <2>3, <2>4, <1>14
    <3>2. stack[i].length <= Len(arrays[a].slots)
      BY <2>1, <2>2, <2>4
    <3>3. QED
      BY <3>1, <3>2, <2>3, <2>4, <1>5
  <2>5. CASE stack[i].array = a /\ ~s.moved
    <3>1. stack'[i].array = a
      BY <2>5, <1>14
    <3>2. stack[i].length <= Len(arrays[a].slots)
      BY <2>1, <2>2, <2>5
    <3>3. arrays'[a].slots = s.slots
      BY <1>1, <1>7, <1>8
    <3>4. QED
      BY <3>1, <3>2, <3>3, <2>2, <2>3, <2>5, <1>5
  <2>6. CASE stack[i].array # a
    <3>1. stack'[i].array = stack[i].array /\ stack'[i].slots = stack[i].slots
      BY <2>6, <1>14
    <3>2. stack[i].array # 0 => arrays'[stack[i].array].slots = arrays[stack[i].array].slots
      BY <2>2, <2>6, <1>1, <1>8
    <3>3. QED
      BY <3>1, <3>2, <2>1, <2>3
  <2>7. QED
    BY <2>4, <2>5, <2>6, <1>4
<1>17. QED
  BY <1>12, <1>13, <1>15, <1>16 DEF Shaped, LoopsStayInside

\* What is demanded of one item of the stack.
Safe(item) ==
    /\ item.kind = "for" =>
           item.length <= IF item.array = 0 THEN Len(item.slots) ELSE Len(arrays[item.array].slots)
    /\ item.array \in ArrayIds \cup {0}
    /\ item.kind = "assign" =>
           /\ item.index \in Offsets
           /\ \/ item.on.kind = "array" /\ item.on.id \in ArrayIds
              \/ item.on.kind = "handle" /\ item.on.id \in DOMAIN handles

LEMMA AllSafe ==
  ASSUME Shaped, NEW i \in DOMAIN stack
  PROVE  Safe(stack[i])
BY DEF Shaped, LoopsStayInside, References, Safe

\* The stack changes, and cells of arrays at most.
LEMMA Restacked ==
  ASSUME Shaped, arrays' \in Seq([slots : Slots, length : 0 .. MaxCapacity]), Len(arrays') = Len(arrays),
         \A b \in ArrayIds : Len(arrays'[b].slots) = Len(arrays[b].slots) /\ arrays'[b].length = arrays[b].length,
         handles' = handles, stack' \in Seq(Item), Len(stack') <= MaxNesting,
         \A i \in DOMAIN stack' : Safe(stack'[i]),
         answer' \in Answers, crashed' \in BOOLEAN, program' = program
  PROVE  Shaped'
<1>1. /\ program \in Programs /\ ArrayIds = 1 .. Len(arrays) /\ Len(arrays) \in 0 .. MaxArrays /\ TypeOK
      /\ \A b \in ArrayIds : arrays[b].length <= Len(arrays[b].slots)
  BY ShapeFacts DEF Shaped, LoopsStayInside
<1>2. ArrayIds' = ArrayIds
  <2> DEFINE Record == [slots : Slots, length : 0 .. MaxCapacity]
  <2>1. arrays' \in Seq(Record)
    OBVIOUS
  <2> HIDE DEF Record
  <2>2. DOMAIN arrays' = 1 .. Len(arrays')
    BY <2>1, LenProperties
  <2>3. QED
    BY <2>2, <1>1 DEF ArrayIds
<1>3. \A b \in ArrayIds' : arrays'[b].length <= Len(arrays'[b].slots)
  BY <1>1, <1>2
<1>4. TypeOK'
  BY <1>1, <1>2, <1>3, SameProgram DEF TypeOK
<1>5. References'
  BY <1>2, SameProgram DEF References, Safe
<1>6. ASSUME NEW i \in DOMAIN stack', stack'[i].kind = "for"
      PROVE  stack'[i].length <= IF stack'[i].array = 0 THEN Len(stack'[i].slots) ELSE Len(arrays'[stack'[i].array].slots)
  BY <1>6 DEF Safe
<1>7. QED
  BY <1>4, <1>5, <1>6 DEF Shaped, LoopsStayInside

\* Nothing but the answer, or the crash.
LEMMA Answered ==
  ASSUME Shaped, arrays' = arrays, handles' = handles, stack' = stack,
         answer' \in Answers, crashed' \in BOOLEAN, program' = program
  PROVE  Shaped'
<1>1. /\ arrays \in Seq([slots : Slots, length : 0 .. MaxCapacity]) /\ stack \in Seq(Item) /\ Len(stack) <= MaxNesting
  BY ShapeFacts
<1>2. \A i \in DOMAIN stack : Safe(stack[i])
  BY AllSafe
<1>3. QED
  BY <1>1, <1>2, Restacked

LEMMA AppendFacts ==
  ASSUME NEW S, NEW q \in Seq(S), NEW e \in S
  PROVE  /\ Append(q, e) \in Seq(S) /\ Len(Append(q, e)) = Len(q) + 1
         /\ DOMAIN Append(q, e) = 1 .. Len(q) + 1
         /\ \A i \in 1 .. Len(q) + 1 : Append(q, e)[i] = IF i <= Len(q) THEN q[i] ELSE e
<1>1. Len(q) \in Nat /\ DOMAIN q = 1 .. Len(q)
  BY LenProperties
<1>2. Append(q, e) \in Seq(S) /\ Len(Append(q, e)) = Len(q) + 1
  BY <1>1
<1>3. DOMAIN Append(q, e) = 1 .. Len(q) + 1
  BY <1>2, LenProperties
<1>4. \A i \in 1 .. Len(q) + 1 : Append(q, e)[i] = IF i <= Len(q) THEN q[i] ELSE e
  BY <1>1
<1>5. QED
  BY <1>2, <1>3, <1>4

Kinds(ids) == [kind : {"Deque", "Stack"}, field : ids, captured : ids \cup {0}, max : Bounds \cup {Unbounded}]

\* More handles, or other fields.
LEMMA Rehandled ==
  ASSUME Shaped, arrays' = arrays, stack' = stack, handles' \in Seq(Kinds(ArrayIds)), Len(handles') >= Len(handles),
         answer' \in Answers, UNCHANGED <<crashed, program>>
  PROVE  Shaped'
<1>1. /\ TypeOK /\ ArrayIds' = ArrayIds /\ DOMAIN handles = 1 .. Len(handles) /\ Len(handles) \in Nat
  BY ShapeFacts DEF Shaped, LoopsStayInside, ArrayIds
<1>2. Len(handles') \in Nat /\ DOMAIN handles' = 1 .. Len(handles')
  BY LenProperties
<1>3. DOMAIN handles \subseteq DOMAIN handles'
  BY <1>1, <1>2
<1>4. TypeOK'
  BY <1>1, SameProgram DEF TypeOK, Kinds
<1>5. References'
  BY <1>1, <1>3, SameProgram DEF References, Shaped
<1>6. QED
  BY <1>4, <1>5 DEF Shaped, LoopsStayInside

\* A new array.
LEMMA Grown ==
  ASSUME Shaped, NEW e \in [slots : Slots, length : 0 .. MaxCapacity], e.length <= Len(e.slots),
         Len(arrays) < MaxArrays, arrays' = Append(arrays, e), stack' = stack,
         handles' \in Seq(Kinds(1 .. Len(arrays) + 1)), Len(handles') >= Len(handles),
         answer' \in Answers, UNCHANGED <<crashed, program>>
  PROVE  Shaped'
<1>1. /\ TypeOK /\ ArrayIds = 1 .. Len(arrays) /\ Len(arrays) \in Nat
      /\ DOMAIN handles = 1 .. Len(handles) /\ Len(handles) \in Nat
      /\ arrays \in Seq([slots : Slots, length : 0 .. MaxCapacity])
      /\ \A a \in ArrayIds : arrays[a].length <= Len(arrays[a].slots)
  BY ShapeFacts DEF Shaped, LoopsStayInside
<1>2. /\ arrays' \in Seq([slots : Slots, length : 0 .. MaxCapacity]) /\ Len(arrays') = Len(arrays) + 1
      /\ DOMAIN arrays' = 1 .. Len(arrays) + 1
      /\ \A a \in 1 .. Len(arrays) + 1 : arrays'[a] = IF a <= Len(arrays) THEN arrays[a] ELSE e
  <2> DEFINE Record == [slots : Slots, length : 0 .. MaxCapacity]
  <2>1. arrays \in Seq(Record) /\ e \in Record
    BY <1>1
  <2> HIDE DEF Record
  <2>2. /\ Append(arrays, e) \in Seq(Record) /\ Len(Append(arrays, e)) = Len(arrays) + 1
        /\ DOMAIN Append(arrays, e) = 1 .. Len(arrays) + 1
        /\ \A a \in 1 .. Len(arrays) + 1 : Append(arrays, e)[a] = IF a <= Len(arrays) THEN arrays[a] ELSE e
    BY ONLY <2>1, AppendFacts
  <2>3. QED
    BY <2>2 DEF Record
<1>3. ArrayIds' = 1 .. Len(arrays) + 1 /\ ArrayIds \subseteq ArrayIds'
      /\ \A a \in ArrayIds : a <= Len(arrays) /\ a \in 1 .. Len(arrays) + 1
  BY <1>1, <1>2 DEF ArrayIds
<1>4. Len(handles') \in Nat /\ DOMAIN handles' = 1 .. Len(handles')
  BY LenProperties
<1>5. DOMAIN handles \subseteq DOMAIN handles'
  BY <1>1, <1>4
<1>6. \A a \in ArrayIds' : arrays'[a].length <= Len(arrays'[a].slots)
  <2>1. SUFFICES ASSUME NEW a \in 1 .. Len(arrays) + 1 PROVE arrays'[a].length <= Len(arrays'[a].slots)
    BY <1>3
  <2>2. CASE a <= Len(arrays)
    BY <2>2, <1>1, <1>2
  <2>3. CASE ~(a <= Len(arrays))
    BY <2>3, <1>2
  <2>4. QED
    BY <2>2, <2>3
<1>7. Len(arrays') <= MaxArrays
  BY <1>1, <1>2, CollectionsAssumption DEF CollectionsAssumption
<1>8. TypeOK'
  BY <1>1, <1>2, <1>3, <1>6, <1>7, SameProgram DEF TypeOK, Kinds
<1>9. References'
  BY <1>1, <1>3, <1>5, SameProgram DEF References, Shaped
<1>10. ASSUME NEW i \in DOMAIN stack, stack[i].kind = "for"
       PROVE  stack[i].length <= IF stack[i].array = 0 THEN Len(stack[i].slots) ELSE Len(arrays'[stack[i].array].slots)
  <2>1. stack[i].length <= IF stack[i].array = 0 THEN Len(stack[i].slots) ELSE Len(arrays[stack[i].array].slots)
    BY <1>10, AllSafe DEF Safe
  <2>2. stack[i].array \in ArrayIds \cup {0}
    BY AllSafe DEF Safe
  <2>3. stack[i].array # 0 => arrays'[stack[i].array] = arrays[stack[i].array]
    BY <2>2, <1>2, <1>3
  <2>4. QED
    BY <2>1, <2>3
<1>11. QED
  BY <1>8, <1>9, <1>10 DEF Shaped, LoopsStayInside

-----------------------------------------------------------------------------
(* Every operation keeps the shape.                                        *)

\* The slice of an array, and the array of an operand.
LEMMA SlicesFit ==
  ASSUME Shaped, NEW a \in ArrayIds
  PROVE  /\ Fits(Slice(arrays[a]), Len(arrays[a].slots)) /\ Content(Slice(arrays[a])) = Content(arrays[a])
         /\ Slice(arrays[a]).length = arrays[a].length /\ Slice(arrays[a]).slots = arrays[a].slots
         /\ Content(arrays[a]) \in Seq(Cells) /\ Len(Content(arrays[a])) = arrays[a].length
         /\ \A i \in 1 .. arrays[a].length : Content(arrays[a])[i] = arrays[a].slots[i] /\ arrays[a].slots[i] \in Cells
<1>1. PICK b : b = arrays[a]
  OBVIOUS
<1>2. program \in Programs /\ b.slots \in Slots /\ b.length \in Nat /\ b.length <= Len(b.slots)
  BY <1>1, ShapeFacts
<1>3. /\ Fits(Slice(b), Len(b.slots)) /\ Content(Slice(b)) = Content(b)
      /\ Slice(b).length = b.length /\ Slice(b).slots = b.slots
  BY <1>2, SliceFacts
<1>4. /\ Content(b) \in Seq(Cells) /\ Len(Content(b)) = b.length
      /\ \A i \in 1 .. b.length : Content(b)[i] = b.slots[i] /\ b.slots[i] \in Cells
  BY <1>2, ContentFacts
<1>5. QED
  BY <1>1, <1>3, <1>4

LEMMA OperandFacts ==
  ASSUME Shaped, NEW c \in Operands
  PROVE  /\ ArrayOf(c) \in ArrayIds /\ BoundOf(c) \in Limits /\ Target(c) = arrays[ArrayOf(c)]
         /\ \/ c.kind = "array" /\ c.id \in Held /\ c = Plain(c.id) /\ ArrayOf(c) = c.id /\ BoundOf(c) = Unbounded
            \/ c.kind = "handle" /\ c.id \in DOMAIN handles /\ ArrayOf(c) = handles[c.id].field
               /\ BoundOf(c) = handles[c.id].max
<1>1. \/ \E a \in Held : c = Plain(a)
      \/ \E h \in DOMAIN handles : c = Handle(h)
  BY DEF Operands
<1>2. CASE \E a \in Held : c = Plain(a)
  <2>1. PICK a \in Held : c = Plain(a)
    BY <1>2
  <2>2. c.kind = "array" /\ c.id = a /\ a \in ArrayIds
    BY <2>1 DEF Plain, Held
  <2>3. QED
    BY <2>1, <2>2 DEF ArrayOf, BoundOf, Target, Limits
<1>3. CASE \E h \in DOMAIN handles : c = Handle(h)
  <2>1. PICK h \in DOMAIN handles : c = Handle(h)
    BY <1>3
  <2>2. c.kind = "handle" /\ c.id = h
    BY <2>1 DEF Handle
  <2>3. handles[h].field \in ArrayIds /\ handles[h].max \in Limits
    BY ShapeFacts
  <2>4. QED
    BY <2>1, <2>2, <2>3 DEF ArrayOf, BoundOf, Target
<1>4. QED
  BY <1>1, <1>2, <1>3

LEMMA SomeAnswers ==
  ASSUME program \in Programs
  PROVE  /\ Null \in Answers /\ \A v \in Cells : Given(v) \in Answers
         /\ Raised("IndexError") \in Answers /\ Raised("ValueError") \in Answers /\ Raised("AttributeError") \in Answers
BY DEF Answers, Cells

\* An error leaves everything as it was.
LEMMA FailKeepsShape ==
  ASSUME Shaped, NEW e \in {"IndexError", "ValueError", "AttributeError"}, Fail(e)
  PROVE  Shaped'
<1>1. program \in Programs /\ crashed \in BOOLEAN
  BY ShapeFacts
<1>2. answer' \in Answers
  BY <1>1, SomeAnswers DEF Fail, Answer
<1>3. QED
  BY <1>1, <1>2, Answered DEF Fail, Answer

\* Methods keep the shape.
LEMMA MethodsKeepShape ==
  ASSUME Shaped, Methods
  PROVE  Shaped'
<1>1. program \in Programs /\ Values \subseteq Cells /\ Null \in Answers
  BY ShapeFacts, ProgramFacts, SomeAnswers
<1>2. PICK h \in DOMAIN handles :
        \/ \E value \in Values : DequeAppend(h, value) \/ DequeAppendLeft(h, value) \/ Push(h, value)
        \/ Pop(h)
  BY DEF Methods
<1>3. handles[h].captured \in ArrayIds \cup {0} /\ handles[h].max \in Limits
  BY ShapeFacts
<1>4. handles[h].captured # 0
  BY <1>2 DEF DequeAppend, DequeAppendLeft, Push, Pop, Method
<1>5. PICK a \in ArrayIds : a = handles[h].captured
  BY <1>3, <1>4
<1>6. PICK s : s = Captured(h)
  OBVIOUS
<1>7. s = Slice(arrays[a]) /\ Fits(s, Len(arrays[a].slots))
  BY <1>5, <1>6, SlicesFit DEF Captured
<1>8. ASSUME NEW value \in Values, DequeAppend(h, value) PROVE Shaped'
  <2>1. \A t \in AppendDeque(s, value, handles[h].max) : Fits(t, Len(arrays[a].slots))
    BY <1>1, <1>3, <1>7, AppendDequeFacts
  <2>2. Store(a, AppendDeque(s, value, handles[h].max)) /\ answer' = Null /\ UNCHANGED <<crashed, program>>
    BY <1>5, <1>6, <1>8 DEF DequeAppend, Run, Answer
  <2>3. QED
    BY <2>1, <2>2, <1>1, Stored
<1>9. ASSUME NEW value \in Values, DequeAppendLeft(h, value) PROVE Shaped'
  <2>1. \A t \in AppendLeftDeque(s, value, handles[h].max) : Fits(t, Len(arrays[a].slots))
    BY <1>1, <1>3, <1>7, AppendLeftDequeFacts
  <2>2. Store(a, AppendLeftDeque(s, value, handles[h].max)) /\ answer' = Null /\ UNCHANGED <<crashed, program>>
    BY <1>5, <1>6, <1>9 DEF DequeAppendLeft, Run, Answer
  <2>3. QED
    BY <2>1, <2>2, <1>1, Stored
<1>10. ASSUME NEW value \in Values, Push(h, value) PROVE Shaped'
  <2>1. <<value>> \in Seq(Cells)
    BY <1>1
  <2>2. \A t \in Appended(s, <<value>>) : Fits(t, Len(arrays[a].slots))
    BY <2>1, <1>1, <1>7, AppendedFacts
  <2>3. Store(a, Appended(s, <<value>>)) /\ answer' = Null /\ UNCHANGED <<crashed, program>>
    BY <1>5, <1>6, <1>10 DEF Push, Run, Answer
  <2>4. QED
    BY <2>2, <2>3, <1>1, Stored
<1>11. ASSUME Pop(h) PROVE Shaped'
  <2>1. CASE s.length = 0
    <3>1. Fail("IndexError")
      BY <2>1, <1>6, <1>11 DEF Pop
    <3>2. QED
      BY <3>1, FailKeepsShape
  <2>2. CASE s.length # 0
    <3>1. Store(a, {Shortened(s)}) /\ answer' = Given(s.slots[s.length]) /\ UNCHANGED <<crashed, program>>
      BY <2>2, <1>5, <1>6, <1>11 DEF Pop, Run, Answer
    <3>2. s.length > 0
      BY <2>2, <1>1, <1>7, FitsFacts
    <3>3. Fits(Shortened(s), Len(arrays[a].slots)) /\ s.slots[s.length] \in Cells
      BY <3>2, <1>1, <1>7, PopFacts
    <3>4. answer' \in Answers /\ \A t \in {Shortened(s)} : Fits(t, Len(arrays[a].slots))
      BY <3>1, <3>3, <1>1, SomeAnswers
    <3>5. QED
      BY <3>1, <3>4, Stored
  <2>3. QED
    BY <2>1, <2>2
<1>12. QED
  BY <1>2, <1>8, <1>9, <1>10, <1>11

\* An operand's slice, and what Do does with it.
LEMMA DoKeepsShape ==
  ASSUME Shaped, NEW c \in Operands, NEW outcomes, NEW result \in Answers, Do(c, outcomes, result),
         \A t \in outcomes : Fits(t, Len(arrays[ArrayOf(c)].slots))
  PROVE  Shaped'
<1>1. ArrayOf(c) \in ArrayIds
  BY OperandFacts
<1>2. Store(ArrayOf(c), outcomes) /\ answer' \in Answers /\ UNCHANGED <<crashed, program>>
  BY DEF Do, Answer
<1>3. QED
  BY <1>1, <1>2, Stored

LEMMA OperandSlice ==
  ASSUME Shaped, NEW c \in Operands
  PROVE  /\ Fits(Slice(Target(c)), Len(arrays[ArrayOf(c)].slots))
         /\ Content(Target(c)) \in Seq(Cells) /\ Content(Slice(Target(c))) = Content(Target(c))
         /\ Content(Target(c)) = Content(arrays[ArrayOf(c)]) /\ Slice(Target(c)).length = arrays[ArrayOf(c)].length
<1>1. PICK a \in ArrayIds : a = ArrayOf(c) /\ Target(c) = arrays[a]
  BY OperandFacts
<1>2. QED
  BY <1>1, SlicesFit

\* So do the functions of the module, one by one.
LEMMA ClearKeepsShape ==
  ASSUME Shaped, NEW c \in Operands, Clear(c)
  PROVE  Shaped'
<1>1. program \in Programs /\ Null \in Answers
  BY ShapeFacts, SomeAnswers
<1>2. PICK s : s = Slice(Target(c)) /\ Fits(s, Len(arrays[ArrayOf(c)].slots))
  BY OperandSlice
<1>3. PICK t : t = Moved([s EXCEPT !.slots =
                            [i \in DOMAIN s.slots |-> IF i <= s.length THEN Nil ELSE s.slots[i]]], <<>>, 0)
  OBVIOUS
<1>4. Do(c, {t}, Null)
  BY <1>2, <1>3 DEF Clear
<1>5. Fits(t, Len(arrays[ArrayOf(c)].slots))
  BY <1>1, <1>2, <1>3, ClearedFacts
<1>6. QED
  BY <1>1, <1>4, <1>5, DoKeepsShape

LEMMA PopLeftKeepsShape ==
  ASSUME Shaped, NEW c \in Operands, PopLeft(c)
  PROVE  Shaped'
<1>1. program \in Programs
  BY ShapeFacts
<1>2. PICK s : s = Slice(Target(c)) /\ Fits(s, Len(arrays[ArrayOf(c)].slots))
  BY OperandSlice
<1>3. CASE s.length = 0
  <2>1. Fail("IndexError")
    BY <1>2, <1>3 DEF PopLeft
  <2>2. QED
    BY <2>1, FailKeepsShape
<1>4. CASE s.length # 0
  <2>1. PICK t : t = Shortened([s EXCEPT !.slots = ClosedUp(s, 1)])
    OBVIOUS
  <2>2. Do(c, {t}, Given(s.slots[1]))
    BY <1>2, <1>4, <2>1 DEF PopLeft
  <2>3. 1 \in 1 .. s.length
    BY <1>1, <1>2, <1>4, FitsFacts
  <2>4. Fits(t, Len(arrays[ArrayOf(c)].slots))
    BY <1>1, <1>2, <2>1, <2>3, TakenFacts
  <2>5. s.slots[1] \in Cells
    BY <1>1, <1>2, <2>3, FitsFacts
  <2>6. QED
    BY <1>1, <2>2, <2>4, <2>5, DoKeepsShape, SomeAnswers
<1>5. QED
  BY <1>3, <1>4

LEMMA ReverseKeepsShape ==
  ASSUME Shaped, NEW c \in Operands, ReverseInPlace(c)
  PROVE  Shaped'
<1>1. program \in Programs /\ Null \in Answers
  BY ShapeFacts, SomeAnswers
<1>2. PICK s : s = Slice(Target(c)) /\ Fits(s, Len(arrays[ArrayOf(c)].slots))
  BY OperandSlice
<1>3. PICK t : t = [s EXCEPT !.slots =
                      [i \in DOMAIN s.slots |-> IF i <= s.length THEN s.slots[s.length + 1 - i] ELSE s.slots[i]]]
  OBVIOUS
<1>4. Do(c, {t}, Null)
  BY <1>2, <1>3 DEF ReverseInPlace
<1>5. Fits(t, Len(arrays[ArrayOf(c)].slots))
  BY <1>1, <1>2, <1>3, ReversedFacts
<1>6. QED
  BY <1>1, <1>4, <1>5, DoKeepsShape

\* The outcomes of adding a sequence at either end.
LEMMA JoinedFacts ==
  ASSUME program \in Programs, NEW n, NEW s, Fits(s, n), NEW q \in Seq(Cells),
         NEW t, t \in {u \in {Moved(s, q, Len(q))} : Len(q) <= MaxCapacity}
  PROVE  Fits(t, n) /\ t.length = Len(q) /\ Content(t) = q
<1>1. t = Moved(s, q, Len(q)) /\ Len(q) <= MaxCapacity
  OBVIOUS
<1>2. q \in Slots
  BY <1>1, CellsSlots
<1>3. Fits(t, n) /\ t.slots = q /\ t.length = Len(q)
  BY <1>1, <1>2, MovedFits
<1>4. t.slots \in Slots /\ t.length \in Nat /\ t.length <= Len(t.slots)
  BY <1>3, FitsFacts
<1>5. \A i \in 1 .. t.length : t.slots[i] = q[i]
  BY <1>3
<1>6. Content(t) = q
  BY <1>3, <1>4, <1>5, ContentIs
<1>7. QED
  BY <1>3, <1>6

LEMMA ExtendKeepsShape ==
  ASSUME Shaped, NEW c \in Operands, NEW d \in Operands, Extend(c, d)
  PROVE  Shaped'
<1>1. program \in Programs /\ Null \in Answers /\ BoundOf(c) \in Limits
  BY ShapeFacts, SomeAnswers, OperandFacts
<1>2. PICK s : s = Slice(Target(c)) /\ Fits(s, Len(arrays[ArrayOf(c)].slots))
  BY OperandSlice
<1>3. PICK q \in Seq(Cells) : q = Content(Target(d))
  BY OperandSlice
<1>4. PICK outcomes : outcomes = IF BoundOf(c) # Unbounded THEN OneByOne("right", s, q, BoundOf(c)) ELSE Appended(s, q)
  OBVIOUS
<1>5. Do(c, outcomes, Null)
  BY <1>2, <1>3, <1>4 DEF Extend
<1>6. ASSUME NEW t \in outcomes PROVE Fits(t, Len(arrays[ArrayOf(c)].slots))
  <2>1. CASE BoundOf(c) # Unbounded
    <3>1. t \in OneByOne("right", s, q, BoundOf(c))
      BY <2>1, <1>4
    <3>2. QED
      BY <3>1, <1>1, <1>2, OneByOneFacts
  <2>2. CASE BoundOf(c) = Unbounded
    <3>1. t \in Appended(s, q)
      BY <2>2, <1>4
    <3>2. QED
      BY <3>1, <1>1, <1>2, AppendedFacts
  <2>3. QED
    BY <2>1, <2>2
<1>7. QED
  BY <1>1, <1>5, <1>6, DoKeepsShape

LEMMA ExtendLeftKeepsShape ==
  ASSUME Shaped, NEW c \in Operands, NEW d \in Operands, ExtendLeft(c, d)
  PROVE  Shaped'
<1>1. program \in Programs /\ Null \in Answers /\ BoundOf(c) \in Limits
  BY ShapeFacts, SomeAnswers, OperandFacts
<1>2. PICK s : s = Slice(Target(c)) /\ Fits(s, Len(arrays[ArrayOf(c)].slots)) /\ Content(s) \in Seq(Cells)
  BY OperandSlice
<1>3. PICK added \in Seq(Cells) : added = Content(Target(d))
  BY OperandSlice
<1>4. PICK q \in Seq(Cells) : q = Reverse(added) \o Content(s)
  <2>1. Reverse(added) \in Seq(Cells)
    BY ReverseFacts
  <2>2. QED
    BY <2>1, <1>2, ConcatProperties
<1>5. PICK outcomes : outcomes = IF BoundOf(c) # Unbounded THEN OneByOne("left", s, added, BoundOf(c))
                                 ELSE {t \in {Moved(s, q, Len(q))} : Len(q) <= MaxCapacity}
  OBVIOUS
<1>6. Do(c, outcomes, Null)
  BY <1>2, <1>3, <1>4, <1>5 DEF ExtendLeft
<1>7. ASSUME NEW t \in outcomes PROVE Fits(t, Len(arrays[ArrayOf(c)].slots))
  <2>1. CASE BoundOf(c) # Unbounded
    <3>1. t \in OneByOne("left", s, added, BoundOf(c))
      BY <2>1, <1>5
    <3>2. QED
      BY <3>1, <1>1, <1>2, OneByOneFacts
  <2>2. CASE BoundOf(c) = Unbounded
    <3>1. t \in {u \in {Moved(s, q, Len(q))} : Len(q) <= MaxCapacity}
      BY <2>2, <1>5
    <3>2. QED
      BY <3>1, <1>1, <1>2, JoinedFacts
  <2>3. QED
    BY <2>1, <2>2
<1>8. QED
  BY <1>1, <1>6, <1>7, DoKeepsShape

\* Min(found) is the first index of an element.
LEMMA FirstFound ==
  ASSUME NEW n \in Nat, NEW found \in SUBSET (1 .. n), found # {}
  PROVE  Min(found) \in found /\ \A j \in found : Min(found) <= j
<1>1. found \in SUBSET Nat
  OBVIOUS
<1>2. \E i \in found : \A j \in found : i <= j
  BY <1>1, LeastOf
<1>3. QED
  BY <1>2 DEF Min

LEMMA RemoveKeepsShape ==
  ASSUME Shaped, NEW c \in Operands, NEW value \in Values, RemoveElement(c, value)
  PROVE  Shaped'
<1>1. program \in Programs /\ Null \in Answers
  BY ShapeFacts, SomeAnswers
<1>2. PICK s : s = Slice(Target(c)) /\ Fits(s, Len(arrays[ArrayOf(c)].slots))
  BY OperandSlice
<1>3. PICK found : found = {i \in 1 .. s.length : Equal(s.slots[i], value)}
  OBVIOUS
<1>4. CASE found = {}
  <2>1. Fail("ValueError")
    BY <1>2, <1>3, <1>4 DEF RemoveElement
  <2>2. QED
    BY <2>1, FailKeepsShape
<1>5. CASE found # {}
  <2>1. s.length \in Nat
    BY <1>1, <1>2, FitsFacts
  <2>2. found \in SUBSET (1 .. s.length)
    BY <1>3
  <2>3. PICK i \in 1 .. s.length : i = Min(found)
    BY <2>1, <2>2, <1>5, FirstFound
  <2>4. PICK t : t = Shortened([s EXCEPT !.slots = ClosedUp(s, i)])
    OBVIOUS
  <2>5. Do(c, {t}, Null)
    BY <1>2, <1>3, <1>5, <2>3, <2>4 DEF RemoveElement
  <2>6. Fits(t, Len(arrays[ArrayOf(c)].slots))
    BY <1>1, <1>2, <2>4, TakenFacts
  <2>7. QED
    BY <1>1, <2>5, <2>6, DoKeepsShape
<1>6. QED
  BY <1>4, <1>5

\* normalizedInsertIndex stays inside the sequence.
LEMMA PositionFacts ==
  ASSUME NEW length \in Nat, NEW index \in Int
  PROVE  InsertPosition(index, length) \in 0 .. length
BY DEF InsertPosition

LEMMA InsertKeepsShape ==
  ASSUME Shaped, NEW c \in Operands, NEW index \in Offsets, NEW value \in Values, Insert(c, index, value)
  PROVE  Shaped'
<1>1. program \in Programs /\ Null \in Answers /\ index \in Int /\ value \in Cells
  BY ShapeFacts, SomeAnswers, ProgramFacts
<1>2. PICK s : s = Slice(Target(c)) /\ Fits(s, Len(arrays[ArrayOf(c)].slots))
  BY OperandSlice
<1>3. CASE BoundOf(c) # Unbounded /\ s.length >= BoundOf(c)
  <2>1. Fail("IndexError")
    BY <1>2, <1>3 DEF Insert
  <2>2. QED
    BY <2>1, FailKeepsShape
<1>4. CASE ~(BoundOf(c) # Unbounded /\ s.length >= BoundOf(c))
  <2>1. s.length \in Nat
    BY <1>1, <1>2, FitsFacts
  <2>2. InsertPosition(index, s.length) \in 0 .. s.length
    BY <2>1, <1>1, PositionFacts
  <2>3. PICK i \in 1 .. s.length + 1 : i = InsertPosition(index, s.length) + 1
    <3>1. InsertPosition(index, s.length) + 1 \in 1 .. s.length + 1
      BY <2>1, <2>2
    <3>2. QED
      BY <3>1
  <2>4. PICK outcomes : outcomes = {[t EXCEPT !.slots = [OpenedUp(t, i) EXCEPT ![i] = value]] :
                                      t \in Appended(s, <<Nil>>)}
    OBVIOUS
  <2>5. Do(c, outcomes, Null)
    BY <1>2, <1>4, <2>3, <2>4 DEF Insert
  <2>6. ASSUME NEW t \in outcomes PROVE Fits(t, Len(arrays[ArrayOf(c)].slots))
    <3>1. PICK u \in Appended(s, <<Nil>>) : t = [u EXCEPT !.slots = [OpenedUp(u, i) EXCEPT ![i] = value]]
      BY <2>4
    <3>2. QED
      BY <3>1, <1>1, <1>2, InsertedFacts
  <2>7. QED
    BY <1>1, <2>5, <2>6, DoKeepsShape
<1>5. QED
  BY <1>3, <1>4

LEMMA RotateKeepsShape ==
  ASSUME Shaped, NEW c \in Operands, NEW amount \in Offsets, Rotate(c, amount)
  PROVE  Shaped'
<1>1. program \in Programs /\ Null \in Answers /\ amount \in Int
  BY ShapeFacts, SomeAnswers, ProgramFacts
<1>2. PICK s : s = Slice(Target(c)) /\ Fits(s, Len(arrays[ArrayOf(c)].slots))
  BY OperandSlice
<1>3. PICK length \in Nat : length = s.length
  BY <1>1, <1>2, FitsFacts
<1>4. CASE length = 0 \/ Shift(amount, length) = 0
  <2>1. Do(c, {s}, Null)
    BY <1>2, <1>3, <1>4 DEF Rotate
  <2>2. QED
    BY <2>1, <1>1, <1>2, DoKeepsShape
<1>5. CASE ~(length = 0 \/ Shift(amount, length) = 0)
  <2>1. Shift(amount, length) = amount % length /\ amount % length \in 0 .. length - 1
    BY <1>1, <1>5, ShiftFacts
  <2>2. PICK shift \in 1 .. s.length - 1 : shift = amount % s.length /\ shift = Shift(amount, s.length)
    <3>1. amount % length \in 1 .. length - 1
      BY <2>1, <1>5
    <3>2. QED
      BY <3>1, <2>1, <1>3
  <2>3. PICK rest \in Nat : rest = s.length - shift
    <3>1. s.length - shift \in Nat
      BY <1>3
    <3>2. QED
      BY <3>1
  <2>4. PICK t : t = Moved(s, SubSeq(s.slots, rest + 1, s.length) \o SubSeq(s.slots, 1, rest), s.length)
    OBVIOUS
  <2>5. Do(c, {t}, Null)
    BY <1>2, <1>3, <1>5, <2>2, <2>3, <2>4 DEF Rotate
  <2>6. Fits(t, Len(arrays[ArrayOf(c)].slots))
    BY <1>1, <1>2, <1>3, <1>5, <2>2, <2>3, <2>4, RotatedFacts
  <2>7. QED
    BY <1>1, <2>5, <2>6, DoKeepsShape
<1>6. QED
  BY <1>4, <1>5

\* Every function keeps the shape.
LEMMA FunctionsKeepShape ==
  ASSUME Shaped, Functions
  PROVE  Shaped'
<1>1. PICK c \in Operands :
        \/ Clear(c) \/ PopLeft(c) \/ ReverseInPlace(c)
        \/ \E d \in Operands : Extend(c, d) \/ ExtendLeft(c, d)
        \/ \E value \in Values : RemoveElement(c, value)
        \/ \E i \in Offsets : Rotate(c, i) \/ \E value \in Values : Insert(c, i, value)
  BY DEF Functions
<1>2. CASE Clear(c) \/ PopLeft(c) \/ ReverseInPlace(c)
  BY <1>2, ClearKeepsShape, PopLeftKeepsShape, ReverseKeepsShape
<1>3. CASE \E d \in Operands : Extend(c, d) \/ ExtendLeft(c, d)
  BY <1>3, ExtendKeepsShape, ExtendLeftKeepsShape
<1>4. CASE \E value \in Values : RemoveElement(c, value)
  BY <1>4, RemoveKeepsShape
<1>5. CASE \E i \in Offsets : Rotate(c, i) \/ \E value \in Values : Insert(c, i, value)
  BY <1>5, RotateKeepsShape, InsertKeepsShape
<1>6. QED
  BY <1>1, <1>2, <1>3, <1>4, <1>5

\* The innermost loop or index assignment, and the rest.
LEMMA TopFacts ==
  ASSUME Shaped, stack # <<>>
  PROVE  /\ Top \in Item /\ Safe(Top)
         /\ Under \in Seq(Item) /\ Len(Under) \in Nat /\ Len(stack) = Len(Under) + 1
         /\ \A i \in DOMAIN Under : Safe(Under[i])
<1>1. /\ stack \in Seq(Item) /\ Len(stack) \in Nat /\ DOMAIN stack = 1 .. Len(stack)
      /\ \A i \in DOMAIN stack : Safe(stack[i])
  BY ShapeFacts, AllSafe
<1>2. Len(stack) # 0
  BY <1>1, EmptySeq
<1>3. PICK n \in Nat : Len(stack) = n + 1
  <2>1. Len(stack) - 1 \in Nat /\ Len(stack) = (Len(stack) - 1) + 1
    BY <1>1, <1>2
  <2>2. QED
    BY <2>1
<1>4. PICK q \in Seq(Item) : q = stack
  BY <1>1
<1>5. /\ Last(q) = q[n + 1] /\ Last(q) \in Item /\ Front(q) \in Seq(Item) /\ Len(Front(q)) = n
      /\ \A k \in 1 .. n : Front(q)[k] = q[k]
  BY <1>3, <1>4, FrontFacts
<1>6. DOMAIN Front(q) = 1 .. n
  BY <1>5, LenProperties
<1>7. n + 1 \in DOMAIN stack /\ \A k \in 1 .. n : k \in DOMAIN stack
  BY <1>1, <1>3
<1>8. \A k \in 1 .. n : Safe(Front(q)[k])
  BY <1>1, <1>4, <1>5, <1>7
<1>9. Safe(Last(q))
  BY <1>1, <1>4, <1>5, <1>7
<1>10. QED
  BY <1>3, <1>4, <1>5, <1>6, <1>8, <1>9 DEF Top, Under

\* An item on top of others.
LEMMA Pushed ==
  ASSUME Shaped, NEW q \in Seq(Item), \A i \in DOMAIN q : Safe(q[i]), Len(q) < MaxNesting,
         NEW item \in Item, Safe(item), stack' = Append(q, item), UNCHANGED <<arrays, handles>>, Silent
  PROVE  Shaped'
<1>1. /\ arrays \in Seq([slots : Slots, length : 0 .. MaxCapacity])
      /\ program \in Programs /\ answer \in Answers /\ crashed \in BOOLEAN
  BY ShapeFacts
<1>2. /\ Append(q, item) \in Seq(Item) /\ Len(Append(q, item)) = Len(q) + 1
      /\ DOMAIN Append(q, item) = 1 .. Len(q) + 1
      /\ \A i \in 1 .. Len(q) + 1 : Append(q, item)[i] = IF i <= Len(q) THEN q[i] ELSE item
  BY AppendFacts
<1>3. DOMAIN q = 1 .. Len(q) /\ Len(q) \in Nat
  BY LenProperties
<1>4. \A i \in 1 .. Len(q) + 1 : Safe(Append(q, item)[i])
  <2>1. SUFFICES ASSUME NEW i \in 1 .. Len(q) + 1 PROVE Safe(Append(q, item)[i])
    OBVIOUS
  <2>2. CASE i <= Len(q)
    <3>1. i \in DOMAIN q
      BY <2>2, <1>3
    <3>2. Append(q, item)[i] = q[i]
      BY <2>2, <1>2
    <3>3. QED
      BY <3>1, <3>2
  <2>3. CASE ~(i <= Len(q))
    <3>1. Append(q, item)[i] = item
      BY <2>3, <1>2
    <3>2. QED
      BY <3>1
  <2>4. QED
    BY <2>2, <2>3
<1>5. Len(stack') <= MaxNesting
  BY <1>1, <1>2, <1>3, ProgramFacts
<1>6. stack' \in Seq(Item) /\ \A i \in DOMAIN stack' : Safe(stack'[i])
  BY <1>2, <1>4
<1>7. QED
  BY <1>1, <1>5, <1>6, Restacked DEF Silent

\* What is under the top alone.
LEMMA Popped ==
  ASSUME Shaped, stack # <<>>, stack' = Under, handles' = handles,
         arrays' \in Seq([slots : Slots, length : 0 .. MaxCapacity]), Len(arrays') = Len(arrays),
         \A b \in ArrayIds : Len(arrays'[b].slots) = Len(arrays[b].slots) /\ arrays'[b].length = arrays[b].length,
         answer' \in Answers, UNCHANGED <<crashed, program>>
  PROVE  Shaped'
<1>1. /\ Under \in Seq(Item) /\ Len(Under) \in Nat /\ Len(stack) = Len(Under) + 1
      /\ \A i \in DOMAIN Under : Safe(Under[i])
  BY TopFacts
<1>2. Len(stack) <= MaxNesting /\ program \in Programs /\ crashed \in BOOLEAN
  BY ShapeFacts
<1>3. Len(Under) <= MaxNesting
  BY <1>1, <1>2, ProgramFacts
<1>4. stack' \in Seq(Item) /\ Len(stack') <= MaxNesting /\ \A i \in DOMAIN stack' : Safe(stack'[i])
  BY <1>1, <1>3
<1>5. crashed' \in BOOLEAN /\ program' = program
  BY <1>2
<1>6. QED
  BY <1>4, <1>5, Restacked

\* Loops and index assignments keep the shape.
LEMMA EnterKeepsShape ==
  ASSUME Shaped, NEW item \in Item, Safe(item), Enter(item)
  PROVE  Shaped'
<1>1. stack \in Seq(Item) /\ \A i \in DOMAIN stack : Safe(stack[i])
  BY ShapeFacts, AllSafe
<1>2. QED
  BY <1>1, Pushed DEF Enter

LEMMA BeginForKeepsShape ==
  ASSUME Shaped, NEW a \in Held, BeginFor(a)
  PROVE  Shaped'
<1>1. /\ program \in Programs /\ a \in ArrayIds /\ ArrayIds = 1 .. Len(arrays) /\ Len(arrays) \in 0 .. MaxArrays
      /\ arrays[a] \in [slots : Slots, length : 0 .. MaxCapacity] /\ arrays[a].length <= Len(arrays[a].slots)
  BY ShapeFacts DEF Held
<1>2. PICK item : item = Loop(a)
  OBVIOUS
<1>3. a \in 0 .. MaxArrays /\ a # 0
  BY <1>1, CollectionsAssumption DEF CollectionsAssumption
<1>4. 0 \in 0 .. MaxCapacity
  BY <1>1, ProgramFacts
<1>5. item \in Item
  BY <1>1, <1>2, <1>3, <1>4, NoSlots DEF Item, Loop, Nothing
<1>6. Safe(item)
  BY <1>1, <1>2, <1>3 DEF Safe, Loop
<1>7. QED
  BY <1>2, <1>5, <1>6, EnterKeepsShape DEF BeginFor

LEMMA NextElementKeepsShape ==
  ASSUME Shaped, NextElement
  PROVE  Shaped'
<1>1. stack # <<>> /\ Top.kind = "for" /\ Top.position < Top.length
  BY DEF NextElement, InLoop
<1>2. /\ Top \in Item /\ Safe(Top) /\ Under \in Seq(Item) /\ Len(Under) \in Nat /\ Len(stack) = Len(Under) + 1
      /\ \A i \in DOMAIN Under : Safe(Under[i])
  BY <1>1, TopFacts
<1>3. /\ program \in Programs /\ Len(stack) <= MaxNesting
      /\ \A a \in ArrayIds : arrays[a].slots \in Slots
  BY ShapeFacts
<1>4. PICK top \in Item : top = Top
  BY <1>2
<1>5. top.length \in 0 .. MaxCapacity /\ top.length \in Nat /\ top.position \in Nat /\ top.slots \in Slots
  BY <1>3, ItemFacts
<1>6. PICK slots : slots = IF top.array = 0 THEN top.slots ELSE arrays[top.array].slots
  OBVIOUS
<1>7. slots \in Slots /\ top.length <= Len(slots)
  BY <1>1, <1>2, <1>3, <1>4, <1>5, <1>6 DEF Safe
<1>8. PICK at \in 1 .. Len(slots) : at = top.position + 1 /\ at \in 0 .. MaxCapacity
  <2>1. Len(slots) \in Nat /\ Len(slots) <= MaxCapacity /\ MaxCapacity \in Nat
    BY <1>3, <1>7, SlotsFacts, ProgramFacts
  <2>2. top.position + 1 \in 1 .. Len(slots) /\ top.position + 1 \in 0 .. MaxCapacity
    BY <2>1, <1>1, <1>4, <1>5, <1>7
  <2>3. QED
    BY <2>2
<1>9. slots[at] \in Values \cup {Nil}
  BY <1>3, <1>7, SlotsFacts DEF Cells
<1>10. PICK item : item = [top EXCEPT !.position = at, !.value = slots[at]]
  OBVIOUS
<1>11. item \in Item
  BY <1>8, <1>9, <1>10 DEF Item
<1>12. Safe(item)
  <2>1. /\ item.kind = top.kind /\ item.length = top.length /\ item.array = top.array /\ item.slots = top.slots
        /\ item.on = top.on /\ item.index = top.index
    BY <1>10 DEF Item
  <2>2. QED
    BY <2>1, <1>2, <1>4 DEF Safe
<1>13. stack' = Append(Under, item) /\ UNCHANGED <<arrays, handles>> /\ Silent
  BY <1>4, <1>6, <1>8, <1>10 DEF NextElement
<1>14. Len(Under) < MaxNesting
  BY <1>2, <1>3, ProgramFacts
<1>15. QED
  BY <1>2, <1>11, <1>12, <1>13, <1>14, Pushed

LEMMA BeginAssignKeepsShape ==
  ASSUME Shaped, NEW c \in Operands, NEW index \in Offsets, BeginIndexAssign(c, index)
  PROVE  Shaped'
<1>1. CASE Fail("IndexError")
  BY <1>1, FailKeepsShape
<1>2. CASE Enter(Waiting(c, index))
  <2>1. PICK item : item = Waiting(c, index)
    OBVIOUS
  <2>2. program \in Programs /\ ArrayIds = 1 .. Len(arrays) /\ Len(arrays) \in Nat
        /\ DOMAIN handles = 1 .. Len(handles) /\ Len(handles) \in Nat
    BY ShapeFacts
  <2>3. \/ c = [kind |-> "array", id |-> c.id] /\ c.id \in ArrayIds
        \/ c = [kind |-> "handle", id |-> c.id] /\ c.id \in DOMAIN handles
    BY DEF Operands, Plain, Handle, Held
  <2>4. c \in [kind : {"none", "array", "handle"}, id : Nat]
    <3>1. c.id \in Nat
      BY <2>2, <2>3
    <3>2. QED
      BY <2>3, <3>1
  <2>5. 0 \in 0 .. MaxArrays /\ 0 \in 0 .. MaxCapacity
    BY <2>2, ProgramFacts, CollectionsAssumption DEF CollectionsAssumption
  <2>6. item \in Item
    BY <2>1, <2>2, <2>4, <2>5, NoSlots DEF Item, Waiting
  <2>7. Safe(item)
    <3>1. item.kind = "assign" /\ item.array = 0 /\ item.on = c /\ item.index = index
      BY <2>1 DEF Waiting
    <3>2. (c.kind = "array" /\ c.id \in ArrayIds) \/ (c.kind = "handle" /\ c.id \in DOMAIN handles)
      BY <2>3
    <3>3. QED
      BY <3>1, <3>2 DEF Safe
  <2>8. QED
    BY <1>2, <2>1, <2>6, <2>7, EnterKeepsShape
<1>3. QED
  BY <1>1, <1>2 DEF BeginIndexAssign

\* A cell of an array is written.
LEMMA PutFacts ==
  ASSUME Shaped, NEW a \in ArrayIds, NEW i \in 1 .. arrays[a].length, NEW value \in Cells,
         arrays' = [arrays EXCEPT ![a].slots[i] = value]
  PROVE  /\ arrays' \in Seq([slots : Slots, length : 0 .. MaxCapacity]) /\ Len(arrays') = Len(arrays)
         /\ DOMAIN arrays' = ArrayIds
         /\ \A b \in ArrayIds :
                /\ arrays'[b].length = arrays[b].length /\ Len(arrays'[b].slots) = Len(arrays[b].slots)
                /\ arrays'[b].slots = IF b = a THEN [arrays[a].slots EXCEPT ![i] = value] ELSE arrays[b].slots
                /\ b # a => arrays'[b] = arrays[b]
<1>1. /\ arrays \in Seq([slots : Slots, length : 0 .. MaxCapacity]) /\ ArrayIds = 1 .. Len(arrays)
      /\ program \in Programs
      /\ arrays[a] \in [slots : Slots, length : 0 .. MaxCapacity] /\ arrays[a].slots \in Slots
      /\ arrays[a].length \in Nat /\ arrays[a].length <= Len(arrays[a].slots)
  BY ShapeFacts
<1>2. PICK old \in [slots : Slots, length : 0 .. MaxCapacity] : old = arrays[a]
  BY <1>1
<1>3. Len(old.slots) \in Nat /\ i \in 1 .. Len(old.slots)
  <2>1. Len(old.slots) \in Nat
    BY <1>1, <1>2, SlotsFacts
  <2>2. QED
    BY <2>1, <1>1, <1>2
<1>4. PICK slots \in Slots : slots = [old.slots EXCEPT ![i] = value] /\ Len(slots) = Len(old.slots)
  <2>1. [old.slots EXCEPT ![i] = value] \in Slots /\ Len([old.slots EXCEPT ![i] = value]) = Len(old.slots)
    BY <1>1, <1>2, <1>3, WriteFacts
  <2>2. QED
    BY <2>1
<1>5. PICK e \in [slots : Slots, length : 0 .. MaxCapacity] : e = [slots |-> slots, length |-> old.length]
  BY <1>2
<1>6. arrays' = [arrays EXCEPT ![a] = e]
  <2>1. [old EXCEPT !.slots = slots] = e
    BY <1>5
  <2>2. arrays' = [arrays EXCEPT ![a] = [old EXCEPT !.slots = slots]]
    BY <1>2, <1>4
  <2>3. QED
    BY <2>1, <2>2
<1>7. /\ arrays' \in Seq([slots : Slots, length : 0 .. MaxCapacity]) /\ Len(arrays') = Len(arrays)
      /\ \A b \in 1 .. Len(arrays) : arrays'[b] = IF b = a THEN e ELSE arrays[b]
  <2> DEFINE Record == [slots : Slots, length : 0 .. MaxCapacity]
  <2>1. arrays \in Seq(Record) /\ e \in Record /\ a \in 1 .. Len(arrays)
    BY <1>1
  <2> HIDE DEF Record
  <2>2. /\ [arrays EXCEPT ![a] = e] \in Seq(Record) /\ Len([arrays EXCEPT ![a] = e]) = Len(arrays)
        /\ \A b \in 1 .. Len(arrays) : [arrays EXCEPT ![a] = e][b] = IF b = a THEN e ELSE arrays[b]
    BY ONLY <2>1, ExceptSeq
  <2>3. QED
    BY <2>2, <1>6 DEF Record
<1>8. DOMAIN arrays' = ArrayIds
  BY <1>6 DEF ArrayIds
<1>9. ASSUME NEW b \in ArrayIds
      PROVE  /\ arrays'[b].length = arrays[b].length /\ Len(arrays'[b].slots) = Len(arrays[b].slots)
             /\ arrays'[b].slots = IF b = a THEN [arrays[a].slots EXCEPT ![i] = value] ELSE arrays[b].slots
             /\ b # a => arrays'[b] = arrays[b]
  <2>1. CASE b = a
    BY <2>1, <1>1, <1>2, <1>4, <1>5, <1>7
  <2>2. CASE b # a
    BY <2>2, <1>1, <1>7
  <2>3. QED
    BY <2>1, <2>2
<1>10. QED
  BY <1>7, <1>8, <1>9

\* What an index assignment is on, once its value is there.
LEMMA AssignedFacts ==
  ASSUME Shaped, Assigning
  PROVE  /\ stack # <<>> /\ Top.index \in Offsets
         /\ \/ Top.on.kind = "array" /\ Top.on.id \in ArrayIds
            \/ Top.on.kind = "handle" /\ Top.on.id \in DOMAIN handles
         /\ (IF Top.on.kind = "array" THEN Top.on.id ELSE handles[Top.on.id].captured) \in ArrayIds \cup {0}
<1>1. stack # <<>> /\ Top.kind = "assign"
  BY DEF Assigning
<1>2. Safe(Top)
  BY <1>1, TopFacts
<1>3. \A h \in DOMAIN handles : handles[h].captured \in ArrayIds \cup {0}
  BY ShapeFacts
<1>4. QED
  BY <1>1, <1>2, <1>3 DEF Safe

LEMMA EndAssignKeepsShape ==
  ASSUME Shaped, NEW value \in Values, EndIndexAssign(value)
  PROVE  Shaped'
<1>1. /\ program \in Programs /\ Null \in Answers /\ value \in Cells /\ crashed \in BOOLEAN /\ answer \in Answers
      /\ Raised("IndexError") \in Answers /\ Raised("AttributeError") \in Answers
      /\ Offsets \subseteq Int
      /\ arrays \in Seq([slots : Slots, length : 0 .. MaxCapacity])
  BY ShapeFacts, ProgramFacts, SomeAnswers
<1>2. PICK a \in ArrayIds \cup {0} : a = IF Top.on.kind = "array" THEN Top.on.id ELSE handles[Top.on.id].captured
  BY AssignedFacts DEF EndIndexAssign
<1>3. stack # <<>> /\ Top.index \in Offsets
  BY AssignedFacts DEF EndIndexAssign
<1>4. \/ a # 0 /\ Top.index \in 0 .. arrays[a].length - 1 /\ Put(a, Top.index, value)
      \/ Crash
      \/ Refused("AttributeError")
      \/ Refused("IndexError")
  BY <1>2 DEF EndIndexAssign
<1>5. CASE a # 0 /\ Top.index \in 0 .. arrays[a].length - 1 /\ Put(a, Top.index, value)
  <2>1. arrays[a].length \in Nat /\ a \in ArrayIds
    BY <1>2, <1>5, ShapeFacts
  <2>2. PICK i \in 1 .. arrays[a].length : i = Top.index + 1
    <3>1. Top.index + 1 \in 1 .. arrays[a].length
      BY <2>1, <1>5
    <3>2. QED
      BY <3>1
  <2>3. arrays' = [arrays EXCEPT ![a].slots[i] = value]
    BY <1>5, <2>2 DEF Put
  <2>4. /\ arrays' \in Seq([slots : Slots, length : 0 .. MaxCapacity]) /\ Len(arrays') = Len(arrays)
        /\ \A b \in ArrayIds : arrays'[b].length = arrays[b].length /\ Len(arrays'[b].slots) = Len(arrays[b].slots)
    BY <1>1, <2>1, <2>3, PutFacts
  <2>5. stack' = Under /\ handles' = handles /\ answer' \in Answers /\ UNCHANGED <<crashed, program>>
    BY <1>1, <1>5 DEF Put, Answer
  <2>6. QED
    BY <1>3, <2>4, <2>5, Popped
<1>6. CASE Crash
  <2>1. crashed' \in BOOLEAN /\ answer' \in Answers /\ UNCHANGED <<arrays, handles, stack, program>>
    BY <1>1, <1>6 DEF Crash
  <2>2. QED
    BY <2>1, Answered
<1>7. ASSUME NEW e \in {"AttributeError", "IndexError"}, Refused(e) PROVE Shaped'
  <2>1. stack' = Under /\ handles' = handles /\ arrays' = arrays /\ answer' \in Answers /\ UNCHANGED <<crashed, program>>
    BY <1>1, <1>7 DEF Refused, Answer
  <2>2. QED
    BY <1>1, <1>3, <2>1, Popped
<1>8. QED
  BY <1>4, <1>5, <1>6, <1>7

\* Every statement keeps the shape.
LEMMA StatementsKeepShape ==
  ASSUME Shaped, Statements
  PROVE  Shaped'
<1>1. \/ \E a \in Held : BeginFor(a)
      \/ NextElement
      \/ \E c \in Operands, i \in Offsets : BeginIndexAssign(c, i)
      \/ \E value \in Values : EndIndexAssign(value)
      \/ Leave
  BY DEF Statements
<1>2. CASE Leave
  <2>1. arrays \in Seq([slots : Slots, length : 0 .. MaxCapacity]) /\ answer \in Answers
    BY ShapeFacts
  <2>2. QED
    BY <1>2, <2>1, Popped DEF Leave, Silent
<1>3. QED
  BY <1>1, <1>2, BeginForKeepsShape, NextElementKeepsShape, BeginAssignKeepsShape, EndAssignKeepsShape

\* The capacities of a new backing.
LEMMA CapacityFacts ==
  ASSUME program \in Programs, NEW n \in Nat, n <= MaxCapacity, NEW capacity \in Capacities(n)
  PROVE  capacity \in Nat /\ n <= capacity /\ capacity <= MaxCapacity
BY ProgramFacts DEF Capacities

\* The array that Create makes.
LEMMA CreateFacts ==
  ASSUME Shaped, NEW q \in Seq(Cells), NEW capacities, Create(q, capacities),
         \A capacity \in capacities : capacity \in Nat /\ Len(q) <= capacity /\ capacity <= MaxCapacity
  PROVE  /\ Len(arrays) < MaxArrays
         /\ \E e \in [slots : Slots, length : 0 .. MaxCapacity] :
                /\ arrays' = Append(arrays, e)
                /\ e.length = Len(q) /\ e.length <= Len(e.slots) /\ Content(e) = q
<1>1. PICK capacity \in capacities :
        arrays' = Append(arrays, [slots |-> Filled(q, capacity), length |-> Len(q)])
  BY DEF Create
<1>2. capacity \in Nat /\ Len(q) <= capacity /\ capacity <= MaxCapacity /\ program \in Programs /\ Len(q) \in Nat
  BY ShapeFacts, LenProperties
<1>3. PICK slots : slots = Filled(q, capacity)
  OBVIOUS
<1>4. slots \in Slots /\ Len(slots) = capacity /\ \A i \in 1 .. Len(q) : slots[i] = q[i]
  BY <1>2, <1>3, FilledFacts
<1>5. PICK e : e = [slots |-> slots, length |-> Len(q)]
  OBVIOUS
<1>6. e.slots = slots /\ e.length = Len(q)
  BY <1>5
<1>7. Len(q) \in 0 .. MaxCapacity
  BY <1>2, ProgramFacts
<1>8. e \in [slots : Slots, length : 0 .. MaxCapacity]
  BY <1>4, <1>5, <1>7
<1>9. e.slots \in Slots /\ e.length \in Nat /\ e.length <= Len(e.slots) /\ \A i \in 1 .. e.length : e.slots[i] = q[i]
  BY <1>2, <1>4, <1>6
<1>10. Content(e) = q
  BY <1>2, <1>6, <1>9, ContentIs
<1>11. QED
  BY <1>1, <1>3, <1>5, <1>6, <1>8, <1>9, <1>10 DEF Create

\* The handles there are, beside the array that is made.
LEMMA HandlesBeside ==
  ASSUME Shaped
  PROVE  handles \in Seq(Kinds(ArrayIds)) /\ handles \in Seq(Kinds(1 .. Len(arrays) + 1))
<1>1. TypeOK /\ ArrayIds = 1 .. Len(arrays) /\ Len(arrays) \in Nat
  BY ShapeFacts DEF Shaped, LoopsStayInside
<1>2. handles \in Seq(Kinds(ArrayIds))
  BY <1>1 DEF TypeOK, Kinds
<1>3. ArrayIds \subseteq 1 .. Len(arrays) + 1
  BY <1>1
<1>4. Kinds(ArrayIds) \subseteq Kinds(1 .. Len(arrays) + 1)
  BY <1>3 DEF Kinds
<1>5. QED
  BY <1>2, <1>4, SeqMonotonic

\* A new array, without and with a handle.
LEMMA GrownWithout ==
  ASSUME Shaped, NEW q \in Seq(Cells), NEW capacities, Create(q, capacities),
         \A capacity \in capacities : capacity \in Nat /\ Len(q) <= capacity /\ capacity <= MaxCapacity,
         UNCHANGED <<handles, stack>>, Answer(Null)
  PROVE  Shaped'
<1>1. PICK e \in [slots : Slots, length : 0 .. MaxCapacity] :
        arrays' = Append(arrays, e) /\ e.length <= Len(e.slots)
  BY CreateFacts
<1>2. Len(arrays) < MaxArrays
  BY CreateFacts
<1>3. handles' \in Seq(Kinds(1 .. Len(arrays) + 1)) /\ Len(handles') >= Len(handles) /\ answer' \in Answers
  BY ShapeFacts, HandlesBeside, SomeAnswers DEF Answer
<1>4. QED
  BY <1>1, <1>2, <1>3, Grown DEF Answer

\* The handle that newSequenceInstance makes.
LEMMA SequenceFacts ==
  ASSUME Shaped, NEW ids, handles \in Seq(Kinds(ids)),
         NEW kind \in {"Deque", "Stack"}, NEW field \in ids, NEW captured \in ids \cup {0},
         NEW max \in Bounds \cup {Unbounded},
         handles' = Append(handles, [kind |-> kind, field |-> field, captured |-> captured, max |-> max])
  PROVE  /\ handles' \in Seq(Kinds(ids)) /\ Len(handles') = Len(handles) + 1 /\ Len(handles') >= Len(handles)
         /\ DOMAIN handles' = 1 .. Len(handles) + 1
         /\ \A h \in 1 .. Len(handles) + 1 :
                handles'[h] = IF h <= Len(handles) THEN handles[h]
                              ELSE [kind |-> kind, field |-> field, captured |-> captured, max |-> max]
<1>1. PICK e : e = [kind |-> kind, field |-> field, captured |-> captured, max |-> max]
  OBVIOUS
<1>2. e \in Kinds(ids)
  BY <1>1 DEF Kinds
<1>3. Len(handles) \in Nat
  BY ShapeFacts
<1>4. /\ Append(handles, e) \in Seq(Kinds(ids)) /\ Len(Append(handles, e)) = Len(handles) + 1
      /\ DOMAIN Append(handles, e) = 1 .. Len(handles) + 1
      /\ \A h \in 1 .. Len(handles) + 1 : Append(handles, e)[h] = IF h <= Len(handles) THEN handles[h] ELSE e
  BY <1>2, AppendFacts
<1>5. QED
  BY <1>1, <1>3, <1>4

LEMMA GrownWith ==
  ASSUME Shaped, NEW q \in Seq(Cells), NEW capacities, Create(q, capacities),
         \A capacity \in capacities : capacity \in Nat /\ Len(q) <= capacity /\ capacity <= MaxCapacity,
         NEW kind \in {"Deque", "Stack"}, NEW max \in Bounds \cup {Unbounded}, Sequence(kind, NewArray, max),
         UNCHANGED stack, Answer(Null)
  PROVE  Shaped'
<1>1. PICK e \in [slots : Slots, length : 0 .. MaxCapacity] :
        arrays' = Append(arrays, e) /\ e.length <= Len(e.slots)
  BY CreateFacts
<1>2. Len(arrays) < MaxArrays /\ Len(arrays) \in Nat
  BY CreateFacts, ShapeFacts
<1>3. PICK ids : ids = 1 .. Len(arrays) + 1
  OBVIOUS
<1>4. NewArray \in ids
  BY <1>2, <1>3 DEF NewArray
<1>5. handles' \in Seq(Kinds(ids)) /\ Len(handles') >= Len(handles)
  BY <1>3, <1>4, HandlesBeside, SequenceFacts DEF Sequence
<1>6. answer' \in Answers
  BY ShapeFacts, SomeAnswers DEF Answer
<1>7. QED
  BY <1>1, <1>2, <1>3, <1>5, <1>6, Grown DEF Answer

\* What core:arrays returns is made of cells.
LEMMA FreshFacts ==
  ASSUME NEW S, NEW q \in Seq(S), NEW r \in Fresh(q), Values \subseteq S
  PROVE  r \in Seq(S)
<1>1. \/ \E value \in Values : r = Append(q, value)
      \/ \E i \in DOMAIN q : r = RemoveAt(q, i)
      \/ r = Reverse(q)
  BY DEF Fresh
<1>2. CASE \E value \in Values : r = Append(q, value)
  BY <1>2, AppendFacts
<1>3. CASE \E i \in DOMAIN q : r = RemoveAt(q, i)
  <2>1. DOMAIN q = 1 .. Len(q)
    BY LenProperties
  <2>2. QED
    BY <1>3, <2>1, RemoveAtFacts
<1>4. CASE r = Reverse(q)
  BY <1>4, ReverseFacts
<1>5. QED
  BY <1>1, <1>2, <1>3, <1>4

LEMMA LiteralFacts ==
  ASSUME program \in Programs, NEW q \in Literals
  PROVE  q \in Seq(Values) /\ q \in Seq(Cells) /\ Len(q) <= MaxCapacity /\ Len(q) \in Nat
<1>1. PICK n \in 0 .. MaxCapacity : q \in [1 .. n -> Values]
  BY DEF Literals
<1>2. n \in Nat /\ n <= MaxCapacity /\ Values \subseteq Cells
  BY ProgramFacts
<1>3. q \in Seq(Values) /\ Len(q) = n
  BY <1>1, <1>2, IntervalSeq
<1>4. QED
  BY <1>2, <1>3, SeqMonotonic

LEMMA CopyKeepsShape ==
  ASSUME Shaped, NEW c \in Operands, Copy(c)
  PROVE  Shaped'
<1>1. program \in Programs /\ answer \in Answers /\ crashed \in BOOLEAN
  BY ShapeFacts
<1>2. CASE c.kind = "handle" /\ BoundOf(c) = Unbounded /\ handles[c.id].kind = "Deque"
  <2>1. crashed' \in BOOLEAN /\ answer' \in Answers /\ UNCHANGED <<arrays, handles, stack, program>>
    BY <1>1, <1>2 DEF Copy, Crash
  <2>2. QED
    BY <2>1, Answered
<1>3. CASE ~(c.kind = "handle" /\ BoundOf(c) = Unbounded /\ handles[c.id].kind = "Deque")
  <2>1. PICK a \in ArrayIds : a = ArrayOf(c) /\ Target(c) = arrays[a]
    BY OperandFacts
  <2>2. PICK q \in Seq(Cells) : q = Content(Target(c)) /\ Len(q) = arrays[a].length
    BY <2>1, SlicesFit
  <2>3. Len(q) \in Nat /\ Len(q) <= MaxCapacity
    <3>1. arrays[a].length \in Nat /\ arrays[a].length \in 0 .. MaxCapacity
      BY ShapeFacts
    <3>2. QED
      BY <3>1, <2>2, <1>1, ProgramFacts
  <2>4. /\ Create(q, Capacities(Len(q))) /\ Answer(Null) /\ UNCHANGED stack
        /\ IF c.kind = "handle" THEN Sequence(handles[c.id].kind, NewArray, BoundOf(c)) ELSE UNCHANGED handles
    BY <1>3, <2>2 DEF Copy
  <2>5. \A capacity \in Capacities(Len(q)) : capacity \in Nat /\ Len(q) <= capacity /\ capacity <= MaxCapacity
    BY <1>1, <2>3, CapacityFacts
  <2>6. CASE c.kind # "handle"
    BY <2>4, <2>5, <2>6, GrownWithout
  <2>7. CASE c.kind = "handle"
    <3>1. c.id \in DOMAIN handles /\ BoundOf(c) = handles[c.id].max
      BY <2>7, OperandFacts
    <3>2. handles[c.id].kind \in {"Deque", "Stack"} /\ BoundOf(c) \in Bounds \cup {Unbounded}
      BY <3>1, ShapeFacts
    <3>3. QED
      BY <2>4, <2>5, <2>7, <3>2, GrownWith
  <2>8. QED
    BY <2>6, <2>7
<1>4. QED
  BY <1>2, <1>3

\* Everything that creates keeps the shape.
LEMMA CreationKeepsShape ==
  ASSUME Shaped, Creation
  PROVE  Shaped'
<1>1. /\ program \in Programs /\ Values \subseteq Cells /\ Null \in Answers /\ MaxCapacity \in Nat
  BY ShapeFacts, ProgramFacts, SomeAnswers
<1>2. ASSUME NEW q \in Literals, Literal(q) PROVE Shaped'
  <2>1. q \in Seq(Cells) /\ Len(q) <= MaxCapacity /\ Len(q) \in Nat
    BY <1>1, LiteralFacts
  <2>2. \A capacity \in Capacities(Len(q)) : capacity \in Nat /\ Len(q) <= capacity /\ capacity <= MaxCapacity
    BY <1>1, <2>1, CapacityFacts
  <2>3. QED
    BY <1>2, <2>1, <2>2, GrownWithout DEF Literal
<1>3. ASSUME NEW a \in Held, Derive(a) PROVE Shaped'
  <2>1. PICK q \in Fresh(Content(arrays[a])) : Len(q) <= MaxCapacity /\ Create(q, {Len(q)})
    BY <1>3 DEF Derive
  <2>2. Content(arrays[a]) \in Seq(Cells)
    BY SlicesFit DEF Held
  <2>3. q \in Seq(Cells)
    BY <1>1, <2>2, FreshFacts
  <2>4. \A capacity \in {Len(q)} : capacity \in Nat /\ Len(q) <= capacity /\ capacity <= MaxCapacity
    <3>1. Len(q) \in Nat
      BY <2>3, LenProperties
    <3>2. QED
      BY <3>1, <2>1
  <2>5. QED
    BY <1>3, <2>1, <2>3, <2>4, GrownWithout DEF Derive
<1>4. ASSUME NEW kind \in {"Deque", "Stack"}, NEW max \in Bounds \cup {Unbounded}, Create(<<>>, {0}),
             Sequence(kind, NewArray, max), Answer(Null), UNCHANGED stack
      PROVE  Shaped'
  <2>1. PICK q : q = <<>> /\ q \in Seq(Cells) /\ Len(q) = 0
    <3>1. <<>> \in Seq(Cells) /\ Len(<<>>) = 0
      BY EmptySeq
    <3>2. QED
      BY <3>1
  <2>2. \A capacity \in {0} : capacity \in Nat /\ Len(q) <= capacity /\ capacity <= MaxCapacity
    BY <1>1, <2>1
  <2>3. Create(q, {0})
    BY <1>4, <2>1
  <2>4. q \in Seq(Cells)
    BY <2>1
  <2>5. QED
    BY <1>4, <2>2, <2>3, <2>4, GrownWith
<1>5. ASSUME NEW a \in Held, NEW kind \in {"Deque", "Stack"}, Construct(kind, a) PROVE Shaped'
  <2>1. a \in ArrayIds /\ Unbounded \in Bounds \cup {Unbounded}
    BY DEF Held
  <2>2. handles' \in Seq(Kinds(ArrayIds)) /\ Len(handles') >= Len(handles)
    BY <1>5, <2>1, HandlesBeside, SequenceFacts DEF Construct
  <2>3. arrays' = arrays /\ stack' = stack /\ answer' \in Answers /\ UNCHANGED <<crashed, program>>
    BY <1>1, <1>5 DEF Construct, Answer
  <2>4. QED
    BY <2>2, <2>3, Rehandled
<1>6. ASSUME NEW a \in Held, NEW h \in DOMAIN handles, SetValues(h, a) PROVE Shaped'
  <2>1. /\ handles \in Seq(Kinds(ArrayIds)) /\ DOMAIN handles = 1 .. Len(handles) /\ Len(handles) \in Nat
        /\ a \in ArrayIds
    BY HandlesBeside, ShapeFacts DEF Held
  <2>2. PICK old \in Kinds(ArrayIds) : old = handles[h]
    BY <2>1, ElementOfSeq
  <2>3. PICK e \in Kinds(ArrayIds) : e = [old EXCEPT !.field = a]
    <3>1. [old EXCEPT !.field = a] \in Kinds(ArrayIds)
      BY <2>1 DEF Kinds
    <3>2. QED
      BY <3>1
  <2>4. handles' = [handles EXCEPT ![h] = e]
    BY <1>6, <2>2, <2>3 DEF SetValues
  <2>5. handles' \in Seq(Kinds(ArrayIds)) /\ Len(handles') = Len(handles)
    BY <2>1, <2>4, ExceptSeq
  <2>6. arrays' = arrays /\ stack' = stack /\ answer' \in Answers /\ UNCHANGED <<crashed, program>>
    BY <1>1, <1>6 DEF SetValues, Answer
  <2>7. QED
    BY <2>1, <2>5, <2>6, Rehandled
<1>7. ASSUME NEW max \in Bounds, NewDeque(max) PROVE Shaped'
  BY <1>4, <1>7 DEF NewDeque
<1>8. ASSUME NewStack PROVE Shaped'
  BY <1>4, <1>8 DEF NewStack
<1>9. QED
  BY <1>2, <1>3, <1>5, <1>6, <1>7, <1>8, CopyKeepsShape DEF Creation

\* Nothing is there at first.
LEMMA InitShaped ==
  ASSUME Init
  PROVE  Shaped
<1>1. arrays = <<>> /\ handles = <<>> /\ stack = <<>> /\ answer = Null /\ crashed = FALSE /\ program \in Programs
  BY DEF Init
<1>2. \A S : <<>> \in Seq(S) /\ Len(<<>>) = 0 /\ DOMAIN <<>> = {}
  OBVIOUS
<1>3. 0 <= MaxArrays /\ 0 <= MaxNesting /\ answer \in Answers
  BY <1>1, ProgramFacts, SomeAnswers, CollectionsAssumption DEF CollectionsAssumption
<1>4. TypeOK
  BY <1>1, <1>2, <1>3 DEF TypeOK, ArrayIds
<1>5. QED
  BY <1>1, <1>2, <1>4 DEF Shaped, LoopsStayInside, References

\* Every step keeps the shape.
LEMMA NextShaped ==
  ASSUME Shaped, [Next]_vars
  PROVE  Shaped'
<1>1. CASE Next
  BY <1>1, CreationKeepsShape, MethodsKeepShape, FunctionsKeepShape, StatementsKeepShape DEF Next
<1>2. CASE UNCHANGED vars
  <2>1. /\ arrays' = arrays /\ handles' = handles /\ stack' = stack /\ program' = program
        /\ answer' \in Answers /\ crashed' \in BOOLEAN
    BY <1>2, ShapeFacts DEF vars
  <2>2. QED
    BY <2>1, Answered
<1>3. QED
  BY <1>1, <1>2

\* A for loop stays inside the backing of the slice it was given, whatever is
\* done to the array meanwhile (evalForStatement, core:collections).
THEOREM LoopsCorrect == Spec => []LoopsStayInside
<1>1. Init => Shaped
  BY InitShaped
<1>2. Shaped /\ [Next]_vars => Shaped'
  BY NextShaped
<1>3. Shaped => LoopsStayInside
  BY DEF Shaped
<1>4. QED
  BY <1>1, <1>2, <1>3, PTL DEF Spec

-----------------------------------------------------------------------------
(* What sequences promise.                                                 *)

Contents == [a \in ArrayIds |-> Content(arrays[a])]

(* The bound that an array has from the handle it belongs to.               *)
Limited == [a \in ArrayIds |->
              IF \E h \in DOMAIN handles : handles[h].field = a
                THEN handles[CHOOSE h \in DOMAIN handles : handles[h].field = a].max
                ELSE Unbounded]

\* Nothing changes for BoundedSequences.
LEMMA SequenceVars ==
  ASSUME Contents' = Contents, Limited' = Limited, answer' = answer
  PROVE  UNCHANGED Promised!sequenceVars
BY DEF Contents, Limited, Promised!sequenceVars

\* The forms in which a collection may change.
LEMMA AsAddRight ==
  ASSUME NEW c \in ArrayIds, NEW q,
         (\E value \in Values : q = <<value>>) \/ \E d \in ArrayIds : q = Contents[d],
         Contents' = [Contents EXCEPT ![c] = Promised!Newest(Contents[c] \o q, Limited[c])],
         Limited' = Limited, answer' = Null, program \in Programs
  PROVE  Promised!SequencesNext
<1>1. c \in DOMAIN Contents /\ DOMAIN Contents = ArrayIds
  BY DEF Contents
<1>2. Promised!AddRight(c, q)
  BY DEF Promised!AddRight, Promised!Becomes, Contents, Limited, Promised!Null, Null
<1>3. ASSUME NEW value \in Values, q = <<value>> PROVE Promised!Operation(c)
  <2>1. value \in UNION {p.values : p \in Programs}
    BY DEF Values
  <2>2. Promised!AddRight(c, <<value>>)
    BY <1>2, <1>3
  <2>3. QED
    BY <2>1, <2>2 DEF Promised!Operation
<1>4. ASSUME NEW d \in ArrayIds, q = Contents[d] PROVE Promised!Operation(c)
  <2>1. Promised!AddRight(c, Contents[d])
    BY <1>2, <1>4 DEF Promised!AddRight, Promised!Becomes
  <2>2. QED
    BY <2>1, <1>1 DEF Promised!Operation, Contents
<1>5. Promised!Operation(c)
  BY <1>3, <1>4
<1>6. QED
  BY <1>1, <1>5 DEF Promised!SequencesNext, Contents

(* What the operations of BoundedSequences say of this state.               *)
BecomesIs(c, q) == Contents' = [Contents EXCEPT ![c] = q] /\ UNCHANGED Limited

\* The operations of BoundedSequences, spelled out.
LEMMA BecomesMeans ==
  ASSUME NEW c, NEW q
  PROVE  Promised!Becomes(c, q) <=> BecomesIs(c, q)
BY DEF Promised!Becomes, BecomesIs, Contents, Limited

LEMMA AddLeftMeans ==
  ASSUME NEW c, NEW q
  PROVE  Promised!AddLeft(c, q) <=>
           BecomesIs(c, Promised!Foremost(Reverse(q) \o Contents[c], Limited[c])) /\ answer' = Null
BY Zenon DEF Promised!AddLeft, Promised!Becomes, BecomesIs, Contents, Limited, Promised!Null, Null,
   Promised!Reverse, Reverse

LEMMA TakeRightMeans ==
  ASSUME NEW c
  PROVE  Promised!TakeRight(c) <=>
           IF Contents[c] = <<>>
             THEN answer' = Raised("IndexError") /\ UNCHANGED <<Contents, Limited>>
             ELSE BecomesIs(c, Front(Contents[c])) /\ answer' = Given(Last(Contents[c]))
BY Zenon DEF Promised!TakeRight, Promised!Becomes, Promised!Front, Front, Promised!Last, Last, BecomesIs, Contents, Limited, Promised!Raised, Raised,
   Promised!Given, Given

LEMMA TakeLeftMeans ==
  ASSUME NEW c
  PROVE  Promised!TakeLeft(c) <=>
           IF Contents[c] = <<>>
             THEN answer' = Raised("IndexError") /\ UNCHANGED <<Contents, Limited>>
             ELSE BecomesIs(c, Tail(Contents[c])) /\ answer' = Given(Head(Contents[c]))
BY Zenon DEF Promised!TakeLeft, Promised!Becomes, BecomesIs, Contents, Limited, Promised!Raised, Raised,
   Promised!Given, Given

LEMMA PlaceMeans ==
  ASSUME NEW c, NEW position, NEW value
  PROVE  Promised!Place(c, position, value) <=>
           IF Limited[c] # Unbounded /\ Len(Contents[c]) >= Limited[c]
             THEN answer' = Raised("IndexError") /\ UNCHANGED <<Contents, Limited>>
             ELSE /\ BecomesIs(c, InsertAt(Contents[c], InsertPosition(position, Len(Contents[c])) + 1, value))
                  /\ answer' = Null
<1>1. \A length : Promised!Clamped(position, length) = InsertPosition(position, length)
  BY DEF Promised!Clamped, InsertPosition
<1>2. Promised!Place(c, position, value) <=>
        IF Limited[c] # Unbounded /\ Len(Contents[c]) >= Limited[c]
          THEN answer' = Raised("IndexError") /\ UNCHANGED <<Contents, Limited>>
          ELSE /\ BecomesIs(c, InsertAt(Contents[c], Promised!Clamped(position, Len(Contents[c])) + 1, value))
               /\ answer' = Null
  BY Zenon DEF Promised!Place, Promised!Full, Promised!Becomes, Promised!InsertAt, InsertAt, BecomesIs, Contents, Limited, Promised!Raised, Raised,
     Promised!Null, Null, Promised!Unbounded, Unbounded
<1>3. QED
  BY <1>1, <1>2, Zenon

LEMMA RemoveEqualMeans ==
  ASSUME NEW c, NEW value
  PROVE  Promised!RemoveEqual(c, value) <=>
           LET found == {i \in DOMAIN Contents[c] : Equal(Contents[c][i], value)}
           IN IF found = {}
                THEN answer' = Raised("ValueError") /\ UNCHANGED <<Contents, Limited>>
                ELSE /\ \E i \in found : (\A j \in found : i <= j) /\ BecomesIs(c, RemoveAt(Contents[c], i))
                     /\ answer' = Null
BY Zenon DEF Promised!RemoveEqual, Promised!Positions, Promised!Becomes, Promised!RemoveAt, RemoveAt, BecomesIs, Contents, Limited,
   Promised!Raised, Raised, Promised!Null, Null

LEMMA PutMeans ==
  ASSUME NEW c, NEW index, NEW value
  PROVE  Promised!Put(c, index, value) <=>
           IF index \in 0 .. Len(Contents[c]) - 1
             THEN BecomesIs(c, [Contents[c] EXCEPT ![index + 1] = value]) /\ answer' = Null
             ELSE answer' = Raised("IndexError") /\ UNCHANGED <<Contents, Limited>>
BY Zenon DEF Promised!Put, Promised!Becomes, BecomesIs, Contents, Limited, Promised!Raised, Raised, Promised!Null, Null

LEMMA TurnedMeans ==
  ASSUME NEW c, NEW amount
  PROVE  Promised!Turned(c, amount) <=> BecomesIs(c, Rotation(Contents[c], amount)) /\ answer' = Null
BY Zenon DEF Promised!Turned, Promised!Becomes, BecomesIs, Contents, Limited, Promised!Null, Null, Rotation

\* The forms in which a collection may change.
LEMMA AnOperation ==
  ASSUME NEW c \in ArrayIds, Promised!Operation(c)
  PROVE  Promised!SequencesNext
BY DEF Promised!SequencesNext

LEMMA AsAddLeft ==
  ASSUME NEW c \in ArrayIds, NEW q,
         (\E value \in Values : q = <<value>>) \/ \E d \in ArrayIds : q = Contents[d],
         BecomesIs(c, Promised!Foremost(Reverse(q) \o Contents[c], Limited[c])), answer' = Null, program \in Programs
  PROVE  Promised!SequencesNext
<1>1. Promised!AddLeft(c, q)
  BY AddLeftMeans
<1>2. ASSUME NEW value \in Values, q = <<value>> PROVE Promised!Operation(c)
  <2>1. value \in UNION {p.values : p \in Programs}
    BY DEF Values
  <2>2. Promised!AddLeft(c, <<value>>)
    BY <1>1, <1>2
  <2>3. QED
    BY <2>1, <2>2 DEF Promised!Operation
<1>3. ASSUME NEW d \in ArrayIds, q = Contents[d] PROVE Promised!Operation(c)
  <2>1. Promised!AddLeft(c, Contents[d])
    BY <1>1, <1>3 DEF Promised!AddLeft, Promised!Becomes
  <2>2. QED
    BY <2>1 DEF Promised!Operation, Contents
<1>4. QED
  BY <1>2, <1>3, AnOperation

\* An element is taken from an end, or there is none.
LEMMA AsTake ==
  ASSUME NEW c \in ArrayIds,
         \/ Contents[c] = <<>> /\ answer' = Raised("IndexError") /\ UNCHANGED <<Contents, Limited>>
         \/ /\ Contents[c] # <<>>
            /\ \/ BecomesIs(c, Front(Contents[c])) /\ answer' = Given(Last(Contents[c]))
               \/ BecomesIs(c, Tail(Contents[c])) /\ answer' = Given(Head(Contents[c]))
  PROVE  Promised!SequencesNext
<1>1. Promised!TakeRight(c) \/ Promised!TakeLeft(c)
  BY TakeRightMeans, TakeLeftMeans, Zenon
<1>2. Promised!Operation(c)
  BY <1>1 DEF Promised!Operation
<1>3. QED
  BY <1>2, AnOperation

\* Everything goes, turns round or turns over.
LEMMA AsWhole ==
  ASSUME NEW c \in ArrayIds, answer' = Null, program \in Programs,
         \/ BecomesIs(c, <<>>)
         \/ BecomesIs(c, Reverse(Contents[c]))
         \/ \E amount \in Offsets : BecomesIs(c, Rotation(Contents[c], amount))
  PROVE  Promised!SequencesNext
<1>1. CASE BecomesIs(c, <<>>)
  <2>1. Promised!Becomes(c, <<>>) /\ answer' = Promised!Null
    BY <1>1, BecomesMeans DEF Promised!Null, Null
  <2>2. Promised!Operation(c)
    BY <2>1 DEF Promised!Operation
  <2>3. QED
    BY <2>2, AnOperation
<1>2. CASE BecomesIs(c, Reverse(Contents[c]))
  <2>1. Promised!Becomes(c, Promised!Reverse(Contents[c])) /\ answer' = Promised!Null
    BY <1>2, Zenon DEF Promised!Becomes, BecomesIs, Contents, Limited, Promised!Null, Null, Promised!Reverse, Reverse
  <2>2. Promised!Operation(c)
    BY <2>1 DEF Promised!Operation, Contents
  <2>3. QED
    BY <2>2, AnOperation
<1>3. ASSUME NEW amount \in Offsets, BecomesIs(c, Rotation(Contents[c], amount))
      PROVE  Promised!SequencesNext
  <2>1. amount \in UNION {p.offsets : p \in Programs}
    BY DEF Offsets
  <2>2. Promised!Turned(c, amount)
    BY <1>3, TurnedMeans
  <2>3. Promised!Operation(c)
    BY <2>1, <2>2 DEF Promised!Operation
  <2>4. QED
    BY <2>3, AnOperation
<1>4. QED
  BY <1>1, <1>2, <1>3

\* An element is removed by its value.
LEMMA AsRemove ==
  ASSUME NEW c \in ArrayIds, NEW value \in Values, NEW found, program \in Programs,
         found = {i \in DOMAIN Contents[c] : Equal(Contents[c][i], value)},
         IF found = {}
           THEN answer' = Raised("ValueError") /\ UNCHANGED <<Contents, Limited>>
           ELSE /\ \E i \in found : (\A j \in found : i <= j) /\ BecomesIs(c, RemoveAt(Contents[c], i))
                /\ answer' = Null
  PROVE  Promised!SequencesNext
<1>1. value \in UNION {p.values : p \in Programs}
  BY DEF Values
<1>2. Promised!RemoveEqual(c, value)
  BY RemoveEqualMeans
<1>3. Promised!Operation(c)
  BY <1>1, <1>2 DEF Promised!Operation
<1>4. QED
  BY <1>3, AnOperation

\* An element is inserted, or there is no room.
LEMMA AsPlace ==
  ASSUME NEW c \in ArrayIds, NEW position \in Offsets, NEW value \in Values, program \in Programs,
         IF Limited[c] # Unbounded /\ Len(Contents[c]) >= Limited[c]
           THEN answer' = Raised("IndexError") /\ UNCHANGED <<Contents, Limited>>
           ELSE /\ BecomesIs(c, InsertAt(Contents[c], InsertPosition(position, Len(Contents[c])) + 1, value))
                /\ answer' = Null
  PROVE  Promised!SequencesNext
<1>1. value \in UNION {p.values : p \in Programs} /\ position \in UNION {p.offsets : p \in Programs}
  BY DEF Values, Offsets
<1>2. Promised!Place(c, position, value)
  BY PlaceMeans
<1>3. Promised!Operation(c)
  BY <1>1, <1>2 DEF Promised!Operation
<1>4. QED
  BY <1>3, AnOperation

\* An element is replaced, or there is none at the index.
LEMMA AsPut ==
  ASSUME NEW c \in ArrayIds, NEW index \in Offsets, NEW value \in Values, program \in Programs,
         IF index \in 0 .. Len(Contents[c]) - 1
           THEN BecomesIs(c, [Contents[c] EXCEPT ![index + 1] = value]) /\ answer' = Null
           ELSE answer' = Raised("IndexError") /\ UNCHANGED <<Contents, Limited>>
  PROVE  Promised!SequencesNext
<1>1. value \in UNION {p.values : p \in Programs} /\ index \in UNION {p.offsets : p \in Programs}
  BY DEF Values, Offsets
<1>2. Promised!Put(c, index, value)
  BY PutMeans
<1>3. Promised!Operation(c)
  BY <1>1, <1>2 DEF Promised!Operation
<1>4. QED
  BY <1>3, AnOperation

\* The bound of an operand is that of its collection.
LEMMA HandleBound ==
  ASSUME Shaped, Owned, NEW h \in DOMAIN handles
  PROVE  handles[h].field \in ArrayIds /\ Limited[handles[h].field] = handles[h].max
<1>1. handles[h].field \in ArrayIds
  BY ShapeFacts
<1>2. PICK a \in ArrayIds : a = handles[h].field
  BY <1>1
<1>3. \A g \in DOMAIN handles : handles[g].field = a => g = h
  BY <1>2 DEF Owned
<1>4. (CHOOSE g \in DOMAIN handles : handles[g].field = a) = h
  BY <1>2, <1>3
<1>5. Limited[a] = handles[h].max
  BY <1>2, <1>4 DEF Limited
<1>6. QED
  BY <1>2, <1>5

\* The bound of an operand, and its content.
LEMMA OperandBound ==
  ASSUME Shaped, Owned, ~direct, NEW c \in Operands
  PROVE  /\ Limited[ArrayOf(c)] = BoundOf(c) /\ Contents[ArrayOf(c)] = Content(Target(c))
         /\ Content(Target(c)) \in Seq(Values)
         /\ BoundOf(c) # Unbounded => arrays[ArrayOf(c)].length <= BoundOf(c)
<1>1. /\ ArrayOf(c) \in ArrayIds /\ Target(c) = arrays[ArrayOf(c)]
      /\ \/ c.kind = "array" /\ c.id \in Held /\ ArrayOf(c) = c.id /\ BoundOf(c) = Unbounded
         \/ c.kind = "handle" /\ c.id \in DOMAIN handles /\ ArrayOf(c) = handles[c.id].field
            /\ BoundOf(c) = handles[c.id].max
  BY OperandFacts
<1>2. PICK a \in ArrayIds : a = ArrayOf(c)
  BY <1>1
<1>3. Contents[a] = Content(Target(c)) /\ Content(Target(c)) \in Seq(Values)
  BY <1>1, <1>2 DEF Contents, Owned
<1>4. CASE c.kind = "array" /\ c.id \in Held /\ ArrayOf(c) = c.id /\ BoundOf(c) = Unbounded
  <2>1. ~\E h \in DOMAIN handles : handles[h].field = a
    BY <1>2, <1>4 DEF Held
  <2>2. Limited[a] = Unbounded
    BY <2>1 DEF Limited
  <2>3. QED
    BY <1>2, <1>3, <1>4, <2>2
<1>5. CASE c.kind = "handle" /\ c.id \in DOMAIN handles /\ ArrayOf(c) = handles[c.id].field
           /\ BoundOf(c) = handles[c.id].max
  BY <1>2, <1>3, <1>5, HandleBound DEF Owned
<1>6. QED
  BY <1>1, <1>4, <1>5

\* One array is given another content.
LEMMA ChangedContent ==
  ASSUME Shaped, Owned, NEW a \in ArrayIds, NEW q \in Seq(Values), NEW e, Content(e) = q, e.length = Len(q),
         DOMAIN arrays' = ArrayIds, \A b \in ArrayIds : arrays'[b] = IF b = a THEN e ELSE arrays[b],
         handles' = handles, program' = program, Limited[a] # Unbounded => Len(q) <= Limited[a]
  PROVE  Owned' /\ BecomesIs(a, q)
<1>1. \A h \in DOMAIN handles : handles[h].field \in ArrayIds
  BY ShapeFacts
<1>2. ArrayIds' = ArrayIds
  BY DEF ArrayIds
<1>3. \A b \in ArrayIds : Content(arrays'[b]) = IF b = a THEN q ELSE Content(arrays[b])
  OBVIOUS
<1>4. Contents' = [Contents EXCEPT ![a] = q]
  <2>1. Contents' = [b \in ArrayIds |-> Content(arrays'[b])]
    BY <1>2 DEF Contents
  <2>2. [Contents EXCEPT ![a] = q] = [b \in ArrayIds |-> IF b = a THEN q ELSE Content(arrays[b])]
    BY DEF Contents
  <2>3. QED
    BY <2>1, <2>2, <1>3
<1>5. Limited' = Limited
  BY <1>2 DEF Limited
<1>6. ASSUME NEW h \in DOMAIN handles, handles[h].max # Unbounded
      PROVE  arrays'[handles[h].field].length <= handles[h].max
  <2>1. arrays[handles[h].field].length <= handles[h].max
    BY <1>6 DEF Owned
  <2>2. CASE handles[h].field = a
    <3>1. Limited[a] = handles[h].max
      BY <2>2, HandleBound
    <3>2. QED
      BY <3>1, <2>2, <1>6
  <2>3. CASE handles[h].field # a
    BY <2>1, <2>3, <1>1
  <2>4. QED
    BY <2>2, <2>3
<1>7. \A b \in ArrayIds' : Content(arrays'[b]) \in Seq(Values)
  BY <1>2, <1>3 DEF Owned
<1>8. Owned'
  BY <1>6, <1>7, SameProgram DEF Owned
<1>9. QED
  BY <1>4, <1>5, <1>8 DEF BecomesIs

\* values.Elements = ... gives the collection its content.
LEMMA StoredContent ==
  ASSUME Shaped, Owned, NEW a \in ArrayIds, NEW outcomes, NEW q \in Seq(Values), Store(a, outcomes), program' = program,
         \A t \in outcomes : Fits(t, Len(arrays[a].slots)) /\ Content(t) = q,
         Limited[a] # Unbounded => Len(q) <= Limited[a]
  PROVE  Owned' /\ BecomesIs(a, q)
<1>1. program \in Programs /\ DOMAIN arrays = ArrayIds
  BY ShapeFacts DEF ArrayIds
<1>2. PICK s \in outcomes :
        arrays' = [arrays EXCEPT ![a] = [slots |-> s.slots, length |-> s.length]]
  BY DEF Store
<1>3. handles' = handles
  BY DEF Store
<1>4. Content(s) = q /\ Len(q) = s.length
  <2>1. Fits(s, Len(arrays[a].slots)) /\ Content(s) = q
    BY <1>2
  <2>2. Len(Content(s)) = s.length
    BY <1>1, <2>1, FitsFacts
  <2>3. QED
    BY <2>1, <2>2
<1>5. PICK e : e = [slots |-> s.slots, length |-> s.length]
  OBVIOUS
<1>6. Content(e) = q /\ e.length = Len(q)
  BY <1>4, <1>5 DEF Content
<1>7. DOMAIN arrays' = ArrayIds /\ \A b \in ArrayIds : arrays'[b] = IF b = a THEN e ELSE arrays[b]
  BY <1>1, <1>2, <1>5
<1>8. QED
  BY <1>3, <1>6, <1>7, ChangedContent

\* values[index] = value.
LEMMA PutContent ==
  ASSUME Shaped, Owned, NEW a \in ArrayIds, NEW i \in 1 .. arrays[a].length, NEW value \in Values,
         arrays' = [arrays EXCEPT ![a].slots[i] = value], handles' = handles, program' = program
  PROVE  Owned' /\ BecomesIs(a, [Contents[a] EXCEPT ![i] = value])
<1>1. /\ program \in Programs /\ value \in Cells /\ Values \subseteq Cells
      /\ arrays[a].slots \in Slots /\ arrays[a].length \in Nat /\ arrays[a].length <= Len(arrays[a].slots)
      /\ \A h \in DOMAIN handles : handles[h].field \in ArrayIds
  BY ShapeFacts, ProgramFacts
<1>2. /\ arrays' \in Seq([slots : Slots, length : 0 .. MaxCapacity]) /\ Len(arrays') = Len(arrays)
      /\ DOMAIN arrays' = ArrayIds
      /\ \A b \in ArrayIds :
             /\ arrays'[b].length = arrays[b].length /\ Len(arrays'[b].slots) = Len(arrays[b].slots)
             /\ arrays'[b].slots = IF b = a THEN [arrays[a].slots EXCEPT ![i] = value] ELSE arrays[b].slots
             /\ b # a => arrays'[b] = arrays[b]
  BY <1>1, PutFacts
<1>3. PICK old \in Seq(Values) : old = Contents[a] /\ old = Content(arrays[a])
  BY DEF Contents, Owned
<1>4. Len(old) = arrays[a].length /\ \A k \in 1 .. arrays[a].length : old[k] = arrays[a].slots[k]
  BY <1>1, <1>3, ContentFacts
<1>5. PICK q \in Seq(Values) :
        /\ q = [old EXCEPT ![i] = value] /\ Len(q) = Len(old)
        /\ \A k \in 1 .. Len(old) : q[k] = IF k = i THEN value ELSE old[k]
  <2>1. i \in 1 .. Len(old)
    BY <1>4
  <2>2. /\ [old EXCEPT ![i] = value] \in Seq(Values) /\ Len([old EXCEPT ![i] = value]) = Len(old)
        /\ \A k \in 1 .. Len(old) : [old EXCEPT ![i] = value][k] = IF k = i THEN value ELSE old[k]
    BY <2>1, ExceptSeq
  <2>3. QED
    BY <2>2
<1>6. PICK e : e = arrays'[a]
  OBVIOUS
<1>7. PICK slots \in Slots : slots = arrays[a].slots
  BY <1>1
<1>8. Len(slots) \in Nat /\ i \in 1 .. Len(slots) /\ arrays[a].length <= Len(slots)
  <2>1. Len(slots) \in Nat
    BY <1>1, SlotsFacts
  <2>2. QED
    BY <2>1, <1>1, <1>7
<1>9. /\ [slots EXCEPT ![i] = value] \in Slots /\ Len([slots EXCEPT ![i] = value]) = Len(slots)
      /\ \A k \in 1 .. Len(slots) : [slots EXCEPT ![i] = value][k] = IF k = i THEN value ELSE slots[k]
  BY <1>1, <1>8, WriteFacts
<1>10. e.slots = [slots EXCEPT ![i] = value] /\ e.length = arrays[a].length
  BY <1>2, <1>6, <1>7
<1>11. \A k \in 1 .. e.length : e.slots[k] = q[k]
  <2>1. \A k \in 1 .. arrays[a].length : k \in 1 .. Len(slots) /\ k \in 1 .. Len(old)
    BY <1>1, <1>4, <1>8
  <2>2. QED
    BY <2>1, <1>4, <1>5, <1>7, <1>9, <1>10
<1>12. Content(e) = q
  <2>1. q \in Seq(Cells)
    BY <1>1
  <2>2. Len(q) = e.length /\ e.length \in Nat /\ e.length <= Len(e.slots) /\ e.slots \in Slots
    BY <1>1, <1>4, <1>5, <1>8, <1>9, <1>10
  <2>3. QED
    BY <2>1, <2>2, <1>1, <1>11, ContentIs
<1>13. e.length = Len(q)
  BY <1>4, <1>5, <1>10
<1>14. \A b \in ArrayIds : arrays'[b] = IF b = a THEN e ELSE arrays[b]
  BY <1>2, <1>6
<1>15. Limited[a] # Unbounded => Len(q) <= Limited[a]
  <2>1. ASSUME NEW h \in DOMAIN handles, handles[h].field = a, handles[h].max # Unbounded
        PROVE  Limited[a] = handles[h].max /\ arrays[a].length <= handles[h].max
    BY <2>1, HandleBound DEF Owned
  <2>2. CASE \E h \in DOMAIN handles : handles[h].field = a
    <3>1. PICK h \in DOMAIN handles : handles[h].field = a
      BY <2>2
    <3>2. Limited[a] = handles[h].max
      BY <3>1, HandleBound
    <3>3. QED
      BY <2>1, <3>1, <3>2, <1>4, <1>5
  <2>3. CASE ~\E h \in DOMAIN handles : handles[h].field = a
    BY <2>3 DEF Limited
  <2>4. QED
    BY <2>2, <2>3
<1>16. Owned' /\ BecomesIs(a, q)
  <2>1. DOMAIN arrays' = ArrayIds
    BY <1>2
  <2>2. handles' = handles /\ program' = program
    OBVIOUS
  <2>3. QED
    BY ONLY Shaped, Owned, <2>1, <2>2, <1>12, <1>13, <1>14, <1>15, ChangedContent
<1>17. QED
  BY <1>3, <1>5, <1>16 DEF BecomesIs

\* Contents, bounds and ownership where arrays and handles stay.
LEMMA SameContents ==
  ASSUME UNCHANGED <<arrays, handles, program>>
  PROVE  Contents' = Contents /\ Limited' = Limited /\ (Owned => Owned')
<1>1. ArrayIds' = ArrayIds
  BY DEF ArrayIds
<1>2. Contents' = Contents
  BY <1>1 DEF Contents
<1>3. Limited' = Limited
  BY <1>1 DEF Limited
<1>4. Owned => Owned'
  BY <1>1, SameProgram DEF Owned
<1>5. QED
  BY <1>2, <1>3, <1>4

-----------------------------------------------------------------------------
(* Every operation is one of those promised.                               *)

\* What is kept of a sequence of values is one, and within the bound.
LEMMA KeptValues ==
  ASSUME NEW q \in Seq(Values), NEW max \in Limits
  PROVE  /\ Promised!Newest(q, max) \in Seq(Values) /\ Promised!Foremost(q, max) \in Seq(Values)
         /\ max # Unbounded => Len(Promised!Newest(q, max)) <= max /\ Len(Promised!Foremost(q, max)) <= max
<1>1. Len(q) \in Nat /\ (max # Unbounded => max \in Nat)
  BY LenProperties DEF Limits
<1>2. /\ Promised!Newest(q, max) \in Seq(Values)
      /\ Len(Promised!Newest(q, max)) = IF max = Unbounded \/ Len(q) <= max THEN Len(q) ELSE max
  BY NewestFacts
<1>3. /\ Promised!Foremost(q, max) \in Seq(Values)
      /\ Len(Promised!Foremost(q, max)) = IF max = Unbounded \/ Len(q) <= max THEN Len(q) ELSE max
  BY ForemostFacts
<1>4. max # Unbounded => Len(Promised!Newest(q, max)) <= max /\ Len(Promised!Foremost(q, max)) <= max
  BY <1>1, <1>2, <1>3
<1>5. QED
  BY <1>2, <1>3, <1>4

\* The array of a method, and its content.
LEMMA MethodFacts ==
  ASSUME Shaped, Owned, NEW h \in DOMAIN handles
  PROVE  \E a \in ArrayIds :
           /\ a = handles[h].captured /\ a = handles[h].field /\ Captured(h) = Slice(arrays[a])
           /\ Fits(Captured(h), Len(arrays[a].slots)) /\ Content(Captured(h)) = Contents[a]
           /\ Contents[a] \in Seq(Values) /\ Len(Contents[a]) = Captured(h).length
           /\ Limited[a] = handles[h].max /\ handles[h].max \in Limits
           /\ Within(Captured(h), handles[h].max)
<1>1. PICK a \in ArrayIds : a = handles[h].field
  BY ShapeFacts
<1>2. a = handles[h].captured /\ (handles[h].max # Unbounded => arrays[a].length <= handles[h].max)
  BY <1>1 DEF Owned
<1>3. Captured(h) = Slice(arrays[a])
  BY <1>2 DEF Captured
<1>4. /\ Fits(Slice(arrays[a]), Len(arrays[a].slots)) /\ Content(Slice(arrays[a])) = Content(arrays[a])
      /\ Slice(arrays[a]).length = arrays[a].length /\ Len(Content(arrays[a])) = arrays[a].length
  BY SlicesFit
<1>5. Contents[a] = Content(arrays[a]) /\ Contents[a] \in Seq(Values)
  BY DEF Contents, Owned
<1>6. Limited[a] = handles[h].max /\ handles[h].max \in Limits
  BY <1>1, HandleBound, ShapeFacts
<1>7. QED
  BY <1>1, <1>2, <1>3, <1>4, <1>5, <1>6 DEF Within

\* One element turned round.
LEMMA OneReversed ==
  ASSUME NEW value, NEW q, q = <<value>>
  PROVE  Reverse(q) = q
<1>1. q \in Seq({value}) /\ Len(q) = 1
  OBVIOUS
<1>2. Reverse(q) \in Seq({value}) /\ Len(Reverse(q)) = 1 /\ Reverse(q)[1] = q[1]
  <2>1. /\ Reverse(q) \in Seq({value}) /\ Len(Reverse(q)) = Len(q)
        /\ \A i \in 1 .. Len(q) : Reverse(q)[i] = q[Len(q) - i + 1]
    BY <1>1, ReverseFacts
  <2>2. 1 \in 1 .. Len(q) /\ Len(q) - 1 + 1 = 1
    BY <1>1
  <2>3. QED
    BY <1>1, <2>1, <2>2
<1>3. \A i \in 1 .. 1 : i = 1
  OBVIOUS
<1>4. QED
  BY <1>1, <1>2, <1>3, SeqEqual

\* Every method does what is promised.
LEMMA MethodsAsPromised ==
  ASSUME Shaped, Owned, ~direct, Methods
  PROVE  Owned' /\ Promised!SequencesNext
<1>1. program \in Programs /\ Values \subseteq Cells
  BY ShapeFacts, ProgramFacts
<1>2. PICK h \in DOMAIN handles :
        \/ \E value \in Values : DequeAppend(h, value) \/ DequeAppendLeft(h, value) \/ Push(h, value)
        \/ Pop(h)
  BY DEF Methods
<1>3. PICK a \in ArrayIds :
           /\ a = handles[h].captured /\ a = handles[h].field
           /\ Fits(Captured(h), Len(arrays[a].slots)) /\ Content(Captured(h)) = Contents[a]
           /\ Contents[a] \in Seq(Values) /\ Len(Contents[a]) = Captured(h).length
           /\ Limited[a] = handles[h].max /\ handles[h].max \in Limits
           /\ Within(Captured(h), handles[h].max)
  BY MethodFacts
<1>4. PICK s : s = Captured(h)
  OBVIOUS
<1>5. PICK c \in Seq(Values) : c = Contents[a]
  BY <1>3
<1>6. PICK max \in Limits : max = handles[h].max
  BY <1>3
<1>7. Fits(s, Len(arrays[a].slots)) /\ Content(s) = c /\ Within(s, max) /\ Limited[a] = max /\ Len(c) = s.length
  BY <1>3, <1>4, <1>5, <1>6
<1>8. ASSUME NEW value \in Values, DequeAppend(h, value) PROVE Owned' /\ Promised!SequencesNext
  <2>1. \A t \in AppendDeque(s, value, max) :
            Fits(t, Len(arrays[a].slots)) /\ Content(t) = Promised!Newest(Content(s) \o <<value>>, max)
    BY <1>1, <1>7, AppendDequeFacts
  <2>2. Store(a, AppendDeque(s, value, max)) /\ answer' = Null /\ program' = program
    BY <1>3, <1>4, <1>6, <1>8 DEF DequeAppend, Run, Answer
  <2>3. c \o <<value>> \in Seq(Values)
    BY EndFacts
  <2>4. PICK q \in Seq(Values) : q = Promised!Newest(c \o <<value>>, max) /\ (max # Unbounded => Len(q) <= max)
    BY <2>3, KeptValues
  <2>5. Owned' /\ BecomesIs(a, q)
    BY <2>1, <2>2, <2>4, <1>7, StoredContent
  <2>6. PICK added : added = <<value>>
    OBVIOUS
  <2>7. q = Promised!Newest(Contents[a] \o added, Limited[a])
    BY <2>4, <2>6, <1>5, <1>7
  <2>8. Promised!SequencesNext
    BY <2>2, <2>5, <2>6, <2>7, <1>1, AsAddRight DEF BecomesIs
  <2>9. QED
    BY <2>5, <2>8
<1>9. ASSUME NEW value \in Values, DequeAppendLeft(h, value) PROVE Owned' /\ Promised!SequencesNext
  <2>1. \A t \in AppendLeftDeque(s, value, max) :
            Fits(t, Len(arrays[a].slots)) /\ Content(t) = Promised!Foremost(<<value>> \o Content(s), max)
    BY <1>1, <1>7, AppendLeftDequeFacts
  <2>2. Store(a, AppendLeftDeque(s, value, max)) /\ answer' = Null /\ program' = program
    BY <1>3, <1>4, <1>6, <1>9 DEF DequeAppendLeft, Run, Answer
  <2>3. <<value>> \o c \in Seq(Values)
    BY EndFacts
  <2>4. PICK q \in Seq(Values) : q = Promised!Foremost(<<value>> \o c, max) /\ (max # Unbounded => Len(q) <= max)
    BY <2>3, KeptValues
  <2>5. Owned' /\ BecomesIs(a, q)
    BY <2>1, <2>2, <2>4, <1>7, StoredContent
  <2>6. PICK added : added = <<value>>
    OBVIOUS
  <2>7. Reverse(added) = added
    BY <2>6, OneReversed
  <2>8. q = Promised!Foremost(Reverse(added) \o Contents[a], Limited[a])
    BY <2>4, <2>6, <2>7, <1>5, <1>7
  <2>9. Promised!SequencesNext
    BY <2>2, <2>5, <2>6, <2>8, <1>1, AsAddLeft
  <2>10. QED
    BY <2>5, <2>9
<1>10. ASSUME NEW value \in Values, Push(h, value) PROVE Owned' /\ Promised!SequencesNext
  <2>1. max = Unbounded
    BY <1>6, <1>10 DEF Push, Method, Owned
  <2>2. \A t \in Appended(s, <<value>>) : Fits(t, Len(arrays[a].slots)) /\ Content(t) = Content(s) \o <<value>>
    <3>1. PICK added : added = <<value>> /\ added \in Seq(Cells)
      <4>1. <<value>> \in Seq(Cells)
        BY <1>1
      <4>2. QED
        BY <4>1
    <3>2. ASSUME NEW t \in Appended(s, added)
          PROVE  /\ Fits(t, Len(arrays[a].slots)) /\ t.length = s.length + Len(added)
                 /\ Content(t) = Content(s) \o added
      <4>1. added \in Seq(Cells) /\ Fits(s, Len(arrays[a].slots)) /\ program \in Programs
        BY <3>1, <1>1, <1>7
      <4>2. PICK n : n = Len(arrays[a].slots)
        OBVIOUS
      <4>3. Fits(s, n)
        BY <4>1, <4>2
      <4>4. Fits(t, n) /\ t.length = s.length + Len(added) /\ Content(t) = Content(s) \o added
        BY ONLY <4>1, <4>3, t \in Appended(s, added), AppendedFacts
      <4>5. QED
        BY <4>2, <4>4
    <3>3. Appended(s, <<value>>) = Appended(s, added)
      BY <3>1
    <3>4. QED
      BY <3>1, <3>2, <3>3, Zenon
  <2>3. Store(a, Appended(s, <<value>>)) /\ answer' = Null /\ program' = program
    BY <1>3, <1>4, <1>10 DEF Push, Run, Answer
  <2>4. PICK q \in Seq(Values) : q = c \o <<value>>
    BY EndFacts
  <2>5. Owned' /\ BecomesIs(a, q)
    BY <2>1, <2>2, <2>3, <2>4, <1>7, StoredContent
  <2>6. PICK added : added = <<value>>
    OBVIOUS
  <2>7. q = Promised!Newest(Contents[a] \o added, Limited[a])
    BY <2>1, <2>4, <2>6, <1>5, <1>7 DEF Promised!Newest, Promised!Unbounded, Unbounded
  <2>8. Promised!SequencesNext
    BY <2>3, <2>5, <2>6, <2>7, <1>1, AsAddRight DEF BecomesIs
  <2>9. QED
    BY <2>5, <2>8
<1>11. ASSUME Pop(h) PROVE Owned' /\ Promised!SequencesNext
  <2>1. s.length \in Nat /\ (s.length = 0 <=> c = <<>>)
    BY <1>1, <1>7, FitsFacts, EmptySeq
  <2>2. CASE s.length = 0
    <3>1. Fail("IndexError")
      BY <2>2, <1>4, <1>11 DEF Pop
    <3>2. answer' = Raised("IndexError") /\ UNCHANGED <<arrays, handles, program>>
      BY <3>1 DEF Fail, Answer
    <3>3. Contents' = Contents /\ Limited' = Limited /\ Owned'
      BY <3>2, SameContents
    <3>4. QED
      BY <3>2, <3>3, <2>1, <2>2, <1>5, AsTake
  <2>3. CASE s.length # 0
    <3>1. Store(a, {Shortened(s)}) /\ answer' = Given(s.slots[s.length]) /\ program' = program
      BY <2>3, <1>3, <1>4, <1>11 DEF Pop, Run, Answer
    <3>2. /\ Fits(Shortened(s), Len(arrays[a].slots)) /\ Content(Shortened(s)) = Front(Content(s))
          /\ s.slots[s.length] = Last(Content(s)) /\ Shortened(s).length = s.length - 1
      <4>1. s.length > 0
        BY <2>1, <2>3
      <4>2. QED
        BY <4>1, <1>1, <1>7, PopFacts
    <3>3. PICK n \in Nat : n = s.length - 1
      BY <2>1, <2>3
    <3>4. PICK q \in Seq(Values) : q = Front(c) /\ Len(q) = n
      <4>1. Len(c) = n + 1
        BY <3>3, <1>7, <2>1
      <4>2. QED
        BY <4>1, FrontFacts
    <3>5. Limited[a] # Unbounded => Len(q) <= Limited[a]
      BY <3>3, <3>4, <2>1, <1>7 DEF Within, Limits
    <3>6. \A t \in {Shortened(s)} : Fits(t, Len(arrays[a].slots)) /\ Content(t) = q
      BY <3>2, <3>4, <1>7
    <3>7. Owned' /\ BecomesIs(a, q)
      BY <3>1, <3>5, <3>6, StoredContent
    <3>8. BecomesIs(a, Front(Contents[a])) /\ answer' = Given(Last(Contents[a]))
      BY <3>1, <3>2, <3>4, <3>7, <1>5, <1>7 DEF BecomesIs
    <3>9. Contents[a] # <<>>
      BY <2>1, <2>3, <1>5
    <3>10. QED
      BY <3>7, <3>8, <3>9, AsTake
  <2>4. QED
    BY <2>2, <2>3
<1>12. QED
  BY <1>2, <1>8, <1>9, <1>10, <1>11

\* The array of an operand, and its content.
LEMMA FunctionFacts ==
  ASSUME Shaped, Owned, ~direct, NEW c \in Operands, NEW a, a = ArrayOf(c), NEW s, s = Slice(Target(c)), NEW n,
         n = Len(arrays[a].slots)
  PROVE  /\ a \in ArrayIds /\ Fits(s, n) /\ Content(s) = Contents[a]
         /\ Contents[a] \in Seq(Values) /\ Len(Contents[a]) = s.length /\ s.length \in Nat
         /\ \A i \in 1 .. s.length : Contents[a][i] = s.slots[i]
         /\ Limited[a] = BoundOf(c) /\ BoundOf(c) \in Limits /\ Within(s, BoundOf(c))
<1>1. /\ a \in ArrayIds /\ BoundOf(c) \in Limits /\ Target(c) = arrays[a] /\ program \in Programs
  BY OperandFacts, ShapeFacts
<1>2. Fits(s, n) /\ Content(s) = Content(Target(c)) /\ s.length = arrays[a].length
  BY OperandSlice
<1>3. /\ Limited[a] = BoundOf(c) /\ Contents[a] = Content(Target(c)) /\ Contents[a] \in Seq(Values)
      /\ BoundOf(c) # Unbounded => arrays[a].length <= BoundOf(c)
  BY OperandBound
<1>4. /\ s.length \in Nat /\ Len(Content(s)) = s.length
      /\ \A i \in 1 .. s.length : Content(s)[i] = s.slots[i]
  BY <1>1, <1>2, FitsFacts
<1>5. QED
  BY <1>1, <1>2, <1>3, <1>4 DEF Within

\* What Do and Fail mean for the contents.
LEMMA DoContent ==
  ASSUME Shaped, Owned, NEW c \in Operands, NEW a \in ArrayIds, a = ArrayOf(c), NEW n, n = Len(arrays[a].slots),
         NEW outcomes, NEW q \in Seq(Values), NEW result, Do(c, outcomes, result),
         \A t \in outcomes : Fits(t, n) /\ Content(t) = q,
         Limited[a] # Unbounded => Len(q) <= Limited[a]
  PROVE  Owned' /\ BecomesIs(a, q) /\ answer' = result
<1>1. Store(a, outcomes) /\ program' = program /\ answer' = result
  BY DEF Do, Answer
<1>2. QED
  BY <1>1, StoredContent

LEMMA FailContent ==
  ASSUME Owned, NEW e, Fail(e)
  PROVE  Owned' /\ answer' = Raised(e) /\ UNCHANGED <<Contents, Limited>>
<1>1. UNCHANGED <<arrays, handles, program>> /\ answer' = Raised(e)
  BY DEF Fail, Answer
<1>2. QED
  BY <1>1, SameContents

\* Every function does what is promised, one by one.
LEMMA ClearAsPromised ==
  ASSUME Shaped, Owned, ~direct, NEW c \in Operands, Clear(c)
  PROVE  Owned' /\ Promised!SequencesNext
<1>1. program \in Programs
  BY ShapeFacts
<1>2. PICK a : a = ArrayOf(c)
  OBVIOUS
<1>3. PICK s : s = Slice(Target(c))
  OBVIOUS
<1>4. PICK n : n = Len(arrays[a].slots)
  OBVIOUS
<1>5. a \in ArrayIds /\ Fits(s, n) /\ Limited[a] \in Limits
  BY <1>2, <1>3, <1>4, FunctionFacts
<1>6. PICK t : t = Moved([s EXCEPT !.slots =
                            [i \in DOMAIN s.slots |-> IF i <= s.length THEN Nil ELSE s.slots[i]]], <<>>, 0)
  OBVIOUS
<1>7. Do(c, {t}, Null)
  BY <1>3, <1>6 DEF Clear
<1>8. Fits(t, n) /\ Content(t) = <<>>
  BY <1>1, <1>5, <1>6, ClearedFacts
<1>9. PICK q : q = <<>> /\ q \in Seq(Values) /\ Len(q) = 0
  <2>1. <<>> \in Seq(Values) /\ Len(<<>>) = 0
    BY EmptySeq
  <2>2. QED
    BY <2>1
<1>10. Limited[a] # Unbounded => Len(q) <= Limited[a]
  BY <1>5, <1>9 DEF Limits
<1>11. \A u \in {t} : Fits(u, n) /\ Content(u) = q
  BY <1>8, <1>9
<1>12. Owned' /\ BecomesIs(a, q) /\ answer' = Null
  <2>1. q \in Seq(Values)
    BY <1>9
  <2>2. QED
    BY <2>1, <1>2, <1>4, <1>5, <1>7, <1>10, <1>11, DoContent
<1>13. BecomesIs(a, <<>>)
  BY <1>9, <1>12 DEF BecomesIs
<1>14. QED
  BY <1>1, <1>5, <1>12, <1>13, AsWhole

LEMMA ReverseAsPromised ==
  ASSUME Shaped, Owned, ~direct, NEW c \in Operands, ReverseInPlace(c)
  PROVE  Owned' /\ Promised!SequencesNext
<1>1. program \in Programs
  BY ShapeFacts
<1>2. PICK a : a = ArrayOf(c)
  OBVIOUS
<1>3. PICK s : s = Slice(Target(c))
  OBVIOUS
<1>4. PICK n : n = Len(arrays[a].slots)
  OBVIOUS
<1>5. /\ a \in ArrayIds /\ Fits(s, n) /\ Limited[a] \in Limits /\ Content(s) = Contents[a]
      /\ Contents[a] \in Seq(Values) /\ Len(Contents[a]) = s.length /\ Within(s, Limited[a])
  BY <1>2, <1>3, <1>4, FunctionFacts
<1>6. PICK t : t = [s EXCEPT !.slots =
                      [i \in DOMAIN s.slots |-> IF i <= s.length THEN s.slots[s.length + 1 - i] ELSE s.slots[i]]]
  OBVIOUS
<1>7. Do(c, {t}, Null)
  BY <1>3, <1>6 DEF ReverseInPlace
<1>8. Fits(t, n) /\ Content(t) = Reverse(Content(s))
  BY <1>1, <1>5, <1>6, ReversedFacts
<1>9. PICK q \in Seq(Values) : q = Reverse(Contents[a]) /\ Len(q) = s.length
  BY <1>5, ReverseFacts
<1>10. Limited[a] # Unbounded => Len(q) <= Limited[a]
  BY <1>5, <1>9 DEF Within
<1>11. \A u \in {t} : Fits(u, n) /\ Content(u) = q
  BY <1>5, <1>8, <1>9
<1>12. Owned' /\ BecomesIs(a, q) /\ answer' = Null
  BY <1>2, <1>4, <1>5, <1>7, <1>9, <1>10, <1>11, DoContent
<1>13. BecomesIs(a, Reverse(Contents[a]))
  BY <1>9, <1>12 DEF BecomesIs
<1>14. QED
  BY <1>1, <1>5, <1>12, <1>13, AsWhole

\* Without its first element a sequence is its tail.
LEMMA TailFacts ==
  ASSUME NEW S, NEW q \in Seq(S), Len(q) # 0
  PROVE  /\ RemoveAt(q, 1) = Tail(q) /\ RemoveAt(q, 1) \in Seq(S) /\ Len(RemoveAt(q, 1)) = Len(q) - 1
         /\ Head(q) = q[1] /\ q # <<>>
<1>1. Len(q) \in Nat /\ q # <<>>
  BY LenProperties, EmptySeq
<1>2. 1 \in 1 .. Len(q)
  BY <1>1
<1>3. /\ RemoveAt(q, 1) \in Seq(S) /\ Len(RemoveAt(q, 1)) = Len(q) - 1
      /\ \A j \in 1 .. Len(q) - 1 : RemoveAt(q, 1)[j] = IF j < 1 THEN q[j] ELSE q[j + 1]
  BY <1>2, RemoveAtFacts
<1>4. /\ Tail(q) \in Seq(S) /\ Len(Tail(q)) = Len(q) - 1 /\ \A i \in 1 .. Len(Tail(q)) : Tail(q)[i] = q[i + 1]
  BY <1>1, HeadTailProperties
<1>5. \A j \in 1 .. Len(q) - 1 : ~(j < 1) /\ RemoveAt(q, 1)[j] = Tail(q)[j]
  BY <1>1, <1>3, <1>4
<1>6. RemoveAt(q, 1) = Tail(q)
  BY <1>3, <1>4, <1>5, SeqEqual
<1>7. QED
  BY <1>1, <1>3, <1>6

LEMMA PopLeftAsPromised ==
  ASSUME Shaped, Owned, ~direct, NEW c \in Operands, PopLeft(c)
  PROVE  Owned' /\ Promised!SequencesNext
<1>1. program \in Programs
  BY ShapeFacts
<1>2. PICK a : a = ArrayOf(c)
  OBVIOUS
<1>3. PICK s : s = Slice(Target(c))
  OBVIOUS
<1>4. PICK n : n = Len(arrays[a].slots)
  OBVIOUS
<1>5. /\ a \in ArrayIds /\ Fits(s, n) /\ Limited[a] \in Limits /\ Content(s) = Contents[a]
      /\ Contents[a] \in Seq(Values) /\ Len(Contents[a]) = s.length /\ Within(s, Limited[a]) /\ s.length \in Nat
      /\ \A i \in 1 .. s.length : Contents[a][i] = s.slots[i]
  BY <1>2, <1>3, <1>4, FunctionFacts
<1>6. CASE s.length = 0
  <2>1. Fail("IndexError")
    BY <1>3, <1>6 DEF PopLeft
  <2>2. Contents[a] = <<>>
    BY <1>5, <1>6, EmptySeq
  <2>3. Owned' /\ answer' = Raised("IndexError") /\ UNCHANGED <<Contents, Limited>>
    BY <2>1, FailContent
  <2>4. QED
    BY <1>5, <2>2, <2>3, AsTake
<1>7. CASE s.length # 0
  <2>1. PICK t : t = Shortened([s EXCEPT !.slots = ClosedUp(s, 1)])
    OBVIOUS
  <2>2. Do(c, {t}, Given(s.slots[1]))
    BY <1>3, <1>7, <2>1 DEF PopLeft
  <2>3. 1 \in 1 .. s.length
    BY <1>5, <1>7
  <2>4. Fits(t, n) /\ t.length = s.length - 1 /\ Content(t) = RemoveAt(Content(s), 1)
    <3>1. Fits(s, n)
      BY <1>5
    <3>2. QED
      BY ONLY <1>1, <3>1, <2>1, <2>3, TakenFacts
  <2>5. PICK old \in Seq(Values) : old = Contents[a] /\ Len(old) # 0
    BY <1>5, <1>7
  <2>6. PICK q \in Seq(Values) : q = RemoveAt(old, 1) /\ Len(q) = Len(old) - 1
    BY <2>5, TailFacts
  <2>7. q = Tail(old) /\ Head(old) = old[1] /\ old # <<>>
    BY <2>5, <2>6, TailFacts
  <2>8. Limited[a] # Unbounded => Len(q) <= Limited[a]
    BY <1>5, <2>5, <2>6 DEF Within, Limits
  <2>9. \A u \in {t} : Fits(u, n) /\ Content(u) = q
    BY <1>5, <2>4, <2>5, <2>6
  <2>10. Owned' /\ BecomesIs(a, q) /\ answer' = Given(s.slots[1])
    BY <1>2, <1>4, <1>5, <2>2, <2>8, <2>9, DoContent
  <2>11. BecomesIs(a, Tail(Contents[a])) /\ answer' = Given(Head(Contents[a])) /\ Contents[a] # <<>>
    BY <1>5, <2>3, <2>5, <2>7, <2>10 DEF BecomesIs
  <2>12. QED
    BY <1>5, <2>10, <2>11, AsTake
<1>8. QED
  BY <1>6, <1>7

LEMMA RemoveAsPromised ==
  ASSUME Shaped, Owned, ~direct, NEW c \in Operands, NEW value \in Values, RemoveElement(c, value)
  PROVE  Owned' /\ Promised!SequencesNext
<1>1. program \in Programs
  BY ShapeFacts
<1>2. PICK a : a = ArrayOf(c)
  OBVIOUS
<1>3. PICK s : s = Slice(Target(c))
  OBVIOUS
<1>4. PICK n : n = Len(arrays[a].slots)
  OBVIOUS
<1>5. /\ a \in ArrayIds /\ Fits(s, n) /\ Limited[a] \in Limits /\ Content(s) = Contents[a]
      /\ Contents[a] \in Seq(Values) /\ Len(Contents[a]) = s.length /\ Within(s, Limited[a]) /\ s.length \in Nat
      /\ \A i \in 1 .. s.length : Contents[a][i] = s.slots[i]
  BY <1>2, <1>3, <1>4, FunctionFacts
<1>6. PICK old \in Seq(Values) : old = Contents[a]
  BY <1>5
<1>7. Content(s) = old /\ Len(old) = s.length /\ DOMAIN old = 1 .. s.length
  BY <1>5, <1>6, LenProperties
<1>8. PICK found : found = {i \in 1 .. s.length : Equal(s.slots[i], value)}
  OBVIOUS
<1>9. found = {i \in DOMAIN Contents[a] : Equal(Contents[a][i], value)}
  <2>1. \A i \in 1 .. s.length : Equal(Contents[a][i], value) <=> Equal(s.slots[i], value)
    BY <1>5
  <2>2. QED
    BY <2>1, <1>6, <1>7, <1>8
<1>10. CASE found = {}
  <2>1. Fail("ValueError")
    BY <1>3, <1>8, <1>10 DEF RemoveElement
  <2>2. Owned' /\ answer' = Raised("ValueError") /\ UNCHANGED <<Contents, Limited>>
    BY <2>1, FailContent
  <2>3. QED
    BY <1>1, <1>5, <1>9, <1>10, <2>2, AsRemove
<1>11. CASE found # {}
  <2>1. found \in SUBSET (1 .. s.length)
    BY <1>8
  <2>2. PICK i \in 1 .. s.length : i = Min(found) /\ i \in found /\ \A j \in found : i <= j
    BY <1>5, <2>1, <1>11, FirstFound
  <2>3. PICK t : t = Shortened([s EXCEPT !.slots = ClosedUp(s, i)])
    OBVIOUS
  <2>4. Do(c, {t}, Null)
    BY <1>3, <1>8, <1>11, <2>2, <2>3 DEF RemoveElement
  <2>5. Fits(t, n) /\ t.length = s.length - 1 /\ Content(t) = RemoveAt(Content(s), i)
    <3>1. Fits(s, n) /\ i \in 1 .. s.length
      BY <1>5
    <3>2. QED
      BY ONLY <1>1, <3>1, <2>3, TakenFacts
  <2>6. PICK q \in Seq(Values) : q = RemoveAt(old, i) /\ Len(q) = Len(old) - 1
    <3>1. i \in 1 .. Len(old)
      BY <1>7
    <3>2. RemoveAt(old, i) \in Seq(Values) /\ Len(RemoveAt(old, i)) = Len(old) - 1
      BY <3>1, RemoveAtFacts
    <3>3. QED
      BY <3>2
  <2>7. Limited[a] # Unbounded => Len(q) <= Limited[a]
    BY <1>5, <1>7, <2>6 DEF Within, Limits
  <2>8. \A u \in {t} : Fits(u, n) /\ Content(u) = q
    BY <1>7, <2>5, <2>6
  <2>9. Owned' /\ BecomesIs(a, q) /\ answer' = Null
    BY <1>2, <1>4, <1>5, <2>4, <2>7, <2>8, DoContent
  <2>10. BecomesIs(a, RemoveAt(Contents[a], i))
    BY <1>6, <2>6, <2>9 DEF BecomesIs
  <2>11. QED
    BY <1>1, <1>5, <1>9, <1>11, <2>2, <2>9, <2>10, AsRemove
<1>12. QED
  BY <1>10, <1>11

LEMMA InsertAsPromised ==
  ASSUME Shaped, Owned, ~direct, NEW c \in Operands, NEW index \in Offsets, NEW value \in Values, Insert(c, index, value)
  PROVE  Owned' /\ Promised!SequencesNext
<1>1. program \in Programs /\ index \in Int /\ value \in Cells
  BY ShapeFacts, ProgramFacts
<1>2. PICK a : a = ArrayOf(c)
  OBVIOUS
<1>3. PICK s : s = Slice(Target(c))
  OBVIOUS
<1>4. PICK n : n = Len(arrays[a].slots)
  OBVIOUS
<1>5. /\ a \in ArrayIds /\ Fits(s, n) /\ Limited[a] \in Limits /\ Content(s) = Contents[a]
      /\ Contents[a] \in Seq(Values) /\ Len(Contents[a]) = s.length /\ Within(s, Limited[a]) /\ s.length \in Nat
      /\ Limited[a] = BoundOf(c)
  BY <1>2, <1>3, <1>4, FunctionFacts
<1>6. PICK old \in Seq(Values) : old = Contents[a]
  BY <1>5
<1>7. Content(s) = old /\ Len(old) = s.length
  BY <1>5, <1>6
<1>8. CASE BoundOf(c) # Unbounded /\ s.length >= BoundOf(c)
  <2>1. Fail("IndexError")
    BY <1>3, <1>8 DEF Insert
  <2>2. Owned' /\ answer' = Raised("IndexError") /\ UNCHANGED <<Contents, Limited>>
    BY <2>1, FailContent
  <2>3. Limited[a] # Unbounded /\ Len(Contents[a]) >= Limited[a]
    BY <1>5, <1>8
  <2>4. QED
    BY <1>1, <1>5, <2>2, <2>3, AsPlace
<1>9. CASE ~(BoundOf(c) # Unbounded /\ s.length >= BoundOf(c))
  <2>1. InsertPosition(index, s.length) \in 0 .. s.length
    BY <1>1, <1>5, PositionFacts
  <2>2. PICK i \in 1 .. s.length + 1 : i = InsertPosition(index, s.length) + 1
    <3>1. InsertPosition(index, s.length) + 1 \in 1 .. s.length + 1
      BY <1>5, <2>1
    <3>2. QED
      BY <3>1
  <2>3. PICK outcomes : outcomes = {[t EXCEPT !.slots = [OpenedUp(t, i) EXCEPT ![i] = value]] :
                                      t \in Appended(s, <<Nil>>)}
    OBVIOUS
  <2>4. Do(c, outcomes, Null)
    BY <1>3, <1>9, <2>2, <2>3 DEF Insert
  <2>5. ASSUME NEW t \in outcomes
        PROVE  Fits(t, n) /\ Content(t) = InsertAt(Content(s), i, value)
    <3>1. PICK u \in Appended(s, <<Nil>>) : t = [u EXCEPT !.slots = [OpenedUp(u, i) EXCEPT ![i] = value]]
      BY <2>3
    <3>2. Fits(s, n) /\ program \in Programs /\ value \in Cells /\ i \in 1 .. s.length + 1
      BY <1>1, <1>5
    <3>3. QED
      <4>1. u \in Appended(s, <<Nil>>)
        OBVIOUS
      <4>2. Fits(t, n)
        BY ONLY <3>1, <3>2, <4>1, InsertedFacts
      <4>3. Content(t) = InsertAt(Content(s), i, value)
        BY ONLY <3>1, <3>2, <4>1, InsertedFacts
      <4>4. QED
        BY <4>2, <4>3
  <2>6. PICK q \in Seq(Values) : q = InsertAt(old, i, value) /\ Len(q) = Len(old) + 1
    <3>1. i \in 1 .. Len(old) + 1
      BY <1>7
    <3>2. InsertAt(old, i, value) \in Seq(Values) /\ Len(InsertAt(old, i, value)) = Len(old) + 1
      BY <3>1, InsertAtFacts
    <3>3. QED
      BY <3>2
  <2>7. Limited[a] # Unbounded => Len(q) <= Limited[a]
    BY <1>5, <1>7, <1>9, <2>6 DEF Limits
  <2>8. \A u \in outcomes : Fits(u, n) /\ Content(u) = q
    BY <1>7, <2>5, <2>6
  <2>9. Owned' /\ BecomesIs(a, q) /\ answer' = Null
    BY <1>2, <1>4, <1>5, <2>4, <2>7, <2>8, DoContent
  <2>10. q = InsertAt(Contents[a], InsertPosition(index, Len(Contents[a])) + 1, value)
    BY <1>5, <1>6, <2>2, <2>6
  <2>11. BecomesIs(a, InsertAt(Contents[a], InsertPosition(index, Len(Contents[a])) + 1, value))
    BY <2>9, <2>10 DEF BecomesIs
  <2>12. ~(Limited[a] # Unbounded /\ Len(Contents[a]) >= Limited[a])
    BY <1>5, <1>9
  <2>13. QED
    BY <1>1, <1>5, <2>9, <2>11, <2>12, AsPlace
<1>10. QED
  BY <1>8, <1>9

LEMMA RotateAsPromised ==
  ASSUME Shaped, Owned, ~direct, NEW c \in Operands, NEW amount \in Offsets, Rotate(c, amount)
  PROVE  Owned' /\ Promised!SequencesNext
<1>1. program \in Programs /\ amount \in Int
  BY ShapeFacts, ProgramFacts
<1>2. PICK a : a = ArrayOf(c)
  OBVIOUS
<1>3. PICK s : s = Slice(Target(c))
  OBVIOUS
<1>4. PICK n : n = Len(arrays[a].slots)
  OBVIOUS
<1>5. /\ a \in ArrayIds /\ Fits(s, n) /\ Limited[a] \in Limits /\ Content(s) = Contents[a]
      /\ Contents[a] \in Seq(Values) /\ Len(Contents[a]) = s.length /\ Within(s, Limited[a]) /\ s.length \in Nat
  BY <1>2, <1>3, <1>4, FunctionFacts
<1>6. PICK old \in Seq(Values) : old = Contents[a]
  BY <1>5
<1>7. PICK length \in Nat : length = s.length
  BY <1>5
<1>8. Content(s) = old /\ Len(old) = length
  BY <1>5, <1>6, <1>7
<1>9. CASE length = 0 \/ Shift(amount, length) = 0
  <2>1. Do(c, {s}, Null)
    BY <1>3, <1>7, <1>9 DEF Rotate
  <2>2. Len(old) = 0 \/ amount % Len(old) = 0
    BY <1>1, <1>8, <1>9, ShiftFacts
  <2>3. Rotation(old, amount) = old
    BY <1>1, <2>2, RestFacts
  <2>4. \A u \in {s} : Fits(u, n) /\ Content(u) = old
    BY <1>5, <1>8
  <2>5. Limited[a] # Unbounded => Len(old) <= Limited[a]
    BY <1>5, <1>7, <1>8 DEF Within
  <2>6. Owned' /\ BecomesIs(a, old) /\ answer' = Null
    BY <1>2, <1>4, <1>5, <2>1, <2>4, <2>5, DoContent
  <2>7. BecomesIs(a, Rotation(Contents[a], amount))
    BY <1>6, <2>3, <2>6 DEF BecomesIs
  <2>8. QED
    BY <1>1, <1>5, <2>6, <2>7, AsWhole
<1>10. CASE ~(length = 0 \/ Shift(amount, length) = 0)
  <2>1. Shift(amount, length) = amount % length /\ amount % length \in 0 .. length - 1
    BY <1>1, <1>10, ShiftFacts
  <2>2. PICK shift \in 1 .. s.length - 1 : shift = amount % s.length /\ shift = Shift(amount, s.length)
    <3>1. amount % length \in 1 .. length - 1
      BY <2>1, <1>10
    <3>2. QED
      BY <3>1, <2>1, <1>7
  <2>3. PICK rest \in Nat : rest = s.length - shift
    <3>1. s.length - shift \in Nat
      BY <1>7
    <3>2. QED
      BY <3>1
  <2>4. PICK t : t = Moved(s, SubSeq(s.slots, rest + 1, s.length) \o SubSeq(s.slots, 1, rest), s.length)
    OBVIOUS
  <2>5. Do(c, {t}, Null)
    BY <1>3, <1>7, <1>10, <2>2, <2>3, <2>4 DEF Rotate
  <2>6. Fits(t, n) /\ t.length = s.length /\ Content(t) = Rotation(Content(s), amount)
    <3>1. Fits(s, n) /\ s.length # 0 /\ shift \in 1 .. s.length - 1 /\ shift = amount % s.length
          /\ program \in Programs /\ amount \in Int
      BY <1>1, <1>5, <1>7, <1>10, <2>2
    <3>2. QED
      BY ONLY <3>1, <2>3, rest \in Nat, <2>4, RotatedFacts
  <2>7. PICK q \in Seq(Values) : q = Rotation(old, amount) /\ Len(q) = Len(old)
    <3>1. PICK d \in 0 .. Len(old) - 1 : d = amount % Len(old) /\ Len(old) # 0
      BY <1>8, <1>10, <2>1
    <3>2. Rotation(old, amount) \in Seq(Values) /\ Len(Rotation(old, amount)) = Len(old)
      <4>1. d \in 0 .. Len(old) - 1 /\ old \in Seq(Values) /\ amount \in Int
        BY <1>1
      <4>2. QED
        BY ONLY <3>1, <4>1, RotationFacts
    <3>3. QED
      BY <3>2
  <2>8. Limited[a] # Unbounded => Len(q) <= Limited[a]
    BY <1>5, <1>7, <1>8, <2>7 DEF Within
  <2>9. \A u \in {t} : Fits(u, n) /\ Content(u) = q
    BY <1>8, <2>6, <2>7
  <2>10. Owned' /\ BecomesIs(a, q) /\ answer' = Null
    BY <1>2, <1>4, <1>5, <2>5, <2>8, <2>9, DoContent
  <2>11. BecomesIs(a, Rotation(Contents[a], amount))
    BY <1>6, <2>7, <2>10 DEF BecomesIs
  <2>12. QED
    BY <1>1, <1>5, <2>10, <2>11, AsWhole
<1>11. QED
  BY <1>9, <1>10

\* A whole sequence is its longest stretch.
LEMMA WholePrefix ==
  ASSUME NEW S, NEW q \in Seq(S)
  PROVE  SubSeq(q, 1, Len(q)) = q
<1>1. Len(q) \in Nat
  BY LenProperties
<1>2. PICK p : p = SubSeq(q, 1, Len(q))
  OBVIOUS
<1>3. p \in Seq(S) /\ Len(p) = Len(q) /\ \A i \in 1 .. Len(q) : p[i] = q[i]
  BY <1>1, <1>2, PrefixFacts
<1>4. QED
  BY <1>2, <1>3, SeqEqual

LEMMA ExtendAsPromised ==
  ASSUME Shaped, Owned, ~direct, NEW c \in Operands, NEW d \in Operands, Extend(c, d)
  PROVE  Owned' /\ Promised!SequencesNext
<1>1. program \in Programs /\ Values \subseteq Cells
  BY ShapeFacts, ProgramFacts
<1>2. PICK a : a = ArrayOf(c)
  OBVIOUS
<1>3. PICK s : s = Slice(Target(c))
  OBVIOUS
<1>4. PICK n : n = Len(arrays[a].slots)
  OBVIOUS
<1>5. /\ a \in ArrayIds /\ Fits(s, n) /\ Limited[a] \in Limits /\ Content(s) = Contents[a]
      /\ Contents[a] \in Seq(Values) /\ Len(Contents[a]) = s.length /\ Within(s, Limited[a]) /\ s.length \in Nat
      /\ Limited[a] = BoundOf(c)
  BY <1>2, <1>3, <1>4, FunctionFacts
<1>6. PICK max \in Limits : max = BoundOf(c)
  BY <1>5
<1>7. PICK old \in Seq(Values) : old = Contents[a]
  BY <1>5
<1>8. PICK b \in ArrayIds : b = ArrayOf(d)
  BY OperandFacts
<1>9. PICK added \in Seq(Values) : added = Contents[b] /\ added = Content(Target(d))
  BY <1>8, OperandBound
<1>10. added \in Seq(Cells) /\ old \in Seq(Cells) /\ Content(s) = old /\ Within(s, max)
  <2>1. Seq(Values) \subseteq Seq(Cells)
    BY <1>1
  <2>2. QED
    BY <2>1, <1>5, <1>6, <1>7
<1>11. PICK outcomes : outcomes = IF max # Unbounded THEN OneByOne("right", s, added, max) ELSE Appended(s, added)
  OBVIOUS
<1>12. Do(c, outcomes, Null)
  BY <1>3, <1>6, <1>9, <1>11 DEF Extend
<1>13. old \o added \in Seq(Values) /\ old \o added \in Seq(Cells)
  BY <1>10, ConcatProperties
<1>14. PICK q \in Seq(Values) : q = Promised!Newest(old \o added, max) /\ (max # Unbounded => Len(q) <= max)
  BY <1>13, KeptValues
<1>15. ASSUME NEW t \in outcomes PROVE Fits(t, n) /\ Content(t) = q
  <2>1. CASE max # Unbounded
    <3>1. t \in OneByOne("right", s, added, max)
      BY <2>1, <1>11
    <3>2. Fits(t, n) /\ Content(t) = Gained("right", Content(s), added, Len(added), max)
      BY <3>1, <1>1, <1>5, <1>10, OneByOneFacts
    <3>3. Gained("right", old, added, Len(added), max) = Promised!Newest(old \o added, max)
      BY <1>10, WholePrefix DEF Gained
    <3>4. QED
      BY <3>2, <3>3, <1>10, <1>14
  <2>2. CASE max = Unbounded
    <3>1. t \in Appended(s, added)
      BY <2>2, <1>11
    <3>2. Fits(t, n) /\ t.length = s.length + Len(added) /\ Content(t) = Content(s) \o added
      BY <3>1, <1>1, <1>5, <1>10, AppendedFacts, ZenonT(60)
    <3>3. q = old \o added
      BY <2>2, <1>14 DEF Promised!Newest, Promised!Unbounded, Unbounded
    <3>4. QED
      BY <3>2, <3>3, <1>10
  <2>3. QED
    BY <2>1, <2>2
<1>16. Limited[a] # Unbounded => Len(q) <= Limited[a]
  BY <1>5, <1>6, <1>14
<1>17. Owned' /\ BecomesIs(a, q) /\ answer' = Null
  BY <1>2, <1>4, <1>5, <1>12, <1>15, <1>16, DoContent
<1>18. q = Promised!Newest(Contents[a] \o added, Limited[a])
  BY <1>5, <1>6, <1>7, <1>14
<1>19. Promised!SequencesNext
  BY <1>1, <1>5, <1>8, <1>9, <1>17, <1>18, AsAddRight DEF BecomesIs
<1>20. QED
  BY <1>17, <1>19

LEMMA ExtendLeftAsPromised ==
  ASSUME Shaped, Owned, ~direct, NEW c \in Operands, NEW d \in Operands, ExtendLeft(c, d)
  PROVE  Owned' /\ Promised!SequencesNext
<1>1. program \in Programs /\ Values \subseteq Cells
  BY ShapeFacts, ProgramFacts
<1>2. PICK a : a = ArrayOf(c)
  OBVIOUS
<1>3. PICK s : s = Slice(Target(c))
  OBVIOUS
<1>4. PICK n : n = Len(arrays[a].slots)
  OBVIOUS
<1>5. /\ a \in ArrayIds /\ Fits(s, n) /\ Limited[a] \in Limits /\ Content(s) = Contents[a]
      /\ Contents[a] \in Seq(Values) /\ Len(Contents[a]) = s.length /\ Within(s, Limited[a]) /\ s.length \in Nat
      /\ Limited[a] = BoundOf(c)
  BY <1>2, <1>3, <1>4, FunctionFacts
<1>6. PICK max \in Limits : max = BoundOf(c)
  BY <1>5
<1>7. PICK old \in Seq(Values) : old = Contents[a]
  BY <1>5
<1>8. PICK b \in ArrayIds : b = ArrayOf(d)
  BY OperandFacts
<1>9. PICK added \in Seq(Values) : added = Contents[b] /\ added = Content(Target(d))
  BY <1>8, OperandBound
<1>10. added \in Seq(Cells) /\ old \in Seq(Cells) /\ Content(s) = old /\ Within(s, max)
  <2>1. Seq(Values) \subseteq Seq(Cells)
    BY <1>1
  <2>2. QED
    BY <2>1, <1>5, <1>6, <1>7
<1>11. PICK joined \in Seq(Values) : joined = Reverse(added) \o old
  <2>1. Reverse(added) \in Seq(Values)
    BY ReverseFacts
  <2>2. QED
    BY <2>1, ConcatProperties
<1>12. PICK outcomes : outcomes = IF max # Unbounded THEN OneByOne("left", s, added, max)
                                  ELSE {t \in {Moved(s, joined, Len(joined))} : Len(joined) <= MaxCapacity}
  OBVIOUS
<1>13. Do(c, outcomes, Null)
  BY <1>3, <1>6, <1>9, <1>10, <1>11, <1>12 DEF ExtendLeft
<1>14. PICK q \in Seq(Values) : q = Promised!Foremost(joined, max) /\ (max # Unbounded => Len(q) <= max)
  BY KeptValues
<1>15. ASSUME NEW t \in outcomes PROVE Fits(t, n) /\ Content(t) = q
  <2>1. CASE max # Unbounded
    <3>1. t \in OneByOne("left", s, added, max)
      BY <2>1, <1>12
    <3>2. Fits(t, n) /\ Content(t) = Gained("left", Content(s), added, Len(added), max)
      BY <3>1, <1>1, <1>5, <1>10, OneByOneFacts
    <3>3. Gained("left", old, added, Len(added), max) = Promised!Foremost(joined, max)
      BY <1>10, <1>11, WholePrefix DEF Gained
    <3>4. QED
      BY <3>2, <3>3, <1>10, <1>14
  <2>2. CASE max = Unbounded
    <3>1. t \in {u \in {Moved(s, joined, Len(joined))} : Len(joined) <= MaxCapacity}
      BY <2>2, <1>12
    <3>2. joined \in Seq(Cells)
      BY <1>1
    <3>3. Fits(t, n) /\ t.length = Len(joined) /\ Content(t) = joined
      BY <3>1, <3>2, <1>1, <1>5, JoinedFacts
    <3>4. q = joined
      BY <2>2, <1>14 DEF Promised!Foremost, Promised!Unbounded, Unbounded
    <3>5. QED
      BY <3>3, <3>4
  <2>3. QED
    BY <2>1, <2>2
<1>16. Limited[a] # Unbounded => Len(q) <= Limited[a]
  BY <1>5, <1>6, <1>14
<1>17. Owned' /\ BecomesIs(a, q) /\ answer' = Null
  BY <1>2, <1>4, <1>5, <1>13, <1>15, <1>16, DoContent
<1>18. q = Promised!Foremost(Reverse(added) \o Contents[a], Limited[a])
  BY <1>5, <1>6, <1>7, <1>11, <1>14
<1>19. BecomesIs(a, Promised!Foremost(Reverse(added) \o Contents[a], Limited[a]))
  BY <1>17, <1>18 DEF BecomesIs
<1>20. Promised!SequencesNext
  BY <1>1, <1>5, <1>8, <1>9, <1>17, <1>19, AsAddLeft
<1>21. QED
  BY <1>17, <1>20

\* Every function does what is promised.
LEMMA FunctionsAsPromised ==
  ASSUME Shaped, Owned, ~direct, Functions
  PROVE  Owned' /\ Promised!SequencesNext
<1>1. PICK c \in Operands :
        \/ Clear(c) \/ PopLeft(c) \/ ReverseInPlace(c)
        \/ \E d \in Operands : Extend(c, d) \/ ExtendLeft(c, d)
        \/ \E value \in Values : RemoveElement(c, value)
        \/ \E i \in Offsets :
             \/ Rotate(c, i)
             \/ \E value \in Values : Insert(c, i, value)
  BY DEF Functions
<1>2. CASE Clear(c) \/ PopLeft(c) \/ ReverseInPlace(c)
  BY <1>2, ClearAsPromised, PopLeftAsPromised, ReverseAsPromised
<1>3. CASE \E d \in Operands : Extend(c, d) \/ ExtendLeft(c, d)
  BY <1>3, ExtendAsPromised, ExtendLeftAsPromised
<1>4. CASE \E value \in Values : RemoveElement(c, value)
  BY <1>4, RemoveAsPromised
<1>5. CASE \E i \in Offsets : Rotate(c, i) \/ \E value \in Values : Insert(c, i, value)
  BY <1>5, RotateAsPromised, InsertAsPromised
<1>6. QED
  BY <1>1, <1>2, <1>3, <1>4, <1>5

\* Steps that nobody sees in the collections.
LEMMA Unseen ==
  ASSUME Owned, UNCHANGED <<arrays, handles, answer, program>>
  PROVE  Owned' /\ UNCHANGED Promised!sequenceVars
BY SameContents, SequenceVars

\* An index that is refused.
LEMMA PutRefused ==
  ASSUME Shaped, Owned, NEW a \in ArrayIds, NEW index \in Offsets, index \notin 0 .. arrays[a].length - 1,
         UNCHANGED <<arrays, handles, program>>, answer' = Raised("IndexError")
  PROVE  Owned' /\ Promised!SequencesNext
<1>1. program \in Programs
  BY ShapeFacts
<1>2. Owned' /\ UNCHANGED <<Contents, Limited>>
  BY SameContents
<1>3. PICK old \in Seq(Values) : old = Contents[a] /\ Len(old) = arrays[a].length
  BY SlicesFit DEF Contents, Owned
<1>4. CASE old = <<>>
  BY <1>2, <1>3, <1>4, AsTake
<1>5. CASE old # <<>>
  <2>1. PICK value \in Values : value = old[1]
    <3>1. Len(old) \in Nat /\ Len(old) # 0 /\ \A k \in 1 .. Len(old) : old[k] \in Values
      BY <1>5, EmptySeq, LenProperties, ElementOfSeq
    <3>2. QED
      BY <3>1
  <2>2. index \notin 0 .. Len(Contents[a]) - 1
    BY <1>3
  <2>3. QED
    BY <1>1, <1>2, <2>2, AsPut
<1>6. QED
  BY <1>4, <1>5

\* An index assignment writes one element, or refuses the index.
LEMMA BeginAssignAsPromised ==
  ASSUME Shaped, Owned, NEW c \in Operands, NEW index \in Offsets, BeginIndexAssign(c, index)
  PROVE  Owned' /\ (Promised!SequencesNext \/ UNCHANGED Promised!sequenceVars)
<1>1. CASE Enter(Waiting(c, index))
  <2>1. UNCHANGED <<arrays, handles, answer, program>>
    BY <1>1 DEF Enter, Silent
  <2>2. QED
    BY <2>1, Unseen
<1>2. CASE index \notin 0 .. Target(c).length - 1 /\ Fail("IndexError")
  <2>1. PICK a \in ArrayIds : a = ArrayOf(c) /\ Target(c) = arrays[a]
    BY OperandFacts
  <2>2. UNCHANGED <<arrays, handles, program>> /\ answer' = Raised("IndexError")
    BY <1>2 DEF Fail, Answer
  <2>3. QED
    BY <1>2, <2>1, <2>2, PutRefused
<1>3. QED
  BY <1>1, <1>2 DEF BeginIndexAssign

LEMMA EndAssignAsPromised ==
  ASSUME Shaped, Owned, NEW value \in Values, EndIndexAssign(value)
  PROVE  Owned' /\ (Promised!SequencesNext \/ UNCHANGED Promised!sequenceVars)
<1>1. program \in Programs /\ Offsets \subseteq Int
  BY ShapeFacts, ProgramFacts
<1>2. /\ stack # <<>> /\ Top.index \in Offsets
      /\ \/ Top.on.kind = "array" /\ Top.on.id \in ArrayIds
         \/ Top.on.kind = "handle" /\ Top.on.id \in DOMAIN handles
      /\ (IF Top.on.kind = "array" THEN Top.on.id ELSE handles[Top.on.id].captured) \in ArrayIds \cup {0}
  BY AssignedFacts DEF EndIndexAssign
<1>3. PICK a \in ArrayIds : a = IF Top.on.kind = "array" THEN Top.on.id ELSE handles[Top.on.id].captured
  <2>1. \A h \in DOMAIN handles : handles[h].captured \in ArrayIds
    BY ShapeFacts DEF Owned
  <2>2. QED
    BY <1>2, <2>1
<1>4. a # 0 /\ arrays[a].length \in Nat
  BY ShapeFacts
<1>5. PICK index \in Offsets : index = Top.index
  BY <1>2
<1>6. \/ index \in 0 .. arrays[a].length - 1 /\ Put(a, index, value)
      \/ Crash
      \/ index \notin 0 .. arrays[a].length - 1 /\ Refused("IndexError")
  BY <1>3, <1>4, <1>5 DEF EndIndexAssign
<1>7. CASE index \in 0 .. arrays[a].length - 1 /\ Put(a, index, value)
  <2>1. PICK i \in 1 .. arrays[a].length : i = index + 1
    <3>1. index + 1 \in 1 .. arrays[a].length
      BY <1>4, <1>7
    <3>2. QED
      BY <3>1
  <2>2. arrays' = [arrays EXCEPT ![a].slots[i] = value] /\ handles' = handles /\ program' = program /\ answer' = Null
    BY <1>7, <2>1 DEF Put, Answer
  <2>3. Owned' /\ BecomesIs(a, [Contents[a] EXCEPT ![i] = value])
    BY <2>2, PutContent
  <2>4. BecomesIs(a, [Contents[a] EXCEPT ![index + 1] = value])
    BY <2>1, <2>3
  <2>5. Len(Contents[a]) = arrays[a].length
    BY SlicesFit DEF Contents
  <2>6. Promised!SequencesNext
    BY <1>1, <1>7, <2>2, <2>4, <2>5, AsPut
  <2>7. QED
    BY <2>3, <2>6
<1>8. CASE Crash
  <2>1. UNCHANGED <<arrays, handles, answer, program>>
    BY <1>8 DEF Crash
  <2>2. QED
    BY <2>1, Unseen
<1>9. CASE index \notin 0 .. arrays[a].length - 1 /\ Refused("IndexError")
  <2>1. UNCHANGED <<arrays, handles, program>> /\ answer' = Raised("IndexError")
    BY <1>9 DEF Refused, Answer
  <2>2. QED
    BY <1>9, <2>1, PutRefused
<1>10. QED
  BY <1>6, <1>7, <1>8, <1>9

\* Every statement does what is promised, or nothing that is seen.
LEMMA StatementsAsPromised ==
  ASSUME Shaped, Owned, Statements
  PROVE  Owned' /\ (Promised!SequencesNext \/ UNCHANGED Promised!sequenceVars)
<1>1. CASE \E a \in Held : BeginFor(a)
  <2>1. UNCHANGED <<arrays, handles, answer, program>>
    BY <1>1 DEF BeginFor, Enter, Silent
  <2>2. QED
    BY <2>1, Unseen
<1>2. CASE NextElement
  <2>1. UNCHANGED <<arrays, handles, answer, program>>
    BY <1>2 DEF NextElement, Silent
  <2>2. QED
    BY <2>1, Unseen
<1>3. CASE Leave
  <2>1. UNCHANGED <<arrays, handles, answer, program>>
    BY <1>3 DEF Leave, Silent
  <2>2. QED
    BY <2>1, Unseen
<1>4. QED
  BY <1>1, <1>2, <1>3, BeginAssignAsPromised, EndAssignAsPromised DEF Statements

\* A sequence with one element more.
LEMMA GrownByOne ==
  ASSUME NEW S, NEW n \in Nat, NEW more \in Nat, more = n + 1, NEW f \in Seq(S), Len(f) = n,
         NEW g \in Seq(S), Len(g) = more, \A k \in 1 .. n : g[k] = f[k]
  PROVE  Front(g) = f /\ Last(g) = g[more]
<1>1. /\ Last(g) = g[n + 1] /\ Last(g) \in S
      /\ Front(g) \in Seq(S) /\ Len(Front(g)) = n
      /\ \A k \in 1 .. n : Front(g)[k] = g[k]
  BY FrontFacts
<1>2. Front(g) = f
  BY <1>1, SeqEqual
<1>3. QED
  BY <1>1, <1>2

(* The bound of an array that these handles hold.                           *)
LimitOf(hs, a) ==
    IF \E h \in DOMAIN hs : hs[h].field = a
      THEN hs[CHOOSE h \in DOMAIN hs : hs[h].field = a].max
      ELSE Unbounded

\* An array has the bound of its one handle, or none.
LEMMA LimitFacts ==
  ASSUME NEW hs, NEW a
  PROVE  /\ (\A g \in DOMAIN hs : hs[g].field # a) => LimitOf(hs, a) = Unbounded
         /\ \A h \in DOMAIN hs :
              hs[h].field = a /\ (\A g \in DOMAIN hs : hs[g].field = a => g = h) => LimitOf(hs, a) = hs[h].max
<1>1. (\A g \in DOMAIN hs : hs[g].field # a) => LimitOf(hs, a) = Unbounded
  BY DEF LimitOf
<1>2. ASSUME NEW h \in DOMAIN hs, hs[h].field = a, \A g \in DOMAIN hs : hs[g].field = a => g = h
      PROVE  LimitOf(hs, a) = hs[h].max
  <2>1. (CHOOSE g \in DOMAIN hs : hs[g].field = a) = h
    BY <1>2
  <2>2. QED
    BY <1>2, <2>1 DEF LimitOf
<1>3. QED
  BY <1>1, <1>2

\* What a new collection means.
LEMMA NewMeans ==
  ASSUME Len(Contents') = Len(Contents) + 1, Contents = Front(Contents'), Limited = Front(Limited'),
         \A i \in DOMAIN Last(Contents') : Last(Contents')[i] \in UNION {p.values : p \in Programs},
         Last(Limited') # Unbounded => Len(Last(Contents')) <= Last(Limited'), answer' = Null
  PROVE  Promised!SequencesNext
<1>1. Promised!New
  BY Zenon DEF Promised!New, Promised!Front, Front, Promised!Last, Last, Promised!Null, Null,
               Promised!Unbounded, Unbounded, Contents, Limited
<1>2. QED
  BY <1>1 DEF Promised!SequencesNext

\* An array is made, and a handle with it or none.
LEMMA CollectionMade ==
  ASSUME Shaped, Owned, NEW q \in Seq(Values), NEW e \in [slots : Slots, length : 0 .. MaxCapacity],
         Content(e) = q, e.length = Len(q), arrays' = Append(arrays, e), answer' = Null, program' = program,
         NEW hs, hs = handles',
         \A h \in DOMAIN handles : h \in DOMAIN hs /\ hs[h] = handles[h],
         \A h \in DOMAIN hs \ DOMAIN handles :
             /\ hs[h].field = Len(arrays) + 1 /\ hs[h].captured = hs[h].field
             /\ hs[h].kind = "Stack" => hs[h].max = Unbounded
             /\ hs[h].max \in Limits /\ (hs[h].max # Unbounded => Len(q) <= hs[h].max),
         \A g, h \in DOMAIN hs \ DOMAIN handles : g = h
  PROVE  Owned' /\ Promised!SequencesNext
<1>1. PICK n \in Nat : n = Len(arrays)
  BY ShapeFacts
<1>2. /\ ArrayIds = 1 .. n /\ program \in Programs /\ arrays \in Seq([slots : Slots, length : 0 .. MaxCapacity])
      /\ \A h \in DOMAIN handles : handles[h].field \in 1 .. n /\ handles[h].max \in Limits
  BY <1>1, ShapeFacts
<1>3. DOMAIN arrays' = 1 .. n + 1 /\ \A b \in 1 .. n + 1 : arrays'[b] = IF b <= n THEN arrays[b] ELSE e
  <2> DEFINE Record == [slots : Slots, length : 0 .. MaxCapacity]
  <2>1. arrays \in Seq(Record) /\ e \in Record
    BY <1>2
  <2> HIDE DEF Record
  <2>2. /\ Append(arrays, e) \in Seq(Record) /\ Len(Append(arrays, e)) = Len(arrays) + 1
        /\ DOMAIN Append(arrays, e) = 1 .. Len(arrays) + 1
        /\ \A h \in 1 .. Len(arrays) + 1 : Append(arrays, e)[h] = IF h <= Len(arrays) THEN arrays[h] ELSE e
    BY ONLY <2>1, AppendFacts
  <2>3. QED
    BY <2>2, <1>1
<1>4. ArrayIds' = 1 .. n + 1
  BY <1>3 DEF ArrayIds
<1>5. \A b \in 1 .. n : b \in 1 .. n + 1 /\ b <= n /\ arrays'[b] = arrays[b]
  BY <1>3
<1>6. n + 1 \in 1 .. n + 1 /\ ~(n + 1 <= n) /\ arrays'[n + 1] = e /\ n + 1 \notin 1 .. n
  BY <1>3
<1>7. \A b \in 1 .. n + 1 : b \in 1 .. n \/ b = n + 1
  OBVIOUS
<1>8. \A b \in 1 .. n + 1 : Content(arrays'[b]) \in Seq(Values)
  BY <1>2, <1>5, <1>6, <1>7 DEF Owned
<1>9. ASSUME NEW h \in DOMAIN hs
      PROVE  /\ hs[h].captured = hs[h].field /\ (hs[h].kind = "Stack" => hs[h].max = Unbounded)
             /\ hs[h].max # Unbounded => arrays'[hs[h].field].length <= hs[h].max
             /\ \A g \in DOMAIN hs : hs[g].field = hs[h].field => g = h
             /\ hs[h].max \in Limits
  <2>1. CASE h \in DOMAIN handles
    <3>1. /\ hs[h] = handles[h] /\ handles[h].field \in 1 .. n /\ handles[h].max \in Limits
      BY <2>1, <1>2
    <3>2. /\ handles[h].captured = handles[h].field
          /\ handles[h].kind = "Stack" => handles[h].max = Unbounded
          /\ handles[h].max # Unbounded => arrays[handles[h].field].length <= handles[h].max
          /\ \A g \in DOMAIN handles : handles[g].field = handles[h].field => g = h
      BY <2>1 DEF Owned
    <3>3. arrays'[handles[h].field] = arrays[handles[h].field]
      BY <3>1, <1>5
    <3>4. ASSUME NEW g \in DOMAIN hs, hs[g].field = hs[h].field PROVE g = h
      <4>1. CASE g \in DOMAIN handles
        BY <4>1, <3>1, <3>2, <3>4
      <4>2. CASE g \notin DOMAIN handles
        <5>1. hs[g].field = n + 1
          BY <4>2, <1>1
        <5>2. QED
          BY <5>1, <3>1, <3>4, <1>6
      <4>3. QED
        BY <4>1, <4>2
    <3>5. QED
      BY <3>1, <3>2, <3>3, <3>4
  <2>2. CASE h \notin DOMAIN handles
    <3>1. /\ hs[h].field = n + 1 /\ hs[h].captured = hs[h].field
          /\ hs[h].kind = "Stack" => hs[h].max = Unbounded
          /\ hs[h].max \in Limits /\ (hs[h].max # Unbounded => Len(q) <= hs[h].max)
      BY <2>2, <1>1
    <3>2. ASSUME NEW g \in DOMAIN hs, hs[g].field = hs[h].field PROVE g = h
      <4>1. CASE g \in DOMAIN handles
        <5>1. hs[g].field \in 1 .. n
          BY <4>1, <1>2
        <5>2. QED
          BY <5>1, <3>1, <3>2, <1>6
      <4>2. CASE g \notin DOMAIN handles
        BY <4>2, <2>2
      <4>3. QED
        BY <4>1, <4>2
    <3>3. QED
      BY <3>1, <3>2, <1>6
  <2>3. QED
    BY <2>1, <2>2
<1>10. Owned'
  <2>1. Values' = Values
    BY SameProgram
  <2>2. QED
    BY <2>1, <1>4, <1>8, <1>9 DEF Owned
<1>11. PICK f, g : f = Contents /\ g = Contents'
  OBVIOUS
<1>12. f = [b \in 1 .. n |-> Content(arrays[b])] /\ g = [b \in 1 .. n + 1 |-> Content(arrays'[b])]
  BY <1>2, <1>4, <1>11 DEF Contents
<1>13. Len(f) = n /\ Len(g) = n + 1 /\ Front(g) = f /\ Last(g) = q
  <2>1. f \in [1 .. n -> Seq(Values)] /\ g \in [1 .. n + 1 -> Seq(Values)]
    BY <1>2, <1>8, <1>12 DEF Owned
  <2>2. \A k \in 1 .. n : g[k] = f[k]
    BY <1>5, <1>12
  <2>3. Len(f) = n /\ Len(g) = n + 1 /\ Front(g) = f /\ Last(g) = g[n + 1]
    <3>1. PICK more \in Nat : more = n + 1
      OBVIOUS
    <3>2. f \in Seq(Seq(Values)) /\ Len(f) = n
      BY <2>1, IntervalSeq
    <3>3. g \in Seq(Seq(Values)) /\ Len(g) = more
      BY <2>1, <3>1, IntervalSeq
    <3>4. Front(g) = f /\ Last(g) = g[more]
      BY <3>1, <3>2, <3>3, <2>2, GrownByOne, SMTT(30)
    <3>5. QED
      BY <3>1, <3>2, <3>3, <3>4
  <2>4. g[n + 1] = q
    BY <1>6, <1>12
  <2>5. QED
    BY <2>3, <2>4
<1>14. PICK l, m : l = Limited /\ m = Limited'
  OBVIOUS
<1>15. l = [b \in 1 .. n |-> LimitOf(handles, b)] /\ m = [b \in 1 .. n + 1 |-> LimitOf(hs, b)]
  BY <1>2, <1>4, <1>14 DEF Limited, LimitOf
<1>16. ASSUME NEW b \in 1 .. n + 1 PROVE LimitOf(hs, b) \in Limits
  <2>1. CASE \E h \in DOMAIN hs : hs[h].field = b
    <3>1. PICK h \in DOMAIN hs : hs[h].field = b
      BY <2>1
    <3>2. LimitOf(hs, b) = hs[h].max
      BY <3>1, <1>9, LimitFacts
    <3>3. QED
      BY <3>2, <1>9
  <2>2. CASE \A h \in DOMAIN hs : hs[h].field # b
    BY <2>2, LimitFacts DEF Limits
  <2>3. QED
    BY <2>1, <2>2
<1>17. ASSUME NEW b \in 1 .. n PROVE LimitOf(hs, b) = LimitOf(handles, b)
  <2>1. b # n + 1
    BY <1>6
  <2>2. CASE \E h \in DOMAIN handles : handles[h].field = b
    <3>1. PICK h \in DOMAIN handles : handles[h].field = b
      BY <2>2
    <3>2. h \in DOMAIN hs /\ hs[h] = handles[h]
      BY <3>1
    <3>3. LimitOf(hs, b) = hs[h].max
      BY <3>1, <3>2, <1>9, LimitFacts
    <3>4. LimitOf(handles, b) = handles[h].max
      BY <3>1, LimitFacts DEF Owned
    <3>5. QED
      BY <3>2, <3>3, <3>4
  <2>3. CASE \A h \in DOMAIN handles : handles[h].field # b
    <3>1. \A h \in DOMAIN hs : hs[h].field # b
      BY <2>1, <2>3, <1>1
    <3>2. QED
      BY <3>1, <2>3, LimitFacts
  <2>4. QED
    BY <2>2, <2>3
<1>18. Front(m) = l /\ Last(m) = LimitOf(hs, n + 1)
  <2>1. \A b \in 1 .. n : LimitOf(handles, b) \in Limits
    BY <1>5, <1>16, <1>17
  <2>2. l \in [1 .. n -> Limits] /\ m \in [1 .. n + 1 -> Limits] /\ \A k \in 1 .. n : m[k] = l[k]
    BY <2>1, <1>5, <1>15, <1>16, <1>17
  <2>3. Len(l) = n /\ Len(m) = n + 1 /\ Front(m) = l /\ Last(m) = m[n + 1]
    <3>1. PICK more \in Nat : more = n + 1
      OBVIOUS
    <3>2. l \in Seq(Limits) /\ Len(l) = n
      BY <2>2, IntervalSeq
    <3>3. m \in Seq(Limits) /\ Len(m) = more
      BY <2>2, <3>1, IntervalSeq
    <3>4. Front(m) = l /\ Last(m) = m[more]
      BY <3>1, <3>2, <3>3, <2>2, GrownByOne
    <3>5. QED
      BY <3>1, <3>2, <3>3, <3>4
  <2>4. QED
    BY <2>3, <1>6, <1>15
<1>19. LimitOf(hs, n + 1) # Unbounded => Len(q) <= LimitOf(hs, n + 1)
  <2>1. CASE \E h \in DOMAIN hs : hs[h].field = n + 1
    <3>1. PICK h \in DOMAIN hs : hs[h].field = n + 1
      BY <2>1
    <3>2. LimitOf(hs, n + 1) = hs[h].max
      BY <3>1, <1>9, LimitFacts
    <3>3. h \notin DOMAIN handles
      BY <3>1, <1>2, <1>6
    <3>4. QED
      BY <3>2, <3>3
  <2>2. CASE \A h \in DOMAIN hs : hs[h].field # n + 1
    BY <2>2, LimitFacts
  <2>3. QED
    BY <2>1, <2>2
<1>20. \A i \in DOMAIN q : q[i] \in UNION {p.values : p \in Programs}
  <2>1. \A i \in DOMAIN q : q[i] \in Values
    BY ElementOfSeq, LenProperties
  <2>2. QED
    BY <2>1, <1>2 DEF Values
<1>21. Promised!SequencesNext
  <2>1. Len(Contents') = Len(Contents) + 1 /\ Contents = Front(Contents')
    BY <1>11, <1>13
  <2>2. Limited = Front(Limited') /\ (Last(Limited') # Unbounded => Len(q) <= Last(Limited'))
    BY <1>14, <1>18, <1>19
  <2>3. Last(Contents') = q
    BY <1>11, <1>13
  <2>4. QED
    BY <2>1, <2>2, <2>3, <1>20, NewMeans
<1>22. QED
  BY <1>10, <1>21

\* An array that is made, as it is promised.
LEMMA MadeWithout ==
  ASSUME Shaped, Owned, NEW q \in Seq(Values), NEW capacities, Create(q, capacities),
         \A capacity \in capacities : capacity \in Nat /\ Len(q) <= capacity /\ capacity <= MaxCapacity,
         handles' = handles, Answer(Null)
  PROVE  Owned' /\ Promised!SequencesNext
<1>1. q \in Seq(Cells)
  BY ShapeFacts, ProgramFacts
<1>2. PICK e \in [slots : Slots, length : 0 .. MaxCapacity] :
        arrays' = Append(arrays, e) /\ e.length = Len(q) /\ Content(e) = q
  BY <1>1, CreateFacts
<1>3. answer' = Null /\ program' = program
  BY DEF Answer
<1>4. PICK hs : hs = handles'
  OBVIOUS
<1>5. hs = handles
  BY <1>4
<1>6. DOMAIN hs \ DOMAIN handles = {} /\ \A h \in DOMAIN handles : h \in DOMAIN hs /\ hs[h] = handles[h]
  BY <1>5
<1>7. QED
  BY <1>2, <1>3, <1>4, <1>6, CollectionMade

LEMMA MadeWith ==
  ASSUME Shaped, Owned, NEW q \in Seq(Values), NEW capacities, Create(q, capacities),
         \A capacity \in capacities : capacity \in Nat /\ Len(q) <= capacity /\ capacity <= MaxCapacity,
         NEW kind \in {"Deque", "Stack"}, NEW max \in Bounds \cup {Unbounded}, Sequence(kind, NewArray, max),
         kind = "Stack" => max = Unbounded, max # Unbounded => Len(q) <= max, Answer(Null)
  PROVE  Owned' /\ Promised!SequencesNext
<1>1. q \in Seq(Cells) /\ max \in Limits
  BY ShapeFacts, ProgramFacts DEF Limits
<1>2. PICK e \in [slots : Slots, length : 0 .. MaxCapacity] :
        arrays' = Append(arrays, e) /\ e.length = Len(q) /\ Content(e) = q
  BY <1>1, CreateFacts
<1>3. answer' = Null /\ program' = program
  BY DEF Answer
<1>4. PICK new : new = Len(arrays) + 1 /\ new \in 1 .. Len(arrays) + 1
  BY ShapeFacts
<1>5. PICK m \in Nat : m = Len(handles) /\ DOMAIN handles = 1 .. m
  BY ShapeFacts
<1>6. PICK made : made = [kind |-> kind, field |-> new, captured |-> new, max |-> max]
  OBVIOUS
<1>7. DOMAIN handles' = 1 .. m + 1 /\ \A h \in 1 .. m + 1 : handles'[h] = IF h <= m THEN handles[h] ELSE made
  <2>1. handles \in Seq(Kinds(1 .. Len(arrays) + 1))
    BY HandlesBeside
  <2>2. handles' = Append(handles, made)
    BY <1>4, <1>6 DEF Sequence, NewArray
  <2>3. made \in Kinds(1 .. Len(arrays) + 1)
    BY <1>4, <1>6 DEF Kinds
  <2>4. /\ Append(handles, made) \in Seq(Kinds(1 .. Len(arrays) + 1)) /\ Len(Append(handles, made)) = Len(handles) + 1
        /\ DOMAIN Append(handles, made) = 1 .. Len(handles) + 1
        /\ \A h \in 1 .. Len(handles) + 1 : Append(handles, made)[h] = IF h <= Len(handles) THEN handles[h] ELSE made
    BY <2>1, <2>3, AppendFacts
  <2>5. QED
    BY <2>2, <2>4, <1>5
<1>8. PICK hs : hs = handles'
  OBVIOUS
<1>9. \A h \in DOMAIN handles : h \in DOMAIN hs /\ hs[h] = handles[h]
  BY <1>5, <1>7, <1>8
<1>10. \A h \in DOMAIN hs \ DOMAIN handles : h = m + 1 /\ hs[h] = made
  BY <1>5, <1>7, <1>8
<1>11. \A h \in DOMAIN hs \ DOMAIN handles :
             /\ hs[h].field = Len(arrays) + 1 /\ hs[h].captured = hs[h].field
             /\ hs[h].kind = "Stack" => hs[h].max = Unbounded
             /\ hs[h].max \in Limits /\ (hs[h].max # Unbounded => Len(q) <= hs[h].max)
  BY <1>1, <1>4, <1>6, <1>10
<1>12. \A g, h \in DOMAIN hs \ DOMAIN handles : g = h
  BY <1>10
<1>13. QED
  BY <1>2, <1>3, <1>8, <1>9, <1>11, <1>12, CollectionMade

\* A copy has the elements and the bound of what it copies.
LEMMA CopyAsPromised ==
  ASSUME Shaped, Owned, ~direct, NEW c \in Operands, Copy(c)
  PROVE  Owned' /\ (Promised!SequencesNext \/ UNCHANGED Promised!sequenceVars)
<1>1. program \in Programs
  BY ShapeFacts
<1>2. CASE c.kind = "handle" /\ BoundOf(c) = Unbounded /\ handles[c.id].kind = "Deque"
  <2>1. UNCHANGED <<arrays, handles, answer, program>>
    BY <1>2 DEF Copy, Crash
  <2>2. QED
    BY <2>1, Unseen
<1>3. CASE ~(c.kind = "handle" /\ BoundOf(c) = Unbounded /\ handles[c.id].kind = "Deque")
  <2>1. PICK a \in ArrayIds : a = ArrayOf(c) /\ Target(c) = arrays[a]
    BY OperandFacts
  <2>2. PICK q \in Seq(Values) : q = Content(Target(c))
    BY OperandBound
  <2>3. Len(q) = arrays[a].length
    BY <2>1, <2>2, SlicesFit
  <2>4. Len(q) \in Nat /\ Len(q) <= MaxCapacity /\ (BoundOf(c) # Unbounded => Len(q) <= BoundOf(c))
    <3>1. arrays[a].length \in Nat /\ arrays[a].length \in 0 .. MaxCapacity
      BY ShapeFacts
    <3>2. BoundOf(c) # Unbounded => arrays[a].length <= BoundOf(c)
      BY <2>1, OperandBound
    <3>3. QED
      BY <3>1, <3>2, <2>3, <1>1, ProgramFacts
  <2>5. /\ Create(q, Capacities(Len(q))) /\ Answer(Null)
        /\ IF c.kind = "handle" THEN Sequence(handles[c.id].kind, NewArray, BoundOf(c)) ELSE UNCHANGED handles
    BY <1>3, <2>2 DEF Copy
  <2>6. \A capacity \in Capacities(Len(q)) : capacity \in Nat /\ Len(q) <= capacity /\ capacity <= MaxCapacity
    BY <1>1, <2>4, CapacityFacts
  <2>7. CASE c.kind # "handle"
    BY <2>5, <2>6, <2>7, MadeWithout
  <2>8. CASE c.kind = "handle"
    <3>1. c.id \in DOMAIN handles /\ BoundOf(c) = handles[c.id].max
      BY <2>8, OperandFacts
    <3>2. handles[c.id].kind \in {"Deque", "Stack"} /\ BoundOf(c) \in Bounds \cup {Unbounded}
      BY <3>1, ShapeFacts
    <3>3. handles[c.id].kind = "Stack" => BoundOf(c) = Unbounded
      BY <3>1 DEF Owned
    <3>4. QED
      BY <2>4, <2>5, <2>6, <2>8, <3>2, <3>3, MadeWith
  <2>9. QED
    BY <2>7, <2>8
<1>4. QED
  BY <1>2, <1>3

\* Everything that creates makes a collection within its bound.
LEMMA CreationAsPromised ==
  ASSUME Shaped, Owned, ~direct, Creation
  PROVE  Owned' /\ (Promised!SequencesNext \/ UNCHANGED Promised!sequenceVars)
<1>1. program \in Programs /\ MaxCapacity \in Nat
  BY ShapeFacts, ProgramFacts
<1>2. ASSUME NEW q \in Literals, Literal(q) PROVE Owned' /\ Promised!SequencesNext
  <2>1. q \in Seq(Values) /\ Len(q) <= MaxCapacity /\ Len(q) \in Nat
    BY <1>1, LiteralFacts
  <2>2. \A capacity \in Capacities(Len(q)) : capacity \in Nat /\ Len(q) <= capacity /\ capacity <= MaxCapacity
    BY <1>1, <2>1, CapacityFacts
  <2>3. QED
    BY <1>2, <2>1, <2>2, MadeWithout DEF Literal
<1>3. ASSUME NEW a \in Held, Derive(a) PROVE Owned' /\ Promised!SequencesNext
  <2>1. PICK q \in Fresh(Content(arrays[a])) : Len(q) <= MaxCapacity /\ Create(q, {Len(q)})
    BY <1>3 DEF Derive
  <2>2. Content(arrays[a]) \in Seq(Values)
    BY DEF Held, Owned
  <2>3. q \in Seq(Values)
    BY <2>2, FreshFacts
  <2>4. \A capacity \in {Len(q)} : capacity \in Nat /\ Len(q) <= capacity /\ capacity <= MaxCapacity
    <3>1. Len(q) \in Nat
      BY <2>3, LenProperties
    <3>2. QED
      BY <3>1, <2>1
  <2>5. QED
    BY <1>3, <2>1, <2>3, <2>4, MadeWithout DEF Derive
<1>4. ASSUME NEW kind \in {"Deque", "Stack"}, NEW max \in Bounds \cup {Unbounded}, Create(<<>>, {0}),
             Sequence(kind, NewArray, max), kind = "Stack" => max = Unbounded, Answer(Null)
      PROVE  Owned' /\ Promised!SequencesNext
  <2>1. PICK q : q = <<>> /\ q \in Seq(Values) /\ Len(q) = 0
    <3>1. <<>> \in Seq(Values) /\ Len(<<>>) = 0
      BY EmptySeq
    <3>2. QED
      BY <3>1
  <2>2. \A capacity \in {0} : capacity \in Nat /\ Len(q) <= capacity /\ capacity <= MaxCapacity
    BY <1>1, <2>1
  <2>3. Create(q, {0})
    BY <1>4, <2>1
  <2>4. max # Unbounded => Len(q) <= max
    <3>1. Bounds \subseteq Nat
      BY <1>1, ProgramFacts
    <3>2. QED
      BY <3>1, <2>1
  <2>5. q \in Seq(Values)
    BY <2>1
  <2>6. QED
    BY <1>4, <2>2, <2>3, <2>4, <2>5, MadeWith
<1>5. ASSUME NEW max \in Bounds, NewDeque(max) PROVE Owned' /\ Promised!SequencesNext
  BY <1>4, <1>5 DEF NewDeque
<1>6. ASSUME NewStack PROVE Owned' /\ Promised!SequencesNext
  BY <1>4, <1>6 DEF NewStack
<1>7. QED
  BY <1>2, <1>3, <1>5, <1>6, CopyAsPromised DEF Creation, Construct, SetValues

\* Every step is promised, unless the program uses `values` itself.
LEMMA NextAsPromised ==
  ASSUME Shaped, Kept, [Next]_vars
  PROVE  Kept' /\ (direct \/ Promised!SequencesNext \/ UNCHANGED Promised!sequenceVars)
<1>1. direct <=> direct'
  <2>1. program' = program
    <3>1. CASE UNCHANGED vars
      BY <3>1 DEF vars
    <3>2. CASE Next
      BY <3>2 DEF Next, Creation, Methods, Functions, Statements, Literal, Derive, NewDeque, NewStack, Copy, Construct,
                  SetValues, DequeAppend, DequeAppendLeft, Push, Pop, Clear, Extend, ExtendLeft, Insert, PopLeft,
                  RemoveElement, ReverseInPlace, Rotate, BeginFor, NextElement, BeginIndexAssign, EndIndexAssign,
                  Leave, Put, Refused, Run, Do, Fail, Answer, Enter, Silent, Crash
    <3>3. QED
      BY <3>1, <3>2
  <2>2. QED
    BY <2>1, SameProgram
<1>2. CASE direct
  BY <1>1, <1>2 DEF Kept
<1>3. CASE ~direct
  <2>1. Owned
    BY <1>3 DEF Kept
  <2>2. CASE UNCHANGED vars
    <3>1. UNCHANGED <<arrays, handles, answer, program>>
      BY <2>2 DEF vars
    <3>2. QED
      BY <2>1, <3>1, Unseen DEF Kept
  <2>3. CASE Next
    <3>1. CASE Creation
      BY <1>3, <2>1, <3>1, CreationAsPromised DEF Kept
    <3>2. CASE Methods
      BY <1>3, <2>1, <3>2, MethodsAsPromised DEF Kept
    <3>3. CASE Functions
      BY <1>3, <2>1, <3>3, FunctionsAsPromised DEF Kept
    <3>4. CASE Statements
      BY <1>3, <2>1, <3>4, StatementsAsPromised DEF Kept
    <3>5. QED
      BY <2>3, <3>1, <3>2, <3>3, <3>4 DEF Next
  <2>4. QED
    BY <2>2, <2>3
<1>4. QED
  BY <1>2, <1>3

\* Nothing is promised of what is not there.
LEMMA InitAsPromised ==
  ASSUME Init
  PROVE  Kept /\ Promised!SequencesInit
<1>1. arrays = <<>> /\ handles = <<>> /\ answer = Null
  BY DEF Init
<1>2. ArrayIds = {} /\ DOMAIN handles = {}
  BY <1>1 DEF ArrayIds
<1>3. Contents = <<>> /\ Limited = <<>>
  BY <1>2 DEF Contents, Limited
<1>4. Promised!SequencesInit
  BY <1>1, <1>3 DEF Promised!SequencesInit, Promised!Null, Null, Contents, Limited
<1>5. QED
  BY <1>2, <1>4 DEF Kept, Owned

\* The arrays, Deques and Stacks of a program that leaves `values` alone are
\* the bounded sequences that docs/stdlib/collections.md promises
\* (stdlib/collections.go).
THEOREM SequencesPromised == Spec => ImplementsSequences
<1>1. Init => Shaped /\ Kept /\ Promised!SequencesInit
  BY InitShaped, InitAsPromised
<1>2. Shaped /\ [Next]_vars => Shaped'
  BY NextShaped
<1>3. Shaped /\ Kept /\ [Next]_vars => Kept' /\ [direct \/ Promised!SequencesNext]_(Promised!sequenceVars)
  BY NextAsPromised
<1>4. QED
  BY <1>1, <1>2, <1>3, PTL DEF Spec, ImplementsSequences

===============================================================================
