------------------------ MODULE TreesAndConsole_proofs ------------------------
(***************************************************************************)
(* Proofs about the two modules that meet the operating system.            *)
(*                                                                         *)
(* FileTrees: the path a program works with is clean at all times, and for *)
(* a clean path, of pieces of any length over any segments, the properties *)
(* computed from it agree and joining keeps its place.  In trees of any    *)
(* size and depth, with links that may form cycles, a call that succeeds   *)
(* leaves what it is called for, and a traversal finds what it should,     *)
(* whatever other processes do to the tree.                                *)
(*                                                                         *)
(* Console: for inputs of every length, the readers of one input consume   *)
(* its bytes in the order in which they arrived, and the terminal is in    *)
(* the mode that the state of its package calls for.                       *)
(***************************************************************************)
EXTENDS FileTrees, Console, SequenceTheorems, FiniteSetTheorems, WellFoundedInduction, TLAPS

-----------------------------------------------------------------------------
(* Induction over the naturals and over sequences, for sets: the theorems  *)
(* of the library take a predicate.                                        *)

\* A nonempty set of naturals has a least member.
LEMMA LeastNatural ==
  ASSUME NEW T \in SUBSET Nat, T # {}
  PROVE  \E i \in T : \A j \in T : i <= j
<1> DEFINE Spans == {1..n : n \in T}
           R == StrictSubsetOrdering(Nat)
<1>1. IsWellFoundedOn(R, FiniteSubsetsOf(Nat))
  BY FS_StrictSubsetOrderingWellFounded
<1>2. ASSUME NEW n \in Nat PROVE 1..n \in FiniteSubsetsOf(Nat)
  BY FS_Interval DEF FiniteSubsetsOf
<1>3. Spans # {} /\ Spans \subseteq FiniteSubsetsOf(Nat)
  BY <1>2
<1>4. PICK x \in Spans : \A y \in Spans : ~(<<y, x>> \in R)
  <2> HIDE DEF Spans, R
  <2> QED
    BY <1>1, <1>3, WFMin
<1>5. PICK i \in T : x = 1..i
  BY <1>4
<1>6. ASSUME NEW j \in T, j < i PROVE FALSE
  <2>1. 1..j \in SUBSET Nat /\ 1..i \in SUBSET Nat /\ 1..j \subseteq 1..i
    BY <1>6
  <2>2. i \in 1..i /\ i \notin 1..j
    BY <1>6
  <2>3. <<1..j, 1..i>> \in R
    BY <2>1, <2>2 DEF StrictSubsetOrdering
  <2>4. QED
    BY <2>3, <1>4, <1>5
<1>7. QED
  BY <1>6

\* Induction on the naturals, for a set.
LEMMA CountingUp ==
  ASSUME NEW T \in SUBSET Nat, 0 \in T, \A n \in T : n + 1 \in T
  PROVE  T = Nat
<1> SUFFICES ASSUME Nat \ T # {} PROVE FALSE
  OBVIOUS
<1>1. PICK i \in Nat \ T : \A j \in Nat \ T : i <= j
  BY LeastNatural
<1>2. i # 0 /\ i - 1 \in Nat /\ ~(i <= i - 1)
  OBVIOUS
<1>3. i - 1 \in T
  BY <1>1, <1>2
<1>4. (i - 1) + 1 \in T /\ (i - 1) + 1 = i
  BY <1>3
<1>5. QED
  BY <1>4

-----------------------------------------------------------------------------
(* Loops.                                                                  *)

\* One turn, for loops over B that make something in A.
IsStep(step, A, B) == step \in [A \X B -> A]

\* What a loop makes after each turn.
Turns(step, start, items, f) ==
    /\ f[0] = start
    /\ \A n \in 1 .. Len(items) : f[n] = step[<<f[n - 1], items[n]>>]

LEMMA TurnsExist ==
  ASSUME NEW A, NEW B, NEW step, IsStep(step, A, B), NEW start \in A, NEW items \in Seq(B)
  PROVE  \E f \in [0 .. Len(items) -> A] : Turns(step, start, items, f)
<1> USE DEF IsStep
<1> DEFINE Good(n, f) == f[0] = start /\ \A k \in 1 .. n : f[k] = step[<<f[k - 1], items[k]>>]
           T == {n \in Nat : n <= Len(items) => \E f \in [0 .. n -> A] : Good(n, f)}
<1>1. 0 \in T
  <2>1. [i \in 0 .. 0 |-> start] \in [0 .. 0 -> A] /\ Good(0, [i \in 0 .. 0 |-> start])
    OBVIOUS
  <2>2. QED
    BY <2>1
<1>2. ASSUME NEW n \in T PROVE n + 1 \in T
  <2>1. CASE n + 1 <= Len(items)
    <3>0. n \in Nat /\ n <= Len(items) /\ Len(items) \in Nat
      BY <2>1
    <3>1. PICK f \in [0 .. n -> A] : Good(n, f)
      BY <3>0
    <3> DEFINE g == [i \in 0 .. n + 1 |-> IF i = n + 1 THEN step[<<f[n], items[n + 1]>>] ELSE f[i]]
    <3>2. items[n + 1] \in B /\ f[n] \in A
      BY <2>1, <3>0, <3>1
    <3>3. g \in [0 .. n + 1 -> A]
      <4>1. step[<<f[n], items[n + 1]>>] \in A
        BY <3>2
      <4>2. \A i \in 0 .. n + 1 : i # n + 1 => i \in 0 .. n
        BY <3>0
      <4>3. QED
        BY <4>1, <4>2
    <3>4. g[0] = start
      BY <3>0, <3>1
    <3>5. ASSUME NEW k \in 1 .. n + 1 PROVE g[k] = step[<<g[k - 1], items[k]>>]
      <4>1. k \in 0 .. n + 1 /\ k - 1 \in 0 .. n + 1 /\ k - 1 # n + 1 /\ k - 1 \in 0 .. n
        BY <3>0
      <4>2. g[k - 1] = f[k - 1]
        BY <4>1
      <4>3. CASE k = n + 1
        BY <4>1, <4>2, <4>3, <3>0
      <4>4. CASE k # n + 1
        <5>1. k \in 1 .. n
          BY <4>4, <3>0
        <5>2. QED
          BY <5>1, <4>1, <4>2, <3>1, <4>4
      <4>5. QED
        BY <4>3, <4>4
    <3>6. Good(n + 1, g)
      BY <3>4, <3>5
    <3> HIDE DEF Good, g
    <3>7. QED
      BY <3>3, <3>6, <3>0
  <2>2. CASE ~(n + 1 <= Len(items))
    BY <2>2
  <2>3. QED
    BY <2>1, <2>2
<1>3. T = Nat
  <2>1. T \in SUBSET Nat
    OBVIOUS
  <2> HIDE DEF T
  <2>2. QED
    BY <1>1, <1>2, <2>1, CountingUp
<1>4. Len(items) \in T
  BY <1>3
<1>5. QED
  BY <1>4 DEF Turns

\* Two that do the same turns are the same.
LEMMA TurnsAreUnique ==
  ASSUME NEW step, NEW start, NEW items, NEW f, NEW g, Len(items) \in Nat,
         Turns(step, start, items, f), Turns(step, start, items, g),
         NEW n \in 0 .. Len(items)
  PROVE  f[n] = g[n]
<1> DEFINE T == {k \in Nat : k <= Len(items) => f[k] = g[k]}
<1>1. 0 \in T
  BY DEF Turns
<1>2. ASSUME NEW k \in T PROVE k + 1 \in T
  <2>1. CASE k + 1 <= Len(items)
    <3>1. k \in Nat /\ k + 1 \in 1 .. Len(items) /\ (k + 1) - 1 = k /\ f[k] = g[k]
      BY <2>1
    <3>2. f[k + 1] = step[<<f[k], items[k + 1]>>] /\ g[k + 1] = step[<<g[k], items[k + 1]>>]
      BY <3>1 DEF Turns
    <3>3. QED
      BY <3>1, <3>2
  <2>2. CASE ~(k + 1 <= Len(items))
    BY <2>2
  <2>3. QED
    BY <2>1, <2>2
<1>3. T = Nat
  <2>1. T \in SUBSET Nat
    OBVIOUS
  <2> HIDE DEF T
  <2>2. QED
    BY <1>1, <1>2, <2>1, CountingUp
<1>4. n \in T
  BY <1>3
<1>5. QED
  BY <1>4

\* The loop of the model does these turns.
LEMMA FoldedIs ==
  ASSUME NEW A, NEW B, NEW step, IsStep(step, A, B), NEW start \in A, NEW items \in Seq(B),
         NEW f, Turns(step, start, items, f)
  PROVE  Folded(step, start, items) = f[Len(items)]
<1> DEFINE after == CHOOSE after : after = [n \in 0 .. Len(items) |->
              IF n = 0 THEN start ELSE step[<<after[n - 1], items[n]>>]]
<1>0. Len(items) \in Nat
  OBVIOUS
<1>1. PICK g \in [0 .. Len(items) -> A] : Turns(step, start, items, g)
  BY TurnsExist
<1>2. g = [n \in 0 .. Len(items) |-> IF n = 0 THEN start ELSE step[<<g[n - 1], items[n]>>]]
  <2>1. \A n \in 0 .. Len(items) : g[n] = IF n = 0 THEN start ELSE step[<<g[n - 1], items[n]>>]
    BY <1>0, <1>1 DEF Turns
  <2>2. QED
    BY <2>1
<1>3. after = [n \in 0 .. Len(items) |-> IF n = 0 THEN start ELSE step[<<after[n - 1], items[n]>>]]
  <2> DEFINE Fits(h) == h = [n \in 0 .. Len(items) |-> IF n = 0 THEN start ELSE step[<<h[n - 1], items[n]>>]]
  <2>1. Fits(g)
    BY <1>2
  <2>2. after = CHOOSE h : Fits(h)
    OBVIOUS
  <2> HIDE DEF Fits
  <2>3. Fits(after)
    BY <2>1, <2>2
  <2>4. QED
    BY <2>3 DEF Fits
<1> HIDE DEF after
<1>4. Turns(step, start, items, after)
  <2>1. after[0] = start
    BY <1>0, <1>3
  <2>2. ASSUME NEW n \in 1 .. Len(items) PROVE after[n] = step[<<after[n - 1], items[n]>>]
    <3>1. n \in 0 .. Len(items) /\ n # 0
      BY <1>0
    <3>2. QED
      BY <1>3, <3>1
  <2>3. QED
    BY <2>1, <2>2 DEF Turns
<1>5. after[Len(items)] = f[Len(items)]
  <2>1. Len(items) \in 0 .. Len(items)
    BY <1>0
  <2>2. QED
    BY <1>0, <1>4, <2>1, TurnsAreUnique
<1>6. Folded(step, start, items) = after[Len(items)]
  BY DEF Folded, after
<1>7. QED
  BY <1>5, <1>6

\* Induction on sequences, for a set.
LEMMA LongerAndLonger ==
  ASSUME NEW B, NEW T \in SUBSET Seq(B), <<>> \in T, \A s \in T, x \in B : Append(s, x) \in T
  PROVE  T = Seq(B)
<1> DEFINE N == {n \in Nat : \A s \in Seq(B) : Len(s) = n => s \in T}
<1>1. 0 \in N
  <2>1. \A s \in Seq(B) : Len(s) = 0 => s = <<>>
    OBVIOUS
  <2>2. QED
    BY <2>1
<1>2. ASSUME NEW n \in N PROVE n + 1 \in N
  <2>1. ASSUME NEW s \in Seq(B), Len(s) = n + 1 PROVE s \in T
    <3>1. SubSeq(s, 1, n) \in Seq(B) /\ Len(SubSeq(s, 1, n)) = n /\ s[n + 1] \in B
      BY <2>1
    <3>2. s = Append(SubSeq(s, 1, n), s[n + 1])
      <4> DEFINE u == Append(SubSeq(s, 1, n), s[n + 1])
      <4>1. n \in Nat
        OBVIOUS
      <4>2. u \in Seq(B) /\ Len(u) = Len(s) /\ \A i \in 1 .. Len(s) : u[i] = s[i]
        BY <2>1, <3>1, <4>1
      <4> HIDE DEF u
      <4>3. s = u
        BY <4>2, SeqEqual
      <4>4. QED
        BY <4>3 DEF u
    <3>3. SubSeq(s, 1, n) \in T
      BY <3>1
    <3> HIDE DEF N
    <3>4. QED
      BY <3>1, <3>2, <3>3
  <2>2. QED
    BY <2>1
<1>3. N = Nat
  <2>1. N \in SUBSET Nat
    OBVIOUS
  <2> HIDE DEF N
  <2>2. QED
    BY <1>1, <1>2, <2>1, CountingUp
<1>4. ASSUME NEW s \in Seq(B) PROVE s \in T
  <2>1. Len(s) \in N
    BY <1>3
  <2>2. QED
    BY <2>1
<1>5. QED
  BY <1>4

LEMMA FoldedTyped ==
  ASSUME NEW A, NEW B, NEW step, IsStep(step, A, B), NEW start \in A, NEW items \in Seq(B)
  PROVE  Folded(step, start, items) \in A
<1>1. PICK f \in [0 .. Len(items) -> A] : Turns(step, start, items, f)
  BY TurnsExist
<1>2. Len(items) \in 0 .. Len(items)
  OBVIOUS
<1>3. QED
  BY <1>1, <1>2, FoldedIs

LEMMA FoldedNothing ==
  ASSUME NEW A, NEW B, NEW step, IsStep(step, A, B), NEW start \in A
  PROVE  Folded(step, start, <<>>) = start
<1>1. <<>> \in Seq(B) /\ Len(<<>>) = 0
  OBVIOUS
<1>2. PICK f \in [0 .. Len(<<>>) -> A] : Turns(step, start, <<>>, f)
  BY <1>1, TurnsExist
<1>3. Folded(step, start, <<>>) = f[Len(<<>>)]
  BY <1>1, <1>2, FoldedIs
<1>4. QED
  BY <1>1, <1>2, <1>3 DEF Turns

\* One more item is one more turn.
LEMMA FoldedAppend ==
  ASSUME NEW A, NEW B, NEW step, IsStep(step, A, B), NEW start \in A, NEW items \in Seq(B), NEW x \in B
  PROVE  Folded(step, start, Append(items, x)) = step[<<Folded(step, start, items), x>>]
<1> DEFINE more == Append(items, x)
           n == Len(items)
<1>1. more \in Seq(B) /\ Len(more) = n + 1 /\ n \in Nat /\ more[n + 1] = x
      /\ \A k \in 1 .. n : more[k] = items[k]
  OBVIOUS
<1> HIDE DEF more
<1>2. PICK f \in [0 .. Len(more) -> A] : Turns(step, start, more, f)
  BY <1>1, TurnsExist
<1>3. Folded(step, start, more) = f[n + 1]
  BY <1>1, <1>2, FoldedIs
<1>4. Turns(step, start, items, f)
  <2>1. \A k \in 1 .. n : k \in 1 .. n + 1
    BY <1>1
  <2>2. QED
    BY <1>1, <1>2, <2>1 DEF Turns
<1>5. Folded(step, start, items) = f[n]
  BY <1>4, FoldedIs
<1>6. f[n + 1] = step[<<f[n], x>>]
  <2>1. n + 1 \in 1 .. n + 1 /\ (n + 1) - 1 = n
    BY <1>1
  <2>2. QED
    BY <1>1, <1>2, <2>1 DEF Turns
<1>7. QED
  BY <1>3, <1>5, <1>6 DEF more

\* A loop over two sequences is two loops.
LEMMA FoldedTwice ==
  ASSUME NEW A, NEW B, NEW step, IsStep(step, A, B), NEW start \in A,
         NEW first \in Seq(B), NEW second \in Seq(B)
  PROVE  Folded(step, start, first \o second) = Folded(step, Folded(step, start, first), second)
<1> DEFINE halfway == Folded(step, start, first)
           T == {s \in Seq(B) : Folded(step, start, first \o s) = Folded(step, halfway, s)}
<1>1. halfway \in A
  BY FoldedTyped
<1>2. <<>> \in T
  <2>1. first \o <<>> = first /\ <<>> \in Seq(B)
    OBVIOUS
  <2>2. Folded(step, halfway, <<>>) = halfway
    BY <1>1, FoldedNothing
  <2>3. QED
    BY <2>1, <2>2
<1>3. ASSUME NEW s \in T, NEW x \in B PROVE Append(s, x) \in T
  <2>1. first \o Append(s, x) = Append(first \o s, x) /\ first \o s \in Seq(B) /\ Append(s, x) \in Seq(B)
    OBVIOUS
  <2> DEFINE q == first \o s
  <2>2. Folded(step, start, Append(q, x)) = step[<<Folded(step, start, q), x>>]
    <3>1. q \in Seq(B)
      BY <2>1
    <3> HIDE DEF q
    <3>2. QED
      BY <3>1, FoldedAppend
  <2>3. Folded(step, halfway, Append(s, x)) = step[<<Folded(step, halfway, s), x>>]
    BY <1>1, FoldedAppend
  <2>4. QED
    BY <2>1, <2>2, <2>3
<1>4. T = Seq(B)
  <2>1. T \in SUBSET Seq(B)
    OBVIOUS
  <2> HIDE DEF T
  <2>2. QED
    BY <1>2, <1>3, <2>1, LongerAndLonger
<1>5. QED
  BY <1>4

LEMMA FoldedOnce ==
  ASSUME NEW A, NEW B, NEW step, IsStep(step, A, B), NEW start \in A, NEW x \in B
  PROVE  Folded(step, start, <<x>>) = step[<<start, x>>]
<1> DEFINE none == <<>>
<1>1. <<x>> = Append(none, x) /\ none \in Seq(B)
  OBVIOUS
<1>2. Folded(step, start, none) = start
  BY FoldedNothing
<1> HIDE DEF none
<1>3. Folded(step, start, Append(none, x)) = step[<<Folded(step, start, none), x>>]
  BY <1>1, FoldedAppend
<1>4. QED
  BY <1>1, <1>2, <1>3

-----------------------------------------------------------------------------
(* Components.                                                             *)

LEMMA PieceFacts ==
  /\ Empty \in Pieces /\ Dot \in Pieces /\ DotDot \in Pieces
  /\ Len(Empty) = 1 /\ Len(Dot) = 2 /\ Len(DotDot) = 3
  /\ Empty # Dot /\ Empty # DotDot /\ Dot # DotDot
<1>1. Len(Empty) = 1 /\ Len(Dot) = 2 /\ Len(DotDot) = 3
  BY DEF Empty, Dot, DotDot
<1>2. Empty \in Seq(Segments) /\ Dot \in Seq(Segments) /\ DotDot \in Seq(Segments)
  <2>1. PICK e \in Segments : e = ""
    BY SegmentsAssumption
  <2>2. <<e>> \in Seq(Segments) /\ <<e, e>> \in Seq(Segments) /\ <<e, e, e>> \in Seq(Segments)
    OBVIOUS
  <2>3. QED
    BY <2>1, <2>2, Zenon DEF Empty, Dot, DotDot
<1>3. Empty # <<>> /\ Dot # <<>> /\ DotDot # <<>>
  BY DEF Empty, Dot, DotDot
<1>4. Empty \in Pieces /\ Dot \in Pieces /\ DotDot \in Pieces
  BY <1>2, <1>3, Zenon DEF Pieces
<1>5. Empty # Dot /\ Empty # DotDot /\ Dot # DotDot
  BY <1>1
<1>6. QED
  BY <1>1, <1>4, <1>5

\* What is between separators and not empty.
Named == Pieces \ {Empty}

KeepStep ==
    [turn \in Seq(Pieces) \X Pieces |->
        IF turn[2] = Empty THEN turn[1] ELSE Append(turn[1], turn[2])]

LEMMA KeepIs ==
  /\ IsStep(KeepStep, Seq(Pieces), Pieces)
  /\ \A s \in Seq(Pieces), x \in Pieces :
        KeepStep[<<s, x>>] = IF x = Empty THEN s ELSE Append(s, x)
<1>1. \A s \in Seq(Pieces), x \in Pieces : (IF x = Empty THEN s ELSE Append(s, x)) \in Seq(Pieces)
  OBVIOUS
<1>2. QED
  BY <1>1 DEF KeepStep, IsStep

LEMMA NoComponents == Components(<<>>) = <<>>
<1> DEFINE none == <<>>
<1>1. none \in Seq(Pieces)
  OBVIOUS
<1> HIDE DEF none
<1>2. Folded(KeepStep, none, <<>>) = none
  BY <1>1, KeepIs, FoldedNothing
<1>3. QED
  BY <1>2 DEF none, Components, KeepStep

LEMMA ComponentsAppend ==
  ASSUME NEW s \in Seq(Pieces), NEW x \in Pieces, Components(s) \in Seq(Pieces)
  PROVE  Components(Append(s, x)) = IF x = Empty THEN Components(s) ELSE Append(Components(s), x)
<1> DEFINE none == <<>>
<1>1. none \in Seq(Pieces)
  OBVIOUS
<1>2. \A q : Components(q) = Folded(KeepStep, none, q)
  BY DEF Components, KeepStep
<1> HIDE DEF none
<1>3. Folded(KeepStep, none, Append(s, x)) = KeepStep[<<Folded(KeepStep, none, s), x>>]
  BY <1>1, KeepIs, FoldedAppend
<1>4. QED
  BY <1>2, <1>3, KeepIs

LEMMA ComponentsTyped ==
  ASSUME NEW s \in Seq(Pieces)
  PROVE  Components(s) \in Seq(Named) /\ Components(s) \in Seq(Pieces)
<1> DEFINE T == {q \in Seq(Pieces) : Components(q) \in Seq(Named)}
<1>0. \A q \in Seq(Named) : q \in Seq(Pieces)
  BY DEF Named
<1>1. <<>> \in T
  <2>1. <<>> \in Seq(Named) /\ <<>> \in Seq(Pieces)
    OBVIOUS
  <2>2. QED
    BY <2>1, NoComponents, Zenon
<1>2. ASSUME NEW q \in T, NEW x \in Pieces PROVE Append(q, x) \in T
  <2>1. Components(Append(q, x)) = IF x = Empty THEN Components(q) ELSE Append(Components(q), x)
    BY <1>0, ComponentsAppend
  <2>2. x # Empty => x \in Named
    BY DEF Named
  <2>3. (IF x = Empty THEN Components(q) ELSE Append(Components(q), x)) \in Seq(Named)
    BY <2>2
  <2>4. Append(q, x) \in Seq(Pieces)
    OBVIOUS
  <2>5. QED
    BY <2>1, <2>3, <2>4
<1>3. T = Seq(Pieces)
  <2>1. T \in SUBSET Seq(Pieces)
    OBVIOUS
  <2> HIDE DEF T
  <2>2. QED
    BY <1>1, <1>2, <2>1, LongerAndLonger
<1>4. QED
  BY <1>0, <1>3

\* The components of two texts in a row.
LEMMA ComponentsTwice ==
  ASSUME NEW s \in Seq(Pieces), NEW t \in Seq(Pieces)
  PROVE  Components(s \o t) = Components(s) \o Components(t)
<1> DEFINE T == {q \in Seq(Pieces) : Components(s \o q) = Components(s) \o Components(q)}
<1>1. <<>> \in T
  <2> DEFINE none == <<>>
             c == Components(s)
  <2>1. c \in Seq(Pieces)
    BY ComponentsTyped
  <2> HIDE DEF c
  <2>2. s \o none = s /\ c \o none = c /\ none \in Seq(Pieces)
    BY <2>1
  <2>3. Components(none) = none
    BY NoComponents
  <2> HIDE DEF none
  <2>4. none \in T
    BY <2>2, <2>3 DEF c
  <2>5. QED
    BY <2>4 DEF none
<1>2. ASSUME NEW q \in T, NEW x \in Pieces PROVE Append(q, x) \in T
  <2> DEFINE c == Components(s)
             d == Components(q)
             sq == s \o q
  <2>1. c \in Seq(Pieces) /\ d \in Seq(Pieces) /\ sq \in Seq(Pieces) /\ Components(sq) = c \o d
    BY ComponentsTyped
  <2>2. s \o Append(q, x) = Append(sq, x) /\ Append(q, x) \in Seq(Pieces)
    OBVIOUS
  <2>3. Components(Append(q, x)) = IF x = Empty THEN d ELSE Append(d, x)
    BY <2>1, ComponentsAppend
  <2> HIDE DEF c, d, sq
  <2>4. Components(Append(sq, x)) = IF x = Empty THEN c \o d ELSE Append(c \o d, x)
    <3>1. c \o d \in Seq(Pieces)
      BY <2>1
    <3>2. QED
      BY <2>1, <3>1, ComponentsAppend
  <2>5. c \o Append(d, x) = Append(c \o d, x)
    BY <2>1
  <2>6. Components(Append(sq, x)) = c \o Components(Append(q, x))
    BY <2>3, <2>4, <2>5
  <2>7. QED
    BY <2>2, <2>6 DEF c
<1>3. T = Seq(Pieces)
  <2>1. T \in SUBSET Seq(Pieces)
    OBVIOUS
  <2> HIDE DEF T
  <2>2. QED
    BY <1>1, <1>2, <2>1, LongerAndLonger
<1>4. QED
  BY <1>3

\* A sequence of names has itself as components.
LEMMA ComponentsOfNamed ==
  ASSUME NEW s \in Seq(Named)
  PROVE  Components(s) = s
<1> DEFINE T == {q \in Seq(Named) : Components(q) = q}
<1>0. \A q \in Seq(Named) : q \in Seq(Pieces)
  BY DEF Named
<1>1. <<>> \in T
  <2>1. <<>> \in Seq(Named)
    OBVIOUS
  <2>2. QED
    BY <2>1, NoComponents, Zenon
<1>2. ASSUME NEW q \in T, NEW x \in Named PROVE Append(q, x) \in T
  <2>1. x \in Pieces /\ x # Empty
    BY DEF Named
  <2>2. Components(Append(q, x)) = Append(q, x)
    BY <1>0, <2>1, ComponentsAppend
  <2>3. QED
    BY <2>2
<1>3. T = Seq(Named)
  <2>1. T \in SUBSET Seq(Named)
    OBVIOUS
  <2> HIDE DEF T
  <2>2. QED
    BY <1>1, <1>2, <2>1, LongerAndLonger
<1>4. QED
  BY <1>3

LEMMA ComponentsOfOne ==
  /\ Components(<<Empty>>) = <<>>
  /\ \A x \in Named : Components(<<x>>) = <<x>>
<1>1. <<Empty>> = Append(<<>>, Empty) /\ <<>> \in Seq(Pieces)
  OBVIOUS
<1>2. Components(Append(<<>>, Empty)) = <<>>
  <2> DEFINE none == <<>>
  <2>1. none \in Seq(Pieces) /\ Components(none) = none
    BY NoComponents
  <2> HIDE DEF none
  <2>2. Components(Append(none, Empty)) = none
    BY <2>1, PieceFacts, ComponentsAppend
  <2>3. QED
    BY <2>2 DEF none
<1>3. \A x \in Named : <<x>> \in Seq(Named)
  OBVIOUS
<1>4. QED
  BY <1>1, <1>2, <1>3, ComponentsOfNamed

-----------------------------------------------------------------------------
(* Cleaning.                                                               *)

\* Names behind parents, and no parents of the root.
Reduced(rooted, names) ==
    /\ names \in Seq(Named)
    /\ \A i \in 1 .. Len(names) : names[i] # Dot /\ (rooted => names[i] # DotDot)
    /\ \A i, j \in 1 .. Len(names) : i < j /\ names[j] = DotDot => names[i] = DotDot

EnterStep(rooted) == [turn \in Seq(Pieces) \X Pieces |-> Entered(rooted, turn[1], turn[2])]

LEMMA EnterIs ==
  ASSUME NEW rooted \in BOOLEAN
  PROVE  /\ IsStep(EnterStep(rooted), Seq(Pieces), Pieces)
         /\ \A s \in Seq(Pieces), x \in Pieces : EnterStep(rooted)[<<s, x>>] = Entered(rooted, s, x)
<1>1. \A s \in Seq(Pieces), x \in Pieces : Entered(rooted, s, x) \in Seq(Pieces)
  <2> SUFFICES ASSUME NEW s \in Seq(Pieces), NEW x \in Pieces PROVE Entered(rooted, s, x) \in Seq(Pieces)
    OBVIOUS
  <2>1. Append(s, x) \in Seq(Pieces)
    OBVIOUS
  <2>2. s # <<>> => Front(s) \in Seq(Pieces)
    BY DEF Front
  <2>3. QED
    BY <2>1, <2>2 DEF Entered
<1>2. QED
  BY <1>1 DEF EnterStep, IsStep

\* The stack of _clean.
StackOf(rooted, names) == Folded(EnterStep(rooted), <<>>, names)

LEMMA StackOfNothing == ASSUME NEW rooted \in BOOLEAN PROVE StackOf(rooted, <<>>) = <<>>
<1> DEFINE none == <<>>
<1>1. none \in Seq(Pieces)
  OBVIOUS
<1> HIDE DEF none
<1>2. Folded(EnterStep(rooted), none, <<>>) = none
  BY <1>1, EnterIs, FoldedNothing
<1>3. QED
  BY <1>2 DEF none, StackOf

LEMMA StackOfAppend ==
  ASSUME NEW rooted \in BOOLEAN, NEW s \in Seq(Pieces), NEW x \in Pieces
  PROVE  /\ StackOf(rooted, s) \in Seq(Pieces)
         /\ StackOf(rooted, Append(s, x)) = Entered(rooted, StackOf(rooted, s), x)
<1> DEFINE none == <<>>
<1>1. none \in Seq(Pieces)
  OBVIOUS
<1>2. \A q : StackOf(rooted, q) = Folded(EnterStep(rooted), none, q)
  BY DEF StackOf
<1> HIDE DEF none
<1>3. Folded(EnterStep(rooted), none, Append(s, x)) = EnterStep(rooted)[<<Folded(EnterStep(rooted), none, s), x>>]
  BY <1>1, EnterIs, FoldedAppend
<1>4. Folded(EnterStep(rooted), none, s) \in Seq(Pieces)
  BY <1>1, EnterIs, FoldedTyped
<1>5. QED
  BY <1>2, <1>3, <1>4, EnterIs

\* A sequence without its last item, and with one more.
LEMMA FrontFacts ==
  ASSUME NEW S, NEW s \in Seq(S), s # <<>>
  PROVE  /\ Front(s) \in Seq(S) /\ Len(Front(s)) = Len(s) - 1 /\ Last(s) \in S
         /\ Len(s) \in Nat \ {0} /\ Last(s) = s[Len(s)]
         /\ \A i \in 1 .. Len(s) - 1 : Front(s)[i] = s[i]
<1>1. Len(s) \in Nat \ {0} /\ Last(s) = s[Len(s)] /\ Last(s) \in S
  <2>1. Len(s) \in Nat /\ (Len(s) = 0 => s = <<>>)
    OBVIOUS
  <2>2. Len(s) \in 1 .. Len(s)
    BY <2>1
  <2>3. QED
    BY <2>1, <2>2 DEF Last
<1>2. Front(s) = SubSeq(s, 1, Len(s) - 1)
  BY DEF Front
<1>3. 1 \in 1 .. Len(s) + 1 /\ Len(s) - 1 \in 0 .. Len(s)
  BY <1>1
<1>4. SubSeq(s, 1, Len(s) - 1) \in Seq(S) /\ Len(SubSeq(s, 1, Len(s) - 1)) = Len(s) - 1
  <2>1. \A i \in 1 .. Len(s) - 1 : s[i] \in S
    BY <1>1
  <2> DEFINE n == Len(s) - 1
  <2>2. n \in Int /\ 1 \in Int /\ n >= 0 /\ \A i \in 1 .. n : s[i] \in S
    BY <1>1, <2>1
  <2> HIDE DEF n
  <2>3. SubSeq(s, 1, n) \in Seq(S) /\ Len(SubSeq(s, 1, n)) = IF 1 <= n THEN n - 1 + 1 ELSE 0
    BY <2>2, SubSeqProperties
  <2>4. SubSeq(s, 1, n) \in Seq(S) /\ Len(SubSeq(s, 1, n)) = n
    BY <2>2, <2>3
  <2>5. QED
    BY <2>4 DEF n
<1>5. ASSUME NEW i \in 1 .. Len(s) - 1 PROVE SubSeq(s, 1, Len(s) - 1)[i] = s[i]
  BY <1>1, <1>3
<1>6. QED
  BY <1>1, <1>2, <1>4, <1>5

LEMMA AppendFacts ==
  ASSUME NEW S, NEW s \in Seq(S), NEW x \in S
  PROVE  /\ Append(s, x) \in Seq(S) /\ Len(Append(s, x)) = Len(s) + 1 /\ Len(s) \in Nat
         /\ \A i \in 1 .. Len(s) : Append(s, x)[i] = s[i]
         /\ Append(s, x)[Len(s) + 1] = x
         /\ Append(s, x) # <<>> /\ Last(Append(s, x)) = x /\ Front(Append(s, x)) = s
<1>1. Append(s, x) \in Seq(S) /\ Len(Append(s, x)) = Len(s) + 1 /\ Len(s) \in Nat
  OBVIOUS
<1>2. \A i \in 1 .. Len(s) : Append(s, x)[i] = s[i]
  OBVIOUS
<1>3. Append(s, x)[Len(s) + 1] = x /\ Append(s, x) # <<>> /\ Last(Append(s, x)) = x
  BY DEF Last
<1>4. Front(Append(s, x)) = s
  <2> DEFINE e == Append(s, x)
             u == Front(e)
  <2>1. e \in Seq(S) /\ e # <<>> /\ Len(e) = Len(s) + 1 /\ \A i \in 1 .. Len(s) : e[i] = s[i]
    BY <1>1, <1>2, <1>3
  <2> HIDE DEF e
  <2>2. u \in Seq(S) /\ Len(u) = Len(e) - 1 /\ \A i \in 1 .. Len(e) - 1 : u[i] = e[i]
    BY <2>1, FrontFacts
  <2> HIDE DEF u
  <2>3. Len(u) = Len(s) /\ \A i \in 1 .. Len(s) : u[i] = s[i]
    BY <2>1, <2>2, <1>1
  <2>4. u = s
    BY <2>2, <2>3, SeqEqual
  <2>5. QED
    BY <2>4 DEF u, e
<1>5. QED
  BY <1>1, <1>2, <1>3, <1>4

LEMMA FrontAndLast ==
  ASSUME NEW S, NEW s \in Seq(S), s # <<>>
  PROVE  s = Append(Front(s), Last(s))
<1> DEFINE f == Front(s)
           x == Last(s)
           u == Append(f, x)
<1>1. f \in Seq(S) /\ Len(f) = Len(s) - 1 /\ x \in S /\ Len(s) \in Nat \ {0} /\ x = s[Len(s)]
      /\ \A i \in 1 .. Len(s) - 1 : f[i] = s[i]
  BY FrontFacts
<1> HIDE DEF f, x
<1>2. u \in Seq(S) /\ Len(u) = Len(f) + 1 /\ u[Len(f) + 1] = x /\ \A i \in 1 .. Len(f) : u[i] = f[i]
  BY <1>1, AppendFacts
<1> HIDE DEF u
<1>3. Len(u) = Len(s) /\ \A i \in 1 .. Len(s) : u[i] = s[i]
  BY <1>1, <1>2
<1>4. s = u
  BY <1>2, <1>3, SeqEqual
<1>5. QED
  BY <1>4 DEF u, f, x

LEMMA ReducedNothing == \A rooted : Reduced(rooted, <<>>)
BY DEF Reduced

LEMMA ReducedAppend ==
  ASSUME NEW rooted, NEW s \in Seq(Named), NEW x \in Named
  PROVE  Reduced(rooted, Append(s, x)) <=>
            /\ Reduced(rooted, s) /\ x # Dot
            /\ x = DotDot => ~rooted /\ \A i \in 1 .. Len(s) : s[i] = DotDot
<1> DEFINE u == Append(s, x)
           n == Len(s)
<1>1. u \in Seq(Named) /\ Len(u) = n + 1 /\ n \in Nat /\ u[n + 1] = x /\ \A i \in 1 .. n : u[i] = s[i]
  BY AppendFacts
<1> HIDE DEF u
<1>2. ASSUME Reduced(rooted, u)
      PROVE  /\ Reduced(rooted, s) /\ x # Dot
             /\ x = DotDot => ~rooted /\ \A i \in 1 .. Len(s) : s[i] = DotDot
  <2>1. \A i \in 1 .. n : i \in 1 .. n + 1 /\ i < n + 1
    BY <1>1
  <2>2. n + 1 \in 1 .. n + 1
    BY <1>1
  <2>3. x # Dot /\ (x = DotDot => ~rooted)
    BY <1>1, <1>2, <2>2 DEF Reduced
  <2>4. Reduced(rooted, s)
    BY <1>1, <1>2, <2>1 DEF Reduced
  <2>5. x = DotDot => \A i \in 1 .. Len(s) : s[i] = DotDot
    BY <1>1, <1>2, <2>1, <2>2 DEF Reduced
  <2>6. QED
    BY <2>3, <2>4, <2>5
<1>3. ASSUME Reduced(rooted, s), x # Dot, x = DotDot => ~rooted /\ \A i \in 1 .. Len(s) : s[i] = DotDot
      PROVE  Reduced(rooted, u)
  <2>1. \A i \in 1 .. n + 1 : i \in 1 .. n \/ i = n + 1
    BY <1>1
  <2>2. \A i \in 1 .. n + 1 : u[i] # Dot /\ (rooted => u[i] # DotDot)
    BY <1>1, <1>3, <2>1 DEF Reduced
  <2>3. ASSUME NEW i \in 1 .. n + 1, NEW j \in 1 .. n + 1, i < j, u[j] = DotDot PROVE u[i] = DotDot
    <3>1. i \in 1 .. n
      BY <1>1, <2>3
    <3>2. CASE j = n + 1
      BY <3>1, <3>2, <1>1, <1>3, <2>3
    <3>3. CASE j \in 1 .. n
      BY <3>1, <3>3, <1>1, <1>3, <2>3 DEF Reduced
    <3>4. QED
      BY <3>2, <3>3, <2>1
  <2>4. QED
    BY <1>1, <2>2, <2>3 DEF Reduced
<1>4. QED
  BY <1>2, <1>3 DEF u

LEMMA EnteredReduces ==
  ASSUME NEW rooted \in BOOLEAN, NEW s, Reduced(rooted, s), NEW x \in Named
  PROVE  Reduced(rooted, Entered(rooted, s, x))
<1>0. s \in Seq(Named)
  BY DEF Reduced
<1>1. CASE x = Dot
  BY <1>1 DEF Entered
<1>2. CASE x # Dot /\ x # DotDot
  BY <1>0, <1>2, ReducedAppend DEF Entered
<1>3. CASE x = DotDot /\ s # <<>> /\ Last(s) # DotDot
  <2>1. Front(s) \in Seq(Named) /\ Last(s) \in Named /\ s = Append(Front(s), Last(s))
    BY <1>0, <1>3, FrontFacts, FrontAndLast
  <2> DEFINE f == Front(s)
             y == Last(s)
  <2>2. f \in Seq(Named) /\ y \in Named /\ Reduced(rooted, Append(f, y))
    BY <2>1
  <2> HIDE DEF f, y
  <2>3. Reduced(rooted, f)
    BY <2>2, ReducedAppend
  <2>4. Entered(rooted, s, x) = f
    BY <1>3, PieceFacts DEF Entered, f
  <2>5. QED
    BY <2>3, <2>4
<1>4. CASE x = DotDot /\ ~(s # <<>> /\ Last(s) # DotDot) /\ rooted
  BY <1>4, PieceFacts DEF Entered
<1>5. CASE x = DotDot /\ ~(s # <<>> /\ Last(s) # DotDot) /\ ~rooted
  <2>1. \A i \in 1 .. Len(s) : s[i] = DotDot
    <3>1. CASE s = <<>>
      BY <3>1
    <3>2. CASE s # <<>>
      <4>1. Len(s) \in Nat \ {0} /\ s[Len(s)] = DotDot
        BY <1>0, <1>5, <3>2, FrontFacts
      <4>2. ASSUME NEW i \in 1 .. Len(s) PROVE s[i] = DotDot
        <5>1. i = Len(s) \/ i < Len(s)
          BY <4>1
        <5>2. Len(s) \in 1 .. Len(s)
          BY <4>1
        <5>3. QED
          BY <4>1, <5>1, <5>2 DEF Reduced
      <4>3. QED
        BY <4>2
    <3>3. QED
      BY <3>1, <3>2
  <2>2. Reduced(rooted, Append(s, x))
    BY <1>0, <1>5, <2>1, PieceFacts, ReducedAppend
  <2>3. Entered(rooted, s, x) = Append(s, x)
    BY <1>5, PieceFacts DEF Entered
  <2>4. QED
    BY <2>2, <2>3
<1>6. QED
  BY <1>1, <1>2, <1>3, <1>4, <1>5

LEMMA NamedArePieces == \A s \in Seq(Named) : s \in Seq(Pieces)
BY DEF Named

LEMMA StacksAreReduced ==
  ASSUME NEW rooted \in BOOLEAN, NEW names \in Seq(Named)
  PROVE  Reduced(rooted, StackOf(rooted, names))
<1> DEFINE T == {q \in Seq(Named) : Reduced(rooted, StackOf(rooted, q))}
<1>1. <<>> \in T
  <2>1. <<>> \in Seq(Named)
    OBVIOUS
  <2>2. QED
    BY <2>1, StackOfNothing, ReducedNothing, Zenon
<1>2. ASSUME NEW q \in T, NEW x \in Named PROVE Append(q, x) \in T
  <2>1. StackOf(rooted, Append(q, x)) = Entered(rooted, StackOf(rooted, q), x)
    <3>1. q \in Seq(Pieces) /\ x \in Pieces
      BY NamedArePieces DEF Named
    <3>2. QED
      BY <3>1, StackOfAppend
  <2>2. Reduced(rooted, StackOf(rooted, Append(q, x)))
    BY <2>1, EnteredReduces
  <2>3. Append(q, x) \in Seq(Named)
    BY AppendFacts
  <2>4. QED
    BY <2>2, <2>3
<1>3. T = Seq(Named)
  <2>1. T \in SUBSET Seq(Named)
    OBVIOUS
  <2> HIDE DEF T
  <2>2. QED
    BY <1>1, <1>2, <2>1, LongerAndLonger
<1>4. QED
  BY <1>3

\* What is reduced stays as it is.
LEMMA StackOfReduced ==
  ASSUME NEW rooted \in BOOLEAN, NEW names, Reduced(rooted, names)
  PROVE  StackOf(rooted, names) = names
<1> DEFINE T == {q \in Seq(Named) : Reduced(rooted, q) => StackOf(rooted, q) = q}
<1>1. <<>> \in T
  <2>1. <<>> \in Seq(Named)
    OBVIOUS
  <2>2. QED
    BY <2>1, StackOfNothing, Zenon
<1>2. ASSUME NEW q \in T, NEW x \in Named PROVE Append(q, x) \in T
  <2>1. Append(q, x) \in Seq(Named)
    BY AppendFacts
  <2>2. SUFFICES ASSUME Reduced(rooted, Append(q, x)) PROVE StackOf(rooted, Append(q, x)) = Append(q, x)
    BY <2>1
  <2>3. Reduced(rooted, q) /\ x # Dot /\ (x = DotDot => ~rooted /\ \A i \in 1 .. Len(q) : q[i] = DotDot)
    BY <2>2, ReducedAppend
  <2>4. StackOf(rooted, Append(q, x)) = Entered(rooted, q, x)
    <3>1. q \in Seq(Pieces) /\ x \in Pieces
      BY NamedArePieces DEF Named
    <3>2. QED
      BY <3>1, <2>3, StackOfAppend
  <2>5. Entered(rooted, q, x) = Append(q, x)
    <3>1. q # <<>> /\ x = DotDot => Last(q) = DotDot
      <4>0. q \in Seq(Named)
        OBVIOUS
      <4> HIDE DEF T
      <4>1. q # <<>> => Len(q) \in 1 .. Len(q) /\ Last(q) = q[Len(q)]
        <5> SUFFICES ASSUME q # <<>> PROVE Len(q) \in 1 .. Len(q) /\ Last(q) = q[Len(q)]
          OBVIOUS
        <5>1. Len(q) \in Nat \ {0} /\ Last(q) = q[Len(q)]
          BY <4>0, FrontFacts
        <5>2. QED
          BY <5>1
      <4>2. QED
        BY <2>3, <4>1
    <3>2. QED
      BY <2>3, <3>1 DEF Entered
  <2>6. QED
    BY <2>4, <2>5
<1>3. T = Seq(Named)
  <2>1. T \in SUBSET Seq(Named)
    OBVIOUS
  <2> HIDE DEF T
  <2>2. QED
    BY <1>1, <1>2, <2>1, LongerAndLonger
<1>4. names \in Seq(Named)
  BY DEF Reduced
<1>5. QED
  BY <1>3, <1>4

-----------------------------------------------------------------------------

LEMMA TextFacts ==
  ASSUME NEW text \in AllTexts
  PROVE  text \in Seq(Pieces) /\ text # <<>> /\ Len(text) \in Nat \ {0}
BY DEF AllTexts

\* A text that has been built says from what.
LEMMA BuildFacts ==
  ASSUME NEW rooted \in BOOLEAN, NEW names, Reduced(rooted, names)
  PROVE  /\ Build(rooted, names) \in AllTexts
         /\ Rooted(Build(rooted, names)) = rooted
         /\ Components(Build(rooted, names)) = IF names = <<>> /\ ~rooted THEN <<Dot>> ELSE names
<1>0. names \in Seq(Named) /\ names \in Seq(Pieces) /\ Dot \in Named
  BY NamedArePieces, PieceFacts DEF Reduced, Named
<1>1. CASE rooted /\ names = <<>>
  <2>1. Root \in AllTexts /\ Rooted(Root)
    BY PieceFacts DEF Root, AllTexts, Rooted
  <2>2. Components(Root) = <<>>
    <3>1. <<Empty>> \in Seq(Pieces) /\ Root = <<Empty>> \o <<Empty>>
      BY PieceFacts DEF Root
    <3>2. Components(<<Empty>> \o <<Empty>>) = Components(<<Empty>>) \o Components(<<Empty>>)
      <4> DEFINE e == <<Empty>>
      <4>1. e \in Seq(Pieces)
        BY <3>1
      <4> HIDE DEF e
      <4>2. Components(e \o e) = Components(e) \o Components(e)
        BY <4>1, ComponentsTwice
      <4>3. QED
        BY <4>2 DEF e
    <3>3. QED
      BY <3>1, <3>2, ComponentsOfOne
  <2>3. Build(rooted, names) = Root
    BY <1>1 DEF Build
  <2>4. QED
    BY <1>1, <2>1, <2>2, <2>3
<1>2. CASE rooted /\ names # <<>>
  <2> DEFINE e == <<Empty>>
  <2>1. e \in Seq(Pieces) /\ Components(e) = <<>> /\ Len(e) = 1 /\ e[1] = Empty
    BY PieceFacts, ComponentsOfOne
  <2> HIDE DEF e
  <2>2. Build(rooted, names) = e \o names
    BY <1>2 DEF Build, e
  <2>3. e \o names \in Seq(Pieces) /\ Len(e \o names) > 1 /\ Head(e \o names) = Empty
    <3>1. e \o names \in Seq(Pieces) /\ Len(e \o names) = 1 + Len(names) /\ Len(names) \in Nat
      BY <1>0, <2>1, ConcatProperties
    <3>2. Len(names) # 0
      BY <1>0, <1>2
    <3>3. (e \o names)[1] = Empty
      BY <1>0, <2>1, <3>1
    <3>4. Head(e \o names) = (e \o names)[1]
      BY <3>1, <3>2, HeadTailProperties
    <3>5. QED
      BY <3>1, <3>2, <3>3, <3>4
  <2>4. Components(e \o names) = Components(e) \o Components(names)
    BY <1>0, <2>1, ComponentsTwice
  <2>5. Components(names) = names
    BY <1>0, ComponentsOfNamed
  <2>6. <<>> \o names = names
    BY <1>0
  <2>7. e \o names # <<>>
    BY <2>3
  <2>8. QED
    BY <1>2, <2>1, <2>2, <2>3, <2>4, <2>5, <2>6, <2>7 DEF AllTexts, Rooted
<1>3. CASE ~rooted /\ names = <<>>
  <2>1. Current \in AllTexts /\ Rooted(Current) = FALSE
    BY PieceFacts DEF Current, AllTexts, Rooted
  <2>2. Components(Current) = <<Dot>>
    BY <1>0, ComponentsOfOne DEF Current
  <2>3. Build(rooted, names) = Current
    BY <1>3 DEF Build
  <2>4. rooted = FALSE
    BY <1>3
  <2>5. QED
    BY <1>3, <2>1, <2>2, <2>3, <2>4, Zenon
<1>4. CASE ~rooted /\ names # <<>>
  <2>1. Build(rooted, names) = names
    BY <1>4 DEF Build
  <2>2. names \in AllTexts
    BY <1>0, <1>4 DEF AllTexts
  <2>3. Rooted(names) = FALSE
    <3>1. names[1] \in Named /\ Head(names) = names[1]
      BY <1>0, <1>4
    <3>2. QED
      BY <3>1 DEF Rooted, Named
  <2>4. rooted = FALSE /\ Components(names) = names
    BY <1>0, <1>4, ComponentsOfNamed
  <2>5. QED
    BY <1>4, <2>1, <2>2, <2>3, <2>4, Zenon
<1>5. QED
  BY <1>1, <1>2, <1>3, <1>4

LEMMA CleanIs ==
  ASSUME NEW text \in AllTexts
  PROVE  /\ Rooted(text) \in BOOLEAN
         /\ Clean(text) = Build(Rooted(text), StackOf(Rooted(text), Components(text)))
         /\ Reduced(Rooted(text), StackOf(Rooted(text), Components(text)))
<1>1. Rooted(text) \in BOOLEAN
  BY DEF Rooted
<1>2. Components(text) \in Seq(Named)
  BY TextFacts, ComponentsTyped
<1>3. Clean(text) = Build(Rooted(text), StackOf(Rooted(text), Components(text)))
  BY DEF Clean, StackOf, EnterStep
<1>4. QED
  BY <1>1, <1>2, <1>3, StacksAreReduced

IsClean(text) == \E rooted \in BOOLEAN : \E names \in Seq(Named) : Reduced(rooted, names) /\ text = Build(rooted, names)

LEMMA BuiltIsClean ==
  ASSUME NEW rooted \in BOOLEAN, NEW names, Reduced(rooted, names)
  PROVE  IsClean(Build(rooted, names))
BY DEF IsClean, Reduced

LEMMA CleanedIsClean ==
  ASSUME NEW text \in AllTexts
  PROVE  IsClean(Clean(text)) /\ Clean(text) \in AllTexts /\ Rooted(Clean(text)) = Rooted(text)
BY CleanIs, BuiltIsClean, BuildFacts

LEMMA CleanOfBuild ==
  ASSUME NEW rooted \in BOOLEAN, NEW names, Reduced(rooted, names)
  PROVE  Clean(Build(rooted, names)) = Build(rooted, names)
<1> DEFINE text == Build(rooted, names)
<1>1. text \in AllTexts /\ Rooted(text) = rooted
      /\ Components(text) = IF names = <<>> /\ ~rooted THEN <<Dot>> ELSE names
  BY BuildFacts
<1> HIDE DEF text
<1>2. Clean(text) = Build(rooted, StackOf(rooted, Components(text)))
  BY <1>1, CleanIs
<1>3. StackOf(rooted, Components(text)) = names
  <2>1. CASE names = <<>> /\ ~rooted
    <3> DEFINE none == <<>>
    <3>1. none \in Seq(Pieces) /\ <<Dot>> = Append(none, Dot) /\ StackOf(rooted, none) = none
      BY StackOfNothing
    <3> HIDE DEF none
    <3>2. StackOf(rooted, Append(none, Dot)) = Entered(rooted, StackOf(rooted, none), Dot)
      BY <3>1, PieceFacts, StackOfAppend
    <3>3. StackOf(rooted, <<Dot>>) = none
      BY <3>1, <3>2 DEF Entered
    <3>4. QED
      BY <1>1, <2>1, <3>3 DEF none
  <2>2. CASE ~(names = <<>> /\ ~rooted)
    BY <1>1, <2>2, StackOfReduced
  <2>3. QED
    BY <2>1, <2>2
<1>4. QED
  BY <1>2, <1>3 DEF text

-----------------------------------------------------------------------------
(* Joining.                                                                *)

LEMMA ConcatFacts ==
  ASSUME NEW S, NEW s \in Seq(S), NEW t \in Seq(S)
  PROVE  /\ s \o t \in Seq(S) /\ Len(s \o t) = Len(s) + Len(t)
         /\ Len(s) \in Nat /\ Len(t) \in Nat
         /\ (t # <<>> => s \o t # <<>> /\ Len(t) # 0) /\ (s # <<>> => s \o t # <<>> /\ Len(s) # 0)
         /\ s # <<>> => (s \o t)[1] = s[1]
<1>1. s \o t \in Seq(S) /\ Len(s \o t) = Len(s) + Len(t) /\ Len(s) \in Nat /\ Len(t) \in Nat
  BY ConcatProperties
<1>2. (s # <<>> => Len(s) # 0) /\ (t # <<>> => Len(t) # 0)
  OBVIOUS
<1>3. s \o t = <<>> => s = <<>> /\ t = <<>>
  BY ConcatEqualIffEmpty
<1>4. s # <<>> => (s \o t)[1] = s[1]
  BY <1>1, <1>2
<1>5. QED
  BY <1>1, <1>2, <1>3, <1>4

LEMMA EmptyTextFacts ==
  /\ EmptyText \in AllTexts /\ Rooted(EmptyText) = FALSE /\ Components(EmptyText) = <<>>
  /\ Root \in AllTexts /\ Root # EmptyText
<1>1. EmptyText \in AllTexts /\ Rooted(EmptyText) = FALSE
  BY PieceFacts DEF EmptyText, AllTexts, Rooted
<1>2. Components(EmptyText) = <<>>
  BY ComponentsOfOne DEF EmptyText
<1>3. Root \in AllTexts /\ Root # EmptyText
  BY PieceFacts DEF EmptyText, AllTexts, Root
<1>4. QED
  BY <1>1, <1>2, <1>3

LEMMA RootedIs ==
  ASSUME NEW text \in AllTexts
  PROVE  Rooted(text) = (Len(text) > 1 /\ text[1] = Empty)
<1>1. Head(text) = text[1]
  BY TextFacts
<1>2. QED
  BY <1>1 DEF Rooted

LEMMA JoinedFacts ==
  ASSUME NEW a \in AllTexts, NEW b \in AllTexts
  PROVE  /\ Joined(a, b) \in AllTexts
         /\ Components(Joined(a, b)) = Components(a) \o Components(b)
         /\ Rooted(Joined(a, b)) = IF a = EmptyText THEN Rooted(b) ELSE Rooted(a)
<1>0. /\ a \in Seq(Pieces) /\ a # <<>> /\ Len(a) \in Nat \ {0}
      /\ b \in Seq(Pieces) /\ b # <<>> /\ Len(b) \in Nat \ {0}
  BY TextFacts
<1> DEFINE f == Front(a)
<1>1. f \in Seq(Pieces) /\ Len(f) = Len(a) - 1 /\ a = Append(f, Last(a)) /\ Last(a) = a[Len(a)]
      /\ \A i \in 1 .. Len(a) - 1 : f[i] = a[i]
  BY <1>0, FrontFacts, FrontAndLast
<1>2. Joined(a, b) = IF a = EmptyText \/ EndsWithSeparator(a) THEN f \o b ELSE a \o b
  BY DEF Joined
<1>3. Last(a) = Empty => Components(a) = Components(f)
  <2>1. Components(f) \in Seq(Pieces)
    BY <1>1, ComponentsTyped
  <2> SUFFICES ASSUME Last(a) = Empty PROVE Components(a) = Components(f)
    OBVIOUS
  <2>2. Components(Append(f, Empty)) = Components(f)
    <3> HIDE DEF f
    <3>1. QED
      BY <1>1, <2>1, PieceFacts, ComponentsAppend
  <2>3. QED
    BY <1>1, <2>2
<1> HIDE DEF f
<1>4. CASE a = EmptyText
  <2>1. Len(a) = 1 /\ Last(a) = Empty
    BY <1>1, <1>4 DEF EmptyText
  <2>2. f = <<>>
    BY <1>1, <2>1
  <2>3. <<>> \o b = b
    BY <1>0, ConcatEmptySeq
  <2>4. Joined(a, b) = b
    BY <1>2, <1>4, <2>2, <2>3
  <2>5. Components(a) = <<>> /\ Components(b) \in Seq(Pieces)
    BY <1>0, <1>4, EmptyTextFacts, ComponentsTyped
  <2>6. <<>> \o Components(b) = Components(b)
    BY <2>5, ConcatEmptySeq
  <2>7. Components(a) \o Components(b) = Components(b)
    BY <2>5, <2>6
  <2>8. QED
    BY <1>4, <2>4, <2>7
<1>5. CASE a # EmptyText /\ EndsWithSeparator(a)
  <2>1. Joined(a, b) = f \o b /\ Len(a) > 1 /\ Last(a) = Empty
    BY <1>2, <1>5 DEF EndsWithSeparator
  <2>2. f # <<>>
    BY <1>1, <2>1
  <2>3. /\ f \o b \in Seq(Pieces) /\ Len(f \o b) = Len(f) + Len(b) /\ f \o b # <<>>
        /\ (f \o b)[1] = f[1]
    BY <1>0, <1>1, <2>2, ConcatFacts
  <2>4. f[1] = a[1] /\ Len(f) + Len(b) > 1
    BY <1>0, <1>1, <2>1
  <2>5. f \o b \in AllTexts
    BY <2>3 DEF AllTexts
  <2>6. Rooted(f \o b) = (a[1] = Empty)
    BY <2>3, <2>4, <2>5, RootedIs
  <2>7. Rooted(a) = (a[1] = Empty)
    BY <2>1, RootedIs
  <2>8. Components(f \o b) = Components(f) \o Components(b)
    BY <1>0, <1>1, ComponentsTwice
  <2>9. QED
    BY <1>3, <1>5, <2>1, <2>5, <2>6, <2>7, <2>8
<1>6. CASE a # EmptyText /\ ~EndsWithSeparator(a)
  <2>1. Joined(a, b) = a \o b
    BY <1>2, <1>6
  <2>3. /\ a \o b \in Seq(Pieces) /\ Len(a \o b) = Len(a) + Len(b) /\ a \o b # <<>>
        /\ (a \o b)[1] = a[1]
    BY <1>0, ConcatFacts
  <2>4. Len(a) + Len(b) > 1
    BY <1>0
  <2>5. a \o b \in AllTexts
    BY <2>3 DEF AllTexts
  <2>6. Rooted(a \o b) = (a[1] = Empty)
    BY <2>3, <2>4, <2>5, RootedIs
  <2>7. Rooted(a) = (a[1] = Empty)
    <3>1. CASE Len(a) > 1
      BY <3>1, RootedIs
    <3>2. CASE ~(Len(a) > 1)
      <4>1. Len(a) = 1
        <5> DEFINE n == Len(a)
        <5>1. n \in Nat \ {0} /\ ~(n > 1)
          BY <3>2, <1>0
        <5> HIDE DEF n
        <5>2. n = 1
          BY <5>1
        <5>3. QED
          BY <5>2 DEF n
      <4>2. a[1] = Empty => a = EmptyText
        <5> SUFFICES ASSUME a[1] = Empty PROVE a = EmptyText
          OBVIOUS
        <5> DEFINE e == <<Empty>>
        <5>1. e \in Seq(Pieces) /\ Len(e) = 1 /\ e[1] = Empty
          BY PieceFacts
        <5> HIDE DEF e
        <5>2. a = e
          BY <1>0, <4>1, <5>1, SeqEqual
        <5>3. QED
          BY <5>2 DEF e, EmptyText
      <4>3. QED
        BY <4>1, <4>2, <1>6, RootedIs
    <3>3. QED
      BY <3>1, <3>2
  <2>8. Components(a \o b) = Components(a) \o Components(b)
    BY <1>0, ComponentsTwice
  <2>9. QED
    BY <1>6, <2>1, <2>5, <2>6, <2>7, <2>8
<1>7. QED
  BY <1>4, <1>5, <1>6

\* Texts with the same components from the same start are cleaned alike.
LEMMA CleanedAlike ==
  ASSUME NEW a \in AllTexts, NEW b \in AllTexts, Rooted(a) = Rooted(b),
         StackOf(Rooted(b), Components(a)) = StackOf(Rooted(b), Components(b))
  PROVE  Clean(a) = Clean(b)
BY CleanIs

JoinStep == [turn \in AllTexts \X AllTexts |-> Joined(turn[1], turn[2])]

LEMMA JoinIs ==
  /\ IsStep(JoinStep, AllTexts, AllTexts)
  /\ \A a \in AllTexts, b \in AllTexts : JoinStep[<<a, b>>] = Joined(a, b)
<1>1. \A a \in AllTexts, b \in AllTexts : Joined(a, b) \in AllTexts
  BY JoinedFacts
<1>2. QED
  BY <1>1 DEF IsStep, JoinStep

LEMMA JoinTextsIs ==
  ASSUME NEW base \in AllTexts, NEW texts \in Seq(AllTexts)
  PROVE  /\ JoinTexts(base, texts) = Clean(Folded(JoinStep, base, texts))
         /\ Folded(JoinStep, base, texts) \in AllTexts
         /\ JoinTexts(base, texts) \in AllTexts /\ IsClean(JoinTexts(base, texts))
<1>1. JoinTexts(base, texts) = Clean(Folded(JoinStep, base, texts))
  BY DEF JoinTexts, JoinStep
<1>2. Folded(JoinStep, base, texts) \in AllTexts
  BY JoinIs, FoldedTyped
<1>3. QED
  BY <1>1, <1>2, CleanedIsClean

LEMMA JoinOne ==
  ASSUME NEW base \in AllTexts, NEW text \in AllTexts
  PROVE  /\ JoinTexts(base, <<text>>) = Clean(Joined(base, text))
         /\ JoinTexts(base, <<text>>) \in AllTexts /\ IsClean(JoinTexts(base, <<text>>))
<1> DEFINE ts == <<text>>
<1>1. ts \in Seq(AllTexts)
  OBVIOUS
<1>2. Folded(JoinStep, base, <<text>>) = Joined(base, text)
  <2>1. IsStep(JoinStep, AllTexts, AllTexts) /\ JoinStep[<<base, text>>] = Joined(base, text)
    BY JoinIs
  <2> DEFINE none == <<>>
  <2>2. none \in Seq(AllTexts) /\ <<text>> = Append(none, text)
    OBVIOUS
  <2>3. Folded(JoinStep, base, none) = base
    BY <2>1, FoldedNothing
  <2> HIDE DEF none
  <2>4. Folded(JoinStep, base, Append(none, text)) = JoinStep[<<Folded(JoinStep, base, none), text>>]
    BY <2>1, <2>2, FoldedAppend
  <2>5. QED
    BY <2>1, <2>2, <2>3, <2>4
<1>3. Folded(JoinStep, base, ts) = Joined(base, text)
  BY <1>2
<1> HIDE DEF ts
<1>4. JoinTexts(base, ts) = Clean(Joined(base, text)) /\ JoinTexts(base, ts) \in AllTexts /\ IsClean(JoinTexts(base, ts))
  BY <1>1, <1>3, JoinTextsIs
<1>5. QED
  BY <1>4 DEF ts

\* One text for each name.
Singles(names) == [k \in DOMAIN names |-> <<names[k]>>]

LEMMA SinglesFacts ==
  ASSUME NEW names \in Seq(Named)
  PROVE  /\ Singles(names) \in Seq(AllTexts)
         /\ \A x \in Named : Singles(Append(names, x)) = Append(Singles(names), <<x>>)
<1>0. \A x \in Named : <<x>> \in AllTexts
  BY DEF Named, AllTexts
<1>1. ASSUME NEW q \in Seq(Named)
      PROVE  /\ Singles(q) \in Seq(AllTexts) /\ Len(Singles(q)) = Len(q)
             /\ \A k \in 1 .. Len(q) : Singles(q)[k] = <<q[k]>>
  <2>1. DOMAIN q = 1 .. Len(q) /\ Len(q) \in Nat /\ \A k \in 1 .. Len(q) : q[k] \in Named
    OBVIOUS
  <2>2. Singles(q) = [k \in 1 .. Len(q) |-> <<q[k]>>]
    BY <2>1 DEF Singles
  <2>3. \A k \in 1 .. Len(q) : <<q[k]>> \in AllTexts
    BY <1>0, <2>1
  <2>4. Singles(q) \in Seq(AllTexts)
    BY <2>1, <2>2, <2>3, IsASeq
  <2>5. Len(Singles(q)) = Len(q)
    BY <2>1, <2>2
  <2>6. QED
    BY <2>2, <2>4, <2>5
<1>2. ASSUME NEW x \in Named PROVE Singles(Append(names, x)) = Append(Singles(names), <<x>>)
  <2> DEFINE more == Append(names, x)
             a == Singles(more)
             s == Singles(names)
             b == Append(s, <<x>>)
             n == Len(names)
  <2>1. more \in Seq(Named) /\ Len(more) = n + 1 /\ n \in Nat /\ more[n + 1] = x
        /\ \A k \in 1 .. n : more[k] = names[k]
    BY AppendFacts
  <2> HIDE DEF more
  <2>2. a \in Seq(AllTexts) /\ Len(a) = n + 1 /\ \A k \in 1 .. n + 1 : a[k] = <<more[k]>>
    BY <1>1, <2>1
  <2>3. s \in Seq(AllTexts) /\ Len(s) = n /\ \A k \in 1 .. n : s[k] = <<names[k]>>
    BY <1>1
  <2>4. <<x>> \in AllTexts
    BY <1>0
  <2> HIDE DEF a, s
  <2>5. b \in Seq(AllTexts) /\ Len(b) = n + 1 /\ b[n + 1] = <<x>> /\ \A k \in 1 .. n : b[k] = s[k]
    BY <2>1, <2>3, <2>4, AppendFacts
  <2> HIDE DEF b, n
  <2>6. ASSUME NEW k \in 1 .. n + 1 PROVE a[k] = b[k]
    <3>1. k \in 1 .. n \/ k = n + 1
      BY <2>1
    <3>2. CASE k \in 1 .. n
      BY <3>2, <2>1, <2>2, <2>3, <2>5
    <3>3. CASE k = n + 1
      BY <3>3, <2>1, <2>2, <2>5
    <3>4. QED
      BY <3>1, <3>2, <3>3
  <2>7. a = b
    BY <2>2, <2>5, <2>6, SeqEqual
  <2>8. QED
    BY <2>7 DEF a, b, s, more
<1>3. QED
  BY <1>1, <1>2

\* Joining names one after the other.
LEMMA JoinedNames ==
  ASSUME NEW base \in AllTexts, NEW names \in Seq(Named)
  PROVE  /\ Components(Folded(JoinStep, base, Singles(names))) = Components(base) \o names
         /\ Rooted(Folded(JoinStep, base, Singles(names))) = Rooted(base)
<1> DEFINE At(q) == Folded(JoinStep, base, Singles(q))
           T == {q \in Seq(Named) : Components(At(q)) = Components(base) \o q /\ Rooted(At(q)) = Rooted(base)}
           c == Components(base)
<1>0. c \in Seq(Pieces)
  BY TextFacts, ComponentsTyped
<1>1. <<>> \in T
  <2>1. <<>> \in Seq(Named) /\ c \o <<>> = c
    BY <1>0, ConcatEmptySeq
  <2>2. Singles(<<>>) = <<>>
    BY DEF Singles
  <2>3. Folded(JoinStep, base, <<>>) = base
    BY JoinIs, FoldedNothing
  <2>4. QED
    BY <2>1, <2>2, <2>3, Zenon
<1>2. ASSUME NEW q \in T, NEW x \in Named PROVE Append(q, x) \in T
  <2>1. q \in Seq(Named) /\ Append(q, x) \in Seq(Named) /\ q \in Seq(Pieces)
    BY AppendFacts, NamedArePieces
  <2>2. Singles(q) \in Seq(AllTexts) /\ Singles(Append(q, x)) = Append(Singles(q), <<x>>)
    BY <2>1, SinglesFacts
  <2>3. <<x>> \in AllTexts /\ Components(<<x>>) = <<x>> /\ Rooted(<<x>>) = FALSE
    BY ComponentsOfOne DEF Named, AllTexts, Rooted
  <2>4. At(q) \in AllTexts
    BY <2>2, JoinIs, FoldedTyped
  <2>5. Folded(JoinStep, base, Append(Singles(q), <<x>>)) = JoinStep[<<At(q), <<x>> >>]
    BY <2>2, <2>3, JoinIs, FoldedAppend
  <2>6. At(Append(q, x)) = Joined(At(q), <<x>>)
    BY <2>2, <2>3, <2>4, <2>5, JoinIs
  <2> DEFINE aq == At(q)
             at == At(Append(q, x))
             one == <<x>>
  <2>7. Components(aq) = c \o q /\ Rooted(aq) = Rooted(base)
    OBVIOUS
  <2>8. aq \in AllTexts /\ one \in AllTexts /\ at = Joined(aq, one) /\ Components(one) = one
        /\ Rooted(one) = FALSE /\ one \in Seq(Pieces) /\ Append(q, x) = q \o one
    BY <2>1, <2>3, <2>4, <2>6, AppendIsConcat DEF Named
  <2> HIDE DEF aq, at, one, T, At, c
  <2>9. Components(at) = (c \o q) \o one
    BY <2>7, <2>8, JoinedFacts
  <2>10. (c \o q) \o one = c \o (q \o one)
    <3>1. c \in Seq(Pieces) /\ q \in Seq(Pieces) /\ one \in Seq(Pieces)
      BY <1>0, <2>1, <2>8
    <3>2. QED
      BY <3>1, ConcatAssociative
  <2>11. Rooted(at) = Rooted(base)
    <3>1. aq = EmptyText => Rooted(aq) = FALSE
      BY EmptyTextFacts
    <3>2. Rooted(at) = IF aq = EmptyText THEN FALSE ELSE Rooted(aq)
      BY <2>8, JoinedFacts
    <3>3. QED
      BY <3>1, <3>2, <2>7
  <2>12. QED
    BY <2>1, <2>8, <2>9, <2>10, <2>11 DEF T, at, c
<1>3. T = Seq(Named)
  <2>1. T \in SUBSET Seq(Named)
    OBVIOUS
  <2> HIDE DEF T
  <2>2. QED
    BY <1>1, <1>2, <2>1, LongerAndLonger
<1>4. QED
  BY <1>3

\* Joining what has the components of a text gives that text, cleaned.
LEMMA JoinNames ==
  ASSUME NEW base \in AllTexts, NEW names \in Seq(Named), NEW text \in AllTexts,
         Rooted(base) = Rooted(text),
         StackOf(Rooted(text), Components(base) \o names) = StackOf(Rooted(text), Components(text))
  PROVE  JoinTexts(base, Singles(names)) = Clean(text)
<1> DEFINE joined == Folded(JoinStep, base, Singles(names))
<1>1. /\ JoinTexts(base, Singles(names)) = Clean(joined) /\ joined \in AllTexts
      /\ Components(joined) = Components(base) \o names /\ Rooted(joined) = Rooted(base)
  BY SinglesFacts, JoinTextsIs, JoinedNames
<1> HIDE DEF joined
<1>2. QED
  BY <1>1, CleanedAlike

-----------------------------------------------------------------------------
(* The fields of a path.                                                   *)

\* The beginning of what is reduced.
LEMMA ReducedPrefix ==
  ASSUME NEW rooted, NEW names, Reduced(rooted, names), NEW n \in 0 .. Len(names)
  PROVE  /\ Reduced(rooted, SubSeq(names, 1, n)) /\ Len(SubSeq(names, 1, n)) = n
         /\ \A i \in 1 .. n : SubSeq(names, 1, n)[i] = names[i]
<1> DEFINE p == SubSeq(names, 1, n)
<1>1. names \in Seq(Named) /\ Len(names) \in Nat /\ n \in Nat /\ n <= Len(names)
  BY DEF Reduced
<1>2. \A i \in 1 .. n : i \in 1 .. Len(names) /\ names[i] \in Named
  BY <1>1
<1>3. p \in Seq(Named) /\ Len(p) = (IF 1 <= n THEN n - 1 + 1 ELSE 0) /\ \A i \in 1 .. n - 1 + 1 : p[i] = names[1 + i - 1]
  <2>1. 1 \in Int /\ n \in Int
    BY <1>1
  <2>2. QED
    BY <1>2, <2>1, SubSeqProperties
<1>4. Len(p) = n /\ \A i \in 1 .. n : p[i] = names[i]
  BY <1>1, <1>3
<1> HIDE DEF p
<1>5. Reduced(rooted, p)
  BY <1>2, <1>3, <1>4 DEF Reduced
<1>6. QED
  BY <1>4, <1>5 DEF p

\* The end of what is reduced.
LEMMA ReducedRest ==
  ASSUME NEW rooted, NEW names, Reduced(rooted, names), NEW n \in 0 .. Len(names)
  PROVE  /\ Reduced(rooted, SubSeq(names, n + 1, Len(names)))
         /\ Reduced(FALSE, SubSeq(names, n + 1, Len(names)))
         /\ SubSeq(names, 1, n) \o SubSeq(names, n + 1, Len(names)) = names
<1> DEFINE m == Len(names)
           p == SubSeq(names, n + 1, m)
<1>1. names \in Seq(Named) /\ m \in Nat /\ n \in Nat /\ n <= m
  BY DEF Reduced
<1> HIDE DEF m
<1>2. \A i \in n + 1 .. m : i \in 1 .. m /\ names[i] \in Named
  BY <1>1 DEF m
<1>3. p \in Seq(Named) /\ Len(p) = (IF n + 1 <= m THEN m - (n + 1) + 1 ELSE 0)
      /\ \A i \in 1 .. m - (n + 1) + 1 : p[i] = names[(n + 1) + i - 1]
  <2>1. n + 1 \in Int /\ m \in Int
    BY <1>1
  <2>2. QED
    BY <1>2, <2>1, SubSeqProperties
<1>4. Len(p) = m - n /\ \A i \in 1 .. m - n : p[i] = names[n + i] /\ n + i \in 1 .. m
  BY <1>1, <1>3
<1> HIDE DEF p
<1>5. \A r : Reduced(r, names) => Reduced(r, p)
  <2> SUFFICES ASSUME NEW r, Reduced(r, names) PROVE Reduced(r, p)
    OBVIOUS
  <2>1. \A i \in 1 .. Len(p) : p[i] # Dot /\ (r => p[i] # DotDot)
    BY <1>4 DEF Reduced, m
  <2>2. ASSUME NEW i \in 1 .. Len(p), NEW j \in 1 .. Len(p), i < j, p[j] = DotDot PROVE p[i] = DotDot
    <3>1. n + i < n + j /\ n + i \in 1 .. m /\ n + j \in 1 .. m
      BY <2>2, <1>1, <1>4
    <3>2. names[n + j] = DotDot
      BY <2>2, <1>4
    <3>3. names[n + i] = DotDot
      BY <3>1, <3>2 DEF Reduced, m
    <3>4. QED
      BY <3>3, <1>4
  <2>3. QED
    BY <1>3, <2>1, <2>2 DEF Reduced
<1>6. Reduced(FALSE, names)
  BY DEF Reduced
<1>7. SubSeq(names, 1, n) \o p = names
  <2>1. 1 \in 1 .. Len(names) + 1 /\ n \in 1 - 1 .. Len(names) /\ Len(names) \in n .. Len(names)
    BY <1>1 DEF m
  <2>2. SubSeq(names, 1, n) \o SubSeq(names, n + 1, Len(names)) = SubSeq(names, 1, Len(names))
    BY <1>1, <2>1, ConcatAdjacentSubSeq
  <2>3. QED
    BY <1>1, <2>2, SubSeqFull DEF p, m
<1>8. QED
  BY <1>5, <1>6, <1>7 DEF p, m

LEMMA ReducedNames ==
  ASSUME NEW rooted, NEW names, Reduced(rooted, names)
  PROVE  names \in Seq(Named) /\ names \in Seq(Pieces) /\ Len(names) \in Nat /\ names # <<Dot>>
<1>1. names \in Seq(Named)
  BY DEF Reduced
<1>2. ASSUME names = <<Dot>> PROVE FALSE
  <2>1. Len(names) = 1 /\ names[1] = Dot /\ 1 \in 1 .. 1
    BY <1>2
  <2>2. QED
    BY <2>1 DEF Reduced
<1>3. QED
  BY <1>1, <1>2, NamedArePieces

LEMMA ParentIs ==
  ASSUME NEW rooted \in BOOLEAN, NEW names, Reduced(rooted, names)
  PROVE  ParentText(Build(rooted, names)) =
            Build(rooted, SubSeq(names, 1, IF names = <<>> THEN 0 ELSE Len(names) - 1))
<1> DEFINE text == Build(rooted, names)
           cs == Components(text)
<1>1. Clean(text) = text /\ Rooted(text) = rooted
      /\ cs = IF names = <<>> /\ ~rooted THEN <<Dot>> ELSE names
  BY BuildFacts, CleanOfBuild
<1>2. ParentText(text) = IF cs = <<>> THEN text ELSE Build(rooted, Front(cs))
  BY <1>1 DEF ParentText
<1>3. names \in Seq(Named)
  BY ReducedNames
<1> DEFINE none == <<>>
<1>4. SubSeq(names, 1, 0) = none
  BY SubSeqEmpty
<1>5. CASE names = none /\ ~rooted
  <2>1. cs = <<Dot>> /\ cs # <<>>
    BY <1>1, <1>5
  <2>2. Front(<<Dot>>) = none
    BY DEF Front
  <2>3. Front(cs) = none
    BY <2>1, <2>2
  <2>4. QED
    BY <1>2, <1>4, <1>5, <2>1, <2>3
<1>6. CASE names = none /\ rooted
  <2>1. cs = <<>>
    BY <1>1, <1>6
  <2>4. QED
    BY <1>2, <1>4, <1>6, <2>1
<1>7. CASE names # none
  <2>1. cs = names
    BY <1>1, <1>7
  <2>2. Front(names) = SubSeq(names, 1, Len(names) - 1)
    BY DEF Front
  <2>3. QED
    BY <1>2, <1>7, <2>1, <2>2
<1>8. QED
  BY <1>5, <1>6, <1>7

\* The parent of what is left when n names have been dropped.
Left(names, n) == SubSeq(names, 1, IF n <= Len(names) THEN Len(names) - n ELSE 0)

LEMMA LeftFacts ==
  ASSUME NEW rooted \in BOOLEAN, NEW names, Reduced(rooted, names), NEW n \in Nat
  PROVE  /\ Reduced(rooted, Left(names, n))
         /\ Left(names, 0) = names
         /\ ParentText(Build(rooted, Left(names, n))) = Build(rooted, Left(names, n + 1))
         /\ n >= Len(names) => Left(names, n + 1) = Left(names, n)
<1> DEFINE m == Len(names)
           k == IF n <= m THEN m - n ELSE 0
           p == Left(names, n)
<1>0. names \in Seq(Named) /\ m \in Nat
  BY ReducedNames
<1>1. k \in 0 .. m
  BY <1>0
<1>2. p = SubSeq(names, 1, k)
  BY DEF Left
<1>3. Reduced(rooted, p) /\ Len(p) = k
  BY <1>1, <1>2, ReducedPrefix
<1>4. Left(names, 0) = names
  BY <1>0, SubSeqFull DEF Left
<1>5. p \in Seq(Named) /\ (p = <<>> <=> k = 0)
  BY <1>1, <1>3, ReducedNames
<1> DEFINE j == IF p = <<>> THEN 0 ELSE Len(p) - 1
<1>6. ParentText(Build(rooted, p)) = Build(rooted, SubSeq(p, 1, j))
  <2> HIDE DEF p
  <2>1. QED
    BY <1>3, ParentIs
<1>7. SubSeq(p, 1, j) = Left(names, n + 1)
  <2> DEFINE h == IF n + 1 <= m THEN m - (n + 1) ELSE 0
  <2>1. h = j /\ h \in 0 .. m /\ h <= k
    BY <1>0, <1>1, <1>3, <1>5
  <2>2. Left(names, n + 1) = SubSeq(names, 1, h)
    BY DEF Left
  <2>3. Reduced(rooted, SubSeq(names, 1, h)) /\ Len(SubSeq(names, 1, h)) = h
        /\ \A i \in 1 .. h : SubSeq(names, 1, h)[i] = names[i]
    BY <2>1, ReducedPrefix
  <2>4. Len(SubSeq(p, 1, h)) = h /\ Reduced(rooted, SubSeq(p, 1, h)) /\ \A i \in 1 .. h : SubSeq(p, 1, h)[i] = p[i]
    <3>1. h \in 0 .. Len(p)
      BY <1>0, <1>1, <1>3, <2>1
    <3> HIDE DEF p, h
    <3>2. QED
      BY <1>3, <3>1, ReducedPrefix
  <2>5. \A i \in 1 .. h : p[i] = names[i]
    <3>1. \A i \in 1 .. k : p[i] = names[i]
      BY <1>1, <1>2, ReducedPrefix
    <3>2. \A i \in 1 .. h : i \in 1 .. k
      BY <2>1, <1>1
    <3>3. QED
      BY <3>1, <3>2
  <2> DEFINE u == SubSeq(names, 1, h)
             v == SubSeq(p, 1, h)
  <2>6. u \in Seq(Named) /\ v \in Seq(Named)
    BY <2>3, <2>4, ReducedNames
  <2>7. Len(u) = Len(v) /\ \A i \in 1 .. Len(u) : u[i] = v[i]
    BY <2>3, <2>4, <2>5
  <2> HIDE DEF u, v
  <2>8. u = v
    BY <2>6, <2>7, SeqEqual
  <2>9. QED
    BY <2>1, <2>2, <2>8 DEF u, v
<1>8. n >= m => Left(names, n + 1) = Left(names, n)
  <2> SUFFICES ASSUME n >= m PROVE Left(names, n + 1) = Left(names, n)
    OBVIOUS
  <2>1. (IF n <= m THEN m - n ELSE 0) = 0 /\ (IF n + 1 <= m THEN m - (n + 1) ELSE 0) = 0
    BY <1>0
  <2>2. QED
    BY <2>1 DEF Left
<1>9. QED
  BY <1>3, <1>4, <1>6, <1>7, <1>8

\* The ancestors of a text, and what follows each of them.
LEMMA ParentsAre ==
  ASSUME NEW rooted \in BOOLEAN, NEW names, Reduced(rooted, names),
         NEW i \in DOMAIN Parents(Build(rooted, names))
  PROVE  /\ i \in 1 .. Len(names)
         /\ Parents(Build(rooted, names))[i] = Build(rooted, Left(names, i))
<1> DEFINE text == Build(rooted, names)
           m == Len(names)
           ancestor == CHOOSE ancestor : ancestor = [n \in Nat |->
                         IF n = 0 THEN text ELSE ParentText(ancestor[n - 1])]
           Stops(n) == /\ ancestor[n + 1] = ancestor[n]
                       /\ \A k \in 0 .. n - 1 : ancestor[k + 1] # ancestor[k]
           last == CHOOSE n \in 0 .. Len(text) : Stops(n)
<1>0. names \in Seq(Named) /\ m \in Nat
  BY ReducedNames
<1>1. Parents(text) = [n \in 1 .. last |-> ancestor[n]]
  BY DEF Parents
<1>2. ancestor = [n \in Nat |-> IF n = 0 THEN text ELSE ParentText(ancestor[n - 1])]
  <2> DEFINE Fits(f) == f = [n \in Nat |-> IF n = 0 THEN text ELSE ParentText(f[n - 1])]
             g == [n \in Nat |-> Build(rooted, Left(names, n))]
  <2>1. \A n \in Nat : g[n] = IF n = 0 THEN text ELSE ParentText(g[n - 1])
    <3> SUFFICES ASSUME NEW n \in Nat PROVE g[n] = IF n = 0 THEN text ELSE ParentText(g[n - 1])
      OBVIOUS
    <3>1. CASE n = 0
      BY <3>1, LeftFacts
    <3>2. CASE n # 0
      <4>1. n - 1 \in Nat /\ (n - 1) + 1 = n
        BY <3>2
      <4>2. ParentText(Build(rooted, Left(names, n - 1))) = Build(rooted, Left(names, n))
        BY <4>1, LeftFacts
      <4>3. QED
        BY <3>2, <4>1, <4>2
    <3>3. QED
      BY <3>1, <3>2
  <2>2. Fits(g)
    BY <2>1
  <2>3. ancestor = CHOOSE f : Fits(f)
    OBVIOUS
  <2> HIDE DEF Fits
  <2>4. Fits(ancestor)
    BY <2>2, <2>3
  <2>5. QED
    BY <2>4 DEF Fits
<1> HIDE DEF ancestor
<1>3. \A n \in Nat : ancestor[n] = Build(rooted, Left(names, n))
  <2> DEFINE T == {n \in Nat : ancestor[n] = Build(rooted, Left(names, n))}
  <2>1. 0 \in T
    BY <1>2, LeftFacts
  <2>2. ASSUME NEW n \in T PROVE n + 1 \in T
    <3>1. n \in Nat /\ n + 1 \in Nat /\ n + 1 # 0 /\ (n + 1) - 1 = n
      OBVIOUS
    <3>2. ancestor[n + 1] = ParentText(ancestor[n])
      BY <1>2, <3>1
    <3>3. QED
      BY <3>1, <3>2, LeftFacts
  <2>3. T = Nat
    <3>1. T \in SUBSET Nat
      OBVIOUS
    <3> HIDE DEF T
    <3>2. QED
      BY <2>1, <2>2, <3>1, CountingUp
  <2>4. QED
    BY <2>3
<1>4. ancestor[m + 1] = ancestor[m]
  <2>1. m \in Nat /\ m + 1 \in Nat /\ m >= m
    BY <1>0
  <2>2. Left(names, m + 1) = Left(names, m)
    BY <2>1, LeftFacts
  <2>3. QED
    BY <1>3, <2>1, <2>2
<1>5. Len(text) \in Nat /\ m <= Len(text)
  <2>1. names \in Seq(Pieces)
    BY ReducedNames
  <2>2. text \in AllTexts
    BY BuildFacts
  <2>3. Len(text) \in Nat
    BY <2>2, TextFacts
  <2>4. CASE names = <<>>
    BY <2>3, <2>4
  <2>5. CASE names # <<>> /\ rooted
    <3> DEFINE e == <<Empty>>
    <3>1. e \in Seq(Pieces) /\ Len(e) = 1
      BY PieceFacts
    <3>2. text = e \o names
      BY <2>5 DEF Build
    <3> HIDE DEF e
    <3>3. Len(e \o names) = 1 + m
      BY <2>1, <3>1, ConcatProperties
    <3>4. QED
      BY <1>0, <3>2, <3>3
  <2>6. CASE names # <<>> /\ ~rooted
    BY <2>6, <1>0 DEF Build
  <2>7. QED
    BY <2>4, <2>5, <2>6
<1> HIDE DEF text, m
<1>6. \E n \in 0 .. Len(text) : Stops(n)
  <2> DEFINE T == {n \in Nat : ancestor[n + 1] = ancestor[n]}
  <2>1. m \in T /\ T \in SUBSET Nat
    BY <1>0, <1>4 DEF m
  <2>2. PICK n \in T : \A k \in T : n <= k
    <3> HIDE DEF T
    <3>1. QED
      BY <2>1, LeastNatural
  <2>3. n \in 0 .. Len(text)
    BY <1>5, <2>1, <2>2
  <2>4. ASSUME NEW k \in 0 .. n - 1 PROVE ancestor[k + 1] # ancestor[k]
    <3>1. k \in Nat /\ ~(n <= k)
      BY <2>2
    <3>2. QED
      BY <3>1, <2>2
  <2>5. QED
    BY <2>2, <2>3, <2>4
<1>7. last \in 0 .. Len(text) /\ Stops(last)
  <2> HIDE DEF Stops
  <2>1. QED
    BY <1>6
<1>8. last <= m
  <2> SUFFICES ASSUME ~(last <= m) PROVE FALSE
    OBVIOUS
  <2> HIDE DEF last
  <2>1. m \in 0 .. last - 1
    BY <1>0, <1>5, <1>7 DEF m
  <2>2. QED
    BY <1>4, <1>7, <2>1
<1> HIDE DEF last
<1>9. i \in 1 .. last
  BY <1>1 DEF text
<1>10. i \in Nat /\ i \in 1 .. m
  BY <1>0, <1>5, <1>7, <1>8, <1>9 DEF m
<1>11. QED
  BY <1>1, <1>3, <1>9, <1>10 DEF text, m

\* Entering a dot, and entering what has been entered.
LEMMA StackOfTwice ==
  ASSUME NEW rooted \in BOOLEAN, NEW s \in Seq(Pieces), NEW t \in Seq(Pieces)
  PROVE  /\ StackOf(rooted, s \o t) = Folded(EnterStep(rooted), StackOf(rooted, s), t)
         /\ StackOf(rooted, s) \in Seq(Pieces)
<1> DEFINE none == <<>>
<1>1. none \in Seq(Pieces) /\ \A q : StackOf(rooted, q) = Folded(EnterStep(rooted), none, q)
  BY DEF StackOf
<1> HIDE DEF none
<1>2. QED
  BY <1>1, EnterIs, FoldedTwice, FoldedTyped

LEMMA EnteredDot ==
  ASSUME NEW rooted \in BOOLEAN, NEW s \in Seq(Pieces)
  PROVE  Folded(EnterStep(rooted), s, <<Dot>>) = s
<1> DEFINE none == <<>>
<1>1. none \in Seq(Pieces) /\ <<Dot>> = Append(none, Dot)
  OBVIOUS
<1>2. Folded(EnterStep(rooted), s, none) = s
  BY EnterIs, FoldedNothing
<1> HIDE DEF none
<1>3. Folded(EnterStep(rooted), s, Append(none, Dot)) = EnterStep(rooted)[<<Folded(EnterStep(rooted), s, none), Dot>>]
  BY <1>1, PieceFacts, EnterIs, FoldedAppend
<1>4. EnterStep(rooted)[<<s, Dot>>] = s
  BY PieceFacts, EnterIs DEF Entered
<1>5. QED
  BY <1>1, <1>2, <1>3, <1>4

LEMMA StackAfterDot ==
  ASSUME NEW rooted \in BOOLEAN, NEW t \in Seq(Pieces)
  PROVE  StackOf(rooted, <<Dot>> \o t) = StackOf(rooted, t) /\ StackOf(rooted, <<Dot>>) = <<>>
<1> DEFINE none == <<>>
           dot == <<Dot>>
<1>1. none \in Seq(Pieces) /\ dot \in Seq(Pieces) /\ \A q : StackOf(rooted, q) = Folded(EnterStep(rooted), none, q)
  BY PieceFacts DEF StackOf
<1>2. Folded(EnterStep(rooted), none, dot) = none
  BY <1>1, EnteredDot
<1> HIDE DEF dot, none
<1>3. StackOf(rooted, dot \o t) = Folded(EnterStep(rooted), StackOf(rooted, dot), t)
  BY <1>1, StackOfTwice
<1>4. QED
  BY <1>1, <1>2, <1>3 DEF dot, none

\* What a clean text says about the stack it was built from.
LEMMA StackOfClean ==
  ASSUME NEW rooted \in BOOLEAN, NEW names, Reduced(rooted, names)
  PROVE  /\ Build(rooted, names) \in AllTexts /\ Rooted(Build(rooted, names)) = rooted
         /\ Clean(Build(rooted, names)) = Build(rooted, names)
         /\ Components(Build(rooted, names)) \in Seq(Named)
         /\ StackOf(rooted, Components(Build(rooted, names))) = names
         /\ \A t \in Seq(Named) : StackOf(rooted, Components(Build(rooted, names)) \o t) = StackOf(rooted, names \o t)
<1>0. names \in Seq(Pieces)
  BY ReducedNames
<1>1. /\ Build(rooted, names) \in AllTexts /\ Rooted(Build(rooted, names)) = rooted
      /\ Clean(Build(rooted, names)) = Build(rooted, names)
      /\ Components(Build(rooted, names)) = IF names = <<>> /\ ~rooted THEN <<Dot>> ELSE names
  BY BuildFacts, CleanOfBuild
<1>2. Components(Build(rooted, names)) \in Seq(Named)
  BY <1>1, TextFacts, ComponentsTyped
<1> DEFINE none == <<>>
           cs == Components(Build(rooted, names))
<1>3. CASE names = none /\ ~rooted
  <2>1. cs = <<Dot>>
    BY <1>1, <1>3
  <2>2. ASSUME NEW t \in Seq(Named) PROVE StackOf(rooted, <<Dot>> \o t) = StackOf(rooted, none \o t)
    <3>1. t \in Seq(Pieces) /\ none \o t = t
      BY NamedArePieces, ConcatEmptySeq
    <3>2. QED
      BY <3>1, StackAfterDot
  <2>3. StackOf(rooted, <<Dot>>) = none
    <3>1. none \in Seq(Pieces)
      OBVIOUS
    <3>2. QED
      BY <3>1, StackAfterDot
  <2>4. QED
    BY <1>1, <1>2, <1>3, <2>1, <2>2, <2>3
<1>4. CASE ~(names = none /\ ~rooted)
  <2>1. cs = names
    BY <1>1, <1>4
  <2>2. QED
    BY <1>1, <1>2, <2>1, StackOfReduced
<1>5. QED
  BY <1>3, <1>4

-----------------------------------------------------------------------------
(* The properties of a path, for a clean text.                             *)

LEMMA PartsGiveText ==
  ASSUME NEW rooted \in BOOLEAN, NEW names, Reduced(rooted, names)
  PROVE  JoinTexts(EmptyText, Parts(Build(rooted, names))) = Build(rooted, names)
<1> DEFINE text == Build(rooted, names)
           cs == Components(text)
<1>1. text \in AllTexts /\ Rooted(text) = rooted /\ Clean(text) = text /\ cs \in Seq(Named)
  BY StackOfClean
<1>2. Parts(text) = (IF rooted THEN <<Root>> ELSE <<>>) \o Singles(cs)
  BY <1>1 DEF Parts, Singles
<1> HIDE DEF text, cs
<1>3. Singles(cs) \in Seq(AllTexts)
  BY <1>1, SinglesFacts
<1>4. EmptyText \in AllTexts /\ Rooted(EmptyText) = FALSE /\ Components(EmptyText) = <<>>
      /\ Root \in AllTexts /\ Root # EmptyText
  BY EmptyTextFacts
<1>5. cs \in Seq(Pieces) /\ <<>> \o cs = cs
  BY <1>1, NamedArePieces, ConcatEmptySeq
<1>6. CASE rooted
  <2> DEFINE first == <<Root>>
  <2>1. first \in Seq(AllTexts) /\ Parts(text) = first \o Singles(cs)
    BY <1>2, <1>4, <1>6
  <2>2. Rooted(Root) = TRUE /\ Components(Root) = <<>>
    <3> DEFINE none == <<>>
    <3>1. Reduced(rooted, none) /\ Build(rooted, none) = Root
      BY <1>6, ReducedNothing DEF Build
    <3>2. QED
      BY <1>6, <3>1, BuildFacts
  <2>3. Folded(JoinStep, EmptyText, first) = Joined(EmptyText, Root)
    <3>1. Folded(JoinStep, EmptyText, first) = JoinStep[<<EmptyText, Root>>]
      BY <1>4, JoinIs, FoldedOnce
    <3>2. QED
      BY <1>4, <3>1, JoinIs
  <2> HIDE DEF first
  <2> DEFINE root == Joined(EmptyText, Root)
  <2>4. root \in AllTexts /\ Components(root) = <<>> /\ Rooted(root) = TRUE
    <3>1. <<>> \o <<>> = <<>>
      OBVIOUS
    <3>2. root \in AllTexts /\ Components(root) = Components(EmptyText) \o Components(Root) /\ Rooted(root) = Rooted(Root)
      BY <1>4, JoinedFacts
    <3>3. QED
      BY <3>1, <3>2, <2>2, <1>4, Zenon
  <2>5. Folded(JoinStep, EmptyText, first \o Singles(cs)) = Folded(JoinStep, root, Singles(cs))
    <3>1. Folded(JoinStep, EmptyText, first \o Singles(cs)) = Folded(JoinStep, Folded(JoinStep, EmptyText, first), Singles(cs))
      BY <1>3, <1>4, <2>1, JoinIs, FoldedTwice
    <3>2. QED
      BY <2>3, <3>1
  <2> HIDE DEF root
  <2>6. JoinTexts(EmptyText, first \o Singles(cs)) = JoinTexts(root, Singles(cs))
    <3>1. first \o Singles(cs) \in Seq(AllTexts)
      BY <1>3, <2>1, ConcatProperties
    <3>2. QED
      BY <1>3, <1>4, <2>4, <2>5, <3>1, JoinTextsIs
  <2>7. Components(root) \o cs = cs
    BY <2>4, <1>5
  <2>8. JoinTexts(root, Singles(cs)) = Clean(text)
    BY <1>1, <1>6, <2>4, <2>7, JoinNames DEF cs
  <2>9. QED
    BY <1>1, <2>1, <2>6, <2>8 DEF text
<1>7. CASE ~rooted
  <2>1. Parts(text) = <<>> \o Singles(cs)
    BY <1>2, <1>7
  <2>2. <<>> \o Singles(cs) = Singles(cs)
    BY <1>3, ConcatEmptySeq
  <2>3. Components(EmptyText) \o cs = cs
    BY <1>4, <1>5
  <2>4. rooted = FALSE
    BY <1>7
  <2>5. JoinTexts(EmptyText, Singles(cs)) = Clean(text)
    BY <1>1, <1>4, <2>3, <2>4, JoinNames DEF cs
  <2>6. QED
    BY <1>1, <2>1, <2>2, <2>5 DEF text
<1>8. QED
  BY <1>6, <1>7

LEMMA ParentsGiveText ==
  ASSUME NEW rooted \in BOOLEAN, NEW names, Reduced(rooted, names),
         NEW i \in DOMAIN Parents(Build(rooted, names))
  PROVE  LET all == Components(Build(rooted, names))
             below == SubSeq(all, Len(all) - i + 1, Len(all))
         IN JoinTexts(Parents(Build(rooted, names))[i], [k \in DOMAIN below |-> <<below[k]>>]) =
              Build(rooted, names)
<1> DEFINE text == Build(rooted, names)
           m == Len(names)
           p == Left(names, i)
           below == SubSeq(names, m - i + 1, m)
<1>1. i \in 1 .. m /\ Parents(text)[i] = Build(rooted, p)
  BY ParentsAre
<1>2. names \in Seq(Named) /\ m \in Nat /\ names # <<>>
  BY <1>1, ReducedNames
<1>3. Components(text) = names
  BY <1>2, BuildFacts
<1>4. m - i \in 0 .. m /\ p = SubSeq(names, 1, m - i)
  BY <1>1, <1>2 DEF Left
<1>5. Reduced(rooted, p) /\ below \in Seq(Named) /\ p \o below = names
  <2> DEFINE k == m - i
  <2>1. k \in 0 .. m /\ k + 1 = m - i + 1
    BY <1>1, <1>2
  <2> HIDE DEF k
  <2>2. Reduced(rooted, SubSeq(names, 1, k)) /\ Reduced(rooted, SubSeq(names, k + 1, m))
        /\ SubSeq(names, 1, k) \o SubSeq(names, k + 1, m) = names
    BY <2>1, ReducedRest, ReducedPrefix
  <2>3. p = SubSeq(names, 1, k) /\ below = SubSeq(names, k + 1, m)
    BY <1>4, <2>1 DEF k
  <2> HIDE DEF p, below, m
  <2>4. QED
    BY <2>2, <2>3, ReducedNames
<1> HIDE DEF p, below
<1>6. JoinTexts(Build(rooted, p), Singles(below)) = Clean(text)
  <2> DEFINE base == Build(rooted, p)
  <2>1. base \in AllTexts /\ Rooted(base) = rooted /\ StackOf(rooted, Components(base) \o below) = StackOf(rooted, p \o below)
    <3>1. \A q : Reduced(rooted, q) =>
            /\ Build(rooted, q) \in AllTexts /\ Rooted(Build(rooted, q)) = rooted
            /\ \A t \in Seq(Named) : StackOf(rooted, Components(Build(rooted, q)) \o t) = StackOf(rooted, q \o t)
      BY StackOfClean
    <3>2. QED
      BY <1>5, <3>1, Zenon
  <2>2. text \in AllTexts /\ Rooted(text) = rooted
    BY StackOfClean
  <2> HIDE DEF base, text
  <2>3. QED
    BY <1>3, <1>5, <2>1, <2>2, JoinNames DEF base
<1>7. Clean(text) = text
  BY StackOfClean
<1>8. QED
  BY <1>1, <1>3, <1>6, <1>7 DEF Singles, below

\* The last piece of a name.
LEMMA NameIs ==
  ASSUME NEW text \in AllTexts
  PROVE  /\ NameOf(text) \in AllTexts /\ Last(NameOf(text)) \in Pieces
         /\ \/ NameOf(text) = Root /\ Last(NameOf(text)) = Empty
            \/ NameOf(text) = <<Last(NameOf(text))>>
<1> DEFINE cs == Components(Clean(text))
<1>1. cs \in Seq(Named)
  BY CleanedIsClean, TextFacts, ComponentsTyped
<1>2. CASE cs = <<>>
  <2>1. NameOf(text) = Root
    BY <1>2 DEF NameOf
  <2>2. Last(Root) = Empty
    BY DEF Root, Last
  <2>3. QED
    BY <2>1, <2>2, EmptyTextFacts, PieceFacts
<1>3. CASE cs # <<>>
  <2> DEFINE x == Last(cs)
  <2>1. NameOf(text) = <<x>>
    BY <1>3 DEF NameOf
  <2>2. x \in Named
    <3> HIDE DEF cs
    <3>1. QED
      BY <1>1, <1>3, FrontFacts
  <2> HIDE DEF x
  <2>3. x \in Pieces /\ <<x>> \in AllTexts /\ Last(<<x>>) = x
    BY <2>2 DEF Named, AllTexts, Last
  <2>4. QED
    BY <2>1, <2>3
<1>4. QED
  BY <1>2, <1>3

LEMMA PieceIs ==
  ASSUME NEW p \in Pieces
  PROVE  p \in Seq(Segments) /\ p # <<>> /\ Len(p) \in Nat \ {0} /\ Last(p) = p[Len(p)] /\ Last(p) \in Segments
<1>1. p \in Seq(Segments) /\ p # <<>>
  BY DEF Pieces
<1>2. QED
  BY <1>1, FrontFacts

LEMMA StemAndSuffix ==
  ASSUME NEW text \in AllTexts
  PROVE  /\ Suffixed(Stem(text), Suffix(text)) = NameOf(text)
         /\ Stem(text) \in AllTexts /\ Suffix(text) \in Seq(Segments)
<1> DEFINE name == NameOf(text)
           p == Last(name)
           n == Len(p)
           hidden == p[1] = ""
<1>1. name \in AllTexts /\ p \in Pieces /\ ((name = Root /\ p = Empty) \/ name = <<p>>)
  BY NameIs
<1>2. Suffix(text) = IF n = 1 \/ (n = 2 /\ hidden) THEN <<>> ELSE <<Last(p)>>
  BY DEF Suffix
<1>3. Stem(text) = IF Suffix(text) = <<>> THEN name ELSE <<Front(p)>>
  BY DEF Stem
<1> HIDE DEF name, p
<1>4. p \in Seq(Segments) /\ p # <<>> /\ n = Len(p) /\ n \in Nat \ {0} /\ Last(p) \in Segments
  BY <1>1, PieceIs
<1>7. p = Empty => n = 1
  BY PieceFacts
<1> HIDE DEF n, hidden
<1>5. CASE n = 1 \/ (n = 2 /\ hidden)
  <2>1. Suffix(text) = <<>> /\ Stem(text) = name
    BY <1>2, <1>3, <1>5
  <2>2. <<>> \in Seq(Segments)
    OBVIOUS
  <2>3. name \in Seq(Pieces) /\ Len(name) \in Nat \ {0}
    BY <1>1, TextFacts
  <2>4. Len(name) \in 1 .. Len(name) /\ name[Len(name)] \in Pieces
    BY <2>3
  <2>5. name[Len(name)] \o <<>> = name[Len(name)]
    <3>1. name[Len(name)] \in Seq(Segments)
      BY <2>4 DEF Pieces
    <3>2. QED
      BY <3>1, ConcatEmptySeq
  <2>6. Suffixed(name, <<>>) = [name EXCEPT ![Len(name)] = name[Len(name)]]
    BY <2>5 DEF Suffixed
  <2>7. [name EXCEPT ![Len(name)] = name[Len(name)]] = name
    BY <2>3
  <2>8. QED
    BY <1>1, <2>1, <2>2, <2>6, <2>7 DEF name
<1>6. CASE ~(n = 1 \/ (n = 2 /\ hidden))
  <2> DEFINE l == Last(p)
             f == Front(p)
  <2>1. Suffix(text) = <<l>> /\ Stem(text) = <<f>>
    <3> HIDE DEF l, f
    <3>1. Suffix(text) = <<l>>
      BY <1>2, <1>6 DEF l
    <3>2. <<l>> # <<>>
      OBVIOUS
    <3>3. QED
      BY <1>3, <3>1, <3>2 DEF f
  <2>2. f \in Seq(Segments) /\ Len(f) = Len(p) - 1 /\ p = Append(f, l)
    BY <1>4, FrontFacts, FrontAndLast
  <2>3. name = <<p>>
    <3>1. p # Empty
      BY <1>7, <1>6
    <3>2. QED
      BY <1>1, <3>1
  <2>4. l \in Segments
    BY <1>4
  <2> HIDE DEF l, f
  <2>5. f # <<>>
    <3>1. Len(f) # 0
      BY <1>4, <1>6, <2>2
    <3>2. QED
      BY <3>1
  <2>6. <<f>> \in AllTexts
    BY <2>2, <2>5 DEF AllTexts, Pieces
  <2>7. f \o <<l>> = p
    BY <2>2, <2>4, AppendIsConcat
  <2>8. Suffixed(<<f>>, <<l>>) = <<f \o <<l>> >>
    <3>1. Len(<<f>>) = 1 /\ <<f>>[1] = f
      OBVIOUS
    <3>2. Suffixed(<<f>>, <<l>>) = [<<f>> EXCEPT ![1] = f \o <<l>>]
      BY <3>1 DEF Suffixed
    <3>3. [<<f>> EXCEPT ![1] = f \o <<l>>] = <<f \o <<l>> >>
      OBVIOUS
    <3>4. QED
      BY <3>2, <3>3
  <2>9. <<l>> \in Seq(Segments)
    BY <2>4
  <2>10. QED
    BY <2>1, <2>3, <2>6, <2>7, <2>8, <2>9 DEF name
<1>8. QED
  BY <1>5, <1>6

LEMMA SuffixEndsList ==
  ASSUME NEW text \in AllTexts
  PROVE  Suffix(text) = IF SuffixList(text) = <<>> THEN <<>> ELSE <<Last(SuffixList(text))>>
<1> DEFINE p == Last(NameOf(text))
           n == Len(p)
           hidden == p[1] = ""
           first == IF hidden /\ n > 1 THEN 3 ELSE 2
           list == SubSeq(p, first, n)
<1>1. p \in Pieces
  BY NameIs
<1>2. Suffix(text) = IF n = 1 \/ (n = 2 /\ hidden) THEN <<>> ELSE <<Last(p)>>
  BY DEF Suffix
<1>3. SuffixList(text) = list
  BY DEF SuffixList
<1>4. p \in Seq(Segments) /\ n \in Nat \ {0} /\ Last(p) = p[n] /\ n = Len(p) /\ hidden \in BOOLEAN
  <2> HIDE DEF p
  <2>1. QED
    BY <1>1, PieceIs
<1> HIDE DEF p, n, hidden
<1>5. first \in {2, 3} /\ (first > n <=> n = 1 \/ (n = 2 /\ hidden))
  BY <1>4
<1> HIDE DEF first
<1>6. \A i \in first .. n : p[i] \in Segments
  <2>1. \A i \in first .. n : i \in 1 .. n
    BY <1>4, <1>5
  <2>2. QED
    BY <1>4, <2>1
<1>7. /\ list \in Seq(Segments)
      /\ Len(list) = IF first <= n THEN n - first + 1 ELSE 0
      /\ \A i \in 1 .. n - first + 1 : list[i] = p[first + i - 1]
  <2>1. first \in Int /\ n \in Int
    BY <1>4, <1>5
  <2>2. QED
    BY <1>6, <2>1, SubSeqProperties
<1> HIDE DEF list
<1>8. CASE first > n
  <2>1. list = <<>>
    BY <1>4, <1>5, <1>7, <1>8
  <2>2. QED
    BY <1>2, <1>3, <1>5, <1>8, <2>1
<1>9. CASE ~(first > n)
  <2>1. Len(list) = n - first + 1 /\ n - first + 1 \in 1 .. n - first + 1 /\ first + (n - first + 1) - 1 = n
    BY <1>4, <1>5, <1>7, <1>9
  <2>2. Len(list) # 0 /\ Last(list) = p[n]
    BY <1>4, <1>7, <2>1 DEF Last
  <2>3. list # <<>>
    BY <2>2
  <2>4. QED
    BY <1>2, <1>3, <1>4, <1>5, <1>9, <2>2, <2>3
<1>10. QED
  BY <1>8, <1>9

LEMMA FieldsOfClean ==
  ASSUME IsClean(here)
  PROVE  FieldsDescribePath
<1>1. PICK rooted \in BOOLEAN, names \in Seq(Named) : Reduced(rooted, names) /\ here = Build(rooted, names)
  BY DEF IsClean
<1>2. here \in AllTexts /\ Clean(here) = here
  BY <1>1, StackOfClean
<1>3. JoinTexts(EmptyText, Parts(here)) = here
  BY <1>1, PartsGiveText
<1>4. \A i \in DOMAIN Parents(here) :
        LET all == Components(here)
            below == SubSeq(all, Len(all) - i + 1, Len(all))
        IN JoinTexts(Parents(here)[i], [k \in DOMAIN below |-> <<below[k]>>]) = here
  BY <1>1, ParentsGiveText
<1>5. Suffixed(Stem(here), Suffix(here)) = NameOf(here)
  BY <1>2, StemAndSuffix
<1>6. Suffix(here) = IF SuffixList(here) = <<>> THEN <<>> ELSE <<Last(SuffixList(here))>>
  BY <1>2, SuffixEndsList
<1>7. QED
  BY <1>2, <1>3, <1>4, <1>5, <1>6 DEF FieldsDescribePath

-----------------------------------------------------------------------------
(* Where texts lead.                                                       *)

LeadStep ==
    [turn \in Seq(Pieces) \X Pieces |->
        IF turn[2] = Dot THEN turn[1]
        ELSE IF turn[2] = DotDot THEN Above(turn[1])
        ELSE Append(turn[1], turn[2])]

LEMMA LeadIs ==
  /\ IsStep(LeadStep, Seq(Pieces), Pieces)
  /\ \A s \in Seq(Pieces), x \in Pieces :
       LeadStep[<<s, x>>] = IF x = Dot THEN s ELSE IF x = DotDot THEN Above(s) ELSE Append(s, x)
<1>1. ASSUME NEW s \in Seq(Pieces), NEW x \in Pieces
      PROVE (IF x = Dot THEN s ELSE IF x = DotDot THEN Above(s) ELSE Append(s, x)) \in Seq(Pieces)
  <2>1. Append(s, x) \in Seq(Pieces)
    OBVIOUS
  <2>2. Above(s) \in Seq(Pieces)
    <3>1. CASE s = <<>>
      BY <3>1 DEF Above
    <3>2. CASE s # <<>>
      <4>1. Front(s) \in Seq(Pieces)
        BY <3>2, FrontFacts
      <4>2. QED
        BY <3>2, <4>1 DEF Above
    <3>3. QED
      BY <3>1, <3>2
  <2>3. QED
    BY <2>1, <2>2
<1>2. QED
  BY <1>1 DEF LeadStep, IsStep

Origin(rooted) == IF rooted THEN <<>> ELSE Far

LEMMA StartIs == \A rooted : Origin(rooted) \in Seq(Pieces)
<1>1. 2 * MaxPieces \in Nat
  BY TextsAssumption
<1>2. \A i \in 1 .. 2 * MaxPieces : Empty \in Pieces
  BY PieceFacts
<1>3. Far \in Seq(Pieces)
  BY <1>1, <1>2, IsASeq DEF Far
<1>4. QED
  BY <1>3 DEF Origin

\* From the start, through names.
Walked(rooted, names) == Folded(LeadStep, Origin(rooted), names)

LEMMA WalkedFacts ==
  ASSUME NEW rooted, NEW s \in Seq(Pieces), NEW x \in Pieces
  PROVE  /\ Walked(rooted, s) \in Seq(Pieces)
         /\ Walked(rooted, <<>>) = Origin(rooted)
         /\ Walked(rooted, Append(s, x)) =
              IF x = Dot THEN Walked(rooted, s)
              ELSE IF x = DotDot THEN Above(Walked(rooted, s))
              ELSE Append(Walked(rooted, s), x)
<1>1. Origin(rooted) \in Seq(Pieces)
  BY StartIs
<1>2. Walked(rooted, s) \in Seq(Pieces)
  BY <1>1, LeadIs, FoldedTyped DEF Walked
<1>3. Walked(rooted, <<>>) = Origin(rooted)
  BY <1>1, LeadIs, FoldedNothing DEF Walked
<1>4. Folded(LeadStep, Origin(rooted), Append(s, x)) = LeadStep[<<Folded(LeadStep, Origin(rooted), s), x>>]
  BY <1>1, LeadIs, FoldedAppend
<1>5. Walked(rooted, Append(s, x)) = LeadStep[<<Walked(rooted, s), x>>]
  BY <1>4 DEF Walked
<1>6. QED
  BY <1>2, <1>3, <1>5, LeadIs

LEMMA LeadsIs == \A text : Leads(text) = Walked(Rooted(text), Components(text))
BY DEF Leads, Walked, LeadStep, Origin

LEMMA AboveAppended ==
  ASSUME NEW s \in Seq(Pieces), NEW x \in Pieces
  PROVE  Above(Append(s, x)) = s
<1>1. Append(s, x) # <<>> /\ Front(Append(s, x)) = s
  BY AppendFacts
<1>2. QED
  BY <1>1 DEF Above

\* The stack leads where its names lead, ".." included: going up from what
\* has just been entered leads back.
LEMMA StackLeads ==
  ASSUME NEW rooted \in BOOLEAN, NEW names \in Seq(Named)
  PROVE  Walked(rooted, StackOf(rooted, names)) = Walked(rooted, names)
<1> DEFINE T == {q \in Seq(Named) : Walked(rooted, StackOf(rooted, q)) = Walked(rooted, q)}
<1>1. <<>> \in T
  <2>1. <<>> \in Seq(Named)
    OBVIOUS
  <2>2. QED
    BY <2>1, StackOfNothing, Zenon
<1>2. ASSUME NEW q \in T, NEW x \in Named PROVE Append(q, x) \in T
  <2> DEFINE s == StackOf(rooted, q)
             w == Walked(rooted, q)
  <2>1. q \in Seq(Named) /\ q \in Seq(Pieces) /\ x \in Pieces /\ x \in Named /\ Walked(rooted, s) = w
    BY NamedArePieces DEF Named
  <2>2. Reduced(rooted, s) /\ s \in Seq(Named) /\ s \in Seq(Pieces)
    BY <2>1, StacksAreReduced, ReducedNames
  <2>3. StackOf(rooted, Append(q, x)) = Entered(rooted, s, x)
    BY <2>1, StackOfAppend
  <2>4. w \in Seq(Pieces)
        /\ Walked(rooted, Append(q, x)) = IF x = Dot THEN w ELSE IF x = DotDot THEN Above(w) ELSE Append(w, x)
    BY <2>1, WalkedFacts
  <2> HIDE DEF s, w, T
  <2>5. Walked(rooted, Append(s, x)) = IF x = Dot THEN w ELSE IF x = DotDot THEN Above(w) ELSE Append(w, x)
    BY <2>1, <2>2, WalkedFacts
  <2>6. Walked(rooted, Entered(rooted, s, x)) = Walked(rooted, Append(q, x))
    <3>1. CASE x = Dot
      BY <3>1, <2>1, <2>4 DEF Entered
    <3>2. CASE x # Dot /\ x # DotDot
      BY <3>2, <2>4, <2>5 DEF Entered
    <3>3. CASE x = DotDot /\ s # <<>> /\ Last(s) # DotDot
      <4> DEFINE f == Front(s)
                 y == Last(s)
      <4>1. f \in Seq(Named) /\ y \in Named /\ s = Append(f, y)
        BY <2>2, <3>3, FrontFacts, FrontAndLast
      <4>2. Entered(rooted, s, x) = f /\ y # DotDot
        BY <3>3, PieceFacts DEF Entered
      <4> HIDE DEF f, y
      <4>3. f \in Seq(Pieces) /\ y \in Pieces
        BY <4>1, NamedArePieces DEF Named
      <4>4. y # Dot
        <5>1. Reduced(rooted, Append(f, y))
          BY <2>2, <4>1
        <5>2. QED
          BY <4>1, <5>1, ReducedAppend
      <4>5. Walked(rooted, Append(f, y)) = Append(Walked(rooted, f), y) /\ Walked(rooted, f) \in Seq(Pieces)
        BY <4>2, <4>3, <4>4, WalkedFacts
      <4>6. w = Append(Walked(rooted, f), y)
        BY <2>1, <4>1, <4>5
      <4>7. Above(w) = Walked(rooted, f)
        BY <4>3, <4>5, <4>6, AboveAppended
      <4>8. QED
        BY <2>4, <3>3, <4>2, <4>7, PieceFacts
    <3>4. CASE x = DotDot /\ ~(s # <<>> /\ Last(s) # DotDot) /\ rooted
      <4>1. s = <<>>
        <5> SUFFICES ASSUME s # <<>> PROVE FALSE
          OBVIOUS
        <5>1. Len(s) \in Nat \ {0} /\ Last(s) = s[Len(s)]
          BY <2>2, FrontFacts
        <5>2. Len(s) \in 1 .. Len(s)
          BY <5>1
        <5>3. s[Len(s)] # DotDot
          BY <2>2, <3>4, <5>2 DEF Reduced
        <5>4. QED
          BY <3>4, <5>1, <5>3
      <4>2. w = Origin(rooted)
        BY <2>1, <2>2, <4>1, PieceFacts, WalkedFacts
      <4>3. w = <<>>
        BY <3>4, <4>2 DEF Origin
      <4>4. Above(w) = w
        BY <4>3 DEF Above
      <4>5. Entered(rooted, s, x) = s
        BY <3>4, PieceFacts DEF Entered
      <4>6. QED
        BY <2>1, <2>4, <3>4, <4>4, <4>5, PieceFacts
    <3>5. CASE x = DotDot /\ ~(s # <<>> /\ Last(s) # DotDot) /\ ~rooted
      <4>1. Entered(rooted, s, x) = Append(s, x)
        BY <3>5, PieceFacts DEF Entered
      <4>2. QED
        BY <2>4, <2>5, <4>1
    <3>6. QED
      BY <3>1, <3>2, <3>3, <3>4, <3>5
  <2>7. Append(q, x) \in Seq(Named)
    BY <2>1, AppendFacts
  <2>8. QED
    BY <2>3, <2>6, <2>7 DEF T
<1>3. T = Seq(Named)
  <2>1. T \in SUBSET Seq(Named)
    OBVIOUS
  <2> HIDE DEF T
  <2>2. QED
    BY <1>1, <1>2, <2>1, LongerAndLonger
<1>4. QED
  BY <1>3

\* Cleaning a text keeps where it leads.
LEMMA CleanLeads ==
  ASSUME NEW text \in AllTexts
  PROVE  Leads(Clean(text)) = Leads(text)
<1> DEFINE r == Rooted(text)
           cs == Components(text)
           s == StackOf(r, cs)
<1>1. r \in BOOLEAN /\ Clean(text) = Build(r, s) /\ Reduced(r, s)
  BY CleanIs
<1>2. cs \in Seq(Named) /\ s \in Seq(Pieces)
  BY <1>1, TextFacts, ComponentsTyped, ReducedNames
<1>3. Walked(r, s) = Walked(r, cs)
  <2> HIDE DEF r, cs
  <2>1. QED
    BY <1>1, <1>2, StackLeads
<1>4. Leads(text) = Walked(r, cs)
  BY LeadsIs
<1> HIDE DEF r, s
<1> DEFINE none == <<>>
<1>5. Rooted(Build(r, s)) = r /\ Components(Build(r, s)) = IF s = <<>> /\ ~r THEN <<Dot>> ELSE s
  BY <1>1, BuildFacts
<1>6. Walked(r, <<Dot>>) = Walked(r, none)
  <2>1. none \in Seq(Pieces) /\ <<Dot>> = Append(none, Dot)
    OBVIOUS
  <2> HIDE DEF none
  <2>2. Walked(r, Append(none, Dot)) = Walked(r, none)
    BY <2>1, PieceFacts, WalkedFacts
  <2>3. QED
    BY <2>1, <2>2
<1>7. Walked(r, Components(Build(r, s))) = Walked(r, s)
  BY <1>5, <1>6
<1>8. QED
  BY <1>1, <1>3, <1>4, <1>5, <1>7, LeadsIs

-----------------------------------------------------------------------------
(* Paths relative to others.                                               *)

\* Names alone, as a text.
LEMMA NamesAsText ==
  ASSUME NEW names, Reduced(FALSE, names)
  PROVE  LET text == IF names = <<>> THEN EmptyText ELSE names
         IN /\ text \in AllTexts /\ Rooted(text) = FALSE
            /\ Clean(text) = Build(FALSE, names)
<1> DEFINE text == IF names = <<>> THEN EmptyText ELSE names
<1>1. text \in AllTexts /\ Rooted(text) = FALSE /\ StackOf(FALSE, Components(text)) = names
  <2>1. CASE names = <<>>
    BY <2>1, EmptyTextFacts, StackOfNothing, Zenon
  <2>2. CASE names # <<>>
    <3>1. Build(FALSE, names) = names
      BY <2>2 DEF Build
    <3>2. QED
      BY <2>2, <3>1, BuildFacts, StackOfReduced
  <2>3. QED
    BY <2>1, <2>2
<1> HIDE DEF text
<1>2. Clean(text) = Build(FALSE, names)
  BY <1>1, CleanIs
<1>3. QED
  BY <1>1, <1>2 DEF text

LEMMA PrefixFacts ==
  ASSUME NEW S, NEW s \in Seq(S), NEW t \in Seq(S)
  PROVE  IsPrefix(s, t) <=> Len(s) <= Len(t) /\ s = SubSeq(t, 1, Len(s))
<1>1. Len(s) \in Nat /\ Len(t) \in Nat
  OBVIOUS
<1>2. QED
  BY <1>1 DEF IsPrefix

LEMMA RelativeTyped ==
  ASSUME NEW text \in AllTexts, NEW base \in AllTexts
  PROVE  /\ RelativeText(text, base) \in AllTexts
         /\ \A rest \in RelativeTo(text, base) : rest \in AllTexts /\ IsClean(rest)
<1> DEFINE h == Components(Clean(text))
           c == Components(Clean(base))
           rest == SubSeq(h, Len(c) + 1, Len(h))
<1>1. h \in Seq(Named) /\ c \in Seq(Named)
  BY CleanedIsClean, TextFacts, ComponentsTyped
<1> HIDE DEF h, c
<1>2. rest \in Seq(Named)
  <2>1. Len(c) + 1 \in Int /\ Len(h) \in Int /\ \A i \in Len(c) + 1 .. Len(h) : h[i] \in Named
    <3>1. Len(c) \in Nat /\ Len(h) \in Nat
      BY <1>1
    <3>2. \A i \in Len(c) + 1 .. Len(h) : i \in 1 .. Len(h)
      BY <3>1
    <3>3. QED
      BY <1>1, <3>1, <3>2
  <2>2. QED
    BY <2>1, SubSeqProperties
<1>3. RelativeText(text, base) = IF rest = <<>> THEN EmptyText ELSE rest
  BY DEF RelativeText, h, c
<1> HIDE DEF rest
<1>4. RelativeText(text, base) \in AllTexts
  BY <1>2, <1>3, NamedArePieces, EmptyTextFacts DEF AllTexts
<1>5. QED
  BY <1>4, CleanedIsClean DEF RelativeTo

\* What is relative to a base, joined to the base.
LEMMA RelativeJoins ==
  ASSUME NEW rooted \in BOOLEAN, NEW names, Reduced(rooted, names), NEW base \in AllTexts,
         NEW rest \in RelativeTo(Build(rooted, names), base)
  PROVE  JoinTexts(base, <<rest>>) = Build(rooted, names)
<1> DEFINE text == Build(rooted, names)
           h == Components(text)
           c == Components(Clean(base))
           tail == SubSeq(h, Len(c) + 1, Len(h))
           relative == IF tail = <<>> THEN EmptyText ELSE tail
           b == StackOf(rooted, Components(base))
           joined == Joined(base, rest)
<1>1. /\ text \in AllTexts /\ Rooted(text) = rooted /\ Clean(text) = text
      /\ h \in Seq(Named) /\ StackOf(rooted, h) = names
  BY StackOfClean
<1>2. IsRelative(text, base) /\ rest = Clean(RelativeText(text, base))
  BY DEF RelativeTo
<1>3. RelativeText(text, base) = relative
  BY <1>1 DEF RelativeText
<1>4. Rooted(base) = rooted /\ Rooted(Clean(base)) = rooted /\ IsPrefix(c, h)
  BY <1>1, <1>2, CleanedIsClean DEF IsRelative
<1>5. Reduced(rooted, b) /\ Clean(base) = Build(rooted, b)
  BY <1>4, CleanIs
<1>6. c = (IF b = <<>> /\ ~rooted THEN <<Dot>> ELSE b) /\ h = (IF names = <<>> /\ ~rooted THEN <<Dot>> ELSE names)
  BY <1>5, BuildFacts
<1>7. c \in Seq(Named)
  BY CleanedIsClean, TextFacts, ComponentsTyped
<1> DEFINE k == Len(c)
<1>8. Len(h) \in Nat /\ k \in 0 .. Len(h) /\ c = SubSeq(h, 1, k)
  <2> HIDE DEF h, c
  <2>1. QED
    BY <1>1, <1>4, <1>7, PrefixFacts
<1>9. names \in Seq(Named) /\ b \in Seq(Named) /\ names # <<Dot>> /\ b # <<Dot>>
  BY <1>5, ReducedNames
\* What is left is reduced, unless both are the current directory.
<1>10. Reduced(FALSE, tail) /\ StackOf(rooted, b \o tail) = names
  <2> HIDE DEF text, b, relative, joined
  <2>1. CASE names = <<>> /\ ~rooted
    <3>1. h = <<Dot>> /\ Len(h) = 1
      BY <1>6, <2>1
    <3>2. c = <<Dot>> /\ b = <<>>
      <4>1. CASE b = <<>>
        BY <1>6, <2>1, <4>1
      <4>2. CASE b # <<>>
        <5>1. c = b /\ Len(b) \in Nat \ {0}
          BY <1>6, <1>9, <4>2
        <5>2. k = 1
          <6> HIDE DEF h, c
          <6>1. k = Len(b)
            BY <5>1
          <6> HIDE DEF k
          <6>2. QED
            BY <1>8, <3>1, <5>1, <6>1
        <5>3. SubSeq(h, 1, 1) = h
          <6> HIDE DEF h
          <6>1. QED
            BY <1>1, <3>1, SubSeqFull
        <5>4. b = <<Dot>>
          BY <1>8, <3>1, <5>1, <5>2, <5>3
        <5>5. QED
          BY <1>9, <5>4
      <4>3. QED
        BY <4>1, <4>2
    <3>3. tail = <<>>
      <4>1. SubSeq(h, 2, 1) = <<>>
        BY SubSeqEmpty
      <4>2. Len(c) + 1 = 2
        BY <3>2
      <4>3. QED
        BY <3>1, <4>1, <4>2
    <3>4. b \o tail = names
      <4>1. <<>> \o <<>> = <<>>
        OBVIOUS
      <4>2. QED
        BY <2>1, <3>2, <3>3, <4>1, Zenon
    <3>5. QED
      BY <3>3, <3>4, ReducedNothing, StackOfReduced
  <2>2. CASE ~(names = <<>> /\ ~rooted)
    <3>1. h = names
      BY <1>6, <2>2
    <3>2. c = b
      <4>1. CASE b = <<>> /\ ~rooted
        <5>1. c = <<Dot>> /\ k = 1
          BY <1>6, <4>1
        <5>2. names[1] = Dot /\ 1 \in 1 .. Len(names)
          <6>1. SubSeq(names, 1, 1)[1] = Dot /\ 1 <= Len(names)
            BY <1>8, <3>1, <5>1
          <6>2. SubSeq(names, 1, 1)[1] = names[1]
            BY <1>9, <6>1
          <6>3. Len(names) \in Nat
            BY <1>9
          <6>4. QED
            BY <6>1, <6>2, <6>3
        <5>3. QED
          BY <5>2 DEF Reduced
      <4>2. CASE ~(b = <<>> /\ ~rooted)
        BY <1>6, <4>2
      <4>3. QED
        BY <4>1, <4>2
    <3>3. k \in 0 .. Len(names) /\ tail = SubSeq(names, k + 1, Len(names)) /\ b = SubSeq(names, 1, k)
      BY <1>8, <3>1, <3>2
    <3> HIDE DEF k, tail, h, c
    <3>4. Reduced(FALSE, tail) /\ b \o tail = names
      BY <3>3, ReducedRest
    <3>5. QED
      BY <3>4, StackOfReduced
  <2>3. QED
    BY <2>1, <2>2
<1> HIDE DEF h, c, k, tail, text
<1>11. relative \in AllTexts /\ Rooted(relative) = FALSE /\ Clean(relative) = Build(FALSE, tail)
  BY <1>10, NamesAsText
<1> HIDE DEF relative
<1>12. rest = Build(FALSE, tail) /\ tail \in Seq(Named) /\ tail \in Seq(Pieces)
  BY <1>2, <1>3, <1>10, <1>11, ReducedNames
<1>13. rest \in AllTexts /\ Rooted(rest) = FALSE
       /\ Components(rest) = IF tail = <<>> THEN <<Dot>> ELSE tail
  BY <1>10, <1>12, BuildFacts
<1>14. joined \in AllTexts /\ Components(joined) = Components(base) \o Components(rest) /\ Rooted(joined) = rooted
  <2>1. base = EmptyText => Rooted(base) = FALSE
    BY EmptyTextFacts
  <2>2. QED
    BY <1>4, <1>13, <2>1, JoinedFacts
<1> HIDE DEF joined
<1>15. StackOf(rooted, Components(joined)) = names
  <2>1. Components(base) \in Seq(Pieces) /\ Components(rest) \in Seq(Pieces) /\ b \in Seq(Pieces)
    BY <1>9, <1>13, TextFacts, ComponentsTyped, NamedArePieces
  <2>2. StackOf(rooted, Components(joined)) = Folded(EnterStep(rooted), b, Components(rest))
    BY <1>14, <2>1, StackOfTwice
  <2>3. StackOf(rooted, b \o tail) = Folded(EnterStep(rooted), b, tail)
    <3>1. StackOf(rooted, b) = b
      <4> HIDE DEF b
      <4>1. QED
        BY <1>5, StackOfReduced
    <3>2. StackOf(rooted, b \o tail) = Folded(EnterStep(rooted), StackOf(rooted, b), tail)
      <4> HIDE DEF b
      <4>1. QED
        BY <1>12, <2>1, StackOfTwice
    <3>3. QED
      BY <3>1, <3>2
  <2> HIDE DEF b
  <2>4. CASE tail = <<>>
    <3>1. Folded(EnterStep(rooted), b, <<Dot>>) = b
      BY <2>1, EnteredDot
    <3>2. Folded(EnterStep(rooted), b, <<>>) = b
      BY <2>1, EnterIs, FoldedNothing
    <3>3. QED
      BY <1>10, <1>13, <2>2, <2>3, <2>4, <3>1, <3>2
  <2>5. CASE tail # <<>>
    BY <1>10, <1>13, <2>2, <2>3, <2>5
  <2>6. QED
    BY <2>4, <2>5
<1>16. Clean(joined) = Build(rooted, names)
  BY <1>14, <1>15, CleanIs
<1>17. QED
  BY <1>13, <1>16, JoinOne DEF joined

\* Without ".." a text is entered below what is there.
Downward == Named \ {DotDot}

LEMMA DownwardFacts ==
  ASSUME NEW text \in AllTexts, DotDot \notin ToSet(text)
  PROVE  Components(text) \in Seq(Downward)
<1> DEFINE P == Pieces \ {DotDot}
           T == {q \in Seq(P) : Components(q) \in Seq(Downward)}
<1>0. \A q \in Seq(P) : q \in Seq(Pieces)
  OBVIOUS
<1>1. text \in Seq(P)
  <2>1. text \in Seq(Pieces) /\ \A i \in 1 .. Len(text) : text[i] \in Pieces
    BY TextFacts
  <2>2. \A i \in 1 .. Len(text) : text[i] \in ToSet(text)
    BY <2>1 DEF ToSet
  <2>3. \A i \in 1 .. Len(text) : text[i] \in P
    BY <2>1, <2>2
  <2>4. QED
    BY <2>1, <2>3
<1>2. <<>> \in T
  <2>1. <<>> \in Seq(P) /\ <<>> \in Seq(Downward)
    OBVIOUS
  <2>2. QED
    BY <2>1, NoComponents, Zenon
<1>3. ASSUME NEW q \in T, NEW x \in P PROVE Append(q, x) \in T
  <2>1. q \in Seq(P) /\ Components(q) \in Seq(Downward) /\ Append(q, x) \in Seq(P) /\ q \in Seq(Pieces)
    BY <1>0
  <2>2. Components(Append(q, x)) = IF x = Empty THEN Components(q) ELSE Append(Components(q), x)
    BY <2>1, ComponentsTyped, ComponentsAppend
  <2>3. x # Empty => x \in Downward
    BY DEF Downward, Named
  <2>4. Components(Append(q, x)) \in Seq(Downward)
    <3> HIDE DEF T
    <3>1. x # Empty => Append(Components(q), x) \in Seq(Downward)
      BY <2>1, <2>3
    <3>2. QED
      BY <2>1, <2>2, <3>1
  <2>5. QED
    BY <2>1, <2>4
<1>4. T = Seq(P)
  <2>1. T \in SUBSET Seq(P)
    OBVIOUS
  <2> HIDE DEF T
  <2>2. QED
    BY <1>2, <1>3, <2>1, LongerAndLonger
<1>5. QED
  BY <1>1, <1>4

LEMMA DownwardStacks ==
  ASSUME NEW rooted \in BOOLEAN, NEW s \in Seq(Pieces), NEW names \in Seq(Downward)
  PROVE  /\ StackOf(FALSE, names) \in Seq(Pieces)
         /\ Folded(EnterStep(rooted), s, names) = s \o StackOf(FALSE, names)
<1> DEFINE T == {q \in Seq(Downward) :
                   /\ StackOf(FALSE, q) \in Seq(Pieces)
                   /\ Folded(EnterStep(rooted), s, q) = s \o StackOf(FALSE, q)}
<1>1. <<>> \in T
  <2> DEFINE none == <<>>
  <2>1. none \in Seq(Downward) /\ none \in Seq(Pieces) /\ s \o none = s
    BY ConcatEmptySeq
  <2>2. Folded(EnterStep(rooted), s, none) = s
    BY EnterIs, FoldedNothing
  <2>3. StackOf(FALSE, none) = none
    BY StackOfNothing
  <2> HIDE DEF none
  <2>4. none \in T
    BY <2>1, <2>2, <2>3
  <2>5. QED
    BY <2>4 DEF none
<1>2. ASSUME NEW q \in T, NEW x \in Downward PROVE Append(q, x) \in T
  <2> DEFINE a == StackOf(FALSE, q)
             b == Folded(EnterStep(rooted), s, q)
  <2>0. x \in Pieces /\ x # DotDot
    BY DEF Downward, Named
  <2>1. q \in Seq(Downward) /\ q \in Seq(Pieces) /\ Append(q, x) \in Seq(Downward)
    <3>1. Downward \subseteq Pieces
      BY DEF Downward, Named
    <3>2. QED
      BY <3>1
  <2>2. a \in Seq(Pieces) /\ b = s \o a
    OBVIOUS
  <2>3. StackOf(FALSE, Append(q, x)) = Entered(FALSE, a, x)
    BY <2>0, <2>1, StackOfAppend
  <2>4. b \in Seq(Pieces)
    BY <2>2, ConcatProperties
  <2>5. Folded(EnterStep(rooted), s, Append(q, x)) = Entered(rooted, b, x)
    <3>1. Folded(EnterStep(rooted), s, Append(q, x)) = EnterStep(rooted)[<<b, x>>]
      BY <2>0, <2>1, EnterIs, FoldedAppend
    <3>2. QED
      BY <2>0, <2>4, <3>1, EnterIs
  <2> HIDE DEF a, b
  <2>6. \A r, u : Entered(r, u, x) = IF x = Dot THEN u ELSE Append(u, x)
    BY <2>0 DEF Entered
  <2>7. s \o Append(a, x) = Append(s \o a, x) /\ Append(a, x) \in Seq(Pieces)
    BY <2>0, <2>2
  <2>8. Entered(FALSE, a, x) \in Seq(Pieces) /\ Entered(rooted, b, x) = s \o Entered(FALSE, a, x)
    BY <2>2, <2>6, <2>7
  <2>9. QED
    BY <2>1, <2>3, <2>5, <2>8
<1>3. T = Seq(Downward)
  <2>1. T \in SUBSET Seq(Downward)
    OBVIOUS
  <2> HIDE DEF T
  <2>2. QED
    BY <1>1, <1>2, <2>1, LongerAndLonger
<1>4. QED
  BY <1>3

\* What has been joined to a path is relative to it again.
LEMMA JoinedIsRelative ==
  ASSUME NEW rooted \in BOOLEAN, NEW names, Reduced(rooted, names),
         Build(rooted, names) # Current,
         NEW text \in AllTexts, ~Rooted(text), DotDot \notin ToSet(text)
  PROVE  RelativeTo(JoinTexts(Build(rooted, names), <<text>>), Build(rooted, names)) = {Clean(text)}
<1> DEFINE base == Build(rooted, names)
           below == StackOf(FALSE, Components(text))
           all == names \o below
           joined == Joined(base, text)
           path == Build(rooted, all)
<1>1. /\ base \in AllTexts /\ Rooted(base) = rooted /\ Clean(base) = base
      /\ Components(base) = names
  <2>1. ~(names = <<>> /\ ~rooted)
    BY DEF Build
  <2>2. QED
    BY <2>1, BuildFacts, CleanOfBuild
<1>2. base # EmptyText
  <2>1. Clean(EmptyText) = Current
    <3> DEFINE none == <<>>
    <3>1. Reduced(FALSE, none) /\ Build(FALSE, none) = Current
      BY ReducedNothing DEF Build
    <3>2. Clean(IF none = <<>> THEN EmptyText ELSE none) = Build(FALSE, none)
      <4> HIDE DEF none
      <4>1. QED
        BY <3>1, NamesAsText
    <3>3. QED
      BY <3>1, <3>2
  <2>2. QED
    BY <1>1, <2>1
<1>3. names \in Seq(Named) /\ names \in Seq(Pieces)
  BY ReducedNames
<1>4. Components(text) \in Seq(Downward) /\ Components(text) \in Seq(Named) /\ Components(text) \in Seq(Pieces)
  BY DownwardFacts, TextFacts, ComponentsTyped
<1> HIDE DEF base
<1>5. joined \in AllTexts /\ Rooted(joined) = rooted /\ Components(joined) = names \o Components(text)
  BY <1>1, <1>2, JoinedFacts
<1>6. StackOf(rooted, names \o Components(text)) = all
  <2>1. StackOf(rooted, names) = names
    BY StackOfReduced
  <2>2. StackOf(rooted, names \o Components(text)) = Folded(EnterStep(rooted), names, Components(text))
    BY <1>3, <1>4, <2>1, StackOfTwice
  <2>3. QED
    BY <1>3, <1>4, <2>2, DownwardStacks
<1>7. Reduced(FALSE, below) /\ below \in Seq(Named)
  BY <1>4, StacksAreReduced, ReducedNames
<1> HIDE DEF below, joined
<1>8. Reduced(rooted, all) /\ all \in Seq(Named)
  <2>1. names \o Components(text) \in Seq(Named)
    BY <1>3, <1>4, ConcatProperties
  <2>2. QED
    BY <1>6, <2>1, StacksAreReduced, ReducedNames
<1>9. JoinTexts(base, <<text>>) = path
  <2>1. Clean(joined) = path
    BY <1>5, <1>6, CleanIs
  <2>2. QED
    BY <1>1, <2>1, JoinOne DEF joined
<1>10. all = <<>> => names = <<>>
  BY <1>3, <1>7, ConcatFacts
<1>11. path \in AllTexts /\ Rooted(path) = rooted /\ Clean(path) = path /\ Components(path) = all
  <2>1. ~(all = <<>> /\ ~rooted)
    BY <1>10 DEF base, Build
  <2> HIDE DEF all
  <2>2. QED
    BY <1>8, <2>1, BuildFacts, CleanOfBuild
<1> DEFINE n == Len(names)
<1>12. n \in Nat /\ n <= Len(all) /\ Len(all) = n + Len(below) /\ Len(below) \in Nat
       /\ SubSeq(all, 1, n) = names /\ SubSeq(all, n + 1, Len(all)) = below
  <2>1. n \in Nat /\ Len(all) = n + Len(below) /\ Len(below) \in Nat
        /\ \A i \in 1 .. n + Len(below) : all[i] = IF i <= n THEN names[i] ELSE below[i - n]
    BY <1>3, <1>7, ConcatProperties
  <2> HIDE DEF all
  <2>2. SubSeq(all, 1, n) = names
    <3> DEFINE u == SubSeq(all, 1, n)
    <3>1. Reduced(rooted, u) /\ Len(u) = n /\ \A i \in 1 .. n : u[i] = all[i]
      <4>1. n \in 0 .. Len(all)
        BY <2>1
      <4> HIDE DEF n
      <4>2. QED
        BY <1>8, <4>1, ReducedPrefix
    <3> HIDE DEF u
    <3>2. u \in Seq(Named)
      BY <3>1, ReducedNames
    <3>3. \A i \in 1 .. Len(u) : u[i] = names[i]
      BY <2>1, <3>1
    <3>4. u = names
      BY <1>3, <3>1, <3>2, <3>3, SeqEqual
    <3>5. QED
      BY <3>4 DEF u
  <2>3. SubSeq(all, n + 1, Len(all)) = below
    <3> DEFINE u == SubSeq(all, n + 1, Len(all))
    <3>1. names \o u = all
      <4>1. n \in 0 .. Len(all)
        BY <2>1
      <4> HIDE DEF n
      <4>2. SubSeq(all, 1, n) \o SubSeq(all, n + 1, Len(all)) = all /\ u \in Seq(Named)
        BY <1>8, <4>1, ReducedRest, ReducedNames
      <4>3. QED
        BY <2>2, <4>2
    <3>2. u \in Seq(Named)
      <4>1. n \in 0 .. Len(all)
        BY <2>1
      <4> HIDE DEF n
      <4>2. QED
        BY <1>8, <4>1, ReducedRest, ReducedNames
    <3> HIDE DEF u
    <3>3. u = below
      BY <1>3, <1>7, <3>1, <3>2, ConcatSimplifications DEF all
    <3>4. QED
      BY <3>3 DEF u
  <2>4. QED
    BY <2>1, <2>2, <2>3
<1> HIDE DEF all, path
<1>13. IsRelative(path, base)
  <2>1. IsPrefix(names, all)
    BY <1>3, <1>8, <1>12, PrefixFacts
  <2>2. QED
    BY <1>1, <1>11, <2>1 DEF IsRelative
<1>14. RelativeText(path, base) = IF below = <<>> THEN EmptyText ELSE below
  <2>1. Components(Clean(base)) = names /\ Components(Clean(path)) = all
    BY <1>1, <1>11
  <2>2. SubSeq(all, Len(names) + 1, Len(all)) = below
    BY <1>12
  <2>3. QED
    BY <2>1, <2>2, Zenon DEF RelativeText
<1>15. Clean(RelativeText(path, base)) = Build(FALSE, below)
  BY <1>7, <1>14, NamesAsText
<1>16. Clean(text) = Build(FALSE, below)
  <2>1. Rooted(text) = FALSE
    BY DEF Rooted
  <2>2. QED
    BY <2>1, CleanIs DEF below
<1>17. RelativeTo(path, base) = {Clean(text)}
  BY <1>13, <1>15, <1>16 DEF RelativeTo
<1>18. QED
  BY <1>9, <1>17 DEF base

LEMMA JoinsOfClean ==
  ASSUME IsClean(here)
  PROVE  JoinsKeepPlace
<1>1. PICK rooted \in BOOLEAN, names \in Seq(Named) : Reduced(rooted, names) /\ here = Build(rooted, names)
  BY DEF IsClean
<1>2. here \in AllTexts
  BY <1>1, StackOfClean
<1> SUFFICES ASSUME NEW text \in Texts
             PROVE  /\ Leads(JoinTexts(here, <<text>>)) = Leads(Joined(here, text))
                    /\ \A rest \in RelativeTo(here, text) : JoinTexts(text, <<rest>>) = here
                    /\ ~Rooted(text) /\ DotDot \notin ToSet(text) /\ here # Current =>
                         RelativeTo(JoinTexts(here, <<text>>), here) = {Clean(text)}
  BY DEF JoinsKeepPlace
<1>3. text \in AllTexts
  BY TextsAssumption
<1>4. Leads(JoinTexts(here, <<text>>)) = Leads(Joined(here, text))
  <2>1. Joined(here, text) \in AllTexts /\ JoinTexts(here, <<text>>) = Clean(Joined(here, text))
    BY <1>2, <1>3, JoinOne, JoinedFacts
  <2>2. QED
    BY <2>1, CleanLeads
<1>5. \A rest \in RelativeTo(here, text) : JoinTexts(text, <<rest>>) = here
  BY <1>1, <1>3, RelativeJoins
<1>6. ~Rooted(text) /\ DotDot \notin ToSet(text) /\ here # Current =>
        RelativeTo(JoinTexts(here, <<text>>), here) = {Clean(text)}
  BY <1>1, <1>3, JoinedIsRelative
<1>7. QED
  BY <1>4, <1>5, <1>6

-----------------------------------------------------------------------------
(* The invariant.                                                          *)

\* The path is as _clean leaves one: a reduced stack of components.
PathInv == here \in AllTexts /\ IsClean(here)

LEMMA ParentTyped ==
  ASSUME IsClean(here)
  PROVE  /\ ParentText(here) \in AllTexts /\ IsClean(ParentText(here))
         /\ \A i \in DOMAIN Parents(here) : Parents(here)[i] \in AllTexts /\ IsClean(Parents(here)[i])
<1>1. PICK rooted \in BOOLEAN, names \in Seq(Named) : Reduced(rooted, names) /\ here = Build(rooted, names)
  BY DEF IsClean
<1>2. \A n \in Nat : Build(rooted, Left(names, n)) \in AllTexts /\ IsClean(Build(rooted, Left(names, n)))
  <2> SUFFICES ASSUME NEW n \in Nat
               PROVE  Build(rooted, Left(names, n)) \in AllTexts /\ IsClean(Build(rooted, Left(names, n)))
    OBVIOUS
  <2> DEFINE p == Left(names, n)
  <2>1. Reduced(rooted, p)
    BY <1>1, LeftFacts
  <2> HIDE DEF p
  <2>2. Build(rooted, p) \in AllTexts /\ IsClean(Build(rooted, p))
    BY <2>1, BuildFacts, BuiltIsClean
  <2>3. QED
    BY <2>2 DEF p
<1>3. ParentText(here) = Build(rooted, Left(names, 1))
  <2>1. Left(names, 0) = names /\ ParentText(Build(rooted, Left(names, 0))) = Build(rooted, Left(names, 0 + 1))
    BY <1>1, LeftFacts
  <2>2. 0 + 1 = 1
    OBVIOUS
  <2>3. QED
    BY <1>1, <2>1, <2>2
<1>4. \A i \in DOMAIN Parents(here) : i \in Nat /\ Parents(here)[i] = Build(rooted, Left(names, i))
  <2> SUFFICES ASSUME NEW i \in DOMAIN Parents(here) PROVE i \in Nat /\ Parents(here)[i] = Build(rooted, Left(names, i))
    OBVIOUS
  <2>1. i \in 1 .. Len(names) /\ Parents(here)[i] = Build(rooted, Left(names, i))
    BY <1>1, ParentsAre
  <2>2. QED
    BY <2>1
<1>5. QED
  BY <1>2, <1>3, <1>4

LEMMA SuffixedTyped ==
  ASSUME NEW text \in AllTexts, NEW suffix \in Seq(Segments)
  PROVE  Suffixed(text, suffix) \in AllTexts
<1> DEFINE n == Len(text)
           piece == text[n] \o suffix
<1>1. text \in Seq(Pieces) /\ n \in Nat \ {0}
  BY TextFacts
<1>2. n \in 1 .. n /\ text[n] \in Pieces
  BY <1>1
<1>3. piece \in Pieces
  <2>1. text[n] \in Seq(Segments) /\ text[n] # <<>>
    BY <1>2 DEF Pieces
  <2> DEFINE old == text[n]
  <2> HIDE DEF old
  <2>2. old \o suffix \in Seq(Segments) /\ old \o suffix # <<>>
    BY <2>1, ConcatFacts DEF old
  <2>3. QED
    BY <2>2 DEF Pieces, old
<1>4. Suffixed(text, suffix) = [text EXCEPT ![n] = piece]
  BY DEF Suffixed
<1> HIDE DEF piece
<1>5. [text EXCEPT ![n] = piece] \in Seq(Pieces) /\ Len([text EXCEPT ![n] = piece]) = n
  BY <1>1, <1>2, <1>3, ExceptSeq
<1>6. [text EXCEPT ![n] = piece] # <<>>
  <2> DEFINE u == [text EXCEPT ![n] = piece]
  <2>1. Len(u) = n /\ n # 0
    BY <1>1, <1>5
  <2> HIDE DEF u
  <2>2. u # <<>>
    BY <2>1
  <2>3. QED
    BY <2>2 DEF u
<1>7. QED
  BY <1>4, <1>5, <1>6 DEF AllTexts

LEMMA GoesOn ==
  ASSUME NEW text \in AllTexts, IsClean(text), GoOn(text)
  PROVE  PathInv'
BY DEF GoOn, PathInv, IsClean

LEMMA PathStep ==
  ASSUME PathInv, ComputePath
  PROVE  PathInv'
<1>0. here \in AllTexts /\ IsClean(here)
  BY DEF PathInv
<1>1. CASE New
  BY <1>1, TextsAssumption, CleanedIsClean, GoesOn DEF New
<1>2. CASE JoinPath
  BY <1>0, <1>2, TextsAssumption, JoinOne, GoesOn DEF JoinPath
<1>3. CASE Parent
  BY <1>0, <1>3, ParentTyped, GoesOn DEF Parent
<1>4. CASE Ancestor
  BY <1>0, <1>4, ParentTyped, GoesOn DEF Ancestor
<1>5. CASE RelativePath
  BY <1>0, <1>5, TextsAssumption, RelativeTyped, GoesOn DEF RelativePath
<1>6. CASE Absolute
  BY <1>0, <1>6, EmptyTextFacts, JoinOne, GoesOn DEF Absolute
<1>7. CASE ExpandUser
  <2> DEFINE rest == [i \in 1 .. Len(here) - 1 |-> <<here[i + 1]>>]
  <2>1. Home \in AllTexts
    BY TextsAssumption
  <2>2. rest \in Seq(AllTexts)
    <3>1. here \in Seq(Pieces) /\ Len(here) \in Nat \ {0}
      BY <1>0, TextFacts
    <3>2. \A i \in 1 .. Len(here) - 1 : here[i + 1] \in Pieces
      BY <3>1
    <3>3. \A x \in Pieces : <<x>> \in AllTexts
      BY DEF AllTexts
    <3>4. \A i \in 1 .. Len(here) - 1 : <<here[i + 1]>> \in AllTexts
      BY <3>2, <3>3
    <3>5. Len(here) - 1 \in Nat
      BY <3>1
    <3>6. QED
      BY <3>4, <3>5, IsASeq
  <2>3. JoinTexts(Home, rest) \in AllTexts /\ IsClean(JoinTexts(Home, rest))
    BY <2>1, <2>2, JoinTextsIs
  <2>4. Clean(Home) \in AllTexts /\ IsClean(Clean(Home))
    BY <2>1, CleanedIsClean
  <2>5. QED
    BY <1>0, <1>7, <2>3, <2>4, GoesOn DEF ExpandUser
<1>8. ASSUME NEW name \in Texts, NewName(name) PROVE PathInv'
  <2>1. PICK text \in WithName(here, name) : GoOn(text)
    BY <1>8 DEF NewName
  <2>2. text = JoinTexts(ParentText(here), <<name>>)
    BY DEF WithName
  <2>3. QED
    BY <1>0, <2>1, <2>2, TextsAssumption, ParentTyped, JoinOne, GoesOn
<1>9. ASSUME NEW stem \in Texts, NewStem(stem) PROVE PathInv'
  <2>1. PICK text \in WithStem(here, stem) : GoOn(text)
    BY <1>9 DEF NewStem
  <2>2. text = JoinTexts(ParentText(here), <<Suffixed(stem, Suffix(here))>>)
    BY DEF WithStem
  <2>3. Suffixed(stem, Suffix(here)) \in AllTexts
    BY <1>0, TextsAssumption, StemAndSuffix, SuffixedTyped
  <2>4. QED
    BY <1>0, <2>1, <2>2, <2>3, ParentTyped, JoinOne, GoesOn
<1>10. ASSUME NEW suffix \in Suffixings, NewSuffix(suffix) PROVE PathInv'
  <2>1. PICK text \in WithSuffix(here, suffix) : GoOn(text)
    BY <1>10 DEF NewSuffix
  <2>2. text = JoinTexts(ParentText(here), <<Suffixed(Stem(here), suffix)>>)
    BY DEF WithSuffix
  <2>3. Suffixed(Stem(here), suffix) \in AllTexts
    BY <1>0, TextsAssumption, StemAndSuffix, SuffixedTyped
  <2>4. QED
    BY <1>0, <2>1, <2>2, <2>3, ParentTyped, JoinOne, GoesOn
<1>11. QED
  BY <1>1, <1>2, <1>3, <1>4, <1>5, <1>6, <1>7, <1>8, <1>9, <1>10 DEF ComputePath

\* Only the methods that answer a path change the one the program has.
LEMMA HereStays ==
  ASSUME Next, ~ComputePath
  PROVE  here' = here
<1>1. CASE ChangeTree
  BY <1>1 DEF ChangeTree, Call, Touch, EndTouch, MakeDirectory, MakeDirectories,
              EndMakeDirectories, Unlink, Rmdir, RenameTo, HardlinkTo, SymlinkTo, WriteText
<1>2. CASE Traverse
  BY <1>2 DEF Traverse, Start, Walk, Rglob, Glob, Step, ReadDirectory, VisitChild, LeaveDirectory
<1>3. CASE Return
  BY <1>3 DEF Return
<1>4. CASE Appear \/ Vanish \/ Move
  BY <1>4 DEF Appear, Vanish, Move, World
<1>5. QED
  BY <1>1, <1>2, <1>3, <1>4 DEF Next, Program

\* Whatever methods a program takes one path from another with, what it holds
\* is a clean text (path.slv, _clean and everything that calls it).
THEOREM PathsStayClean == Spec => []PathInv
<1>1. Init => PathInv
  <2> SUFFICES ASSUME Init PROVE PathInv
    OBVIOUS
  <2>1. PICK text \in Texts : here = Clean(text)
    BY DEF Init
  <2>2. QED
    BY <2>1, TextsAssumption, CleanedIsClean DEF PathInv
<1>2. PathInv /\ [Next]_vars => PathInv'
  <2> SUFFICES ASSUME PathInv, [Next]_vars PROVE PathInv'
    OBVIOUS
  <2>1. CASE ComputePath
    BY <2>1, PathStep
  <2>2. CASE Next /\ ~ComputePath
    BY <2>2, HereStays DEF PathInv, IsClean
  <2>3. CASE UNCHANGED vars
    BY <2>3 DEF vars, PathInv, IsClean
  <2>4. QED
    BY <2>1, <2>2, <2>3
<1>3. QED
  BY <1>1, <1>2, PTL DEF Spec

\* The properties a Path computes from its text agree with each other: what
\* parts, parents, stem, suffix and suffixes say makes the path again.
THEOREM PathsDescribed == Spec => []FieldsDescribePath
<1>1. PathInv => FieldsDescribePath
  BY FieldsOfClean DEF PathInv
<1>2. QED
  BY <1>1, PathsStayClean, PTL

\* Joining leads where the texts lead one after the other, and relative_to and
\* joining undo each other, for every path and text.
THEOREM PlacesKept == Spec => []JoinsKeepPlace
<1>1. PathInv => JoinsKeepPlace
  BY JoinsOfClean DEF PathInv
<1>2. QED
  BY <1>1, PathsStayClean, PTL

(* Recursion.                                                              *)

\* The lexicographic order of two measures.
Less(a, b, y, x) == a[y] < a[x] \/ (a[y] = a[x] /\ b[y] < b[x])

LEMMA LessFacts ==
  ASSUME NEW S, NEW a \in [S -> Nat], NEW b \in [S -> Nat]
  PROVE  \A x, y, z \in S : Less(a, b, x, y) /\ Less(a, b, y, z) => Less(a, b, x, z)
<1> TAKE x, y, z \in S
<1>1. a[x] \in Nat /\ a[y] \in Nat /\ a[z] \in Nat /\ b[x] \in Nat /\ b[y] \in Nat /\ b[z] \in Nat
  OBVIOUS
<1>2. QED
  BY <1>1 DEF Less

\* What holds of x as soon as it holds of all that is less, holds.
LEMMA MeasureInduction ==
  ASSUME NEW S, NEW a \in [S -> Nat], NEW b \in [S -> Nat], NEW T \in SUBSET S,
         \A x \in S : (\A y \in S : Less(a, b, y, x) => y \in T) => x \in T
  PROVE  T = S
<1> SUFFICES ASSUME T # S PROVE FALSE
  OBVIOUS
<1> DEFINE M == {a[x] : x \in S \ T}
<1>1. M \in SUBSET Nat /\ M # {}
  OBVIOUS
<1>2. PICK i \in M : \A j \in M : i <= j
  <2> HIDE DEF M
  <2> QED
    BY <1>1, LeastNatural
<1> DEFINE L == {b[x] : x \in {y \in S \ T : a[y] = i}}
<1>3. L \in SUBSET Nat /\ L # {}
  BY <1>2
<1>4. PICK k \in L : \A j \in L : k <= j
  <2> HIDE DEF L
  <2> QED
    BY <1>3, LeastNatural
<1>5. PICK x \in S \ T : a[x] = i /\ b[x] = k
  BY <1>4
<1>6. ASSUME NEW y \in S, Less(a, b, y, x) PROVE y \in T
  <2> SUFFICES ASSUME y \notin T PROVE FALSE
    OBVIOUS
  <2>1. a[y] \in M /\ (a[y] = i => b[y] \in L)
    OBVIOUS
  <2>2. a[x] <= a[y] /\ (a[y] = a[x] => b[x] <= b[y])
    <3> HIDE DEF M, L
    <3> QED
      BY <2>1, <1>2, <1>4, <1>5
  <2>3. a[x] \in Nat /\ a[y] \in Nat /\ b[x] \in Nat /\ b[y] \in Nat
    OBVIOUS
  <2>4. QED
    BY <2>2, <2>3, <1>6 DEF Less
<1>7. QED
  BY <1>5, <1>6

\* step defines f[x] from the values of f at lesser arguments.
LooksBelow(S, a, b, R, step) ==
  /\ a \in [S -> Nat] /\ b \in [S -> Nat]
  /\ step \in [[S -> R] -> [S -> R]]
  /\ \A f, g \in [S -> R], x \in S :
        (\A y \in S : Less(a, b, y, x) => f[y] = g[y]) => step[f][x] = step[g][x]

\* Two functions that obey step as far as x agree there.
LEMMA SolutionsAgree ==
  ASSUME NEW S, NEW a, NEW b, NEW R, NEW step, LooksBelow(S, a, b, R, step),
         NEW f \in [S -> R], NEW g \in [S -> R], NEW x \in S, f[x] = step[f][x], g[x] = step[g][x],
         \A y \in S : Less(a, b, y, x) => f[y] = step[f][y] /\ g[y] = step[g][y]
  PROVE  f[x] = g[x]
<1> USE DEF LooksBelow
<1> DEFINE T == {y \in S : (y = x \/ Less(a, b, y, x)) => f[y] = g[y]}
<1>1. ASSUME NEW y \in S, \A z \in S : Less(a, b, z, y) => z \in T PROVE y \in T
  <2> SUFFICES ASSUME y = x \/ Less(a, b, y, x) PROVE f[y] = g[y]
    OBVIOUS
  <2>1. \A z \in S : Less(a, b, z, y) => Less(a, b, z, x)
    BY LessFacts
  <2>2. \A z \in S : Less(a, b, z, y) => f[z] = g[z]
    BY <2>1, <1>1
  <2>3. step[f][y] = step[g][y]
    BY <2>2
  <2>4. QED
    BY <2>3
<1>2. T = S
  <2>1. T \in SUBSET S /\ a \in [S -> Nat] /\ b \in [S -> Nat]
    OBVIOUS
  <2> HIDE DEF T, LooksBelow
  <2>2. \A y \in S : (\A z \in S : Less(a, b, z, y) => z \in T) => y \in T
    BY <1>1
  <2>3. QED
    BY <2>1, <2>2, MeasureInduction
<1>3. QED
  BY <1>2

\* Such a definition has a solution.
LEMMA RecursionHasSolution ==
  ASSUME NEW S, NEW a, NEW b, NEW R, R # {}, NEW step, LooksBelow(S, a, b, R, step)
  PROVE  \E f \in [S -> R] : f = step[f]
<1> USE DEF LooksBelow
<1> DEFINE F == [S -> R]
           Good(f, x) == f[x] = step[f][x] /\ \A y \in S : Less(a, b, y, x) => f[y] = step[f][y]
           T == {x \in S : \E f \in F : Good(f, x)}
           c(x) == CHOOSE f \in F : Good(f, x)
           some == CHOOSE v : v \in R
<1>1. some \in R
  OBVIOUS
<1>2. \A x \in T : c(x) \in F /\ Good(c(x), x)
  OBVIOUS
<1>3. ASSUME NEW D \in SUBSET T, \A x \in D, y \in S : Less(a, b, y, x) => y \in D,
             NEW g \in F, \A x \in D : g[x] = c(x)[x],
             NEW x \in D
      PROVE  g[x] = step[g][x]
  <2>1. c(x) \in F /\ Good(c(x), x)
    BY <1>2
  <2>2. ASSUME NEW y \in S, Less(a, b, y, x) PROVE c(x)[y] = g[y]
    <3>1. y \in D /\ c(y) \in F /\ Good(c(y), y)
      <4>1. y \in D
        BY <1>3, <2>2
      <4> HIDE DEF c, Good
      <4>2. QED
        BY <4>1, <1>2
    <3>2. Good(c(x), y)
      <4>1. \A z \in S : Less(a, b, z, y) => Less(a, b, z, x)
        BY <2>2, LessFacts
      <4> HIDE DEF c
      <4>2. QED
        BY <4>1, <2>1, <2>2
    <3>3. c(x)[y] = c(y)[y]
      <4>1. /\ c(x)[y] = step[c(x)][y] /\ c(y)[y] = step[c(y)][y]
            /\ \A z \in S : Less(a, b, z, y) => c(x)[z] = step[c(x)][z] /\ c(y)[z] = step[c(y)][z]
        <5> HIDE DEF c
        <5> QED
          BY <3>1, <3>2
      <4> HIDE DEF c, LooksBelow
      <4>2. QED
        BY <4>1, <3>1, <2>1, <2>2, SolutionsAgree
    <3>4. QED
      <4> HIDE DEF c
      <4> QED
        BY <3>1, <3>3, <1>3
  <2>3. step[c(x)][x] = step[g][x]
    <3> HIDE DEF c
    <3> QED
      BY <2>1, <2>2
  <2>4. QED
    <3> HIDE DEF c
    <3> QED
      BY <2>1, <2>3, <1>3
<1>4. ASSUME NEW x \in S, \A y \in S : Less(a, b, y, x) => y \in T PROVE x \in T
  <2> DEFINE D == {y \in S : Less(a, b, y, x)}
             g == [y \in S |-> IF y \in D THEN c(y)[y] ELSE some]
  <2>1. D \in SUBSET T
    BY <1>4
  <2>2. \A y \in D, z \in S : Less(a, b, z, y) => z \in D
    BY LessFacts
  <2>3. g \in F
    <3>1. \A y \in D : c(y)[y] \in R
      BY <2>1, <1>2
    <3> HIDE DEF c, some, D
    <3>2. QED
      BY <3>1, <1>1
  <2>4. \A y \in D : g[y] = step[g][y]
    <3>1. \A y \in D : g[y] = c(y)[y]
      OBVIOUS
    <3> HIDE DEF g, D, c, T
    <3>2. QED
      BY <1>3, <2>1, <2>2, <2>3, <3>1
  <2> HIDE DEF g
  <2>5. step[g] \in F
    BY <2>3
  <2>6. \A y \in S : Less(a, b, y, x) => step[g][y] = step[step[g]][y]
    <3>1. ASSUME NEW y \in S, Less(a, b, y, x) PROVE step[g][y] = step[step[g]][y]
      <4>1. \A z \in S : Less(a, b, z, y) => g[z] = step[g][z]
        BY <3>1, <2>4, LessFacts
      <4>2. QED
        BY <4>1, <2>3, <2>5
    <3>2. QED
      BY <3>1
  <2>7. step[g][x] = step[step[g]][x]
    <3>1. \A z \in S : Less(a, b, z, x) => g[z] = step[g][z]
      BY <2>4
    <3>2. QED
      BY <3>1, <2>3, <2>5
  <2>8. Good(step[g], x)
    BY <2>6, <2>7
  <2>9. QED
    BY <2>5, <2>8
<1>5. T = S
  <2>1. T \in SUBSET S
    OBVIOUS
  <2> HIDE DEF T
  <2>2. QED
    BY <1>4, <2>1, MeasureInduction
<1> DEFINE h == [x \in S |-> c(x)[x]]
<1>6. h \in F
  <2>1. \A x \in S : c(x)[x] \in R
    BY <1>2, <1>5
  <2> HIDE DEF c
  <2>2. QED
    BY <2>1
<1>7. \A x \in S : h[x] = step[h][x]
  <2>1. \A x \in S : h[x] = c(x)[x]
    OBVIOUS
  <2>2. S \in SUBSET T /\ \A x \in S, y \in S : Less(a, b, y, x) => y \in S
    BY <1>5
  <2> HIDE DEF h, c, T
  <2>3. QED
    BY <2>1, <2>2, <1>3, <1>6
<1>8. step[h] \in F
  BY <1>6
<1>9. h = step[h]
  <2> HIDE DEF h
  <2> QED
    BY <1>6, <1>7, <1>8
<1>10. QED
  BY <1>6, <1>9

(* Trees.                                                                  *)

LEMMA TreeFacts ==
  ASSUME NEW t, IsTree(t)
  PROVE  /\ DOMAIN t \subseteq Seq(Pieces) /\ <<>> \in DOMAIN t /\ t[<<>>] = Directory
         /\ \A l \in DOMAIN t :
              /\ t[l] \in Nodes /\ t[l].kind \in {"directory", "file", "link"} /\ t[l].target \in AllTexts
              /\ Above(l) \in DOMAIN t /\ t[Above(l)].kind = "directory"
<1>1. t[<<>>].kind = "directory"
  BY DEF IsTree, Directory
<1>2. ASSUME NEW l \in DOMAIN t
      PROVE  /\ t[l] \in Nodes /\ t[l].kind \in {"directory", "file", "link"} /\ t[l].target \in AllTexts
             /\ Above(l) \in DOMAIN t /\ t[Above(l)].kind = "directory"
  <2>1. t[l] \in Nodes
    BY DEF IsTree
  <2>2. t[l].kind \in {"directory", "file", "link"} /\ t[l].target \in AllTexts
    BY <2>1 DEF Nodes
  <2>3. CASE l = <<>>
    BY <2>1, <2>2, <2>3, <1>1 DEF IsTree, Above
  <2>4. CASE l # <<>>
    BY <2>1, <2>2, <2>4 DEF IsTree, Above
  <2>5. QED
    BY <2>3, <2>4
<1>3. QED
  BY <1>2 DEF IsTree

\* Everything on the way to a location is a directory.
LEMMA InnerAreDirectories ==
  ASSUME NEW t, IsTree(t), NEW l \in DOMAIN t, NEW k, IsStrictPrefix(k, l), k \in Seq(Pieces)
  PROVE  k \in DOMAIN t /\ t[k].kind = "directory"
<1> DEFINE T == {n \in Nat : \A m \in DOMAIN t : Len(m) = n /\ IsStrictPrefix(k, m) =>
                     k \in DOMAIN t /\ t[k].kind = "directory"}
<1>0. \A m \in DOMAIN t : m \in Seq(Pieces) /\ Len(m) \in Nat /\ Len(k) \in Nat
  BY TreeFacts
<1>1. 0 \in T
  <2>1. ASSUME NEW m \in DOMAIN t, Len(m) = 0, IsStrictPrefix(k, m) PROVE FALSE
    <3>1. Len(k) <= 0 /\ k # m /\ m \in Seq(Pieces)
      BY <2>1, <1>0 DEF IsStrictPrefix, IsPrefix
    <3>2. k = <<>> /\ m = <<>>
      BY <2>1, <3>1, <1>0
    <3>3. QED
      BY <3>1, <3>2
  <2>2. QED
    BY <2>1
<1>2. ASSUME NEW n \in T PROVE n + 1 \in T
  <2>1. ASSUME NEW m \in DOMAIN t, Len(m) = n + 1, IsStrictPrefix(k, m)
        PROVE  k \in DOMAIN t /\ t[k].kind = "directory"
    <3>1. m # <<>> /\ m \in Seq(Pieces) /\ Len(k) \in Nat
      BY <2>1, <1>0
    <3>2. /\ Front(m) \in Seq(Pieces) /\ Len(Front(m)) = n
          /\ \A i \in 1 .. n : Front(m)[i] = m[i]
      BY <3>1, <2>1, FrontFacts
    <3>3. Front(m) \in DOMAIN t /\ t[Front(m)].kind = "directory"
      BY <3>1, TreeFacts DEF Above
    <3>4. Len(k) <= Len(m) /\ SubSeq(k, 1, Len(k)) = SubSeq(m, 1, Len(k)) /\ k # m
      BY <2>1 DEF IsStrictPrefix, IsPrefix
    <3>5. \A i \in 1 .. Len(k) : k[i] = m[i]
      <4>1. ASSUME NEW i \in 1 .. Len(k) PROVE k[i] = m[i]
        <5>1. SubSeq(k, 1, Len(k))[i] = k[i] /\ SubSeq(m, 1, Len(k))[i] = m[i]
          BY <4>1, <3>1, <3>4
        <5>2. QED
          BY <5>1, <3>4
      <4>2. QED
        BY <4>1
    <3>6. Len(k) # n + 1
      <4>1. ASSUME Len(k) = n + 1 PROVE k = m
        <5>1. QED
          BY <4>1, <3>1, <3>5, <2>1
      <4>2. QED
        BY <4>1, <3>4
    <3>7. Len(k) <= n
      BY <3>1, <3>4, <3>6, <2>1
    <3>8. CASE k = Front(m)
      BY <3>3, <3>8
    <3>9. CASE k # Front(m)
      <4>1. SubSeq(k, 1, Len(k)) = SubSeq(Front(m), 1, Len(k))
        <5>1. \A i \in 1 .. Len(k) : k[i] = Front(m)[i]
          BY <3>1, <3>2, <3>5, <3>7
        <5>2. QED
          BY <5>1, <3>1, <3>2, <3>7
      <4>2. IsStrictPrefix(k, Front(m))
        BY <4>1, <3>2, <3>7, <3>9 DEF IsStrictPrefix, IsPrefix
      <4>3. QED
        BY <4>2, <3>2, <3>3, <1>2
    <3>10. QED
      BY <3>8, <3>9
  <2>2. QED
    BY <2>1
<1>3. T = Nat
  <2>1. T \in SUBSET Nat
    OBVIOUS
  <2> HIDE DEF T
  <2>2. QED
    BY <1>1, <1>2, <2>1, CountingUp
<1>4. QED
  BY <1>0, <1>3

-----------------------------------------------------------------------------
(* Lookups.                                                                *)

Answers == [is : {"found", "vacant", "missing", "refused", "underway"}, at : Seq(Pieces)]

LEMMA LookingFacts ==
  ASSUME NEW t, IsTree(t), NEW p \in Looking(t)
  PROVE  /\ p.at \in DOMAIN t /\ p.at \in Seq(Pieces) /\ p.rest \in Seq(Pieces)
         /\ p.links \in 0 .. LinkLimit /\ p.links \in Nat /\ LinkLimit \in Nat
         /\ p = Position(p.at, p.rest, p.links)
         /\ p.rest # <<>> => /\ Head(p.rest) \in Pieces /\ Tail(p.rest) \in Seq(Pieces)
                             /\ Len(Tail(p.rest)) = Len(p.rest) - 1 /\ Len(p.rest) \in Nat \ {0}
                             /\ EntryAt(p) \in Seq(Pieces) /\ EntryAt(p) # <<>> /\ Above(EntryAt(p)) = p.at
<1>1. /\ p.at \in DOMAIN t /\ p.rest \in Seq(Pieces) /\ p.links \in 0 .. LinkLimit
      /\ p = Position(p.at, p.rest, p.links)
  BY DEF Looking, Position
<1>2. p.at \in Seq(Pieces) /\ LinkLimit \in Nat
  BY <1>1, TreeFacts, TreesAssumption
<1>3. ASSUME p.rest # <<>>
      PROVE  /\ Head(p.rest) \in Pieces /\ Tail(p.rest) \in Seq(Pieces)
             /\ Len(Tail(p.rest)) = Len(p.rest) - 1 /\ Len(p.rest) \in Nat \ {0}
             /\ EntryAt(p) \in Seq(Pieces) /\ EntryAt(p) # <<>> /\ Above(EntryAt(p)) = p.at
  <2>1. Head(p.rest) \in Pieces /\ Tail(p.rest) \in Seq(Pieces)
             /\ Len(Tail(p.rest)) = Len(p.rest) - 1 /\ Len(p.rest) \in Nat \ {0}
    BY <1>1, <1>3
  <2>2. QED
    BY <2>1, <1>2, AppendFacts DEF EntryAt, Above
<1>4. QED
  BY <1>1, <1>2, <1>3

LEMMA PositionsAreLooked ==
  ASSUME NEW t, NEW at \in DOMAIN t, NEW rest \in Seq(Pieces), NEW links \in 0 .. LinkLimit
  PROVE  Position(at, rest, links) \in Looking(t)
BY DEF Position, Looking

LEMMA VerdictTyped ==
  ASSUME NEW t, IsTree(t), NEW p \in Looking(t), NEW follow
  PROVE  Verdict(t, p, follow) \in Answers
<1>1. p.at \in Seq(Pieces) /\ (p.rest # <<>> => EntryAt(p) \in Seq(Pieces))
  BY LookingFacts
<1>2. \A is \in {"found", "vacant", "missing", "refused", "underway"}, l \in Seq(Pieces) : Answer(is, l) \in Answers
  BY DEF Answer, Answers
<1>3. QED
  BY <1>1, <1>2 DEF Verdict

\* A lookup that goes on has a shorter way to go or a link less to follow.
LEMMA OnwardFacts ==
  ASSUME NEW t, IsTree(t), NEW p \in Looking(t), NEW follow, Verdict(t, p, follow).is = "underway"
  PROVE  /\ Onward(t, p, follow) \in Looking(t) /\ p.rest # <<>> /\ t[p.at].kind = "directory"
         /\ \/ LinkLimit - Onward(t, p, follow).links < LinkLimit - p.links
            \/ /\ Onward(t, p, follow).links = p.links
               /\ Len(Onward(t, p, follow).rest) < Len(p.rest)
         /\ Head(p.rest) \notin {Dot, DotDot} => EntryAt(p) \in DOMAIN t
<1> DEFINE n == Onward(t, p, follow)
<1>0. \A is, l : Answer(is, l).is = is
  BY DEF Answer
<1>1. /\ p.rest # <<>> /\ t[p.at].kind = "directory"
      /\ Head(p.rest) \notin {Dot, DotDot} =>
           EntryAt(p) \in DOMAIN t /\ (Follows(t, p, follow) => p.links # LinkLimit)
  <2>1. p.rest # <<>>
    BY <1>0 DEF Verdict
  <2>2. t[p.at].kind = "directory"
    BY <1>0, <2>1 DEF Verdict
  <2>3. ASSUME Head(p.rest) \notin {Dot, DotDot} PROVE EntryAt(p) \in DOMAIN t
    BY <1>0, <2>1, <2>2, <2>3 DEF Verdict
  <2>4. ASSUME Head(p.rest) \notin {Dot, DotDot}, Follows(t, p, follow) PROVE p.links # LinkLimit
    BY <1>0, <2>1, <2>2, <2>3, <2>4 DEF Verdict
  <2>5. QED
    BY <2>1, <2>2, <2>3, <2>4
<1>2. /\ p.at \in DOMAIN t /\ p.links \in 0 .. LinkLimit /\ LinkLimit \in Nat
      /\ Tail(p.rest) \in Seq(Pieces) /\ Len(Tail(p.rest)) < Len(p.rest)
  BY <1>1, LookingFacts
<1>3. ASSUME NEW at \in DOMAIN t, n = Position(at, Tail(p.rest), p.links)
      PROVE  n \in Looking(t) /\ n.links = p.links /\ Len(n.rest) < Len(p.rest)
  <2>1. Tail(p.rest) \in Seq(Pieces)
    BY <1>2
  <2>2. Position(at, Tail(p.rest), p.links) \in Looking(t)
    BY <1>2, <2>1, PositionsAreLooked
  <2> HIDE DEF n
  <2>3. n.links = p.links /\ n.rest = Tail(p.rest)
    BY <1>3 DEF Position
  <2>4. QED
    BY <1>2, <1>3, <2>2, <2>3
<1>4. CASE Head(p.rest) = Dot
  BY <1>1, <1>2, <1>3, <1>4 DEF Onward
<1>5. CASE Head(p.rest) = DotDot
  <2>1. Above(p.at) \in DOMAIN t
    BY <1>2, TreeFacts
  <2>2. n = Position(Above(p.at), Tail(p.rest), p.links)
    BY <1>5, PieceFacts DEF Onward
  <2>3. QED
    BY <1>1, <1>3, <1>5, <2>1, <2>2
<1>6. CASE Head(p.rest) \notin {Dot, DotDot} /\ ~Follows(t, p, follow)
  BY <1>1, <1>3, <1>6 DEF Onward
<1>7. CASE Head(p.rest) \notin {Dot, DotDot} /\ Follows(t, p, follow)
  <2> DEFINE target == t[EntryAt(p)].target
             from == IF Rooted(target) THEN <<>> ELSE p.at
             rest == Components(target) \o Tail(p.rest)
  <2>1. target \in AllTexts /\ from \in DOMAIN t
    BY <1>1, <1>2, <1>7, TreeFacts
  <2>2. rest \in Seq(Pieces)
    BY <2>1, <1>2, TextFacts, ComponentsTyped, ConcatFacts
  <2>3. p.links + 1 \in 0 .. LinkLimit
    BY <1>1, <1>2, <1>7
  <2>4. n = Position(from, rest, p.links + 1)
    BY <1>7 DEF Onward
  <2> HIDE DEF from, rest, n
  <2>5. n \in Looking(t) /\ n.links = p.links + 1
    BY <2>1, <2>2, <2>3, <2>4, PositionsAreLooked DEF Position
  <2>6. LinkLimit - n.links < LinkLimit - p.links
    BY <2>5, <1>2
  <2>7. QED
    BY <2>5, <2>6, <1>1 DEF n
<1>8. QED
  BY <1>4, <1>5, <1>6, <1>7

\* The function that Seek defines.
LookStep(t, follow) ==
  [f \in [Looking(t) -> Answers] |->
     [p \in Looking(t) |->
        IF Verdict(t, p, follow).is = "underway" THEN f[Onward(t, p, follow)] ELSE Verdict(t, p, follow)]]
LinksLeft(t) == [p \in Looking(t) |-> LinkLimit - p.links]
WayLeft(t) == [p \in Looking(t) |-> Len(p.rest)]
Look(t, follow) ==
  CHOOSE seek : seek = [p \in Looking(t) |->
        IF Verdict(t, p, follow).is = "underway" THEN seek[Onward(t, p, follow)] ELSE Verdict(t, p, follow)]

LEMMA WaysAreMeasured ==
  ASSUME NEW t, IsTree(t)
  PROVE  /\ LinksLeft(t) \in [Looking(t) -> Nat] /\ WayLeft(t) \in [Looking(t) -> Nat]
         /\ \A p \in Looking(t), follow \in BOOLEAN : Verdict(t, p, follow).is = "underway" =>
              /\ Onward(t, p, follow) \in Looking(t)
              /\ Less(LinksLeft(t), WayLeft(t), Onward(t, p, follow), p)
<1>1. \A p \in Looking(t) : LinkLimit - p.links \in Nat /\ Len(p.rest) \in Nat
  <2>1. ASSUME NEW p \in Looking(t) PROVE LinkLimit - p.links \in Nat /\ Len(p.rest) \in Nat
    <3>1. p.links \in 0 .. LinkLimit /\ LinkLimit \in Nat /\ p.rest \in Seq(Pieces)
      BY LookingFacts
    <3>2. QED
      BY <3>1
  <2>2. QED
    BY <2>1
<1>2. LinksLeft(t) \in [Looking(t) -> Nat] /\ WayLeft(t) \in [Looking(t) -> Nat]
  BY <1>1 DEF LinksLeft, WayLeft
<1>3. ASSUME NEW p \in Looking(t), NEW follow \in BOOLEAN, Verdict(t, p, follow).is = "underway"
      PROVE  /\ Onward(t, p, follow) \in Looking(t)
             /\ Less(LinksLeft(t), WayLeft(t), Onward(t, p, follow), p)
  <2> DEFINE n == Onward(t, p, follow)
  <2>1. /\ n \in Looking(t)
        /\ \/ LinkLimit - n.links < LinkLimit - p.links
           \/ n.links = p.links /\ Len(n.rest) < Len(p.rest)
    BY <1>3, OnwardFacts
  <2> HIDE DEF n
  <2>2. \A q \in Looking(t) : LinksLeft(t)[q] = LinkLimit - q.links /\ WayLeft(t)[q] = Len(q.rest)
    BY DEF LinksLeft, WayLeft
  <2>3. Less(LinksLeft(t), WayLeft(t), n, p)
    BY <2>1, <2>2 DEF Less
  <2>4. QED
    BY <2>1, <2>3 DEF n
<1>4. QED
  BY <1>2, <1>3

LEMMA LookIs ==
  ASSUME NEW t, IsTree(t), NEW follow \in BOOLEAN
  PROVE  /\ Look(t, follow) \in [Looking(t) -> Answers]
         /\ \A p \in Looking(t) :
              Look(t, follow)[p] =
                IF Verdict(t, p, follow).is = "underway" THEN Look(t, follow)[Onward(t, p, follow)]
                ELSE Verdict(t, p, follow)
<1> DEFINE S == Looking(t)
           step == LookStep(t, follow)
           At(f, p) == IF Verdict(t, p, follow).is = "underway" THEN f[Onward(t, p, follow)] ELSE Verdict(t, p, follow)
           Fits(f) == f = [p \in S |-> At(f, p)]
           a == LinksLeft(t)
           b == WayLeft(t)
<1>1. \A f \in [S -> Answers], p \in S : At(f, p) \in Answers
  BY VerdictTyped, OnwardFacts
<1>2. \A f \in [S -> Answers] : step[f] = [p \in S |-> At(f, p)]
  BY DEF LookStep
<1>3. step \in [[S -> Answers] -> [S -> Answers]]
  <2> HIDE DEF At
  <2>1. step = [f \in [S -> Answers] |-> [p \in S |-> At(f, p)]]
    BY DEF LookStep, At
  <2> HIDE DEF step
  <2>2. \A f \in [S -> Answers] : [p \in S |-> At(f, p)] \in [S -> Answers]
    BY <1>1
  <2>3. QED
    BY <2>1, <2>2
<1>4. ASSUME NEW f \in [S -> Answers], NEW g \in [S -> Answers], NEW p \in S,
             \A q \in S : Less(a, b, q, p) => f[q] = g[q]
      PROVE  step[f][p] = step[g][p]
  <2>1. At(f, p) = At(g, p)
    BY <1>4, WaysAreMeasured
  <2> HIDE DEF At, step, S
  <2>2. step[f] = [q \in S |-> At(f, q)] /\ step[g] = [q \in S |-> At(g, q)]
    BY <1>2
  <2>3. step[f][p] = At(f, p) /\ step[g][p] = At(g, p)
    BY <2>2
  <2>4. QED
    BY <2>1, <2>3
<1>5. LooksBelow(S, a, b, Answers, step)
  <2>1. a \in [S -> Nat] /\ b \in [S -> Nat]
    BY WaysAreMeasured
  <2> HIDE DEF S, a, b, step
  <2>2. QED
    BY <2>1, <1>3, <1>4 DEF LooksBelow
<1>6. Answers # {}
  <2>1. Answer("found", <<>>) \in Answers
    BY DEF Answer, Answers
  <2>2. QED
    BY <2>1
<1>7. PICK f \in [S -> Answers] : f = step[f]
  <2> HIDE DEF S, a, b, step
  <2> QED
    BY <1>5, <1>6, RecursionHasSolution
<1>8. Fits(f)
  BY <1>2, <1>7
<1>9. Look(t, follow) = CHOOSE g : Fits(g)
  BY DEF Look
<1>10. Fits(Look(t, follow))
  <2> HIDE DEF Fits
  <2> QED
    BY <1>8, <1>9
<1> DEFINE look == Look(t, follow)
<1>11. look = [p \in S |-> At(look, p)]
  BY <1>10
<1> HIDE DEF look
<1>12. \A p \in S : look[p] = At(look, p)
  <2> HIDE DEF At, S
  <2> QED
    BY <1>11
<1>13. look \in [S -> Answers]
  <2> DEFINE T == {p \in S : look[p] \in Answers}
  <2>1. ASSUME NEW p \in S, \A q \in S : Less(a, b, q, p) => q \in T PROVE p \in T
    <3>1. CASE Verdict(t, p, follow).is = "underway"
      <4>1. Onward(t, p, follow) \in T
        BY <2>1, <3>1, WaysAreMeasured
      <4>2. QED
        BY <4>1, <3>1, <1>12
    <3>2. CASE Verdict(t, p, follow).is # "underway"
      BY <3>2, <1>12, VerdictTyped
    <3>3. QED
      BY <3>1, <3>2
  <2>2. T = S
    <3>1. T \in SUBSET S /\ a \in [S -> Nat] /\ b \in [S -> Nat]
      BY WaysAreMeasured
    <3> HIDE DEF T, S, a, b
    <3>2. QED
      BY <2>1, <3>1, MeasureInduction
  <2>3. QED
    <3> HIDE DEF At
    <3> QED
      BY <2>2, <1>11
<1>14. QED
  BY <1>12, <1>13 DEF look

LEMMA SeekIs ==
  ASSUME NEW t, NEW text, NEW follow
  PROVE  Seek(t, text, follow) =
           IF text = EmptyText THEN Answer("missing", <<>>)
           ELSE Look(t, follow)[Position(<<>>, Components(text), 0)]
BY DEF Seek, Look

\* A lookup begins at the root.
LEMMA LookupBegins ==
  ASSUME NEW t, IsTree(t), NEW text \in AllTexts
  PROVE  Position(<<>>, Components(text), 0) \in Looking(t)
<1>1. <<>> \in DOMAIN t /\ Components(text) \in Seq(Pieces) /\ 0 \in 0 .. LinkLimit
  BY TreeFacts, TextFacts, ComponentsTyped, TreesAssumption
<1>2. QED
  BY <1>1, PositionsAreLooked

LEMMA AnswerIs == \A is, l : Answer(is, l).is = is /\ Answer(is, l).at = l
BY DEF Answer

LEMMA PositionIs == \A at, rest, links : /\ Position(at, rest, links).at = at
                                          /\ Position(at, rest, links).rest = rest
                                          /\ Position(at, rest, links).links = links
BY DEF Position

LEMMA NothingLeft == \A s \in Seq(Pieces) : Len(s) = 0 => s = <<>>
OBVIOUS

\* How a lookup can end.
LEMMA VerdictIs ==
  ASSUME NEW t, IsTree(t), NEW p \in Looking(t), NEW follow
  PROVE  LET v == Verdict(t, p, follow) IN
         /\ v.is = "found" <=> p.rest = <<>>
         /\ v.is = "found" => v.at = p.at
         /\ v.is = "vacant" <=> /\ p.rest # <<>> /\ Len(p.rest) = 1 /\ t[p.at].kind = "directory"
                                /\ Head(p.rest) \notin {Dot, DotDot} /\ EntryAt(p) \notin DOMAIN t
         /\ v.is = "vacant" => v.at = EntryAt(p)
         /\ v.is = "underway" <=> /\ p.rest # <<>> /\ t[p.at].kind = "directory"
                                  /\ \/ Head(p.rest) \in {Dot, DotDot}
                                     \/ /\ EntryAt(p) \in DOMAIN t
                                        /\ ~(Follows(t, p, follow) /\ p.links = LinkLimit)
<1> DEFINE v == Verdict(t, p, follow)
<1>1. CASE p.rest = <<>>
  <2>1. v = Answer("found", p.at)
    BY <1>1 DEF Verdict
  <2> HIDE DEF v
  <2>2. v.is = "found" /\ v.at = p.at
    BY <2>1, AnswerIs
  <2>3. QED
    BY <2>2, <1>1 DEF v
<1>2. CASE p.rest # <<>> /\ t[p.at].kind # "directory"
  <2>1. v = Answer("refused", p.at)
    BY <1>2 DEF Verdict
  <2> HIDE DEF v
  <2>2. v.is = "refused"
    BY <2>1, AnswerIs
  <2>3. QED
    BY <2>2, <1>2 DEF v
<1>3. CASE p.rest # <<>> /\ t[p.at].kind = "directory" /\ Head(p.rest) \in {Dot, DotDot}
  <2>1. v = Answer("underway", p.at)
    BY <1>3 DEF Verdict
  <2> HIDE DEF v
  <2>2. v.is = "underway"
    BY <2>1, AnswerIs
  <2>3. QED
    BY <2>2, <1>3 DEF v
<1>4. CASE p.rest # <<>> /\ t[p.at].kind = "directory" /\ Head(p.rest) \notin {Dot, DotDot} /\ EntryAt(p) \notin DOMAIN t
  <2>1. v = Answer(IF Len(p.rest) = 1 THEN "vacant" ELSE "missing", EntryAt(p))
    BY <1>4 DEF Verdict
  <2> HIDE DEF v
  <2>2. v.is = (IF Len(p.rest) = 1 THEN "vacant" ELSE "missing") /\ v.at = EntryAt(p)
    BY <2>1, AnswerIs
  <2>3. QED
    BY <2>2, <1>4 DEF v
<1>5. CASE p.rest # <<>> /\ t[p.at].kind = "directory" /\ Head(p.rest) \notin {Dot, DotDot} /\ EntryAt(p) \in DOMAIN t
  <2>1. v = IF Follows(t, p, follow) /\ p.links = LinkLimit THEN Answer("refused", EntryAt(p)) ELSE Answer("underway", p.at)
    BY <1>5 DEF Verdict
  <2> HIDE DEF v
  <2>2. v.is = IF Follows(t, p, follow) /\ p.links = LinkLimit THEN "refused" ELSE "underway"
    BY <2>1, AnswerIs
  <2>3. QED
    BY <2>2, <1>5 DEF v
<1>6. QED
  BY <1>1, <1>2, <1>3, <1>4, <1>5

\* What is found is there; what is vacant is not, but its directory is.
LEMMA AnswersLead ==
  ASSUME NEW t, IsTree(t), NEW follow \in BOOLEAN, NEW p \in Looking(t)
  PROVE  LET a == Look(t, follow)[p] IN
         /\ a \in Answers
         /\ a.is = "found" => a.at \in DOMAIN t
         /\ a.is = "vacant" => /\ a.at \notin DOMAIN t /\ a.at \in Seq(Pieces) /\ a.at # <<>>
                               /\ Above(a.at) \in DOMAIN t /\ t[Above(a.at)].kind = "directory"
<1> DEFINE a(q) == Look(t, follow)[q]
           Good(q) == /\ a(q).is = "found" => a(q).at \in DOMAIN t
                      /\ a(q).is = "vacant" => /\ a(q).at \notin DOMAIN t /\ a(q).at \in Seq(Pieces) /\ a(q).at # <<>>
                                               /\ Above(a(q).at) \in DOMAIN t /\ t[Above(a(q).at)].kind = "directory"
           T == {q \in Looking(t) : Good(q)}
<1>1. ASSUME NEW q \in Looking(t), \A r \in Looking(t) : Less(LinksLeft(t), WayLeft(t), r, q) => r \in T
      PROVE  q \in T
  <2>1. CASE Verdict(t, q, follow).is = "underway"
    <3>1. Onward(t, q, follow) \in T
      BY <1>1, <2>1, WaysAreMeasured
    <3>2. a(q) = a(Onward(t, q, follow))
      BY <2>1, LookIs
    <3>3. Good(Onward(t, q, follow))
      BY <3>1
    <3> HIDE DEF a
    <3>4. QED
      BY <3>2, <3>3
  <2>2. CASE Verdict(t, q, follow).is # "underway"
    <3> DEFINE v == Verdict(t, q, follow)
    <3>1. a(q) = v
      BY <2>2, LookIs
    <3> HIDE DEF v, a
    <3>2. CASE v.is = "found"
      BY <3>1, <3>2, VerdictIs, LookingFacts DEF v
    <3>3. CASE v.is = "vacant"
      <4>1. /\ v.at = EntryAt(q) /\ EntryAt(q) \notin DOMAIN t /\ t[q.at].kind = "directory" /\ q.rest # <<>>
        BY <3>3, VerdictIs DEF v
      <4>2. EntryAt(q) \in Seq(Pieces) /\ EntryAt(q) # <<>> /\ Above(EntryAt(q)) = q.at /\ q.at \in DOMAIN t
        BY <4>1, LookingFacts
      <4>3. QED
        BY <3>1, <3>3, <4>1, <4>2
    <3>4. QED
      BY <3>1, <3>2, <3>3
  <2>3. QED
    BY <2>1, <2>2
<1>2. T = Looking(t)
  <2>1. T \in SUBSET Looking(t) /\ LinksLeft(t) \in [Looking(t) -> Nat] /\ WayLeft(t) \in [Looking(t) -> Nat]
    BY WaysAreMeasured
  <2> HIDE DEF T
  <2>2. QED
    BY <1>1, <2>1, MeasureInduction
<1>3. a(p) \in Answers
  BY LookIs
<1>4. QED
  BY <1>2, <1>3

\* t2 has what t1 has, and perhaps more.
Extends(t1, t2) == DOMAIN t1 \subseteq DOMAIN t2 /\ \A l \in DOMAIN t1 : t2[l] = t1[l]

LEMMA WiderLooking ==
  ASSUME NEW t1, IsTree(t1), NEW t2, IsTree(t2), Extends(t1, t2), NEW p \in Looking(t1)
  PROVE  /\ p \in Looking(t2)
         /\ \A f \in BOOLEAN : Verdict(t1, p, f).is = "underway" =>
              Verdict(t2, p, f).is = "underway" /\ Onward(t2, p, f) = Onward(t1, p, f)
         /\ Verdict(t1, p, FALSE).is = "underway" /\ Onward(t1, p, FALSE).rest # <<>> =>
              Verdict(t1, p, TRUE).is = "underway" /\ Onward(t1, p, TRUE) = Onward(t1, p, FALSE)
<1>1. p.at \in DOMAIN t1 /\ p \in Looking(t2) /\ t2[p.at] = t1[p.at]
  BY DEF Looking, Extends
<1>2. ASSUME NEW f \in BOOLEAN, Verdict(t1, p, f).is = "underway"
      PROVE  Verdict(t2, p, f).is = "underway" /\ Onward(t2, p, f) = Onward(t1, p, f)
  <2>1. /\ p.rest # <<>> /\ t1[p.at].kind = "directory"
        /\ \/ Head(p.rest) \in {Dot, DotDot}
           \/ EntryAt(p) \in DOMAIN t1 /\ ~(Follows(t1, p, f) /\ p.links = LinkLimit)
    BY <1>2, VerdictIs
  <2>2. Head(p.rest) \notin {Dot, DotDot} => EntryAt(p) \in DOMAIN t2 /\ t2[EntryAt(p)] = t1[EntryAt(p)]
    BY <2>1 DEF Extends
  <2>3. Head(p.rest) \notin {Dot, DotDot} => Follows(t2, p, f) = Follows(t1, p, f)
    BY <2>2 DEF Follows
  <2>4. Verdict(t2, p, f).is = "underway"
    BY <1>1, <2>1, <2>2, <2>3, VerdictIs
  <2>5. Onward(t2, p, f) = Onward(t1, p, f)
    BY <2>2, <2>3 DEF Onward
  <2>6. QED
    BY <2>4, <2>5
<1>3. ASSUME Verdict(t1, p, FALSE).is = "underway", Onward(t1, p, FALSE).rest # <<>>
      PROVE  Verdict(t1, p, TRUE).is = "underway" /\ Onward(t1, p, TRUE) = Onward(t1, p, FALSE)
  <2>1. /\ p.rest # <<>> /\ t1[p.at].kind = "directory"
        /\ \/ Head(p.rest) \in {Dot, DotDot}
           \/ EntryAt(p) \in DOMAIN t1 /\ ~(Follows(t1, p, FALSE) /\ p.links = LinkLimit)
    BY <1>3, VerdictIs
  <2>2. Tail(p.rest) \in Seq(Pieces) /\ Len(Tail(p.rest)) = Len(p.rest) - 1 /\ Len(p.rest) \in Nat \ {0}
    BY <2>1, LookingFacts
  <2>3. ASSUME Head(p.rest) \notin {Dot, DotDot} PROVE Follows(t1, p, TRUE) = Follows(t1, p, FALSE)
    <3>1. CASE Len(p.rest) > 1
      BY <3>1 DEF Follows
    <3>2. CASE ~(Len(p.rest) > 1)
      <4>1. Tail(p.rest) = <<>> /\ ~Follows(t1, p, FALSE)
        BY <3>2, <2>2 DEF Follows
      <4>2. Onward(t1, p, FALSE) = Position(EntryAt(p), Tail(p.rest), p.links)
        BY <2>3, <4>1 DEF Onward
      <4>3. Position(EntryAt(p), Tail(p.rest), p.links).rest = Tail(p.rest)
        BY DEF Position
      <4>4. QED
        BY <4>1, <4>2, <4>3, <1>3
    <3>3. QED
      BY <3>1, <3>2
  <2>4. Verdict(t1, p, TRUE).is = "underway"
    BY <2>1, <2>3, VerdictIs
  <2>5. Onward(t1, p, TRUE) = Onward(t1, p, FALSE)
    BY <2>3 DEF Onward
  <2>6. QED
    BY <2>4, <2>5
<1>4. QED
  BY <1>1, <1>2, <1>3

\* What is found stays where it is when the tree grows.
LEMMA FoundIsKept ==
  ASSUME NEW t1, IsTree(t1), NEW t2, IsTree(t2), Extends(t1, t2), NEW follow \in BOOLEAN,
         NEW p \in Looking(t1), Look(t1, follow)[p].is = "found"
  PROVE  Look(t2, follow)[p] = Look(t1, follow)[p]
<1> DEFINE a(q) == Look(t1, follow)[q]
           b(q) == Look(t2, follow)[q]
           T == {q \in Looking(t1) : a(q).is = "found" => b(q) = a(q)}
<1>1. ASSUME NEW q \in Looking(t1), \A r \in Looking(t1) : Less(LinksLeft(t1), WayLeft(t1), r, q) => r \in T
      PROVE  q \in T
  <2> SUFFICES ASSUME a(q).is = "found" PROVE b(q) = a(q)
    OBVIOUS
  <2>0. q \in Looking(t2)
    BY WiderLooking
  <2>1. CASE Verdict(t1, q, follow).is = "underway"
    <3>1. Onward(t1, q, follow) \in T
      BY <1>1, <2>1, WaysAreMeasured
    <3>2. a(q) = a(Onward(t1, q, follow))
      BY <2>1, LookIs
    <3>3. Verdict(t2, q, follow).is = "underway" /\ Onward(t2, q, follow) = Onward(t1, q, follow)
      BY <2>1, WiderLooking
    <3>4. b(q) = b(Onward(t1, q, follow))
      BY <2>0, <3>3, LookIs
    <3>5. a(Onward(t1, q, follow)).is = "found" => b(Onward(t1, q, follow)) = a(Onward(t1, q, follow))
      BY <3>1
    <3> HIDE DEF a, b
    <3>6. QED
      BY <3>2, <3>4, <3>5
  <2>2. CASE Verdict(t1, q, follow).is # "underway"
    <3>1. a(q) = Verdict(t1, q, follow)
      BY <2>2, LookIs
    <3>2. q.rest = <<>>
      BY <3>1, VerdictIs
    <3>3. Verdict(t1, q, follow) = Answer("found", q.at) /\ Verdict(t2, q, follow) = Answer("found", q.at)
      BY <3>2 DEF Verdict
    <3>4. b(q) = Verdict(t2, q, follow)
      BY <2>0, <3>3, LookIs, AnswerIs
    <3>5. QED
      BY <3>1, <3>3, <3>4
  <2>3. QED
    BY <2>1, <2>2
<1>2. T = Looking(t1)
  <2>1. T \in SUBSET Looking(t1) /\ LinksLeft(t1) \in [Looking(t1) -> Nat] /\ WayLeft(t1) \in [Looking(t1) -> Nat]
    BY WaysAreMeasured
  <2> HIDE DEF T
  <2>2. QED
    BY <1>1, <2>1, MeasureInduction
<1>3. QED
  BY <1>2

\* A lookup that ended at a vacant place finds what is put there, also when it
\* would now follow a link in the last place.
LEMMA VacantIsFilled ==
  ASSUME NEW t1, IsTree(t1), NEW t2, IsTree(t2), Extends(t1, t2),
         NEW follow \in BOOLEAN, NEW further \in BOOLEAN, follow => further,
         NEW p \in Looking(t1), Look(t1, follow)[p].is = "vacant",
         Look(t1, follow)[p].at \in DOMAIN t2,
         further => t2[Look(t1, follow)[p].at].kind # "link"
  PROVE  Look(t2, further)[p] = Answer("found", Look(t1, follow)[p].at)
<1> DEFINE a(q) == Look(t1, follow)[q]
           b(q) == Look(t2, further)[q]
           Fills(q) == /\ a(q).is = "vacant" /\ a(q).at \in DOMAIN t2
                       /\ further => t2[a(q).at].kind # "link"
           T == {q \in Looking(t1) : Fills(q) => b(q) = Answer("found", a(q).at)}
<1>1. ASSUME NEW q \in Looking(t1), \A r \in Looking(t1) : Less(LinksLeft(t1), WayLeft(t1), r, q) => r \in T
      PROVE  q \in T
  <2> SUFFICES ASSUME Fills(q) PROVE b(q) = Answer("found", a(q).at)
    OBVIOUS
  <2>0. q \in Looking(t2)
    BY WiderLooking
  <2>1. CASE Verdict(t1, q, follow).is = "underway"
    <3> DEFINE n == Onward(t1, q, follow)
    <3>1. n \in T /\ n \in Looking(t1)
      BY <1>1, <2>1, WaysAreMeasured
    <3>2. a(q) = a(n)
      BY <2>1, LookIs
    <3>3. Verdict(t1, q, further).is = "underway" /\ Onward(t1, q, further) = n
      <4>1. CASE follow = further
        BY <4>1, <2>1
      <4>2. CASE follow # further
        <5>1. follow = FALSE /\ further = TRUE
          BY <4>2
        <5>2. n.rest # <<>>
          <6> SUFFICES ASSUME n.rest = <<>> PROVE FALSE
            OBVIOUS
          <6>1. Verdict(t1, n, follow) = Answer("found", n.at)
            BY DEF Verdict
          <6> HIDE DEF n
          <6>2. a(n) = Answer("found", n.at)
            BY <6>1, <3>1, LookIs, AnswerIs
          <6> HIDE DEF a
          <6>3. QED
            BY <6>2, <3>2, AnswerIs
        <5>3. QED
          BY <5>1, <5>2, <2>1, WiderLooking
      <4>3. QED
        BY <4>1, <4>2
    <3>4. Verdict(t2, q, further).is = "underway" /\ Onward(t2, q, further) = n
      BY <3>3, WiderLooking
    <3>5. b(q) = b(n)
      BY <2>0, <3>4, LookIs
    <3>6. Fills(n) => b(n) = Answer("found", a(n).at)
      BY <3>1
    <3> HIDE DEF a, b, n
    <3>7. QED
      BY <3>2, <3>5, <3>6
  <2>2. CASE Verdict(t1, q, follow).is # "underway"
    <3> DEFINE l == EntryAt(q)
               m == Position(l, Tail(q.rest), q.links)
    <3>1. a(q) = Verdict(t1, q, follow)
      BY <2>2, LookIs
    <3>2. /\ a(q).at = l /\ q.rest # <<>> /\ Len(q.rest) = 1 /\ t1[q.at].kind = "directory"
          /\ Head(q.rest) \notin {Dot, DotDot}
      BY <3>1, VerdictIs
    <3>3. /\ Tail(q.rest) \in Seq(Pieces) /\ Len(Tail(q.rest)) = 0 /\ q.links \in 0 .. LinkLimit /\ q.at \in DOMAIN t1
      BY <3>2, LookingFacts
    <3>4. Tail(q.rest) = <<>>
      BY <3>3, NothingLeft, Zenon
    <3>5. ~Follows(t2, q, further)
      BY <3>2 DEF Follows
    <3>6. l \in DOMAIN t2 /\ t2[q.at].kind = "directory"
      BY <3>2, <3>3 DEF Extends
    <3>7. Verdict(t2, q, further).is = "underway"
      BY <2>0, <3>2, <3>5, <3>6, VerdictIs
    <3>8. Onward(t2, q, further) = m
      BY <3>2, <3>5 DEF Onward
    <3>9. m \in Looking(t2) /\ m.rest = <<>> /\ m.at = l
      BY <3>3, <3>4, <3>6, PositionsAreLooked DEF Position
    <3> HIDE DEF m, l
    <3>10. Verdict(t2, m, further) = Answer("found", l)
      BY <3>9 DEF Verdict
    <3>11. b(m) = Answer("found", l)
      BY <3>9, <3>10, LookIs, AnswerIs
    <3>12. b(q) = b(m)
      BY <2>0, <3>7, <3>8, LookIs
    <3>13. QED
      BY <3>2, <3>11, <3>12
  <2>3. QED
    BY <2>1, <2>2
<1>2. T = Looking(t1)
  <2>1. T \in SUBSET Looking(t1) /\ LinksLeft(t1) \in [Looking(t1) -> Nat] /\ WayLeft(t1) \in [Looking(t1) -> Nat]
    BY WaysAreMeasured
  <2> HIDE DEF T
  <2>2. QED
    BY <1>1, <2>1, MeasureInduction
<1>3. QED
  BY <1>2

\* What is not there any more is not found.
LEMMA GoneIsNotFound ==
  ASSUME NEW t, IsTree(t), NEW u, IsTree(u), Extends(u, t), NEW follow \in BOOLEAN,
         NEW p \in Looking(u), Look(t, follow)[p].at \notin DOMAIN u
  PROVE  Look(u, follow)[p].is # "found"
<1> SUFFICES ASSUME Look(u, follow)[p].is = "found" PROVE FALSE
  OBVIOUS
<1>1. Look(t, follow)[p] = Look(u, follow)[p]
  BY FoundIsKept
<1>2. Look(u, follow)[p].at \in DOMAIN u
  BY AnswersLead
<1>3. QED
  BY <1>1, <1>2

\* What Seek answers, for texts.
LEMMA SeekTyped ==
  ASSUME NEW t, IsTree(t), NEW text \in AllTexts, NEW follow \in BOOLEAN
  PROVE  LET a == Seek(t, text, follow) IN
         /\ a \in Answers /\ a = Answer(a.is, a.at)
         /\ a.is = "found" => a.at \in DOMAIN t
         /\ a.is = "vacant" => /\ a.at \notin DOMAIN t /\ a.at \in Seq(Pieces) /\ a.at # <<>>
                               /\ Above(a.at) \in DOMAIN t /\ t[Above(a.at)].kind = "directory"
<1> DEFINE p == Position(<<>>, Components(text), 0)
           a == Seek(t, text, follow)
<1>0. \A x \in Answers : x = Answer(x.is, x.at)
  BY DEF Answers, Answer
<1>1. CASE text = EmptyText
  <2>1. a = Answer("missing", <<>>)
    BY <1>1, SeekIs
  <2> HIDE DEF a
  <2>2. a.is = "missing" /\ a \in Answers
    <3>1. Answer("missing", <<>>) \in Answers
      BY DEF Answer, Answers
    <3>2. QED
      BY <2>1, <3>1, AnswerIs
  <2>3. QED
    BY <2>2, <1>0 DEF a
<1>2. CASE text # EmptyText
  <2>1. a = Look(t, follow)[p]
    BY <1>2, SeekIs
  <2>2. p \in Looking(t)
    BY LookupBegins
  <2> HIDE DEF p, a
  <2>3. QED
    BY <2>1, <2>2, <1>0, AnswersLead DEF a
<1>3. QED
  BY <1>1, <1>2

LEMMA SeekKeeps ==
  ASSUME NEW t, IsTree(t), NEW u, IsTree(u), Extends(t, u), NEW text \in AllTexts, NEW follow \in BOOLEAN,
         Seek(t, text, follow).is = "found"
  PROVE  Seek(u, text, follow) = Seek(t, text, follow)
<1> DEFINE p == Position(<<>>, Components(text), 0)
<1>1. text # EmptyText
  BY SeekIs, AnswerIs
<1>2. Seek(t, text, follow) = Look(t, follow)[p] /\ Seek(u, text, follow) = Look(u, follow)[p]
  BY <1>1, SeekIs
<1>3. p \in Looking(t)
  BY LookupBegins
<1> HIDE DEF p
<1>4. QED
  BY <1>2, <1>3, FoundIsKept

LEMMA SeekFinds ==
  ASSUME NEW t, IsTree(t), NEW u, IsTree(u), Extends(t, u), NEW text \in AllTexts,
         NEW follow \in BOOLEAN, NEW further \in BOOLEAN, follow => further,
         Seek(t, text, follow).is = "vacant", Seek(t, text, follow).at \in DOMAIN u,
         further => u[Seek(t, text, follow).at].kind # "link"
  PROVE  Seek(u, text, further) = Answer("found", Seek(t, text, follow).at)
<1> DEFINE p == Position(<<>>, Components(text), 0)
<1>1. text # EmptyText
  BY SeekIs, AnswerIs
<1>2. Seek(t, text, follow) = Look(t, follow)[p] /\ Seek(u, text, further) = Look(u, further)[p]
  BY <1>1, SeekIs
<1>3. p \in Looking(t)
  BY LookupBegins
<1> HIDE DEF p
<1>4. QED
  BY <1>2, <1>3, VacantIsFilled

LEMMA SeekLoses ==
  ASSUME NEW t, IsTree(t), NEW u, IsTree(u), Extends(u, t), NEW text \in AllTexts, NEW follow \in BOOLEAN,
         Seek(t, text, follow).is = "found", Seek(t, text, follow).at \notin DOMAIN u
  PROVE  Seek(u, text, follow).is # "found"
<1> DEFINE p == Position(<<>>, Components(text), 0)
<1>1. text # EmptyText
  BY SeekIs, AnswerIs
<1>2. Seek(t, text, follow) = Look(t, follow)[p] /\ Seek(u, text, follow) = Look(u, follow)[p]
  BY <1>1, SeekIs
<1>3. p \in Looking(u)
  BY LookupBegins
<1> HIDE DEF p
<1>4. QED
  BY <1>2, <1>3, GoneIsNotFound

-----------------------------------------------------------------------------
(* Changes of trees.                                                       *)

LEMMA WithIs ==
  ASSUME NEW t, NEW v, NEW node
  PROVE  With(t, v, node) = [l \in DOMAIN t \cup {v} |-> IF l = v THEN node ELSE t[l]]
BY DEF With

\* A place where something can be made.
Free(t, v) ==
  /\ v \notin DOMAIN t /\ v \in Seq(Pieces) /\ v # <<>>
  /\ Above(v) \in DOMAIN t /\ t[Above(v)].kind = "directory"

LEMMA PlantedTree ==
  ASSUME NEW t, IsTree(t), NEW v, Free(t, v), NEW node \in Nodes
  PROVE  /\ IsTree(With(t, v, node)) /\ Extends(t, With(t, v, node))
         /\ DOMAIN With(t, v, node) = DOMAIN t \cup {v} /\ With(t, v, node)[v] = node
<1> DEFINE u == With(t, v, node)
<1>1. u = [l \in DOMAIN t \cup {v} |-> IF l = v THEN node ELSE t[l]]
  BY WithIs
<1> HIDE DEF u
<1>2. DOMAIN u = DOMAIN t \cup {v} /\ u[v] = node /\ \A l \in DOMAIN t : u[l] = t[l] /\ l # v
  BY <1>1 DEF Free
<1>3. u \in [DOMAIN u -> Nodes]
  <2>1. \A l \in DOMAIN u : u[l] \in Nodes
    BY <1>2, TreeFacts
  <2>2. QED
    BY <1>1, <2>1
<1>4. DOMAIN u \subseteq Seq(Pieces) /\ <<>> \in DOMAIN u /\ u[<<>>] = Directory
  BY <1>2, TreeFacts DEF Free
<1>5. ASSUME NEW l \in DOMAIN u \ {<<>>} PROVE Front(l) \in DOMAIN u /\ u[Front(l)].kind = "directory"
  <2>1. CASE l = v
    BY <2>1, <1>2 DEF Free, Above
  <2>2. CASE l \in DOMAIN t
    <3>1. Front(l) \in DOMAIN t /\ t[Front(l)].kind = "directory"
      BY <2>2, <1>5 DEF IsTree
    <3>2. QED
      BY <3>1, <1>2
  <2>3. QED
    BY <2>1, <2>2, <1>2
<1>6. QED
  BY <1>2, <1>3, <1>4, <1>5 DEF u, IsTree, Extends

LEMMA PrefixIs ==
  ASSUME NEW k \in Seq(Pieces), NEW l \in Seq(Pieces)
  PROVE  IsPrefix(k, l) <=> Len(k) <= Len(l) /\ \A i \in 1 .. Len(k) : k[i] = l[i]
<1>1. Len(k) \in Nat /\ Len(l) \in Nat
  OBVIOUS
<1>2. ASSUME Len(k) <= Len(l)
      PROVE  SubSeq(k, 1, Len(k)) = SubSeq(l, 1, Len(k)) <=> \A i \in 1 .. Len(k) : k[i] = l[i]
  <2>1. \A i \in 1 .. Len(k) : SubSeq(k, 1, Len(k))[i] = k[i] /\ SubSeq(l, 1, Len(k))[i] = l[i]
    BY <1>1, <1>2
  <2>2. ASSUME SubSeq(k, 1, Len(k)) = SubSeq(l, 1, Len(k)) PROVE \A i \in 1 .. Len(k) : k[i] = l[i]
    BY <2>1, <2>2
  <2>3. ASSUME \A i \in 1 .. Len(k) : k[i] = l[i] PROVE SubSeq(k, 1, Len(k)) = SubSeq(l, 1, Len(k))
    BY <2>3, <1>1, <1>2
  <2>4. QED
    BY <2>2, <2>3
<1>3. QED
  BY <1>2 DEF IsPrefix

LEMMA FrontIsPrefix ==
  ASSUME NEW l \in Seq(Pieces), l # <<>>
  PROVE  /\ Front(l) \in Seq(Pieces) /\ IsStrictPrefix(Front(l), l)
         /\ \A k \in Seq(Pieces) : IsPrefix(k, Front(l)) => IsStrictPrefix(k, l)
         /\ \A k \in Seq(Pieces) : IsStrictPrefix(k, l) => IsPrefix(k, Front(l))
<1> DEFINE f == Front(l)
<1>1. /\ f \in Seq(Pieces) /\ Len(f) = Len(l) - 1 /\ Len(l) \in Nat \ {0}
      /\ \A i \in 1 .. Len(l) - 1 : f[i] = l[i]
  BY FrontFacts
<1> HIDE DEF f
<1>2. ASSUME NEW k \in Seq(Pieces), IsPrefix(k, f) PROVE IsStrictPrefix(k, l)
  <2>1. Len(k) \in Nat /\ Len(k) <= Len(f) /\ \A i \in 1 .. Len(k) : k[i] = f[i]
    BY <1>1, <1>2, PrefixIs
  <2>2. Len(k) <= Len(l) /\ \A i \in 1 .. Len(k) : k[i] = l[i]
    BY <1>1, <2>1
  <2>3. k # l
    BY <1>1, <2>1
  <2>4. QED
    BY <2>2, <2>3, PrefixIs DEF IsStrictPrefix
<1>3. IsPrefix(f, f)
  BY <1>1, PrefixIs
<1>4. ASSUME NEW k \in Seq(Pieces), IsStrictPrefix(k, l) PROVE IsPrefix(k, f)
  <2>1. Len(k) \in Nat /\ Len(k) <= Len(l) /\ (\A i \in 1 .. Len(k) : k[i] = l[i]) /\ k # l
    BY <1>4, PrefixIs DEF IsStrictPrefix
  <2>2. Len(k) # Len(l)
    <3> SUFFICES ASSUME Len(k) = Len(l) PROVE k = l
      BY <2>1
    <3>1. QED
      BY <2>1
  <2>3. Len(k) <= Len(f) /\ \A i \in 1 .. Len(k) : k[i] = f[i]
    BY <1>1, <2>1, <2>2
  <2>4. QED
    BY <1>1, <2>3, PrefixIs
<1>5. QED
  BY <1>1, <1>2, <1>3, <1>4 DEF f

\* What is left of a tree without what is below f, and without a leaf g.
LEMMA PrunedTree ==
  ASSUME NEW t, IsTree(t), NEW f \in DOMAIN t, f # <<>>, NEW g, g # <<>>,
         g = f \/ g \notin DOMAIN t \/ t[g].kind # "directory"
  PROVE  LET left == Without(t, {f, g} \cup Within(t, f)) IN
         /\ IsTree(left) /\ Extends(left, t)
         /\ \A l \in DOMAIN t : l \in DOMAIN left <=> l # g /\ ~IsPrefix(f, l)
<1> DEFINE gone == {f, g} \cup Within(t, f)
           left == Without(t, gone)
<1>1. left = [l \in DOMAIN t \ gone |-> t[l]]
  BY DEF Without
<1> HIDE DEF left
<1>2. DOMAIN left = DOMAIN t \ gone /\ \A l \in DOMAIN left : left[l] = t[l] /\ l \in DOMAIN t
  BY <1>1
<1>3. \A l \in DOMAIN t : l \in gone <=> l = g \/ IsPrefix(f, l)
  <2>1. f \in Seq(Pieces)
    BY TreeFacts
  <2>2. IsPrefix(f, f)
    BY <2>1, PrefixIs
  <2>3. QED
    BY <2>2 DEF Within, IsStrictPrefix
<1>4. left \in [DOMAIN left -> Nodes]
  <2>1. \A l \in DOMAIN left : left[l] \in Nodes
    BY <1>2, TreeFacts
  <2>2. QED
    BY <1>1, <2>1
<1>5. DOMAIN left \subseteq Seq(Pieces) /\ <<>> \in DOMAIN left /\ left[<<>>] = Directory
  <2>1. ~IsPrefix(f, <<>>)
    <3> SUFFICES ASSUME IsPrefix(f, <<>>) PROVE FALSE
      OBVIOUS
    <3> DEFINE none == <<>>
    <3>1. f \in Seq(Pieces) /\ none \in Seq(Pieces) /\ Len(none) = 0 /\ IsPrefix(f, none)
      BY TreeFacts
    <3> HIDE DEF none
    <3>2. Len(f) <= Len(none) /\ Len(f) \in Nat
      BY <3>1 DEF IsPrefix
    <3>3. f = <<>>
      BY <3>1, <3>2
    <3>4. QED
      BY <3>3
  <2>2. QED
    BY <2>1, <1>2, <1>3, TreeFacts
<1>6. ASSUME NEW l \in DOMAIN left \ {<<>>} PROVE Front(l) \in DOMAIN left /\ left[Front(l)].kind = "directory"
  <2>1. l \in DOMAIN t /\ l # g /\ ~IsPrefix(f, l) /\ l \in Seq(Pieces) /\ f \in Seq(Pieces)
    BY <1>2, <1>3, TreeFacts
  <2>2. Front(l) \in DOMAIN t /\ t[Front(l)].kind = "directory"
    BY <2>1, <1>6 DEF IsTree
  <2>3. ~IsPrefix(f, Front(l))
    BY <2>1, <1>6, FrontIsPrefix DEF IsStrictPrefix
  <2>4. Front(l) # g
    <3>1. CASE g = f
      <4>1. IsPrefix(f, f)
        BY <2>1, PrefixIs
      <4>2. QED
        BY <3>1, <4>1, <2>3
    <3>2. CASE g # f
      BY <3>2, <2>2
    <3>3. QED
      BY <3>1, <3>2
  <2>5. QED
    BY <2>2, <2>3, <2>4, <1>2, <1>3
<1>7. IsTree(left)
  BY <1>4, <1>5, <1>6 DEF IsTree
<1>8. Extends(left, t)
  BY <1>2 DEF Extends
<1>9. \A l \in DOMAIN t : l \in DOMAIN left <=> l # g /\ ~IsPrefix(f, l)
  BY <1>2, <1>3
<1>10. QED
  BY <1>7, <1>8, <1>9 DEF left

\* Where what lies at m, at or below f, comes to lie when f becomes g.
Lands(f, g, m) == g \o SubSeq(m, Len(f) + 1, Len(m))

LEMMA LandingFacts ==
  ASSUME NEW f \in Seq(Pieces), NEW g \in Seq(Pieces), NEW m \in Seq(Pieces), IsPrefix(f, m)
  PROVE  /\ Lands(f, g, m) \in Seq(Pieces)
         /\ Len(Lands(f, g, m)) = Len(g) + Len(m) - Len(f)
         /\ Len(f) \in Nat /\ Len(g) \in Nat /\ Len(m) \in Nat /\ Len(f) <= Len(m)
         /\ \A i \in 1 .. Len(g) : Lands(f, g, m)[i] = g[i]
         /\ \A i \in 1 .. Len(m) - Len(f) : Lands(f, g, m)[Len(g) + i] = m[Len(f) + i]
<1> DEFINE rest == SubSeq(m, Len(f) + 1, Len(m))
<1>1. Len(f) \in Nat /\ Len(g) \in Nat /\ Len(m) \in Nat /\ Len(f) <= Len(m)
  BY PrefixIs
<1>2. rest \in Seq(Pieces) /\ Len(rest) = Len(m) - Len(f)
  BY <1>1
<1>3. \A i \in 1 .. Len(m) - Len(f) : rest[i] = m[Len(f) + i]
  BY <1>1
<1> HIDE DEF rest
<1>4. /\ g \o rest \in Seq(Pieces) /\ Len(g \o rest) = Len(g) + Len(rest)
      /\ \A i \in 1 .. Len(g) : (g \o rest)[i] = g[i]
      /\ \A i \in 1 .. Len(rest) : (g \o rest)[Len(g) + i] = rest[i]
  <2> DEFINE s == g \o rest
  <2>1. /\ s \in Seq(Pieces) /\ Len(s) = Len(g) + Len(rest) /\ Len(rest) \in Nat
        /\ \A i \in 1 .. Len(g) + Len(rest) : s[i] = IF i <= Len(g) THEN g[i] ELSE rest[i - Len(g)]
    <3>1. g \in Seq(Pieces) /\ rest \in Seq(Pieces) /\ Len(rest) \in Nat
      BY <1>2
    <3>2. QED
      BY <3>1, ConcatProperties
  <2> HIDE DEF s
  <2>2. ASSUME NEW i \in 1 .. Len(g) PROVE s[i] = g[i]
    <3>1. i \in 1 .. Len(g) + Len(rest) /\ i <= Len(g)
      BY <2>1, <1>1
    <3>2. QED
      BY <3>1, <2>1
  <2>3. ASSUME NEW i \in 1 .. Len(rest) PROVE s[Len(g) + i] = rest[i]
    <3> DEFINE j == Len(g) + i
    <3>1. j \in 1 .. Len(g) + Len(rest) /\ ~(j <= Len(g)) /\ j - Len(g) = i
      BY <2>1, <1>1
    <3> HIDE DEF j
    <3>2. s[j] = rest[i]
      BY <2>1, <3>1
    <3>3. QED
      BY <3>2 DEF j
  <2>4. QED
    BY <2>1, <2>2, <2>3 DEF s
<1>5. Lands(f, g, m) = g \o rest
  BY DEF Lands, rest
<1>6. QED
  BY <1>1, <1>2, <1>3, <1>4, <1>5

LEMMA LandsAtFirst ==
  ASSUME NEW f \in Seq(Pieces), NEW g \in Seq(Pieces)
  PROVE  IsPrefix(f, f) /\ Lands(f, g, f) = g
<1>1. IsPrefix(f, f)
  BY PrefixIs
<1> DEFINE l == Lands(f, g, f)
<1>2. l \in Seq(Pieces) /\ Len(l) = Len(g) /\ \A i \in 1 .. Len(g) : l[i] = g[i]
  BY <1>1, LandingFacts
<1> HIDE DEF l
<1>3. l = g
  BY <1>2, SeqEqual
<1>4. QED
  BY <1>1, <1>3 DEF l

LEMMA LandsOnce ==
  ASSUME NEW f \in Seq(Pieces), NEW g \in Seq(Pieces), NEW m \in Seq(Pieces), NEW n \in Seq(Pieces),
         IsPrefix(f, m), IsPrefix(f, n), Lands(f, g, m) = Lands(f, g, n)
  PROVE  m = n
<1>1. /\ Len(f) \in Nat /\ Len(m) \in Nat /\ Len(n) \in Nat /\ Len(g) \in Nat /\ Len(f) <= Len(m)
      /\ \A i \in 1 .. Len(m) - Len(f) : m[Len(f) + i] = Lands(f, g, m)[Len(g) + i]
      /\ \A i \in 1 .. Len(n) - Len(f) : n[Len(f) + i] = Lands(f, g, m)[Len(g) + i]
      /\ Len(Lands(f, g, m)) = Len(g) + Len(m) - Len(f)
      /\ Len(Lands(f, g, m)) = Len(g) + Len(n) - Len(f)
  <2>1. /\ Len(f) \in Nat /\ Len(m) \in Nat /\ Len(g) \in Nat /\ Len(f) <= Len(m)
        /\ \A i \in 1 .. Len(m) - Len(f) : Lands(f, g, m)[Len(g) + i] = m[Len(f) + i]
        /\ Len(Lands(f, g, m)) = Len(g) + Len(m) - Len(f)
    BY LandingFacts
  <2>2. /\ Len(n) \in Nat
        /\ \A i \in 1 .. Len(n) - Len(f) : Lands(f, g, n)[Len(g) + i] = n[Len(f) + i]
        /\ Len(Lands(f, g, n)) = Len(g) + Len(n) - Len(f)
    BY LandingFacts
  <2> DEFINE l == Lands(f, g, m)
  <2>3. l = Lands(f, g, n)
    OBVIOUS
  <2> HIDE DEF l
  <2>4. QED
    BY <2>1, <2>2, <2>3 DEF l
<1>2. Len(m) = Len(n)
  BY <1>1
<1>3. /\ \A i \in 1 .. Len(f) : f[i] = m[i]
      /\ \A i \in 1 .. Len(f) : f[i] = n[i]
  BY PrefixIs
<1>4. ASSUME NEW i \in 1 .. Len(m) PROVE m[i] = n[i]
  <2>1. CASE i <= Len(f)
    <3>1. i \in 1 .. Len(f)
      BY <1>1, <2>1
    <3>2. QED
      BY <3>1, <1>3
  <2>2. CASE i > Len(f)
    <3> DEFINE j == i - Len(f)
    <3>1. j \in 1 .. Len(m) - Len(f) /\ Len(f) + j = i
      BY <1>1, <2>2
    <3> HIDE DEF j
    <3>2. m[Len(f) + j] = n[Len(f) + j]
      BY <1>1, <1>2, <3>1
    <3>3. QED
      BY <3>1, <3>2
  <2>3. QED
    BY <1>1, <2>1, <2>2
<1>5. QED
  BY <1>2, <1>4, SeqEqual

LEMMA LandsBelow ==
  ASSUME NEW f \in Seq(Pieces), NEW g \in Seq(Pieces), NEW m \in Seq(Pieces), IsStrictPrefix(f, m)
  PROVE  /\ m # <<>> /\ Front(m) \in Seq(Pieces) /\ IsPrefix(f, Front(m))
         /\ IsStrictPrefix(g, Lands(f, g, m)) /\ Lands(f, g, m) # <<>>
         /\ Front(Lands(f, g, m)) = Lands(f, g, Front(m))
<1> DEFINE l == Lands(f, g, m)
           a == Len(f)
           b == Len(g)
           c == Len(m)
           h == Front(m)
           k == Lands(f, g, h)
<1>1. IsPrefix(f, m) /\ f # m
  BY DEF IsStrictPrefix
<1>2. /\ l \in Seq(Pieces) /\ Len(l) = b + c - a /\ a \in Nat /\ b \in Nat /\ c \in Nat /\ a <= c
      /\ \A i \in 1 .. b : l[i] = g[i]
      /\ \A i \in 1 .. c - a : l[b + i] = m[a + i]
  BY <1>1, LandingFacts
<1>3. a < c
  <2>1. \A i \in 1 .. a : f[i] = m[i]
    BY <1>1, PrefixIs
  <2>2. a # c
    <3> SUFFICES ASSUME a = c PROVE f = m
      BY <1>1
    <3>1. QED
      BY <2>1
  <2>3. QED
    BY <1>2, <2>2
<1>4. m # <<>>
  <2> SUFFICES ASSUME m = <<>> PROVE FALSE
    OBVIOUS
  <2>1. Len(m) = 0
    OBVIOUS
  <2>2. QED
    BY <2>1, <1>2, <1>3
<1>5. /\ h \in Seq(Pieces) /\ Len(h) = c - 1 /\ IsPrefix(f, h)
      /\ \A i \in 1 .. c - 1 : h[i] = m[i]
  BY <1>4, FrontFacts, FrontIsPrefix
<1> HIDE DEF h
<1>6. /\ k \in Seq(Pieces) /\ Len(k) = b + (c - 1) - a
      /\ \A i \in 1 .. b : k[i] = g[i]
      /\ \A i \in 1 .. (c - 1) - a : k[b + i] = h[a + i]
  <2>1. /\ k \in Seq(Pieces) /\ Len(k) = b + Len(h) - a
        /\ \A i \in 1 .. b : k[i] = g[i]
        /\ \A i \in 1 .. Len(h) - a : k[b + i] = h[a + i]
    BY <1>5, LandingFacts
  <2> HIDE DEF k
  <2>2. QED
    BY <2>1, <1>5
<1> HIDE DEF k, l
<1>7. l # <<>> /\ l # g /\ b <= Len(l)
  <2>1. Len(l) # b /\ b <= Len(l)
    BY <1>2, <1>3
  <2>2. Len(l) # 0
    BY <1>2, <1>3
  <2>3. QED
    BY <2>1, <2>2
<1>8. IsStrictPrefix(g, l)
  <2>1. IsPrefix(g, l)
    BY <1>2, <1>7, PrefixIs
  <2>2. QED
    BY <2>1, <1>7 DEF IsStrictPrefix
<1>9. Front(l) = k
  <2> DEFINE e == Front(l)
  <2>1. /\ e \in Seq(Pieces) /\ Len(e) = Len(l) - 1 /\ \A i \in 1 .. Len(l) - 1 : e[i] = l[i]
    BY <1>2, <1>7, FrontFacts
  <2> HIDE DEF e
  <2>2. Len(e) = Len(k)
    BY <2>1, <1>2, <1>6
  <2>3. ASSUME NEW i \in 1 .. Len(k) PROVE e[i] = k[i]
    <3>0. i \in Nat \ {0} /\ i <= b + (c - 1) - a /\ e[i] = l[i]
      BY <2>1, <1>2, <1>6
    <3>1. CASE i <= b
      <4>1. i \in 1 .. b
        BY <3>0, <3>1, <1>2
      <4>2. QED
        BY <4>1, <3>0, <1>2, <1>6
    <3>2. CASE i > b
      <4> DEFINE j == i - b
      <4>1. j \in 1 .. (c - 1) - a /\ j \in 1 .. c - a /\ b + j = i /\ a + j \in 1 .. c - 1
        BY <3>0, <3>2, <1>2
      <4> HIDE DEF j
      <4>2. k[b + j] = h[a + j] /\ l[b + j] = m[a + j] /\ h[a + j] = m[a + j]
        BY <4>1, <1>2, <1>5, <1>6
      <4>3. QED
        BY <4>1, <4>2, <3>0
    <3>3. QED
      BY <3>0, <3>1, <3>2, <1>2
  <2>4. e = k
    BY <2>1, <2>2, <2>3, <1>6, SeqEqual
  <2>5. QED
    BY <2>4 DEF e
<1>10. QED
  BY <1>4, <1>5, <1>7, <1>8, <1>9 DEF l, k, h

\* What a rename makes of a tree.
LEMMA MovedTree ==
  ASSUME NEW t, IsTree(t), NEW f \in DOMAIN t, f # <<>>, NEW g \in Seq(Pieces), g # <<>>,
         ~IsPrefix(f, g), Above(g) \in DOMAIN t, t[Above(g)].kind = "directory",
         g \notin DOMAIN t \/ t[g].kind # "directory"
  PROVE  LET left == Without(t, {f, g} \cup Within(t, f)) IN
         /\ IsTree(Moved(t, f, g)) /\ IsTree(left) /\ Extends(left, Moved(t, f, g))
         /\ g \in DOMAIN Moved(t, f, g)
<1> DEFINE moving == {f} \cup Within(t, f)
           left == Without(t, {f, g} \cup Within(t, f))
           landed == {Lands(f, g, m) : m \in moving}
           u == Moved(t, f, g)
           Whence(l) == CHOOSE m \in moving : Lands(f, g, m) = l
<1>1. u = [l \in DOMAIN left \cup landed |-> IF l \in DOMAIN left THEN left[l] ELSE t[Whence(l)]]
  <2>1. moving \cup {g} = {f, g} \cup Within(t, f)
    OBVIOUS
  <2>2. Moved(t, f, g) =
          [l \in DOMAIN Without(t, moving \cup {g}) \cup landed |->
             IF l \in DOMAIN Without(t, moving \cup {g}) THEN Without(t, moving \cup {g})[l] ELSE t[Whence(l)]]
    BY DEF Moved, Lands
  <2> HIDE DEF moving, landed, Whence
  <2>3. QED
    BY <2>1, <2>2
<1>2. /\ IsTree(left) /\ Extends(left, t)
      /\ \A l \in DOMAIN t : l \in DOMAIN left <=> l # g /\ ~IsPrefix(f, l)
  BY PrunedTree
<1>3. f \in Seq(Pieces) /\ \A l \in DOMAIN t : l \in Seq(Pieces)
  BY TreeFacts
<1>4. \A m \in moving : m \in DOMAIN t /\ m \in Seq(Pieces) /\ IsPrefix(f, m) /\ (m # f => IsStrictPrefix(f, m))
  BY <1>3, LandsAtFirst DEF Within, IsStrictPrefix
<1>5. \A m \in DOMAIN t : IsPrefix(f, m) => m \in moving
  BY DEF Within, IsStrictPrefix
<1> HIDE DEF moving, u, left
<1>6. f \in moving /\ Lands(f, g, f) = g /\ IsPrefix(f, f)
  BY <1>3, <1>5, LandsAtFirst
<1>7. ASSUME NEW m \in moving PROVE Lands(f, g, m) \in Seq(Pieces) /\ Lands(f, g, m) \notin DOMAIN left
  <2>1. Lands(f, g, m) \in Seq(Pieces)
    BY <1>3, <1>4, LandingFacts
  <2>2. CASE m = f
    BY <2>1, <2>2, <1>2, <1>6 DEF Extends
  <2>3. CASE m # f
    <3>1. IsStrictPrefix(g, Lands(f, g, m))
      BY <2>3, <1>3, <1>4, LandsBelow
    <3>2. ASSUME Lands(f, g, m) \in DOMAIN t PROVE FALSE
      BY <3>1, <3>2, InnerAreDirectories
    <3>3. QED
      BY <2>1, <3>2, <1>2 DEF Extends
  <2>4. QED
    BY <2>2, <2>3
<1>8. ASSUME NEW m \in moving PROVE Whence(Lands(f, g, m)) = m
  <2>1. \A n \in moving : Lands(f, g, n) = Lands(f, g, m) => n = m
    BY <1>3, <1>4, LandsOnce
  <2>2. QED
    BY <2>1
<1> HIDE DEF Whence
<1>9. /\ DOMAIN u = DOMAIN left \cup landed
      /\ \A l \in DOMAIN left : u[l] = left[l]
  BY <1>1
<1>10. \A m \in moving : Lands(f, g, m) \in DOMAIN u /\ u[Lands(f, g, m)] = t[m]
  BY <1>1, <1>7, <1>8
<1>11. u \in [DOMAIN u -> Nodes]
  <2>1. ASSUME NEW l \in DOMAIN u PROVE u[l] \in Nodes
    <3>1. CASE l \in DOMAIN left
      BY <3>1, <1>2, <1>9, TreeFacts
    <3>2. CASE l \in landed
      <4>1. PICK m \in moving : l = Lands(f, g, m)
        BY <3>2
      <4>2. u[l] = t[m] /\ m \in DOMAIN t
        BY <4>1, <1>4, <1>10
      <4>3. QED
        BY <4>2, TreeFacts
    <3>3. QED
      BY <3>1, <3>2, <1>9
  <2> HIDE DEF landed
  <2>2. QED
    BY <1>1, <2>1
<1>12. DOMAIN u \subseteq Seq(Pieces) /\ <<>> \in DOMAIN u /\ u[<<>>] = Directory
  <2>1. DOMAIN left \subseteq Seq(Pieces) /\ <<>> \in DOMAIN left /\ left[<<>>] = Directory
    BY <1>2, TreeFacts
  <2>2. landed \subseteq Seq(Pieces)
    BY <1>7
  <2>3. QED
    BY <2>1, <2>2, <1>9
<1>13. ASSUME NEW l \in DOMAIN u \ {<<>>} PROVE Front(l) \in DOMAIN u /\ u[Front(l)].kind = "directory"
  <2>1. CASE l \in DOMAIN left
    <3>1. Front(l) \in DOMAIN left /\ left[Front(l)].kind = "directory"
      BY <2>1, <1>2, <1>13 DEF IsTree
    <3>2. QED
      BY <3>1, <1>9
  <2>2. CASE l = g
    <3>1. Front(g) \in DOMAIN t /\ t[Front(g)].kind = "directory"
      BY DEF Above
    <3>2. ~IsPrefix(f, Front(g)) /\ Front(g) # g
      BY <1>3, FrontIsPrefix DEF IsStrictPrefix
    <3>3. Front(g) \in DOMAIN left /\ left[Front(g)] = t[Front(g)]
      BY <3>1, <3>2, <1>2 DEF Extends
    <3>4. QED
      BY <2>2, <3>1, <3>3, <1>9
  <2>3. CASE l \in landed /\ l # g
    <3>1. PICK m \in moving : l = Lands(f, g, m)
      BY <2>3
    <3>2. m # f
      BY <3>1, <2>3, <1>6
    <3>3. m # <<>> /\ IsPrefix(f, Front(m)) /\ Front(l) = Lands(f, g, Front(m))
      BY <3>1, <3>2, <1>3, <1>4, LandsBelow
    <3>4. Front(m) \in DOMAIN t /\ t[Front(m)].kind = "directory"
      BY <3>3, <1>4 DEF IsTree
    <3>5. QED
      BY <3>3, <3>4, <1>5, <1>10
  <2>4. QED
    BY <2>1, <2>2, <2>3, <1>9
<1>14. IsTree(u)
  BY <1>11, <1>12, <1>13 DEF IsTree
<1>15. Extends(left, u)
  BY <1>9 DEF Extends
<1>16. g \in DOMAIN u
  BY <1>6, <1>10
<1>17. QED
  BY <1>2, <1>14, <1>15, <1>16 DEF u, left

-----------------------------------------------------------------------------
(* What the calls leave.                                                   *)

LEMMA NodesAre ==
  /\ Directory \in Nodes /\ File \in Nodes /\ \A text \in AllTexts : LinkTo(text) \in Nodes
  /\ Directory.kind = "directory" /\ File.kind = "file"
BY EmptyTextFacts DEF Nodes, Directory, File, LinkTo

LEMMA NothingChanged == \A t : Extends(t, t)
BY DEF Extends

\* What is created is there, and is all that changes.
LEMMA CreateMakes ==
  ASSUME NEW t, IsTree(t), NEW text \in AllTexts, NEW follow \in BOOLEAN, NEW further \in BOOLEAN,
         follow => further, NEW node \in Nodes, further => node.kind # "link",
         NEW u \in Create(t, Seek(t, text, follow), node)
  PROVE  /\ IsTree(u) /\ Extends(t, u)
         /\ Seek(u, text, further).is = "found"
         /\ u[Seek(u, text, further).at] = node
<1> DEFINE found == Seek(t, text, follow)
           l == found.at
<1>1. found.is = "vacant" /\ u = With(t, l, node)
  BY DEF Create
<1>2. Free(t, l)
  BY <1>1, SeekTyped DEF Free
<1>3. IsTree(u) /\ Extends(t, u) /\ l \in DOMAIN u /\ u[l] = node
  <2> HIDE DEF l
  <2>1. IsTree(With(t, l, node)) /\ Extends(t, With(t, l, node)) /\ DOMAIN With(t, l, node) = DOMAIN t \cup {l}
        /\ With(t, l, node)[l] = node
    BY <1>2, PlantedTree, Zenon
  <2>2. QED
    BY <1>1, <2>1
<1>4. Seek(u, text, further) = Answer("found", l)
  <2>1. further => u[l].kind # "link"
    BY <1>3
  <2> HIDE DEF l
  <2>2. l = Seek(t, text, follow).at
    BY DEF l
  <2>3. QED
    BY <1>1, <1>3, <2>1, <2>2, SeekFinds
<1>5. QED
  BY <1>3, <1>4, AnswerIs

\* Found again as it was looked for, links not followed; then followed.
LEMMA CreatedIsThere ==
  ASSUME NEW t, IsTree(t), NEW text \in AllTexts, NEW node \in Nodes,
         NEW u \in Create(t, Lstat(t, text), node)
  PROVE  /\ IsTree(u) /\ Extends(t, u)
         /\ Lstat(u, text).is = "found" /\ u[Lstat(u, text).at] = node
<1> DEFINE no == FALSE
<1>1. no \in BOOLEAN /\ (no => node.kind # "link")
  OBVIOUS
<1>2. Lstat(t, text) = Seek(t, text, no) /\ Lstat(u, text) = Seek(u, text, no)
  BY DEF Lstat
<1> HIDE DEF no
<1>3. QED
  BY <1>1, <1>2, CreateMakes

LEMMA CreatedIsReached ==
  ASSUME NEW t, IsTree(t), NEW text \in AllTexts, NEW node \in Nodes, node.kind # "link",
         NEW u \in Create(t, Lstat(t, text), node) \cup Create(t, Stat(t, text), node)
  PROVE  /\ IsTree(u) /\ Extends(t, u)
         /\ Stat(u, text).is = "found" /\ u[Stat(u, text).at] = node
<1> DEFINE no == FALSE
           yes == TRUE
<1>1. no \in BOOLEAN /\ yes \in BOOLEAN /\ (no => yes)
  OBVIOUS
<1>2. Lstat(t, text) = Seek(t, text, no) /\ Stat(t, text) = Seek(t, text, yes) /\ Stat(u, text) = Seek(u, text, yes)
  BY DEF Lstat, Stat
<1> HIDE DEF no, yes
<1>3. CASE u \in Create(t, Lstat(t, text), node)
  BY <1>1, <1>2, <1>3, CreateMakes
<1>4. CASE u \in Create(t, Stat(t, text), node)
  BY <1>1, <1>2, <1>4, CreateMakes
<1>5. QED
  BY <1>3, <1>4

LEMMA MkdirMakes ==
  ASSUME NEW t, IsTree(t), NEW text \in AllTexts, NEW existOk \in BOOLEAN, NEW u \in Mkdir(t, text, existOk)
  PROVE  /\ IsTree(u) /\ Extends(t, u)
         /\ Lstat(u, text).is = "found" /\ (~existOk => IsDir(u, text))
<1>1. CASE u \in Create(t, Lstat(t, text), Directory)
  <2>1. IsTree(u) /\ Extends(t, u) /\ Lstat(u, text).is = "found"
    BY <1>1, NodesAre, CreatedIsThere
  <2>2. Directory.kind # "link"
    BY NodesAre
  <2>3. Stat(u, text).is = "found" /\ u[Stat(u, text).at] = Directory
    BY <1>1, <2>2, NodesAre, CreatedIsReached
  <2>4. QED
    BY <2>1, <2>3, NodesAre DEF IsDir, Exists
<1>2. CASE existOk /\ Lstat(t, text).is = "found" /\ u = t
  BY <1>2, NothingChanged
<1>3. QED
  BY <1>1, <1>2 DEF Mkdir

-----------------------------------------------------------------------------
(* MkdirAll goes up as far as something exists, and down again.            *)

LEMMA RootExists ==
  ASSUME NEW t, IsTree(t), NEW text \in {Root, Current}
  PROVE  Exists(t, text)
<1>1. <<>> \in DOMAIN t /\ t[<<>>].kind = "directory" /\ 0 \in 0 .. LinkLimit
  BY TreeFacts, NodesAre, TreesAssumption
<1> DEFINE none == <<>>
           q == Position(none, none, 0)
<1>2. q \in Looking(t) /\ q.at = none /\ q.rest = none /\ q.links = 0
  <2>1. none \in DOMAIN t /\ none \in Seq(Pieces)
    BY <1>1
  <2> HIDE DEF none
  <2>2. QED
    BY <1>1, <2>1, PositionsAreLooked, PositionIs
<1> HIDE DEF q
<1>3. Look(t, TRUE)[q].is = "found"
  <2>1. Verdict(t, q, TRUE).is = "found"
    BY <1>2, VerdictIs
  <2>2. Look(t, TRUE)[q] = Verdict(t, q, TRUE)
    BY <1>2, <2>1, LookIs
  <2>3. QED
    BY <2>1, <2>2
<1>4. CASE text = Root
  <2>1. text # EmptyText
    BY <1>4 DEF Root, EmptyText
  <2>2. Reduced(TRUE, none) /\ Build(TRUE, none) = Root
    BY ReducedNothing DEF Build
  <2>3. Components(text) = none
    BY <1>4, <2>2, BuildFacts
  <2>4. Seek(t, text, TRUE) = Look(t, TRUE)[q]
    BY <2>1, <2>3, SeekIs DEF q
  <2>5. QED
    BY <1>3, <2>4 DEF Exists, Stat
<1>5. CASE text = Current
  <2> DEFINE one == <<Dot>>
             p == Position(none, one, 0)
  <2>1. text # EmptyText
    BY <1>5, PieceFacts DEF Current, EmptyText
  <2>2. Components(text) = <<Dot>>
    <3>1. Dot \in Named
      BY PieceFacts DEF Named
    <3>2. Components(<<Dot>>) = <<Dot>>
      BY <3>1, ComponentsOfOne
    <3>3. QED
      BY <1>5, <3>2 DEF Current
  <2>3. Seek(t, text, TRUE) = Look(t, TRUE)[p]
    BY <2>1, <2>2, SeekIs
  <2>4. p \in Looking(t) /\ p.at = none /\ p.rest = <<Dot>> /\ p.links = 0
    <3>1. none \in DOMAIN t /\ one \in Seq(Pieces)
      BY <1>1, PieceFacts
    <3> HIDE DEF none, one
    <3>2. p \in Looking(t)
      BY <1>1, <3>1, PositionsAreLooked
    <3>3. p.at = none /\ p.rest = one /\ p.links = 0
      BY PositionIs
    <3> HIDE DEF p
    <3>4. QED
      BY <3>2, <3>3 DEF one
  <2> HIDE DEF p
  <2>5. p.rest # <<>> /\ Head(p.rest) = Dot /\ Tail(p.rest) = none
    BY <2>4
  <2>6. Verdict(t, p, TRUE).is = "underway"
    BY <1>1, <2>4, <2>5, VerdictIs
  <2>7. Onward(t, p, TRUE) = q
    BY <2>4, <2>5 DEF Onward, q
  <2>8. Look(t, TRUE)[p] = Look(t, TRUE)[q]
    BY <2>4, <2>6, <2>7, LookIs
  <2>9. QED
    BY <1>3, <2>3, <2>8 DEF Exists, Stat
<1>6. QED
  BY <1>4, <1>5

Height(text) == IF text \in {Root, Current} THEN 0 ELSE 1 + Len(Components(Clean(text)))

LEMMA ParentIsLower ==
  ASSUME NEW text \in AllTexts
  PROVE  /\ Height(text) \in Nat /\ ParentText(text) \in AllTexts
         /\ text \notin {Root, Current} => Height(ParentText(text)) < Height(text)
<1> DEFINE r == Rooted(text)
           names == StackOf(r, Components(text))
           up == Left(names, 1)
           parent == ParentText(text)
<1>1. r \in BOOLEAN /\ Clean(text) = Build(r, names) /\ Reduced(r, names)
  BY CleanIs
<1> HIDE DEF r, names
<1>2. Clean(Build(r, names)) = Build(r, names)
  BY <1>1, CleanOfBuild
<1>3. parent = ParentText(Build(r, names))
  BY <1>1, <1>2 DEF ParentText
<1>4. Left(names, 0) = names /\ ParentText(Build(r, Left(names, 0))) = Build(r, Left(names, 0 + 1)) /\ Reduced(r, Left(names, 1))
  BY <1>1, LeftFacts
<1>5. parent = Build(r, up) /\ Reduced(r, up)
  <2>1. 0 + 1 = 1
    OBVIOUS
  <2>2. QED
    BY <1>3, <1>4, <2>1
<1> HIDE DEF parent
<1>6. names \in Seq(Named) /\ Len(names) \in Nat /\ up \in Seq(Named) /\ Len(up) \in Nat
  BY <1>1, <1>5, ReducedNames
<1>7. up # <<>> => Len(up) = Len(names) - 1
  BY <1>6 DEF Left
<1> HIDE DEF up
<1>8. parent \in AllTexts
  BY <1>1, <1>5, BuildFacts
<1>9. Components(Clean(text)) = IF names = <<>> /\ ~r THEN <<Dot>> ELSE names
  BY <1>1, BuildFacts
<1>10. Len(Components(Clean(text))) \in Nat
  BY <1>6, <1>9
<1>11. Height(text) \in Nat
  BY <1>10 DEF Height
<1>12. ASSUME text \notin {Root, Current} PROVE Height(parent) < Height(text)
  <2>1. Height(text) = 1 + Len(Components(Clean(text)))
    BY <1>12 DEF Height
  <2>2. CASE up = <<>>
    <3>1. parent \in {Root, Current}
      BY <1>5, <2>2 DEF Build
    <3>2. QED
      BY <3>1, <2>1, <1>10 DEF Height
  <2>3. CASE up # <<>>
    <3>1. Clean(parent) = parent /\ Components(parent) = up
      BY <1>1, <1>5, <2>3, CleanOfBuild, BuildFacts
    <3>2. Len(up) = Len(names) - 1 /\ names # <<>>
      BY <2>3, <1>6, <1>7
    <3>3. Components(Clean(text)) = names
      BY <1>9, <3>2
    <3>4. Height(parent) \in {0, 1 + Len(up)}
      BY <3>1 DEF Height
    <3>5. QED
      BY <3>2, <3>3, <3>4, <2>1, <1>6
  <2>4. QED
    BY <2>2, <2>3
<1>13. QED
  BY <1>8, <1>11, <1>12 DEF parent

\* The trees that t can grow to.
Growths(t) == {u \in UNION {[D -> Nodes] : D \in SUBSET Seq(Pieces)} : IsTree(u) /\ Extends(t, u)}

LEMMA GrowthsAre ==
  ASSUME NEW t, NEW u
  PROVE  u \in Growths(t) <=> IsTree(u) /\ Extends(t, u)
<1>1. IsTree(u) => u \in UNION {[D -> Nodes] : D \in SUBSET Seq(Pieces)}
  BY DEF IsTree
<1>2. QED
  BY <1>1 DEF Growths

LEMMA ExtendsTwice ==
  ASSUME NEW t, NEW u, NEW v, Extends(t, u), Extends(u, v)
  PROVE  Extends(t, v)
BY DEF Extends

\* The function that MkdirAll defines.
MakeStep(t) ==
  [f \in [AllTexts -> SUBSET Growths(t)] |->
     [path \in AllTexts |->
        IF Exists(t, path) THEN IF IsDir(t, path) THEN {t} ELSE {}
        ELSE UNION {Mkdir(above, path, FALSE) : above \in f[ParentText(path)]}]]
Made(t) ==
  CHOOSE made : made = [path \in AllTexts |->
        IF Exists(t, path) THEN IF IsDir(t, path) THEN {t} ELSE {}
        ELSE UNION {Mkdir(above, path, FALSE) : above \in made[ParentText(path)]}]
Heights == [path \in AllTexts |-> Height(path)]
Level0 == [path \in AllTexts |-> 0]

LEMMA MadeIs ==
  ASSUME NEW t, IsTree(t)
  PROVE  /\ Made(t) \in [AllTexts -> SUBSET Growths(t)]
         /\ \A path \in AllTexts :
              Made(t)[path] =
                IF Exists(t, path) THEN IF IsDir(t, path) THEN {t} ELSE {}
                ELSE UNION {Mkdir(above, path, FALSE) : above \in Made(t)[ParentText(path)]}
<1> DEFINE S == AllTexts
           R == SUBSET Growths(t)
           step == MakeStep(t)
           At(f, p) == IF Exists(t, p) THEN IF IsDir(t, p) THEN {t} ELSE {}
                       ELSE UNION {Mkdir(above, p, FALSE) : above \in f[ParentText(p)]}
           Fits(f) == f = [p \in S |-> At(f, p)]
           a == Heights
           b == Level0
<1>0. \A p \in S : /\ ParentText(p) \in S
                   /\ ~Exists(t, p) => Less(a, b, ParentText(p), p)
  <2> SUFFICES ASSUME NEW p \in S PROVE ParentText(p) \in S /\ (~Exists(t, p) => Less(a, b, ParentText(p), p))
    OBVIOUS
  <2>1. ParentText(p) \in S /\ (p \notin {Root, Current} => Height(ParentText(p)) < Height(p))
    BY ParentIsLower
  <2>2. ~Exists(t, p) => p \notin {Root, Current}
    BY RootExists
  <2>3. QED
    BY <2>1, <2>2 DEF Less, Heights
<1>1. ASSUME NEW p \in S, NEW f, f[ParentText(p)] \in R PROVE At(f, p) \in R
  <2>1. t \in Growths(t)
    BY NothingChanged, GrowthsAre
  <2>2. ASSUME NEW above \in f[ParentText(p)], NEW u \in Mkdir(above, p, FALSE) PROVE u \in Growths(t)
    <3>1. IsTree(above) /\ Extends(t, above)
      BY <1>1, <2>2, GrowthsAre
    <3>2. IsTree(u) /\ Extends(above, u)
      BY <2>2, <3>1, MkdirMakes
    <3>3. Extends(t, u)
      BY <3>1, <3>2, ExtendsTwice
    <3>4. QED
      BY <3>2, <3>3, GrowthsAre
  <2>3. QED
    BY <2>1, <2>2
<1>2. \A f \in [S -> R] : step[f] = [p \in S |-> At(f, p)]
  BY DEF MakeStep
<1>3. step \in [[S -> R] -> [S -> R]]
  <2>0. \A f \in [S -> R], p \in S : At(f, p) \in R
    <3> SUFFICES ASSUME NEW f \in [S -> R], NEW p \in S PROVE At(f, p) \in R
      OBVIOUS
    <3>1. ParentText(p) \in S
      BY <1>0
    <3> HIDE DEF At, R, S
    <3>2. f[ParentText(p)] \in R
      BY <3>1
    <3>3. QED
      BY <3>2, <1>1
  <2> HIDE DEF At
  <2>1. step = [f \in [S -> R] |-> [p \in S |-> At(f, p)]]
    BY DEF MakeStep, At
  <2> HIDE DEF step, R, S
  <2>2. \A f \in [S -> R] : [p \in S |-> At(f, p)] \in [S -> R]
    BY <2>0
  <2>3. QED
    BY <2>1, <2>2
<1>4. ASSUME NEW f \in [S -> R], NEW g \in [S -> R], NEW p \in S,
             \A q \in S : Less(a, b, q, p) => f[q] = g[q]
      PROVE  step[f][p] = step[g][p]
  <2>1. At(f, p) = At(g, p)
    <3>1. CASE Exists(t, p)
      BY <3>1
    <3>2. CASE ~Exists(t, p)
      <4>1. f[ParentText(p)] = g[ParentText(p)]
        <5> HIDE DEF S, R, a, b
        <5> QED
          BY <1>0, <1>4, <3>2
      <4>2. QED
        BY <4>1
    <3>3. QED
      BY <3>1, <3>2
  <2> HIDE DEF At, step, S, R
  <2>2. step[f] = [q \in S |-> At(f, q)] /\ step[g] = [q \in S |-> At(g, q)]
    BY <1>2
  <2>3. step[f][p] = At(f, p) /\ step[g][p] = At(g, p)
    BY <2>2
  <2>4. QED
    BY <2>1, <2>3
<1>5. a \in [S -> Nat] /\ b \in [S -> Nat]
  BY ParentIsLower DEF Heights, Level0
<1>6. LooksBelow(S, a, b, R, step)
  <2> HIDE DEF S, a, b, step, R
  <2>2. QED
    BY <1>5, <1>3, <1>4 DEF LooksBelow
<1>7. PICK f \in [S -> R] : f = step[f]
  <2>1. R # {}
    OBVIOUS
  <2> HIDE DEF S, a, b, step, R
  <2> QED
    BY <1>6, <2>1, RecursionHasSolution
<1>8. Fits(f)
  BY <1>2, <1>7
<1>9. Made(t) = CHOOSE g : Fits(g)
  BY DEF Made
<1>10. Fits(Made(t))
  <2> HIDE DEF Fits
  <2> QED
    BY <1>8, <1>9
<1> DEFINE made == Made(t)
<1>11. made = [p \in S |-> At(made, p)]
  BY <1>10
<1> HIDE DEF made
<1>12. \A p \in S : made[p] = At(made, p)
  <2> HIDE DEF At, S
  <2> QED
    BY <1>11
<1>13. made \in [S -> R]
  <2> DEFINE T == {p \in S : made[p] \in R}
  <2>1. ASSUME NEW p \in S, \A q \in S : Less(a, b, q, p) => q \in T PROVE p \in T
    <3>1. CASE Exists(t, p)
      <4>1. made[p] = IF IsDir(t, p) THEN {t} ELSE {}
        BY <1>12, <3>1
      <4>2. t \in Growths(t)
        BY NothingChanged, GrowthsAre
      <4>3. QED
        BY <4>1, <4>2
    <3>2. CASE ~Exists(t, p)
      <4>1. ParentText(p) \in T
        BY <1>0, <2>1, <3>2
      <4>2. made[ParentText(p)] \in R
        BY <4>1
      <4>3. At(made, p) \in R
        BY <4>2, <1>1
      <4> HIDE DEF At, R
      <4>4. QED
        BY <4>3, <1>12
    <3>3. QED
      BY <3>1, <3>2
  <2>2. T = S
    <3>1. T \in SUBSET S
      OBVIOUS
    <3> HIDE DEF T, S, a, b
    <3>2. QED
      BY <2>1, <3>1, <1>5, MeasureInduction
  <2>3. QED
    <3> HIDE DEF At
    <3> QED
      BY <2>2, <1>11
<1>14. QED
  BY <1>12, <1>13 DEF made

\* Whatever directories mkdir had to make on the way, it ends at one.
LEMMA MkdirAllMakes ==
  ASSUME NEW t, IsTree(t), NEW text \in AllTexts, NEW u \in MkdirAll(t, text)
  PROVE  IsTree(u) /\ IsDir(u, text)
<1>1. MkdirAll(t, text) = Made(t)[text]
  BY DEF MkdirAll, Made
<1>2. Made(t) \in [AllTexts -> SUBSET Growths(t)]
  BY MadeIs
<1>3. CASE Exists(t, text)
  <2>1. Made(t)[text] = IF IsDir(t, text) THEN {t} ELSE {}
    BY <1>3, MadeIs
  <2>2. QED
    BY <1>1, <2>1
<1>4. CASE ~Exists(t, text)
  <2>1. Made(t)[text] = UNION {Mkdir(above, text, FALSE) : above \in Made(t)[ParentText(text)]}
    BY <1>4, MadeIs
  <2>2. PICK above \in Made(t)[ParentText(text)] : u \in Mkdir(above, text, FALSE)
    BY <1>1, <2>1
  <2>3. ParentText(text) \in AllTexts
    BY ParentIsLower
  <2>4. IsTree(above)
    BY <1>2, <2>2, <2>3, GrowthsAre
  <2>5. QED
    BY <2>2, <2>4, MkdirMakes
<1>5. QED
  BY <1>3, <1>4

LEMMA OpenedMakes ==
  ASSUME NEW t, IsTree(t), NEW text \in AllTexts, NEW exclusive \in BOOLEAN, NEW u \in Opened(t, text, exclusive)
  PROVE  IsTree(u) /\ Exists(u, text)
<1>1. \/ u \in Create(t, Lstat(t, text), File) \cup Create(t, Stat(t, text), File)
      \/ u = t /\ Stat(t, text).is = "found"
  BY DEF Opened
<1>2. File \in Nodes /\ File.kind # "link"
  BY NodesAre
<1>3. QED
  BY <1>1, <1>2, CreatedIsReached DEF Exists

LEMMA RemoveEntryMakes ==
  ASSUME NEW t, IsTree(t), NEW text \in AllTexts, NEW missingOk, NEW u \in RemoveEntry(t, text, missingOk)
  PROVE  IsTree(u) /\ Lstat(u, text).is # "found"
<1> DEFINE found == Lstat(t, text)
           f == found.at
<1>1. CASE found.is = "found" /\ f # <<>> /\ Within(t, f) = {}
  <2>1. u = Without(t, {f})
    BY <1>1 DEF RemoveEntry
  <2>2. f \in DOMAIN t
    BY <1>1, SeekTyped DEF Lstat
  <2> DEFINE left == Without(t, {f, f} \cup Within(t, f))
  <2>3. u = left
    BY <1>1, <2>1
  <2>4. IsTree(left) /\ Extends(left, t) /\ f \notin DOMAIN left
    <3> HIDE DEF f
    <3>1. IsTree(left) /\ Extends(left, t) /\ \A l \in DOMAIN t : l \in DOMAIN left <=> l # f /\ ~IsPrefix(f, l)
      BY <1>1, <2>2, PrunedTree
    <3>2. QED
      BY <2>2, <3>1
  <2>5. Seek(u, text, FALSE).is # "found"
    <3> DEFINE no == FALSE
    <3>1. no \in BOOLEAN /\ found = Seek(t, text, no)
      BY DEF Lstat
    <3> HIDE DEF no, left
    <3>2. Seek(u, text, no).is # "found"
      BY <1>1, <2>3, <2>4, <3>1, SeekLoses
    <3>3. QED
      BY <3>2 DEF no
  <2>6. QED
    BY <2>3, <2>4, <2>5 DEF Lstat
<1>2. CASE found.is \in {"vacant", "missing"}
  <2>1. u = t
    BY <1>2 DEF RemoveEntry
  <2>2. QED
    BY <1>2, <2>1
<1>3. QED
  BY <1>1, <1>2 DEF RemoveEntry

LEMMA RenameMakes ==
  ASSUME NEW t, IsTree(t), NEW text \in AllTexts, NEW target \in AllTexts, NEW u \in Rename(t, text, target)
  PROVE  /\ IsTree(u)
         /\ Aside(t, text, target) => Lstat(u, target).is = "found"
<1> DEFINE from == Lstat(t, text)
           to == Lstat(t, target)
           f == from.at
           g == to.at
<1>1. from.is = "found" /\ f # <<>> /\ to.is \in {"found", "vacant"}
  BY DEF Rename
<1>2. f \in DOMAIN t
  BY <1>1, SeekTyped DEF Lstat
<1>3. CASE g = f
  <2>1. u = t
    BY <1>1, <1>3 DEF Rename
  <2>2. to.is # "vacant"
    BY <1>2, <1>3, SeekTyped DEF Lstat
  <2>3. QED
    BY <1>1, <2>1, <2>2
<1>4. CASE g # f
  <2>1. /\ u = Moved(t, f, g) /\ ~IsPrefix(f, g)
        /\ to.is = "found" => t[g].kind # "directory"
    BY <1>1, <1>4 DEF Rename
  <2>4. /\ g \in Seq(Pieces) /\ g # <<>> /\ Above(g) \in DOMAIN t /\ t[Above(g)].kind = "directory"
        /\ g \notin DOMAIN t \/ t[g].kind # "directory"
    <3>1. CASE to.is = "found"
      <4>1. g \in DOMAIN t /\ t[g].kind # "directory"
        BY <2>1, <3>1, SeekTyped DEF Lstat
      <4> HIDE DEF g
      <4>2. g \in Seq(Pieces) /\ g # <<>> /\ Above(g) \in DOMAIN t /\ t[Above(g)].kind = "directory"
        BY <4>1, TreeFacts, NodesAre
      <4>3. QED
        BY <4>1, <4>2
    <3>2. CASE to.is = "vacant"
      BY <3>2, SeekTyped DEF Lstat
    <3>3. QED
      BY <1>1, <3>1, <3>2
  <2> DEFINE left == Without(t, {f, g} \cup Within(t, f))
  <2>5. IsTree(u) /\ IsTree(left) /\ Extends(left, u) /\ g \in DOMAIN u
    <3> HIDE DEF f, g
    <3>1. QED
      BY <1>1, <1>2, <2>1, <2>4, MovedTree
  <2>6. ASSUME Aside(t, text, target) PROVE Lstat(u, target).is = "found"
    <3> DEFINE no == FALSE
    <3>1. Seek(left, target, no) = Answer("vacant", g)
      BY <2>6 DEF Aside, Lstat
    <3>2. no \in BOOLEAN /\ (no => u[g].kind # "link")
      OBVIOUS
    <3> HIDE DEF no, left, g
    <3>3. Seek(left, target, no).is = "vacant" /\ Seek(left, target, no).at = g
      BY <3>1, AnswerIs
    <3>4. Seek(u, target, no) = Answer("found", Seek(left, target, no).at)
      BY <2>5, <3>2, <3>3, SeekFinds
    <3>5. QED
      BY <3>4, AnswerIs DEF Lstat, no
  <2>7. QED
    BY <2>5, <2>6
<1>5. QED
  BY <1>3, <1>4

LEMMA HardlinkMakes ==
  ASSUME NEW t, IsTree(t), NEW text \in AllTexts, NEW target \in AllTexts, NEW u \in Hardlink(t, target, text)
  PROVE  IsTree(u) /\ u[Lstat(u, text).at] = u[Lstat(u, target).at]
<1> DEFINE from == Lstat(t, target)
           node == t[from.at]
           no == FALSE
<1>1. from.is = "found" /\ u \in Create(t, Lstat(t, text), node)
  BY DEF Hardlink
<1>2. from = Seek(t, target, no) /\ Lstat(u, target) = Seek(u, target, no) /\ no \in BOOLEAN
  BY DEF Lstat
<1> HIDE DEF no
<1>3. from.at \in DOMAIN t
  BY <1>1, <1>2, SeekTyped
<1>4. node \in Nodes
  BY <1>3, TreeFacts
<1>5. IsTree(u) /\ Extends(t, u) /\ u[Lstat(u, text).at] = node
  <2> HIDE DEF node
  <2> QED
    BY <1>1, <1>4, CreatedIsThere
<1>6. Lstat(u, target) = from
  BY <1>1, <1>2, <1>5, SeekKeeps
<1>7. u[from.at] = node
  BY <1>3, <1>5 DEF Extends
<1>8. QED
  BY <1>5, <1>6, <1>7

LEMMA SymlinkMakes ==
  ASSUME NEW t, IsTree(t), NEW text \in AllTexts, NEW target \in AllTexts, NEW u \in Symlink(t, target, text)
  PROVE  IsTree(u) /\ u[Lstat(u, text).at] = LinkTo(target)
<1>1. LinkTo(target) \in Nodes /\ u \in Create(t, Lstat(t, text), LinkTo(target))
  BY NodesAre DEF Symlink
<1>2. QED
  BY <1>1, CreatedIsThere

-----------------------------------------------------------------------------
(* The invariant.                                                          *)

JobInv ==
  job.status = "active" =>
    "call" \in DOMAIN job /\ "status" \in DOMAIN job /\ job.call \in {"walk", "rglob", "glob"}
VisibleInv == PathInv /\ IsTree(tree) /\ JobInv /\ SuccessIsVisible

LEMMA JobsAre ==
  /\ Idle.status = "idle"
  /\ \A kind : Halfway(kind).status = "halfway"
  /\ \A kind, ok, target, flag :
       /\ Finished(kind, ok, target, flag).call = kind
       /\ Finished(kind, ok, target, flag).status = IF ok THEN "done" ELSE "failed"
       /\ Finished(kind, ok, target, flag).target = target
       /\ Finished(kind, ok, target, flag).flag = flag
BY DEF Idle, Halfway, Finished

LEMMA TraversalsAre ==
  ASSUME NEW kind, NEW patterns
  PROVE  /\ Traversal(kind, patterns).status = "active" /\ Traversal(kind, patterns).call = kind
         /\ "call" \in DOMAIN Traversal(kind, patterns) /\ "status" \in DOMAIN Traversal(kind, patterns)
BY DEF Traversal

\* A step that leaves the tree alone and does not end a call.
LEMMA GoingOn ==
  ASSUME VisibleInv, IsTree(tree'), job'.status \notin {"active", "done"}
  PROVE  IsTree(tree)' /\ JobInv' /\ SuccessIsVisible'
BY DEF JobInv, SuccessIsVisible

LEMMA CallEnds ==
  ASSUME IsTree(tree), NEW kind, NEW target, NEW flag, NEW results,
         Call(kind, target, flag, results), \A u \in results : IsTree(u)
  PROVE  /\ IsTree(tree') /\ IsTree(tree)' /\ JobInv' /\ here' = here
         /\ job'.call = kind /\ job'.target = target /\ job'.flag = flag
         /\ job'.status = "done" => tree' \in results
<1>1. job' = Finished(kind, results # {}, target, flag) /\ here' = here
  BY DEF Call
<1>2. /\ job'.call = kind /\ job'.target = target /\ job'.flag = flag
      /\ job'.status = IF results # {} THEN "done" ELSE "failed"
  <2> DEFINE ok == results # {}
  <2>1. job' = Finished(kind, ok, target, flag)
    BY <1>1
  <2> HIDE DEF ok
  <2>2. /\ job'.call = kind /\ job'.target = target /\ job'.flag = flag
        /\ job'.status = IF ok THEN "done" ELSE "failed"
    BY <2>1, JobsAre
  <2>3. QED
    BY <2>2 DEF ok
<1>3. tree' \in results \/ (results = {} /\ tree' = tree)
  BY DEF Call
<1>4. QED
  BY <1>1, <1>2, <1>3 DEF JobInv

LEMMA ChangeTreeStep ==
  ASSUME VisibleInv, ChangeTree
  PROVE  IsTree(tree)' /\ JobInv' /\ SuccessIsVisible'
<1>0. here \in AllTexts /\ IsTree(tree) /\ \A text \in Texts : text \in AllTexts
  BY TextsAssumption DEF VisibleInv, PathInv
<1>1. ASSUME NEW flag \in BOOLEAN, Touch(flag) PROVE IsTree(tree)' /\ JobInv' /\ SuccessIsVisible'
  <2> DEFINE results == Opened(tree, here, ~flag)
  <2>1. \A u \in results : IsTree(u) /\ Exists(u, here)
    BY <1>0, OpenedMakes
  <2>2. CASE flag /\ results # {}
    <3>1. tree' \in results /\ job' = Halfway("touch")
      BY <1>1, <2>2 DEF Touch
    <3>2. job'.status = "halfway"
      BY <3>1, JobsAre
    <3>3. QED
      BY <2>1, <3>1, <3>2, GoingOn
  <2>3. CASE ~(flag /\ results # {})
    <3>1. Call("touch", here, flag, results)
      BY <1>1, <2>3 DEF Touch
    <3> HIDE DEF results
    <3>2. /\ IsTree(tree)' /\ JobInv' /\ here' = here /\ job'.call = "touch"
          /\ job'.status = "done" => tree' \in results
      BY <1>0, <2>1, <3>1, CallEnds
    <3>3. QED
      BY <2>1, <3>2 DEF SuccessIsVisible
  <2>4. QED
    BY <2>2, <2>3
<1>2. CASE EndTouch
  <2> DEFINE results == IF Exists(tree, here) THEN {tree} ELSE {}
  <2>1. Call("touch", here, TRUE, results)
    BY <1>2 DEF EndTouch
  <2>2. \A u \in results : IsTree(u) /\ Exists(u, here)
    BY <1>0
  <2> HIDE DEF results
  <2>3. /\ IsTree(tree)' /\ JobInv' /\ here' = here /\ job'.call = "touch"
        /\ job'.status = "done" => tree' \in results
    BY <1>0, <2>1, <2>2, CallEnds
  <2>4. QED
    BY <2>2, <2>3 DEF SuccessIsVisible
<1>3. ASSUME NEW flag \in BOOLEAN, MakeDirectory(flag) PROVE IsTree(tree)' /\ JobInv' /\ SuccessIsVisible'
  <2> DEFINE results == Mkdir(tree, here, flag)
  <2>1. Call("mkdir", here, flag, results)
    BY <1>3 DEF MakeDirectory
  <2>2. \A u \in results : IsTree(u) /\ Lstat(u, here).is = "found" /\ (~flag => IsDir(u, here))
    BY <1>0, MkdirMakes
  <2> HIDE DEF results
  <2>3. /\ IsTree(tree)' /\ JobInv' /\ here' = here /\ job'.call = "mkdir" /\ job'.flag = flag
        /\ job'.status = "done" => tree' \in results
    BY <1>0, <2>1, <2>2, CallEnds
  <2>4. QED
    BY <2>2, <2>3 DEF SuccessIsVisible
<1>4. ASSUME NEW flag \in BOOLEAN, Call("mkdirs", here, flag, {}) \/ Call("mkdirs", here, flag, MkdirAll(tree, here))
      PROVE  IsTree(tree)' /\ JobInv' /\ SuccessIsVisible'
  <2>1. PICK results \in {{}, MkdirAll(tree, here)} : Call("mkdirs", here, flag, results)
    BY <1>4
  <2>2. \A u \in results : IsTree(u) /\ IsDir(u, here)
    BY <1>0, <2>1, MkdirAllMakes
  <2>3. /\ IsTree(tree)' /\ JobInv' /\ here' = here /\ job'.call = "mkdirs"
        /\ job'.status = "done" => tree' \in results
    BY <1>0, <2>1, <2>2, CallEnds
  <2>4. QED
    BY <2>2, <2>3 DEF SuccessIsVisible
<1>5. ASSUME NEW flag \in BOOLEAN, MakeDirectories(flag) PROVE IsTree(tree)' /\ JobInv' /\ SuccessIsVisible'
  <2>1. CASE job' = Halfway("mkdirs") /\ UNCHANGED tree
    BY <1>0, <2>1, JobsAre, GoingOn
  <2>2. QED
    BY <1>4, <1>5, <2>1 DEF MakeDirectories
<1>6. CASE EndMakeDirectories
  <2> DEFINE no == FALSE
  <2>1. no \in BOOLEAN /\ Call("mkdirs", here, no, MkdirAll(tree, here))
    BY <1>6 DEF EndMakeDirectories
  <2> HIDE DEF no
  <2>2. QED
    BY <1>4, <2>1
<1>7. ASSUME NEW missingOk, Call("unlink", here, missingOk, RemoveEntry(tree, here, missingOk))
      PROVE  IsTree(tree)' /\ JobInv' /\ SuccessIsVisible'
  <2> DEFINE results == RemoveEntry(tree, here, missingOk)
  <2>1. \A u \in results : IsTree(u) /\ Lstat(u, here).is # "found"
    BY <1>0, RemoveEntryMakes
  <2> HIDE DEF results
  <2>2. /\ IsTree(tree)' /\ JobInv' /\ here' = here /\ job'.call = "unlink"
        /\ job'.status = "done" => tree' \in results
    BY <1>0, <1>7, <2>1, CallEnds DEF results
  <2>3. QED
    BY <2>1, <2>2 DEF SuccessIsVisible
<1>8. ASSUME NEW flag \in BOOLEAN, Unlink(flag) PROVE IsTree(tree)' /\ JobInv' /\ SuccessIsVisible'
  BY <1>7, <1>8 DEF Unlink
<1>9. CASE Rmdir
  BY <1>7, <1>9 DEF Rmdir
<1>10. CASE WriteText
  <2> DEFINE no == FALSE
             results == Opened(tree, here, no)
  <2>1. no \in BOOLEAN /\ Call("write", here, no, results)
    BY <1>10 DEF WriteText
  <2> HIDE DEF no
  <2>2. \A u \in results : IsTree(u) /\ Exists(u, here)
    BY <1>0, <2>1, OpenedMakes
  <2> HIDE DEF results
  <2>3. /\ IsTree(tree)' /\ JobInv' /\ here' = here /\ job'.call = "write"
        /\ job'.status = "done" => tree' \in results
    BY <1>0, <2>1, <2>2, CallEnds
  <2>4. QED
    BY <2>2, <2>3 DEF SuccessIsVisible
<1>11. ASSUME NEW target \in Texts, RenameTo(target) PROVE IsTree(tree)' /\ JobInv' /\ SuccessIsVisible'
  <2> DEFINE results == Rename(tree, here, target)
             flag == results # {} /\ Aside(tree, here, target)
  <2>1. Call("rename", target, flag, results)
    BY <1>11 DEF RenameTo
  <2>2. \A u \in results : IsTree(u) /\ (flag => Lstat(u, target).is = "found")
    BY <1>0, RenameMakes
  <2> HIDE DEF results, flag
  <2>3. /\ IsTree(tree)' /\ JobInv' /\ job'.call = "rename" /\ job'.target = target /\ job'.flag = flag
        /\ job'.status = "done" => tree' \in results
    BY <1>0, <2>1, <2>2, CallEnds
  <2>4. QED
    BY <2>2, <2>3 DEF SuccessIsVisible
<1>12. ASSUME NEW target \in Texts, HardlinkTo(target) PROVE IsTree(tree)' /\ JobInv' /\ SuccessIsVisible'
  <2> DEFINE results == Hardlink(tree, target, here)
  <2>1. Call("hardlink", target, FALSE, results)
    BY <1>12 DEF HardlinkTo
  <2>2. \A u \in results : IsTree(u) /\ u[Lstat(u, here).at] = u[Lstat(u, target).at]
    BY <1>0, HardlinkMakes
  <2> HIDE DEF results
  <2>3. /\ IsTree(tree)' /\ JobInv' /\ here' = here /\ job'.call = "hardlink" /\ job'.target = target
        /\ job'.status = "done" => tree' \in results
    BY <1>0, <2>1, <2>2, CallEnds
  <2>4. QED
    BY <2>2, <2>3 DEF SuccessIsVisible
<1>13. ASSUME NEW target \in Texts, SymlinkTo(target) PROVE IsTree(tree)' /\ JobInv' /\ SuccessIsVisible'
  <2> DEFINE results == Symlink(tree, target, here)
  <2>1. Call("symlink", target, FALSE, results)
    BY <1>13 DEF SymlinkTo
  <2>2. \A u \in results : IsTree(u) /\ u[Lstat(u, here).at] = LinkTo(target)
    BY <1>0, SymlinkMakes
  <2> HIDE DEF results
  <2>3. /\ IsTree(tree)' /\ JobInv' /\ here' = here /\ job'.call = "symlink" /\ job'.target = target
        /\ job'.status = "done" => tree' \in results
    BY <1>0, <2>1, <2>2, CallEnds
  <2>4. QED
    BY <2>2, <2>3 DEF SuccessIsVisible
<1>14. QED
  BY <1>1, <1>2, <1>3, <1>5, <1>6, <1>8, <1>9, <1>10, <1>11, <1>12, <1>13 DEF ChangeTree

\* A traversal stays one.
LEMMA Traversing ==
  ASSUME VisibleInv, job.status = "active", IsTree(tree'),
         DOMAIN job' = DOMAIN job, job'.call = job.call
  PROVE  IsTree(tree)' /\ JobInv' /\ SuccessIsVisible'
<1>1. /\ "call" \in DOMAIN job' /\ "status" \in DOMAIN job'
      /\ job'.call \in {"walk", "rglob", "glob"}
  BY DEF VisibleInv, JobInv
<1>2. JobInv'
  BY <1>1 DEF JobInv
<1>3. SuccessIsVisible'
  BY <1>1 DEF SuccessIsVisible
<1>4. QED
  BY <1>2, <1>3

LEMMA TraverseStep ==
  ASSUME VisibleInv, Traverse
  PROVE  IsTree(tree)' /\ JobInv' /\ SuccessIsVisible'
<1>0. /\ IsTree(tree)
      /\ job.status = "active" => "call" \in DOMAIN job
  BY DEF VisibleInv, JobInv
<1>1. ASSUME NEW kind \in {"walk", "rglob", "glob"}, NEW patterns, Start(kind, patterns)
      PROVE  IsTree(tree)' /\ JobInv' /\ SuccessIsVisible'
  <2>1. job' = Traversal(kind, patterns) /\ tree' = tree
    BY <1>1 DEF Start
  <2>2. /\ job'.status = "active" /\ job'.call = kind
        /\ "call" \in DOMAIN job' /\ "status" \in DOMAIN job'
    BY <2>1, TraversalsAre
  <2>3. QED
    BY <1>0, <2>1, <2>2 DEF JobInv, SuccessIsVisible
<1>2. ASSUME NEW patterns, Glob(patterns) PROVE IsTree(tree)' /\ JobInv' /\ SuccessIsVisible'
  <2>1. CASE IsDir(tree, here)
    BY <1>1, <1>2, <2>1 DEF Glob
  <2>2. CASE ~IsDir(tree, here)
    <3> DEFINE j == Traversal("glob", patterns)
    <3>1. job' = [j EXCEPT !.status = "done", !.frames = <<>>] /\ tree' = tree
      BY <1>2, <2>2 DEF Glob
    <3>2. j.call = "glob" /\ "call" \in DOMAIN j /\ "status" \in DOMAIN j
      BY TraversalsAre
    <3> HIDE DEF j
    <3>3. job'.call = "glob" /\ job'.status = "done"
      BY <3>1, <3>2
    <3>4. QED
      BY <1>0, <3>1, <3>3 DEF JobInv, SuccessIsVisible
  <2>3. QED
    BY <2>1, <2>2
<1>3. CASE ReadDirectory
  <2>1. job.status = "active" /\ tree' = tree /\ DOMAIN job' = DOMAIN job /\ job'.call = job.call
    BY <1>0, <1>3 DEF ReadDirectory, Step, AtTop
  <2>2. QED
    BY <1>0, <2>1, Traversing
<1>4. CASE VisitChild
  <2>1. job.status = "active" /\ tree' = tree /\ DOMAIN job' = DOMAIN job /\ job'.call = job.call
    BY <1>0, <1>4 DEF VisitChild, Step, AtTop
  <2>2. QED
    BY <1>0, <2>1, Traversing
<1>5. CASE LeaveDirectory
  <2>1. job.status = "active" /\ tree' = tree /\ DOMAIN job' = DOMAIN job /\ job'.call = job.call
    BY <1>0, <1>5 DEF LeaveDirectory, Step
  <2>2. QED
    BY <1>0, <2>1, Traversing
<1>6. QED
  BY <1>1, <1>2, <1>3, <1>4, <1>5 DEF Traverse, Walk, Rglob

LEMMA WorldStep ==
  ASSUME VisibleInv, Appear \/ Vanish \/ Move
  PROVE  IsTree(tree)' /\ JobInv' /\ SuccessIsVisible'
<1>0. /\ IsTree(tree)
      /\ job.status = "active" => "call" \in DOMAIN job
  BY DEF VisibleInv, JobInv
<1>1. ASSUME NEW t, IsTree(t), World(t), Disturbs PROVE IsTree(tree)' /\ JobInv' /\ SuccessIsVisible'
  <2>1. tree' = t
    BY <1>1 DEF World
  <2>2. CASE job.status = "active"
    <3>1. DOMAIN job' = DOMAIN job /\ job'.call = job.call
      BY <1>0, <1>1, <2>2 DEF World
    <3>2. QED
      BY <1>1, <2>1, <2>2, <3>1, Traversing
  <2>3. CASE job.status = "halfway"
    <3>1. job' = job
      BY <1>1, <2>3 DEF World
    <3>2. QED
      BY <1>1, <2>1, <2>3, <3>1, GoingOn
  <2>4. QED
    BY <1>1, <2>2, <2>3 DEF Disturbs
<1>2. \A name \in ToSet(Names) : name \in Pieces
  BY TreesAssumption DEF ToSet
<1>3. ASSUME NEW directory \in DOMAIN tree, tree[directory].kind = "directory", NEW name \in ToSet(Names),
             Append(directory, name) \notin DOMAIN tree
      PROVE  Free(tree, Append(directory, name))
  <2>1. directory \in Seq(Pieces) /\ name \in Pieces
    BY <1>0, <1>2, TreeFacts
  <2>2. Append(directory, name) \in Seq(Pieces) /\ Append(directory, name) # <<>> /\ Front(Append(directory, name)) = directory
    BY <2>1, AppendFacts
  <2>3. QED
    BY <1>3, <2>2 DEF Free, Above
<1>4. CASE Appear
  <2>1. PICK directory \in DOMAIN tree, name \in ToSet(Names), node \in {Directory, File} :
          /\ tree[directory].kind = "directory" /\ Append(directory, name) \notin DOMAIN tree
          /\ World(With(tree, Append(directory, name), node))
    BY <1>4 DEF Appear
  <2>2. IsTree(With(tree, Append(directory, name), node))
    BY <1>0, <1>3, <2>1, NodesAre, PlantedTree
  <2>3. QED
    BY <1>1, <1>4, <2>1, <2>2 DEF Appear
<1>5. CASE Vanish
  <2>1. PICK l \in DOMAIN tree \ {<<>>} : Within(tree, l) = {} /\ World(Without(tree, {l}))
    BY <1>5 DEF Vanish
  <2>2. IsTree(Without(tree, {l, l} \cup Within(tree, l)))
    BY <1>0, PrunedTree
  <2>3. Without(tree, {l, l} \cup Within(tree, l)) = Without(tree, {l})
    BY <2>1
  <2>4. QED
    BY <1>1, <1>5, <2>1, <2>2, <2>3 DEF Vanish
<1>6. CASE Move
  <2>1. PICK from \in DOMAIN tree \ {<<>>}, directory \in DOMAIN tree, name \in ToSet(Names) :
          /\ tree[directory].kind = "directory" /\ Append(directory, name) \notin DOMAIN tree
          /\ ~IsPrefix(from, Append(directory, name))
          /\ World(Moved(tree, from, Append(directory, name)))
    BY <1>6 DEF Move
  <2> DEFINE to == Append(directory, name)
  <2>2. Free(tree, to)
    BY <1>3, <2>1
  <2> HIDE DEF to
  <2>3. IsTree(Moved(tree, from, to))
    BY <1>0, <2>1, <2>2, MovedTree DEF Free, to
  <2>4. QED
    BY <1>1, <1>6, <2>1, <2>3 DEF Move, to
<1>7. QED
  BY <1>4, <1>5, <1>6

LEMMA ComputeStep ==
  ASSUME VisibleInv, ComputePath
  PROVE  IsTree(tree)' /\ JobInv' /\ SuccessIsVisible'
<1>1. PICK text : GoOn(text)
  BY DEF ComputePath, New, JoinPath, Parent, Ancestor, RelativePath, Absolute, ExpandUser,
         NewName, NewStem, NewSuffix
<1>2. tree' = tree /\ job' = Idle
  BY <1>1 DEF GoOn
<1>3. QED
  BY <1>2, JobsAre, GoingOn DEF VisibleInv

LEMMA VisibleKept == (Init => VisibleInv) /\ (VisibleInv /\ [Next]_vars => VisibleInv')
<1>1. Init => VisibleInv
  <2> SUFFICES ASSUME Init PROVE VisibleInv
    OBVIOUS
  <2>1. PICK text \in Texts : here = Clean(text)
    BY DEF Init
  <2>2. PathInv
    BY <2>1, TextsAssumption, CleanedIsClean DEF PathInv
  <2>3. IsTree(tree) /\ job.status = "idle"
    BY TreesAssumption, JobsAre DEF Init
  <2>4. QED
    BY <2>2, <2>3 DEF VisibleInv, JobInv, SuccessIsVisible
<1>2. VisibleInv /\ [Next]_vars => VisibleInv'
  <2> SUFFICES ASSUME VisibleInv, [Next]_vars PROVE VisibleInv'
    OBVIOUS
  <2>1. PathInv'
    <3>1. CASE ComputePath
      BY <3>1, PathStep DEF VisibleInv
    <3>2. CASE Next /\ ~ComputePath
      BY <3>2, HereStays DEF VisibleInv, PathInv, IsClean
    <3>3. CASE UNCHANGED vars
      BY <3>3 DEF vars, VisibleInv, PathInv, IsClean
    <3>4. QED
      BY <3>1, <3>2, <3>3
  <2>2. IsTree(tree)' /\ JobInv' /\ SuccessIsVisible'
    <3>1. CASE Return
      <4>1. job'.status = "idle" /\ tree' = tree
        BY <3>1, JobsAre DEF Return
      <4>2. QED
        BY <4>1, GoingOn DEF VisibleInv
    <3>2. CASE UNCHANGED vars
      BY <3>2 DEF vars, VisibleInv, JobInv, SuccessIsVisible
    <3>3. QED
      BY <3>1, <3>2, ComputeStep, ChangeTreeStep, TraverseStep, WorldStep DEF Next, Program
  <2>3. QED
    BY <2>1, <2>2 DEF VisibleInv
<1>3. QED
  BY <1>1, <1>2

\* What a call of path.slv that succeeds leaves is what it was called for,
\* whatever links its paths lead through: touch, write_text and mkdir (with
\* parents too) leave something there, unlink and rmdir nothing, rename,
\* hardlink_to and symlink_to what was moved or linked (io_filesystem.go).
THEOREM CallsSucceed == Spec => []SuccessIsVisible
<1>1. VisibleInv => SuccessIsVisible
  BY DEF VisibleInv
<1>2. QED
  BY <1>1, VisibleKept, PTL DEF Spec

-----------------------------------------------------------------------------
(* A lookup of a path with more behind it.                                 *)

LEMMA JoinFacts ==
  ASSUME NEW s \in Seq(Pieces), NEW more \in Seq(Pieces), s # <<>>
  PROVE  /\ s \o more \in Seq(Pieces) /\ s \o more # <<>>
         /\ Head(s \o more) = Head(s) /\ Tail(s \o more) = Tail(s) \o more
         /\ Tail(s) \in Seq(Pieces) /\ Head(s) \in Pieces
<1>1. s \o more \in Seq(Pieces) /\ s \o more # <<>> /\ (s \o more)[1] = s[1] /\ Len(s \o more) = Len(s) + Len(more)
      /\ Len(s) \in Nat \ {0} /\ Len(more) \in Nat
  BY ConcatFacts
<1>2. Tail(s) \in Seq(Pieces) /\ Len(Tail(s)) = Len(s) - 1 /\ \A i \in 1 .. Len(s) - 1 : Tail(s)[i] = s[i + 1]
  BY <1>1
<1> DEFINE whole == s \o more
           a == Tail(whole)
           b == Tail(s) \o more
<1>3. \A i \in 1 .. Len(s) + Len(more) : whole[i] = IF i <= Len(s) THEN s[i] ELSE more[i - Len(s)]
  BY <1>1
<1>4. b \in Seq(Pieces) /\ Len(b) = Len(s) - 1 + Len(more)
      /\ \A i \in 1 .. Len(b) : b[i] = IF i <= Len(s) - 1 THEN Tail(s)[i] ELSE more[i - (Len(s) - 1)]
  BY <1>1, <1>2
<1>5. whole \in Seq(Pieces) /\ whole # <<>> /\ Len(whole) = Len(s) + Len(more)
  BY <1>1
<1> HIDE DEF whole, b
<1>6. a \in Seq(Pieces) /\ Len(a) = Len(s) - 1 + Len(more) /\ \A i \in 1 .. Len(a) : a[i] = whole[i + 1]
  BY <1>1, <1>5
<1> HIDE DEF a
<1>7. ASSUME NEW i \in 1 .. Len(a) PROVE a[i] = b[i]
  <2>1. i \in Nat /\ i + 1 \in 1 .. Len(s) + Len(more) /\ i \in 1 .. Len(b) /\ (i + 1) - Len(s) = i - (Len(s) - 1)
    BY <1>1, <1>4, <1>6
  <2>2. i + 1 <= Len(s) <=> i <= Len(s) - 1
    BY <2>1, <1>1
  <2>3. CASE i <= Len(s) - 1
    <3>1. i \in 1 .. Len(s) - 1
      BY <2>1, <2>3, <1>1
    <3>2. QED
      BY <1>2, <1>3, <1>4, <1>6, <2>1, <2>2, <2>3, <3>1
  <2>4. CASE ~(i <= Len(s) - 1)
    BY <1>3, <1>4, <1>6, <2>1, <2>2, <2>4
  <2>5. QED
    BY <2>3, <2>4
<1>8. a = b
  BY <1>4, <1>6, <1>7, SeqEqual
<1>9. Head(whole) = whole[1] /\ Head(s) = s[1] /\ s[1] \in Pieces
  BY <1>1
<1>10. QED
  BY <1>1, <1>2, <1>8, <1>9 DEF a, b, whole

LEMMA ConcatTwice ==
  ASSUME NEW a \in Seq(Pieces), NEW b \in Seq(Pieces), NEW c \in Seq(Pieces)
  PROVE  (a \o b) \o c = a \o (b \o c)
BY ConcatAssociative

Long(p, more) == Position(p.at, p.rest \o more, p.links)

LEMMA LongFacts ==
  ASSUME NEW t, IsTree(t), NEW p \in Looking(t), NEW more \in Seq(Pieces)
  PROVE  /\ Long(p, more) \in Looking(t) /\ Long(p, more).at = p.at /\ Long(p, more).links = p.links
         /\ Long(p, more).rest = p.rest \o more
<1>1. p.at \in DOMAIN t /\ p.rest \in Seq(Pieces) /\ p.links \in 0 .. LinkLimit
  BY LookingFacts
<1> DEFINE rest == p.rest \o more
<1>2. rest \in Seq(Pieces)
  BY <1>1, ConcatFacts
<1>3. Long(p, more) = Position(p.at, rest, p.links)
  BY DEF Long
<1> HIDE DEF rest
<1>4. Position(p.at, rest, p.links) \in Looking(t)
  BY <1>1, <1>2, PositionsAreLooked
<1>5. /\ Position(p.at, rest, p.links).at = p.at /\ Position(p.at, rest, p.links).rest = rest
      /\ Position(p.at, rest, p.links).links = p.links
  BY PositionIs
<1>6. Long(p, more) \in Looking(t) /\ Long(p, more).at = p.at /\ Long(p, more).links = p.links
      /\ Long(p, more).rest = rest
  BY <1>3, <1>4, <1>5
<1>7. QED
  BY <1>6 DEF rest

\* What follows a path does not change where the path leads.
LEMMA OnwardLong ==
  ASSUME NEW t, IsTree(t), NEW p \in Looking(t), p.rest # <<>>, NEW more \in Seq(Pieces)
  PROVE  /\ Verdict(t, Long(p, more), TRUE).is = "underway" <=> Verdict(t, p, TRUE).is = "underway"
         /\ Verdict(t, p, TRUE).is = "underway" =>
              Onward(t, Long(p, more), TRUE) = Long(Onward(t, p, TRUE), more)
<1> DEFINE q == Long(p, more)
<1>1. /\ q \in Looking(t) /\ q.at = p.at /\ q.links = p.links /\ q.rest = p.rest \o more
  BY LongFacts
<1>2. /\ q.rest # <<>> /\ Head(q.rest) = Head(p.rest) /\ Tail(q.rest) = Tail(p.rest) \o more
      /\ Tail(p.rest) \in Seq(Pieces) /\ p.rest \in Seq(Pieces)
  BY <1>1, JoinFacts, LookingFacts
<1> HIDE DEF q
<1>3. EntryAt(q) = EntryAt(p)
  BY <1>1, <1>2 DEF EntryAt
<1>4. Follows(t, q, TRUE) = Follows(t, p, TRUE)
  BY <1>3 DEF Follows
<1>5. Verdict(t, q, TRUE).is = "underway" <=> Verdict(t, p, TRUE).is = "underway"
  BY <1>1, <1>2, <1>3, <1>4, VerdictIs
<1>6. ASSUME Verdict(t, p, TRUE).is = "underway" PROVE Onward(t, q, TRUE) = Long(Onward(t, p, TRUE), more)
  <2> DEFINE n == Onward(t, p, TRUE)
             m == Onward(t, q, TRUE)
  <2>0. Long(n, more) = Position(n.at, n.rest \o more, n.links)
    BY DEF Long
  <2>1. CASE Head(p.rest) = Dot
    <3>1. /\ n = Position(p.at, Tail(p.rest), p.links)
          /\ m = Position(p.at, Tail(q.rest), p.links)
      BY <1>1, <1>2, <2>1 DEF Onward
    <3> HIDE DEF n, m
    <3>2. n.at = p.at /\ n.rest = Tail(p.rest) /\ n.links = p.links
      BY <3>1, PositionIs
    <3>3. QED
      BY <1>2, <2>0, <3>1, <3>2 DEF n, m
  <2>2. CASE Head(p.rest) = DotDot
    <3>1. Head(p.rest) # Dot
      BY <2>2, PieceFacts
    <3>2. /\ n = Position(Above(p.at), Tail(p.rest), p.links)
          /\ m = Position(Above(p.at), Tail(q.rest), p.links)
      BY <1>1, <1>2, <2>2, <3>1 DEF Onward
    <3> HIDE DEF n, m
    <3>3. n.at = Above(p.at) /\ n.rest = Tail(p.rest) /\ n.links = p.links
      BY <3>2, PositionIs
    <3>4. QED
      BY <1>2, <2>0, <3>2, <3>3 DEF n, m
  <2>3. CASE Head(p.rest) \notin {Dot, DotDot} /\ ~Follows(t, p, TRUE)
    <3>1. /\ n = Position(EntryAt(p), Tail(p.rest), p.links)
          /\ m = Position(EntryAt(p), Tail(q.rest), p.links)
      BY <1>1, <1>2, <1>3, <1>4, <2>3 DEF Onward
    <3> HIDE DEF n, m
    <3>2. n.at = EntryAt(p) /\ n.rest = Tail(p.rest) /\ n.links = p.links
      BY <3>1, PositionIs
    <3>3. QED
      BY <1>2, <2>0, <3>1, <3>2 DEF n, m
  <2>4. CASE Head(p.rest) \notin {Dot, DotDot} /\ Follows(t, p, TRUE)
    <3> DEFINE target == t[EntryAt(p)].target
               from == IF Rooted(target) THEN <<>> ELSE p.at
    <3>1. EntryAt(p) \in DOMAIN t
      BY <1>6, <2>4, OnwardFacts
    <3>2. Components(target) \in Seq(Pieces)
      BY <3>1, TreeFacts, TextFacts, ComponentsTyped
    <3> DEFINE first == Components(target)
               last == Tail(p.rest)
    <3>3. /\ n = Position(from, first \o last, p.links + 1)
          /\ m = Position(from, first \o Tail(q.rest), p.links + 1)
      BY <1>1, <1>2, <1>3, <1>4, <2>4 DEF Onward
    <3>4. first \in Seq(Pieces) /\ last \in Seq(Pieces) /\ Tail(q.rest) = last \o more
      BY <1>2, <3>2
    <3> HIDE DEF n, m, first, last, from
    <3>5. first \o (last \o more) = (first \o last) \o more
      BY <3>4, ConcatTwice
    <3> DEFINE rest == first \o last
    <3>6. n.at = from /\ n.rest = rest /\ n.links = p.links + 1
      <4>1. n = Position(from, rest, p.links + 1)
        BY <3>3
      <4> HIDE DEF rest
      <4>2. QED
        BY <4>1 DEF Position
    <3>7. QED
      BY <2>0, <3>3, <3>4, <3>5, <3>6 DEF n, m
  <2>5. QED
    BY <2>1, <2>2, <2>3, <2>4
<1>7. QED
  BY <1>5, <1>6 DEF q

\* Induction over lookups.
LEMMA LookingInduction ==
  ASSUME NEW t, IsTree(t), NEW T \in SUBSET Looking(t),
         \A q \in Looking(t) :
           (\A r \in Looking(t) : Less(LinksLeft(t), WayLeft(t), r, q) => r \in T) => q \in T
  PROVE  T = Looking(t)
<1>1. LinksLeft(t) \in [Looking(t) -> Nat] /\ WayLeft(t) \in [Looking(t) -> Nat]
  BY WaysAreMeasured
<1>2. QED
  BY <1>1, MeasureInduction

\* A path that is found leads somewhere from where what follows goes on, over
\* no fewer links.
Arrives(t, p, q) ==
  /\ q \in Looking(t) /\ q.rest = <<>> /\ q.links >= p.links
  /\ Look(t, TRUE)[p] = Answer("found", q.at)
  /\ \A more \in Seq(Pieces) : Look(t, TRUE)[Long(p, more)] = Look(t, TRUE)[Position(q.at, more, q.links)]

LEMMA Arrival ==
  ASSUME NEW t, IsTree(t), NEW p \in Looking(t), Look(t, TRUE)[p].is = "found"
  PROVE  \E q : Arrives(t, p, q)
<1> DEFINE a(q) == Look(t, TRUE)[q]
           T == {q \in Looking(t) : a(q).is = "found" => \E r : Arrives(t, q, r)}
<1>1. ASSUME NEW q \in Looking(t), \A r \in Looking(t) : Less(LinksLeft(t), WayLeft(t), r, q) => r \in T
      PROVE  q \in T
  <2> SUFFICES ASSUME a(q).is = "found" PROVE \E r : Arrives(t, q, r)
    OBVIOUS
  <2>1. CASE Verdict(t, q, TRUE).is = "underway"
    <3> DEFINE n == Onward(t, q, TRUE)
    <3>1. n \in T /\ n \in Looking(t)
      BY <1>1, <2>1, WaysAreMeasured
    <3>2. a(q) = a(n)
      BY <2>1, LookIs
    <3>3. PICK r : Arrives(t, n, r)
      BY <3>1, <3>2
    <3>4. q.rest # <<>>
      BY <2>1, OnwardFacts
    <3>5. n.links >= q.links /\ n.links \in Nat /\ q.links \in Nat
      <4>1. LinkLimit - n.links < LinkLimit - q.links \/ n.links = q.links
        BY <2>1, OnwardFacts
      <4>2. n.links \in Nat /\ q.links \in Nat /\ LinkLimit \in Nat
        BY <3>1, LookingFacts
      <4> HIDE DEF n
      <4>3. QED
        BY <4>1, <4>2
    <3>6. ASSUME NEW more \in Seq(Pieces) PROVE a(Long(q, more)) = a(Long(n, more))
      <4>1. Verdict(t, Long(q, more), TRUE).is = "underway" /\ Onward(t, Long(q, more), TRUE) = Long(n, more)
        BY <2>1, <3>4, OnwardLong
      <4>2. Long(q, more) \in Looking(t)
        BY LongFacts
      <4>3. QED
        BY <4>1, <4>2, LookIs
    <3> HIDE DEF n
    <3>7. r \in Looking(t) /\ r.links \in Nat
      BY <3>3, LookingFacts DEF Arrives
    <3>8. r.links >= q.links
      BY <3>3, <3>5, <3>7 DEF Arrives
    <3>9. Arrives(t, q, r)
      BY <3>2, <3>3, <3>6, <3>8 DEF Arrives
    <3>10. QED
      BY <3>9
  <2>2. CASE Verdict(t, q, TRUE).is # "underway"
    <3>1. a(q) = Verdict(t, q, TRUE)
      BY <2>2, LookIs
    <3>2. q.rest = <<>> /\ Verdict(t, q, TRUE) = Answer("found", q.at)
      BY <3>1, VerdictIs DEF Verdict
    <3>3. ASSUME NEW more \in Seq(Pieces) PROVE Long(q, more) = Position(q.at, more, q.links)
      BY <3>2 DEF Long
    <3>4. q.links >= q.links
      BY LookingFacts
    <3>5. Arrives(t, q, q)
      BY <3>1, <3>2, <3>3, <3>4 DEF Arrives
    <3>6. QED
      BY <3>5
  <2>3. QED
    BY <2>1, <2>2
<1>2. T = Looking(t)
  <2>1. T \in SUBSET Looking(t)
    OBVIOUS
  <2> HIDE DEF T
  <2>2. QED
    BY <1>1, <2>1, LookingInduction
<1>3. QED
  BY <1>2

\* A path that is found is found up to every piece of it.
LEMMA PrefixIsFound ==
  ASSUME NEW t, IsTree(t), NEW more \in Seq(Pieces)
  PROVE  \A p \in Looking(t) : Look(t, TRUE)[Long(p, more)].is = "found" => Look(t, TRUE)[p].is = "found"
<1> DEFINE a(q) == Look(t, TRUE)[q]
           Good(q) == a(Long(q, more)).is = "found" => a(q).is = "found"
           T == {q \in Looking(t) : Good(q)}
<1>1. ASSUME NEW q \in Looking(t), \A r \in Looking(t) : Less(LinksLeft(t), WayLeft(t), r, q) => r \in T
      PROVE  q \in T
  <2> SUFFICES ASSUME a(Long(q, more)).is = "found" PROVE a(q).is = "found"
    OBVIOUS
  <2>1. Long(q, more) \in Looking(t) /\ Long(q, more).rest = q.rest \o more /\ q.rest \in Seq(Pieces)
    BY LongFacts, LookingFacts
  <2>2. CASE q.rest = <<>>
    <3>1. Verdict(t, q, TRUE).is = "found"
      BY <2>2, VerdictIs
    <3>2. QED
      BY <3>1, LookIs
  <2>3. CASE q.rest # <<>>
    <3> DEFINE n == Onward(t, q, TRUE)
    <3>1. Long(q, more).rest # <<>>
      BY <2>1, <2>3, JoinFacts
    <3>2. Verdict(t, Long(q, more), TRUE).is = "underway"
      <4>1. Verdict(t, Long(q, more), TRUE).is # "found"
        BY <2>1, <3>1, VerdictIs
      <4>2. QED
        BY <2>1, <4>1, LookIs
    <3>3. Verdict(t, q, TRUE).is = "underway" /\ Onward(t, Long(q, more), TRUE) = Long(n, more)
      BY <2>3, <3>2, OnwardLong
    <3>4. a(q) = a(n) /\ a(Long(q, more)) = a(Long(n, more))
      BY <2>1, <3>2, <3>3, LookIs
    <3>5. n \in T
      BY <1>1, <3>3, WaysAreMeasured
    <3>6. QED
      BY <3>4, <3>5
  <2>4. QED
    BY <2>2, <2>3
<1>2. T = Looking(t)
  <2>1. T \in SUBSET Looking(t)
    OBVIOUS
  <2> HIDE DEF T
  <2>2. QED
    BY <1>1, <2>1, LookingInduction
<1>3. QED
  BY <1>2

-----------------------------------------------------------------------------
(* Names below a directory.                                                *)

Plain == Pieces \ {Empty, Dot, DotDot}
Ways == Seq(ToSet(Names))

LEMMA NamesFacts ==
  /\ ToSet(Names) \subseteq Plain
  /\ \A way \in Ways : way \in Seq(Plain) /\ way \in Seq(Named) /\ way \in Seq(Pieces)
  /\ Plain \subseteq Named /\ Named \subseteq Pieces
<1>1. ToSet(Names) \subseteq Plain
  BY TreesAssumption DEF ToSet, Plain
<1>2. Plain \subseteq Named /\ Named \subseteq Pieces
  BY DEF Plain, Named
<1>3. QED
  BY <1>1, <1>2 DEF Ways

LEMMA ReducedBelow ==
  ASSUME NEW rooted, NEW s, Reduced(rooted, s), NEW way \in Seq(Plain)
  PROVE  Reduced(rooted, s \o way) /\ s \o way \in Seq(Named)
<1>1. s \in Seq(Named) /\ way \in Seq(Named) /\ \A i \in 1 .. Len(way) : way[i] \notin {Dot, DotDot}
  BY NamesFacts DEF Reduced, Plain
<1> DEFINE n == Len(s)
           whole == s \o way
<1>2. /\ whole \in Seq(Named) /\ n \in Nat /\ Len(way) \in Nat /\ Len(whole) = n + Len(way)
      /\ \A i \in 1 .. Len(whole) : whole[i] = IF i <= n THEN s[i] ELSE way[i - n]
  BY <1>1, ConcatProperties
<1>3. /\ \A i \in 1 .. n : s[i] # Dot /\ (rooted => s[i] # DotDot)
      /\ \A i, j \in 1 .. n : i < j /\ s[j] = DotDot => s[i] = DotDot
  BY DEF Reduced
<1> HIDE DEF whole, n
<1>4. ASSUME NEW i \in 1 .. Len(whole)
      PROVE  \/ i \in 1 .. n /\ whole[i] = s[i]
             \/ whole[i] \notin {Dot, DotDot}
  <2>1. CASE i <= n
    BY <1>2, <2>1
  <2>2. CASE ~(i <= n)
    <3>1. i - n \in 1 .. Len(way)
      BY <1>2, <2>2
    <3>2. QED
      BY <1>1, <1>2, <2>2, <3>1
  <2>3. QED
    BY <2>1, <2>2
<1>5. \A i \in 1 .. Len(whole) : whole[i] # Dot /\ (rooted => whole[i] # DotDot)
  BY <1>3, <1>4
<1>6. ASSUME NEW i \in 1 .. Len(whole), NEW j \in 1 .. Len(whole), i < j, whole[j] = DotDot PROVE whole[i] = DotDot
  <2>1. j \in 1 .. n /\ s[j] = DotDot
    BY <1>4, <1>6
  <2>2. i \in 1 .. n /\ whole[i] = s[i]
    BY <1>2, <1>6, <2>1
  <2>3. QED
    BY <1>3, <1>6, <2>1, <2>2
<1>7. Reduced(rooted, whole)
  BY <1>2, <1>5, <1>6 DEF Reduced
<1>8. QED
  BY <1>2, <1>7 DEF whole

LEMMA AppendedWay ==
  ASSUME NEW s \in Seq(Pieces), NEW way \in Seq(Pieces), NEW n \in Pieces
  PROVE  /\ s \o Append(way, n) = Append(s \o way, n)
         /\ Append(s, n) \o way = s \o (<<n>> \o way)
         /\ Append(s, n) = s \o <<n>> /\ s \o <<>> = s /\ <<n>> \in Seq(Pieces)
<1> DEFINE one == <<n>>
<1>1. one \in Seq(Pieces) /\ s \o way \in Seq(Pieces)
  BY ConcatFacts
<1>2. Append(way, n) = way \o one /\ Append(s, n) = s \o one /\ Append(s \o way, n) = (s \o way) \o one
  BY <1>1, AppendIsConcat
<1>3. s \o <<>> = s
  BY ConcatEmptySeq
<1> HIDE DEF one
<1>4. (s \o way) \o one = s \o (way \o one) /\ (s \o one) \o way = s \o (one \o way)
  BY <1>1, ConcatTwice
<1>5. QED
  BY <1>1, <1>2, <1>3, <1>4 DEF one

\* A name in a directory gives the text of the directory with the name behind.
LEMMA ChildIs ==
  ASSUME NEW rooted \in BOOLEAN, NEW s, Reduced(rooted, s), NEW n \in Plain
  PROVE  /\ Reduced(rooted, Append(s, n))
         /\ Child(Build(rooted, s), n) = Build(rooted, Append(s, n))
         /\ Build(rooted, s) \in AllTexts
<1>0. n \in Named /\ s \in Seq(Named) /\ n \in Pieces /\ s \in Seq(Pieces)
  BY NamesFacts, ReducedNames
<1> DEFINE names == <<n>>
           base == Build(rooted, s)
           text == Build(rooted, Append(s, n))
<1>1. Reduced(rooted, Append(s, n))
  BY <1>0, ReducedAppend DEF Plain
<1>2. names \in Seq(Named) /\ Singles(names) = <<<<n>>>>
  BY <1>0 DEF Singles
<1>3. text \in AllTexts /\ Rooted(text) = rooted /\ Clean(text) = text
      /\ StackOf(rooted, Components(text)) = Append(s, n)
  BY <1>1, StackOfClean
<1>4. /\ base \in AllTexts /\ Rooted(base) = rooted
      /\ StackOf(rooted, Components(base) \o names) = StackOf(rooted, s \o names)
  <2> HIDE DEF names
  <2>1. QED
    BY <1>2, StackOfClean
<1>5. s \o names = Append(s, n)
  BY <1>0, AppendedWay
<1>6. StackOf(rooted, Append(s, n)) = Append(s, n)
  BY <1>1, StackOfReduced
<1> HIDE DEF names, base, text
<1>7. JoinTexts(base, Singles(names)) = Clean(text)
  BY <1>2, <1>3, <1>4, <1>5, <1>6, JoinNames
<1>8. QED
  BY <1>1, <1>2, <1>3, <1>4, <1>7 DEF Child, base, text

LEMMA BuildOnce ==
  ASSUME NEW rooted \in BOOLEAN, NEW a, Reduced(rooted, a), NEW b, Reduced(rooted, b),
         Build(rooted, a) = Build(rooted, b)
  PROVE  a = b
<1>1. /\ Components(Build(rooted, a)) = IF a = <<>> /\ ~rooted THEN <<Dot>> ELSE a
      /\ Components(Build(rooted, b)) = IF b = <<>> /\ ~rooted THEN <<Dot>> ELSE b
  BY BuildFacts
<1>2. a # <<Dot>> /\ b # <<Dot>>
  BY ReducedNames
<1>3. QED
  BY <1>1, <1>2

-----------------------------------------------------------------------------
(* Where texts lead.                                                       *)

Start0(s) == Position(<<>>, s, 0)
Reached(t, s) == Look(t, TRUE)[Start0(s)]
Leading(t, s) == Reached(t, s).is = "found" /\ t[Reached(t, s).at].kind = "directory"
Holds(t, s, n) == Leading(t, s) /\ Append(Reached(t, s).at, n) \in DOMAIN t

LEMMA StartIsLooked ==
  ASSUME NEW t, IsTree(t), NEW s \in Seq(Pieces)
  PROVE  /\ Start0(s) \in Looking(t) /\ Start0(s).rest = s /\ Start0(s).at = <<>> /\ Start0(s).links = 0
         /\ \A more \in Seq(Pieces) : Long(Start0(s), more) = Start0(s \o more)
<1> DEFINE none == <<>>
<1>1. none \in DOMAIN t /\ 0 \in 0 .. LinkLimit
  BY TreeFacts, TreesAssumption
<1>2. Start0(s) = Position(none, s, 0)
  BY DEF Start0
<1> HIDE DEF none
<1>3. Position(none, s, 0) \in Looking(t)
  BY <1>1, PositionsAreLooked
<1>4. Start0(s).rest = s /\ Start0(s).at = none /\ Start0(s).links = 0
  BY <1>2, PositionIs
<1>5. ASSUME NEW more PROVE Long(Start0(s), more) = Start0(s \o more)
  BY <1>4 DEF Long, Start0, none
<1>6. QED
  BY <1>2, <1>3, <1>4, <1>5 DEF none

LEMMA StatOfBuild ==
  ASSUME NEW t, IsTree(t), NEW rooted \in BOOLEAN, NEW s, Reduced(rooted, s)
  PROVE  Stat(t, Build(rooted, s)) = Reached(t, s) /\ (IsDir(t, Build(rooted, s)) <=> Leading(t, s))
<1> DEFINE text == Build(rooted, s)
           none == <<>>
           one == <<Dot>>
<1>0. s \in Seq(Named) /\ s \in Seq(Pieces)
  BY ReducedNames
<1>1. /\ text \in AllTexts /\ Components(text) = IF s = <<>> /\ ~rooted THEN <<Dot>> ELSE s
  BY BuildFacts
<1>2. text # EmptyText
  <2>1. CASE s = <<>>
    BY <2>1, PieceFacts DEF Build, Root, Current, EmptyText
  <2>2. CASE s # <<>>
    <3>1. Components(EmptyText) = <<>>
      BY EmptyTextFacts
    <3>2. QED
      BY <1>1, <2>2, <3>1
  <2>3. QED
    BY <2>1, <2>2
<1>3. Stat(t, text) = Look(t, TRUE)[Position(<<>>, Components(text), 0)]
  BY <1>2, SeekIs DEF Stat
<1>4. Look(t, TRUE)[Start0(one)] = Look(t, TRUE)[Start0(none)]
  <2>0. one \in Seq(Pieces) /\ none \in Seq(Pieces) /\ one # <<>> /\ Head(one) = Dot /\ Tail(one) = none
    BY PieceFacts
  <2> HIDE DEF one
  <2> DEFINE p == Start0(one)
  <2>1. p \in Looking(t) /\ p.rest = one /\ p.at = none /\ p.links = 0
    BY <2>0, StartIsLooked
  <2> HIDE DEF p
  <2>2. t[p.at].kind = "directory"
    BY <2>1, TreeFacts, NodesAre
  <2>3. Verdict(t, p, TRUE).is = "underway"
    BY <2>0, <2>1, <2>2, VerdictIs
  <2>4. Onward(t, p, TRUE) = Start0(none)
    BY <2>0, <2>1 DEF Onward, Start0
  <2>5. QED
    BY <2>1, <2>3, <2>4, LookIs DEF p
<1>5. Stat(t, text) = Reached(t, s)
  BY <1>1, <1>3, <1>4 DEF Reached, Start0
<1>6. QED
  BY <1>5 DEF IsDir, Leading

\* What is found is found up to each piece, and in directories.
LEMMA ReachedBefore ==
  ASSUME NEW t, IsTree(t), NEW s \in Seq(Pieces), NEW more \in Seq(Pieces), Reached(t, s \o more).is = "found"
  PROVE  Reached(t, s).is = "found"
<1>1. Start0(s) \in Looking(t) /\ Long(Start0(s), more) = Start0(s \o more)
  BY StartIsLooked
<1>2. QED
  BY <1>1, PrefixIsFound DEF Reached

\* One name more.
LEMMA ReachedStep ==
  ASSUME NEW t, IsTree(t), NEW s \in Seq(Pieces), NEW n \in Plain,
         NEW q, Arrives(t, Start0(s), q), Reached(t, Append(s, n)).is = "found"
  PROVE  /\ Holds(t, s, n)
         /\ \E r : Arrives(t, Start0(Append(s, n)), r)
                   /\ \/ r.links = q.links /\ Len(r.at) = Len(q.at) + 1
                      \/ r.links > q.links
<1>0. n \in Pieces /\ n \notin {Dot, DotDot}
  BY DEF Plain
<1> DEFINE one == <<n>>
           none == <<>>
           p == Position(q.at, one, q.links)
           longer == Append(s, n)
           m == Onward(t, p, TRUE)
<1>1. one \in Seq(Pieces) /\ one # <<>> /\ Head(one) = n /\ Tail(one) = none /\ none \in Seq(Pieces) /\ Len(one) = 1
  BY <1>0
<1>2. longer = s \o one /\ longer \in Seq(Pieces)
  BY <1>0, AppendedWay, AppendFacts
<1> HIDE DEF one, none, longer
<1>3. /\ q \in Looking(t) /\ q.at \in DOMAIN t /\ q.at \in Seq(Pieces) /\ q.links \in 0 .. LinkLimit /\ q.links \in Nat
      /\ Look(t, TRUE)[Start0(s)] = Answer("found", q.at)
      /\ \A more \in Seq(Pieces) : Look(t, TRUE)[Long(Start0(s), more)] = Look(t, TRUE)[Position(q.at, more, q.links)]
  BY LookingFacts DEF Arrives
<1>4. \A more \in Seq(Pieces) : Long(Start0(s), more) = Start0(s \o more)
  BY StartIsLooked
<1>5. Look(t, TRUE)[Start0(longer)] = Look(t, TRUE)[p]
  BY <1>1, <1>2, <1>3, <1>4
<1>6. Look(t, TRUE)[p].is = "found"
  BY <1>5 DEF Reached, longer
<1>7. p \in Looking(t) /\ p.at = q.at /\ p.rest = one /\ p.links = q.links
  BY <1>1, <1>3, PositionsAreLooked, PositionIs
<1>8. \A more \in Seq(Pieces) : Long(Start0(longer), more) = Start0(longer \o more)
  BY <1>2, StartIsLooked
<1> HIDE DEF p
<1>9. Verdict(t, p, TRUE).is = "underway"
  <2>1. Verdict(t, p, TRUE).is # "found"
    BY <1>1, <1>7, VerdictIs
  <2>2. QED
    BY <1>6, <1>7, <2>1, LookIs
<1>10. EntryAt(p) = Append(q.at, n) /\ EntryAt(p) \in DOMAIN t /\ t[q.at].kind = "directory"
  BY <1>0, <1>1, <1>7, <1>9, OnwardFacts DEF EntryAt
<1>11. Holds(t, s, n)
  <2>1. Reached(t, s) = Answer("found", q.at)
    BY <1>3 DEF Reached
  <2>2. Reached(t, s).is = "found" /\ Reached(t, s).at = q.at
    BY <2>1 DEF Answer
  <2>3. QED
    BY <1>10, <2>2 DEF Holds, Leading
<1>12. m \in Looking(t) /\ Look(t, TRUE)[p] = Look(t, TRUE)[m]
  BY <1>7, <1>9, OnwardFacts, LookIs
<1>13. \/ m.links = q.links /\ m.rest = none /\ m.at = Append(q.at, n)
       \/ m.links = q.links + 1
  <2>1. CASE Follows(t, p, TRUE)
    <3> DEFINE target == t[EntryAt(p)].target
               from == IF Rooted(target) THEN <<>> ELSE p.at
               rest == Components(target) \o Tail(p.rest)
    <3>1. m = Position(from, rest, p.links + 1)
      BY <1>0, <1>1, <1>7, <2>1 DEF Onward
    <3> HIDE DEF m, from, rest
    <3>2. m.links = p.links + 1
      BY <3>1 DEF Position
    <3>3. QED
      BY <1>7, <3>2
  <2>2. CASE ~Follows(t, p, TRUE)
    <3>1. m = Position(EntryAt(p), Tail(p.rest), p.links)
      BY <1>0, <1>1, <1>7, <2>2 DEF Onward
    <3> HIDE DEF m
    <3>2. m.links = p.links /\ m.rest = Tail(p.rest) /\ m.at = EntryAt(p)
      BY <3>1 DEF Position
    <3>3. QED
      BY <1>1, <1>7, <1>10, <3>2
  <2>3. QED
    BY <2>1, <2>2
<1>14. \A more \in Seq(Pieces) : Look(t, TRUE)[Long(Start0(longer), more)] = Look(t, TRUE)[Long(m, more)]
  <2> SUFFICES ASSUME NEW more \in Seq(Pieces)
               PROVE  Look(t, TRUE)[Long(Start0(longer), more)] = Look(t, TRUE)[Long(m, more)]
    OBVIOUS
  <2>1. Long(Start0(longer), more) = Start0(s \o (one \o more)) /\ one \o more \in Seq(Pieces)
    <3>1. longer \o more = s \o (one \o more)
      BY <1>0, AppendedWay DEF one, longer
    <3>2. one \o more \in Seq(Pieces)
      BY <1>1, ConcatFacts
    <3>3. QED
      BY <1>8, <3>1, <3>2
  <2>2. Look(t, TRUE)[Start0(s \o (one \o more))] = Look(t, TRUE)[Position(q.at, one \o more, q.links)]
    BY <1>3, <1>4, <2>1
  <2>3. Position(q.at, one \o more, q.links) = Long(p, more)
    BY <1>7 DEF Long
  <2>4. Long(p, more) \in Looking(t) /\ Verdict(t, Long(p, more), TRUE).is = "underway"
        /\ Onward(t, Long(p, more), TRUE) = Long(m, more)
    <3>1. p.rest # <<>>
      BY <1>1, <1>7
    <3>2. Long(p, more) \in Looking(t)
      BY <1>7, LongFacts
    <3>3. /\ Verdict(t, Long(p, more), TRUE).is = "underway"
          /\ Onward(t, Long(p, more), TRUE) = Long(Onward(t, p, TRUE), more)
      BY <1>7, <1>9, <3>1, OnwardLong
    <3>4. QED
      BY <3>2, <3>3
  <2>5. Look(t, TRUE)[Long(p, more)] = Look(t, TRUE)[Long(m, more)]
    BY <2>4, LookIs
  <2>6. QED
    BY <2>1, <2>2, <2>3, <2>5
<1> HIDE DEF m
<1>15. PICK r : Arrives(t, m, r)
  BY <1>6, <1>12, Arrival
<1>16. r \in Looking(t) /\ r.links \in Nat /\ m.links \in Nat /\ r.links >= m.links
       /\ Look(t, TRUE)[m] = Answer("found", r.at)
  BY <1>12, <1>15, LookingFacts DEF Arrives
<1>17. Arrives(t, Start0(longer), r)
  <2>1. Start0(longer).links = 0
    BY <1>2, StartIsLooked
  <2>2. Look(t, TRUE)[Start0(longer)] = Answer("found", r.at)
    BY <1>5, <1>12, <1>16
  <2>3. ASSUME NEW more \in Seq(Pieces)
        PROVE  Look(t, TRUE)[Long(Start0(longer), more)] = Look(t, TRUE)[Position(r.at, more, r.links)]
    BY <1>14, <1>15 DEF Arrives
  <2>4. r.rest = <<>> /\ r.links >= Start0(longer).links
    BY <1>15, <1>16, <2>1 DEF Arrives
  <2>5. QED
    BY <1>16, <2>2, <2>3, <2>4 DEF Arrives
<1>18. \/ r.links = q.links /\ Len(r.at) = Len(q.at) + 1
       \/ r.links > q.links
  <2>1. CASE m.links = q.links + 1
    BY <1>3, <1>16, <2>1
  <2>2. CASE m.links = q.links /\ m.rest = none /\ m.at = Append(q.at, n)
    <3>1. Look(t, TRUE)[m] = Answer("found", m.at)
      <4>1. Verdict(t, m, TRUE) = Answer("found", m.at)
        BY <2>2 DEF Verdict, none
      <4>2. QED
        BY <1>12, <4>1, LookIs, AnswerIs
    <3>2. r.at = m.at
      <4>1. Answer("found", r.at) = Answer("found", m.at)
        BY <1>16, <3>1
      <4>2. Answer("found", r.at).at = r.at /\ Answer("found", m.at).at = m.at
        BY DEF Answer
      <4>3. QED
        BY <4>1, <4>2
    <3>3. Len(r.at) = Len(q.at) + 1
      BY <1>0, <1>3, <2>2, <3>2, AppendFacts
    <3>4. QED
      BY <1>3, <1>16, <2>2, <3>3
  <2>3. QED
    BY <1>13, <2>1, <2>2
<1>19. QED
  BY <1>11, <1>17, <1>18 DEF longer

LEMMA HeadAndTail ==
  ASSUME NEW S, NEW s \in Seq(S), s # <<>>
  PROVE  /\ Head(s) \in S /\ Tail(s) \in Seq(S) /\ s = <<Head(s)>> \o Tail(s)
         /\ Len(s) = Len(Tail(s)) + 1 /\ Len(Tail(s)) \in Nat
         /\ Head(s) = s[1] /\ \A i \in 1 .. Len(Tail(s)) : Tail(s)[i] = s[i + 1]
<1>1. /\ Head(s) \in S /\ Tail(s) \in Seq(S) /\ Len(s) = Len(Tail(s)) + 1 /\ Len(Tail(s)) \in Nat
      /\ Head(s) = s[1] /\ \A i \in 1 .. Len(Tail(s)) : Tail(s)[i] = s[i + 1]
  OBVIOUS
<1> DEFINE one == <<Head(s)>>
           rest == Tail(s)
<1>2. one \in Seq(S) /\ Len(one) = 1 /\ one[1] = s[1] /\ rest \in Seq(S)
  BY <1>1
<1>3. Len(s) = Len(rest) + 1 /\ Len(rest) \in Nat /\ \A i \in 1 .. Len(rest) : rest[i] = s[i + 1]
  BY <1>1
<1> HIDE DEF one, rest
<1>4. /\ one \o rest \in Seq(S) /\ Len(one \o rest) = Len(s)
      /\ \A i \in 1 .. Len(s) : (one \o rest)[i] = IF i <= 1 THEN one[i] ELSE rest[i - 1]
  <2>1. /\ one \o rest \in Seq(S) /\ Len(one \o rest) = Len(one) + Len(rest)
        /\ \A i \in 1 .. Len(one) + Len(rest) :
             (one \o rest)[i] = IF i <= Len(one) THEN one[i] ELSE rest[i - Len(one)]
    BY <1>2, ConcatProperties
  <2>2. Len(one) + Len(rest) = Len(s)
    BY <1>2, <1>3
  <2>3. QED
    BY <1>2, <2>1, <2>2
<1>5. ASSUME NEW i \in 1 .. Len(s) PROVE s[i] = (one \o rest)[i]
  <2>1. CASE i = 1
    BY <1>2, <1>4, <2>1
  <2>2. CASE i # 1
    <3>1. i - 1 \in 1 .. Len(rest) /\ (i - 1) + 1 = i /\ ~(i <= 1)
      BY <1>3, <2>2
    <3>2. QED
      BY <1>3, <1>4, <3>1
  <2>3. QED
    BY <2>1, <2>2
<1>6. s = one \o rest
  BY <1>4, <1>5, SeqEqual
<1>7. QED
  BY <1>1, <1>6 DEF one, rest

\* What is found below a directory goes through it.
LEMMA ReachedThrough ==
  ASSUME NEW t, IsTree(t), NEW s \in Seq(Pieces), NEW n \in Plain, NEW w \in Seq(Pieces),
         Reached(t, Append(s, n) \o w).is = "found"
  PROVE  Holds(t, s, n)
<1>0. n \in Pieces /\ Append(s, n) \in Seq(Pieces) /\ <<n>> \in Seq(Pieces) /\ Append(s, n) = s \o <<n>>
  BY AppendedWay, AppendFacts DEF Plain
<1>1. Reached(t, Append(s, n)).is = "found"
  BY <1>0, ReachedBefore
<1>2. Reached(t, s).is = "found"
  <2> DEFINE one == <<n>>
  <2>1. one \in Seq(Pieces) /\ Reached(t, s \o one).is = "found"
    BY <1>0, <1>1
  <2> HIDE DEF one
  <2>2. QED
    BY <2>1, ReachedBefore
<1>3. PICK q : Arrives(t, Start0(s), q)
  BY <1>2, StartIsLooked, Arrival DEF Reached
<1>4. QED
  BY <1>1, <1>3, ReachedStep

-----------------------------------------------------------------------------
(* How deep a traversal can get.                                           *)

Flat(t) == \A l \in DOMAIN t : Len(l) <= Depth
Worth(q) == q.links * (Depth + 1) + Len(q.at)

LEMMA MoreLinks ==
  ASSUME NEW a \in Nat, NEW b \in Nat, NEW d \in Nat, a > b
  PROVE  a * (d + 1) >= b * (d + 1) + d + 1 /\ a * (d + 1) \in Nat /\ b * (d + 1) \in Nat
<1>1. PICK k \in Nat : a = b + 1 + k
  <2>1. a - b - 1 \in Nat
    OBVIOUS
  <2>2. QED
    BY <2>1
<1>2. a * (d + 1) = b * (d + 1) + (d + 1) + k * (d + 1)
  BY <1>1
<1>3. k * (d + 1) \in Nat /\ b * (d + 1) \in Nat
  OBVIOUS
<1>4. QED
  BY <1>2, <1>3

LEMMA WaysAreShort ==
  ASSUME NEW t, IsTree(t), Flat(t), NEW s \in Seq(Pieces), NEW way \in Seq(Plain),
         Reached(t, s \o way).is = "found"
  PROVE  Len(way) < Deepest /\ Deepest \in Nat
<1> DEFINE Short(w) == Reached(t, s \o w).is = "found" =>
                         \E q : Arrives(t, Start0(s \o w), q) /\ Len(w) <= Worth(q)
           T == {w \in Seq(Plain) : Short(w)}
<1>0. Depth \in Nat /\ LinkLimit \in Nat
  BY TreesAssumption
<1>1. ASSUME NEW q, NEW p, Arrives(t, p, q)
      PROVE  /\ q.links \in 0 .. LinkLimit /\ Len(q.at) \in 0 .. Depth /\ Worth(q) \in Nat
             /\ q.links * (Depth + 1) \in Nat
  <2>1. q.links \in 0 .. LinkLimit /\ q.at \in DOMAIN t /\ q.at \in Seq(Pieces)
    BY <1>1, LookingFacts DEF Arrives
  <2>2. Len(q.at) \in 0 .. Depth
    BY <1>0, <2>1 DEF Flat
  <2>3. q.links * (Depth + 1) \in Nat
    BY <1>0, <2>1
  <2>4. QED
    BY <1>0, <2>1, <2>2, <2>3 DEF Worth
<1>2. <<>> \in T
  <2> DEFINE none == <<>>
  <2>1. none \in Seq(Plain) /\ Len(none) = 0 /\ none \in Seq(Pieces)
    OBVIOUS
  <2> HIDE DEF none
  <2>2. ASSUME Reached(t, s \o none).is = "found"
        PROVE  \E q : Arrives(t, Start0(s \o none), q) /\ Len(none) <= Worth(q)
    <3>1. s \o none \in Seq(Pieces)
      BY <2>1, ConcatFacts
    <3>2. PICK q : Arrives(t, Start0(s \o none), q)
      BY <2>2, <3>1, StartIsLooked, Arrival DEF Reached
    <3>3. Worth(q) \in Nat
      BY <1>1, <3>2
    <3>4. QED
      BY <2>1, <3>2, <3>3
  <2>3. none \in T
    BY <2>1, <2>2
  <2>4. QED
    BY <2>3 DEF none
<1>3. ASSUME NEW w \in T, NEW n \in Plain PROVE Append(w, n) \in T
  <2>1. /\ w \in Seq(Plain) /\ Append(w, n) \in Seq(Plain) /\ Len(Append(w, n)) = Len(w) + 1 /\ Len(w) \in Nat
        /\ w \in Seq(Pieces) /\ n \in Pieces
    BY AppendFacts DEF Plain
  <2>2. s \o w \in Seq(Pieces) /\ s \o Append(w, n) = Append(s \o w, n)
    BY <2>1, ConcatFacts, AppendedWay
  <2>3. ASSUME Reached(t, s \o Append(w, n)).is = "found"
        PROVE  \E q : Arrives(t, Start0(s \o Append(w, n)), q) /\ Len(Append(w, n)) <= Worth(q)
    <3>1. Reached(t, s \o w).is = "found"
      <4> DEFINE one == <<n>>
      <4>1. one \in Seq(Pieces) /\ Append(s \o w, n) = (s \o w) \o one
        BY <2>1, <2>2, AppendedWay
      <4> HIDE DEF one
      <4>2. QED
        BY <2>2, <2>3, <4>1, ReachedBefore
    <3>2. PICK q : Arrives(t, Start0(s \o w), q) /\ Len(w) <= Worth(q)
      BY <3>1
    <3>3. PICK r : Arrives(t, Start0(Append(s \o w, n)), r)
                   /\ \/ r.links = q.links /\ Len(r.at) = Len(q.at) + 1
                      \/ r.links > q.links
      BY <2>2, <2>3, <3>2, ReachedStep
    <3>4. /\ q.links \in Nat /\ r.links \in Nat /\ Len(q.at) \in 0 .. Depth /\ Len(r.at) \in Nat
          /\ r.links * (Depth + 1) \in Nat /\ q.links * (Depth + 1) \in Nat
      BY <1>0, <1>1, <3>2, <3>3
    <3>5. Worth(r) >= Worth(q) + 1
      <4>1. CASE r.links = q.links /\ Len(r.at) = Len(q.at) + 1
        BY <1>0, <3>4, <4>1 DEF Worth
      <4>2. CASE r.links > q.links
        <5>1. r.links * (Depth + 1) >= q.links * (Depth + 1) + Depth + 1
          BY <1>0, <3>4, <4>2, MoreLinks
        <5>2. QED
          BY <1>0, <3>4, <5>1 DEF Worth
      <4>3. QED
        BY <3>3, <4>1, <4>2
    <3>6. Worth(q) \in Nat /\ Worth(r) \in Nat
      BY <1>1, <3>2, <3>3
    <3>7. Len(Append(w, n)) <= Worth(r)
      BY <2>1, <3>2, <3>5, <3>6
    <3>8. QED
      BY <2>2, <3>3, <3>7
  <2>4. QED
    BY <2>1, <2>3
<1>4. T = Seq(Plain)
  <2>1. T \in SUBSET Seq(Plain)
    OBVIOUS
  <2> HIDE DEF T
  <2>2. QED
    BY <1>2, <1>3, <2>1, LongerAndLonger
<1>5. PICK q : Arrives(t, Start0(s \o way), q) /\ Len(way) <= Worth(q)
  BY <1>4
<1>6. /\ q.links \in 0 .. LinkLimit /\ Len(q.at) \in 0 .. Depth /\ q.links * (Depth + 1) \in Nat /\ Len(way) \in Nat
  BY <1>1, <1>5
<1>7. LinkLimit + 1 > q.links /\ LinkLimit + 1 \in Nat /\ q.links \in Nat
  BY <1>0, <1>6
<1>8. (LinkLimit + 1) * (Depth + 1) >= q.links * (Depth + 1) + Depth + 1 /\ (LinkLimit + 1) * (Depth + 1) \in Nat
  BY <1>0, <1>7, MoreLinks
<1>9. QED
  BY <1>0, <1>5, <1>6, <1>8 DEF Worth, Deepest

-----------------------------------------------------------------------------
(* Sequences without repetition.                                           *)

LEMMA AppendedItems ==
  ASSUME NEW S, NEW s \in Seq(S), NEW x \in S
  PROVE  /\ ToSet(Append(s, x)) = ToSet(s) \cup {x}
         /\ IsInjective(Append(s, x)) <=> IsInjective(s) /\ x \notin ToSet(s)
<1> DEFINE n == Len(s)
           a == Append(s, x)
<1>1. /\ a \in Seq(S) /\ Len(a) = n + 1 /\ n \in Nat /\ a[n + 1] = x /\ \A i \in 1 .. n : a[i] = s[i]
      /\ DOMAIN a = 1 .. n + 1 /\ DOMAIN s = 1 .. n
  BY AppendFacts
<1> HIDE DEF a, n
<1>2. 1 .. n + 1 = (1 .. n) \cup {n + 1} /\ n + 1 \notin 1 .. n
  BY <1>1
<1>3. ToSet(a) = ToSet(s) \cup {x}
  BY <1>1, <1>2 DEF ToSet
<1>4. ASSUME IsInjective(a) PROVE IsInjective(s) /\ x \notin ToSet(s)
  BY <1>1, <1>2, <1>4 DEF ToSet, IsInjective
<1>5. ASSUME IsInjective(s), x \notin ToSet(s) PROVE IsInjective(a)
  <2> SUFFICES ASSUME NEW i \in 1 .. n + 1, NEW j \in 1 .. n + 1, a[i] = a[j] PROVE i = j
    BY <1>1 DEF IsInjective
  <2>1. \A k \in 1 .. n : s[k] # x
    BY <1>1, <1>5 DEF ToSet
  <2>2. QED
    BY <1>1, <1>2, <1>5, <2>1 DEF IsInjective
<1>6. QED
  BY <1>3, <1>4, <1>5 DEF a

LEMMA TakenItems ==
  ASSUME NEW S, NEW s \in Seq(S), s # <<>>
  PROVE  /\ ToSet(s) = ToSet(Tail(s)) \cup {Head(s)}
         /\ IsInjective(s) => IsInjective(Tail(s)) /\ Head(s) \notin ToSet(Tail(s))
<1> DEFINE n == Len(Tail(s))
           a == Tail(s)
<1>1. /\ a \in Seq(S) /\ Len(s) = n + 1 /\ n \in Nat /\ Head(s) = s[1] /\ \A i \in 1 .. n : a[i] = s[i + 1]
      /\ DOMAIN a = 1 .. n /\ DOMAIN s = 1 .. n + 1
  BY HeadAndTail
<1> HIDE DEF a, n
<1>2. \A i \in 1 .. n : i + 1 \in 1 .. n + 1 /\ i + 1 # 1
  BY <1>1
<1>3. \A i \in 1 .. n + 1 : i = 1 \/ (i - 1 \in 1 .. n /\ (i - 1) + 1 = i)
  BY <1>1
<1>4. ToSet(s) = ToSet(a) \cup {Head(s)}
  <2>1. ASSUME NEW y \in ToSet(s) PROVE y \in ToSet(a) \cup {Head(s)}
    <3>1. PICK i \in 1 .. n + 1 : y = s[i]
      BY <1>1, <2>1 DEF ToSet
    <3>2. CASE i = 1
      BY <1>1, <3>1, <3>2
    <3>3. CASE i # 1
      <4>1. i - 1 \in 1 .. n /\ (i - 1) + 1 = i
        BY <1>3, <3>3
      <4>2. a[i - 1] = y
        BY <1>1, <3>1, <4>1
      <4>3. QED
        BY <1>1, <4>1, <4>2 DEF ToSet
    <3>4. QED
      BY <3>2, <3>3
  <2>2. ASSUME NEW y \in ToSet(a) \cup {Head(s)} PROVE y \in ToSet(s)
    <3>1. 1 \in 1 .. n + 1
      BY <1>1
    <3>2. Head(s) \in ToSet(s)
      BY <1>1, <3>1 DEF ToSet
    <3>3. ASSUME y \in ToSet(a) PROVE y \in ToSet(s)
      <4>1. PICK i \in 1 .. n : y = a[i]
        BY <1>1, <3>3 DEF ToSet
      <4>2. y = s[i + 1] /\ i + 1 \in 1 .. n + 1
        BY <1>1, <1>2, <4>1
      <4>3. QED
        BY <1>1, <4>2 DEF ToSet
    <3>4. QED
      BY <2>2, <3>2, <3>3
  <2>3. QED
    BY <2>1, <2>2
<1>5. ASSUME IsInjective(s) PROVE IsInjective(a) /\ Head(s) \notin ToSet(a)
  <2>1. ASSUME NEW i \in 1 .. n, NEW j \in 1 .. n, a[i] = a[j] PROVE i = j
    <3>1. s[i + 1] = s[j + 1] /\ i + 1 \in 1 .. n + 1 /\ j + 1 \in 1 .. n + 1
      BY <1>1, <1>2, <2>1
    <3>2. i + 1 = j + 1
      BY <1>1, <1>5, <3>1 DEF IsInjective
    <3>3. QED
      BY <3>2
  <2>2. ASSUME NEW i \in 1 .. n, a[i] = Head(s) PROVE FALSE
    <3>1. s[i + 1] = s[1] /\ i + 1 \in 1 .. n + 1 /\ 1 \in 1 .. n + 1
      BY <1>1, <1>2, <2>2
    <3>2. i + 1 = 1
      BY <1>1, <1>5, <3>1 DEF IsInjective
    <3>3. QED
      BY <1>2, <3>2
  <2>3. QED
    BY <1>1, <2>1, <2>2 DEF IsInjective, ToSet
<1>6. QED
  BY <1>4, <1>5 DEF a

LEMMA NoItems == IsInjective(<<>>) /\ ToSet(<<>>) = {}
<1>1. DOMAIN <<>> = {}
  OBVIOUS
<1>2. QED
  BY <1>1 DEF IsInjective, ToSet

\* What a sequence holds is what it is a sequence of.
LEMMA ItemsAre ==
  ASSUME NEW S, NEW s \in Seq(S)
  PROVE  /\ ToSet(s) \subseteq S /\ s \in Seq(ToSet(s)) /\ (ToSet(s) = {} => s = <<>>)
         /\ \A U : ToSet(s) \subseteq U => s \in Seq(U)
<1>1. Len(s) \in Nat /\ DOMAIN s = 1 .. Len(s) /\ \A i \in 1 .. Len(s) : s[i] \in S
  OBVIOUS
<1>2. \A i \in 1 .. Len(s) : s[i] \in ToSet(s)
  BY <1>1 DEF ToSet
<1>3. ToSet(s) \subseteq S
  BY <1>1 DEF ToSet
<1>4. ASSUME NEW U, ToSet(s) \subseteq U PROVE s \in Seq(U)
  BY <1>1, <1>2, <1>4
<1>5. ToSet(s) = {} => s = <<>>
  <2> SUFFICES ASSUME s # <<>> PROVE ToSet(s) # {}
    OBVIOUS
  <2>1. 1 \in 1 .. Len(s)
    BY <1>1
  <2>2. QED
    BY <1>2, <2>1
<1>6. QED
  BY <1>3, <1>4, <1>5

-----------------------------------------------------------------------------
(* What a directory lists.                                                 *)

KeepNames(t, directory) ==
  [turn \in Seq(Pieces) \X Pieces |->
     IF Append(directory, turn[2]) \in DOMAIN t THEN Append(turn[1], turn[2]) ELSE turn[1]]

LEMMA NamesKept ==
  ASSUME NEW t, NEW directory, NEW items \in Seq(Pieces)
  PROVE  LET kept == Folded(KeepNames(t, directory), <<>>, items) IN
         /\ kept \in Seq(Pieces)
         /\ ToSet(kept) = {x \in ToSet(items) : Append(directory, x) \in DOMAIN t}
         /\ IsInjective(items) => IsInjective(kept)
<1> DEFINE none == <<>>
           step == KeepNames(t, directory)
           Kept(q) == Folded(step, none, q)
           Good(q) == /\ Kept(q) \in Seq(Pieces)
                      /\ ToSet(Kept(q)) = {x \in ToSet(q) : Append(directory, x) \in DOMAIN t}
                      /\ IsInjective(q) => IsInjective(Kept(q))
           T == {q \in Seq(Pieces) : Good(q)}
<1>1. /\ IsStep(step, Seq(Pieces), Pieces)
      /\ \A s \in Seq(Pieces), x \in Pieces :
           step[<<s, x>>] = IF Append(directory, x) \in DOMAIN t THEN Append(s, x) ELSE s
  BY DEF KeepNames, IsStep
<1>2. none \in Seq(Pieces) /\ IsInjective(none) /\ ToSet(none) = {}
  BY NoItems
<1> HIDE DEF step
<1>3. <<>> \in T
  <2>1. Folded(step, none, <<>>) = none
    BY <1>1, <1>2, FoldedNothing
  <2> HIDE DEF Kept
  <2>2. none \in T
    <3>1. Kept(none) = none
      BY <2>1 DEF Kept, none
    <3> HIDE DEF none
    <3>2. QED
      BY <1>2, <3>1
  <2>3. QED
    BY <2>2 DEF none
<1>4. ASSUME NEW q \in T, NEW x \in Pieces PROVE Append(q, x) \in T
  <2>1. q \in Seq(Pieces) /\ Good(q) /\ Append(q, x) \in Seq(Pieces)
    BY AppendFacts
  <2> HIDE DEF none
  <2>2. Folded(step, none, Append(q, x)) = step[<<Folded(step, none, q), x>>]
    BY <1>1, <1>2, <2>1, FoldedAppend
  <2>3. Kept(Append(q, x)) = IF Append(directory, x) \in DOMAIN t THEN Append(Kept(q), x) ELSE Kept(q)
    BY <1>1, <2>1, <2>2
  <2> HIDE DEF Kept
  <2>4. /\ ToSet(Append(q, x)) = ToSet(q) \cup {x}
        /\ IsInjective(Append(q, x)) <=> IsInjective(q) /\ x \notin ToSet(q)
    BY <2>1, AppendedItems
  <2>5. CASE Append(directory, x) \in DOMAIN t
    <3>1. /\ ToSet(Append(Kept(q), x)) = ToSet(Kept(q)) \cup {x}
          /\ IsInjective(Append(Kept(q), x)) <=> IsInjective(Kept(q)) /\ x \notin ToSet(Kept(q))
          /\ Append(Kept(q), x) \in Seq(Pieces)
      BY <2>1, AppendedItems, AppendFacts
    <3>2. QED
      BY <2>1, <2>3, <2>4, <2>5, <3>1
  <2>6. CASE Append(directory, x) \notin DOMAIN t
    BY <2>1, <2>3, <2>4, <2>6
  <2>7. QED
    BY <2>5, <2>6
<1>5. T = Seq(Pieces)
  <2>1. T \in SUBSET Seq(Pieces)
    OBVIOUS
  <2> HIDE DEF T
  <2>2. QED
    BY <1>3, <1>4, <2>1, LongerAndLonger
<1>6. Good(items)
  BY <1>5
<1>7. QED
  BY <1>6 DEF none, step

LEMMA ListingIs ==
  ASSUME NEW t, IsTree(t), NEW rooted \in BOOLEAN, NEW s, Reduced(rooted, s), Leading(t, s)
  PROVE  LET list == Listing(t, Build(rooted, s)) IN
         /\ list \in Seq(ToSet(Names)) /\ IsInjective(list)
         /\ ToSet(list) = {n \in ToSet(Names) : Holds(t, s, n)}
<1> DEFINE list == Listing(t, Build(rooted, s))
           directory == Reached(t, s).at
<1>1. list = Folded(KeepNames(t, directory), <<>>, Names)
  BY StatOfBuild DEF Listing, KeepNames
<1>2. Names \in Seq(Pieces) /\ IsInjective(Names)
  BY TreesAssumption
<1> HIDE DEF list
<1>3. /\ list \in Seq(Pieces) /\ IsInjective(list)
      /\ ToSet(list) = {x \in ToSet(Names) : Append(directory, x) \in DOMAIN t}
  BY <1>1, <1>2, NamesKept
<1>4. \A n : Holds(t, s, n) <=> Append(directory, n) \in DOMAIN t
  BY DEF Holds
<1>5. list \in Seq(ToSet(Names))
  <2>1. ToSet(list) \subseteq ToSet(Names)
    BY <1>3
  <2>2. QED
    BY <1>3, <2>1, ItemsAre
<1>6. QED
  BY <1>3, <1>4, <1>5 DEF list

-----------------------------------------------------------------------------
(* What can be reached from a directory.                                   *)

\* The ways that lead through directories to what is there.
Offspring(t, s, way) == way # <<>> /\ Holds(t, s \o Front(way), Last(way))

LEMMA OffspringStep ==
  ASSUME NEW t, IsTree(t), NEW s \in Seq(Pieces), NEW n \in Plain, NEW w \in Seq(Plain)
  PROVE  /\ Offspring(t, s, <<n>>) <=> Holds(t, s, n)
         /\ w # <<>> => (Offspring(t, s, <<n>> \o w) <=> Offspring(t, Append(s, n), w))
         /\ Offspring(t, s, <<n>> \o w) => Holds(t, s, n)
         /\ w # <<>> /\ Offspring(t, s, <<n>> \o w) => Leading(t, Append(s, n))
<1> DEFINE one == <<n>>
<1>0. n \in Pieces /\ one \in Seq(Plain) /\ one \in Seq(Pieces) /\ Append(s, n) \in Seq(Pieces) /\ w \in Seq(Pieces)
      /\ one # <<>> /\ Len(one) = 1 /\ one[1] = n
  BY AppendFacts DEF Plain
<1>1. Offspring(t, s, <<n>>) <=> Holds(t, s, n)
  <2>1. Front(one) = <<>> /\ Last(one) = n /\ s \o <<>> = s
    BY <1>0, AppendedWay DEF Front, Last
  <2>2. QED
    BY <2>1 DEF Offspring
<1>2. ASSUME w # <<>>
      PROVE  /\ Offspring(t, s, one \o w) <=> Offspring(t, Append(s, n), w)
             /\ Offspring(t, s, one \o w) => Holds(t, s, n)
             /\ Offspring(t, s, one \o w) => Leading(t, Append(s, n))
  <2> DEFINE whole == one \o w
             front == Front(w)
             last == Last(w)
  <2>1. w = Append(front, Last(w)) /\ front \in Seq(Plain) /\ Last(w) \in Plain
    BY <1>2, FrontAndLast, FrontFacts
  <2>2. front \in Seq(Pieces) /\ Last(w) \in Pieces
    BY <2>1 DEF Plain
  <2> DEFINE before == one \o front
  <2> HIDE DEF front, one, last
  <2>3. before \in Seq(Pieces)
    BY <1>0, <2>2, ConcatFacts
  <2>4. one \o Append(front, last) = Append(before, last)
    BY <1>0, <2>2, AppendedWay DEF last
  <2>5. whole = Append(before, last) /\ last \in Pieces
    BY <2>1, <2>2, <2>4 DEF last
  <2> HIDE DEF whole, before
  <2>6. whole # <<>> /\ Front(whole) = before /\ Last(whole) = last
    BY <2>3, <2>5, AppendFacts
  <2>7. whole # <<>> /\ Front(whole) = one \o front /\ Last(whole) = Last(w)
    BY <2>6 DEF before, last
  <2>8. s \o (one \o front) = Append(s, n) \o front
    BY <1>0, <2>2, AppendedWay DEF one
  <2>9. Offspring(t, s, whole) <=> Holds(t, Append(s, n) \o front, Last(w))
    BY <2>7, <2>8 DEF Offspring
  <2>10. Offspring(t, Append(s, n), w) <=> Holds(t, Append(s, n) \o front, Last(w))
    BY <1>2 DEF Offspring, front
  <2>11. ASSUME Holds(t, Append(s, n) \o front, Last(w)) PROVE Holds(t, s, n) /\ Leading(t, Append(s, n))
    <3>1. Reached(t, Append(s, n) \o front).is = "found"
      BY <2>11 DEF Holds, Leading
    <3>2. Holds(t, s, n)
      BY <1>0, <2>2, <3>1, ReachedThrough
    <3>3. Leading(t, Append(s, n))
      <4>1. CASE front = <<>>
        <5>1. Append(s, n) \o <<>> = Append(s, n)
          BY <1>0, ConcatEmptySeq
        <5>2. QED
          BY <2>11, <4>1, <5>1 DEF Holds
      <4>2. CASE front # <<>>
        <5>1. Head(front) \in Plain /\ Tail(front) \in Seq(Plain) /\ front = <<Head(front)>> \o Tail(front)
          BY <2>1, <4>2, HeadAndTail
        <5> DEFINE m == Head(front)
                   rest == Tail(front)
        <5>2. m \in Plain /\ m \in Pieces /\ rest \in Seq(Pieces) /\ front = <<m>> \o rest
          BY <5>1 DEF Plain
        <5> HIDE DEF m, rest
        <5>3. Append(s, n) \o front = Append(Append(s, n), m) \o rest
          <6> DEFINE longer == Append(s, n)
          <6>1. longer \in Seq(Pieces)
            BY <1>0
          <6> HIDE DEF longer
          <6>2. Append(longer, m) \o rest = longer \o (<<m>> \o rest)
            BY <5>2, <6>1, AppendedWay
          <6>3. QED
            BY <5>2, <6>2 DEF longer
        <5>4. Holds(t, Append(s, n), m)
          BY <1>0, <3>1, <5>2, <5>3, ReachedThrough
        <5>5. QED
          BY <5>4 DEF Holds
      <4>3. QED
        BY <4>1, <4>2
    <3>4. QED
      BY <3>2, <3>3
  <2>12. QED
    BY <2>9, <2>10, <2>11 DEF whole
<1>3. ASSUME w = <<>> PROVE Offspring(t, s, one \o w) => Holds(t, s, n)
  <2>1. one \o w = one
    BY <1>0, <1>3, ConcatEmptySeq
  <2>2. QED
    BY <1>1, <2>1
<1>4. QED
  BY <1>1, <1>2, <1>3 DEF one

\* The function that Descendants defines.
ChildrenOf(t, path) == {Child(path, name) : name \in ToSet(Listing(t, path))}
Layer(t, f, n) ==
  [path \in AllTexts |->
     IF n = 0 \/ ~IsDir(t, path) THEN {}
     ELSE ChildrenOf(t, path) \cup UNION {f[n - 1][child] : child \in ChildrenOf(t, path)}]
Below(t) == CHOOSE below : below = [n \in 0 .. Deepest |-> Layer(t, below, n)]

LEMMA DescendantsIs ==
  ASSUME NEW t, NEW text
  PROVE  Descendants(t, text) = Below(t)[Deepest][text]
BY DEF Descendants, Below, Layer, ChildrenOf

LEMMA ChildrenTyped ==
  ASSUME NEW t, NEW path \in AllTexts
  PROVE  ChildrenOf(t, path) \in SUBSET AllTexts
<1>1. Names \in Seq(Pieces)
  BY TreesAssumption
<1>2. ToSet(Listing(t, path)) \subseteq ToSet(Names)
  <2> DEFINE directory == Stat(t, path).at
  <2>1. Listing(t, path) = Folded(KeepNames(t, directory), <<>>, Names)
    BY DEF Listing, KeepNames
  <2> HIDE DEF directory
  <2>2. QED
    BY <1>1, <2>1, NamesKept
<1>3. ASSUME NEW n \in ToSet(Names) PROVE Child(path, n) \in AllTexts
  <2>1. <<n>> \in AllTexts
    BY NamesFacts DEF Plain, AllTexts
  <2>2. QED
    BY <2>1, JoinOne DEF Child
<1>4. QED
  BY <1>2, <1>3 DEF ChildrenOf

Layers(t) == [f \in [0 .. Deepest -> [AllTexts -> SUBSET AllTexts]] |-> [n \in 0 .. Deepest |-> Layer(t, f, n)]]

LEMMA BelowIs ==
  ASSUME NEW t
  PROVE  \A n \in 0 .. Deepest : Below(t)[n] = Layer(t, Below(t), n)
<1> DEFINE S == 0 .. Deepest
           R == [AllTexts -> SUBSET AllTexts]
           step == Layers(t)
           a == [n \in S |-> n]
           b == [n \in S |-> 0]
           Fits(f) == f = [n \in S |-> Layer(t, f, n)]
<1>1. Deepest \in Nat
  BY TreesAssumption DEF Deepest
<1>2. ASSUME NEW f \in [S -> R], NEW n \in S PROVE Layer(t, f, n) \in R
  <2> SUFFICES ASSUME NEW path \in AllTexts, n # 0
               PROVE  ChildrenOf(t, path) \cup UNION {f[n - 1][child] : child \in ChildrenOf(t, path)}
                        \in SUBSET AllTexts
    BY DEF Layer
  <2>1. n - 1 \in S
    BY <1>1
  <2>2. f[n - 1] \in [AllTexts -> SUBSET AllTexts]
    BY <2>1
  <2> HIDE DEF S, R
  <2>3. QED
    BY <2>2, ChildrenTyped
<1>3. \A f \in [S -> R] : step[f] = [n \in S |-> Layer(t, f, n)]
  BY DEF Layers
<1>4. step \in [[S -> R] -> [S -> R]]
  <2>1. step = [f \in [S -> R] |-> [n \in S |-> Layer(t, f, n)]]
    BY DEF Layers
  <2> HIDE DEF step, S, R
  <2>2. \A f \in [S -> R] : [n \in S |-> Layer(t, f, n)] \in [S -> R]
    BY <1>2
  <2>3. QED
    BY <2>1, <2>2
<1>5. ASSUME NEW f \in [S -> R], NEW g \in [S -> R], NEW n \in S,
             \A m \in S : Less(a, b, m, n) => f[m] = g[m]
      PROVE  step[f][n] = step[g][n]
  <2>1. Layer(t, f, n) = Layer(t, g, n)
    <3>1. CASE n = 0
      BY <3>1 DEF Layer
    <3>2. CASE n # 0
      <4>1. n - 1 \in S /\ n - 1 < n
        BY <1>1, <3>2
      <4>2. Less(a, b, n - 1, n)
        BY <4>1 DEF Less
      <4>3. f[n - 1] = g[n - 1]
        BY <1>5, <4>1, <4>2
      <4>4. QED
        BY <4>3 DEF Layer
    <3>3. QED
      BY <3>1, <3>2
  <2> HIDE DEF step, S, R
  <2>2. step[f][n] = Layer(t, f, n) /\ step[g][n] = Layer(t, g, n)
    BY <1>3
  <2>3. QED
    BY <2>1, <2>2
<1>6. a \in [S -> Nat] /\ b \in [S -> Nat]
  BY <1>1
<1>7. LooksBelow(S, a, b, R, step)
  <2> HIDE DEF S, a, b, step, R
  <2> QED
    BY <1>6, <1>4, <1>5 DEF LooksBelow
<1>8. PICK f \in [S -> R] : f = step[f]
  <2>1. R # {}
    <3>1. [path \in AllTexts |-> {}] \in R
      OBVIOUS
    <3>2. QED
      BY <3>1
  <2> HIDE DEF S, a, b, step, R
  <2> QED
    BY <1>7, <2>1, RecursionHasSolution
<1>9. Fits(f)
  BY <1>3, <1>8
<1>10. Below(t) = CHOOSE g : Fits(g)
  BY DEF Below
<1>11. Fits(Below(t))
  <2> HIDE DEF Fits
  <2> QED
    BY <1>9, <1>10
<1> DEFINE below == Below(t)
<1>12. below = [n \in S |-> Layer(t, below, n)]
  BY <1>11
<1> HIDE DEF below
<1>13. \A n \in S : below[n] = Layer(t, below, n)
  <2> HIDE DEF S
  <2> QED
    BY <1>12
<1>14. QED
  BY <1>13 DEF below

\* Down to a depth, the texts of the offspring.
LEMMA BelowHolds ==
  ASSUME NEW t, IsTree(t), NEW rooted \in BOOLEAN
  PROVE  \A n \in 0 .. Deepest : \A s : Reduced(rooted, s) =>
           \A x : x \in Below(t)[n][Build(rooted, s)] <=>
                    \E way \in Ways : /\ Len(way) <= n /\ Offspring(t, s, way)
                                      /\ x = Build(rooted, s \o way)
<1> DEFINE Right(n, s) ==
             \A x : x \in Below(t)[n][Build(rooted, s)] <=>
                    \E way \in Ways : /\ Len(way) <= n /\ Offspring(t, s, way)
                                      /\ x = Build(rooted, s \o way)
           P(n) == n <= Deepest => \A s : Reduced(rooted, s) => Right(n, s)
           T == {n \in Nat : P(n)}
<1>0. Deepest \in Nat
  BY TreesAssumption DEF Deepest
<1>1. 0 \in T
  <2> SUFFICES ASSUME NEW s, Reduced(rooted, s) PROVE Right(0, s)
    OBVIOUS
  <2>1. Build(rooted, s) \in AllTexts
    BY BuildFacts
  <2>2. Below(t)[0] = Layer(t, Below(t), 0)
    BY <1>0, BelowIs
  <2>3. Below(t)[0][Build(rooted, s)] = {}
    BY <2>1, <2>2 DEF Layer
  <2>4. \A way \in Ways : Len(way) <= 0 => ~Offspring(t, s, way)
    BY DEF Ways, Offspring
  <2>5. QED
    BY <2>3, <2>4
<1>2. ASSUME NEW n \in T PROVE n + 1 \in T
  <2> SUFFICES ASSUME n + 1 <= Deepest, NEW s, Reduced(rooted, s) PROVE Right(n + 1, s)
    OBVIOUS
  <2> DEFINE text == Build(rooted, s)
  <2>1. n \in Nat /\ n <= Deepest /\ n + 1 \in 0 .. Deepest /\ (n + 1) - 1 = n /\ n + 1 # 0
    BY <1>0
  <2>2. text \in AllTexts /\ s \in Seq(Pieces)
    BY BuildFacts, ReducedNames
  <2>3. Below(t)[n + 1][text] =
          IF ~Leading(t, s) THEN {}
          ELSE ChildrenOf(t, text) \cup UNION {Below(t)[n][child] : child \in ChildrenOf(t, text)}
    <3>1. Below(t)[n + 1] = Layer(t, Below(t), n + 1)
      BY <2>1, BelowIs
    <3>2. IsDir(t, text) <=> Leading(t, s)
      BY StatOfBuild
    <3> HIDE DEF text
    <3>3. QED
      BY <2>1, <2>2, <3>1, <3>2 DEF Layer
  <2>4. \A m \in ToSet(Names) : m \in Plain /\ Reduced(rooted, Append(s, m)) /\ Right(n, Append(s, m))
    <3> SUFFICES ASSUME NEW m \in ToSet(Names)
                 PROVE  m \in Plain /\ Reduced(rooted, Append(s, m)) /\ Right(n, Append(s, m))
      OBVIOUS
    <3>1. m \in Plain
      BY NamesFacts
    <3>2. Reduced(rooted, Append(s, m))
      BY <3>1, ChildIs
    <3> HIDE DEF Right
    <3>3. QED
      BY <2>1, <3>1, <3>2
  <2>5. ASSUME Leading(t, s)
        PROVE  ChildrenOf(t, text) = {Build(rooted, Append(s, m)) : m \in {k \in ToSet(Names) : Holds(t, s, k)}}
    <3>1. ToSet(Listing(t, text)) = {k \in ToSet(Names) : Holds(t, s, k)}
      BY <2>5, ListingIs
    <3>2. \A m \in ToSet(Names) : Child(text, m) = Build(rooted, Append(s, m))
      BY <2>4, ChildIs
    <3>3. QED
      BY <3>1, <3>2 DEF ChildrenOf
  <2>6. \A m \in ToSet(Names), w \in Ways :
          /\ <<m>> \in Ways /\ <<m>> \o w \in Ways /\ Len(<<m>>) = 1 /\ Len(<<m>> \o w) = Len(w) + 1
          /\ s \o <<m>> = Append(s, m) /\ s \o (<<m>> \o w) = Append(s, m) \o w
          /\ Len(w) \in Nat
    <3> SUFFICES ASSUME NEW m \in ToSet(Names), NEW w \in Ways
                 PROVE  /\ <<m>> \in Ways /\ <<m>> \o w \in Ways /\ Len(<<m>>) = 1 /\ Len(<<m>> \o w) = Len(w) + 1
                        /\ s \o <<m>> = Append(s, m) /\ s \o (<<m>> \o w) = Append(s, m) \o w
                        /\ Len(w) \in Nat
      OBVIOUS
    <3> DEFINE one == <<m>>
    <3>1. one \in Ways /\ Len(one) = 1
      BY DEF Ways
    <3>2. m \in Pieces /\ w \in Seq(Pieces) /\ s \in Seq(Pieces)
      BY <2>2, <2>4, NamesFacts DEF Plain
    <3>3. s \o one = Append(s, m) /\ s \o (one \o w) = Append(s, m) \o w
      BY <3>2, AppendedWay
    <3> HIDE DEF one
    <3>4. one \o w \in Ways /\ Len(one \o w) = Len(one) + Len(w) /\ Len(w) \in Nat
      BY <3>1, ConcatFacts DEF Ways
    <3>5. QED
      BY <3>1, <3>3, <3>4 DEF one
  <2>7. ASSUME NEW x, x \in Below(t)[n + 1][text]
        PROVE  \E way \in Ways : Len(way) <= n + 1 /\ Offspring(t, s, way) /\ x = Build(rooted, s \o way)
    <3>1. Leading(t, s)
      BY <2>3, <2>7
    <3>2. PICK m \in ToSet(Names) :
            /\ Holds(t, s, m)
            /\ x = Build(rooted, Append(s, m)) \/ x \in Below(t)[n][Build(rooted, Append(s, m))]
      BY <2>3, <2>5, <2>7, <3>1
    <3>3. m \in Plain /\ Reduced(rooted, Append(s, m)) /\ Right(n, Append(s, m))
      BY <2>4
    <3>4. CASE x = Build(rooted, Append(s, m))
      <4> DEFINE way == <<m>>
      <4>0. <<>> \in Ways /\ <<>> \in Seq(Plain)
        BY DEF Ways
      <4>1. way \in Ways /\ Len(way) = 1 /\ s \o way = Append(s, m)
        BY <2>6, <4>0
      <4>2. Offspring(t, s, way)
        BY <2>2, <3>2, <3>3, <4>0, OffspringStep
      <4> HIDE DEF way
      <4>3. Len(way) <= n + 1 /\ x = Build(rooted, s \o way)
        BY <2>1, <3>4, <4>1
      <4>4. QED
        BY <4>1, <4>2, <4>3, Zenon
    <3>5. CASE x \in Below(t)[n][Build(rooted, Append(s, m))]
      <4>1. PICK w \in Ways : /\ Len(w) <= n /\ Offspring(t, Append(s, m), w)
                              /\ x = Build(rooted, Append(s, m) \o w)
        BY <3>3, <3>5
      <4> DEFINE way == <<m>> \o w
      <4>2. way \in Ways /\ Len(way) = Len(w) + 1 /\ s \o way = Append(s, m) \o w /\ Len(w) \in Nat
        BY <2>6
      <4>3. w \in Seq(Plain) /\ w # <<>>
        BY <4>1, NamesFacts DEF Offspring
      <4>4. Offspring(t, s, way)
        BY <2>2, <3>3, <4>1, <4>3, OffspringStep
      <4> HIDE DEF way
      <4>5. Len(way) <= n + 1 /\ x = Build(rooted, s \o way)
        BY <2>1, <4>1, <4>2
      <4>6. QED
        BY <4>2, <4>4, <4>5, Zenon
    <3>6. QED
      BY <3>2, <3>4, <3>5
  <2>8. ASSUME NEW way \in Ways, Len(way) <= n + 1, Offspring(t, s, way)
        PROVE  Build(rooted, s \o way) \in Below(t)[n + 1][text]
    <3>1. way # <<>>
      BY <2>8 DEF Offspring
    <3> DEFINE m == Head(way)
               w == Tail(way)
    <3>2. m \in ToSet(Names) /\ w \in Ways /\ way = <<m>> \o w /\ Len(way) = Len(w) + 1
      BY <3>1, HeadAndTail DEF Ways
    <3> HIDE DEF m, w
    <3>3. m \in Plain /\ Reduced(rooted, Append(s, m)) /\ Right(n, Append(s, m)) /\ w \in Seq(Plain)
      BY <2>4, <3>2, NamesFacts
    <3>4. Holds(t, s, m) /\ Leading(t, s)
      BY <2>2, <2>8, <3>2, <3>3, OffspringStep DEF Holds
    <3> DEFINE child == Build(rooted, Append(s, m))
    <3>5. child \in ChildrenOf(t, text)
      BY <2>5, <3>2, <3>4
    <3>6. CASE w = <<>>
      <4>1. way = <<m>>
        BY <3>2, <3>6
      <4>2. s \o way = Append(s, m)
        BY <2>6, <3>2, <4>1
      <4>3. QED
        BY <2>3, <3>4, <3>5, <4>2
    <3>7. CASE w # <<>>
      <4>1. Offspring(t, Append(s, m), w)
        BY <2>2, <2>8, <3>2, <3>3, <3>7, OffspringStep
      <4>2. Len(w) <= n /\ s \o way = Append(s, m) \o w
        BY <2>1, <2>6, <2>8, <3>2
      <4>3. Build(rooted, Append(s, m) \o w) \in Below(t)[n][child]
        BY <3>2, <3>3, <4>1, <4>2
      <4> HIDE DEF child
      <4>4. QED
        BY <2>3, <3>4, <3>5, <4>2, <4>3
    <3>8. QED
      BY <3>6, <3>7
  <2>9. QED
    BY <2>7, <2>8
<1>3. T = Nat
  <2>1. T \in SUBSET Nat
    OBVIOUS
  <2> HIDE DEF T
  <2>2. QED
    BY <1>1, <1>2, <2>1, CountingUp
<1>4. QED
  BY <1>0, <1>3

\* Everything below a directory is the text of a way that leads there.
LEMMA DescendantsAre ==
  ASSUME NEW t, IsTree(t), Flat(t), NEW rooted \in BOOLEAN, NEW s, Reduced(rooted, s)
  PROVE  \A x : x \in Descendants(t, Build(rooted, s)) <=>
                  \E way \in Ways : Offspring(t, s, way) /\ x = Build(rooted, s \o way)
<1>0. Deepest \in 0 .. Deepest /\ s \in Seq(Pieces)
  BY TreesAssumption, ReducedNames DEF Deepest
<1>1. ASSUME NEW way \in Ways, Offspring(t, s, way) PROVE Len(way) <= Deepest
  <2>1. way # <<>> /\ Reached(t, s \o Front(way)).is = "found"
    BY <1>1 DEF Offspring, Holds, Leading
  <2>2. way \in Seq(Plain)
    BY NamesFacts
  <2>3. Front(way) \in Seq(Plain) /\ Len(Front(way)) = Len(way) - 1 /\ Len(way) \in Nat
    BY <2>1, <2>2, FrontFacts
  <2>4. Len(Front(way)) < Deepest /\ Deepest \in Nat
    BY <1>0, <2>1, <2>3, WaysAreShort
  <2>5. QED
    BY <2>3, <2>4
<1>2. \A x : x \in Below(t)[Deepest][Build(rooted, s)] <=>
               \E way \in Ways : Len(way) <= Deepest /\ Offspring(t, s, way) /\ x = Build(rooted, s \o way)
  BY <1>0, BelowHolds
<1>3. QED
  BY <1>1, <1>2, DescendantsIs

-----------------------------------------------------------------------------
(* What a traversal of an unchanging tree is to find, as ways.             *)

\* The beginning of a way, up to its i-th name.
Upto(way, i) == SubSeq(way, 1, i - 1)

LEMMA UptoFacts ==
  ASSUME NEW S, NEW way \in Seq(S), NEW i \in 1 .. Len(way) + 1
  PROVE  /\ Upto(way, i) \in Seq(S) /\ Len(Upto(way, i)) = i - 1 /\ Len(way) \in Nat
         /\ \A k \in 1 .. i - 1 : Upto(way, i)[k] = way[k]
         /\ i = Len(way) + 1 => Upto(way, i) = way
         /\ i <= Len(way) => Upto(way, i + 1) = Append(Upto(way, i), way[i])
<1> DEFINE a == Upto(way, i)
<1>0. i \in Nat /\ i - 1 \in 0 .. Len(way) /\ Len(way) \in Nat
  OBVIOUS
<1>1. a \in Seq(S) /\ Len(a) = i - 1 /\ \A k \in 1 .. i - 1 : a[k] = way[k]
  BY <1>0 DEF Upto
<1> HIDE DEF a
<1>2. ASSUME i = Len(way) + 1 PROVE a = way
  BY <1>0, <1>1, <1>2, SeqEqual
<1>3. ASSUME i <= Len(way) PROVE Upto(way, i + 1) = Append(a, way[i])
  <2> DEFINE b == Upto(way, i + 1)
             c == Append(a, way[i])
  <2>1. b \in Seq(S) /\ Len(b) = i /\ \A k \in 1 .. i : b[k] = way[k]
    BY <1>0, <1>3 DEF Upto
  <2>2. way[i] \in S
    BY <1>0, <1>3
  <2>3. c \in Seq(S) /\ Len(c) = i /\ c[i] = way[i] /\ \A k \in 1 .. i - 1 : c[k] = a[k]
    BY <1>0, <1>1, <2>2, AppendFacts
  <2> HIDE DEF b, c
  <2>4. ASSUME NEW k \in 1 .. i PROVE b[k] = c[k]
    <3>1. k = i \/ k \in 1 .. i - 1
      BY <1>0
    <3>2. QED
      BY <1>1, <2>1, <2>3, <3>1
  <2>5. b = c
    BY <2>1, <2>3, <2>4, SeqEqual
  <2>6. QED
    BY <2>5 DEF b, c
<1>4. QED
  BY <1>0, <1>1, <1>2, <1>3 DEF a

\* Ways that agree as far as i agree up to it.
LEMMA SameUpto ==
  ASSUME NEW S, NEW a \in Seq(S), NEW b \in Seq(S), NEW i \in 1 .. Len(a) + 1, i <= Len(b) + 1,
         \A k \in 1 .. i - 1 : a[k] = b[k]
  PROVE  Upto(a, i) = Upto(b, i)
<1>1. i \in 1 .. Len(b) + 1
  OBVIOUS
<1>2. /\ Upto(a, i) \in Seq(S) /\ Len(Upto(a, i)) = i - 1 /\ \A k \in 1 .. i - 1 : Upto(a, i)[k] = a[k]
      /\ Upto(b, i) \in Seq(S) /\ Len(Upto(b, i)) = i - 1 /\ \A k \in 1 .. i - 1 : Upto(b, i)[k] = b[k]
  BY <1>1, UptoFacts
<1>3. QED
  BY <1>2, SeqEqual

LEMMA ConcatCancels ==
  ASSUME NEW s \in Seq(Pieces), NEW a \in Seq(Pieces), NEW b \in Seq(Pieces), s \o a = s \o b
  PROVE  a = b
<1>1. Len(s) \in Nat /\ Len(a) \in Nat /\ Len(b) \in Nat
  OBVIOUS
<1> DEFINE n == Len(s)
           x == s \o a
           y == s \o b
<1>2. /\ Len(x) = n + Len(a) /\ \A i \in 1 .. n + Len(a) : x[i] = IF i <= n THEN s[i] ELSE a[i - n]
      /\ Len(y) = n + Len(b) /\ \A i \in 1 .. n + Len(b) : y[i] = IF i <= n THEN s[i] ELSE b[i - n]
  BY ConcatProperties
<1>3. x = y
  OBVIOUS
<1> HIDE DEF x, y
<1>4. Len(a) = Len(b)
  BY <1>1, <1>2, <1>3
<1>5. ASSUME NEW k \in 1 .. Len(a) PROVE a[k] = b[k]
  <2>1. n + k \in 1 .. n + Len(a) /\ (n + k) - n = k /\ ~(n + k <= n)
    BY <1>1
  <2>2. x[n + k] = a[k] /\ y[n + k] = b[k]
    BY <1>2, <1>4, <2>1
  <2>3. QED
    BY <1>3, <2>2
<1>6. QED
  BY <1>4, <1>5, SeqEqual

\* What is below a directory is below each directory on its way.
LEMMA Along ==
  ASSUME NEW t, IsTree(t), NEW s \in Seq(Pieces), NEW way \in Seq(Plain), Offspring(t, s, way)
  PROVE  \A i \in 1 .. Len(way) :
           /\ Offspring(t, s \o Upto(way, i), SubSeq(way, i, Len(way)))
           /\ Holds(t, s \o Upto(way, i), way[i])
           /\ i < Len(way) => Leading(t, s \o Upto(way, i + 1))
<1> DEFINE n == Len(way)
           Rest(i) == SubSeq(way, i, n)
           T == {i \in Nat : i + 1 <= n => Offspring(t, s \o Upto(way, i + 1), Rest(i + 1))}
<1>0. n \in Nat /\ way # <<>> /\ way \in Seq(Pieces) /\ \A i \in 1 .. n : way[i] \in Plain /\ way[i] \in Pieces
  <2>1. way # <<>>
    BY DEF Offspring
  <2>2. QED
    BY <2>1 DEF Plain
<1>1. ASSUME NEW i \in 1 .. n, Offspring(t, s \o Upto(way, i), Rest(i))
      PROVE  /\ Holds(t, s \o Upto(way, i), way[i])
             /\ i < n => /\ Leading(t, s \o Upto(way, i + 1))
                         /\ Offspring(t, s \o Upto(way, i + 1), Rest(i + 1))
  <2> DEFINE a == Rest(i)
             before == s \o Upto(way, i)
             m == way[i]
             w == Rest(i + 1)
  <2>1. Upto(way, i) \in Seq(Pieces) /\ Upto(way, i + 1) = Append(Upto(way, i), m)
    BY <1>0, UptoFacts
  <2>2. before \in Seq(Pieces) /\ m \in Plain /\ m \in Pieces
    BY <1>0, <2>1, ConcatFacts
  <2>3. s \o Upto(way, i + 1) = Append(before, m)
    <3> DEFINE up == Upto(way, i)
               next == Upto(way, i + 1)
    <3>1. up \in Seq(Pieces) /\ next = Append(up, m) /\ m \in Pieces /\ before = s \o up
      BY <2>1, <2>2
    <3> HIDE DEF up, next, before, m
    <3>2. s \o next = Append(before, m)
      BY <3>1, AppendedWay
    <3>3. QED
      BY <3>2 DEF next
  <2>4. a \in Seq(Plain) /\ a # <<>> /\ Head(a) = m /\ Tail(a) = w /\ (i < n => w # <<>>)
    <3>1. n \in i .. n /\ Rest(i) \in Seq(Plain) /\ Len(Rest(i)) = n - i + 1
      BY <1>0
    <3>2. Head(a) = m /\ Tail(a) = w
      BY <3>1, HeadTailOfSubSeq
    <3>3. i < n => Len(w) = n - i /\ n - i > 0
      BY <1>0
    <3>4. Len(Rest(i)) > 0 /\ a = Rest(i)
      BY <1>0, <3>1
    <3>5. i < n => w # <<>>
      <4> HIDE DEF w
      <4>1. QED
        BY <1>0, <3>3
    <3> HIDE DEF a, w, m, Rest
    <3>6. a # <<>>
      BY <3>4
    <3>7. QED
      BY <3>1, <3>2, <3>4, <3>5, <3>6
  <2>5. a = <<m>> \o w /\ w \in Seq(Plain)
    BY <2>4, HeadAndTail
  <2>6. Offspring(t, before, <<m>> \o w)
    BY <1>1, <2>5
  <2> HIDE DEF a, before, m, w
  <2>7. Holds(t, before, m) /\ (w # <<>> => Leading(t, Append(before, m)) /\ Offspring(t, Append(before, m), w))
    BY <2>2, <2>5, <2>6, OffspringStep
  <2>8. QED
    BY <2>3, <2>4, <2>7 DEF before, m, w
<1>2. 0 \in T
  <2>1. Rest(1) = way /\ Upto(way, 1) = <<>> /\ s \o <<>> = s
    <3>1. Rest(1) = way
      <4>1. Rest(1) \in Seq(Plain) /\ Len(Rest(1)) = n /\ \A i \in 1 .. n : Rest(1)[i] = way[i]
        BY <1>0
      <4> HIDE DEF Rest
      <4>2. QED
        BY <4>1, SeqEqual
    <3>2. 1 \in 1 .. Len(way) + 1
      BY <1>0
    <3>3. Upto(way, 1) \in Seq(Pieces) /\ Len(Upto(way, 1)) = 0
      BY <1>0, <3>2, UptoFacts
    <3>4. Upto(way, 1) = <<>>
      BY <3>3, NothingLeft
    <3>5. QED
      BY <3>1, <3>4, ConcatEmptySeq
  <2>2. Offspring(t, s \o Upto(way, 1), Rest(1))
    BY <2>1
  <2> HIDE DEF Rest
  <2>3. QED
    BY <2>2
<1>3. ASSUME NEW k \in T PROVE k + 1 \in T
  <2> SUFFICES ASSUME (k + 1) + 1 <= n PROVE Offspring(t, s \o Upto(way, (k + 1) + 1), Rest((k + 1) + 1))
    OBVIOUS
  <2> DEFINE i == k + 1
  <2>1. i \in 1 .. n /\ i < n /\ Offspring(t, s \o Upto(way, i), Rest(i))
    BY <1>0
  <2> HIDE DEF Rest, i, n
  <2>2. Offspring(t, s \o Upto(way, i + 1), Rest(i + 1))
    BY <1>1, <2>1
  <2>3. QED
    BY <2>2 DEF i
<1>4. T = Nat
  <2>1. T \in SUBSET Nat
    OBVIOUS
  <2> HIDE DEF T
  <2>2. QED
    BY <1>2, <1>3, <2>1, CountingUp
<1>5. ASSUME NEW i \in 1 .. n PROVE Offspring(t, s \o Upto(way, i), Rest(i))
  <2>1. i - 1 \in Nat /\ (i - 1) + 1 = i /\ i <= n
    BY <1>0
  <2> HIDE DEF Rest, n
  <2>2. i - 1 \in T
    <3> HIDE DEF T
    <3>1. QED
      BY <1>4, <2>1
  <2>3. QED
    BY <2>1, <2>2
<1>6. QED
  BY <1>1, <1>5

Matches(kind, patterns, way) ==
  IF kind = "glob"
    THEN Len(way) = Len(patterns) /\ \A i \in DOMAIN patterns : way[i] \in patterns[i]
    ELSE Last(way) \in patterns[1]

LEMMA SoughtIs ==
  ASSUME NEW t, IsTree(t), Flat(t), NEW rooted \in BOOLEAN, NEW s, Reduced(rooted, s), NEW kind, NEW patterns
  PROVE  /\ \A x \in Sought(t, kind, patterns, Build(rooted, s)) :
              \E way \in Ways : Offspring(t, s, way) /\ Matches(kind, patterns, way) /\ x = Build(rooted, s \o way)
         /\ \A way \in Ways : Build(rooted, s \o way) \in Sought(t, kind, patterns, Build(rooted, s)) <=>
              Offspring(t, s, way) /\ Matches(kind, patterns, way)
<1> DEFINE base == Build(rooted, s)
           depth == IF base \in {Root, Current} THEN 0 ELSE Len(Components(base))
           Under(text) == SubSeq(Components(text), depth + 1, Len(Components(text)))
           Right(text) == IF kind = "glob"
                            THEN /\ Len(Under(text)) = Len(patterns)
                                 /\ \A i \in DOMAIN patterns : Under(text)[i] \in patterns[i]
                            ELSE Last(Under(text)) \in patterns[1]
<1>1. Sought(t, kind, patterns, base) = {text \in Descendants(t, base) : Right(text)}
  BY DEF Sought
<1>2. s \in Seq(Pieces) /\ s \in Seq(Named)
  BY ReducedNames
<1>3. depth = Len(s)
  <2>1. CASE s = <<>>
    <3>1. base \in {Root, Current}
      BY <2>1 DEF Build
    <3>2. QED
      BY <2>1, <3>1
  <2>2. CASE s # <<>>
    <3>1. Components(base) = s
      BY <2>2, BuildFacts
    <3>2. base \notin {Root, Current}
      <4>1. Components(Root) = <<>> /\ Components(Current) = <<Dot>>
        <5> DEFINE none == <<>>
        <5>1. Reduced(TRUE, none) /\ Build(TRUE, none) = Root
          BY ReducedNothing DEF Build
        <5>2. Reduced(FALSE, none) /\ Build(FALSE, none) = Current
          BY ReducedNothing DEF Build
        <5>3. none = <<>>
          OBVIOUS
        <5> HIDE DEF none
        <5>4. QED
          BY <5>1, <5>2, <5>3, BuildFacts
      <4>2. s # <<Dot>>
        BY ReducedNames
      <4>3. QED
        BY <2>2, <3>1, <4>1, <4>2
    <3>3. QED
      BY <3>1, <3>2
  <2>3. QED
    BY <2>1, <2>2
<1>4. ASSUME NEW way \in Ways, way # <<>>
      PROVE  /\ Right(Build(rooted, s \o way)) <=> Matches(kind, patterns, way)
             /\ Reduced(rooted, s \o way)
  <2>1. way \in Seq(Plain) /\ way \in Seq(Pieces)
    BY NamesFacts
  <2>2. Reduced(rooted, s \o way) /\ s \o way # <<>>
    BY <1>2, <1>4, <2>1, ReducedBelow, ConcatFacts
  <2>3. Components(Build(rooted, s \o way)) = s \o way
    BY <2>2, BuildFacts
  <2> DEFINE whole == s \o way
             n == Len(s)
             under == SubSeq(whole, n + 1, Len(whole))
  <2>4. /\ whole \in Seq(Pieces) /\ Len(whole) = n + Len(way) /\ n \in Nat /\ Len(way) \in Nat
        /\ \A i \in 1 .. n + Len(way) : whole[i] = IF i <= n THEN s[i] ELSE way[i - n]
    BY <1>2, <2>1, ConcatProperties
  <2>5. under \in Seq(Pieces) /\ Len(under) = Len(way) /\ \A i \in 1 .. Len(way) : under[i] = way[i]
    <3> HIDE DEF whole, n
    <3> DEFINE e == Len(whole)
               b == n + 1
    <3>1. under \in Seq(Pieces) /\ Len(under) = Len(way) /\ \A i \in 1 .. Len(way) : under[i] = whole[n + i]
      <4>1. b \in Int /\ e \in Int /\ under = SubSeq(whole, b, e) /\ e - b + 1 = Len(way)
        BY <2>4
      <4>2. \A i \in b .. e : whole[i] \in Pieces
        BY <2>4
      <4>3. b <= e \/ Len(way) = 0
        BY <2>4
      <4>4. \A i \in 1 .. Len(way) : b + i - 1 = n + i
        BY <2>4
      <4> HIDE DEF b, e, under
      <4>5. /\ under \in Seq(Pieces) /\ Len(under) = IF b <= e THEN e - b + 1 ELSE 0
            /\ \A i \in 1 .. e - b + 1 : under[i] = whole[b + i - 1]
        BY <4>1, <4>2, SubSeqProperties
      <4>6. QED
        BY <4>1, <4>3, <4>4, <4>5
    <3>2. ASSUME NEW i \in 1 .. Len(way) PROVE whole[n + i] = way[i]
      <4>1. n + i \in 1 .. n + Len(way) /\ ~(n + i <= n) /\ (n + i) - n = i
        BY <2>4
      <4>2. QED
        BY <2>4, <4>1
    <3>3. QED
      BY <3>1, <3>2
  <2> HIDE DEF under
  <2>6. under = way
    BY <2>1, <2>5, SeqEqual
  <2>7. Under(Build(rooted, whole)) = way
    BY <1>3, <2>3, <2>6 DEF under
  <2> HIDE DEF Under, whole
  <2>8. Right(Build(rooted, whole)) <=> Matches(kind, patterns, way)
    BY <2>7 DEF Matches
  <2>9. QED
    BY <2>2, <2>8 DEF whole
<1>5. \A x : x \in Descendants(t, base) <=> \E way \in Ways : Offspring(t, s, way) /\ x = Build(rooted, s \o way)
  BY DescendantsAre
<1>6. \A way : Offspring(t, s, way) => way # <<>>
  BY DEF Offspring
<1> HIDE DEF Right, base
<1>7. ASSUME NEW x \in Sought(t, kind, patterns, base)
      PROVE  \E way \in Ways : Offspring(t, s, way) /\ Matches(kind, patterns, way) /\ x = Build(rooted, s \o way)
  BY <1>1, <1>4, <1>5, <1>6
<1>8. ASSUME NEW way \in Ways
      PROVE  Build(rooted, s \o way) \in Sought(t, kind, patterns, base) <=>
               Offspring(t, s, way) /\ Matches(kind, patterns, way)
  <2>1. ASSUME Offspring(t, s, way), Matches(kind, patterns, way)
        PROVE  Build(rooted, s \o way) \in Sought(t, kind, patterns, base)
    BY <1>1, <1>4, <1>5, <1>6, <2>1
  <2>2. ASSUME Build(rooted, s \o way) \in Sought(t, kind, patterns, base)
        PROVE  Offspring(t, s, way) /\ Matches(kind, patterns, way)
    <3>1. PICK v \in Ways : /\ Offspring(t, s, v) /\ Matches(kind, patterns, v)
                            /\ Build(rooted, s \o way) = Build(rooted, s \o v)
      BY <1>7, <2>2
    <3>2. way \in Seq(Plain) /\ v \in Seq(Plain) /\ way \in Seq(Pieces) /\ v \in Seq(Pieces)
      BY NamesFacts
    <3>3. Reduced(rooted, s \o way) /\ Reduced(rooted, s \o v)
      BY <3>2, ReducedBelow
    <3>4. s \o way = s \o v
      BY <3>1, <3>3, BuildOnce
    <3>5. way = v
      BY <1>2, <3>2, <3>4, ConcatCancels
    <3>6. QED
      BY <3>1, <3>5
  <2>3. QED
    BY <2>1, <2>2
<1>9. QED
  BY <1>7, <1>8 DEF base

-----------------------------------------------------------------------------
(* The frames of a traversal, and the ways it has still to go.             *)

Frames == [dir : AllTexts, read : BOOLEAN, todo : Ways]
TextOf(rooted, s, way) == Build(rooted, s \o way)

\* The names of a directory that are still to be visited, as far as is known.
Awaited(frame) == IF frame.read THEN ToSet(frame.todo) ELSE ToSet(Names)

\* The frames are those of the directories on a way.
OnTrail(frames, rooted, s, way) ==
  /\ frames \in Seq(Frames) /\ way \in Ways /\ Len(frames) = Len(way) + 1
  /\ \A i \in 1 .. Len(frames) :
       /\ frames[i].dir = TextOf(rooted, s, Upto(way, i))
       /\ IsInjective(frames[i].todo)
       /\ frames[i].read \/ (i = Len(frames) /\ frames[i].todo = <<>>)
       /\ i <= Len(way) => way[i] \notin ToSet(frames[i].todo)

\* What is at the end of a way may still be visited.
ToCome(frames, way, names) ==
  \E i \in 1 .. Len(frames) :
    /\ i <= Len(names) /\ \A k \in 1 .. i - 1 : names[k] = way[k]
    /\ names[i] \in Awaited(frames[i])

LEMMA WaysAre ==
  ASSUME NEW way \in Ways, NEW n \in ToSet(Names)
  PROVE  /\ Len(way) \in Nat /\ Append(way, n) \in Ways /\ Len(Append(way, n)) = Len(way) + 1
         /\ \A k \in 1 .. Len(way) : Append(way, n)[k] = way[k]
         /\ Append(way, n)[Len(way) + 1] = n
         /\ \A i \in 1 .. Len(way) + 1 : Upto(Append(way, n), i) = Upto(way, i)
         /\ Upto(Append(way, n), Len(way) + 2) = Append(way, n)
<1> DEFINE c == Append(way, n)
<1>1. /\ Len(way) \in Nat /\ c \in Ways /\ Len(c) = Len(way) + 1
      /\ (\A k \in 1 .. Len(way) : c[k] = way[k]) /\ c[Len(way) + 1] = n
  BY AppendFacts DEF Ways
<1> HIDE DEF c
<1>2. ASSUME NEW i \in 1 .. Len(way) + 1 PROVE Upto(c, i) = Upto(way, i)
  <2>1. i \in 1 .. Len(c) + 1 /\ i <= Len(way) + 1 /\ \A k \in 1 .. i - 1 : c[k] = way[k]
    BY <1>1
  <2>2. QED
    BY <1>1, <2>1, SameUpto DEF Ways
<1>3. Upto(c, Len(way) + 2) = c
  <2>1. Len(way) + 2 \in 1 .. Len(c) + 1 /\ Len(way) + 2 = Len(c) + 1
    BY <1>1
  <2>2. QED
    BY <1>1, <2>1, UptoFacts DEF Ways
<1>4. QED
  BY <1>1, <1>2, <1>3 DEF c

\* A way that begins with another one.
LEMMA WayBegins ==
  ASSUME NEW way \in Ways, NEW names \in Ways, Len(way) <= Len(names)
  PROVE  (\A k \in 1 .. Len(way) : names[k] = way[k]) <=> Upto(names, Len(way) + 1) = way
<1>1. /\ Len(way) \in Nat /\ Len(names) \in Nat /\ Len(way) + 1 \in 1 .. Len(names) + 1
      /\ Len(way) + 1 \in 1 .. Len(way) + 1 /\ (Len(way) + 1) - 1 = Len(way)
  BY DEF Ways
<1>2. Upto(way, Len(way) + 1) = way
  BY <1>1, UptoFacts DEF Ways
<1>3. \A k \in 1 .. Len(way) : Upto(names, Len(way) + 1)[k] = names[k]
  BY <1>1, UptoFacts DEF Ways
<1>4. ASSUME \A k \in 1 .. Len(way) : names[k] = way[k] PROVE Upto(names, Len(way) + 1) = way
  BY <1>1, <1>2, <1>4, SameUpto DEF Ways
<1>5. QED
  BY <1>3, <1>4

LEMMA FrameReplaced ==
  ASSUME NEW frames \in Seq(Frames), NEW i \in 1 .. Len(frames), NEW f \in Frames,
         NEW others, others = [frames EXCEPT ![i] = f]
  PROVE  /\ others \in Seq(Frames) /\ Len(others) = Len(frames) /\ others[i] = f
         /\ \A k \in 1 .. Len(frames) : k # i => others[k] = frames[k]
OBVIOUS

LEMMA AwaitedNames ==
  ASSUME NEW f \in Frames
  PROVE  Awaited(f) \subseteq ToSet(Names) /\ ToSet(f.todo) \subseteq ToSet(Names)
<1>1. f.todo \in Seq(ToSet(Names))
  BY DEF Frames, Ways
<1>2. ToSet(f.todo) \subseteq ToSet(Names)
  BY <1>1, ItemsAre
<1>3. QED
  BY <1>2 DEF Awaited

\* The directory in hand is read, or one of its names is taken.
LEMMA FrameShrinks ==
  ASSUME NEW rooted, NEW s, NEW way, NEW frames, OnTrail(frames, rooted, s, way),
         NEW f \in Frames, f.dir = frames[Len(frames)].dir, f.read, IsInjective(f.todo),
         Awaited(f) \subseteq Awaited(frames[Len(frames)]),
         NEW others, others = [frames EXCEPT ![Len(frames)] = f]
  PROVE  /\ OnTrail(others, rooted, s, way)
         /\ \A names \in Ways :
              /\ ToCome(others, way, names) => ToCome(frames, way, names)
              /\ ToCome(frames, way, names) /\ ~ToCome(others, way, names) =>
                   /\ Len(way) < Len(names) /\ Upto(names, Len(way) + 1) = way
                   /\ names[Len(way) + 1] \in Awaited(frames[Len(frames)]) \ Awaited(f)
<1> DEFINE n == Len(frames)
<1>1. frames \in Seq(Frames) /\ way \in Ways /\ n = Len(way) + 1 /\ Len(way) \in Nat /\ n \in 1 .. n
  BY DEF OnTrail, Ways
<1>2. /\ others \in Seq(Frames) /\ Len(others) = n /\ others[n] = f
      /\ \A k \in 1 .. n : k # n => others[k] = frames[k]
  BY <1>1, FrameReplaced
<1> HIDE DEF n
<1>3. OnTrail(others, rooted, s, way)
  <2>1. ASSUME NEW i \in 1 .. n
        PROVE  /\ others[i].dir = TextOf(rooted, s, Upto(way, i))
               /\ IsInjective(others[i].todo)
               /\ others[i].read \/ (i = n /\ others[i].todo = <<>>)
               /\ i <= Len(way) => way[i] \notin ToSet(others[i].todo)
    <3>0. /\ frames[i].dir = TextOf(rooted, s, Upto(way, i))
          /\ IsInjective(frames[i].todo)
          /\ frames[i].read \/ (i = n /\ frames[i].todo = <<>>)
          /\ i <= Len(way) => way[i] \notin ToSet(frames[i].todo)
      BY DEF OnTrail, n
    <3>1. CASE i = n
      <4>1. ~(i <= Len(way)) /\ others[i] = f /\ f.dir = frames[i].dir
        BY <1>1, <1>2, <3>1 DEF n
      <4>2. QED
        BY <3>0, <4>1
    <3>2. CASE i # n
      BY <1>2, <3>0, <3>2
    <3>3. QED
      BY <3>1, <3>2
  <2>2. QED
    BY <1>1, <1>2, <2>1 DEF OnTrail
<1>4. ASSUME NEW names \in Ways
      PROVE  /\ ToCome(others, way, names) => ToCome(frames, way, names)
             /\ ToCome(frames, way, names) /\ ~ToCome(others, way, names) =>
                  /\ Len(way) < Len(names) /\ Upto(names, Len(way) + 1) = way
                  /\ names[Len(way) + 1] \in Awaited(frames[n]) \ Awaited(f)
  <2>0. Len(names) \in Nat
    BY DEF Ways
  <2>1. \A i \in 1 .. n : Awaited(others[i]) \subseteq Awaited(frames[i])
    BY <1>2 DEF n
  <2>2. ToCome(others, way, names) => ToCome(frames, way, names)
    BY <1>2, <2>1 DEF ToCome, n
  <2>3. ASSUME ToCome(frames, way, names), ~ToCome(others, way, names)
        PROVE  /\ Len(way) < Len(names) /\ Upto(names, Len(way) + 1) = way
               /\ names[Len(way) + 1] \in Awaited(frames[n]) \ Awaited(f)
    <3>1. PICK i \in 1 .. n : /\ i <= Len(names) /\ \A k \in 1 .. i - 1 : names[k] = way[k]
                              /\ names[i] \in Awaited(frames[i])
      BY <2>3 DEF ToCome, n
    <3>2. names[i] \notin Awaited(others[i])
      BY <1>2, <2>3, <3>1 DEF ToCome
    <3>3. i = n
      BY <1>2, <3>1, <3>2
    <3>4. n - 1 = Len(way) /\ Len(way) < Len(names) /\ Len(way) <= Len(names)
      BY <1>1, <2>0, <3>1, <3>3
    <3>5. \A k \in 1 .. Len(way) : names[k] = way[k]
      BY <3>1, <3>3, <3>4
    <3>6. Upto(names, Len(way) + 1) = way
      BY <1>1, <3>4, <3>5, WayBegins
    <3>7. QED
      BY <1>1, <1>2, <3>1, <3>2, <3>3, <3>4, <3>6
  <2>4. QED
    BY <2>2, <2>3
<1>5. QED
  BY <1>3, <1>4 DEF n

\* A name that was taken is entered.
LEMMA FrameEntered ==
  ASSUME NEW rooted, NEW s, NEW way, NEW frames, OnTrail(frames, rooted, s, way),
         frames[Len(frames)].read,
         NEW n \in ToSet(Names), n \notin ToSet(frames[Len(frames)].todo),
         NEW e \in Frames, e.dir = TextOf(rooted, s, Append(way, n)), ~e.read, e.todo = <<>>
  PROVE  /\ OnTrail(Append(frames, e), rooted, s, Append(way, n))
         /\ \A names \in Ways :
              ToCome(Append(frames, e), Append(way, n), names) <=>
                \/ ToCome(frames, way, names)
                \/ Len(way) + 1 < Len(names) /\ Upto(names, Len(way) + 2) = Append(way, n)
<1> DEFINE m == Len(frames)
           c == Append(way, n)
           others == Append(frames, e)
<1>1. frames \in Seq(Frames) /\ way \in Ways /\ m = Len(way) + 1 /\ Len(way) \in Nat /\ m \in Nat
  BY DEF OnTrail, Ways
<1>2. /\ others \in Seq(Frames) /\ Len(others) = m + 1 /\ others[m + 1] = e
      /\ \A k \in 1 .. m : others[k] = frames[k]
  BY <1>1, AppendFacts
<1>3. /\ c \in Ways /\ Len(c) = m /\ (\A k \in 1 .. Len(way) : c[k] = way[k]) /\ c[m] = n
      /\ (\A i \in 1 .. m : Upto(c, i) = Upto(way, i)) /\ Upto(c, m + 1) = c
  <2>1. Len(way) + 2 = m + 1
    BY <1>1
  <2>2. QED
    BY <1>1, <2>1, WaysAre
<1>4. e.dir = TextOf(rooted, s, c) /\ n \notin ToSet(frames[m].todo) /\ frames[m].read
  OBVIOUS
<1> HIDE DEF m, c, others
<1>5. OnTrail(others, rooted, s, c)
  <2>1. ASSUME NEW i \in 1 .. m + 1
        PROVE  /\ others[i].dir = TextOf(rooted, s, Upto(c, i))
               /\ IsInjective(others[i].todo)
               /\ others[i].read \/ (i = m + 1 /\ others[i].todo = <<>>)
               /\ i <= m => c[i] \notin ToSet(others[i].todo)
    <3>1. CASE i = m + 1
      <4>1. others[i] = e /\ Upto(c, i) = c /\ ~(i <= m)
        BY <1>1, <1>2, <1>3, <3>1
      <4>2. IsInjective(e.todo)
        BY NoItems
      <4>3. QED
        BY <1>4, <3>1, <4>1, <4>2
    <3>2. CASE i # m + 1
      <4>1. i \in 1 .. m
        BY <1>1, <3>2
      <4>2. /\ frames[i].dir = TextOf(rooted, s, Upto(way, i))
            /\ IsInjective(frames[i].todo)
            /\ frames[i].read \/ i = m
            /\ i <= Len(way) => way[i] \notin ToSet(frames[i].todo)
        BY <4>1 DEF OnTrail, m
      <4>3. others[i] = frames[i] /\ Upto(c, i) = Upto(way, i)
        BY <1>2, <1>3, <4>1
      <4>4. c[i] \notin ToSet(frames[i].todo)
        <5>1. CASE i = m
          BY <1>3, <1>4, <5>1
        <5>2. CASE i # m
          <6>1. i \in 1 .. Len(way) /\ i <= Len(way)
            BY <1>1, <4>1, <5>2
          <6>2. QED
            BY <1>3, <4>2, <6>1
        <5>3. QED
          BY <5>1, <5>2
      <4>5. frames[i].read
        BY <1>4, <4>2
      <4>6. QED
        BY <4>2, <4>3, <4>4, <4>5
    <3>3. QED
      BY <3>1, <3>2
  <2>2. Len(others) = Len(c) + 1 /\ Len(others) = m + 1 /\ Len(c) = m
    BY <1>2, <1>3
  <2> HIDE DEF TextOf
  <2>3. QED
    BY <1>2, <1>3, <2>1, <2>2 DEF OnTrail
<1>6. ASSUME NEW names \in Ways
      PROVE  ToCome(others, c, names) <=>
               \/ ToCome(frames, way, names)
               \/ Len(way) + 1 < Len(names) /\ Upto(names, m + 1) = c
  <2> DEFINE Here(i) == /\ i <= Len(names) /\ \A k \in 1 .. i - 1 : names[k] = way[k]
                        /\ names[i] \in Awaited(frames[i])
             There(i) == /\ i <= Len(names) /\ \A k \in 1 .. i - 1 : names[k] = c[k]
                         /\ names[i] \in Awaited(others[i])
  <2>1. ASSUME NEW i \in 1 .. m PROVE Here(i) <=> There(i)
    <3>1. others[i] = frames[i] /\ \A k \in 1 .. i - 1 : c[k] = way[k]
      BY <1>1, <1>2, <1>3
    <3>2. QED
      BY <3>1
  <2>2. There(m + 1) <=> Len(way) + 1 < Len(names) /\ Upto(names, m + 1) = c
    <3>0. Len(names) \in Nat /\ (m + 1) - 1 = m
      BY <1>1 DEF Ways
    <3>1. CASE m + 1 <= Len(names)
      <4>1. (\A k \in 1 .. m : names[k] = c[k]) <=> Upto(names, m + 1) = c
        <5>1. Len(c) <= Len(names)
          BY <1>1, <1>3, <3>0, <3>1
        <5>2. QED
          BY <1>3, <5>1, WayBegins
      <4>2. names[m + 1] \in Awaited(others[m + 1])
        <5>1. names[m + 1] \in ToSet(Names)
          <6>1. m + 1 \in 1 .. Len(names)
            BY <1>1, <3>0, <3>1
          <6>2. QED
            BY <6>1 DEF Ways
        <5>2. QED
          BY <1>2, <5>1 DEF Awaited
      <4>3. Len(way) + 1 < Len(names)
        BY <1>1, <3>0, <3>1
      <4>4. QED
        BY <3>0, <3>1, <4>1, <4>2, <4>3
    <3>2. CASE ~(m + 1 <= Len(names))
      <4>1. ~(Len(way) + 1 < Len(names))
        BY <1>1, <3>0, <3>2
      <4>2. QED
        BY <3>2, <4>1
    <3>3. QED
      BY <3>1, <3>2
  <2>3. ToCome(frames, way, names) <=> \E i \in 1 .. m : Here(i)
    BY DEF ToCome, m
  <2>4. ToCome(others, c, names) <=> \E i \in 1 .. m + 1 : There(i)
    BY <1>2 DEF ToCome
  <2>5. \A i : i \in 1 .. m + 1 <=> (i \in 1 .. m \/ i = m + 1)
    BY <1>1
  <2> HIDE DEF Here, There
  <2>6. QED
    BY <2>1, <2>2, <2>3, <2>4, <2>5
<1>7. Len(way) + 2 = m + 1
  BY <1>1
<1>8. QED
  BY <1>5, <1>6, <1>7 DEF c, others

\* A directory with nothing to visit is left.
LEMMA FrameLeft ==
  ASSUME NEW rooted, NEW s, NEW way, NEW frames, OnTrail(frames, rooted, s, way),
         frames[Len(frames)].read, frames[Len(frames)].todo = <<>>
  PROVE  /\ Len(frames) = 1 => \A names \in Ways : ~ToCome(frames, way, names)
         /\ Len(frames) > 1 =>
              /\ OnTrail(Front(frames), rooted, s, Front(way))
              /\ Len(Front(way)) = Len(way) - 1 /\ Len(way) > 0
              /\ \A k \in 1 .. Len(way) - 1 : Front(way)[k] = way[k]
              /\ \A i \in 1 .. Len(way) : Upto(Front(way), i) = Upto(way, i) /\ Front(frames)[i] = frames[i]
              /\ \A names \in Ways : ToCome(Front(frames), Front(way), names) <=> ToCome(frames, way, names)
<1> DEFINE m == Len(frames)
           c == Front(way)
           others == Front(frames)
<1>1. frames \in Seq(Frames) /\ way \in Ways /\ m = Len(way) + 1 /\ Len(way) \in Nat /\ m \in Nat /\ m \in 1 .. m
  BY DEF OnTrail, Ways
<1>2. Awaited(frames[m]) = {}
  BY NoItems DEF Awaited
<1>3. ASSUME m = 1, NEW names \in Ways PROVE ~ToCome(frames, way, names)
  BY <1>2, <1>3 DEF ToCome
<1>4. ASSUME m > 1
      PROVE  /\ OnTrail(others, rooted, s, c)
             /\ Len(c) = Len(way) - 1 /\ Len(way) > 0
             /\ \A k \in 1 .. Len(way) - 1 : c[k] = way[k]
             /\ \A i \in 1 .. Len(way) : Upto(c, i) = Upto(way, i) /\ others[i] = frames[i]
             /\ \A names \in Ways : ToCome(others, c, names) <=> ToCome(frames, way, names)
  <2>1. frames # <<>> /\ way # <<>> /\ Len(way) > 0
    BY <1>1, <1>4 DEF Ways
  <2>2. /\ others \in Seq(Frames) /\ Len(others) = m - 1 /\ \A k \in 1 .. m - 1 : others[k] = frames[k]
    BY <1>1, <2>1, FrontFacts
  <2>3. c \in Ways /\ Len(c) = Len(way) - 1 /\ \A k \in 1 .. Len(way) - 1 : c[k] = way[k]
    BY <1>1, <2>1, FrontFacts DEF Ways
  <2> HIDE DEF m, c, others
  <2>4. ASSUME NEW i \in 1 .. Len(way) PROVE Upto(c, i) = Upto(way, i)
    <3>1. i \in 1 .. Len(c) + 1 /\ i <= Len(way) + 1 /\ \A k \in 1 .. i - 1 : c[k] = way[k]
      BY <1>1, <2>3
    <3>2. QED
      BY <1>1, <2>3, <3>1, SameUpto DEF Ways
  <2>5. OnTrail(others, rooted, s, c)
    <3>1. ASSUME NEW i \in 1 .. m - 1
          PROVE  /\ others[i].dir = TextOf(rooted, s, Upto(c, i))
                 /\ IsInjective(others[i].todo)
                 /\ others[i].read
                 /\ i <= Len(c) => c[i] \notin ToSet(others[i].todo)
      <4>1. i \in 1 .. m /\ i # m /\ i \in 1 .. Len(way) /\ i <= Len(way)
        BY <1>1
      <4>2. /\ frames[i].dir = TextOf(rooted, s, Upto(way, i))
            /\ IsInjective(frames[i].todo)
            /\ frames[i].read
            /\ way[i] \notin ToSet(frames[i].todo)
        BY <4>1 DEF OnTrail, m
      <4>3. others[i] = frames[i] /\ Upto(c, i) = Upto(way, i) /\ (i <= Len(c) => c[i] = way[i])
        BY <1>1, <2>2, <2>3, <2>4, <4>1
      <4>4. QED
        BY <4>2, <4>3
    <3>2. Len(others) = Len(c) + 1 /\ Len(others) = m - 1
      BY <1>1, <2>2, <2>3
    <3> HIDE DEF TextOf
    <3>3. QED
      BY <2>2, <2>3, <3>1, <3>2 DEF OnTrail
  <2>6. ASSUME NEW names \in Ways PROVE ToCome(others, c, names) <=> ToCome(frames, way, names)
    <3> DEFINE Here(i) == /\ i <= Len(names) /\ \A k \in 1 .. i - 1 : names[k] = way[k]
                          /\ names[i] \in Awaited(frames[i])
               There(i) == /\ i <= Len(names) /\ \A k \in 1 .. i - 1 : names[k] = c[k]
                           /\ names[i] \in Awaited(others[i])
    <3>1. ASSUME NEW i \in 1 .. m - 1 PROVE Here(i) <=> There(i)
      <4>1. others[i] = frames[i] /\ \A k \in 1 .. i - 1 : c[k] = way[k]
        BY <1>1, <2>2, <2>3
      <4>2. QED
        BY <4>1
    <3>2. ~Here(m)
      BY <1>2
    <3>3. ToCome(frames, way, names) <=> \E i \in 1 .. m : Here(i)
      BY DEF ToCome, m
    <3>4. ToCome(others, c, names) <=> \E i \in 1 .. m - 1 : There(i)
      BY <2>2 DEF ToCome
    <3>5. \A i : i \in 1 .. m <=> (i \in 1 .. m - 1 \/ i = m)
      BY <1>1
    <3> HIDE DEF Here, There
    <3>6. QED
      BY <3>1, <3>2, <3>3, <3>4, <3>5
  <2>7. \A i \in 1 .. Len(way) : others[i] = frames[i]
    BY <1>1, <2>2
  <2>8. QED
    BY <2>1, <2>3, <2>4, <2>5, <2>6, <2>7
<1>5. QED
  BY <1>3, <1>4

-----------------------------------------------------------------------------
(* What a traversal has found, and what it has still to find.              *)

\* The names on the way match the patterns so far, and there are more.
Guided(j, way) ==
  j.call = "glob" => Len(way) < Len(j.patterns) /\ \A i \in 1 .. Len(way) : way[i] \in j.patterns[i]

Patterned(patterns) == Len(patterns) \in Nat \ {0} /\ DOMAIN patterns = 1 .. Len(patterns)

\* Nothing is found before it is visited, nothing that matched all the time is
\* left out, and what is to be visited in a directory that was read matched
\* when it was.
Expected(j, rooted, s, way) ==
  \A i \in 1 .. Len(j.frames) : \A x \in ToSet(j.frames[i].todo) :
    Matches(j.call, j.patterns, Append(Upto(way, i), x)) =>
      TextOf(rooted, s, Append(Upto(way, i), x)) \in j.ever
Counted(j, rooted, s, way) ==
  \A names \in Ways :
    /\ TextOf(rooted, s, names) \in ToSet(j.found) => ~ToCome(j.frames, way, names)
    /\ TextOf(rooted, s, names) \in j.always /\ ~ToCome(j.frames, way, names) =>
         TextOf(rooted, s, names) \in ToSet(j.found)
Account(t, j, rooted, s, way) ==
  /\ j.found \in Seq(AllTexts) /\ IsInjective(j.found) /\ ToSet(j.found) \subseteq j.ever
  /\ Counted(j, rooted, s, way) /\ Expected(j, rooted, s, way)
  /\ j.always \subseteq Sought(t, j.call, j.patterns, Build(rooted, s))
  /\ Sought(t, j.call, j.patterns, Build(rooted, s)) \subseteq j.ever

\* The same search.
Continues(j, k) ==
  k.call = j.call /\ k.patterns = j.patterns /\ k.always = j.always /\ k.ever = j.ever

LEMMA TextsOfWays ==
  ASSUME NEW rooted \in BOOLEAN, NEW s, Reduced(rooted, s), NEW way \in Ways
  PROVE  /\ TextOf(rooted, s, way) \in AllTexts /\ Reduced(rooted, s \o way) /\ s \o way \in Seq(Pieces)
         /\ s \in Seq(Pieces) /\ way \in Seq(Pieces) /\ way \in Seq(Plain)
         /\ \A n \in ToSet(Names) : TextOf(rooted, s, Append(way, n)) = Child(TextOf(rooted, s, way), n)
<1>1. s \in Seq(Pieces) /\ way \in Seq(Pieces) /\ way \in Seq(Plain)
  BY ReducedNames, NamesFacts
<1> DEFINE a == s \o way
<1>2. Reduced(rooted, a) /\ a \in Seq(Pieces)
  BY <1>1, ReducedBelow, ConcatFacts
<1>3. Build(rooted, a) \in AllTexts
  BY <1>2, BuildFacts
<1>4. ASSUME NEW n \in ToSet(Names) PROVE Build(rooted, s \o Append(way, n)) = Child(Build(rooted, a), n)
  <2>1. n \in Plain /\ n \in Pieces
    BY NamesFacts
  <2>2. s \o Append(way, n) = Append(a, n)
    BY <1>1, <2>1, AppendedWay
  <2> HIDE DEF a
  <2>3. Child(Build(rooted, a), n) = Build(rooted, Append(a, n))
    BY <1>2, <2>1, ChildIs
  <2>4. QED
    BY <2>2, <2>3
<1>5. QED
  BY <1>1, <1>2, <1>3, <1>4 DEF TextOf

\* What is sought below a path.
LEMMA SoughtWays ==
  ASSUME NEW t, IsTree(t), Flat(t), NEW rooted \in BOOLEAN, NEW s, Reduced(rooted, s), NEW j
  PROVE  \A way \in Ways : TextOf(rooted, s, way) \in Sought(t, j.call, j.patterns, Build(rooted, s)) <=>
                             Offspring(t, s, way) /\ Matches(j.call, j.patterns, way)
<1> DEFINE kind == j.call
           patterns == j.patterns
<1> HIDE DEF kind, patterns
<1>1. \A way \in Ways : Build(rooted, s \o way) \in Sought(t, kind, patterns, Build(rooted, s)) <=>
                          Offspring(t, s, way) /\ Matches(kind, patterns, way)
  BY SoughtIs
<1>2. QED
  BY <1>1 DEF TextOf, kind, patterns

\* Nothing more is found.
LEMMA AccountKept ==
  ASSUME NEW t, IsTree(t), Flat(t), NEW rooted \in BOOLEAN, NEW s, Reduced(rooted, s),
         NEW j, NEW k, NEW way, NEW onward,
         Account(t, j, rooted, s, way), Continues(j, k), k.found = j.found,
         Expected(k, rooted, s, onward),
         \A names \in Ways :
           /\ ToCome(k.frames, onward, names) => ToCome(j.frames, way, names)
           /\ ToCome(j.frames, way, names) /\ Offspring(t, s, names) /\ Matches(j.call, j.patterns, names) =>
                ToCome(k.frames, onward, names)
  PROVE  Account(t, k, rooted, s, onward)
<1> DEFINE sought == Sought(t, j.call, j.patterns, Build(rooted, s))
<1>1. /\ j.found \in Seq(AllTexts) /\ IsInjective(j.found) /\ ToSet(j.found) \subseteq j.ever
      /\ Counted(j, rooted, s, way) /\ j.always \subseteq sought /\ sought \subseteq j.ever
  BY DEF Account
<1>2. k.call = j.call /\ k.patterns = j.patterns /\ k.always = j.always /\ k.ever = j.ever
  BY DEF Continues
<1>3. \A names \in Ways : TextOf(rooted, s, names) \in sought <=>
                            Offspring(t, s, names) /\ Matches(j.call, j.patterns, names)
  BY SoughtWays
<1> HIDE DEF sought
<1>4. Counted(k, rooted, s, onward)
  <2> SUFFICES ASSUME NEW names \in Ways
               PROVE  /\ TextOf(rooted, s, names) \in ToSet(k.found) => ~ToCome(k.frames, onward, names)
                      /\ TextOf(rooted, s, names) \in k.always /\ ~ToCome(k.frames, onward, names) =>
                           TextOf(rooted, s, names) \in ToSet(k.found)
    BY DEF Counted
  <2>1. /\ TextOf(rooted, s, names) \in ToSet(j.found) => ~ToCome(j.frames, way, names)
        /\ TextOf(rooted, s, names) \in j.always /\ ~ToCome(j.frames, way, names) =>
             TextOf(rooted, s, names) \in ToSet(j.found)
    BY <1>1 DEF Counted
  <2>2. TextOf(rooted, s, names) \in j.always =>
          Offspring(t, s, names) /\ Matches(j.call, j.patterns, names)
    BY <1>1, <1>3
  <2>3. QED
    BY <1>2, <2>1, <2>2
<1>5. QED
  BY <1>1, <1>2, <1>4 DEF Account, sought

\* What is visited is found.
LEMMA AccountGrows ==
  ASSUME NEW t, IsTree(t), Flat(t), NEW rooted \in BOOLEAN, NEW s, Reduced(rooted, s),
         NEW j, NEW k, NEW way, NEW onward, NEW c \in Ways,
         Account(t, j, rooted, s, way), Continues(j, k),
         k.found = Append(j.found, TextOf(rooted, s, c)),
         TextOf(rooted, s, c) \in j.ever,
         Expected(k, rooted, s, onward),
         ToCome(j.frames, way, c), ~ToCome(k.frames, onward, c),
         \A names \in Ways :
           /\ ToCome(k.frames, onward, names) => ToCome(j.frames, way, names)
           /\ ToCome(j.frames, way, names) /\ Offspring(t, s, names) /\ Matches(j.call, j.patterns, names) =>
                ToCome(k.frames, onward, names) \/ names = c
  PROVE  Account(t, k, rooted, s, onward)
<1> DEFINE sought == Sought(t, j.call, j.patterns, Build(rooted, s))
           text == TextOf(rooted, s, c)
<1>1. /\ j.found \in Seq(AllTexts) /\ IsInjective(j.found) /\ ToSet(j.found) \subseteq j.ever
      /\ Counted(j, rooted, s, way) /\ j.always \subseteq sought /\ sought \subseteq j.ever
  BY DEF Account
<1>2. k.call = j.call /\ k.patterns = j.patterns /\ k.always = j.always /\ k.ever = j.ever
  BY DEF Continues
<1>3. \A names \in Ways : TextOf(rooted, s, names) \in sought <=>
                            Offspring(t, s, names) /\ Matches(j.call, j.patterns, names)
  BY SoughtWays
<1>4. text \in AllTexts /\ text \notin ToSet(j.found) /\ text \in j.ever /\ k.found = Append(j.found, text)
  BY <1>1, TextsOfWays DEF Counted
<1>5. \A names \in Ways : TextOf(rooted, s, names) = text => names = c
  <2> SUFFICES ASSUME NEW names \in Ways, TextOf(rooted, s, names) = text PROVE names = c
    OBVIOUS
  <2>1. /\ Reduced(rooted, s \o names) /\ Reduced(rooted, s \o c) /\ s \in Seq(Pieces)
        /\ names \in Seq(Pieces) /\ c \in Seq(Pieces)
    BY TextsOfWays
  <2>2. Build(rooted, s \o names) = Build(rooted, s \o c)
    BY DEF TextOf
  <2>3. s \o names = s \o c
    BY <2>1, <2>2, BuildOnce
  <2>4. QED
    BY <2>1, <2>3, ConcatCancels
<1> HIDE DEF sought, text
<1>6. /\ k.found \in Seq(AllTexts) /\ IsInjective(k.found) /\ ToSet(k.found) = ToSet(j.found) \cup {text}
  BY <1>1, <1>4, AppendedItems, AppendFacts
<1>7. Counted(k, rooted, s, onward)
  <2> SUFFICES ASSUME NEW names \in Ways
               PROVE  /\ TextOf(rooted, s, names) \in ToSet(k.found) => ~ToCome(k.frames, onward, names)
                      /\ TextOf(rooted, s, names) \in k.always /\ ~ToCome(k.frames, onward, names) =>
                           TextOf(rooted, s, names) \in ToSet(k.found)
    BY DEF Counted
  <2>1. /\ TextOf(rooted, s, names) \in ToSet(j.found) => ~ToCome(j.frames, way, names)
        /\ TextOf(rooted, s, names) \in j.always /\ ~ToCome(j.frames, way, names) =>
             TextOf(rooted, s, names) \in ToSet(j.found)
    BY <1>1 DEF Counted
  <2>2. TextOf(rooted, s, names) \in j.always =>
          Offspring(t, s, names) /\ Matches(j.call, j.patterns, names)
    BY <1>1, <1>3
  <2>3. TextOf(rooted, s, names) = text => names = c
    BY <1>5
  <2>4. names = c => TextOf(rooted, s, names) = text
    BY DEF text
  <2>5. QED
    BY <1>2, <1>6, <2>1, <2>2, <2>3, <2>4
<1>8. QED
  BY <1>1, <1>2, <1>4, <1>6, <1>7 DEF Account, sought

\* The tree changes.
LEMMA AccountOfChange ==
  ASSUME NEW t, NEW u, NEW rooted, NEW s, NEW j, NEW k, NEW way,
         Account(t, j, rooted, s, way),
         k.call = j.call, k.patterns = j.patterns, k.found = j.found, k.frames = j.frames,
         k.always = j.always \cap Sought(u, j.call, j.patterns, Build(rooted, s)),
         k.ever = j.ever \cup Sought(u, j.call, j.patterns, Build(rooted, s))
  PROVE  Account(u, k, rooted, s, way)
<1> DEFINE sought == Sought(u, j.call, j.patterns, Build(rooted, s))
<1>1. /\ j.found \in Seq(AllTexts) /\ IsInjective(j.found) /\ ToSet(j.found) \subseteq j.ever
      /\ Counted(j, rooted, s, way) /\ Expected(j, rooted, s, way)
  BY DEF Account
<1>2. k.always = j.always \cap sought /\ k.ever = j.ever \cup sought
  OBVIOUS
<1>3. Sought(u, k.call, k.patterns, Build(rooted, s)) = sought
  OBVIOUS
<1> HIDE DEF sought
<1>4. Counted(k, rooted, s, way)
  BY <1>1, <1>2 DEF Counted
<1>5. Expected(k, rooted, s, way)
  BY <1>1, <1>2 DEF Expected
<1>6. QED
  BY <1>1, <1>2, <1>3, <1>4, <1>5 DEF Account

\* The directory in hand is read.
LEMMA AccountOfReading ==
  ASSUME NEW t, IsTree(t), Flat(t), NEW rooted \in BOOLEAN, NEW s, Reduced(rooted, s),
         NEW j, NEW k, NEW way, OnTrail(j.frames, rooted, s, way),
         Account(t, j, rooted, s, way), Continues(j, k), k.found = j.found,
         NEW last \in Frames, last = j.frames[Len(j.frames)], ~last.read,
         Leading(t, s \o way),
         k.frames = [j.frames EXCEPT ![Len(j.frames)] =
                       [last EXCEPT !.read = TRUE, !.todo = Listing(t, last.dir)]]
  PROVE  OnTrail(k.frames, rooted, s, way) /\ Account(t, k, rooted, s, way)
<1> DEFINE m == Len(j.frames)
           list == Listing(t, last.dir)
           f == [last EXCEPT !.read = TRUE, !.todo = list]
<1>1. /\ j.frames \in Seq(Frames) /\ way \in Ways /\ m = Len(way) + 1 /\ Len(way) \in Nat
      /\ m \in Nat /\ m \in 1 .. m
  BY DEF OnTrail, Ways
<1>2. /\ s \in Seq(Pieces) /\ s \o way \in Seq(Pieces) /\ Reduced(rooted, s \o way)
      /\ way \in Seq(Pieces) /\ way \in Seq(Plain)
  BY <1>1, TextsOfWays
<1>3. last.dir = Build(rooted, s \o way) /\ Upto(way, m) = way
  <2>1. Upto(way, m) = way
    BY <1>1, UptoFacts DEF Ways
  <2>2. j.frames[m].dir = TextOf(rooted, s, Upto(way, m))
    BY <1>1 DEF OnTrail
  <2>3. QED
    BY <2>1, <2>2 DEF TextOf
<1>4. list \in Ways /\ IsInjective(list) /\ ToSet(list) = {n \in ToSet(Names) : Holds(t, s \o way, n)}
  <2> DEFINE a == s \o way
  <2>1. Reduced(rooted, a) /\ Leading(t, a) /\ last.dir = Build(rooted, a)
    BY <1>2, <1>3
  <2> HIDE DEF a
  <2>2. list \in Seq(ToSet(Names)) /\ IsInjective(list) /\ ToSet(list) = {n \in ToSet(Names) : Holds(t, a, n)}
    BY <2>1, ListingIs
  <2>3. QED
    BY <2>2 DEF a, Ways
<1> HIDE DEF list
<1>5. f \in Frames /\ f.dir = last.dir /\ f.read /\ f.todo = list
  BY <1>4 DEF Frames
<1>6. k.frames = [j.frames EXCEPT ![m] = f]
  BY DEF list
<1> HIDE DEF f, m
<1>7. Awaited(f) = ToSet(list) /\ Awaited(last) = ToSet(Names)
  BY <1>5 DEF Awaited
<1>8. /\ OnTrail(k.frames, rooted, s, way)
      /\ \A names \in Ways :
           /\ ToCome(k.frames, way, names) => ToCome(j.frames, way, names)
           /\ ToCome(j.frames, way, names) /\ ~ToCome(k.frames, way, names) =>
                /\ Len(way) < Len(names) /\ Upto(names, Len(way) + 1) = way
                /\ names[Len(way) + 1] \in ToSet(Names) \ ToSet(list)
  <2>1. f.dir = j.frames[m].dir /\ Awaited(f) \subseteq Awaited(j.frames[m]) /\ IsInjective(f.todo)
    BY <1>4, <1>5, <1>7 DEF m
  <2> DEFINE frames == j.frames
             others == k.frames
  <2>2. /\ OnTrail(frames, rooted, s, way) /\ others = [frames EXCEPT ![Len(frames)] = f]
        /\ f.dir = frames[Len(frames)].dir /\ Awaited(f) \subseteq Awaited(frames[Len(frames)])
        /\ Awaited(frames[Len(frames)]) = ToSet(Names)
    BY <1>6, <1>7, <2>1 DEF m
  <2> HIDE DEF frames, others
  <2>3. /\ OnTrail(others, rooted, s, way)
        /\ \A names \in Ways :
             /\ ToCome(others, way, names) => ToCome(frames, way, names)
             /\ ToCome(frames, way, names) /\ ~ToCome(others, way, names) =>
                  /\ Len(way) < Len(names) /\ Upto(names, Len(way) + 1) = way
                  /\ names[Len(way) + 1] \in Awaited(frames[Len(frames)]) \ Awaited(f)
    BY <1>5, <2>1, <2>2, FrameShrinks
  <2>4. QED
    BY <1>7, <2>2, <2>3 DEF frames, others
<1>9. \A names \in Ways :
        ToCome(j.frames, way, names) /\ Offspring(t, s, names) => ToCome(k.frames, way, names)
  <2> SUFFICES ASSUME NEW names \in Ways, ToCome(j.frames, way, names), Offspring(t, s, names),
                      ~ToCome(k.frames, way, names)
               PROVE  FALSE
    OBVIOUS
  <2>1. /\ Len(way) < Len(names) /\ Upto(names, Len(way) + 1) = way
        /\ names[Len(way) + 1] \in ToSet(Names) \ ToSet(list)
    BY <1>8
  <2>2. Len(names) \in Nat /\ Len(way) + 1 \in 1 .. Len(names) /\ names \in Seq(Plain)
    BY <1>1, <2>1, NamesFacts DEF Ways
  <2>3. Holds(t, s \o Upto(names, Len(way) + 1), names[Len(way) + 1])
    BY <1>2, <2>2, Along
  <2>4. QED
    BY <1>4, <2>1, <2>3
<1>10. \A i \in 1 .. m : i # m => k.frames[i] = j.frames[i]
  BY <1>1, <1>5, <1>6, FrameReplaced DEF m
<1>11. Len(k.frames) = m /\ k.frames[m] = f
  BY <1>1, <1>5, <1>6, FrameReplaced DEF m
<1>12. Expected(k, rooted, s, way)
  <2> SUFFICES ASSUME NEW i \in 1 .. m, NEW x \in ToSet(k.frames[i].todo),
                      Matches(k.call, k.patterns, Append(Upto(way, i), x))
               PROVE  TextOf(rooted, s, Append(Upto(way, i), x)) \in k.ever
    BY <1>11 DEF Expected
  <2>0. k.call = j.call /\ k.patterns = j.patterns /\ k.ever = j.ever
    BY DEF Continues
  <2>1. CASE i = m
    <3> DEFINE w == Append(way, x)
    <3>1. x \in ToSet(Names) /\ Holds(t, s \o way, x) /\ Upto(way, i) = way
      BY <1>3, <1>4, <1>5, <1>11, <2>1
    <3>2. w \in Ways /\ w # <<>> /\ Front(w) = way /\ Last(w) = x
      BY <1>1, <3>1, AppendFacts DEF Ways
    <3> HIDE DEF w
    <3>3. Offspring(t, s, w) /\ Matches(j.call, j.patterns, w)
      BY <2>0, <3>1, <3>2 DEF Offspring, w
    <3>4. TextOf(rooted, s, w) \in Sought(t, j.call, j.patterns, Build(rooted, s))
      BY <3>2, <3>3, SoughtWays
    <3>5. TextOf(rooted, s, w) \in j.ever
      BY <3>4 DEF Account
    <3>6. QED
      BY <2>0, <3>1, <3>5 DEF w
  <2>2. CASE i # m
    BY <1>10, <2>0, <2>2 DEF Account, Expected, m
  <2>3. QED
    BY <2>1, <2>2
<1>13. Account(t, k, rooted, s, way)
  BY <1>8, <1>9, <1>12, AccountKept
<1>14. QED
  BY <1>8, <1>13

\* A name of the directory in hand is taken.
Taking(j, last, n, others) ==
  /\ last \in Frames /\ last = j.frames[Len(j.frames)] /\ last.todo # <<>> /\ n = Head(last.todo)
  /\ others = [j.frames EXCEPT ![Len(j.frames)] = [last EXCEPT !.todo = Tail(last.todo)]]

LEMMA TakenName ==
  ASSUME NEW rooted \in BOOLEAN, NEW s, Reduced(rooted, s), NEW j, NEW way, OnTrail(j.frames, rooted, s, way),
         NEW last, NEW n, NEW others, Taking(j, last, n, others)
  PROVE  /\ n \in ToSet(Names) /\ n \in ToSet(last.todo) /\ last.read /\ Upto(way, Len(j.frames)) = way
         /\ last.dir = TextOf(rooted, s, way) /\ Child(last.dir, n) = TextOf(rooted, s, Append(way, n))
         /\ OnTrail(others, rooted, s, way) /\ Len(others) = Len(j.frames)
         /\ others[Len(others)].read /\ n \notin ToSet(others[Len(others)].todo)
         /\ \A i \in 1 .. Len(others) : ToSet(others[i].todo) \subseteq ToSet(j.frames[i].todo)
         /\ \A names \in Ways :
              /\ ToCome(others, way, names) => ToCome(j.frames, way, names)
              /\ ToCome(j.frames, way, names) /\ ~ToCome(others, way, names) =>
                   Len(way) < Len(names) /\ Upto(names, Len(way) + 2) = Append(way, n)
         /\ ToCome(j.frames, way, Append(way, n)) /\ ~ToCome(others, way, Append(way, n))
<1> DEFINE frames == j.frames
           m == Len(frames)
           rest == Tail(last.todo)
           f == [last EXCEPT !.todo = rest]
           c == Append(way, n)
<1>1. /\ frames \in Seq(Frames) /\ way \in Ways /\ m = Len(way) + 1 /\ Len(way) \in Nat
      /\ m \in Nat /\ m \in 1 .. m
  BY DEF OnTrail, Ways
<1>2. /\ last \in Frames /\ last = frames[m] /\ last.todo # <<>> /\ n = Head(last.todo)
      /\ others = [frames EXCEPT ![m] = f]
  BY DEF Taking
<1>3. /\ last.todo \in Ways /\ IsInjective(last.todo) /\ last.read /\ last.dir = TextOf(rooted, s, Upto(way, m))
  BY <1>1, <1>2 DEF OnTrail, Frames
<1>4. Upto(way, m) = way
  BY <1>1, UptoFacts DEF Ways
<1>5. /\ n \in ToSet(Names) /\ n \in ToSet(last.todo) /\ rest \in Ways
      /\ ToSet(last.todo) = ToSet(rest) \cup {n} /\ IsInjective(rest) /\ n \notin ToSet(rest)
  <2>1. ToSet(last.todo) \subseteq ToSet(Names)
    BY <1>2, AwaitedNames
  <2>2. /\ ToSet(last.todo) = ToSet(rest) \cup {n} /\ IsInjective(rest) /\ n \notin ToSet(rest)
    BY <1>2, <1>3, TakenItems DEF Ways
  <2>3. rest \in Ways
    BY <1>2, <1>3, HeadAndTail DEF Ways
  <2>4. QED
    BY <2>1, <2>2, <2>3
<1>6. f \in Frames /\ f.dir = last.dir /\ f.read = last.read /\ f.todo = rest
  BY <1>2, <1>5 DEF Frames
<1> HIDE DEF frames, m, rest, f
<1>7. Awaited(f) = ToSet(rest) /\ Awaited(last) = ToSet(last.todo)
  BY <1>3, <1>6 DEF Awaited
<1>8. /\ others \in Seq(Frames) /\ Len(others) = m /\ others[m] = f
      /\ \A k \in 1 .. m : k # m => others[k] = frames[k]
  BY <1>1, <1>2, <1>6, FrameReplaced DEF m
<1>9. /\ OnTrail(others, rooted, s, way)
      /\ \A names \in Ways :
           /\ ToCome(others, way, names) => ToCome(frames, way, names)
           /\ ToCome(frames, way, names) /\ ~ToCome(others, way, names) =>
                /\ Len(way) < Len(names) /\ Upto(names, Len(way) + 1) = way
                /\ names[Len(way) + 1] = n
  <2>1. /\ OnTrail(frames, rooted, s, way) /\ others = [frames EXCEPT ![Len(frames)] = f]
        /\ f \in Frames /\ f.dir = frames[Len(frames)].dir /\ f.read /\ IsInjective(f.todo)
        /\ Awaited(f) \subseteq Awaited(frames[Len(frames)])
        /\ Awaited(frames[Len(frames)]) \ Awaited(f) = {n}
    <3>1. frames[Len(frames)] = last /\ OnTrail(frames, rooted, s, way) /\ others = [frames EXCEPT ![Len(frames)] = f]
      BY <1>2 DEF frames, m
    <3>2. QED
      BY <1>3, <1>5, <1>6, <1>7, <3>1
  <2>2. /\ OnTrail(others, rooted, s, way)
        /\ \A names \in Ways :
             /\ ToCome(others, way, names) => ToCome(frames, way, names)
             /\ ToCome(frames, way, names) /\ ~ToCome(others, way, names) =>
                  /\ Len(way) < Len(names) /\ Upto(names, Len(way) + 1) = way
                  /\ names[Len(way) + 1] \in Awaited(frames[Len(frames)]) \ Awaited(f)
    BY <2>1, FrameShrinks
  <2>3. QED
    BY <2>1, <2>2
<1>10. ASSUME NEW names \in Ways, Len(way) < Len(names), Upto(names, Len(way) + 1) = way,
              names[Len(way) + 1] = n
       PROVE  Upto(names, Len(way) + 2) = c
  <2> DEFINE i == Len(way) + 1
  <2>1. i \in 1 .. Len(names) + 1 /\ i <= Len(names) /\ i + 1 = Len(way) + 2
    BY <1>1, <1>10 DEF Ways
  <2>2. Upto(names, i) = way /\ names[i] = n
    BY <1>10
  <2> HIDE DEF i
  <2>3. Upto(names, i + 1) = Append(Upto(names, i), names[i])
    BY <2>1, UptoFacts DEF Ways
  <2>4. QED
    BY <2>1, <2>2, <2>3
<1>11. /\ c \in Ways /\ Len(c) = m /\ c[m] = n /\ \A k \in 1 .. Len(way) : c[k] = way[k]
  BY <1>1, <1>5, WaysAre
<1> HIDE DEF c
<1>12. ToCome(frames, way, c)
  <2>1. m <= Len(c) /\ \A k \in 1 .. m - 1 : c[k] = way[k]
    BY <1>1, <1>11
  <2>2. c[m] \in Awaited(frames[m])
    BY <1>2, <1>5, <1>7, <1>11
  <2>3. m \in 1 .. Len(frames)
    BY <1>1 DEF m
  <2>4. QED
    BY <2>1, <2>2, <2>3 DEF ToCome
<1>13. ~ToCome(others, way, c)
  <2> SUFFICES ASSUME NEW i \in 1 .. m, c[i] \in Awaited(others[i]) PROVE FALSE
    BY <1>8 DEF ToCome
  <2>1. CASE i = m
    BY <1>5, <1>7, <1>8, <1>11, <2>1
  <2>2. CASE i # m
    <3>1. i \in 1 .. Len(way) /\ i <= Len(way)
      BY <1>1, <2>2
    <3>2. others[i].read /\ way[i] \notin ToSet(others[i].todo)
      BY <1>8, <1>9, <2>2, <3>1 DEF OnTrail
    <3>3. Awaited(others[i]) = ToSet(others[i].todo)
      BY <3>2 DEF Awaited
    <3>4. QED
      BY <1>11, <3>1, <3>2, <3>3
  <2>3. QED
    BY <2>1, <2>2
<1>14. \A i \in 1 .. Len(others) : ToSet(others[i].todo) \subseteq ToSet(frames[i].todo)
  <2> SUFFICES ASSUME NEW i \in 1 .. m PROVE ToSet(others[i].todo) \subseteq ToSet(frames[i].todo)
    BY <1>8
  <2>1. CASE i = m
    BY <1>2, <1>5, <1>6, <1>8, <2>1
  <2>2. CASE i # m
    BY <1>8, <2>2
  <2>3. QED
    BY <2>1, <2>2
<1>15. Child(last.dir, n) = TextOf(rooted, s, c)
  BY <1>1, <1>3, <1>4, <1>5, TextsOfWays DEF c
<1>16. others[Len(others)].read /\ n \notin ToSet(others[Len(others)].todo)
  BY <1>3, <1>5, <1>6, <1>8
<1>17. \A names \in Ways :
         /\ ToCome(others, way, names) => ToCome(frames, way, names)
         /\ ToCome(frames, way, names) /\ ~ToCome(others, way, names) =>
              Len(way) < Len(names) /\ Upto(names, Len(way) + 2) = c
  BY <1>9, <1>10
<1>18. Len(others) = Len(frames) /\ Upto(way, Len(frames)) = way
  BY <1>4, <1>8 DEF m
<1>19. QED
  BY <1>3, <1>4, <1>5, <1>9, <1>12, <1>13, <1>14, <1>15, <1>16, <1>17, <1>18 DEF frames, c

\* The patterns, at a name in the directory in hand.
Gathers(j, n) ==
  n \in j.patterns[IF j.call = "glob" THEN Len(j.frames) ELSE 1]
    /\ (j.call = "glob" => Len(j.frames) = Len(j.patterns))
Deepens(j, n) ==
  j.call = "glob" => n \in j.patterns[Len(j.frames)] /\ Len(j.frames) < Len(j.patterns)

LEMMA GathersMatches ==
  ASSUME NEW j, NEW way \in Ways, NEW n \in ToSet(Names), Len(j.frames) = Len(way) + 1,
         Guided(j, way), Patterned(j.patterns)
  PROVE  /\ Gathers(j, n) <=> Matches(j.call, j.patterns, Append(way, n))
         /\ Deepens(j, n) => Guided(j, Append(way, n))
<1> DEFINE c == Append(way, n)
           m == Len(j.frames)
<1>1. /\ Len(way) \in Nat /\ c \in Ways /\ Len(c) = m /\ c[m] = n /\ m = Len(way) + 1
      /\ \A k \in 1 .. Len(way) : c[k] = way[k]
  BY WaysAre
<1>2. Last(c) = n
  BY <1>1 DEF Last
<1>3. Len(j.patterns) \in Nat /\ DOMAIN j.patterns = 1 .. Len(j.patterns)
  BY DEF Patterned
<1> HIDE DEF c
<1>4. CASE j.call = "glob"
  <2>1. Len(way) < Len(j.patterns) /\ \A i \in 1 .. Len(way) : way[i] \in j.patterns[i]
    BY <1>4 DEF Guided
  <2>2. \A i \in 1 .. m : i \in 1 .. Len(way) \/ i = m
    BY <1>1
  <2>3. n \in j.patterns[m] <=> \A i \in 1 .. m : c[i] \in j.patterns[i]
    <3>1. m \in 1 .. m
      BY <1>1
    <3>2. QED
      BY <1>1, <2>1, <2>2, <3>1
  <2>4. Gathers(j, n) <=> Matches(j.call, j.patterns, c)
    BY <1>1, <1>3, <1>4, <2>3 DEF Gathers, Matches
  <2>5. Deepens(j, n) => Guided(j, c)
    BY <1>1, <1>4, <2>3 DEF Deepens, Guided
  <2>6. QED
    BY <2>4, <2>5 DEF c
<1>5. CASE j.call # "glob"
  BY <1>2, <1>5 DEF Gathers, Matches, Guided, c
<1>6. QED
  BY <1>4, <1>5

\* What is sought below a name is found by entering it.
LEMMA MustEnter ==
  ASSUME NEW t, IsTree(t), NEW s \in Seq(Pieces), NEW j, NEW way \in Ways, NEW n \in ToSet(Names),
         Len(j.frames) = Len(way) + 1, Patterned(j.patterns),
         NEW names \in Ways, Len(way) < Len(names), Upto(names, Len(way) + 2) = Append(way, n),
         Offspring(t, s, names), Matches(j.call, j.patterns, names)
  PROVE  names = Append(way, n) \/ (Deepens(j, n) /\ Leading(t, s \o Append(way, n)) /\ Len(way) + 1 < Len(names))
<1> DEFINE c == Append(way, n)
           m == Len(way) + 1
<1>1. Len(way) \in Nat /\ Len(names) \in Nat /\ m \in 1 .. Len(names) /\ m + 1 = Len(way) + 2
  BY DEF Ways
<1>2. c \in Ways /\ Len(c) = m /\ c[m] = n
  BY WaysAre
<1>3. m + 1 \in 1 .. Len(names) + 1 /\ Upto(names, m + 1) = c
  BY <1>1
<1> HIDE DEF c, m
<1>4. CASE m = Len(names)
  <2>1. m + 1 = Len(names) + 1
    BY <1>4
  <2>2. Upto(names, m + 1) = names
    BY <1>3, <2>1, UptoFacts DEF Ways
  <2>3. QED
    BY <1>3, <2>2 DEF c
<1>5. CASE m # Len(names)
  <2>1. m < Len(names)
    BY <1>1, <1>5
  <2>2. Leading(t, s \o Upto(names, m + 1))
    BY <1>1, <2>1, NamesFacts, Along
  <2>3. names[m] = n
    <3>1. Upto(names, m + 1)[m] = names[m]
      <4>1. m \in 1 .. (m + 1) - 1
        BY <1>1
      <4>2. QED
        BY <1>3, <4>1, UptoFacts DEF Ways
    <3>2. QED
      BY <1>2, <1>3, <3>1
  <2>4. Deepens(j, n)
    <3>1. SUFFICES ASSUME j.call = "glob" PROVE n \in j.patterns[m] /\ m < Len(j.patterns)
      BY DEF Deepens, m
    <3>2. Len(names) = Len(j.patterns) /\ \A i \in DOMAIN j.patterns : names[i] \in j.patterns[i]
      BY <3>1 DEF Matches
    <3>3. m \in DOMAIN j.patterns
      BY <1>1, <3>2 DEF Patterned
    <3>4. QED
      BY <2>1, <2>3, <3>2, <3>3
  <2>5. QED
    BY <1>3, <2>1, <2>2, <2>4 DEF c, m
<1>6. QED
  BY <1>4, <1>5

\* A child is visited, and entered or not.
LEMMA AccountOfVisit ==
  ASSUME NEW t, IsTree(t), Flat(t), NEW rooted \in BOOLEAN, NEW s, Reduced(rooted, s),
         NEW j, NEW k, NEW way, OnTrail(j.frames, rooted, s, way),
         Guided(j, way), Patterned(j.patterns),
         Account(t, j, rooted, s, way), Continues(j, k),
         NEW last, NEW n, NEW others, Taking(j, last, n, others),
         k.found = IF Gathers(j, n) THEN Append(j.found, Child(last.dir, n)) ELSE j.found,
         NEW onward,
         \/ k.frames = others /\ onward = way /\ ~(Deepens(j, n) /\ Leading(t, s \o Append(way, n)))
         \/ /\ onward = Append(way, n)
            /\ \E e \in Frames : /\ k.frames = Append(others, e) /\ e.dir = TextOf(rooted, s, Append(way, n))
                                 /\ ~e.read /\ e.todo = <<>>
  PROVE  OnTrail(k.frames, rooted, s, onward) /\ Account(t, k, rooted, s, onward)
<1> DEFINE c == Append(way, n)
           frames == j.frames
           m == Len(frames)
<1>1. /\ frames \in Seq(Frames) /\ way \in Ways /\ m = Len(way) + 1 /\ Len(way) \in Nat
      /\ m \in Nat /\ m \in 1 .. m
  BY DEF OnTrail, Ways
<1>2. s \in Seq(Pieces)
  BY ReducedNames
<1>3. /\ n \in ToSet(Names) /\ n \in ToSet(last.todo) /\ last.read /\ Upto(way, m) = way
      /\ last.dir = TextOf(rooted, s, way) /\ Child(last.dir, n) = TextOf(rooted, s, c)
      /\ OnTrail(others, rooted, s, way) /\ Len(others) = m
      /\ others[Len(others)].read /\ n \notin ToSet(others[Len(others)].todo)
      /\ \A i \in 1 .. Len(others) : ToSet(others[i].todo) \subseteq ToSet(frames[i].todo)
      /\ \A names \in Ways :
           /\ ToCome(others, way, names) => ToCome(frames, way, names)
           /\ ToCome(frames, way, names) /\ ~ToCome(others, way, names) =>
                Len(way) < Len(names) /\ Upto(names, Len(way) + 2) = c
      /\ ToCome(frames, way, c) /\ ~ToCome(others, way, c)
  BY TakenName
<1>4. /\ c \in Ways /\ Len(c) = m /\ \A i \in 1 .. m : Upto(c, i) = Upto(way, i)
  BY <1>1, <1>3, WaysAre
<1>5. Gathers(j, n) <=> Matches(j.call, j.patterns, c)
  BY <1>1, <1>3, GathersMatches
<1>6. k.call = j.call /\ k.patterns = j.patterns /\ k.ever = j.ever
  BY DEF Continues
<1>7. last = frames[m] /\ others \in Seq(Frames)
  BY <1>3 DEF Taking, OnTrail
<1>8. ASSUME NEW names \in Ways, Offspring(t, s, names), Matches(j.call, j.patterns, names),
             Len(way) < Len(names), Upto(names, Len(way) + 2) = c
      PROVE  names = c \/ (Deepens(j, n) /\ Leading(t, s \o c) /\ Len(way) + 1 < Len(names))
  BY <1>1, <1>2, <1>3, <1>8, MustEnter
<1>9. ASSUME Matches(j.call, j.patterns, c) PROVE TextOf(rooted, s, c) \in j.ever
  <2>1. Expected(j, rooted, s, way) /\ m \in 1 .. Len(j.frames) /\ n \in ToSet(j.frames[m].todo)
    BY <1>1, <1>3, <1>7 DEF Account
  <2>2. Matches(j.call, j.patterns, Append(Upto(way, m), n))
    BY <1>3, <1>9
  <2>3. TextOf(rooted, s, Append(Upto(way, m), n)) \in j.ever
    BY <2>1, <2>2 DEF Expected
  <2>4. QED
    BY <1>3, <2>3
<1> HIDE DEF c
<1>10. /\ OnTrail(k.frames, rooted, s, onward) /\ Expected(k, rooted, s, onward)
       /\ ~ToCome(k.frames, onward, c)
       /\ \A names \in Ways :
            /\ ToCome(k.frames, onward, names) => ToCome(frames, way, names)
            /\ ToCome(frames, way, names) /\ Offspring(t, s, names) /\ Matches(j.call, j.patterns, names) =>
                 ToCome(k.frames, onward, names) \/ names = c
  <2>0. ASSUME NEW i \in 1 .. m, NEW x \in ToSet(others[i].todo),
               Matches(j.call, j.patterns, Append(Upto(way, i), x))
        PROVE  TextOf(rooted, s, Append(Upto(way, i), x)) \in j.ever
    <3>1. x \in ToSet(j.frames[i].todo) /\ i \in 1 .. Len(j.frames)
      BY <1>3, <2>0
    <3>2. Expected(j, rooted, s, way)
      BY DEF Account
    <3> HIDE DEF m, frames
    <3>3. QED
      BY <2>0, <3>1, <3>2 DEF Expected
  <2>1. CASE k.frames = others /\ onward = way /\ ~(Deepens(j, n) /\ Leading(t, s \o c))
    <3>1. Expected(k, rooted, s, onward)
      BY <1>3, <1>6, <2>0, <2>1 DEF Expected
    <3>2. QED
      BY <1>3, <1>8, <2>1, <3>1
  <2>2. ASSUME onward = c, NEW e \in Frames, k.frames = Append(others, e), e.dir = TextOf(rooted, s, c),
               ~e.read, e.todo = <<>>
        PROVE  /\ OnTrail(k.frames, rooted, s, onward) /\ Expected(k, rooted, s, onward)
               /\ ~ToCome(k.frames, onward, c)
               /\ \A names \in Ways :
                    /\ ToCome(k.frames, onward, names) => ToCome(frames, way, names)
                    /\ ToCome(frames, way, names) /\ Offspring(t, s, names) /\ Matches(j.call, j.patterns, names) =>
                         ToCome(k.frames, onward, names) \/ names = c
    <3>1. /\ OnTrail(k.frames, rooted, s, c)
          /\ \A names \in Ways :
               ToCome(k.frames, c, names) <=>
                 \/ ToCome(others, way, names)
                 \/ Len(way) + 1 < Len(names) /\ Upto(names, Len(way) + 2) = c
      BY <1>3, <2>2, FrameEntered DEF c
    <3>2. Len(k.frames) = m + 1 /\ k.frames[m + 1] = e /\ \A i \in 1 .. m : k.frames[i] = others[i]
      BY <1>3, <1>7, <2>2, AppendFacts
    <3>3. Expected(k, rooted, s, onward)
      <4> SUFFICES ASSUME NEW i \in 1 .. m + 1, NEW x \in ToSet(k.frames[i].todo),
                          Matches(j.call, j.patterns, Append(Upto(c, i), x))
                   PROVE  TextOf(rooted, s, Append(Upto(c, i), x)) \in j.ever
        BY <1>6, <2>2, <3>2 DEF Expected
      <4>1. i # m + 1
        BY <2>2, <3>2, NoItems
      <4>2. i \in 1 .. m
        BY <1>1, <4>1
      <4>3. x \in ToSet(others[i].todo) /\ Upto(c, i) = Upto(way, i)
        BY <1>4, <3>2, <4>2
      <4>4. QED
        BY <2>0, <4>2, <4>3
    <3>4. ASSUME NEW names \in Ways, ToCome(k.frames, c, names) PROVE ToCome(frames, way, names)
      <4>1. CASE ToCome(others, way, names)
        BY <1>3, <4>1
      <4>2. CASE Len(way) + 1 < Len(names) /\ Upto(names, Len(way) + 2) = c
        <5>1. /\ Len(names) \in Nat /\ m + 1 \in 1 .. Len(names) + 1 /\ m + 1 = Len(way) + 2
              /\ \A i \in 1 .. m : i \in 1 .. (m + 1) - 1
          BY <1>1, <4>2 DEF Ways
        <5>2. \A i \in 1 .. m : names[i] = c[i]
          BY <4>2, <5>1, UptoFacts DEF Ways
        <5>3. c[m] = n /\ \A i \in 1 .. m - 1 : c[i] = way[i]
          BY <1>1, <1>3, WaysAre DEF c
        <5>4. n \in Awaited(frames[m])
          BY <1>3, <1>7 DEF Awaited
        <5>5. m <= Len(names) /\ (\A i \in 1 .. m - 1 : names[i] = way[i]) /\ names[m] \in Awaited(frames[m])
          BY <1>1, <4>2, <5>1, <5>2, <5>3, <5>4
        <5>6. QED
          BY <1>1, <5>5 DEF ToCome
      <4>3. QED
        BY <3>1, <3>4, <4>1, <4>2
    <3>5. ASSUME NEW names \in Ways, ToCome(frames, way, names), Offspring(t, s, names),
                 Matches(j.call, j.patterns, names), names # c
          PROVE  ToCome(k.frames, c, names)
      BY <1>3, <1>8, <3>1, <3>5
    <3>6. ~ToCome(k.frames, c, c)
      <4>1. ~(Len(way) + 1 < Len(c))
        BY <1>1, <1>4
      <4>2. QED
        BY <1>3, <1>4, <3>1, <4>1
    <3>7. QED
      BY <2>2, <3>1, <3>3, <3>4, <3>5, <3>6
  <2>3. CASE onward = c /\ \E e \in Frames : /\ k.frames = Append(others, e) /\ e.dir = TextOf(rooted, s, c)
                                            /\ ~e.read /\ e.todo = <<>>
    <3>1. PICK e \in Frames : /\ k.frames = Append(others, e) /\ e.dir = TextOf(rooted, s, c)
                              /\ ~e.read /\ e.todo = <<>>
      BY <2>3
    <3>2. QED
      BY <2>2, <2>3, <3>1
  <2>4. \/ k.frames = others /\ onward = way /\ ~(Deepens(j, n) /\ Leading(t, s \o c))
        \/ onward = c /\ \E e \in Frames : /\ k.frames = Append(others, e) /\ e.dir = TextOf(rooted, s, c)
                                           /\ ~e.read /\ e.todo = <<>>
    BY DEF c
  <2>5. QED
    BY <2>1, <2>3, <2>4
<1>11. CASE Gathers(j, n)
  <2>1. k.found = Append(j.found, TextOf(rooted, s, c)) /\ TextOf(rooted, s, c) \in j.ever
    BY <1>3, <1>5, <1>9, <1>11
  <2> HIDE DEF m
  <2>2. Account(t, k, rooted, s, onward)
    BY <1>3, <1>4, <1>10, <2>1, AccountGrows
  <2>3. QED
    BY <1>10, <2>2
<1>12. CASE ~Gathers(j, n)
  <2>1. k.found = j.found /\ ~Matches(j.call, j.patterns, c)
    BY <1>5, <1>12
  <2>2. \A names \in Ways :
          /\ ToCome(k.frames, onward, names) => ToCome(j.frames, way, names)
          /\ ToCome(j.frames, way, names) /\ Offspring(t, s, names) /\ Matches(j.call, j.patterns, names) =>
               ToCome(k.frames, onward, names)
    BY <1>10, <2>1
  <2>3. Account(t, k, rooted, s, onward)
    BY <1>10, <2>1, <2>2, AccountKept
  <2>4. QED
    BY <1>10, <2>3
<1>13. QED
  BY <1>11, <1>12

\* A traversal begins.
LEMMA AccountOfStart ==
  ASSUME NEW t, IsTree(t), Flat(t), NEW rooted \in BOOLEAN, NEW s, Reduced(rooted, s), NEW j,
         j.frames = <<Frame(Build(rooted, s))>>, j.found = <<>>, Patterned(j.patterns),
         j.always = Sought(t, j.call, j.patterns, Build(rooted, s)), j.ever = j.always
  PROVE  /\ OnTrail(j.frames, rooted, s, <<>>) /\ Guided(j, <<>>) /\ Account(t, j, rooted, s, <<>>)
         /\ <<>> \in Ways /\ Len(j.frames) = 1
<1> DEFINE none == <<>>
           f == Frame(Build(rooted, s))
<1>1. none \in Ways /\ Len(none) = 0 /\ none = <<>> /\ 1 \in 1 .. Len(none) + 1
  BY DEF Ways
<1>2. s \in Seq(Pieces) /\ s \o none = s /\ Build(rooted, s) \in AllTexts
  BY ReducedNames, ConcatEmptySeq, BuildFacts
<1> HIDE DEF none
<1>3. Upto(none, 1) = none
  <2> DEFINE i == Len(none) + 1
  <2>1. i \in 1 .. Len(none) + 1 /\ i = Len(none) + 1 /\ none \in Seq(ToSet(Names)) /\ i = 1
    BY <1>1 DEF Ways
  <2> HIDE DEF i
  <2>2. Upto(none, i) = none
    BY <2>1, UptoFacts
  <2>3. QED
    BY <2>1, <2>2
<1>4. f \in Frames /\ f.dir = TextOf(rooted, s, none) /\ ~f.read /\ f.todo = <<>>
  BY <1>1, <1>2 DEF Frame, Frames, TextOf, none
<1>5. j.frames = <<f>> /\ Len(j.frames) = 1 /\ j.frames[1] = f /\ j.frames \in Seq(Frames)
  BY <1>4
<1> HIDE DEF f
<1>6. OnTrail(j.frames, rooted, s, none)
  <2>1. IsInjective(f.todo)
    BY <1>4, NoItems
  <2>2. \A i \in 1 .. Len(j.frames) : i = 1 /\ i = Len(j.frames) /\ ~(i <= Len(none))
    BY <1>1, <1>5
  <2> HIDE DEF TextOf
  <2>3. QED
    BY <1>1, <1>3, <1>4, <1>5, <2>1, <2>2 DEF OnTrail
<1>7. Guided(j, none)
  BY <1>1 DEF Guided, Patterned
<1>8. \A names \in Ways : Offspring(t, s, names) => ToCome(j.frames, none, names)
  <2> SUFFICES ASSUME NEW names \in Ways, names # <<>> PROVE ToCome(j.frames, none, names)
    BY DEF Offspring
  <2>1. 1 <= Len(names) /\ names[1] \in ToSet(Names)
    BY HeadAndTail DEF Ways
  <2>2. names[1] \in Awaited(f)
    BY <1>4, <2>1 DEF Awaited
  <2>3. 1 \in 1 .. Len(j.frames) /\ 1 <= Len(names) /\ (\A i \in 1 .. 1 - 1 : names[i] = none[i])
        /\ names[1] \in Awaited(j.frames[1])
    BY <1>5, <2>1, <2>2
  <2>4. QED
    BY <2>3 DEF ToCome
<1>9. Counted(j, rooted, s, none)
  <2> DEFINE sought == Sought(t, j.call, j.patterns, Build(rooted, s))
  <2>1. \A names \in Ways : TextOf(rooted, s, names) \in sought => Offspring(t, s, names)
    BY SoughtWays
  <2>2. j.always = sought
    OBVIOUS
  <2> HIDE DEF sought
  <2>3. QED
    BY <1>8, <2>1, <2>2, NoItems DEF Counted
<1>10. Expected(j, rooted, s, none)
  BY <1>4, <1>5, NoItems DEF Expected
<1>11. j.found \in Seq(AllTexts) /\ IsInjective(j.found) /\ ToSet(j.found) \subseteq j.ever
  BY NoItems
<1>12. Account(t, j, rooted, s, none)
  BY <1>9, <1>10, <1>11 DEF Account
<1>13. QED
  BY <1>1, <1>5, <1>6, <1>7, <1>12 DEF none

\* A directory is left for the one above it.
LEMMA AccountOfLeaving ==
  ASSUME NEW t, IsTree(t), Flat(t), NEW rooted \in BOOLEAN, NEW s, Reduced(rooted, s),
         NEW j, NEW k, NEW way, OnTrail(j.frames, rooted, s, way), Guided(j, way),
         Account(t, j, rooted, s, way), Continues(j, k), k.found = j.found,
         j.frames[Len(j.frames)].read, j.frames[Len(j.frames)].todo = <<>>,
         Len(j.frames) > 1, k.frames = Front(j.frames)
  PROVE  /\ OnTrail(k.frames, rooted, s, Front(way)) /\ Guided(k, Front(way))
         /\ Account(t, k, rooted, s, Front(way))
         /\ Len(k.frames) = Len(way) /\ Front(way) \in Ways
         /\ \A i \in 1 .. Len(way) : Upto(Front(way), i) = Upto(way, i)
<1> DEFINE frames == j.frames
           c == Front(way)
<1>1. /\ OnTrail(Front(frames), rooted, s, c)
      /\ Len(c) = Len(way) - 1 /\ Len(way) > 0
      /\ \A i \in 1 .. Len(way) - 1 : c[i] = way[i]
      /\ \A i \in 1 .. Len(way) : Upto(c, i) = Upto(way, i) /\ Front(frames)[i] = frames[i]
      /\ \A names \in Ways : ToCome(Front(frames), c, names) <=> ToCome(frames, way, names)
  <2>1. /\ OnTrail(frames, rooted, s, way) /\ frames[Len(frames)].read /\ frames[Len(frames)].todo = <<>>
        /\ Len(frames) > 1
    OBVIOUS
  <2> HIDE DEF frames
  <2>2. QED
    BY <2>1, FrameLeft
<1> HIDE DEF c
<1>2. /\ k.frames = Front(j.frames) /\ OnTrail(k.frames, rooted, s, c) /\ c \in Ways
      /\ Len(k.frames) = Len(c) + 1 /\ Len(way) \in Nat /\ Len(frames) = Len(way) + 1
  BY <1>1 DEF OnTrail, Ways
<1>3. Len(k.frames) = Len(way)
  BY <1>1, <1>2
<1>4. k.call = j.call /\ k.patterns = j.patterns /\ k.ever = j.ever
  BY DEF Continues
<1>5. Guided(k, c)
  <2>1. \A i \in 1 .. Len(c) : i \in 1 .. Len(way) /\ i \in 1 .. Len(way) - 1 /\ c[i] = way[i]
    BY <1>1, <1>2
  <2> SUFFICES ASSUME k.call = "glob"
               PROVE  Len(c) < Len(k.patterns) /\ \A i \in 1 .. Len(c) : c[i] \in k.patterns[i]
    BY DEF Guided
  <2>2. Len(way) < Len(j.patterns) /\ \A i \in 1 .. Len(way) : way[i] \in j.patterns[i]
    BY <1>4 DEF Guided
  <2>3. Len(c) < Len(j.patterns)
    <3> DEFINE n == Len(j.patterns)
    <3>1. Len(c) = Len(way) - 1 /\ Len(way) < n
      BY <1>1, <2>2
    <3> HIDE DEF n
    <3>2. QED
      BY <1>2, <3>1 DEF n
  <2>4. QED
    BY <1>4, <2>1, <2>2, <2>3
<1>6. Expected(k, rooted, s, c)
  <2> SUFFICES ASSUME NEW i \in 1 .. Len(way), NEW x \in ToSet(k.frames[i].todo),
                      Matches(j.call, j.patterns, Append(Upto(c, i), x))
               PROVE  TextOf(rooted, s, Append(Upto(c, i), x)) \in j.ever
    BY <1>3, <1>4 DEF Expected
  <2>1. i \in 1 .. Len(j.frames) /\ x \in ToSet(j.frames[i].todo) /\ Upto(c, i) = Upto(way, i)
    BY <1>1, <1>2
  <2>2. Expected(j, rooted, s, way)
    BY DEF Account
  <2> HIDE DEF frames
  <2>3. QED
    BY <2>1, <2>2 DEF Expected
<1>7. Account(t, k, rooted, s, c)
  BY <1>1, <1>2, <1>6, AccountKept
<1>8. QED
  BY <1>1, <1>2, <1>3, <1>5, <1>7 DEF c

\* The first directory is left: everything is found.
LEMMA AccountIsFull ==
  ASSUME NEW t, IsTree(t), Flat(t), NEW rooted \in BOOLEAN, NEW s, Reduced(rooted, s),
         NEW j, NEW way, OnTrail(j.frames, rooted, s, way), Account(t, j, rooted, s, way),
         j.frames[Len(j.frames)].read, j.frames[Len(j.frames)].todo = <<>>, Len(j.frames) = 1
  PROVE  j.always \subseteq ToSet(j.found)
<1> DEFINE frames == j.frames
           kind == j.call
           patterns == j.patterns
<1>1. \A names \in Ways : ~ToCome(frames, way, names)
  <2>1. /\ OnTrail(frames, rooted, s, way) /\ frames[Len(frames)].read /\ frames[Len(frames)].todo = <<>>
        /\ Len(frames) = 1
    OBVIOUS
  <2> HIDE DEF frames
  <2>2. QED
    BY <2>1, FrameLeft
<1>2. Counted(j, rooted, s, way) /\ j.always \subseteq Sought(t, kind, patterns, Build(rooted, s))
  BY DEF Account
<1>3. \A x \in Sought(t, kind, patterns, Build(rooted, s)) : \E names \in Ways : x = TextOf(rooted, s, names)
  <2> HIDE DEF kind, patterns
  <2>1. \A x \in Sought(t, kind, patterns, Build(rooted, s)) :
          \E names \in Ways : /\ Offspring(t, s, names) /\ Matches(kind, patterns, names)
                              /\ x = Build(rooted, s \o names)
    BY SoughtIs
  <2>2. QED
    BY <2>1 DEF TextOf
<1>4. QED
  BY <1>1, <1>2, <1>3 DEF Counted

-----------------------------------------------------------------------------
(* The steps of a traversal.                                               *)

FrameKinds == {"walk", "rglob", "glob"}
Fields == {"call", "status", "patterns", "base", "frames", "found", "always", "ever", "since"}

Underway(t, base, now, j) ==
  /\ DOMAIN j = Fields /\ j.call \in FrameKinds /\ j.base = base /\ Patterned(j.patterns)
  /\ j.since \in Nat /\ now \in Nat /\ j.since <= now
  /\ \E rooted \in BOOLEAN : \E s \in Seq(Named) : \E way \in Ways :
       /\ Reduced(rooted, s) /\ base = Build(rooted, s)
       /\ OnTrail(j.frames, rooted, s, way) /\ Guided(j, way) /\ Account(t, j, rooted, s, way)
       /\ j.since = now => \A i \in 2 .. Len(j.frames) : Leading(t, s \o Upto(way, i))
Ended(t, base, now, j) ==
  j.call \in FrameKinds =>
    /\ IsInjective(j.found) /\ ToSet(j.found) \subseteq j.ever
    /\ j.status = "done" => j.always \subseteq ToSet(j.found)
    /\ j.status = "failed" => now > j.since \/ ~IsDir(t, base)

\* What the steps make of a traversal.
ReadAt(t, j) ==
  [j EXCEPT !.frames[Len(j.frames)] =
     [Last(j.frames) EXCEPT !.read = TRUE, !.todo = Listing(t, Last(j.frames).dir)]]
Failing(j) == [j EXCEPT !.status = "failed", !.frames = <<>>]
Leaving(j) == [j EXCEPT !.frames = Front(j.frames)]
Finishing(j) == [j EXCEPT !.frames = Front(j.frames), !.status = "done"]
Changing(j, sought) == [j EXCEPT !.always = j.always \cap sought, !.ever = j.ever \cup sought]

LEMMA UnderwayStarts ==
  ASSUME NEW t, IsTree(t), Flat(t), NEW base, IsClean(base), NEW now \in Nat, NEW j,
         DOMAIN j = Fields, j.call \in FrameKinds, j.base = base, Patterned(j.patterns), j.since = now,
         j.frames = <<Frame(base)>>, j.found = <<>>,
         j.always = Sought(t, j.call, j.patterns, base), j.ever = j.always
  PROVE  Underway(t, base, now, j)
<1>1. PICK rooted \in BOOLEAN, s \in Seq(Named) : Reduced(rooted, s) /\ base = Build(rooted, s)
  BY DEF IsClean
<1> DEFINE none == <<>>
<1>2. /\ OnTrail(j.frames, rooted, s, none) /\ Guided(j, none) /\ Account(t, j, rooted, s, none)
      /\ none \in Ways /\ Len(j.frames) = 1
  BY <1>1, AccountOfStart
<1> HIDE DEF none
<1>3. \A i \in 2 .. Len(j.frames) : FALSE
  BY <1>2
<1>4. QED
  BY <1>1, <1>2, <1>3 DEF Underway

LEMMA UnderwayReads ==
  ASSUME NEW t, IsTree(t), Flat(t), NEW base, NEW now, NEW j, Underway(t, base, now, j),
         ~Last(j.frames).read, IsDir(t, Last(j.frames).dir)
  PROVE  Underway(t, base, now, ReadAt(t, j)) /\ ReadAt(t, j).status = j.status
<1> DEFINE last == Last(j.frames)
           k == ReadAt(t, j)
<1>1. PICK rooted \in BOOLEAN, s \in Seq(Named), way \in Ways :
        /\ Reduced(rooted, s) /\ base = Build(rooted, s)
        /\ OnTrail(j.frames, rooted, s, way) /\ Guided(j, way) /\ Account(t, j, rooted, s, way)
        /\ j.since = now => \A i \in 2 .. Len(j.frames) : Leading(t, s \o Upto(way, i))
  BY DEF Underway
<1> DEFINE f == [last EXCEPT !.read = TRUE, !.todo = Listing(t, last.dir)]
<1>2. /\ DOMAIN j = Fields /\ j.call \in FrameKinds /\ j.base = base /\ Patterned(j.patterns)
      /\ j.since \in Nat /\ now \in Nat /\ j.since <= now
  BY DEF Underway
<1>3. /\ DOMAIN k = Fields /\ k.call = j.call /\ k.base = j.base /\ k.patterns = j.patterns
      /\ k.since = j.since /\ k.found = j.found /\ k.always = j.always /\ k.ever = j.ever
      /\ k.status = j.status
      /\ k.frames = [j.frames EXCEPT ![Len(j.frames)] = f]
  <2>1. k = [j EXCEPT !.frames[Len(j.frames)] = f]
    BY DEF ReadAt
  <2> HIDE DEF k, f
  <2>2. QED
    BY <1>2, <2>1 DEF Fields
<1> HIDE DEF k
<1>4. /\ j.frames \in Seq(Frames) /\ Len(j.frames) = Len(way) + 1 /\ Len(way) \in Nat
      /\ last = j.frames[Len(j.frames)] /\ last \in Frames
      /\ last.dir = TextOf(rooted, s, Upto(way, Len(j.frames))) /\ Upto(way, Len(way) + 1) = way
  <2>1. /\ j.frames \in Seq(Frames) /\ Len(j.frames) = Len(way) + 1 /\ Len(way) \in Nat
    BY <1>1 DEF OnTrail, Ways
  <2>2. Len(j.frames) \in 1 .. Len(j.frames) /\ Len(way) + 1 \in 1 .. Len(way) + 1
    BY <2>1
  <2>3. j.frames[Len(j.frames)].dir = TextOf(rooted, s, Upto(way, Len(j.frames)))
    BY <1>1, <2>2 DEF OnTrail
  <2>4. Upto(way, Len(way) + 1) = way
    BY <2>2, UptoFacts DEF Ways
  <2>5. last = j.frames[Len(j.frames)]
    BY DEF Last
  <2>6. QED
    BY <2>1, <2>2, <2>3, <2>4, <2>5
<1>5. Leading(t, s \o way)
  <2> DEFINE a == s \o way
  <2>1. Reduced(rooted, a) /\ IsDir(t, Build(rooted, a))
    BY <1>1, <1>4, TextsOfWays DEF TextOf
  <2> HIDE DEF a
  <2>2. Leading(t, a)
    BY <2>1, StatOfBuild
  <2>3. QED
    BY <2>2 DEF a
<1>6. Continues(j, k)
  BY <1>3 DEF Continues
<1>7. OnTrail(k.frames, rooted, s, way) /\ Account(t, k, rooted, s, way)
  <2>1. ~last.read /\ last = j.frames[Len(j.frames)] /\ last \in Frames
    BY <1>4
  <2> HIDE DEF last
  <2>2. QED
    BY <1>1, <1>3, <1>5, <1>6, <2>1, AccountOfReading
<1>8. Guided(k, way)
  BY <1>1, <1>3 DEF Guided
<1>9. Len(k.frames) = Len(j.frames)
  BY <1>4, <1>7 DEF OnTrail
<1> HIDE DEF f
<1>10. Underway(t, base, now, k)
  BY <1>1, <1>2, <1>3, <1>7, <1>8, <1>9 DEF Underway
<1>11. QED
  BY <1>3, <1>10 DEF k

LEMMA UnderwayFails ==
  ASSUME NEW t, IsTree(t), Flat(t), NEW base, NEW now, NEW j, Underway(t, base, now, j),
         ~IsDir(t, Last(j.frames).dir)
  PROVE  Ended(t, base, now, Failing(j)) /\ Failing(j).status = "failed"
<1> DEFINE k == Failing(j)
<1>1. PICK rooted \in BOOLEAN, s \in Seq(Named), way \in Ways :
        /\ Reduced(rooted, s) /\ base = Build(rooted, s)
        /\ OnTrail(j.frames, rooted, s, way) /\ Guided(j, way) /\ Account(t, j, rooted, s, way)
        /\ j.since = now => \A i \in 2 .. Len(j.frames) : Leading(t, s \o Upto(way, i))
  BY DEF Underway
<1>2. /\ DOMAIN j = Fields /\ j.since \in Nat /\ now \in Nat /\ j.since <= now
  BY DEF Underway
<1>3. k.since = j.since /\ k.found = j.found /\ k.ever = j.ever /\ k.status = "failed"
  BY <1>2 DEF Fields, Failing
<1> HIDE DEF k
<1>4. IsInjective(k.found) /\ ToSet(k.found) \subseteq k.ever
  BY <1>1, <1>3 DEF Account
<1> DEFINE m == Len(j.frames)
<1>5. /\ m = Len(way) + 1 /\ Len(way) \in Nat /\ m \in 1 .. m /\ m \in 1 .. Len(way) + 1
      /\ Last(j.frames).dir = TextOf(rooted, s, Upto(way, m))
  <2>1. m = Len(way) + 1 /\ Len(way) \in Nat
    BY <1>1 DEF OnTrail, Ways
  <2>2. m \in 1 .. m /\ m \in 1 .. Len(way) + 1
    BY <2>1
  <2>3. j.frames[m].dir = TextOf(rooted, s, Upto(way, m))
    BY <1>1, <2>2 DEF OnTrail
  <2>4. QED
    BY <2>1, <2>2, <2>3 DEF Last
<1> DEFINE w == Upto(way, m)
<1>6. w \in Ways /\ Len(w) = m - 1
  BY <1>5, UptoFacts DEF Ways
<1>7. CASE m = 1
  <2>1. w = <<>>
    BY <1>6, <1>7 DEF Ways
  <2>2. s \in Seq(Pieces)
    BY <1>1, ReducedNames
  <2>3. s \o w = s
    BY <2>1, <2>2, ConcatEmptySeq
  <2>4. ~IsDir(t, base)
    BY <1>1, <1>5, <2>3 DEF TextOf
  <2>5. QED
    BY <1>3, <1>4, <2>4 DEF Ended, k
<1>8. CASE m # 1
  <2> DEFINE a == s \o w
  <2>1. Reduced(rooted, a) /\ ~IsDir(t, Build(rooted, a))
    BY <1>1, <1>5, <1>6, TextsOfWays DEF TextOf
  <2> HIDE DEF a
  <2>2. ~Leading(t, a)
    BY <2>1, StatOfBuild
  <2>3. m \in 2 .. m
    BY <1>5, <1>8
  <2>4. j.since # now
    BY <1>1, <2>2, <2>3 DEF a
  <2>5. now > k.since
    BY <1>2, <1>3, <2>4
  <2>6. QED
    BY <1>3, <1>4, <2>5 DEF Ended, k
<1>9. QED
  BY <1>3, <1>7, <1>8 DEF k

LEMMA UnderwayVisits ==
  ASSUME NEW t, IsTree(t), Flat(t), NEW base, NEW now, NEW j, Underway(t, base, now, j),
         NEW last, NEW n, NEW others, Taking(j, last, n, others),
         NEW enters \in BOOLEAN, enters <=> Deepens(j, n) /\ IsDir(t, Child(last.dir, n)),
         NEW k, DOMAIN k = Fields, k.base = j.base, k.since = j.since, Continues(j, k),
         k.found = IF Gathers(j, n) THEN Append(j.found, Child(last.dir, n)) ELSE j.found,
         k.frames = IF enters THEN Append(others, Frame(Child(last.dir, n))) ELSE others
  PROVE  Underway(t, base, now, k)
<1>1. PICK rooted \in BOOLEAN, s \in Seq(Named), way \in Ways :
        /\ Reduced(rooted, s) /\ base = Build(rooted, s)
        /\ OnTrail(j.frames, rooted, s, way) /\ Guided(j, way) /\ Account(t, j, rooted, s, way)
        /\ j.since = now => \A i \in 2 .. Len(j.frames) : Leading(t, s \o Upto(way, i))
  BY DEF Underway
<1>2. /\ DOMAIN j = Fields /\ j.call \in FrameKinds /\ j.base = base /\ Patterned(j.patterns)
      /\ j.since \in Nat /\ now \in Nat /\ j.since <= now
  BY DEF Underway
<1>3. k.call = j.call /\ k.patterns = j.patterns /\ k.always = j.always /\ k.ever = j.ever
  BY DEF Continues
<1> DEFINE m == Len(j.frames)
           c == Append(way, n)
           child == Child(last.dir, n)
           e == Frame(child)
<1>4. /\ j.frames \in Seq(Frames) /\ m = Len(way) + 1 /\ Len(way) \in Nat /\ m \in 1 .. m /\ last = j.frames[m]
      /\ last \in Frames
  <2>1. j.frames \in Seq(Frames) /\ m = Len(way) + 1 /\ Len(way) \in Nat
    BY <1>1 DEF OnTrail, Ways
  <2>2. m \in 1 .. m
    BY <2>1
  <2>3. last \in Frames /\ last = j.frames[m]
    BY DEF Taking
  <2>4. QED
    BY <2>1, <2>2, <2>3
<1>5. Taking(j, last, n, others)
  OBVIOUS
<1>6. /\ n \in ToSet(Names) /\ child = TextOf(rooted, s, c) /\ Len(others) = m
  <2>1. Reduced(rooted, s) /\ OnTrail(j.frames, rooted, s, way) /\ Taking(j, last, n, others)
    BY <1>1, <1>5
  <2>2. /\ n \in ToSet(Names) /\ n \in ToSet(last.todo) /\ last.read /\ Upto(way, Len(j.frames)) = way
        /\ last.dir = TextOf(rooted, s, way) /\ Child(last.dir, n) = TextOf(rooted, s, Append(way, n))
        /\ OnTrail(others, rooted, s, way) /\ Len(others) = Len(j.frames)
        /\ others[Len(others)].read /\ n \notin ToSet(others[Len(others)].todo)
        /\ \A i \in 1 .. Len(others) : ToSet(others[i].todo) \subseteq ToSet(j.frames[i].todo)
        /\ \A names \in Ways :
             /\ ToCome(others, way, names) => ToCome(j.frames, way, names)
             /\ ToCome(j.frames, way, names) /\ ~ToCome(others, way, names) =>
                  Len(way) < Len(names) /\ Upto(names, Len(way) + 2) = Append(way, n)
        /\ ToCome(j.frames, way, Append(way, n)) /\ ~ToCome(others, way, Append(way, n))
    BY <2>1, TakenName
  <2>3. QED
    BY <2>2
<1>7. /\ c \in Ways /\ Len(c) = m /\ (\A i \in 1 .. m : Upto(c, i) = Upto(way, i)) /\ Upto(c, m + 1) = c
  <2>1. Len(way) + 2 = m + 1
    BY <1>4
  <2>2. QED
    BY <1>4, <1>6, <2>1, WaysAre
<1>8. IsDir(t, child) <=> Leading(t, s \o c)
  <2> DEFINE a == s \o c
  <2>1. Reduced(rooted, a) /\ child = Build(rooted, a)
    BY <1>1, <1>6, <1>7, TextsOfWays DEF TextOf
  <2> HIDE DEF a, child
  <2>2. IsDir(t, child) <=> Leading(t, a)
    BY <2>1, StatOfBuild
  <2>3. QED
    BY <2>2 DEF a
<1>9. e \in Frames /\ e.dir = TextOf(rooted, s, c) /\ ~e.read /\ e.todo = <<>>
  <2>1. child \in AllTexts
    BY <1>1, <1>6, <1>7, TextsOfWays
  <2> HIDE DEF child
  <2>2. e \in Frames /\ e.dir = child /\ ~e.read /\ e.todo = <<>>
    BY <2>1 DEF Frame, Frames, Ways
  <2>3. QED
    BY <1>6, <2>2
<1>10. CASE enters
  <2>1. k.frames = Append(others, e)
    BY <1>10
  <2> HIDE DEF e, m, child
  <2>2. OnTrail(k.frames, rooted, s, c) /\ Account(t, k, rooted, s, c)
    <3> DEFINE onward == c
    <3>1. onward = Append(way, n) /\ k.found = IF Gathers(j, n) THEN Append(j.found, Child(last.dir, n)) ELSE j.found
      OBVIOUS
    <3>2. \E x \in Frames : /\ k.frames = Append(others, x) /\ x.dir = TextOf(rooted, s, Append(way, n))
                            /\ ~x.read /\ x.todo = <<>>
      BY <1>9, <2>1
    <3> HIDE DEF onward, c
    <3>3. \/ k.frames = others /\ onward = way /\ ~(Deepens(j, n) /\ Leading(t, s \o Append(way, n)))
          \/ /\ onward = Append(way, n)
             /\ \E x \in Frames : /\ k.frames = Append(others, x) /\ x.dir = TextOf(rooted, s, Append(way, n))
                                  /\ ~x.read /\ x.todo = <<>>
      BY <3>1, <3>2
    <3>4. OnTrail(k.frames, rooted, s, onward) /\ Account(t, k, rooted, s, onward)
      BY <1>1, <1>2, <1>5, <3>1, <3>3, AccountOfVisit
    <3>5. QED
      BY <3>4 DEF onward
  <2> HIDE DEF c
  <2>3. Len(k.frames) = m + 1
    BY <1>7, <2>2 DEF OnTrail
  <2>4. Guided(k, c)
    <3>1. Guided(j, c)
      BY <1>1, <1>2, <1>4, <1>6, <1>10, GathersMatches DEF c, m
    <3>2. QED
      BY <1>3, <3>1 DEF Guided
  <2>5. ASSUME k.since = now, NEW i \in 2 .. m + 1 PROVE Leading(t, s \o Upto(c, i))
    <3>1. CASE i = m + 1
      <4>1. Leading(t, s \o c)
        BY <1>8, <1>10 DEF child
      <4>2. QED
        BY <1>7, <3>1, <4>1
    <3>2. CASE i # m + 1
      <4>1. i \in 2 .. m /\ i \in 1 .. m
        BY <1>4, <3>2
      <4>2. QED
        BY <1>1, <1>7, <2>5, <4>1 DEF m
    <3>3. QED
      BY <3>1, <3>2
  <2>6. QED
    BY <1>1, <1>2, <1>3, <1>7, <2>2, <2>3, <2>4, <2>5 DEF Underway
<1>11. CASE ~enters
  <2>1. k.frames = others /\ ~(Deepens(j, n) /\ Leading(t, s \o c))
    BY <1>8, <1>11
  <2>2. OnTrail(k.frames, rooted, s, way) /\ Account(t, k, rooted, s, way)
    <3>1. k.found = IF Gathers(j, n) THEN Append(j.found, Child(last.dir, n)) ELSE j.found
      OBVIOUS
    <3>2. ~(Deepens(j, n) /\ Leading(t, s \o Append(way, n)))
      BY <2>1
    <3> HIDE DEF e, m, child, c
    <3>3. QED
      BY <1>1, <1>2, <1>5, <2>1, <3>1, <3>2, AccountOfVisit
  <2>3. Guided(k, way)
    BY <1>1, <1>3 DEF Guided
  <2>4. Len(k.frames) = Len(j.frames)
    BY <1>6, <2>1
  <2> HIDE DEF c, child, e
  <2>5. QED
    BY <1>1, <1>2, <1>3, <2>2, <2>3, <2>4 DEF Underway
<1>12. QED
  BY <1>10, <1>11

LEMMA UnderwayLeaves ==
  ASSUME NEW t, IsTree(t), Flat(t), NEW base, NEW now, NEW j, Underway(t, base, now, j),
         Last(j.frames).read, Last(j.frames).todo = <<>>
  PROVE  /\ Len(j.frames) > 1 => Underway(t, base, now, Leaving(j)) /\ Leaving(j).status = j.status
         /\ Len(j.frames) = 1 => Ended(t, base, now, Finishing(j)) /\ Finishing(j).status = "done"
         /\ Len(j.frames) \in Nat \ {0}
<1>1. PICK rooted \in BOOLEAN, s \in Seq(Named), way \in Ways :
        /\ Reduced(rooted, s) /\ base = Build(rooted, s)
        /\ OnTrail(j.frames, rooted, s, way) /\ Guided(j, way) /\ Account(t, j, rooted, s, way)
        /\ j.since = now => \A i \in 2 .. Len(j.frames) : Leading(t, s \o Upto(way, i))
  BY DEF Underway
<1>2. /\ DOMAIN j = Fields /\ j.call \in FrameKinds /\ j.base = base /\ Patterned(j.patterns)
      /\ j.since \in Nat /\ now \in Nat /\ j.since <= now
  BY DEF Underway
<1>3. Len(j.frames) = Len(way) + 1 /\ Len(way) \in Nat
  BY <1>1 DEF OnTrail, Ways
<1>4. j.frames[Len(j.frames)].read /\ j.frames[Len(j.frames)].todo = <<>>
  BY DEF Last
<1>5. ASSUME Len(j.frames) > 1
      PROVE  Underway(t, base, now, Leaving(j)) /\ Leaving(j).status = j.status
  <2> DEFINE k == Leaving(j)
  <2>1. /\ DOMAIN k = Fields /\ k.call = j.call /\ k.base = j.base /\ k.patterns = j.patterns
        /\ k.since = j.since /\ k.found = j.found /\ k.always = j.always /\ k.ever = j.ever
        /\ k.status = j.status /\ k.frames = Front(j.frames)
    BY <1>2 DEF Fields, Leaving
  <2> HIDE DEF k
  <2>2. Continues(j, k)
    BY <2>1 DEF Continues
  <2> DEFINE c == Front(way)
  <2>3. /\ OnTrail(k.frames, rooted, s, c) /\ Guided(k, c) /\ Account(t, k, rooted, s, c)
        /\ Len(k.frames) = Len(way) /\ c \in Ways
        /\ \A i \in 1 .. Len(way) : Upto(c, i) = Upto(way, i)
    <3>1. /\ Reduced(rooted, s) /\ OnTrail(j.frames, rooted, s, way) /\ Guided(j, way)
          /\ Account(t, j, rooted, s, way) /\ Continues(j, k) /\ k.found = j.found
          /\ j.frames[Len(j.frames)].read /\ j.frames[Len(j.frames)].todo = <<>>
          /\ Len(j.frames) > 1 /\ k.frames = Front(j.frames)
      BY <1>1, <1>4, <1>5, <2>1, <2>2
    <3>2. QED
      BY <3>1, AccountOfLeaving
  <2> HIDE DEF c
  <2>4. k.since = now => \A i \in 2 .. Len(k.frames) : Leading(t, s \o Upto(c, i))
    <3>1. \A i \in 2 .. Len(k.frames) : i \in 2 .. Len(j.frames) /\ i \in 1 .. Len(way)
      BY <1>3, <2>3
    <3>2. QED
      BY <1>1, <2>1, <2>3, <3>1
  <2>5. Underway(t, base, now, k)
    BY <1>1, <1>2, <2>1, <2>3, <2>4 DEF Underway
  <2>6. QED
    BY <2>1, <2>5 DEF k
<1>6. ASSUME Len(j.frames) = 1
      PROVE  Ended(t, base, now, Finishing(j)) /\ Finishing(j).status = "done"
  <2> DEFINE k == Finishing(j)
  <2>1. /\ k.found = j.found /\ k.always = j.always /\ k.ever = j.ever /\ k.status = "done"
    BY <1>2 DEF Fields, Finishing
  <2> HIDE DEF k
  <2>2. j.always \subseteq ToSet(j.found)
    BY <1>1, <1>4, <1>6, AccountIsFull
  <2>3. IsInjective(k.found) /\ ToSet(k.found) \subseteq k.ever
    BY <1>1, <2>1 DEF Account
  <2>4. Ended(t, base, now, k)
    BY <2>1, <2>2, <2>3 DEF Ended
  <2>5. QED
    BY <2>1, <2>4 DEF k
<1>7. QED
  BY <1>3, <1>5, <1>6

LEMMA UnderwayChanges ==
  ASSUME NEW t, NEW u, NEW base, NEW now, NEW j, Underway(t, base, now, j),
         NEW sought, sought = Sought(u, j.call, j.patterns, base)
  PROVE  Underway(u, base, now + 1, Changing(j, sought)) /\ Changing(j, sought).status = j.status
<1> DEFINE k == Changing(j, sought)
<1>1. PICK rooted \in BOOLEAN, s \in Seq(Named), way \in Ways :
        /\ Reduced(rooted, s) /\ base = Build(rooted, s)
        /\ OnTrail(j.frames, rooted, s, way) /\ Guided(j, way) /\ Account(t, j, rooted, s, way)
  BY DEF Underway
<1>2. /\ DOMAIN j = Fields /\ j.call \in FrameKinds /\ j.base = base /\ Patterned(j.patterns)
      /\ j.since \in Nat /\ now \in Nat /\ j.since <= now
  BY DEF Underway
<1>3. /\ DOMAIN k = Fields /\ k.call = j.call /\ k.base = j.base /\ k.patterns = j.patterns
      /\ k.since = j.since /\ k.found = j.found /\ k.frames = j.frames /\ k.status = j.status
      /\ k.always = j.always \cap sought /\ k.ever = j.ever \cup sought
  BY <1>2 DEF Fields, Changing
<1> HIDE DEF k
<1>4. Account(u, k, rooted, s, way)
  <2>1. sought = Sought(u, j.call, j.patterns, Build(rooted, s))
    BY <1>1
  <2>2. /\ k.always = j.always \cap Sought(u, j.call, j.patterns, Build(rooted, s))
        /\ k.ever = j.ever \cup Sought(u, j.call, j.patterns, Build(rooted, s))
    BY <1>3, <2>1
  <2>3. /\ Account(t, j, rooted, s, way)
        /\ k.call = j.call /\ k.patterns = j.patterns /\ k.found = j.found /\ k.frames = j.frames
    BY <1>1, <1>3
  <2>4. QED
    BY ONLY <2>2, <2>3, AccountOfChange
<1>5. Guided(k, way)
  BY <1>1, <1>3 DEF Guided
<1>6. now + 1 \in Nat /\ k.since <= now + 1 /\ k.since # now + 1
  BY <1>2, <1>3
<1>7. Underway(u, base, now + 1, k)
  BY <1>1, <1>2, <1>3, <1>4, <1>5, <1>6 DEF Underway
<1>8. QED
  BY <1>3, <1>7 DEF k

-----------------------------------------------------------------------------
(* The invariant of the traversals.                                        *)

Bounded ==
  /\ \A l \in DOMAIN tree : Creatable(l)
  /\ ops \in 0 .. MaxOps /\ changes \in 0 .. MaxChanges
Searching ==
  /\ job.status \in {"idle", "halfway", "active", "done", "failed"}
  /\ job.status = "active" => Underway(tree, here, changes, job)
  /\ job.status \in {"done", "failed"} => Ended(tree, here, changes, job)
  /\ job.status \in {"idle", "halfway"} => job.call \notin FrameKinds
SearchInv == VisibleInv /\ Bounded /\ Searching

LEMMA SearchFacts ==
  ASSUME SearchInv
  PROVE  IsTree(tree) /\ Flat(tree) /\ here \in AllTexts /\ IsClean(here) /\ changes \in Nat
<1>1. changes \in Nat
  BY DEF SearchInv, Bounded
<1>2. Flat(tree)
  BY DEF SearchInv, Bounded, Flat, Creatable
<1>3. QED
  BY <1>1, <1>2 DEF SearchInv, VisibleInv, PathInv

LEMMA SearchesAreExact ==
  ASSUME SearchInv
  PROVE  TraversalsAreExact
<1>1. job.status = "active" => \A i \in DOMAIN job.frames :
        /\ job.frames[i].read \/ i = Level
        /\ ToSet(job.frames[i].todo) \subseteq ToSet(Names)
  <2> SUFFICES ASSUME job.status = "active", NEW i \in DOMAIN job.frames
               PROVE  /\ job.frames[i].read \/ i = Level
                      /\ ToSet(job.frames[i].todo) \subseteq ToSet(Names)
    OBVIOUS
  <2>1. PICK rooted \in BOOLEAN, s \in Seq(Named), way \in Ways : OnTrail(job.frames, rooted, s, way)
    BY DEF SearchInv, Searching, Underway
  <2>2. job.frames \in Seq(Frames)
    BY <2>1 DEF OnTrail
  <2>3. i \in 1 .. Len(job.frames) /\ job.frames[i] \in Frames
    BY <2>2
  <2>4. job.frames[i].read \/ i = Level
    BY <2>1, <2>3 DEF OnTrail, Level
  <2>5. QED
    BY <2>3, <2>4, AwaitedNames
<1>2. TypeOK
  BY <1>1, SearchFacts DEF SearchInv, Bounded, Searching, TypeOK
<1>3. ASSUME job.call \in FrameKinds
      PROVE  /\ IsInjective(job.found) /\ ToSet(job.found) \subseteq job.ever
             /\ job.status = "done" => job.always \subseteq ToSet(job.found)
             /\ job.status = "failed" => changes > job.since \/ ~IsDir(tree, here)
  <2>1. job.status \in {"active", "done", "failed"}
    BY <1>3 DEF SearchInv, Searching
  <2>2. CASE job.status = "active"
    <3>1. PICK rooted \in BOOLEAN, s \in Seq(Named), way \in Ways : Account(tree, job, rooted, s, way)
      BY <2>2 DEF SearchInv, Searching, Underway
    <3>2. IsInjective(job.found) /\ ToSet(job.found) \subseteq job.ever
      BY <3>1 DEF Account
    <3>3. QED
      BY <2>2, <3>2
  <2>3. CASE job.status \in {"done", "failed"}
    BY <1>3, <2>3 DEF SearchInv, Searching, Ended
  <2>4. QED
    BY <2>1, <2>2, <2>3
<1>4. QED
  BY <1>2, <1>3 DEF TraversalsAreExact, FrameKinds

-----------------------------------------------------------------------------
(* The calls that change the tree.                                         *)

LEMMA CallIsBounded ==
  ASSUME SearchInv, NEW kind, kind \notin FrameKinds, NEW target, NEW flag, NEW results,
         Call(kind, target, flag, results), ops' \in 0 .. MaxOps
  PROVE  Bounded' /\ Searching'
<1> DEFINE ok == results # {}
<1>1. job' = Finished(kind, ok, target, flag)
  BY DEF Call
<1>2. /\ \A l \in DOMAIN tree' : Creatable(l)
      /\ changes' = changes
  BY DEF Call, SearchInv, Bounded
<1> HIDE DEF ok
<1>3. job'.call = kind /\ job'.status = IF ok THEN "done" ELSE "failed"
  BY <1>1, JobsAre
<1>4. Bounded'
  BY <1>2 DEF SearchInv, Bounded
<1>5. Searching'
  BY <1>3 DEF Searching, Ended
<1>6. QED
  BY <1>4, <1>5

LEMMA HalfwayIsBounded ==
  ASSUME SearchInv, NEW kind \in {"touch", "mkdirs"}, job' = Halfway(kind), changes' = changes,
         \A l \in DOMAIN tree' : Creatable(l), ops' \in 0 .. MaxOps
  PROVE  Bounded' /\ Searching'
<1>1. job'.status = "halfway" /\ job'.call \notin FrameKinds
  BY DEF Halfway, FrameKinds
<1>2. QED
  BY <1>1 DEF SearchInv, Bounded, Searching

LEMMA OpsAre ==
  ASSUME SearchInv
  PROVE  /\ Begin => ops' \in 0 .. MaxOps
         /\ UNCHANGED ops => ops' \in 0 .. MaxOps
BY TreesAssumption DEF SearchInv, Bounded, Begin

LEMMA ChangeIsBounded ==
  ASSUME SearchInv, ChangeTree
  PROVE  Bounded' /\ Searching'
<1>0. \A kind \in {"touch", "mkdir", "mkdirs", "unlink", "rename", "hardlink", "symlink", "write"} : kind \notin FrameKinds
  BY DEF FrameKinds
<1>1. ASSUME NEW flag \in BOOLEAN, Touch(flag) PROVE Bounded' /\ Searching'
  <2> DEFINE results == Opened(tree, here, ~flag)
  <2>1. ops' \in 0 .. MaxOps
    BY <1>1, OpsAre DEF Touch
  <2>2. CASE flag /\ results # {}
    BY <1>1, <2>1, <2>2, HalfwayIsBounded DEF Touch
  <2>3. CASE ~(flag /\ results # {})
    <3>1. Call("touch", here, flag, results)
      BY <1>1, <2>3 DEF Touch
    <3> HIDE DEF results
    <3>2. QED
      BY <1>0, <2>1, <3>1, CallIsBounded
  <2>4. QED
    BY <2>2, <2>3
<1>2. CASE EndTouch
  <2> DEFINE results == IF Exists(tree, here) THEN {tree} ELSE {}
  <2>1. Call("touch", here, TRUE, results) /\ ops' \in 0 .. MaxOps
    BY <1>2, OpsAre DEF EndTouch
  <2> HIDE DEF results
  <2>2. QED
    BY <1>0, <2>1, CallIsBounded
<1>3. ASSUME NEW flag \in BOOLEAN, MakeDirectory(flag) PROVE Bounded' /\ Searching'
  <2> DEFINE results == Mkdir(tree, here, flag)
  <2>1. Call("mkdir", here, flag, results) /\ ops' \in 0 .. MaxOps
    BY <1>3, OpsAre DEF MakeDirectory
  <2> HIDE DEF results
  <2>2. QED
    BY <1>0, <2>1, CallIsBounded
<1>4. ASSUME NEW flag \in BOOLEAN, MakeDirectories(flag) PROVE Bounded' /\ Searching'
  <2>1. ops' \in 0 .. MaxOps
    BY <1>4, OpsAre DEF MakeDirectories
  <2>2. ASSUME NEW results, Call("mkdirs", here, flag, results) PROVE Bounded' /\ Searching'
    BY <1>0, <2>1, <2>2, CallIsBounded
  <2>3. CASE job' = Halfway("mkdirs") /\ UNCHANGED <<tree, here, changes>>
    BY <2>1, <2>3, HalfwayIsBounded DEF SearchInv, Bounded
  <2>4. QED
    BY <1>4, <2>2, <2>3 DEF MakeDirectories
<1>5. CASE EndMakeDirectories
  <2> DEFINE results == MkdirAll(tree, here)
  <2>1. Call("mkdirs", here, FALSE, results) /\ ops' \in 0 .. MaxOps
    BY <1>5, OpsAre DEF EndMakeDirectories
  <2> HIDE DEF results
  <2>2. QED
    BY <1>0, <2>1, CallIsBounded
<1>6. ASSUME NEW flag \in BOOLEAN, Unlink(flag) PROVE Bounded' /\ Searching'
  <2> DEFINE results == RemoveEntry(tree, here, flag)
  <2>1. Call("unlink", here, flag, results) /\ ops' \in 0 .. MaxOps
    BY <1>6, OpsAre DEF Unlink
  <2> HIDE DEF results
  <2>2. QED
    BY <1>0, <2>1, CallIsBounded
<1>7. CASE Rmdir
  <2> DEFINE results == RemoveEntry(tree, here, FALSE)
  <2>1. Call("unlink", here, FALSE, results) /\ ops' \in 0 .. MaxOps
    BY <1>7, OpsAre DEF Rmdir
  <2> HIDE DEF results
  <2>2. QED
    BY <1>0, <2>1, CallIsBounded
<1>8. CASE WriteText
  <2> DEFINE results == Opened(tree, here, FALSE)
  <2>1. Call("write", here, FALSE, results) /\ ops' \in 0 .. MaxOps
    BY <1>8, OpsAre DEF WriteText
  <2> HIDE DEF results
  <2>2. QED
    BY <1>0, <2>1, CallIsBounded
<1>9. ASSUME NEW target \in Texts, RenameTo(target) PROVE Bounded' /\ Searching'
  <2> DEFINE results == Rename(tree, here, target)
             flag == results # {} /\ Aside(tree, here, target)
  <2>1. Call("rename", target, flag, results) /\ ops' \in 0 .. MaxOps
    BY <1>9, OpsAre DEF RenameTo
  <2> HIDE DEF results, flag
  <2>2. QED
    BY <1>0, <2>1, CallIsBounded
<1>10. ASSUME NEW target \in Texts, HardlinkTo(target) PROVE Bounded' /\ Searching'
  <2> DEFINE results == Hardlink(tree, target, here)
  <2>1. Call("hardlink", target, FALSE, results) /\ ops' \in 0 .. MaxOps
    BY <1>10, OpsAre DEF HardlinkTo
  <2> HIDE DEF results
  <2>2. QED
    BY <1>0, <2>1, CallIsBounded
<1>11. ASSUME NEW target \in Texts, SymlinkTo(target) PROVE Bounded' /\ Searching'
  <2> DEFINE results == Symlink(tree, target, here)
  <2>1. Call("symlink", target, FALSE, results) /\ ops' \in 0 .. MaxOps
    BY <1>11, OpsAre DEF SymlinkTo
  <2> HIDE DEF results
  <2>2. QED
    BY <1>0, <2>1, CallIsBounded
<1>12. QED
  BY <1>1, <1>2, <1>3, <1>4, <1>5, <1>6, <1>7, <1>8, <1>9, <1>10, <1>11 DEF ChangeTree

-----------------------------------------------------------------------------
(* The steps of a traversal, and of others.                                *)

LEMMA StartIsBounded ==
  ASSUME SearchInv, NEW kind \in FrameKinds, NEW patterns, Patterned(patterns), Start(kind, patterns)
  PROVE  Bounded' /\ Searching'
<1> DEFINE j == Traversal(kind, patterns)
           sought == Sought(tree, kind, patterns, here)
<1>1. job' = j /\ UNCHANGED <<tree, here, changes>> /\ ops' \in 0 .. MaxOps
  BY OpsAre DEF Start
<1>2. /\ DOMAIN j = Fields /\ j.call = kind /\ j.base = here /\ j.patterns = patterns /\ j.since = changes
      /\ j.frames = <<Frame(here)>> /\ j.found = <<>> /\ j.status = "active"
      /\ j.always = sought /\ j.ever = sought
  <2> HIDE DEF sought
  <2>1. j = [call |-> kind, status |-> "active", patterns |-> patterns, base |-> here,
             frames |-> <<Frame(here)>>, found |-> <<>>,
             always |-> sought, ever |-> sought, since |-> changes]
    BY DEF Traversal, sought
  <2> HIDE DEF j
  <2>2. QED
    BY <2>1 DEF Fields
<1> HIDE DEF j
<1>3. j.always = Sought(tree, j.call, j.patterns, here) /\ j.ever = j.always
  BY <1>2
<1> HIDE DEF sought
<1>4. Underway(tree, here, changes, j)
  BY <1>2, <1>3, SearchFacts, UnderwayStarts
<1>5. Bounded'
  BY <1>1 DEF SearchInv, Bounded
<1>6. Searching'
  BY <1>1, <1>2, <1>4 DEF Searching
<1>7. QED
  BY <1>5, <1>6

LEMMA GlobIsBounded ==
  ASSUME SearchInv, NEW patterns, Patterned(patterns), Glob(patterns)
  PROVE  Bounded' /\ Searching'
<1>1. CASE IsDir(tree, here)
  BY <1>1, StartIsBounded DEF Glob, FrameKinds
<1>2. CASE ~IsDir(tree, here)
  <2> DEFINE j == Traversal("glob", patterns)
             sought == Sought(tree, "glob", patterns, here)
  <2>1. /\ job' = [j EXCEPT !.status = "done", !.frames = <<>>]
        /\ UNCHANGED <<tree, here, changes>> /\ ops' \in 0 .. MaxOps
    BY <1>2, OpsAre DEF Glob
  <2>2. j.found = <<>> /\ j.always = sought /\ j.ever = sought /\ {"found", "always", "ever", "status"} \subseteq DOMAIN j
    <3> HIDE DEF sought
    <3>1. j = [call |-> "glob", status |-> "active", patterns |-> patterns, base |-> here,
               frames |-> <<Frame(here)>>, found |-> <<>>,
               always |-> sought, ever |-> sought, since |-> changes]
      BY DEF Traversal, sought
    <3> HIDE DEF j
    <3>2. QED
      BY <3>1
  <2> HIDE DEF j
  <2>3. job'.found = <<>> /\ job'.always = sought /\ job'.ever = sought /\ job'.status = "done"
    BY <2>1, <2>2
  <2>4. sought = {}
    <3>1. PICK rooted \in BOOLEAN, s \in Seq(Named) : Reduced(rooted, s) /\ here = Build(rooted, s)
      BY SearchFacts DEF IsClean
    <3>2. ~Leading(tree, s)
      BY <1>2, <3>1, SearchFacts, StatOfBuild
    <3> SUFFICES ASSUME NEW x \in sought PROVE FALSE
      OBVIOUS
    <3>3. \E way \in Ways : Offspring(tree, s, way)
      <4> DEFINE kind == "glob"
                 base == Build(rooted, s)
      <4>1. x \in Sought(tree, kind, patterns, base)
        BY <3>1
      <4> HIDE DEF kind
      <4>2. QED
        BY <3>1, <4>1, SearchFacts, SoughtIs
    <3>4. PICK way \in Ways : Offspring(tree, s, way)
      BY <3>3
    <3>5. way \in Seq(Plain) /\ way # <<>> /\ s \in Seq(Pieces)
      BY <3>1, <3>4, NamesFacts, ReducedNames DEF Offspring
    <3> DEFINE n == Head(way)
               w == Tail(way)
    <3>6. n \in Plain /\ w \in Seq(Plain) /\ way = <<n>> \o w
      BY <3>5, HeadAndTail
    <3> HIDE DEF n, w
    <3>7. Holds(tree, s, n)
      BY <3>4, <3>5, <3>6, SearchFacts, OffspringStep
    <3>8. QED
      BY <3>2, <3>7 DEF Holds
  <2> HIDE DEF sought
  <2>5. Bounded'
    BY <2>1 DEF SearchInv, Bounded
  <2>6. Searching'
    BY <2>3, <2>4, NoItems DEF Searching, Ended
  <2>7. QED
    BY <2>5, <2>6
<1>3. QED
  BY <1>1, <1>2

LEMMA StepIsBounded ==
  ASSUME SearchInv, NEW k, Step(k),
         \/ Underway(tree, here, changes, k) /\ k.status = "active"
         \/ Ended(tree, here, changes, k) /\ k.status \in {"done", "failed"}
  PROVE  Bounded' /\ Searching'
<1>1. job' = k /\ UNCHANGED <<tree, here, ops, changes>>
  BY DEF Step
<1>2. QED
  BY <1>1 DEF SearchInv, Bounded, Searching

\* The frame of the directory in hand.
LEMMA TopIs ==
  ASSUME SearchInv, job.status = "active"
  PROVE  /\ Underway(tree, here, changes, job) /\ DOMAIN job = Fields
         /\ job.frames \in Seq(Frames) /\ Level \in 1 .. Level /\ Top = job.frames[Level] /\ Top \in Frames
<1>1. Underway(tree, here, changes, job)
  BY DEF SearchInv, Searching
<1>2. PICK rooted \in BOOLEAN, s \in Seq(Named), way \in Ways : OnTrail(job.frames, rooted, s, way)
  BY <1>1 DEF Underway
<1>3. job.frames \in Seq(Frames) /\ Level = Len(way) + 1 /\ Len(way) \in Nat
  BY <1>2 DEF OnTrail, Level, Ways
<1>4. Level \in 1 .. Level
  BY <1>3
<1>5. job.frames[Level] \in Frames
  BY <1>3, <1>4 DEF Level
<1>6. QED
  BY <1>1, <1>3, <1>4, <1>5 DEF Underway, Top, Last, Level

LEMMA ReadIsBounded ==
  ASSUME SearchInv, ReadDirectory
  PROVE  Bounded' /\ Searching'
<1>1. job.status = "active" /\ ~Top.read
  BY DEF ReadDirectory
<1>2. CASE IsDir(tree, Top.dir)
  <2> DEFINE k == ReadAt(tree, job)
  <2>1. Step(k)
    BY <1>2 DEF ReadDirectory, AtTop, Level, Top, ReadAt
  <2>2. Underway(tree, here, changes, k) /\ k.status = job.status
    <3>1. ~Last(job.frames).read /\ IsDir(tree, Last(job.frames).dir) /\ Underway(tree, here, changes, job)
      BY <1>1, <1>2, TopIs DEF Top
    <3>2. QED
      BY <3>1, SearchFacts, UnderwayReads
  <2> HIDE DEF k
  <2>3. Step(k) /\ Underway(tree, here, changes, k) /\ k.status = "active"
    BY <1>1, <2>1, <2>2
  <2>4. QED
    BY <2>3, StepIsBounded
<1>3. CASE ~IsDir(tree, Top.dir)
  <2> DEFINE k == Failing(job)
  <2>1. Step(k)
    BY <1>3 DEF ReadDirectory, Failing
  <2>2. Ended(tree, here, changes, k) /\ k.status = "failed"
    <3>1. ~IsDir(tree, Last(job.frames).dir) /\ Underway(tree, here, changes, job)
      BY <1>1, <1>3, TopIs DEF Top
    <3>2. QED
      BY <3>1, SearchFacts, UnderwayFails
  <2> HIDE DEF k
  <2>3. QED
    BY <2>1, <2>2, StepIsBounded
<1>4. QED
  BY <1>2, <1>3

LEMMA VisitIsBounded ==
  ASSUME SearchInv, VisitChild
  PROVE  Bounded' /\ Searching'
<1>1. job.status = "active" /\ Top.todo # <<>>
  BY DEF VisitChild
<1> DEFINE name == Head(Top.todo)
           child == Child(Top.dir, name)
           f == [Top EXCEPT !.todo = Tail(Top.todo)]
           advanced == [job EXCEPT !.frames[Level] = f]
           entering == Descends(name) /\ IsDir(tree, child)
           k == [advanced EXCEPT
                   !.found = IF Collects(name) THEN Append(@, child) ELSE @,
                   !.frames = IF entering THEN Append(@, Frame(child)) ELSE @]
           others == [job.frames EXCEPT ![Level] = f]
<1>2. Step(k)
  BY DEF VisitChild, AtTop
<1>3. /\ Underway(tree, here, changes, job) /\ DOMAIN job = Fields
      /\ job.frames \in Seq(Frames) /\ Level \in 1 .. Level /\ Top = job.frames[Level] /\ Top \in Frames
  BY <1>1, TopIs
<1>4. /\ DOMAIN advanced = Fields /\ advanced.frames = others /\ advanced.found = job.found
      /\ advanced.call = job.call /\ advanced.patterns = job.patterns /\ advanced.base = job.base
      /\ advanced.always = job.always /\ advanced.ever = job.ever /\ advanced.since = job.since
      /\ advanced.status = job.status
  BY <1>3 DEF Fields
<1>5. Taking(job, Top, name, others)
  BY <1>1, <1>3 DEF Taking, Level
<1>6. /\ Gathers(job, name) <=> Collects(name)
      /\ Deepens(job, name) <=> Descends(name)
  BY DEF Gathers, Collects, Deepens, Descends, Pattern, Level
<1> HIDE DEF advanced, child, name, others, entering
<1>7. /\ DOMAIN k = Fields /\ k.status = "active" /\ k.base = job.base /\ k.since = job.since
      /\ k.call = job.call /\ k.patterns = job.patterns /\ k.always = job.always /\ k.ever = job.ever
      /\ k.found = IF Collects(name) THEN Append(job.found, child) ELSE job.found
      /\ k.frames = IF entering THEN Append(others, Frame(child)) ELSE others
  BY <1>1, <1>4 DEF Fields
<1> HIDE DEF k
<1>8. Continues(job, k)
  BY <1>7 DEF Continues
<1>9. /\ k.found = IF Gathers(job, name) THEN Append(job.found, Child(Top.dir, name)) ELSE job.found
      /\ k.frames = IF entering THEN Append(others, Frame(Child(Top.dir, name))) ELSE others
      /\ entering <=> Deepens(job, name) /\ IsDir(tree, Child(Top.dir, name))
      /\ entering \in BOOLEAN
  BY <1>6, <1>7 DEF child, entering
<1>10. Underway(tree, here, changes, k)
  <2> DEFINE last == Top
  <2>1. /\ Underway(tree, here, changes, job) /\ Taking(job, last, name, others)
        /\ entering \in BOOLEAN /\ (entering <=> Deepens(job, name) /\ IsDir(tree, Child(last.dir, name)))
        /\ DOMAIN k = Fields /\ k.base = job.base /\ k.since = job.since /\ Continues(job, k)
        /\ k.found = IF Gathers(job, name) THEN Append(job.found, Child(last.dir, name)) ELSE job.found
        /\ k.frames = IF entering THEN Append(others, Frame(Child(last.dir, name))) ELSE others
    BY <1>3, <1>5, <1>7, <1>8, <1>9
  <2> HIDE DEF last
  <2>2. QED
    BY <2>1, SearchFacts, UnderwayVisits
<1>11. Step(k) /\ Underway(tree, here, changes, k) /\ k.status = "active"
  BY <1>2, <1>7, <1>10
<1>12. QED
  BY <1>11, StepIsBounded

LEMMA LeaveIsBounded ==
  ASSUME SearchInv, LeaveDirectory
  PROVE  Bounded' /\ Searching'
<1>1. job.status = "active" /\ Top.read /\ Top.todo = <<>>
  BY DEF LeaveDirectory
<1>2. Underway(tree, here, changes, job) /\ DOMAIN job = Fields
  BY <1>1, TopIs
<1>3. Last(job.frames).read /\ Last(job.frames).todo = <<>>
  BY <1>1 DEF Top
<1>4. /\ Len(job.frames) > 1 =>
           Underway(tree, here, changes, Leaving(job)) /\ Leaving(job).status = job.status
      /\ Len(job.frames) = 1 =>
           Ended(tree, here, changes, Finishing(job)) /\ Finishing(job).status = "done"
      /\ Len(job.frames) \in Nat \ {0}
  BY <1>2, <1>3, SearchFacts, UnderwayLeaves
<1>5. CASE Level = 1
  <2> DEFINE k == Finishing(job)
  <2>1. Step(k)
    BY <1>5 DEF LeaveDirectory, Finishing
  <2>2. Ended(tree, here, changes, k) /\ k.status = "done"
    BY <1>4, <1>5 DEF Level
  <2> HIDE DEF k
  <2>3. QED
    BY <2>1, <2>2, StepIsBounded
<1>6. CASE Level # 1
  <2> DEFINE k == Leaving(job)
  <2>1. [job EXCEPT !.frames = Front(@), !.status = IF Level = 1 THEN "done" ELSE @] = k
    BY <1>2, <1>6 DEF Fields, Leaving
  <2>2. Step(k)
    BY <2>1 DEF LeaveDirectory
  <2>3. Len(job.frames) > 1
    <3> DEFINE n == Len(job.frames)
    <3>1. n \in Nat \ {0} /\ n # 1
      BY <1>4, <1>6 DEF Level
    <3> HIDE DEF n
    <3>2. n > 1
      BY <3>1
    <3>3. QED
      BY <3>2 DEF n
  <2>4. Underway(tree, here, changes, k) /\ k.status = "active"
    BY <1>1, <1>4, <2>3
  <2> HIDE DEF k
  <2>5. QED
    BY <2>2, <2>4, StepIsBounded
<1>7. QED
  BY <1>5, <1>6

LEMMA TraverseIsBounded ==
  ASSUME SearchInv, Traverse
  PROVE  Bounded' /\ Searching'
<1>1. \A pattern : Patterned(<<pattern>>)
  BY DEF Patterned
<1>2. \A first, second : Patterned(<<first, second>>)
  BY DEF Patterned
<1>3. CASE Walk
  BY <1>1, <1>3, StartIsBounded DEF Walk, FrameKinds
<1>4. ASSUME NEW pattern, Rglob(pattern) PROVE Bounded' /\ Searching'
  BY <1>1, <1>4, StartIsBounded DEF Rglob, FrameKinds
<1>5. ASSUME NEW first, NEW second, Glob(<<first>>) \/ Glob(<<first, second>>) PROVE Bounded' /\ Searching'
  BY <1>1, <1>2, <1>5, GlobIsBounded
<1>6. QED
  BY <1>3, <1>4, <1>5, ReadIsBounded, VisitIsBounded, LeaveIsBounded DEF Traverse

LEMMA WorldIsBounded ==
  ASSUME SearchInv, Appear \/ Vanish \/ Move
  PROVE  Bounded' /\ Searching'
<1>1. ASSUME NEW t, World(t), Disturbs, \A l \in DOMAIN t : Creatable(l) PROVE Bounded' /\ Searching'
  <2>1. tree' = t /\ changes' = changes + 1 /\ UNCHANGED <<here, ops>>
    BY <1>1 DEF World
  <2>2. Bounded'
    BY <1>1, <2>1, TreesAssumption DEF SearchInv, Bounded, Disturbs
  <2>3. CASE job.status = "active"
    <3> DEFINE sought == Sought(t, job.call, job.patterns, here)
               k == Changing(job, sought)
    <3>1. Underway(tree, here, changes, job) /\ DOMAIN job = Fields
      BY <2>3, TopIs
    <3>2. SoughtIn(t) = sought
      BY <3>1 DEF SoughtIn, Underway
    <3>3. sought = Sought(t, job.call, job.patterns, here)
      OBVIOUS
    <3> HIDE DEF sought
    <3>4. job' = k
      <4>1. job' = [job EXCEPT !.always = @ \cap sought, !.ever = @ \cup sought]
        BY <1>1, <2>3, <3>2 DEF World
      <4>2. QED
        BY <3>1, <4>1 DEF Fields, Changing
    <3>5. Underway(t, here, changes + 1, k) /\ k.status = job.status
      BY <3>1, <3>3, UnderwayChanges
    <3> HIDE DEF k
    <3>6. QED
      BY <2>1, <2>2, <2>3, <3>4, <3>5 DEF Searching
  <2>4. CASE job.status = "halfway"
    <3>1. job' = job
      BY <1>1, <2>4 DEF World
    <3>2. QED
      BY <2>1, <2>2, <2>4, <3>1 DEF SearchInv, Searching
  <2>5. QED
    BY <1>1, <2>3, <2>4 DEF Disturbs
<1>2. \A l \in DOMAIN tree : Creatable(l) /\ l \in Seq(Pieces)
  BY SearchFacts, TreeFacts DEF SearchInv, Bounded
<1>3. CASE Appear
  <2>1. PICK directory \in DOMAIN tree, name \in ToSet(Names), node \in {Directory, File} :
          Len(directory) < Depth /\ World(With(tree, Append(directory, name), node))
    BY <1>3 DEF Appear
  <2> DEFINE new == Append(directory, name)
  <2>2. Creatable(new)
    <3>1. directory \in Seq(Pieces) /\ name \in Pieces /\ ToSet(directory) \subseteq ToSet(Names)
      BY <1>2, NamesFacts DEF Creatable
    <3>2. Len(new) = Len(directory) + 1 /\ Len(directory) \in Nat /\ ToSet(new) = ToSet(directory) \cup {name}
      BY <3>1, AppendedItems, AppendFacts
    <3> HIDE DEF new
    <3>3. Len(new) <= Depth
      BY <2>1, <3>2, TreesAssumption
    <3>4. QED
      BY <3>1, <3>2, <3>3 DEF Creatable
  <2> HIDE DEF new
  <2>3. \A l \in DOMAIN With(tree, new, node) : Creatable(l)
    BY <1>2, <2>2 DEF With
  <2>4. QED
    BY <1>1, <1>3, <2>1, <2>3 DEF Appear, new
<1>4. CASE Vanish
  <2>1. PICK l \in DOMAIN tree : World(Without(tree, {l}))
    BY <1>4 DEF Vanish
  <2>2. \A m \in DOMAIN Without(tree, {l}) : Creatable(m)
    BY <1>2 DEF Without
  <2>3. QED
    BY <1>1, <1>4, <2>1, <2>2 DEF Vanish
<1>5. CASE Move
  BY <1>1, <1>5 DEF Move
<1>6. QED
  BY <1>3, <1>4, <1>5

\* Whatever other processes do to the tree, a traversal of path.slv finds each
\* path once, all that match its pattern from its beginning to its end and none
\* that never do; and it fails only when the tree changed, or when it has no
\* directory to begin with (_walk_visit, _rglob_visit, _glob_segments).
THEOREM TraversalsCorrect == Spec => []TraversalsAreExact
<1>1. Init => SearchInv
  <2> SUFFICES ASSUME Init PROVE SearchInv
    OBVIOUS
  <2>1. VisibleInv
    BY VisibleKept
  <2>2. Bounded
    BY TreesAssumption DEF Init, Bounded
  <2>3. Searching
    BY DEF Init, Idle, Searching, FrameKinds
  <2>4. QED
    BY <2>1, <2>2, <2>3 DEF SearchInv
<1>2. SearchInv /\ [Next]_vars => SearchInv'
  <2> SUFFICES ASSUME SearchInv, [Next]_vars PROVE SearchInv'
    OBVIOUS
  <2>1. VisibleInv'
    BY VisibleKept DEF SearchInv
  <2>2. Bounded' /\ Searching'
    <3>1. CASE ComputePath
      <4>1. PICK text : GoOn(text)
        BY <3>1 DEF ComputePath, New, JoinPath, Parent, Ancestor, RelativePath, Absolute, ExpandUser,
                    NewName, NewStem, NewSuffix
      <4>2. job' = Idle /\ UNCHANGED <<tree, job, ops, changes>>
        BY <4>1 DEF GoOn
      <4>3. QED
        BY <4>2 DEF SearchInv, Bounded, Searching, Idle, FrameKinds
    <3>2. CASE Return
      <4>1. job' = Idle /\ UNCHANGED <<tree, here, ops, changes>>
        BY <3>2 DEF Return
      <4>2. QED
        BY <4>1 DEF SearchInv, Bounded, Searching, Idle, FrameKinds
    <3>3. CASE UNCHANGED vars
      BY <3>3 DEF vars, SearchInv, Bounded, Searching
    <3>4. QED
      BY <3>1, <3>2, <3>3, ChangeIsBounded, TraverseIsBounded, WorldIsBounded DEF Next, Program
  <2>3. QED
    BY <2>1, <2>2 DEF SearchInv
<1>3. SearchInv => TraversalsAreExact
  BY SearchesAreExact
<1>4. QED
  BY <1>1, <1>2, <1>3, PTL DEF Spec

-----------------------------------------------------------------------------
(* How much the kernel hands out.                                          *)

LEMMA ReadyBound ==
    ASSUME ConsoleTyped
    PROVE  Ready \in 0 .. Len(kernel)
<1> DEFINE N == Newlines(kernel)
<1>1. Len(kernel) \in Nat /\ N \in SUBSET (1 .. Len(kernel))
  BY DEF ConsoleTyped, Newlines
<1>2. CASE ~tty \/ device = "raw" \/ (ended /\ N = {})
  BY <1>1, <1>2 DEF Ready
<1>3. CASE ~(~tty \/ device = "raw" \/ (ended /\ N = {})) /\ N = {}
  BY <1>1, <1>3 DEF Ready
<1>4. CASE ~(~tty \/ device = "raw" \/ (ended /\ N = {})) /\ N # {}
  <2>1. PICK i \in N : \A j \in N : i <= j
    <3>1. N \in SUBSET Nat
      BY <1>1
    <3> HIDE DEF N
    <3>2. QED
      BY <1>4, <3>1, LeastNatural
  <2>2. Ready = CHOOSE k \in N : \A j \in N : k <= j
    BY <1>4 DEF Ready
  <2>3. Ready \in N
    BY <2>1, <2>2
  <2> QED
    BY <1>1, <2>3
<1> QED
  BY <1>2, <1>3, <1>4

-----------------------------------------------------------------------------
(* The inductive invariant.                                                *)

\* The buffer that reads of this session fill, if any.
Shared == IF mode = "repl" THEN "repl" ELSE "stdin"
Ahead == buffers[Shared]

\* No other buffer is ever filled, and none by a program that reads keys only.
OneBuffer ==
    /\ \A b \in {"repl", "stdin"} : b # Shared => buffers[b] = <<>>
    /\ mode = "file" /\ uses = "keys" => Ahead = <<>>

\* Only what the session offers is read.
CallFits ==
    /\ reading.op = "repl_line" => mode = "repl"
    /\ reading.op \in {"read_line", "read"} => uses \in {"both", "streams"}
    /\ reading.op \in KeyReads => uses \in {"both", "keys"}

Orderly == mode = "repl" \/ uses # "both"

\* The bytes consumed, those read ahead and those nobody read continue each
\* other.
Numbered ==
    Orderly =>
        /\ \A i \in DOMAIN delivered : delivered[i] = i
        /\ \A i \in DOMAIN Ahead : Ahead[i].number = Len(delivered) + i
        /\ \A i \in DOMAIN kernel : kernel[i].number = Len(delivered) + Len(Ahead) + i

OrderInv == ConsoleTyped /\ OneBuffer /\ CallFits /\ Numbered

LEMMA SharedType ==
    ASSUME ConsoleTyped, OneBuffer
    PROVE  /\ Shared \in {"repl", "stdin"}
           /\ Ahead \in Seq(Byte)
           /\ Arrived = Len(delivered) + Len(Ahead) + Len(kernel)
           /\ Arrived \in Nat /\ Len(delivered) \in Nat /\ Len(Ahead) \in Nat /\ Len(kernel) \in Nat
<1>1. Shared \in {"repl", "stdin"}
  BY DEF Shared
<1>2. buffers["repl"] \in Seq(Byte) /\ buffers["stdin"] \in Seq(Byte)
  BY DEF ConsoleTyped
<1>3. Ahead \in Seq(Byte)
  BY <1>1, <1>2 DEF Ahead
<1>4. Arrived = Len(delivered) + Len(Ahead) + Len(kernel)
  <2>1. Len(<<>>) = 0 /\ Len(delivered) \in Nat /\ Len(kernel) \in Nat
    BY DEF ConsoleTyped
  <2>2. CASE Shared = "repl"
    <3>1. buffers["stdin"] = <<>> /\ Ahead = buffers["repl"]
      BY <2>2 DEF OneBuffer, Ahead
    <3> QED
      BY <1>3, <2>1, <3>1 DEF Arrived
  <2>3. CASE Shared = "stdin"
    <3>1. buffers["repl"] = <<>> /\ Ahead = buffers["stdin"]
      BY <2>3 DEF OneBuffer, Ahead
    <3> QED
      BY <1>3, <2>1, <3>1 DEF Arrived
  <2> QED
    BY <1>1, <2>2, <2>3
<1> QED
  BY <1>1, <1>3, <1>4 DEF ConsoleTyped

LEMMA InitOrder == ConsoleInit => OrderInv
<1> SUFFICES ASSUME ConsoleInit PROVE OrderInv
  OBVIOUS
<1>1. <<>> \in Seq(Byte) /\ <<>> \in Seq(1 .. MaxArrivals) /\ DOMAIN <<>> = {}
  BY EmptySeq
<1>2. reading \in ReadCall /\ CallFits
  BY <1>1 DEF ConsoleInit, Prompt, Evaluating, ReadCall, Lines, StreamReads, KeyReads, CallFits
<1>3. ConsoleTyped
  <2>1. buffers \in [{"repl", "stdin"} -> Seq(Byte)]
    BY <1>1 DEF ConsoleInit
  <2> QED
    <3>1. /\ mode \in {"repl", "file"} /\ tty \in BOOLEAN /\ uses \in {"streams", "keys", "both"}
          /\ ended \in BOOLEAN /\ spoiled \in BOOLEAN
          /\ device \in {"cooked", "raw"} /\ rawState \in {"cooked", "raw", Nothing}
      BY DEF ConsoleInit
    <3>2. kernel \in Seq(Byte) /\ delivered \in Seq(1 .. MaxArrivals)
      BY <1>1 DEF ConsoleInit
    <3>3. asked \in 0 .. MaxArrivals
      BY BoundsAreNatural DEF ConsoleInit
    <3> QED
      BY <1>2, <2>1, <3>1, <3>2, <3>3 DEF ConsoleTyped
<1>4. OneBuffer /\ Ahead = <<>>
  BY DEF ConsoleInit, OneBuffer, Ahead, Shared
<1>5. Numbered
  BY <1>1, <1>4 DEF ConsoleInit, Numbered
<1> QED
  BY <1>2, <1>3, <1>4, <1>5 DEF OrderInv

-----------------------------------------------------------------------------
(* Bytes arrive.                                                           *)

\* Whatever arrives goes on where the last byte to arrive left off.
LEMMA ArriveNumbers ==
    ASSUME ConsoleTyped, OneBuffer, Numbered, NEW kinds \in Seq(Kinds), Arrive(kinds)
    PROVE  /\ kernel' \in Seq(Byte)
           /\ Orderly => \A i \in DOMAIN kernel' :
                  kernel'[i].number = Len(delivered) + Len(Ahead) + i
<1> DEFINE bytes == [i \in DOMAIN kinds |-> [kind |-> kinds[i], number |-> Arrived + i]]
<1>1. /\ Arrived + Len(kinds) <= MaxArrivals /\ kernel' = kernel \o bytes
      /\ Len(kinds) \in Nat /\ DOMAIN kinds = 1 .. Len(kinds)
  BY DEF Arrive
<1>2. /\ Arrived \in Nat /\ Arrived = Len(delivered) + Len(Ahead) + Len(kernel)
      /\ Len(delivered) \in Nat /\ Len(Ahead) \in Nat /\ Len(kernel) \in Nat
  BY SharedType
<1>3. bytes \in Seq(Byte) /\ Len(bytes) = Len(kinds)
  <2>1. ASSUME NEW i \in 1 .. Len(kinds)
        PROVE  [kind |-> kinds[i], number |-> Arrived + i] \in Byte
    <3>1. Arrived + i \in 1 .. MaxArrivals
      BY <1>1, <1>2, <2>1, BoundsAreNatural
    <3>2. kinds[i] \in Kinds
      BY ElementOfSeq
    <3> QED
      BY <3>1, <3>2 DEF Byte
  <2>2. bytes \in [1 .. Len(kinds) -> Byte]
    BY <1>1, <2>1
  <2> HIDE DEF bytes
  <2> QED
    BY <1>1, <2>2, IsASeq
<1>4. \A i \in 1 .. Len(bytes) : bytes[i].number = Arrived + i
  BY <1>1, <1>3
<1> HIDE DEF bytes
<1>5. /\ kernel' \in Seq(Byte) /\ Len(kernel') = Len(kernel) + Len(bytes)
      /\ \A i \in 1 .. Len(kernel') :
             kernel'[i] = IF i <= Len(kernel) THEN kernel[i] ELSE bytes[i - Len(kernel)]
  <2>1. kernel \in Seq(Byte)
    BY DEF ConsoleTyped
  <2>2. /\ kernel \o bytes \in Seq(Byte) /\ Len(kernel \o bytes) = Len(kernel) + Len(bytes)
        /\ \A i \in 1 .. Len(kernel) + Len(bytes) :
               (kernel \o bytes)[i] = IF i <= Len(kernel) THEN kernel[i] ELSE bytes[i - Len(kernel)]
    BY <1>3, <2>1, ConcatProperties, Zenon
  <2> QED
    BY <1>1, <2>2
<1>6. ASSUME Orderly, NEW i \in 1 .. Len(kernel')
      PROVE  kernel'[i].number = Len(delivered) + Len(Ahead) + i
  <2>1. CASE i <= Len(kernel)
    <3>1. i \in DOMAIN kernel
      BY <1>2, <1>5, <2>1 DEF ConsoleTyped
    <3> QED
      BY <1>5, <1>6, <2>1, <3>1 DEF Numbered
  <2>2. CASE ~(i <= Len(kernel))
    <3>1. i - Len(kernel) \in 1 .. Len(bytes)
      BY <1>1, <1>2, <1>3, <1>5, <2>2
    <3>2. kernel'[i].number = Arrived + (i - Len(kernel))
      BY <1>4, <1>5, <2>2, <3>1
    <3> QED
      BY <1>2, <1>5, <3>2
  <2> QED
    BY <2>1, <2>2
<1> QED
  BY <1>5, <1>6

-----------------------------------------------------------------------------
(* Bytes are read.                                                         *)

\* The buffer of a read.
LEMMA BufferOfRead ==
    ASSUME ConsoleTyped, NEW op
    PROVE  /\ mode = "repl" => BufferOf(op) = "repl"
           /\ mode = "file" /\ op \in StreamReads => BufferOf(op) = "stdin"
           /\ mode = "file" /\ op \notin StreamReads => BufferOf(op) = Nothing
BY DEF BufferOf

\* A full buffer holds what the kernel held next.
LEMMA FillKeeps == OrderInv /\ Fill => OrderInv'
<1> SUFFICES ASSUME OrderInv, Fill PROVE OrderInv'
  OBVIOUS
<1> DEFINE b == BufferOf(reading.op)
           r == Ready
<1>1. /\ reading.op \in StreamReads \cup KeyReads
      /\ b # Nothing /\ buffers[b] = <<>> /\ r > 0
      /\ buffers' = [buffers EXCEPT ![b] = SubSeq(kernel, 1, r)]
      /\ kernel' = SubSeq(kernel, r + 1, Len(kernel))
      /\ UNCHANGED <<session, ended, delivered, device, rawState, reading, asked, spoiled>>
  BY DEF Fill, Reading
<1>2. b = Shared /\ (mode = "file" => reading.op \in StreamReads)
  <2>1. mode \in {"repl", "file"} /\ ConsoleTyped
    BY DEF OrderInv, ConsoleTyped
  <2> QED
    BY <1>1, <2>1, BufferOfRead DEF Shared
<1>3. mode = "file" => reading.op \in {"read_line", "read"}
  BY <1>2 DEF OrderInv, CallFits, StreamReads, Lines
<1> HIDE DEF b
<1>4. r \in 1 .. Len(kernel) /\ Len(kernel) \in Nat /\ kernel \in Seq(Byte)
  BY <1>1, ReadyBound DEF OrderInv, ConsoleTyped
<1> HIDE DEF r
<1>5. /\ SubSeq(kernel, 1, r) \in Seq(Byte) /\ Len(SubSeq(kernel, 1, r)) = r
      /\ \A i \in 1 .. r : SubSeq(kernel, 1, r)[i] = kernel[i]
  BY <1>4
<1>6. /\ kernel' \in Seq(Byte) /\ Len(kernel') = Len(kernel) - r
      /\ \A i \in 1 .. Len(kernel) - r : kernel'[i] = kernel[r + i]
  BY <1>1, <1>4
<1>7. /\ Shared \in {"repl", "stdin"} /\ Ahead = <<>> /\ Len(Ahead) = 0 /\ Len(delivered) \in Nat
  BY <1>1, <1>2, SharedType DEF Ahead, OrderInv
<1>8. Shared' = Shared /\ (Orderly' <=> Orderly) /\ Ahead' = SubSeq(kernel, 1, r)
  BY <1>1, <1>2, <1>7 DEF session, Shared, Ahead, Orderly, OrderInv, ConsoleTyped
<1>9. ConsoleTyped'
  <2>1. buffers' \in [{"repl", "stdin"} -> Seq(Byte)]
    BY <1>1, <1>2, <1>5, <1>7 DEF OrderInv, ConsoleTyped
  <2> QED
    BY <1>1, <1>6, <2>1 DEF OrderInv, ConsoleTyped, session
<1>10. OneBuffer'
  <2>1. \A c \in {"repl", "stdin"} : c # Shared => buffers'[c] = buffers[c]
    BY <1>1, <1>2 DEF OrderInv, ConsoleTyped
  <2>2. ~(mode = "file" /\ uses = "keys")
    BY <1>3 DEF OrderInv, CallFits
  <2> QED
    BY <1>1, <1>8, <2>1, <2>2 DEF OrderInv, OneBuffer, session
<1>11. CallFits'
  BY <1>1 DEF OrderInv, CallFits, session
<1>12. Numbered'
  <2> SUFFICES ASSUME Orderly
               PROVE  /\ \A i \in DOMAIN delivered : delivered[i] = i
                      /\ \A i \in DOMAIN Ahead' : Ahead'[i].number = Len(delivered) + i
                      /\ \A i \in DOMAIN kernel' :
                             kernel'[i].number = Len(delivered) + Len(Ahead') + i
    BY <1>1, <1>8 DEF Numbered
  <2>1. \A i \in 1 .. Len(kernel) : kernel[i].number = Len(delivered) + i
    BY <1>4, <1>7 DEF OrderInv, Numbered
  <2>2. \A i \in DOMAIN Ahead' : Ahead'[i].number = Len(delivered) + i
    <3>1. \A i \in 1 .. r : i \in 1 .. Len(kernel)
      BY <1>4
    <3> QED
      BY <1>5, <1>8, <2>1, <3>1
  <2>3. ASSUME NEW i \in DOMAIN kernel'
        PROVE  kernel'[i].number = Len(delivered) + Len(Ahead') + i
    <3>1. i \in 1 .. Len(kernel) - r /\ r + i \in 1 .. Len(kernel)
      BY <1>4, <1>6
    <3>2. Len(delivered) + (r + i) = Len(delivered) + r + i
      BY <1>4, <1>7, <3>1
    <3> QED
      BY <1>5, <1>6, <1>8, <2>1, <3>1, <3>2
  <2> QED
    BY <2>2, <2>3 DEF OrderInv, Numbered
<1> QED
  BY <1>9, <1>10, <1>11, <1>12 DEF OrderInv

\* The byte that is taken is the one after those consumed before.
LEMMA TakeKeeps == OrderInv /\ Take => OrderInv'
<1> SUFFICES ASSUME OrderInv, Take PROVE OrderInv'
  OBVIOUS
<1> DEFINE b == BufferOf(reading.op)
           source == IF b = Nothing THEN SubSeq(kernel, 1, Ready) ELSE buffers[b]
<1>1. /\ reading.op \in StreamReads \cup KeyReads
      /\ source # <<>>
      /\ reading' = [reading EXCEPT !.got = Append(@, Head(source))]
      /\ delivered' = Append(delivered, Head(source).number)
      /\ IF b = Nothing
         THEN kernel' = Tail(kernel) /\ UNCHANGED buffers
         ELSE buffers' = [buffers EXCEPT ![b] = Tail(@)] /\ UNCHANGED kernel
      /\ UNCHANGED <<session, ended, device, rawState, asked, spoiled>>
  BY DEF Take, Reading
<1>2. /\ ConsoleTyped /\ kernel \in Seq(Byte) /\ Ahead \in Seq(Byte) /\ Shared \in {"repl", "stdin"}
      /\ delivered \in Seq(1 .. MaxArrivals) /\ mode \in {"repl", "file"}
      /\ Len(delivered) \in Nat /\ Len(kernel) \in Nat /\ Len(Ahead) \in Nat
  BY SharedType DEF OrderInv, ConsoleTyped
<1>3. \/ b = Shared /\ source = Ahead
      \/ /\ b = Nothing /\ mode = "file" /\ reading.op \in KeyReads
         /\ source = SubSeq(kernel, 1, Ready)
  BY <1>1, <1>2, BufferOfRead, NothingIsSeparate DEF Shared, Ahead
<1>4. Shared' = Shared /\ (Orderly' <=> Orderly)
  BY <1>1 DEF session, Shared, Orderly
<1> HIDE DEF source
\* Either way the rest of the bytes moves up by one.
<1>5. /\ source \in Seq(Byte)
      /\ kernel' \in Seq(Byte) /\ buffers' \in [{"repl", "stdin"} -> Seq(Byte)]
      /\ Orderly => /\ Head(source).number = Len(delivered) + 1
                    /\ \A i \in DOMAIN Ahead' : Ahead'[i].number = Len(delivered) + 1 + i
                    /\ \A i \in DOMAIN kernel' :
                           kernel'[i].number = Len(delivered) + 1 + Len(Ahead') + i
      /\ OneBuffer'
  <2>1. CASE b = Shared /\ source = Ahead
    <3> HIDE DEF b
    <3>1. /\ buffers' = [buffers EXCEPT ![Shared] = Tail(Ahead)] /\ kernel' = kernel
      BY <1>1, <1>2, <2>1, NothingIsSeparate DEF Ahead
    <3>2. Ahead # <<>> /\ Tail(Ahead) \in Seq(Byte) /\ Len(Tail(Ahead)) = Len(Ahead) - 1
          /\ \A i \in 1 .. Len(Ahead) - 1 : Tail(Ahead)[i] = Ahead[i + 1]
      BY <1>1, <1>2, <2>1, HeadTailProperties
    <3>3. /\ Ahead' = Tail(Ahead) /\ buffers' \in [{"repl", "stdin"} -> Seq(Byte)]
          /\ \A c \in {"repl", "stdin"} : c # Shared => buffers'[c] = buffers[c]
      BY <1>2, <1>4, <3>1, <3>2 DEF Ahead, ConsoleTyped
    <3>4. OneBuffer'
      BY <1>1, <1>4, <3>2, <3>3 DEF OrderInv, OneBuffer, session
    <3>5. ASSUME Orderly
          PROVE  /\ Head(Ahead).number = Len(delivered) + 1
                 /\ \A i \in DOMAIN Ahead' : Ahead'[i].number = Len(delivered) + 1 + i
                 /\ \A i \in DOMAIN kernel' :
                        kernel'[i].number = Len(delivered) + 1 + Len(Ahead') + i
      <4>1. /\ \A i \in 1 .. Len(Ahead) : Ahead[i].number = Len(delivered) + i
            /\ \A i \in 1 .. Len(kernel) : kernel[i].number = Len(delivered) + Len(Ahead) + i
        BY <1>2, <3>5 DEF OrderInv, Numbered
      <4>2. Len(Ahead) \in Nat \ {0} /\ Head(Ahead) = Ahead[1]
        BY <1>2, <3>2, EmptySeq
      <4>3. Head(Ahead).number = Len(delivered) + 1
        BY <4>1, <4>2
      <4>4. ASSUME NEW i \in DOMAIN Ahead' PROVE Ahead'[i].number = Len(delivered) + 1 + i
        <5>1. i \in 1 .. Len(Ahead) - 1 /\ i + 1 \in 1 .. Len(Ahead)
          BY <3>2, <3>3, <4>2
        <5>2. Ahead'[i].number = Len(delivered) + (i + 1)
          BY <3>2, <3>3, <4>1, <5>1
        <5> QED
          BY <1>2, <5>1, <5>2
      <4>5. ASSUME NEW i \in DOMAIN kernel'
            PROVE  kernel'[i].number = Len(delivered) + 1 + Len(Ahead') + i
        <5>1. i \in 1 .. Len(kernel) /\ kernel'[i].number = Len(delivered) + Len(Ahead) + i
          BY <1>2, <3>1, <4>1
        <5>2. Len(delivered) + Len(Ahead) + i = Len(delivered) + 1 + (Len(Ahead) - 1) + i
          BY <1>2, <5>1
        <5> QED
          BY <3>2, <3>3, <5>1, <5>2
      <4> QED
        BY <4>3, <4>4, <4>5
    <3> QED
      BY <1>2, <2>1, <3>1, <3>3, <3>4, <3>5
  <2>2. CASE /\ b = Nothing /\ mode = "file" /\ reading.op \in KeyReads
             /\ source = SubSeq(kernel, 1, Ready)
    <3>1. kernel' = Tail(kernel) /\ buffers' = buffers
      BY <1>1, <2>2
    <3>2. Ready \in 1 .. Len(kernel)
      <4>1. Ready \in 0 .. Len(kernel)
        BY <1>2, ReadyBound
      <4>2. SubSeq(kernel, 1, 0) = <<>>
        BY <1>2, SubSeqEmpty
      <4>3. Ready # 0
        BY <1>1, <2>2, <4>2
      <4> QED
        BY <1>2, <4>1, <4>3
    <3>3. source \in Seq(Byte) /\ Head(source) = kernel[1] /\ kernel # <<>>
      <4> DEFINE r == Ready
      <4> HIDE DEF r
      <4>1. r \in 1 .. Len(kernel) /\ source = SubSeq(kernel, 1, r)
        BY <2>2, <3>2 DEF r
      <4>2. Len(source) = r /\ source \in Seq(Byte) /\ source[1] = kernel[1]
        BY <1>2, <4>1
      <4>3. kernel # <<>>
        BY <1>2, <4>1
      <4> QED
        BY <1>1, <4>2, <4>3
    <3>4. /\ Tail(kernel) \in Seq(Byte) /\ Len(Tail(kernel)) = Len(kernel) - 1
          /\ \A i \in 1 .. Len(kernel) - 1 : Tail(kernel)[i] = kernel[i + 1]
      BY <1>2, <3>3, HeadTailProperties
    <3>5. Ahead' = Ahead
      BY <1>4, <3>1 DEF Ahead
    <3>6. OneBuffer'
      BY <1>1, <1>4, <3>1, <3>5 DEF OrderInv, OneBuffer, session
    <3>7. ASSUME Orderly
          PROVE  /\ Head(source).number = Len(delivered) + 1
                 /\ Ahead' = <<>> /\ Len(Ahead') = 0
                 /\ \A i \in DOMAIN kernel' :
                        kernel'[i].number = Len(delivered) + 1 + Len(Ahead') + i
      <4>1. Ahead = <<>> /\ Len(Ahead) = 0
        BY <1>2, <2>2, <3>7 DEF OrderInv, CallFits, OneBuffer, Orderly, ConsoleTyped
      <4>2. \A i \in 1 .. Len(kernel) : kernel[i].number = Len(delivered) + i
        BY <1>2, <3>7, <4>1 DEF OrderInv, Numbered
      <4>3. Len(kernel) \in Nat \ {0}
        BY <1>2, <3>3, EmptySeq
      <4>4. ASSUME NEW i \in DOMAIN kernel'
            PROVE  kernel'[i].number = Len(delivered) + 1 + Len(Ahead') + i
        <5>1. i \in 1 .. Len(kernel) - 1 /\ i + 1 \in 1 .. Len(kernel)
          BY <3>1, <3>4, <4>3
        <5>2. kernel'[i].number = Len(delivered) + (i + 1)
          BY <3>1, <3>4, <4>2, <5>1
        <5> QED
          BY <1>2, <3>5, <4>1, <5>1, <5>2
      <4> QED
        BY <3>3, <3>5, <4>1, <4>2, <4>3, <4>4
    <3> QED
      BY <1>2, <3>1, <3>3, <3>4, <3>6, <3>7 DEF ConsoleTyped
  <2> QED
    BY <1>3, <2>1, <2>2
<1>6. Head(source) \in Byte /\ Head(source).number \in 1 .. MaxArrivals
  <2>1. Head(source) \in Byte
    BY <1>1, <1>5, HeadTailProperties
  <2> QED
    BY <2>1 DEF Byte
<1>7. /\ delivered' \in Seq(1 .. MaxArrivals) /\ Len(delivered') = Len(delivered) + 1
      /\ \A i \in 1 .. Len(delivered) : delivered'[i] = delivered[i]
      /\ delivered'[Len(delivered) + 1] = Head(source).number
  BY <1>1, <1>2, <1>6, AppendProperties
<1>8. reading' \in ReadCall /\ reading'.op = reading.op
  <2>1. reading \in ReadCall /\ reading.got \in Seq(Byte)
    BY <1>2 DEF ConsoleTyped, ReadCall
  <2>2. Append(reading.got, Head(source)) \in Seq(Byte)
    BY <1>6, <2>1, AppendProperties
  <2> QED
    BY <1>1, <2>1, <2>2 DEF ReadCall
<1>9. ConsoleTyped'
  BY <1>1, <1>2, <1>5, <1>7, <1>8 DEF ConsoleTyped, session
<1>10. CallFits'
  <2>1. mode' = mode /\ uses' = uses /\ reading'.op = reading.op
    BY <1>1, <1>8 DEF session
  <2> QED
    BY <2>1 DEF OrderInv, CallFits
<1>11. Numbered'
  <2> SUFFICES ASSUME Orderly
               PROVE  /\ \A i \in DOMAIN delivered' : delivered'[i] = i
                      /\ \A i \in DOMAIN Ahead' : Ahead'[i].number = Len(delivered') + i
                      /\ \A i \in DOMAIN kernel' :
                             kernel'[i].number = Len(delivered') + Len(Ahead') + i
    BY <1>4 DEF Numbered
  <2>1. ASSUME NEW i \in DOMAIN delivered' PROVE delivered'[i] = i
    <3>1. \A j \in 1 .. Len(delivered) : delivered[j] = j
      BY <1>2 DEF OrderInv, Numbered
    <3>2. i \in 1 .. Len(delivered) \/ i = Len(delivered) + 1
      BY <1>2, <1>7
    <3> QED
      BY <1>5, <1>7, <3>1, <3>2
  <2> QED
    BY <1>5, <1>7, <2>1
<1> QED
  BY <1>5, <1>9, <1>10, <1>11 DEF OrderInv

\* A call that ends leaves the input alone.
LEMMA EndingKeeps ==
    ASSUME OrderInv, reading' = NextCall, Restores,
           UNCHANGED <<session, input, rawState, asked>>
    PROVE  OrderInv'
<1>1. /\ reading' \in ReadCall /\ reading'.op \in {"eval", "stopped"}
  BY EmptySeq DEF NextCall, Evaluating, ReadCall
<1>2. device' \in {"cooked", "raw"} /\ spoiled' \in BOOLEAN
  BY DEF Restores, OrderInv, ConsoleTyped, ReadCall
<1>3. ConsoleTyped'
  BY <1>1, <1>2 DEF OrderInv, ConsoleTyped, session, input
<1>4. OneBuffer' /\ CallFits' /\ Numbered'
  BY <1>1 DEF OrderInv, OneBuffer, CallFits, Numbered, Orderly, Ahead, Shared, session, input,
              KeyReads
<1> QED
  BY <1>3, <1>4 DEF OrderInv

\* A call that begins is one that the session offers, and leaves the input alone.
LEMMA BeginningKeeps ==
    ASSUME OrderInv, UNCHANGED <<session, input, spoiled>>,
           device' \in {"cooked", "raw"}, rawState' \in {"cooked", "raw", Nothing},
           asked' \in 0 .. MaxArrivals, reading' \in ReadCall, CallFits'
    PROVE  OrderInv'
<1>1. ConsoleTyped'
  BY DEF OrderInv, ConsoleTyped, session, input
<1>2. OneBuffer' /\ Numbered'
  BY DEF OrderInv, OneBuffer, Numbered, Orderly, Ahead, Shared, session, input
<1> QED
  BY <1>1, <1>2 DEF OrderInv

LEMMA NextOrder == OrderInv /\ [ConsoleNext]_consoleVars => OrderInv'
<1> SUFFICES ASSUME OrderInv, [ConsoleNext]_consoleVars PROVE OrderInv'
  OBVIOUS
<1> USE DEF Lines, StreamReads, KeyReads
<1>0. /\ reading \in ReadCall /\ device \in {"cooked", "raw"} /\ rawState \in {"cooked", "raw", Nothing}
      /\ asked \in 0 .. MaxArrivals /\ ConsoleTyped /\ OneBuffer /\ CallFits /\ Numbered
  BY DEF OrderInv, ConsoleTyped
\* An arrival changes nothing that readers know of.
<1>1. ASSUME NEW kinds \in Seq(Kinds), Arrive(kinds),
             UNCHANGED <<session, ended, buffers, delivered, device, rawState, reading, spoiled>>,
             asked' \in 0 .. MaxArrivals
      PROVE  OrderInv'
  <2>1. /\ kernel' \in Seq(Byte)
        /\ Orderly => \A i \in DOMAIN kernel' :
               kernel'[i].number = Len(delivered) + Len(Ahead) + i
    BY <1>0, <1>1, ArriveNumbers
  <2>2. ConsoleTyped'
    BY <1>0, <1>1, <2>1 DEF ConsoleTyped, session
  <2>3. OneBuffer' /\ CallFits' /\ Numbered'
    BY <1>0, <1>1, <2>1 DEF OneBuffer, CallFits, Numbered, Orderly, Ahead, Shared, session
  <2> QED
    BY <2>2, <2>3 DEF OrderInv
<1>2. CASE Type
  <2>1. PICK kinds \in {<<"x">>, <<"newline">>, <<"lead", "cont">>, <<"lead">>} : Arrive(kinds)
    BY <1>2 DEF Type
  <2>2. kinds \in Seq(Kinds)
    <3>1. /\ <<"x">> \in Seq(Kinds) /\ <<"newline">> \in Seq(Kinds)
          /\ <<"lead", "cont">> \in Seq(Kinds) /\ <<"lead">> \in Seq(Kinds)
      BY DEF Kinds
    <3> QED
      BY <3>1
  <2> QED
    BY <1>0, <1>1, <1>2, <2>1, <2>2 DEF Type
<1>3. CASE Report
  <2>1. Arrive(<<"esc", "R">>) /\ <<"esc", "R">> \in Seq(Kinds)
    BY <1>3 DEF Report, Kinds
  <2>2. asked' \in 0 .. MaxArrivals
    BY <1>0, <1>3, BoundsAreNatural DEF Report
  <2> QED
    BY <1>1, <1>3, <2>1, <2>2 DEF Report
<1>4. CASE EndInput
  <2>1. /\ ended' = TRUE
        /\ UNCHANGED <<session, kernel, buffers, delivered, device, rawState, reading, asked, spoiled>>
    BY <1>4 DEF EndInput
  <2> QED
    BY <1>0, <2>1 DEF OrderInv, ConsoleTyped, OneBuffer, CallFits, Numbered, Orderly, Ahead, Shared, session
<1>5. CASE Fill
  BY <1>5, FillKeeps
<1>6. CASE Take
  BY <1>6, TakeKeeps
<1>7. CASE Finish \/ ReadFails
  BY <1>7, EndingKeeps DEF Finish, ReadFails
<1>8. CASE StartStreamRead
  <2>1. PICK op \in {"read_line", "read"} : Calls(op) /\ reading' = [Evaluating EXCEPT !.op = op]
    BY <1>8 DEF StartStreamRead
  <2>2. /\ reading' \in ReadCall /\ reading'.op = op
        /\ UNCHANGED <<session, input, device, rawState, asked, spoiled>>
    BY <1>8, <2>1, EmptySeq DEF StartStreamRead, ReadCall, Evaluating
  <2>3. CallFits'
    BY <2>1, <2>2 DEF CallFits, Calls, session
  <2> QED
    BY <1>0, <2>2, <2>3, BeginningKeeps
<1>9. CASE StartKeyRead
  <2>1. PICK op \in KeyReads :
            /\ Calls(op)
            /\ IF rawState = Nothing /\ HasDescriptor /\ tty
               THEN reading' = [Evaluating EXCEPT !.op = op, !.restores = device] /\ device' = "raw"
               ELSE reading' = [Evaluating EXCEPT !.op = op] /\ UNCHANGED device
            /\ asked' = IF op = "cursor_save" THEN asked + 1 ELSE asked
    BY <1>9 DEF StartKeyRead
  <2>2. reading' \in ReadCall /\ reading'.op = op /\ device' \in {"cooked", "raw"}
    BY <1>0, <2>1, EmptySeq DEF ReadCall, Evaluating
  <2>3. asked' \in 0 .. MaxArrivals /\ UNCHANGED <<session, input, rawState, spoiled>>
    BY <1>0, <1>9, <2>1, BoundsAreNatural DEF StartKeyRead
  <2>4. CallFits'
    BY <2>1, <2>2, <2>3 DEF CallFits, Calls, session
  <2> QED
    BY <1>0, <2>2, <2>3, <2>4, BeginningKeeps
<1>10. CASE RawMode
  <2>1. /\ UNCHANGED <<session, input, reading, asked, spoiled>>
        /\ rawState' = device /\ device' = "raw"
    BY <1>10 DEF RawMode
  <2> QED
    BY <1>0, <2>1, BeginningKeeps DEF CallFits, session
<1>11. CASE NormalMode
  <2>1. /\ UNCHANGED <<session, input, reading, asked, spoiled>>
        /\ rawState # Nothing /\ rawState' = Nothing /\ device' = rawState
    BY <1>11 DEF NormalMode
  <2> QED
    BY <1>0, <2>1, BeginningKeeps DEF CallFits, session
<1>12. CASE EndEval
  <2>1. /\ reading' = IF mode = "repl" THEN Prompt ELSE [Evaluating EXCEPT !.op = "stopped"]
        /\ UNCHANGED <<session, input, device, rawState, asked, spoiled>>
    BY <1>12 DEF EndEval
  <2>2. /\ reading' \in ReadCall /\ (mode = "repl" \/ reading'.op = "stopped")
        /\ reading'.op \in {"repl_line", "stopped"}
    BY <2>1, EmptySeq DEF Prompt, Evaluating, ReadCall
  <2>3. CallFits'
    BY <2>1, <2>2 DEF CallFits, session
  <2> QED
    BY <1>0, <2>1, <2>2, <2>3, BeginningKeeps
<1>13. CASE UNCHANGED consoleVars
  BY <1>13 DEF consoleVars, session, input, OrderInv, ConsoleTyped, OneBuffer, CallFits, Numbered, Orderly,
               Ahead, Shared
<1> QED
  BY <1>2, <1>3, <1>4, <1>5, <1>6, <1>7, <1>8, <1>9, <1>10, <1>11, <1>12, <1>13 DEF ConsoleNext, ReadStep

\* The readers that share a buffer keep it, the bytes they have taken and the
\* bytes the kernel still has in the order of arrival, and nobody fills another
\* buffer (io.go, terminal.go).
THEOREM OrderIsInvariant == ConsoleSpec => []OrderInv
<1>1. ConsoleInit => OrderInv
  BY InitOrder
<1>2. OrderInv /\ [ConsoleNext]_consoleVars => OrderInv'
  BY NextOrder
<1> QED
  BY <1>1, <1>2, PTL DEF ConsoleSpec

\* Bytes are consumed in the order they arrived, each once, by all the readers
\* of a REPL, and in a file run by those that share a buffer.
THEOREM InputCorrect == ConsoleSpec => []InputInOrder
<1>1. OrderInv => InputInOrder
  BY DEF OrderInv, Numbered, Orderly, InputInOrder
<1> QED
  BY <1>1, OrderIsInvariant, PTL

-----------------------------------------------------------------------------
(* The mode of the terminal.                                               *)

\* Only a read of the terminal package restores the device, and none does while
\* raw_mode is on; what it goes back to is then the mode of a session.
ModeInv ==
    /\ reading.op \notin KeyReads => reading.restores = Nothing
    /\ rawState # Nothing => reading.restores = Nothing
    /\ ~spoiled => /\ rawState \in {Nothing, "cooked"}
                   /\ reading.restores \in {Nothing, "cooked"}
                   /\ RawModeFollowsState

LEMMA InitMode == ConsoleInit => ModeInv
BY DEF ConsoleInit, ModeInv, RawModeFollowsState, Prompt, Evaluating, KeyReads

LEMMA NextMode == OrderInv /\ ModeInv /\ [ConsoleNext]_consoleVars => ModeInv'
<1> SUFFICES ASSUME OrderInv, ModeInv, [ConsoleNext]_consoleVars PROVE ModeInv'
  OBVIOUS
<1> USE NothingIsSeparate DEF ModeInv, RawModeFollowsState, Lines, StreamReads, KeyReads
<1>1. CASE UNCHANGED <<reading, rawState, device, spoiled>>
  BY <1>1
<1>2. CASE Take
  <2>1. /\ UNCHANGED <<device, rawState, spoiled>>
        /\ reading'.op = reading.op /\ reading'.restores = reading.restores
    BY <1>2 DEF Take, OrderInv, ConsoleTyped, ReadCall
  <2> QED
    BY <2>1
<1>3. CASE Finish \/ ReadFails
  <2>1. /\ rawState' = rawState /\ Restores
        /\ reading'.op \in {"eval", "stopped"} /\ reading'.restores = Nothing
    BY <1>3 DEF Finish, ReadFails, NextCall, Evaluating
  <2>2. CASE reading.restores = Nothing /\ UNCHANGED <<device, spoiled>>
    BY <2>1, <2>2
  <2>3. CASE reading.restores # Nothing /\ device' = reading.restores /\ UNCHANGED spoiled
    BY <2>1, <2>3
  <2>4. CASE spoiled'
    BY <2>1, <2>4
  <2> QED
    BY <2>1, <2>2, <2>3, <2>4 DEF Restores
<1>4. CASE StartStreamRead
  <2>1. PICK op \in {"read_line", "read"} : Calls(op) /\ reading' = [Evaluating EXCEPT !.op = op]
    BY <1>4 DEF StartStreamRead
  <2>2. /\ reading.restores = Nothing /\ reading'.op = op /\ reading'.restores = Nothing
        /\ UNCHANGED <<device, rawState, spoiled>>
    BY <1>4, <2>1 DEF StartStreamRead, Calls, Evaluating
  <2> QED
    BY <2>2
<1>5. CASE StartKeyRead
  <2>1. PICK op \in KeyReads :
            /\ Calls(op)
            /\ IF rawState = Nothing /\ HasDescriptor /\ tty
               THEN reading' = [Evaluating EXCEPT !.op = op, !.restores = device] /\ device' = "raw"
               ELSE reading' = [Evaluating EXCEPT !.op = op] /\ UNCHANGED device
    BY <1>5 DEF StartKeyRead
  <2>2. /\ reading.restores = Nothing /\ reading'.op = op /\ UNCHANGED <<rawState, spoiled>>
    BY <1>5, <2>1 DEF StartKeyRead, Calls, Evaluating
  <2>3. CASE rawState = Nothing /\ HasDescriptor /\ tty
    <3>1. reading'.restores = device /\ device' = "raw"
      BY <2>1, <2>3 DEF Evaluating
    <3> QED
      BY <2>2, <2>3, <3>1
  <2>4. CASE ~(rawState = Nothing /\ HasDescriptor /\ tty)
    <3>1. reading'.restores = Nothing /\ device' = device
      BY <2>1, <2>4 DEF Evaluating
    <3> QED
      BY <2>2, <2>4, <3>1
  <2> QED
    BY <2>3, <2>4
<1>6. CASE RawMode
  <2>1. /\ reading.op = "eval" /\ rawState = Nothing /\ rawState' = device /\ device' = "raw"
        /\ UNCHANGED <<reading, spoiled>>
    BY <1>6 DEF RawMode, Calls
  <2> QED
    BY <2>1
<1>7. CASE NormalMode
  <2>1. /\ reading.op = "eval" /\ rawState # Nothing /\ rawState' = Nothing /\ device' = rawState
        /\ UNCHANGED <<reading, spoiled>>
    BY <1>7 DEF NormalMode, Calls
  <2> QED
    BY <2>1
<1>8. CASE EndEval
  <2>1. /\ reading.op = "eval" /\ reading'.restores = Nothing /\ UNCHANGED <<device, rawState, spoiled>>
    BY <1>8 DEF EndEval, Prompt, Evaluating
  <2> QED
    BY <2>1
<1> QED
  BY <1>1, <1>2, <1>3, <1>4, <1>5, <1>6, <1>7, <1>8
     DEF ConsoleNext, ReadStep, consoleVars, Type, Report, EndInput, Fill

\* However reads and mode changes follow each other and fail, the device is raw
\* exactly while raw_mode is on or a read has made it so.
THEOREM ModeCorrect == ConsoleSpec => []RawModeFollowsState
<1>1. ConsoleInit => ModeInv
  BY InitMode
<1>2. OrderInv /\ ModeInv /\ [ConsoleNext]_consoleVars => ModeInv'
  BY NextMode
<1>3. ModeInv => RawModeFollowsState
  BY DEF ModeInv, RawModeFollowsState
<1> QED
  BY <1>1, <1>2, <1>3, OrderIsInvariant, PTL DEF ConsoleSpec
=============================================================================
