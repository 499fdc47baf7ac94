-------------------------- MODULE Language_proofs --------------------------
(***************************************************************************)
(* Proofs about the four parts of Language.                                *)
(*                                                                         *)
(* ParserContexts, for nesting of every depth: the contexts that the       *)
(* parser keeps beside the Go stack agree with the constructs it is inside *)
(* of, so that braces, breaks and exports find theirs.                     *)
(*                                                                         *)
(* DefaultMaps, for every set of keys and values and every bound: its type *)
(* invariant, and, for programs whose factories leave the key they work on *)
(* alone and that store where reads look, that values are found again and  *)
(* made once.                                                              *)
(*                                                                         *)
(* CallContracts, for contracts of every depth: a function that a slot     *)
(* admitted binds what the slot lets through and returns what it announces *)
(* (where null results have one spelling), and arguments are used once.    *)
(*                                                                         *)
(* Expressions, for sources of every length and integers of every width:   *)
(* the tree is that of the precedences, folding keeps its value, and the   *)
(* value is the unbounded one, wrapped.                                    *)
(***************************************************************************)
EXTENDS Language, FiniteSetTheorems, WellFoundedInduction, SequenceTheorems, TLAPS

-----------------------------------------------------------------------------
(* ParserContexts.                                                         *)
(* The inductive invariant, as a predicate of the constructs o and of the  *)
(* three contexts, so that a step can be taken apart into constructs that  *)
(* are left and constructs that are begun.                                 *)

Deciding == Heads \cup {"nested", "struct_literal", "if_body", "else", "alternative", "switch"}

Kinds == Deciding \cup StatementLists \cup {"map", "case_value"}

ConstructType == [kind : Kinds, stop : BOOLEAN, loops : Nat]

ContextsTyped(o, stop, loops, blocks) ==
    /\ o \in Seq(ConstructType)
    /\ stop \in BOOLEAN
    /\ loops \in Nat
    /\ blocks \in Nat

\* What the first i constructs say of a brace.
Forbidden(o, i) ==
    \E j \in 1 .. i :
        /\ o[j].kind \in Heads
        /\ \A k \in j + 1 .. i : o[k].kind \notin Deciding

\* What the first i constructs say of a break.
LoopAround(o, i) ==
    \E j \in 1 .. i :
        /\ o[j].kind = "loop_body"
        /\ \A k \in j + 1 .. i : o[k].kind # "function_body"

\* Every construct has saved what the constructs outside of it say, which is
\* what leaving it relies on, and the current contexts are what all say.
BracesKnown(o, stop) ==
    /\ stop <=> Forbidden(o, Len(o))
    /\ \A i \in 1 .. Len(o) : o[i].stop <=> Forbidden(o, i - 1)

LoopsKnown(o, loops) ==
    /\ loops = 0 <=> ~LoopAround(o, Len(o))
    /\ \A i \in 1 .. Len(o) : o[i].loops = 0 <=> ~LoopAround(o, i - 1)

\* How many loops deep the inside of a construct is.
Deepened(construct) ==
    IF construct.kind = "loop_body" THEN construct.loops + 1
    ELSE IF construct.kind = "function_body" THEN 0 ELSE construct.loops

DepthsLinked(o, loops) ==
    \A i \in 1 .. Len(o) :
        Deepened(o[i]) = IF i = Len(o) THEN loops ELSE o[i + 1].loops

BlockPositions(o) == {i \in 1 .. Len(o) : o[i].kind \in CountedBlocks}

BlocksCounted(o, blocks) ==
    IsFiniteSet(BlockPositions(o)) /\ blocks = Cardinality(BlockPositions(o))

Agree(o, stop, loops, blocks) ==
    /\ ContextsTyped(o, stop, loops, blocks)
    /\ BracesKnown(o, stop)
    /\ LoopsKnown(o, loops)
    /\ DepthsLinked(o, loops)
    /\ BlocksCounted(o, blocks)

ContextInv == Agree(open, stopAtBlockBrace, loopDepth, blockDepth)

\* What a construct makes of the contexts it finds.
StopInside(c) == IF c.kind \in Heads THEN TRUE ELSE IF c.kind \in Deciding THEN FALSE ELSE c.stop
BlocksInside(c, blocks) == IF c.kind \in CountedBlocks THEN blocks + 1 ELSE blocks

-----------------------------------------------------------------------------
(* Beginning a construct.                                                  *)

LEMMA ForbiddenPush ==
    ASSUME NEW o \in Seq(ConstructType), NEW c \in ConstructType
    PROVE  /\ \A i \in 0 .. Len(o) : Forbidden(Append(o, c), i) <=> Forbidden(o, i)
           /\ c.kind \in Heads => Forbidden(Append(o, c), Len(o) + 1)
           /\ c.kind \in Deciding \ Heads => ~Forbidden(Append(o, c), Len(o) + 1)
           /\ c.kind \notin Deciding =>
                  (Forbidden(Append(o, c), Len(o) + 1) <=> Forbidden(o, Len(o)))
<1> DEFINE n == Len(o)
           p == Append(o, c)
<1>1. n \in Nat /\ p[n + 1] = c /\ \A i \in 1 .. n : p[i] = o[i]
  OBVIOUS
<1> HIDE DEF n, p
<1>2. \A i \in 0 .. n : Forbidden(p, i) <=> Forbidden(o, i)
  BY <1>1 DEF Forbidden
<1>3. c.kind \in Heads => Forbidden(p, n + 1)
  BY <1>1 DEF Forbidden
<1>4. c.kind \in Deciding \ Heads => ~Forbidden(p, n + 1)
  BY <1>1 DEF Forbidden
<1>5. ASSUME c.kind \notin Deciding PROVE Forbidden(p, n + 1) <=> Forbidden(o, n)
  <2>1. c.kind \notin Heads
    BY <1>5 DEF Deciding
  <2>2. ASSUME NEW j \in 1 .. n + 1, p[j].kind \in Heads,
               \A k \in j + 1 .. n + 1 : p[k].kind \notin Deciding
        PROVE  Forbidden(o, n)
    <3>1. j # n + 1
      BY <1>1, <2>1, <2>2
    <3>2. /\ j \in 1 .. n /\ o[j].kind \in Heads
          /\ \A k \in j + 1 .. n : k \in j + 1 .. n + 1 /\ k \in 1 .. n
      BY <1>1, <2>2, <3>1
    <3>3. \A k \in j + 1 .. n : o[k].kind \notin Deciding
      BY <1>1, <2>2, <3>2
    <3> QED
      BY <3>2, <3>3 DEF Forbidden
  <2>3. ASSUME NEW j \in 1 .. n, o[j].kind \in Heads,
               \A k \in j + 1 .. n : o[k].kind \notin Deciding
        PROVE  Forbidden(p, n + 1)
    <3>1. /\ j \in 1 .. n + 1 /\ p[j].kind \in Heads
          /\ \A k \in j + 1 .. n + 1 : k = n + 1 \/ (k \in j + 1 .. n /\ k \in 1 .. n)
      BY <1>1, <2>3
    <3>2. \A k \in j + 1 .. n + 1 : p[k].kind \notin Deciding
      BY <1>1, <1>5, <2>3, <3>1
    <3> QED
      BY <3>1, <3>2 DEF Forbidden
  <2> QED
    BY <2>2, <2>3 DEF Forbidden
<1> QED
  BY <1>2, <1>3, <1>4, <1>5 DEF n, p

LEMMA LoopAroundPush ==
    ASSUME NEW o \in Seq(ConstructType), NEW c \in ConstructType
    PROVE  /\ \A i \in 0 .. Len(o) : LoopAround(Append(o, c), i) <=> LoopAround(o, i)
           /\ c.kind = "loop_body" => LoopAround(Append(o, c), Len(o) + 1)
           /\ c.kind = "function_body" => ~LoopAround(Append(o, c), Len(o) + 1)
           /\ c.kind \notin {"loop_body", "function_body"} =>
                  (LoopAround(Append(o, c), Len(o) + 1) <=> LoopAround(o, Len(o)))
<1> DEFINE n == Len(o)
           p == Append(o, c)
<1>1. n \in Nat /\ p[n + 1] = c /\ \A i \in 1 .. n : p[i] = o[i]
  OBVIOUS
<1> HIDE DEF n, p
<1>2. \A i \in 0 .. n : LoopAround(p, i) <=> LoopAround(o, i)
  BY <1>1 DEF LoopAround
<1>3. c.kind = "loop_body" => LoopAround(p, n + 1)
  BY <1>1 DEF LoopAround
<1>4. c.kind = "function_body" => ~LoopAround(p, n + 1)
  BY <1>1 DEF LoopAround
<1>5. c.kind \notin {"loop_body", "function_body"} => (LoopAround(p, n + 1) <=> LoopAround(o, n))
  BY <1>1 DEF LoopAround
<1> QED
  BY <1>2, <1>3, <1>4, <1>5 DEF n, p

LEMMA BlocksPush ==
    ASSUME NEW o \in Seq(ConstructType), NEW c \in ConstructType, NEW blocks \in Nat,
           BlocksCounted(o, blocks)
    PROVE  BlocksCounted(Append(o, c), BlocksInside(c, blocks))
<1> DEFINE n == Len(o)
           p == Append(o, c)
<1>1. n \in Nat /\ Len(p) = n + 1 /\ p[n + 1] = c /\ \A i \in 1 .. n : p[i] = o[i]
  OBVIOUS
<1> HIDE DEF p
<1>2. CASE c.kind \in CountedBlocks
  <2>1. BlockPositions(p) = BlockPositions(o) \cup {n + 1} /\ n + 1 \notin BlockPositions(o)
    BY <1>1, <1>2 DEF BlockPositions
  <2> QED
    BY <1>1, <1>2, <2>1, FS_AddElement DEF BlocksCounted, BlocksInside, p
<1>3. CASE c.kind \notin CountedBlocks
  <2>1. BlockPositions(p) = BlockPositions(o)
    BY <1>1, <1>3 DEF BlockPositions
  <2> QED
    BY <2>1, <1>3 DEF BlocksCounted, BlocksInside, p
<1> QED
  BY <1>2, <1>3

\* A construct that saves the contexts it finds keeps them in agreement.
LEMMA Begin ==
    ASSUME NEW o, NEW stop, NEW loops, NEW blocks, Agree(o, stop, loops, blocks),
           NEW c \in ConstructType, c.stop = stop, c.loops = loops
    PROVE  Agree(Append(o, c), StopInside(c), Deepened(c), BlocksInside(c, blocks))
<1> DEFINE n == Len(o)
           p == Append(o, c)
<1>0. o \in Seq(ConstructType) /\ stop \in BOOLEAN /\ loops \in Nat /\ blocks \in Nat
  BY DEF Agree, ContextsTyped
<1>1. n \in Nat /\ Len(p) = n + 1 /\ p[n + 1] = c /\ \A i \in 1 .. n : p[i] = o[i]
  BY <1>0
<1>2. p \in Seq(ConstructType)
  BY <1>0
<1> HIDE DEF p
<1>3. ContextsTyped(p, StopInside(c), Deepened(c), BlocksInside(c, blocks))
  <2>1. StopInside(c) \in BOOLEAN
    BY DEF StopInside, ConstructType
  <2>2. Deepened(c) \in Nat /\ BlocksInside(c, blocks) \in Nat
    BY <1>0 DEF Deepened, BlocksInside
  <2> QED
    BY <1>2, <2>1, <2>2 DEF ContextsTyped
<1>4. BracesKnown(p, StopInside(c))
  <2>1. StopInside(c) <=> Forbidden(p, n + 1)
    BY <1>0, ForbiddenPush DEF StopInside, Agree, BracesKnown, p
  <2>2. \A i \in 1 .. n : o[i].stop <=> Forbidden(p, i - 1)
    <3>1. \A i \in 1 .. n : i - 1 \in 0 .. n
      BY <1>1
    <3> QED
      BY <1>0, <3>1, ForbiddenPush DEF Agree, BracesKnown, p
  <2>3. c.stop <=> Forbidden(p, (n + 1) - 1)
    <3>1. (n + 1) - 1 = n /\ n \in 0 .. n
      BY <1>1
    <3> QED
      BY <1>0, <3>1, ForbiddenPush DEF Agree, BracesKnown, p
  <2>4. ASSUME NEW i \in 1 .. n + 1 PROVE p[i].stop <=> Forbidden(p, i - 1)
    <3>1. i \in 1 .. n \/ i = n + 1
      BY <1>1
    <3> QED
      BY <1>1, <2>2, <2>3, <3>1
  <2> QED
    BY <1>1, <2>1, <2>4 DEF BracesKnown
<1>5. LoopsKnown(p, Deepened(c))
  <2>1. Deepened(c) = 0 <=> ~LoopAround(p, n + 1)
    <3>1. loops + 1 # 0 /\ (loops = 0 <=> ~LoopAround(o, n))
      BY <1>0 DEF Agree, LoopsKnown
    <3> QED
      BY <1>0, <3>1, LoopAroundPush DEF Deepened, p
  <2>2. \A i \in 1 .. n : o[i].loops = 0 <=> ~LoopAround(p, i - 1)
    <3>1. \A i \in 1 .. n : i - 1 \in 0 .. n
      BY <1>1
    <3> QED
      BY <1>0, <3>1, LoopAroundPush DEF Agree, LoopsKnown, p
  <2>3. c.loops = 0 <=> ~LoopAround(p, (n + 1) - 1)
    <3>1. (n + 1) - 1 = n /\ n \in 0 .. n
      BY <1>1
    <3> QED
      BY <1>0, <3>1, LoopAroundPush DEF Agree, LoopsKnown, p
  <2>4. ASSUME NEW i \in 1 .. n + 1 PROVE p[i].loops = 0 <=> ~LoopAround(p, i - 1)
    <3>1. i \in 1 .. n \/ i = n + 1
      BY <1>1
    <3> QED
      BY <1>1, <2>2, <2>3, <3>1
  <2> QED
    BY <1>1, <2>1, <2>4 DEF LoopsKnown
<1>6. DepthsLinked(p, Deepened(c))
  <2>1. \A i \in 1 .. n : Deepened(o[i]) = IF i = n THEN loops ELSE o[i + 1].loops
    BY DEF Agree, DepthsLinked
  <2>2. ASSUME NEW i \in 1 .. n + 1
        PROVE  Deepened(p[i]) = IF i = n + 1 THEN Deepened(c) ELSE p[i + 1].loops
    <3>1. CASE i = n + 1
      BY <1>1, <3>1
    <3>2. CASE i = n /\ i \in 1 .. n
      BY <1>1, <2>1, <3>2
    <3>3. CASE i \in 1 .. n /\ i + 1 \in 1 .. n
      BY <1>1, <2>1, <3>3
    <3> QED
      BY <1>1, <3>1, <3>2, <3>3
  <2> QED
    BY <1>1, <2>2 DEF DepthsLinked
<1>7. BlocksCounted(p, BlocksInside(c, blocks))
  BY <1>0, BlocksPush DEF Agree, p
<1> QED
  BY <1>3, <1>4, <1>5, <1>6, <1>7 DEF Agree, p

-----------------------------------------------------------------------------
(* Leaving a construct.                                                    *)

\* The contexts that the innermost construct has saved agree with the
\* constructs outside of it, and the current ones are what it made of them.
LEMMA Unwind ==
    ASSUME NEW o, NEW stop, NEW loops, NEW blocks, Agree(o, stop, loops, blocks), o # <<>>
    PROVE  LET c == o[Len(o)]
               outside == IF c.kind \in CountedBlocks THEN blocks - 1 ELSE blocks
           IN /\ c \in ConstructType
              /\ Agree(SubSeq(o, 1, Len(o) - 1), c.stop, c.loops, outside)
              /\ stop = StopInside(c) /\ loops = Deepened(c)
              /\ blocks = BlocksInside(c, outside)
<1> DEFINE n == Len(o)
           c == o[n]
           p == SubSeq(o, 1, n - 1)
           outside == IF c.kind \in CountedBlocks THEN blocks - 1 ELSE blocks
<1>0. /\ o \in Seq(ConstructType) /\ stop \in BOOLEAN /\ loops \in Nat /\ blocks \in Nat
      /\ n \in Nat \ {0}
  BY EmptySeq DEF Agree, ContextsTyped
<1>1. c \in ConstructType
  BY <1>0
<1>2. p \in Seq(ConstructType) /\ Len(p) = n - 1 /\ \A i \in 1 .. n - 1 : p[i] = o[i]
  <2> HIDE DEF n, c, outside
  <2>1. \A i \in 1 .. n - 1 : o[i] \in ConstructType
    BY <1>0 DEF n
  <2>2. n - 1 \in Int /\ 1 \in Int /\ ~(1 <= n - 1) => n - 1 = 0
    BY <1>0
  <2>3. /\ p \in Seq(ConstructType)
        /\ Len(p) = IF 1 <= n - 1 THEN (n - 1) - 1 + 1 ELSE 0
        /\ \A i \in 1 .. ((n - 1) - 1 + 1) : p[i] = o[1 + i - 1]
    BY <1>0, <2>1, <2>2, SubSeqProperties
  <2>4. \A i \in 1 .. n - 1 : i \in 1 .. ((n - 1) - 1 + 1) /\ 1 + i - 1 = i
    BY <1>0
  <2> HIDE DEF p
  <2> QED
    BY <1>0, <2>2, <2>3, <2>4
<1>3. o = Append(p, c)
  BY <1>0, <1>2
<1> HIDE DEF p, c, n
<1>4. /\ \A i \in 0 .. n - 1 : Forbidden(o, i) <=> Forbidden(p, i)
      /\ stop = StopInside(c)
  <2>1. /\ \A i \in 0 .. n - 1 : Forbidden(o, i) <=> Forbidden(p, i)
        /\ c.kind \in Heads => Forbidden(o, n)
        /\ c.kind \in Deciding \ Heads => ~Forbidden(o, n)
        /\ c.kind \notin Deciding => (Forbidden(o, n) <=> Forbidden(p, n - 1))
    <3>1. (n - 1) + 1 = n
      BY <1>0
    <3> QED
      BY <1>1, <1>2, <1>3, <3>1, ForbiddenPush
  <2>2. c.stop <=> Forbidden(p, n - 1)
    <3>1. n \in 1 .. n /\ n - 1 \in 0 .. n - 1
      BY <1>0
    <3> QED
      BY <2>1, <3>1 DEF Agree, BracesKnown, c, n
  <2>3. stop <=> Forbidden(o, n)
    BY DEF Agree, BracesKnown, n
  <2> QED
    BY <1>0, <1>1, <2>1, <2>2, <2>3 DEF StopInside, ConstructType
<1>5. BracesKnown(p, c.stop)
  <2>1. \A i \in 1 .. n : o[i].stop <=> Forbidden(p, i - 1)
    <3>1. \A i \in 1 .. n : i - 1 \in 0 .. n - 1
      BY <1>0
    <3> QED
      BY <1>4, <3>1 DEF Agree, BracesKnown, n
  <2>2. c.stop <=> Forbidden(p, n - 1)
    BY <1>0, <2>1 DEF c
  <2>3. \A i \in 1 .. n - 1 : p[i].stop <=> Forbidden(p, i - 1)
    BY <1>0, <1>2, <2>1, SMTT(30)
  <2> QED
    BY <1>2, <2>2, <2>3 DEF BracesKnown
<1>6. LoopsKnown(p, c.loops)
  <2>1. \A i \in 0 .. n - 1 : LoopAround(o, i) <=> LoopAround(p, i)
    BY <1>1, <1>2, <1>3, LoopAroundPush
  <2>2. \A i \in 1 .. n : o[i].loops = 0 <=> ~LoopAround(p, i - 1)
    <3>1. \A i \in 1 .. n : i - 1 \in 0 .. n - 1
      BY <1>0
    <3> QED
      BY <2>1, <3>1 DEF Agree, LoopsKnown, n
  <2>3. c.loops = 0 <=> ~LoopAround(p, n - 1)
    BY <1>0, <2>2 DEF c
  <2>4. \A i \in 1 .. n - 1 : p[i].loops = 0 <=> ~LoopAround(p, i - 1)
    BY <1>0, <1>2, <2>2
  <2> QED
    BY <1>2, <2>3, <2>4 DEF LoopsKnown
<1>7. DepthsLinked(p, c.loops) /\ loops = Deepened(c)
  <2>1. \A i \in 1 .. n : Deepened(o[i]) = IF i = n THEN loops ELSE o[i + 1].loops
    BY DEF Agree, DepthsLinked, n
  <2>2. loops = Deepened(c)
    BY <1>0, <2>1 DEF c
  <2>3. ASSUME NEW i \in 1 .. n - 1
        PROVE  Deepened(p[i]) = IF i = n - 1 THEN c.loops ELSE p[i + 1].loops
    <3>1. i \in 1 .. n /\ i # n /\ p[i] = o[i]
      BY <1>0, <1>2
    <3>2. CASE i = n - 1
      <4>1. i + 1 = n
        BY <1>0, <3>2
      <4> QED
        BY <2>1, <3>1, <3>2, <4>1 DEF c
    <3>3. CASE i # n - 1
      <4>1. i + 1 \in 1 .. n - 1
        BY <1>0, <3>3
      <4> QED
        BY <1>2, <2>1, <3>1, <3>3, <4>1
    <3> QED
      BY <3>2, <3>3
  <2> QED
    BY <1>2, <2>2, <2>3 DEF DepthsLinked
<1>8. BlocksCounted(p, outside) /\ outside \in Nat
  <2>1. BlockPositions(p) = BlockPositions(o) \ {n}
    BY <1>0, <1>2 DEF BlockPositions, n
  <2>2. n \in BlockPositions(o) <=> c.kind \in CountedBlocks
    BY <1>0 DEF BlockPositions, c, n
  <2>3. IsFiniteSet(BlockPositions(o)) /\ blocks = Cardinality(BlockPositions(o))
    BY DEF Agree, BlocksCounted
  <2>4. /\ IsFiniteSet(BlockPositions(p))
        /\ Cardinality(BlockPositions(p)) = outside
    BY <2>1, <2>2, <2>3, FS_RemoveElement
  <2> QED
    BY <2>4, FS_CardinalityType DEF BlocksCounted
<1>9. blocks = BlocksInside(c, outside)
  BY <1>0 DEF BlocksInside
<1>10. ContextsTyped(p, c.stop, c.loops, outside)
  BY <1>1, <1>2, <1>8 DEF ContextsTyped, ConstructType
<1> QED
  BY <1>1, <1>4, <1>5, <1>6, <1>7, <1>8, <1>9, <1>10 DEF Agree, p, c, n

-----------------------------------------------------------------------------
(* The steps of the parser.                                                *)

LEMMA ConstructBegins ==
    ASSUME ContextInv, NEW kind \in Kinds, Push(Construct(kind)),
           stopAtBlockBrace' = StopInside(Construct(kind)),
           loopDepth' = Deepened(Construct(kind)),
           blockDepth' = BlocksInside(Construct(kind), blockDepth)
    PROVE  ContextInv'
<1> DEFINE c == Construct(kind)
<1>1. c \in ConstructType /\ c.stop = stopAtBlockBrace /\ c.loops = loopDepth
  BY DEF ContextInv, Agree, ContextsTyped, Construct, ConstructType
<1>2. Agree(Append(open, c), StopInside(c), Deepened(c), BlocksInside(c, blockDepth))
  <2> HIDE DEF c
  <2> QED
    BY <1>1, Begin DEF ContextInv
<1> QED
  BY <1>2 DEF Push, ContextInv

\* The innermost construct has saved contexts that agree with those outside of
\* it, and the current contexts are what it made of them.
LEMMA InnermostSaved ==
    ASSUME ContextInv, open # <<>>
    PROVE  /\ Innermost \in ConstructType
           /\ blockDepth \in Nat
           /\ Agree(Outer, Innermost.stop, Innermost.loops,
                    IF Innermost.kind \in CountedBlocks THEN blockDepth - 1 ELSE blockDepth)
           /\ stopAtBlockBrace = StopInside(Innermost)
           /\ loopDepth = Deepened(Innermost)
<1>1. blockDepth \in Nat
  BY DEF ContextInv, Agree, ContextsTyped
<1> QED
  BY <1>1, Unwind DEF ContextInv, Innermost, Outer

\* The innermost construct goes on as another kind, with what it had saved.
LEMMA ConstructBecomes ==
    ASSUME ContextInv, open # <<>>, NEW kind \in Kinds
    PROVE  LET c == [Innermost EXCEPT !.kind = kind]
               outside == IF Innermost.kind \in CountedBlocks THEN blockDepth - 1 ELSE blockDepth
           IN /\ c \in ConstructType /\ c.kind = kind
              /\ c.stop = Innermost.stop /\ c.loops = Innermost.loops
              /\ Agree(Append(Outer, c), StopInside(c), Deepened(c), BlocksInside(c, outside))
<1> DEFINE c == [Innermost EXCEPT !.kind = kind]
           outside == IF Innermost.kind \in CountedBlocks THEN blockDepth - 1 ELSE blockDepth
<1>1. Innermost \in ConstructType /\ Agree(Outer, Innermost.stop, Innermost.loops, outside)
  BY InnermostSaved
<1>2. /\ c \in ConstructType /\ c.kind = kind
      /\ c.stop = Innermost.stop /\ c.loops = Innermost.loops
  BY <1>1 DEF ConstructType
<1>3. Agree(Append(Outer, c), StopInside(c), Deepened(c), BlocksInside(c, outside))
  <2> HIDE DEF c, outside
  <2> QED
    BY <1>1, <1>2, Begin
<1> QED
  BY <1>2, <1>3

\* It does so in a step that makes of the saved contexts what its new kind asks.
LEMMA ConstructGoesOn ==
    ASSUME ContextInv, open # <<>>, NEW kind \in Kinds, Become(kind),
           stopAtBlockBrace' = IF kind \in Heads THEN TRUE
                               ELSE IF kind \in Deciding THEN FALSE ELSE Innermost.stop,
           loopDepth' = IF kind = "loop_body" THEN Innermost.loops + 1
                        ELSE IF kind = "function_body" THEN 0 ELSE Innermost.loops,
           blockDepth' = LET outside == IF Innermost.kind \in CountedBlocks THEN blockDepth - 1 ELSE blockDepth
                         IN  IF kind \in CountedBlocks THEN outside + 1 ELSE outside
    PROVE  ContextInv'
<1> DEFINE c == [Innermost EXCEPT !.kind = kind]
           outside == IF Innermost.kind \in CountedBlocks THEN blockDepth - 1 ELSE blockDepth
<1>1. /\ c.kind = kind /\ c.stop = Innermost.stop /\ c.loops = Innermost.loops
      /\ Agree(Append(Outer, c), StopInside(c), Deepened(c), BlocksInside(c, outside))
  BY ConstructBecomes
<1>2. open' = Append(Outer, c)
  BY DEF Become
<1> HIDE DEF c
<1>3. stopAtBlockBrace' = StopInside(c) /\ loopDepth' = Deepened(c)
  BY <1>1 DEF StopInside, Deepened
<1>4. blockDepth' = BlocksInside(c, outside)
  BY <1>1 DEF BlocksInside
<1> QED
  BY <1>1, <1>2, <1>3, <1>4 DEF ContextInv

\* A parser at the start of a file is inside of nothing.
LEMMA InitContexts == ParserIdle => ContextInv
<1> SUFFICES ASSUME ParserIdle PROVE ContextInv
  OBVIOUS
<1>1. /\ open = <<>> /\ Len(open) = 0
      /\ stopAtBlockBrace = FALSE /\ loopDepth = 0 /\ blockDepth = 0
  BY DEF ParserIdle
<1>2. ContextsTyped(open, stopAtBlockBrace, loopDepth, blockDepth)
  <2>1. open \in Seq(ConstructType)
    BY <1>1, EmptySeq
  <2> QED
    BY <1>1, <2>1 DEF ContextsTyped
<1>3. BracesKnown(open, stopAtBlockBrace)
  BY <1>1 DEF BracesKnown, Forbidden
<1>4. LoopsKnown(open, loopDepth)
  BY <1>1 DEF LoopsKnown, LoopAround
<1>5. DepthsLinked(open, loopDepth)
  BY <1>1 DEF DepthsLinked
<1>6. BlocksCounted(open, blockDepth)
  <2>1. BlockPositions(open) = {}
    BY <1>1 DEF BlockPositions
  <2> QED
    BY <1>1, <2>1, FS_EmptySet DEF BlocksCounted
<1> QED
  BY <1>2, <1>3, <1>4, <1>5, <1>6 DEF ContextInv, Agree

LEMMA ElseIfKeeps == ContextInv /\ ParseElseIf => ContextInv'
<1> SUFFICES ASSUME ContextInv, ParseElseIf PROVE ContextInv'
  OBVIOUS
<1> USE DEF Deciding, Heads, CountedBlocks, StatementLists, Kinds
<1> DEFINE alternative == [Innermost EXCEPT !.kind = "alternative"]
           condition == Construct("if_condition")
           within == Append(Outer, alternative)
<1>1. /\ open # <<>> /\ Innermost.kind = "else"
      /\ open' = within \o <<condition>> /\ stopAtBlockBrace' = TRUE
      /\ UNCHANGED <<loopDepth, blockDepth>>
  BY DEF ParseElseIf, Inside, Innermost
<1>2. /\ alternative.kind = "alternative" /\ alternative.loops = Innermost.loops
      /\ Agree(within, StopInside(alternative), Deepened(alternative),
               BlocksInside(alternative, blockDepth))
  BY <1>1, ConstructBecomes
<1>3. /\ stopAtBlockBrace = StopInside(alternative)
      /\ loopDepth = Deepened(alternative)
      /\ blockDepth = BlocksInside(alternative, blockDepth)
  <2>1. stopAtBlockBrace = StopInside(Innermost) /\ loopDepth = Deepened(Innermost)
    BY <1>1, InnermostSaved
  <2> HIDE DEF alternative
  <2> QED
    BY <1>1, <1>2, <2>1 DEF StopInside, Deepened, BlocksInside
<1>4. Agree(within, stopAtBlockBrace, loopDepth, blockDepth)
  BY <1>2, <1>3
<1> HIDE DEF within
<1>5. /\ condition \in ConstructType /\ condition.kind = "if_condition"
      /\ condition.stop = stopAtBlockBrace /\ condition.loops = loopDepth
  BY <1>4 DEF Agree, ContextsTyped, Construct, ConstructType
<1> HIDE DEF condition
<1>6. Agree(Append(within, condition), TRUE, loopDepth, blockDepth)
  <2>1. /\ StopInside(condition) = TRUE /\ Deepened(condition) = loopDepth
        /\ BlocksInside(condition, blockDepth) = blockDepth
    BY <1>5 DEF StopInside, Deepened, BlocksInside
  <2> QED
    BY <1>4, <1>5, <2>1, Begin
<1>7. open' = Append(within, condition)
  BY <1>1, <1>4 DEF Agree, ContextsTyped
<1> QED
  BY <1>1, <1>6, <1>7 DEF ContextInv

LEMMA LeaveKeeps == ContextInv /\ LeaveConstruct => ContextInv'
<1> SUFFICES ASSUME ContextInv, LeaveConstruct PROVE ContextInv'
  OBVIOUS
<1> USE DEF Deciding, Heads, CountedBlocks, StatementLists, Kinds
<1> DEFINE outside == IF Innermost.kind \in CountedBlocks THEN blockDepth - 1 ELSE blockDepth
<1>1. open # <<>> /\ open' = Outer /\ blockDepth' = outside
  BY DEF LeaveConstruct
<1>2. /\ Innermost \in ConstructType
      /\ Agree(Outer, Innermost.stop, Innermost.loops, outside)
      /\ stopAtBlockBrace = StopInside(Innermost) /\ loopDepth = Deepened(Innermost)
  BY <1>1, InnermostSaved
<1> HIDE DEF outside
<1>3. stopAtBlockBrace' = Innermost.stop
  <2>1. stopAtBlockBrace' = IF Innermost.kind \in Restores THEN Innermost.stop ELSE stopAtBlockBrace
    BY DEF LeaveConstruct
  <2>2. Innermost.kind \notin Restores => Innermost.kind \notin Deciding
    BY DEF Restores
  <2> QED
    BY <1>2, <2>1, <2>2 DEF StopInside
<1>4. loopDepth' = Innermost.loops
  <2>1. Innermost.loops \in Nat
    BY <1>2 DEF ConstructType
  <2>2. CASE Innermost.kind = "loop_body"
    <3>1. loopDepth' = loopDepth - 1
      BY <2>2 DEF LeaveConstruct
    <3> QED
      BY <1>2, <2>1, <2>2, <3>1 DEF Deepened
  <2>3. CASE Innermost.kind = "function_body"
    BY <2>3 DEF LeaveConstruct
  <2>4. CASE Innermost.kind \notin {"loop_body", "function_body"}
    <3>1. loopDepth' = loopDepth
      BY <2>4 DEF LeaveConstruct
    <3> QED
      BY <1>2, <2>4, <3>1 DEF Deepened
  <2> QED
    BY <2>2, <2>3, <2>4
<1> QED
  BY <1>1, <1>2, <1>3, <1>4 DEF ContextInv

\* Every step of the parser keeps the contexts in agreement with the constructs.
LEMMA NextContexts == ContextInv /\ [ParserNext]_parserVars => ContextInv'
<1> SUFFICES ASSUME ContextInv, [ParserNext]_parserVars PROVE ContextInv'
  OBVIOUS
<1> USE DEF Deciding, Heads, CountedBlocks, StatementLists, Kinds
<1>0. open # <<>> => /\ Innermost \in ConstructType /\ blockDepth \in Nat
                     /\ stopAtBlockBrace = StopInside(Innermost)
                     /\ loopDepth = Deepened(Innermost)
  BY InnermostSaved
<1>1. ASSUME NEW kind \in Heads, ParseHead(kind) PROVE ContextInv'
  BY <1>1, ConstructBegins DEF ParseHead, Construct, StopInside, Deepened, BlocksInside
<1>2. ASSUME NEW kind \in {"nested", "struct_literal"}, ParseNestedExpression(kind)
      PROVE  ContextInv'
  BY <1>2, ConstructBegins DEF ParseNestedExpression, Construct, StopInside, Deepened, BlocksInside
<1>3. CASE ParseMapLiteral
  BY <1>3, ConstructBegins DEF ParseMapLiteral, Construct, contexts, StopInside, Deepened, BlocksInside
<1>4. CASE ParseFunctionLiteral
  BY <1>4, ConstructBegins DEF ParseFunctionLiteral, Construct, StopInside, Deepened, BlocksInside
<1>5. CASE ParseTryBlock
  BY <1>5, ConstructBegins DEF ParseTryBlock, Construct, StopInside, Deepened, BlocksInside
<1>6. CASE ParseIfBody
  <2>1. /\ open # <<>> /\ Innermost.kind \in {"if_condition", "else"} /\ Become("if_body")
        /\ stopAtBlockBrace' = FALSE /\ blockDepth' = blockDepth + 1 /\ loopDepth' = loopDepth
    BY <1>6 DEF ParseIfBody, Inside, Innermost
  <2>2. loopDepth = Innermost.loops
    BY <1>0, <2>1 DEF Deepened
  <2> QED
    BY <2>1, <2>2, ConstructGoesOn
<1>7. CASE ParseElse
  <2>1. /\ open # <<>> /\ Innermost.kind = "if_body" /\ Become("else")
        /\ stopAtBlockBrace' = stopAtBlockBrace
        /\ blockDepth' = blockDepth - 1 /\ loopDepth' = loopDepth
    BY <1>7 DEF ParseElse, Inside, Innermost
  <2>2. loopDepth = Innermost.loops /\ stopAtBlockBrace = FALSE
    BY <1>0, <2>1 DEF Deepened, StopInside
  <2> QED
    BY <2>1, <2>2, ConstructGoesOn
<1>8. CASE ParseElseIf
  BY <1>8, ElseIfKeeps
<1>9. CASE ParseLoopBody
  <2>1. /\ open # <<>> /\ Innermost.kind = "loop_head" /\ Become("loop_body")
        /\ stopAtBlockBrace' = Innermost.stop
        /\ blockDepth' = blockDepth + 1 /\ loopDepth' = loopDepth + 1
    BY <1>9 DEF ParseLoopBody, Inside, Innermost
  <2>2. loopDepth = Innermost.loops
    BY <1>0, <2>1 DEF Deepened
  <2> QED
    BY <2>1, <2>2, ConstructGoesOn
<1>10. CASE ParseSwitchBody
  <2>1. /\ open # <<>> /\ Innermost.kind = "switch_value" /\ Become("switch")
        /\ stopAtBlockBrace' = FALSE /\ blockDepth' = blockDepth /\ loopDepth' = loopDepth
    BY <1>10 DEF ParseSwitchBody, Inside, Innermost
  <2>2. loopDepth = Innermost.loops
    BY <1>0, <2>1 DEF Deepened
  <2> QED
    BY <2>1, <2>2, ConstructGoesOn
<1>11. CASE ParseClause
  BY <1>11, ConstructBegins DEF ParseClause, Construct, contexts, StopInside, Deepened, BlocksInside
<1>12. CASE ParseSwitchClauseBody
  <2>1. /\ open # <<>> /\ Innermost.kind = "case_value" /\ Become("clause")
        /\ stopAtBlockBrace' = stopAtBlockBrace /\ blockDepth' = blockDepth /\ loopDepth' = loopDepth
    BY <1>12 DEF ParseSwitchClauseBody, Inside, Innermost, contexts
  <2>2. loopDepth = Innermost.loops /\ stopAtBlockBrace = Innermost.stop
    BY <1>0, <2>1 DEF Deepened, StopInside
  <2> QED
    BY <2>1, <2>2, ConstructGoesOn
<1>13. CASE LeaveConstruct
  BY <1>13, LeaveKeeps
<1>14. CASE UNCHANGED <<open, contexts>>
  BY <1>14 DEF ContextInv, contexts
<1> QED
  BY <1>1, <1>2, <1>3, <1>4, <1>5, <1>6, <1>7, <1>8, <1>9, <1>10, <1>11, <1>12, <1>13, <1>14
     DEF ParserNext, parserVars, ParseBreakOrContinue, ParseExportStatement

\* The contexts agree with the constructs in every state.
THEOREM ContextsAgree == ParserSpec => []ContextInv
<1>1. ParserIdle => ContextInv
  BY InitContexts
<1>2. ContextInv /\ [ParserNext]_parserVars => ContextInv'
  BY NextContexts
<1> QED
  BY <1>1, <1>2, PTL DEF ParserSpec

-----------------------------------------------------------------------------
(* What the invariant says of single tokens.                               *)

\* A set of positions of a sequence has a latest one.
LEMMA LatestExists ==
  ASSUME NEW n \in Nat, NEW P \in SUBSET (1 .. n), P # {}
  PROVE  \E i \in P : \A j \in P : j <= i
<1> DEFINE After(i) == {j \in P : j > i}
           F == {After(i) : i \in P}
<1>1. IsFiniteSet(P)
  <2>1. IsFiniteSet(1 .. n)
    BY FS_Interval, 1 \in Int, n \in Int, Zenon
  <2> QED
    BY <2>1, FS_Subset, Zenon
<1>2. F \subseteq FiniteSubsetsOf(P) /\ F # {}
  <2>1. \A i \in P : After(i) \in SUBSET P
    OBVIOUS
  <2>2. \A i \in P : IsFiniteSet(After(i))
    BY <1>1, <2>1, FS_Subset, Zenon
  <2> QED
    BY <2>1, <2>2 DEF FiniteSubsetsOf
<1>3. PICK U \in F : \A V \in F : <<V, U>> \notin StrictSubsetOrdering(P)
  <2> HIDE DEF F
  <2> QED
    BY <1>2, FS_StrictSubsetOrderingWellFounded, WFMin
<1>4. PICK i \in P : U = After(i)
  BY <1>3
<1>5. \A j \in P : j \in Nat
  OBVIOUS
<1>6. ASSUME NEW j \in P, j > i PROVE FALSE
  <2>1. \A k \in P : k > j => k > i
    BY <1>5, <1>6
  <2>2. ~(j > j)
    BY <1>5
  <2>3. After(j) \subseteq After(i) /\ After(j) # After(i)
    BY <1>6, <2>1, <2>2, Zenon
  <2>4. After(j) \in SUBSET P /\ After(i) \in SUBSET P
    BY Zenon
  <2>5. <<After(j), After(i)>> \in StrictSubsetOrdering(P)
    <3> HIDE DEF After
    <3> QED
      BY <2>3, <2>4 DEF StrictSubsetOrdering
  <2> QED
    BY <2>5, <1>3, <1>4, Zenon
<1>7. \A j \in P : j <= i
  BY <1>5, <1>6
<1> QED
  BY <1>7


\* The constructs forbid a struct literal exactly when the latest one that
\* decides is a head.
LEMMA LatestDecides ==
    ASSUME ContextInv
    PROVE  BracesFindTheirContext
<1> DEFINE P == Positions(Deciding)
<1>1. Len(open) \in Nat /\ DOMAIN open = 1 .. Len(open) /\ P \in SUBSET (1 .. Len(open))
  BY DEF ContextInv, Agree, ContextsTyped, Positions
<1>2. stopAtBlockBrace <=> Forbidden(open, Len(open))
  BY DEF ContextInv, Agree, BracesKnown
<1>3. ASSUME P # {}
      PROVE  Latest(P) \in P /\ \A j \in P : j <= Latest(P)
  BY <1>1, <1>3, LatestExists DEF Latest
<1>4. Forbidden(open, Len(open)) <=> P # {} /\ open[Latest(P)].kind \in Heads
  <2>1. ASSUME Forbidden(open, Len(open)) PROVE P # {} /\ open[Latest(P)].kind \in Heads
    <3>1. PICK j \in 1 .. Len(open) : /\ open[j].kind \in Heads
                                      /\ \A k \in j + 1 .. Len(open) : open[k].kind \notin Deciding
      BY <2>1 DEF Forbidden
    <3>2. j \in P
      BY <1>1, <3>1 DEF Positions, Deciding
    <3>3. Latest(P) \in P /\ j <= Latest(P)
      BY <1>3, <3>2
    <3>4. Latest(P) \in 1 .. Len(open) /\ open[Latest(P)].kind \in Deciding
      BY <1>1, <3>3 DEF Positions
    <3>5. Latest(P) = j
      BY <1>1, <3>1, <3>3, <3>4
    <3> QED
      BY <3>1, <3>2, <3>5
  <2>2. ASSUME P # {}, open[Latest(P)].kind \in Heads PROVE Forbidden(open, Len(open))
    <3>1. Latest(P) \in 1 .. Len(open) /\ \A j \in P : j <= Latest(P)
      BY <1>1, <1>3, <2>2
    <3> DEFINE l == Latest(P)
    <3> HIDE DEF l
    <3>2. ASSUME NEW k \in l + 1 .. Len(open) PROVE open[k].kind \notin Deciding
      <4>1. k \in DOMAIN open /\ ~(k <= l)
        BY <1>1, <3>1 DEF l
      <4>2. k \notin P
        BY <4>1, <3>1 DEF l
      <4> QED
        BY <4>1, <4>2 DEF Positions
    <3> QED
      BY <2>2, <3>1, <3>2 DEF Forbidden, l
  <2> QED
    BY <2>1, <2>2
<1>5. P = Positions(Heads \cup {"nested", "struct_literal", "if_body", "else", "alternative", "switch"})
  BY DEF Deciding
<1> QED
  BY <1>2, <1>4, <1>5 DEF BracesFindTheirContext

\* A brace after an operand opens a body exactly while a head is being parsed
\* that nothing inside of it has lifted: stopAtBlockBrace, saved and restored
\* by every head and delimiter, never outlives or misses its construct.
THEOREM BracesCorrect == ParserSpec => []BracesFindTheirContext
<1>1. ContextInv => BracesFindTheirContext
  BY LatestDecides
<1> QED
  BY <1>1, ContextsAgree, PTL

\* A loop body inside of the latest function body surrounds the statement.
LEMMA LoopsSurround ==
    ASSUME ContextInv
    PROVE  loopDepth = 0 <=> ~InLoop
<1> DEFINE F == Positions({"function_body"})
           L == Positions({"loop_body"})
<1>1. Len(open) \in Nat /\ DOMAIN open = 1 .. Len(open) /\ F \in SUBSET (1 .. Len(open))
  BY DEF ContextInv, Agree, ContextsTyped, Positions
<1>2. loopDepth = 0 <=> ~LoopAround(open, Len(open))
  BY DEF ContextInv, Agree, LoopsKnown
<1>3. ASSUME F # {}
      PROVE  Latest(F) \in F /\ \A j \in F : j <= Latest(F)
  BY <1>1, <1>3, LatestExists DEF Latest
<1>4. ASSUME LoopAround(open, Len(open)) PROVE InLoop
  <2>1. PICK j \in 1 .. Len(open) : /\ open[j].kind = "loop_body"
                                    /\ \A k \in j + 1 .. Len(open) : open[k].kind # "function_body"
    BY <1>4 DEF LoopAround
  <2>2. j \in L
    BY <1>1, <2>1 DEF Positions
  <2>3. j \in AfterLast({"function_body"})
    <3>1. CASE F = {}
      BY <1>1, <3>1 DEF AfterLast
    <3>2. CASE F # {}
      <4>1. Latest(F) \in 1 .. Len(open) /\ open[Latest(F)].kind = "function_body"
        BY <1>1, <1>3, <3>2 DEF Positions
      <4>2. Latest(F) \notin j + 1 .. Len(open) /\ Latest(F) # j
        BY <2>1, <4>1
      <4>3. j > Latest(F)
        <5> HIDE DEF F
        <5> QED
          BY <1>1, <4>1, <4>2
      <4> QED
        BY <1>1, <3>2, <4>3 DEF AfterLast
    <3> QED
      BY <3>1, <3>2
  <2> QED
    BY <2>2, <2>3 DEF InLoop
<1>5. ASSUME InLoop PROVE LoopAround(open, Len(open))
  <2>1. PICK j \in L : j \in AfterLast({"function_body"})
    BY <1>5 DEF InLoop
  <2>2. j \in 1 .. Len(open) /\ open[j].kind = "loop_body"
    BY <1>1 DEF Positions
  <2>3. ASSUME NEW k \in j + 1 .. Len(open) PROVE open[k].kind # "function_body"
    <3>1. k \in 1 .. Len(open) /\ k > j
      BY <1>1, <2>2
    <3>2. SUFFICES ASSUME k \in F PROVE FALSE
      BY <1>1, <3>1 DEF Positions
    <3>3. j > Latest(F) /\ k <= Latest(F) /\ Latest(F) \in 1 .. Len(open)
      BY <1>1, <1>3, <2>1, <3>2 DEF AfterLast
    <3> HIDE DEF F
    <3> QED
      BY <1>1, <2>2, <3>1, <3>3
  <2> QED
    BY <2>2, <2>3 DEF LoopAround
<1> QED
  BY <1>2, <1>4, <1>5

\* blockDepth is zero exactly outside of every block it counts.
LEMMA BlocksSurround ==
    ASSUME ContextInv
    PROVE  blockDepth # 0 <=> Positions(CountedBlocks) # {}
<1>1. Positions(CountedBlocks) = BlockPositions(open)
  BY DEF ContextInv, Agree, ContextsTyped, Positions, BlockPositions
<1>2. /\ IsFiniteSet(BlockPositions(open))
      /\ blockDepth = Cardinality(BlockPositions(open))
  BY DEF ContextInv, Agree, BlocksCounted
<1> QED
  BY <1>1, <1>2, FS_EmptySet

\* Break and continue are accepted exactly inside the body of a loop of the
\* same function; an export is refused in every counted block, and only where
\* statements are nested; whatever constructs were parsed, or left unfinished,
\* before them.
THEOREM StatementsCorrect == ParserSpec => StatementsFindTheirContext
<1> DEFINE Decides ==
        /\ ParseBreakOrContinue => (rejected' = {} <=> InLoop)
        /\ ParseExportStatement =>
               /\ Positions(CountedBlocks) # {} => "nested export" \in rejected'
               /\ "nested export" \in rejected' => Positions(StatementLists) # {}
<1>1. ASSUME ContextInv PROVE Decides
  <2>1. ParseBreakOrContinue => (rejected' = {} <=> InLoop)
    BY <1>1, LoopsSurround DEF ParseBreakOrContinue
  <2>2. ParseExportStatement => ("nested export" \in rejected' <=> Positions(CountedBlocks) # {})
    BY <1>1, BlocksSurround DEF ParseExportStatement
  <2>3. Positions(CountedBlocks) \subseteq Positions(StatementLists)
    BY DEF Positions, StatementLists
  <2> QED
    BY <2>1, <2>2, <2>3
<1>2. ContextInv => [Decides]_parserVars
  BY <1>1
<1> HIDE DEF Decides
<1>3. ParserSpec => [][Decides]_parserVars
  BY <1>2, ContextsAgree, PTL
<1> QED
  BY <1>3 DEF StatementsFindTheirContext, Decides

-----------------------------------------------------------------------------
(* DefaultMaps.                                                            *)

Pairs == [Keys -> Values \cup {None}]
Answers == {NoValue, Failed("TypeError"), Failed("FactoryError")}
             \cup {Given(value) : value \in Values}

(* Dropping the innermost waiting read.                                    *)
LEMMA FrontOfReads ==
  ASSUME NEW s \in Seq(Keys), s # <<>>
  PROVE  /\ Front(s) \in Seq(Keys)
         /\ Len(Front(s)) = Len(s) - 1
         /\ \A i \in 1 .. Len(s) - 1 : Front(s)[i] = s[i]
         /\ Len(s) \in DOMAIN s /\ Last(s) = s[Len(s)] /\ Last(s) \in Keys
<1>1. Len(s) \in Nat \ {0} /\ \A i \in 1 .. Len(s) : s[i] \in Keys
  BY EmptySeq, ElementOfSeq
<1>2. \A i \in 1 .. Len(s) - 1 : s[i] \in Keys
  BY <1>1
<1>3. /\ SubSeq(s, 1, Len(s) - 1) \in Seq(Keys)
      /\ Len(SubSeq(s, 1, Len(s) - 1)) =
           IF 1 <= Len(s) - 1 THEN (Len(s) - 1) - 1 + 1 ELSE 0
      /\ \A i \in 1 .. ((Len(s) - 1) - 1 + 1) :
           SubSeq(s, 1, Len(s) - 1)[i] = s[1 + i - 1]
  BY <1>1, <1>2, SubSeqProperties
<1>4. Len(SubSeq(s, 1, Len(s) - 1)) = Len(s) - 1
  <2>1. \A n \in Nat \ {0} : (IF 1 <= n - 1 THEN (n - 1) - 1 + 1 ELSE 0) = n - 1
    OBVIOUS
  <2>2. QED
    BY <1>1, <1>3, <2>1
<1>5. ASSUME NEW i \in 1 .. Len(s) - 1
      PROVE  SubSeq(s, 1, Len(s) - 1)[i] = s[i]
  <2>1. i \in 1 .. ((Len(s) - 1) - 1 + 1) /\ 1 + i - 1 = i
    BY <1>1
  <2>2. QED
    BY <2>1, <1>3
<1>6. QED
  BY <1>1, <1>3, <1>4, <1>5 DEF Front, Last

(* Appending a waiting read.                                               *)
LEMMA AppendToReads ==
  ASSUME NEW s \in Seq(Keys), NEW k \in Keys
  PROVE  /\ Append(s, k) \in Seq(Keys) /\ Len(Append(s, k)) = Len(s) + 1
         /\ \A i \in DOMAIN Append(s, k) :
              Append(s, k)[i] = IF i = Len(s) + 1 THEN k ELSE s[i]
         /\ \A i \in DOMAIN Append(s, k) : i # Len(s) + 1 => i \in DOMAIN s
<1>1. /\ Append(s, k) \in Seq(Keys) /\ Len(Append(s, k)) = Len(s) + 1
      /\ \A i \in 1 .. Len(s) : Append(s, k)[i] = s[i]
      /\ Append(s, k)[Len(s) + 1] = k
  BY AppendProperties
<1>2. DOMAIN Append(s, k) = 1 .. Len(s) + 1 /\ DOMAIN s = 1 .. Len(s) /\ Len(s) \in Nat
  BY <1>1, LenProperties
<1>3. QED
  BY <1>1, <1>2

-----------------------------------------------------------------------------
(* Types.                                                                  *)

(* What get_item ends with under its return contract is an outcome.         *)
LEMMA ReturnedType == \A value \in Values : Returned(value) \in Answers
BY DEF Returned, Answers

(* newDefaultMap makes well-typed fields.                                  *)
LEMMA InitTypes == MapsInit => MapsTyped
<1>1. ASSUME MapsInit PROVE MapsTyped
  <2>1. Empty \in Pairs
    BY DEF Empty, Pairs
  <2>2. <<Empty>> \in Seq(Pairs) /\ Len(<<Empty>>) = 1 /\ <<>> \in Seq(Keys) /\ Len(<<>>) = 0
    BY <2>1, EmptySeq
  <2>3. 1 \in DOMAIN <<Empty>>
    OBVIOUS
  <2>4. QED
    BY <1>1, <2>1, <2>2, <2>3, DefaultMapsAssumption
       DEF MapsInit, MapsTyped, Captured, Pairs, DefaultMapsAssumption
<1>2. QED
  BY <1>1

(* Storing one value keeps the type of the maps.                           *)
LEMMA StoreType ==
  ASSUME MapsTyped, NEW m \in DOMAIN maps, NEW k \in Keys, NEW value \in Values
  PROVE  /\ [maps EXCEPT ![m][k] = value] \in Seq(Pairs)
         /\ Len([maps EXCEPT ![m][k] = value]) = Len(maps)
         /\ DOMAIN [maps EXCEPT ![m][k] = value] = DOMAIN maps
<1>1. maps \in Seq(Pairs) /\ maps[m] \in Pairs
  BY ElementOfSeq, LenProperties DEF MapsTyped, Pairs
<1>2. [maps[m] EXCEPT ![k] = value] \in Pairs
  BY <1>1 DEF Pairs
<1>3. QED
  BY <1>1, <1>2, ExceptSeq

(* What assigning `values` does to the types of the maps: m is one of them  *)
(* or the next one.                                                        *)
LEMMA ReplaceType ==
  ASSUME MapsTyped, NEW m, NEW pairs \in Pairs,
         m \in DOMAIN maps \/ m = Len(maps) + 1, SetValues(m, pairs)
  PROVE  /\ maps' \in Seq(Pairs) /\ Len(maps') \in 1 .. MaxMaps
         /\ m \in DOMAIN maps' /\ maps'[m] \in Pairs
<1>1. maps \in Seq(Pairs) /\ Len(maps) \in 1 .. MaxMaps /\ MaxMaps \in Nat
  BY DefaultMapsAssumption DEF MapsTyped, Pairs, DefaultMapsAssumption
<1>2. CASE m \in DOMAIN maps
  <2>1. maps' = maps
    BY <1>2 DEF SetValues
  <2>2. maps[m] \in Pairs
    BY <1>1, <1>2, ElementOfSeq, LenProperties
  <2>3. QED
    BY <1>1, <1>2, <2>1, <2>2
<1>3. CASE m = Len(maps) + 1 /\ m \notin DOMAIN maps
  <2>1. maps' = Append(maps, pairs) /\ Len(maps') <= MaxMaps
    BY <1>3 DEF SetValues
  <2>2. /\ Append(maps, pairs) \in Seq(Pairs)
        /\ Len(Append(maps, pairs)) = Len(maps) + 1
        /\ Append(maps, pairs)[Len(maps) + 1] = pairs
    BY <1>1, AppendProperties
  <2>3. DOMAIN Append(maps, pairs) = 1 .. Len(maps) + 1
    BY <2>2, LenProperties
  <2>4. QED
    BY <1>1, <1>3, <2>1, <2>2, <2>3
<1>4. QED
  BY <1>2, <1>3

(* The pairs core:maps copies are pairs.                                   *)
LEMMA CopiesType ==
  ASSUME NEW pairs \in Pairs, NEW copy \in Copies(pairs)
  PROVE  copy \in Pairs
BY DEF Copies, Pairs

(* Each action keeps the types.                                            *)
LEMMA NextTypes == MapsTyped /\ [MapsNext]_mapsVars => MapsTyped'
<1> SUFFICES ASSUME MapsTyped, [MapsNext]_mapsVars PROVE MapsTyped'
  OBVIOUS
<1> USE DEF Pairs, Answers
<1>t. /\ maps \in Seq(Pairs) /\ Len(maps) \in 1 .. MaxMaps
      /\ field \in DOMAIN maps /\ maps[field] \in Pairs
      /\ reads \in Seq(Keys) /\ Len(reads) \in Nat /\ Len(reads) <= MaxReads
      /\ outcome \in Answers /\ known \in Pairs /\ factory \in {"first", "other"}
      /\ MaxReads \in Nat /\ Conforming \subseteq Values
  BY ElementOfSeq, LenProperties, DefaultMapsAssumption
     DEF MapsTyped, DefaultMapsAssumption
<1>c. Captured \in DOMAIN maps
  BY <1>t, LenProperties DEF Captured
<1>l. \A k \in Keys, value \in Values \cup {None} :
        Learn(k, value) => known' \in Pairs
  BY <1>t DEF Learn
<1>1. ASSUME NEW k \in Keys, Read(k) PROVE MapsTyped'
  <2>1. CASE Stored(k) # None
    <3>1. Stored(k) \in Values
      BY <1>t, <2>1 DEF Stored
    <3>2. outcome' \in Answers /\ known' \in Pairs
      BY <1>1, <1>l, <2>1, <3>1, ReturnedType DEF Read
    <3>3. QED
      BY <1>1, <2>1, <3>2 DEF Read, MapsTyped
  <2>2. CASE Stored(k) = None
    <3>1. reads' = Append(reads, k) /\ Len(reads) < MaxReads
          /\ UNCHANGED <<maps, field, factory, outcome, known>>
      BY <1>1, <2>2 DEF Read
    <3>2. reads' \in Seq(Keys) /\ Len(reads') <= MaxReads
      BY <1>t, <3>1, AppendToReads
    <3>3. QED
      BY <3>1, <3>2 DEF MapsTyped
  <2>3. QED
    BY <2>1, <2>2
<1>2. ASSUME NEW value \in Values, FactoryReturns(value) PROVE MapsTyped'
  <2>1. /\ reads # <<>> /\ reads' = Front(reads)
        /\ maps' = [maps EXCEPT ![field][Last(reads)] = value]
        /\ outcome' = Returned(value) /\ Learn(Last(reads), value)
        /\ UNCHANGED <<field, factory>>
    BY <1>2 DEF FactoryReturns
  <2>2. Last(reads) \in Keys /\ reads' \in Seq(Keys) /\ Len(reads') <= MaxReads
    BY <1>t, <2>1, FrontOfReads
  <2>3. /\ maps' \in Seq(Pairs) /\ Len(maps') = Len(maps)
        /\ DOMAIN maps' = DOMAIN maps
    BY <1>t, <2>1, <2>2, StoreType
  <2>4. outcome' \in Answers /\ known' \in Pairs
    BY <1>l, <2>1, <2>2, ReturnedType
  <2>5. QED
    BY <1>t, <2>1, <2>2, <2>3, <2>4 DEF MapsTyped
<1>3. ASSUME FactoryFails PROVE MapsTyped'
  <2>1. reads' \in Seq(Keys) /\ Len(reads') <= MaxReads
    BY <1>t, <1>3, FrontOfReads DEF FactoryFails
  <2>2. QED
    BY <1>t, <1>3, <2>1 DEF FactoryFails, MapsTyped
<1>4. ASSUME NEW k \in Keys, NEW value \in Values, SetItem(k, value)
      PROVE  MapsTyped'
  <2>1. /\ maps' \in Seq(Pairs) /\ Len(maps') = Len(maps)
        /\ DOMAIN maps' = DOMAIN maps
    BY <1>c, <1>4, StoreType DEF SetItem
  <2>2. QED
    BY <1>t, <1>4, <2>1 DEF SetItem, MapsTyped
<1>5. ASSUME NEW k \in Keys, NEW value \in Values, SetPair(k, value)
      PROVE  MapsTyped'
  <2>1. /\ maps' \in Seq(Pairs) /\ Len(maps') = Len(maps)
        /\ DOMAIN maps' = DOMAIN maps
    BY <1>t, <1>5, StoreType DEF SetPair
  <2>2. QED
    BY <1>t, <1>5, <2>1 DEF SetPair, MapsTyped
<1>6. ASSUME NEW m, NEW pairs \in Pairs,
             m \in DOMAIN maps \/ m = Len(maps) + 1, SetValues(m, pairs)
      PROVE  MapsTyped'
  <2>1. /\ maps' \in Seq(Pairs) /\ Len(maps') \in 1 .. MaxMaps
        /\ m \in DOMAIN maps' /\ maps'[m] \in Pairs
    BY <1>6, ReplaceType
  <2>2. QED
    BY <1>t, <1>6, <2>1 DEF SetValues, MapsTyped
<1>7. ASSUME SetFactory PROVE MapsTyped'
  BY <1>t, <1>7 DEF SetFactory, MapsTyped
<1>8. ASSUME UNCHANGED mapsVars PROVE MapsTyped'
  BY <1>8 DEF mapsVars, MapsTyped
<1>9. \A m \in DOMAIN maps : maps[m] \in Pairs
  BY <1>t, ElementOfSeq, LenProperties
<1>10. \A pairs \in Copies(maps[field]) : pairs \in Pairs
  BY <1>t, CopiesType
<1>11. QED
  BY <1>1, <1>2, <1>3, <1>4, <1>5, <1>6, <1>7, <1>8, <1>9, <1>10 DEF MapsNext

(* Every variable keeps its type, whatever factories and the program do.   *)
THEOREM DefaultMapTypes == MapsSpec => []MapsTyped
BY InitTypes, NextTypes, PTL DEF MapsSpec

-----------------------------------------------------------------------------
(* Values are found again.  ReadsAgree is not inductive: a factory that     *)
(* returns stores under its key, and nothing in ReadsAgree says that the    *)
(* key is still absent.  It is, because nobody touches a key whose value is *)
(* being made, which also keeps the waiting keys distinct.                  *)

KeyOf(i) == reads[i]

(* The keys being made are absent, and each is being made once.            *)
Waiting ==
  /\ \A i \in DOMAIN reads : Stored(KeyOf(i)) = None
  /\ \A i, j \in DOMAIN reads : KeyOf(i) = KeyOf(j) => i = j

MapsInv == MapsTyped /\ ReadsAgree /\ Waiting

(* Nothing is known and nothing is being made at first.                    *)
LEMMA InitAgrees == MapsInit => MapsInv
<1>1. ASSUME MapsInit PROVE ReadsAgree /\ Waiting
  <2>1. known = Empty /\ DOMAIN reads = {}
    BY <1>1 DEF MapsInit
  <2>2. QED
    BY <2>1 DEF ReadsAgree, Waiting, Empty
<1>2. QED
  BY <1>1, InitTypes DEF MapsInv

(* Storing one value where reads look.                                     *)
LEMMA StoreIsRead ==
  ASSUME MapsTyped, NEW k \in Keys, NEW value \in Values,
         maps' = [maps EXCEPT ![field][k] = value], field' = field
  PROVE  \A j \in Keys : Stored(j)' = IF j = k THEN value ELSE Stored(j)
<1>1. maps \in Seq(Pairs) /\ field \in DOMAIN maps /\ maps[field] \in Pairs
  BY ElementOfSeq, LenProperties DEF MapsTyped, Pairs
<1>2. maps'[field] = [maps[field] EXCEPT ![k] = value]
  BY <1>1
<1>3. QED
  BY <1>1, <1>2 DEF Stored, Pairs

(* Each action keeps the invariant when the program leaves waiting keys     *)
(* alone and stores where reads look.                                      *)
LEMMA NextAgrees ==
  ASSUME ~Reentrant, ~Mixed, MapsInv, [MapsNext]_mapsVars
  PROVE  ReadsAgree' /\ Waiting'
<1>t. /\ MapsTyped /\ ReadsAgree /\ Waiting
      /\ reads \in Seq(Keys) /\ \A i \in DOMAIN reads : KeyOf(i) \in Keys
      /\ known \in Pairs /\ field \in DOMAIN maps
      /\ maps \in Seq(Pairs) /\ maps[field] \in Pairs
      /\ None \notin Values /\ Conforming \subseteq Values
  BY ElementOfSeq, LenProperties, DefaultMapsAssumption
     DEF MapsInv, MapsTyped, Pairs, KeyOf, DefaultMapsAssumption
<1>f. \A k : Free(k) => \A i \in DOMAIN reads : KeyOf(i) # k
  BY DEF Free, ToSet, KeyOf
<1>1. ASSUME NEW k \in Keys, Read(k) PROVE ReadsAgree' /\ Waiting'
  <2>1. maps' = maps /\ field' = field /\ Free(k)
    BY <1>1 DEF Read
  <2>2. CASE Stored(k) # None
    <3>1. Learn(k, Stored(k)) /\ reads' = reads
      BY <1>1, <2>2 DEF Read
    <3>2. \A j \in Keys : known'[j] = known[j] \/ known'[j] = Stored(j)
      BY <1>t, <3>1 DEF Learn, Pairs
    <3>3. QED
      BY <1>t, <2>1, <3>1, <3>2 DEF ReadsAgree, Waiting, Stored, KeyOf
  <2>3. CASE Stored(k) = None
    <3>1. reads' = Append(reads, k) /\ known' = known
      BY <1>1, <2>3 DEF Read
    <3>2. \A i \in DOMAIN reads' :
            \/ i = Len(reads) + 1 /\ KeyOf(i)' = k
            \/ i \in DOMAIN reads /\ KeyOf(i)' = KeyOf(i)
      BY <1>t, <3>1, AppendToReads DEF KeyOf
    <3>3. ReadsAgree'
      BY <1>t, <2>1, <3>1 DEF ReadsAgree, Stored
    <3>4. \A i \in DOMAIN reads' : Stored(KeyOf(i))' = None
      BY <1>t, <2>1, <2>3, <3>2 DEF Waiting, Stored
    <3>5. \A i, j \in DOMAIN reads' : KeyOf(i)' = KeyOf(j)' => i = j
      BY <1>f, <1>t, <2>1, <3>2 DEF Waiting
    <3>6. QED
      BY <3>3, <3>4, <3>5 DEF Waiting
  <2>4. QED
    BY <2>2, <2>3
<1>p. ASSUME reads # <<>>, reads' = Front(reads)
      PROVE  /\ Len(reads) \in DOMAIN reads /\ Last(reads) = KeyOf(Len(reads))
             /\ \A i \in DOMAIN reads' :
                  i \in DOMAIN reads /\ i # Len(reads) /\ KeyOf(i)' = KeyOf(i)
  <2>1. /\ Front(reads) \in Seq(Keys) /\ Len(Front(reads)) = Len(reads) - 1
        /\ \A i \in 1 .. Len(reads) - 1 : Front(reads)[i] = reads[i]
        /\ Len(reads) \in DOMAIN reads /\ Last(reads) = reads[Len(reads)]
    BY <1>t, <1>p, FrontOfReads
  <2>2. DOMAIN reads = 1 .. Len(reads) /\ Len(reads) \in Nat
        /\ DOMAIN Front(reads) = 1 .. Len(reads) - 1
    BY <1>t, <2>1, LenProperties
  <2>3. \A i \in DOMAIN reads' : i \in DOMAIN reads /\ i # Len(reads)
    BY <1>p, <2>2
  <2>4. QED
    BY <1>p, <2>1, <2>2, <2>3 DEF KeyOf
<1>2. ASSUME NEW value \in Values, FactoryReturns(value)
      PROVE  ReadsAgree' /\ Waiting'
  <2> DEFINE key == Last(reads)
  <2>1. /\ reads # <<>> /\ reads' = Front(reads)
        /\ maps' = [maps EXCEPT ![field][key] = value]
        /\ field' = field /\ Learn(key, value)
    BY <1>2 DEF FactoryReturns
  <2>2. key \in Keys /\ Stored(key) = None
    BY <1>t, <1>p, <2>1 DEF Waiting
  <2>3. known[key] = None
    BY <1>t, <2>2 DEF ReadsAgree
  <2>4. \A j \in Keys : Stored(j)' = IF j = key THEN value ELSE Stored(j)
    BY <1>t, <2>1, <2>2, StoreIsRead
  <2>5. \A j \in Keys : IF j = key THEN known'[j] \in {value, None}
                        ELSE known'[j] = known[j]
    BY <1>t, <2>1, <2>2, <2>3 DEF Learn, Pairs
  <2>6. ReadsAgree'
    BY <1>t, <2>4, <2>5 DEF ReadsAgree
  <2>7. \A i \in DOMAIN reads' :
          i \in DOMAIN reads /\ KeyOf(i)' = KeyOf(i) /\ KeyOf(i) # key
    BY <1>t, <1>p, <2>1 DEF Waiting
  <2>8. \A i \in DOMAIN reads' : Stored(KeyOf(i))' = Stored(KeyOf(i))
    <3>1. ASSUME NEW i \in DOMAIN reads'
          PROVE  maps'[field'][reads'[i]] = maps[field][reads[i]]
      BY <1>t, <2>4, <2>7 DEF KeyOf, Stored
    <3>2. QED
      BY <3>1 DEF KeyOf, Stored
  <2>9. QED
    BY <1>t, <2>6, <2>7, <2>8 DEF Waiting
<1>3. ASSUME FactoryFails PROVE ReadsAgree' /\ Waiting'
  <2>1. reads # <<>> /\ reads' = Front(reads)
        /\ UNCHANGED <<maps, field, known>>
    BY <1>3 DEF FactoryFails
  <2>2. QED
    BY <1>t, <1>p, <2>1 DEF ReadsAgree, Waiting, Stored
<1>s. ASSUME NEW k \in Keys, NEW value \in Values, Free(k),
             maps' = [maps EXCEPT ![field][k] = value],
             known' = [known EXCEPT ![k] = value],
             field' = field, reads' = reads
      PROVE  ReadsAgree' /\ Waiting'
  <2>1. \A j \in Keys : Stored(j)' = IF j = k THEN value ELSE Stored(j)
    BY <1>t, <1>s, StoreIsRead
  <2>2. ReadsAgree'
    BY <1>t, <1>s, <2>1 DEF ReadsAgree, Pairs
  <2>3. \A i \in DOMAIN reads : maps'[field'][reads[i]] = None
    BY <1>f, <1>s, <1>t, <2>1 DEF Waiting, KeyOf, Stored
  <2>4. QED
    BY <1>s, <1>t, <2>2, <2>3 DEF Waiting, KeyOf, Stored
<1>4. ASSUME NEW k \in Keys, NEW value \in Values, SetItem(k, value)
      PROVE  ReadsAgree' /\ Waiting'
  <2>1. field = Captured
    BY <1>4 DEF SetItem
  <2>2. QED
    BY <1>4, <1>s, <2>1 DEF SetItem
<1>5. ASSUME NEW k \in Keys, NEW value \in Values, SetPair(k, value)
      PROVE  ReadsAgree' /\ Waiting'
  BY <1>5, <1>s DEF SetPair
<1>6. ASSUME NEW m, NEW pairs, SetValues(m, pairs)
      PROVE  ReadsAgree' /\ Waiting'
  <2>1. /\ field' = m /\ known' = maps'[m] /\ reads' = reads
        /\ \A k \in Keys : maps'[m][k] # None => Free(k)
    BY <1>6 DEF SetValues
  <2>2. ReadsAgree'
    BY <2>1 DEF ReadsAgree, Stored
  <2>3. \A i \in DOMAIN reads : maps'[m][reads[i]] = None
    BY <1>f, <1>t, <2>1 DEF KeyOf
  <2>4. QED
    BY <1>t, <2>1, <2>2, <2>3 DEF Waiting, KeyOf, Stored
<1>7. CASE SetFactory \/ UNCHANGED mapsVars
  <2>1. UNCHANGED <<maps, field, reads, known>>
    BY <1>7 DEF SetFactory, mapsVars
  <2>2. QED
    BY <1>t, <2>1 DEF ReadsAgree, Waiting, Stored, KeyOf
<1>8. QED
  BY <1>1, <1>2, <1>3, <1>4, <1>5, <1>6, <1>7 DEF MapsNext

(* What was stored for a key, or given when it was read, is what the next   *)
(* read finds, for factories that leave the key they work on alone.         *)
THEOREM StoredValuesAreRead ==
  ASSUME ~Reentrant, ~Mixed PROVE MapsSpec => []ReadsAgree
<1>1. MapsInv /\ [MapsNext]_mapsVars => MapsInv'
  BY NextTypes, NextAgrees DEF MapsInv
<1>2. MapsInv => ReadsAgree
  BY DEF MapsInv
<1>3. QED
  BY <1>1, <1>2, InitAgrees, PTL DEF MapsSpec

(* Under the same assumptions a default is made once for a key and never    *)
(* replaces what the program stored.                                        *)
THEOREM DefaultMadeOnce ==
  ASSUME ~Reentrant, ~Mixed PROVE MapsSpec => DefaultsAreMadeOnce
<1> DEFINE Once == \A k \in Keys :
                     known[k] # None /\ known'[k] # known[k] => outcome' = NoValue
<1>1. MapsInv /\ [MapsNext]_mapsVars => MapsInv'
  BY NextTypes, NextAgrees DEF MapsInv
<1>2. ASSUME MapsInv, [MapsNext]_mapsVars PROVE [Once]_mapsVars
  <2>t. known \in Pairs /\ reads \in Seq(Keys) /\ ReadsAgree /\ Waiting
    BY <1>2 DEF MapsInv, MapsTyped, Pairs
  <2>1. ASSUME NEW k \in Keys, Read(k) PROVE Once
    BY <2>1, <2>t DEF Read, Learn, ReadsAgree, Pairs
  <2>2. ASSUME NEW value \in Values, FactoryReturns(value) PROVE Once
    <3>1. Learn(Last(reads), value) /\ reads # <<>>
      BY <2>2 DEF FactoryReturns
    <3>2. Last(reads) \in Keys /\ Stored(Last(reads)) = None
      BY <2>t, <3>1, FrontOfReads DEF Waiting, KeyOf
    <3>3. known[Last(reads)] = None
      BY <2>t, <3>2 DEF ReadsAgree
    <3>4. \A k \in Keys : k # Last(reads) => known'[k] = known[k]
      BY <2>t, <3>1 DEF Learn, Pairs
    <3>5. QED
      BY <3>3, <3>4
  <2>3. ASSUME FactoryFails PROVE Once
    BY <2>3 DEF FactoryFails
  <2>4. ASSUME NEW k \in Keys, NEW value \in Values,
               SetItem(k, value) \/ SetPair(k, value)
        PROVE  Once
    BY <2>4 DEF SetItem, SetPair
  <2>5. ASSUME NEW m, NEW pairs, SetValues(m, pairs) PROVE Once
    BY <2>5 DEF SetValues
  <2>6. ASSUME SetFactory PROVE Once
    BY <2>6 DEF SetFactory
  <2>7. QED
    BY <1>2, <2>1, <2>2, <2>3, <2>4, <2>5, <2>6 DEF MapsNext
<1>3. QED
  BY <1>1, <1>2, InitAgrees, PTL DEF MapsSpec, DefaultsAreMadeOnce

(* Under the same assumptions a failing factory changes no map and leaves   *)
(* its key absent, so that the next read tries again.                       *)
THEOREM FailedFactoryStoresNothing ==
  ASSUME ~Reentrant, ~Mixed PROVE MapsSpec => FailuresStoreNothing
<1> DEFINE Nothing == outcome' = Failed("FactoryError") /\ Len(reads') < Len(reads)
                        => maps' = maps /\ Stored(Last(reads)) = None
<1>1. MapsInv /\ [MapsNext]_mapsVars => MapsInv'
  BY NextTypes, NextAgrees DEF MapsInv
<1>2. ASSUME MapsInv, [MapsNext]_mapsVars PROVE [Nothing]_mapsVars
  <2>t. reads \in Seq(Keys) /\ Len(reads) \in Nat /\ Waiting
    BY <1>2, LenProperties DEF MapsInv, MapsTyped
  <2>n. Len(reads') = Len(reads) \/ Len(reads') = Len(reads) + 1 => Nothing
    BY <2>t
  <2>1. ASSUME NEW k \in Keys, Read(k) PROVE Nothing
    <3>1. reads' = reads \/ reads' = Append(reads, k)
      BY <2>1 DEF Read
    <3>2. QED
      BY <2>n, <2>t, <3>1, AppendToReads
  <2>2. ASSUME NEW value \in Values, FactoryReturns(value) PROVE Nothing
    BY <2>2 DEF FactoryReturns, Returned, Given, Failed
  <2>3. ASSUME FactoryFails PROVE Nothing
    <3>1. reads # <<>> /\ maps' = maps
      BY <2>3 DEF FactoryFails
    <3>2. Stored(Last(reads)) = None
      BY <2>t, <3>1, FrontOfReads DEF Waiting, KeyOf
    <3>3. QED
      BY <3>1, <3>2
  <2>4. ASSUME NEW k \in Keys, NEW value \in Values,
               SetItem(k, value) \/ SetPair(k, value)
        PROVE  Nothing
    BY <2>n, <2>4 DEF SetItem, SetPair
  <2>5. ASSUME NEW m, NEW pairs, SetValues(m, pairs) PROVE Nothing
    BY <2>n, <2>5 DEF SetValues
  <2>6. ASSUME SetFactory PROVE Nothing
    BY <2>n, <2>6 DEF SetFactory
  <2>7. QED
    BY <1>2, <2>1, <2>2, <2>3, <2>4, <2>5, <2>6 DEF MapsNext
<1>3. QED
  BY <1>1, <1>2, InitAgrees, PTL DEF MapsSpec, FailuresStoreNothing

-----------------------------------------------------------------------------
(* Recursive functions: one that looks at smaller arguments only exists.   *)

\* A nonempty set of naturals has a least member.
LEMMA LeastOf ==
  ASSUME NEW T \in SUBSET Nat, T # {}
  PROVE  \E i \in T : \A j \in T : i <= j
<1> DEFINE Spans == {1..n : n \in T}
           R == StrictSubsetOrdering(Nat)
<1>1. IsWellFoundedOn(R, FiniteSubsetsOf(Nat))
  BY FS_StrictSubsetOrderingWellFounded
<1>2. ASSUME NEW n \in Nat PROVE 1..n \in FiniteSubsetsOf(Nat)
  BY FS_Interval DEF FiniteSubsetsOf
<1>3. Spans # {} /\ Spans \subseteq FiniteSubsetsOf(Nat)
  BY <1>2
<1>4. PICK x \in Spans : \A y \in Spans : ~(<<y, x>> \in R)
  <2> HIDE DEF Spans, R
  <2> QED
    BY <1>1, <1>3, WFMin
<1>5. PICK i \in T : x = 1..i
  BY <1>4
<1>6. ASSUME NEW j \in T, j < i PROVE FALSE
  <2>1. 1..j \in SUBSET Nat /\ 1..i \in SUBSET Nat /\ 1..j \subseteq 1..i
    BY <1>6
  <2>2. i \in 1..i /\ i \notin 1..j
    BY <1>6
  <2>3. <<1..j, 1..i>> \in R
    BY <2>1, <2>2 DEF StrictSubsetOrdering
  <2>4. QED
    BY <2>3, <1>4, <1>5
<1>7. QED
  BY <1>6

\* What holds of x as soon as it holds of all that measures less, holds.
LEMMA MeasureInduction ==
  ASSUME NEW S, NEW h \in [S -> Nat], NEW T \in SUBSET S,
         \A x \in S : (\A y \in S : h[y] < h[x] => y \in T) => x \in T
  PROVE  T = S
<1> SUFFICES ASSUME T # S PROVE FALSE
  OBVIOUS
<1> DEFINE M == {h[x] : x \in S \ T}
<1>1. M \in SUBSET Nat /\ M # {}
  OBVIOUS
<1>2. PICK i \in M : \A j \in M : i <= j
  <2> HIDE DEF M
  <2> QED
    BY <1>1, LeastOf
<1>3. PICK x \in S \ T : i = h[x]
  BY <1>2
<1>4. ASSUME NEW y \in S, h[y] < h[x] PROVE y \in T
  <2>1. CASE y \notin T
    <3>1. h[y] \in M
      BY <2>1
    <3>2. h[x] <= h[y] /\ h[x] \in Nat /\ h[y] \in Nat
      BY <3>1, <1>2, <1>3
    <3>3. QED
      BY <3>2, <1>4
  <2>2. QED
    BY <2>1
<1>5. QED
  BY <1>3, <1>4

\* Functions on S whose value at x is in R[x].
Sections(S, R) == {f \in [S -> UNION {R[x] : x \in S}] : \A x \in S : f[x] \in R[x]}

\* step defines f[x] from the values of f at arguments of smaller measure h.
Descends(S, h, R, step) ==
    /\ h \in [S -> Nat]
    /\ step \in [Sections(S, R) -> Sections(S, R)]
    /\ \A x \in S : R[x] # {}
    /\ \A f, g \in Sections(S, R), x \in S :
          (\A y \in S : h[y] < h[x] => f[y] = g[y]) => step[f][x] = step[g][x]

\* Such a definition has a solution.
LEMMA RecursionHasSolution ==
  ASSUME NEW S, NEW h, NEW R, NEW step, Descends(S, h, R, step)
  PROVE  \E f \in Sections(S, R) : f = step[f]
<1> USE DEF Descends
<1> DEFINE F == Sections(S, R)
           Good(f, n) == \A x \in S : h[x] < n => f[x] = step[f][x]
           A == [n \in Nat |-> {f \in F : Good(f, n)}]
<1>1. ASSUME NEW f \in F, NEW g \in F, NEW n \in Nat, NEW k \in Nat, Good(f, n), Good(g, k),
             NEW x \in S, h[x] < n, h[x] < k
      PROVE  f[x] = g[x]
  <2> DEFINE T == {y \in S : h[y] < n /\ h[y] < k => f[y] = g[y]}
  <2>1. ASSUME NEW y \in S, \A z \in S : h[z] < h[y] => z \in T PROVE y \in T
    <3> SUFFICES ASSUME h[y] < n, h[y] < k PROVE f[y] = g[y]
      OBVIOUS
    <3>1. h[y] \in Nat /\ \A z \in S : h[z] \in Nat
      OBVIOUS
    <3>2. \A z \in S : h[z] < h[y] => f[z] = g[z]
      BY <2>1, <3>1
    <3>3. step[f][y] = step[g][y]
      BY <3>2
    <3>4. QED
      BY <3>3, <1>1
  <2>2. T = S
    <3>1. T \in SUBSET S
      OBVIOUS
    <3> HIDE DEF T
    <3>2. QED
      BY <2>1, <3>1, MeasureInduction
  <2>3. QED
    BY <2>2, <1>1
<1>2. F # {}
  <2> DEFINE f == [x \in S |-> CHOOSE v : v \in R[x]]
  <2>1. \A x \in S : f[x] \in R[x]
    OBVIOUS
  <2>2. f \in F
    BY <2>1 DEF Sections
  <2>3. QED
    BY <2>2
<1>3. ASSUME NEW n \in Nat, NEW f \in A[n] PROVE step[f] \in A[n + 1]
  <2>1. f \in F /\ step[f] \in F /\ Good(f, n)
    OBVIOUS
  <2>2. ASSUME NEW x \in S, h[x] < n + 1 PROVE step[f][x] = step[step[f]][x]
    <3>1. h[x] \in Nat /\ \A y \in S : h[y] \in Nat
      OBVIOUS
    <3>2. \A y \in S : h[y] < h[x] => f[y] = step[f][y]
      BY <2>1, <2>2, <3>1
    <3>3. QED
      BY <3>2, <2>1
  <2>3. QED
    BY <2>1, <2>2
<1>4. ASSUME NEW n \in Nat PROVE A[n] # {}
  <2> DEFINE M == {i \in Nat : A[i] = {}}
  <2>1. CASE M = {}
    BY <2>1
  <2>2. CASE M # {}
    <3>1. PICK i \in M : \A j \in M : i <= j
      <4>1. M \in SUBSET Nat
        OBVIOUS
      <4> HIDE DEF M
      <4>2. QED
        BY <2>2, <4>1, LeastOf
    <3>2. A[0] = F
      <4>1. \A x \in S : ~(h[x] < 0)
        OBVIOUS
      <4>2. QED
        BY <4>1
    <3>3. i \in Nat /\ i # 0 /\ A[i] = {}
      BY <3>1, <3>2, <1>2
    <3>4. i - 1 \in Nat /\ A[i - 1] # {}
      <4>1. i - 1 \in Nat /\ ~(i <= i - 1)
        BY <3>3
      <4>2. i - 1 \notin M
        <5> HIDE DEF M
        <5> QED
          BY <3>1, <4>1
      <4>3. QED
        <5> HIDE DEF A
        <5> QED
          BY <4>1, <4>2
    <3>5. PICK f \in A[i - 1] : TRUE
      <4> HIDE DEF A
      <4> QED
        BY <3>4
    <3>6. step[f] \in A[(i - 1) + 1]
      <4> HIDE DEF A, F
      <4> QED
        BY <3>4, <3>5, <1>3
    <3>7. (i - 1) + 1 = i
      BY <3>3
    <3>8. QED
      BY <3>3, <3>6, <3>7
  <2>3. QED
    BY <2>1, <2>2
<1> DEFINE c(x) == CHOOSE g : g \in A[h[x] + 1]
           f == [x \in S |-> c(x)[x]]
<1>5. ASSUME NEW x \in S PROVE c(x) \in A[h[x] + 1] /\ c(x) \in F /\ Good(c(x), h[x] + 1) /\ h[x] \in Nat
  <2>1. h[x] + 1 \in Nat /\ h[x] \in Nat
    OBVIOUS
  <2>2. A[h[x] + 1] # {}
    <3> HIDE DEF A
    <3> QED
      BY <2>1, <1>4
  <2>3. c(x) \in A[h[x] + 1]
    <3> HIDE DEF A
    <3> QED
      BY <2>2
  <2>4. QED
    BY <2>1, <2>3
<1>6. f \in F
  <2>1. ASSUME NEW x \in S PROVE f[x] \in R[x]
    <3>1. c(x) \in F
      BY <1>5
    <3> HIDE DEF c
    <3>2. QED
      BY <3>1 DEF Sections
  <2> HIDE DEF c
  <2>2. f \in [S -> UNION {R[x] : x \in S}]
    <3>1. \A x \in S : f[x] \in UNION {R[y] : y \in S}
      BY <2>1
    <3>2. f = [x \in S |-> f[x]]
      OBVIOUS
    <3> HIDE DEF f
    <3>3. QED
      BY <3>1, <3>2
  <2>3. QED
    BY <2>1, <2>2 DEF Sections
<1>7. ASSUME NEW x \in S PROVE f[x] = step[f][x]
  <2>1. ASSUME NEW y \in S, h[y] < h[x] PROVE f[y] = c(x)[y]
    <3>1. c(y) \in F /\ Good(c(y), h[y] + 1) /\ h[y] \in Nat /\ c(x) \in F /\ Good(c(x), h[x] + 1) /\ h[x] \in Nat
      BY <1>5
    <3>2. h[y] < h[y] + 1 /\ h[y] < h[x] + 1 /\ h[y] + 1 \in Nat /\ h[x] + 1 \in Nat
      BY <2>1, <3>1
    <3>3. c(y)[y] = c(x)[y]
      <4> HIDE DEF c, F, Good
      <4> QED
        BY <1>1, <3>1, <3>2
    <3>4. QED
      BY <3>3
  <2>2. step[f][x] = step[c(x)][x]
    <3>1. c(x) \in F
      BY <1>5
    <3> HIDE DEF f, c
    <3>2. QED
      BY <2>1, <3>1, <1>6
  <2>3. c(x)[x] = step[c(x)][x]
    <3>1. Good(c(x), h[x] + 1) /\ h[x] \in Nat
      BY <1>5
    <3>2. h[x] < h[x] + 1
      BY <3>1
    <3> HIDE DEF c
    <3>3. QED
      BY <3>1, <3>2
  <2>4. QED
    BY <2>2, <2>3
<1>8. QED
  <2>1. step[f] \in F
    BY <1>6
  <2>2. f = step[f]
    <3> DEFINE g == step[f]
    <3>1. g \in F /\ f \in F /\ \A x \in S : f[x] = g[x]
      BY <2>1, <1>6, <1>7
    <3>2. f = [x \in S |-> f[x]] /\ g = [x \in S |-> g[x]]
      <4> HIDE DEF f, g
      <4> QED
        BY <3>1 DEF Sections
    <3>3. [x \in S |-> f[x]] = [x \in S |-> g[x]]
      <4> HIDE DEF f, g
      <4> QED
        BY <3>1
    <3>4. QED
      BY <3>2, <3>3
  <2>3. QED
    BY <2>2, <1>6

-----------------------------------------------------------------------------
(* CallContracts.                                                          *)
(* The shapes of contracts.                                                *)

\* What a contract can be.
LEMMA ContractKinds ==
  ASSUME NEW c \in Contracts
  PROVE  /\ c.is \in {"none", "primitive", "struct", "array", "signature"}
         /\ c.is = "none" <=> c = NoContract
         /\ c.is = "primitive" => c = Primitive(c.name)
         /\ c.is = "signature" => c \in Signatures
         /\ Nesting[c] \in Nat
BY ContractsAssumption DEF NoContract, Primitive, Signatures

LEMMA ArrayParts ==
  ASSUME NEW c \in Contracts, c.is = "array"
  PROVE  c.element \in Contracts /\ Nesting[c.element] < Nesting[c]
<1>1. c.element \in Contracts
  BY ContractsAssumption DEF NoContract, Primitive, Signatures
<1>2. c.element \in ComponentsOf(c)
  BY DEF ComponentsOf
<1>3. QED
  BY <1>1, <1>2, ContractsAssumption

\* What a signature is made of.
LEMMA SignatureShape ==
  ASSUME NEW s \in Signatures
  PROVE  /\ s.is = "signature" /\ s.variadic \in BOOLEAN /\ s.params \in Seq(Parameters)
         /\ \A i \in DOMAIN s.params : s.params[i].type \in Contracts /\ s.params[i].name \in STRING
         /\ s.success \in Contracts /\ s.errors \subseteq Contracts
         /\ DOMAIN s.params = 1 .. Len(s.params) /\ Len(s.params) \in Nat
         /\ s.variadic => Len(s.params) > 0
<1>1. /\ s.is = "signature" /\ s.variadic \in BOOLEAN /\ s.params \in Seq(Parameters)
      /\ s.success \in Contracts /\ s.errors \subseteq Contracts
      /\ s.variadic => s.params # <<>>
  BY DEF Signatures
<1>2. \A i \in DOMAIN s.params : s.params[i] \in Parameters
  BY <1>1
<1>3. QED
  BY <1>1, <1>2 DEF Parameters

LEMMA SignatureParts ==
  ASSUME NEW c \in Contracts, c.is = "signature"
  PROVE  /\ \A i \in DOMAIN c.params : Nesting[c.params[i].type] < Nesting[c]
         /\ Nesting[c.success] < Nesting[c]
         /\ \A e \in c.errors : Nesting[e] < Nesting[c]
<1>1. ComponentsOf(c) = {c.params[i].type : i \in DOMAIN c.params} \cup {c.success} \cup c.errors
  BY DEF ComponentsOf
<1>2. \A d \in ComponentsOf(c) : Nesting[d] < Nesting[c]
  BY ContractsAssumption
<1>3. QED
  BY <1>1, <1>2

-----------------------------------------------------------------------------
(* Assignability is defined: it looks into components only.                *)

AssignableBy(a, target, supplied) ==
    /\ NoContract \notin {target, supplied}
    /\ \/ target = AnyType
       \/ /\ supplied # AnyType
          /\ IF target.is = "array"
                 THEN supplied.is = "array" /\ a[<<target.element, supplied.element>>]
             ELSE IF supplied.is = "array" THEN target = Primitive("array")
             ELSE IF target.is = "signature"
                 THEN supplied.is = "signature" /\ SignatureAssignable(a, target, supplied)
             ELSE IF supplied.is = "signature" THEN target = Primitive("call")
             ELSE target = supplied

ContractPairs == Contracts \X Contracts
PairNesting == [p \in ContractPairs |-> Nesting[p[1]] + Nesting[p[2]]]
Relations == [ContractPairs -> BOOLEAN]

\* Assignability descends: both contracts together are nested less.
LEMMA PairNestings ==
  /\ PairNesting \in [ContractPairs -> Nat]
  /\ \A c, d \in Contracts : PairNesting[<<c, d>>] = Nesting[c] + Nesting[d]
BY ContractKinds DEF PairNesting, ContractPairs

\* Whether a signature satisfies another depends on their components only.
LEMMA AgreeOnSignatures ==
  ASSUME NEW a \in Relations, NEW b \in Relations, NEW s \in Contracts, NEW t \in Contracts,
         s.is = "signature", t.is = "signature",
         \A c, d \in Contracts : Nesting[c] + Nesting[d] < Nesting[s] + Nesting[t] => a[<<c, d>>] = b[<<c, d>>]
  PROVE  SignatureAssignable(a, s, t) <=> SignatureAssignable(b, s, t)
<1>1. s \in Signatures /\ t \in Signatures /\ Nesting[s] \in Nat /\ Nesting[t] \in Nat
  BY ContractKinds
<1>2. ASSUME NEW c \in Contracts, NEW d \in Contracts,
             \/ Nesting[c] < Nesting[s] /\ Nesting[d] < Nesting[t]
             \/ Nesting[c] < Nesting[t] /\ Nesting[d] < Nesting[s]
      PROVE  a[<<c, d>>] = b[<<c, d>>]
  <2>1. Nesting[c] \in Nat /\ Nesting[d] \in Nat
    BY ContractKinds
  <2>2. QED
    BY <2>1, <1>1, <1>2
<1>3. CallReturnAssignable(a, s.success, t.success) <=> CallReturnAssignable(b, s.success, t.success)
  <2>1. a[<<s.success, t.success>>] = b[<<s.success, t.success>>]
    BY <1>1, <1>2, SignatureShape, SignatureParts
  <2>2. QED
    BY <2>1 DEF CallReturnAssignable
<1>4. \A f \in t.errors, e \in s.errors : a[<<e, f>>] = b[<<e, f>>]
  BY <1>1, <1>2, SignatureShape, SignatureParts
<1>5. ASSUME Len(s.params) = Len(t.params), NEW i \in DOMAIN s.params
      PROVE  ParameterAssignable(a, s.params[i], t.params[i]) <=> ParameterAssignable(b, s.params[i], t.params[i])
  <2>1. DOMAIN s.params = DOMAIN t.params
    BY <1>1, <1>5, SignatureShape
  <2>2. a[<<t.params[i].type, s.params[i].type>>] = b[<<t.params[i].type, s.params[i].type>>]
    BY <1>1, <1>2, <2>1, SignatureShape, SignatureParts
  <2>3. QED
    BY <2>2 DEF ParameterAssignable
<1>6. QED
  BY <1>3, <1>4, <1>5 DEF SignatureAssignable, CallReturnsAssignable

\* So does whether a contract satisfies another.
LEMMA AgreeOnContracts ==
  ASSUME NEW a \in Relations, NEW b \in Relations, NEW s \in Contracts, NEW t \in Contracts,
         \A c, d \in Contracts : Nesting[c] + Nesting[d] < Nesting[s] + Nesting[t] => a[<<c, d>>] = b[<<c, d>>]
  PROVE  AssignableBy(a, s, t) <=> AssignableBy(b, s, t)
<1>1. s.is = "signature" /\ t.is = "signature" => (SignatureAssignable(a, s, t) <=> SignatureAssignable(b, s, t))
  BY AgreeOnSignatures
<1>2. s.is = "array" /\ t.is = "array" => a[<<s.element, t.element>>] = b[<<s.element, t.element>>]
  <2>1. SUFFICES ASSUME s.is = "array", t.is = "array" PROVE a[<<s.element, t.element>>] = b[<<s.element, t.element>>]
    OBVIOUS
  <2>2. s.element \in Contracts /\ t.element \in Contracts
    BY <2>1, ArrayParts
  <2>3. Nesting[s.element] \in Nat /\ Nesting[t.element] \in Nat /\ Nesting[s] \in Nat /\ Nesting[t] \in Nat
    BY <2>2, ContractKinds
  <2>4. Nesting[s.element] < Nesting[s] /\ Nesting[t.element] < Nesting[t]
    BY <2>1, ArrayParts
  <2>5. QED
    BY <2>2, <2>3, <2>4
<1>3. QED
  BY <1>1, <1>2 DEF AssignableBy

\* There is a relation that ContractAssignable describes.
LEMMA AssignabilityIsDefined ==
  \E a \in Relations : a = [p \in Contracts \X Contracts |-> AssignableBy(a, p[1], p[2])]
<1> DEFINE R == [p \in ContractPairs |-> BOOLEAN]
           F == Sections(ContractPairs, R)
           step == [a \in F |-> [p \in ContractPairs |-> AssignableBy(a, p[1], p[2])]]
<1>1. F = Relations
  <2>1. \A f \in Relations : f \in F
    BY DEF Sections, Relations
  <2>2. \A f \in F : f \in Relations
    BY DEF Sections, Relations
  <2>3. QED
    BY <2>1, <2>2
<1>2. step \in [F -> F]
  <2>1. ASSUME NEW a \in F PROVE [p \in ContractPairs |-> AssignableBy(a, p[1], p[2])] \in Relations
    <3>1. \A p \in ContractPairs : AssignableBy(a, p[1], p[2]) \in BOOLEAN
      BY DEF AssignableBy
    <3>2. QED
      BY <3>1 DEF Relations
  <2> HIDE DEF F
  <2>2. QED
    BY <1>1, <2>1
<1>3. ASSUME NEW a \in F, NEW b \in F, NEW p \in ContractPairs,
             \A q \in ContractPairs : PairNesting[q] < PairNesting[p] => a[q] = b[q]
      PROVE  step[a][p] = step[b][p]
  <2>1. PICK s \in Contracts, t \in Contracts : p = <<s, t>>
    BY DEF ContractPairs
  <2>2. ASSUME NEW c \in Contracts, NEW d \in Contracts, Nesting[c] + Nesting[d] < Nesting[s] + Nesting[t]
        PROVE  a[<<c, d>>] = b[<<c, d>>]
    <3>1. <<c, d>> \in ContractPairs
      BY DEF ContractPairs
    <3>2. PairNesting[<<c, d>>] < PairNesting[p]
      BY <2>1, <2>2, PairNestings
    <3>3. QED
      BY <3>1, <3>2, <1>3
  <2>3. AssignableBy(a, s, t) <=> AssignableBy(b, s, t)
    <3> HIDE DEF F
    <3> QED
      BY <2>2, <1>1, AgreeOnContracts
  <2>4. AssignableBy(a, s, t) \in BOOLEAN /\ AssignableBy(b, s, t) \in BOOLEAN
    BY DEF AssignableBy
  <2>5. step[a][p] = AssignableBy(a, s, t) /\ step[b][p] = AssignableBy(b, s, t)
    <3> HIDE DEF F
    <3> QED
      BY <2>1
  <2>6. QED
    BY <2>3, <2>4, <2>5
<1>4. PICK a \in F : a = step[a]
  <2>1. \A p \in ContractPairs : R[p] # {}
    OBVIOUS
  <2> HIDE DEF R, step
  <2>2. \A f, g \in F, p \in ContractPairs :
            (\A q \in ContractPairs : PairNesting[q] < PairNesting[p] => f[q] = g[q]) => step[f][p] = step[g][p]
    <3> HIDE DEF F
    <3> QED
      BY <1>3
  <2>3. PairNesting \in [ContractPairs -> Nat]
    BY PairNestings
  <2>4. Descends(ContractPairs, PairNesting, R, step)
    BY <1>2, <2>1, <2>2, <2>3 DEF Descends
  <2>5. QED
    BY <2>4, RecursionHasSolution
<1>5. a = [p \in Contracts \X Contracts |-> AssignableBy(a, p[1], p[2])]
  <2> HIDE DEF F
  <2> QED
    BY <1>4 DEF ContractPairs
<1>6. QED
  BY <1>1, <1>4, <1>5

\* ContractAssignable is one.
LEMMA AssignabilityUnfolds ==
  ContractAssignable = [p \in Contracts \X Contracts |-> AssignableBy(ContractAssignable, p[1], p[2])]
BY AssignabilityIsDefined DEF ContractAssignable, AssignableBy

LEMMA AssignableIs ==
  ASSUME NEW target \in Contracts, NEW supplied \in Contracts
  PROVE  ContractAssignable[<<target, supplied>>] <=> AssignableBy(ContractAssignable, target, supplied)
<1>1. ContractAssignable[<<target, supplied>>] = AssignableBy(ContractAssignable, target, supplied)
  BY AssignabilityUnfolds
<1>2. AssignableBy(ContractAssignable, target, supplied) \in BOOLEAN
  BY DEF AssignableBy
<1>3. QED
  BY <1>1, <1>2

-----------------------------------------------------------------------------
(* What a contract accepts is defined.                                     *)

AcceptedBy(accepted, contract) ==
    {v \in CallValues :
        CASE contract.is = "none" -> TRUE
          [] contract.is = "array" ->
                v.is = "array" /\ \A i \in DOMAIN v.elements : v.elements[i] \in accepted[contract.element]
          [] contract.is = "signature" -> v.is \in Callables /\ FunctionMatches(contract, v)
          [] contract.is = "primitive" -> contract = AnyType \/ contract.name = PrimitiveNameOf(v)
          [] contract.is = "struct" -> v.is = "instance" /\ v.of = contract.of}

\* There is a function that Accepted describes.
LEMMA AcceptanceIsDefined ==
  \E a \in [Contracts -> SUBSET CallValues] : a = [contract \in Contracts |-> AcceptedBy(a, contract)]
<1> DEFINE R == [c \in Contracts |-> SUBSET CallValues]
           F == Sections(Contracts, R)
           step == [a \in F |-> [c \in Contracts |-> AcceptedBy(a, c)]]
<1>1. F = [Contracts -> SUBSET CallValues]
  <2>1. \A f \in [Contracts -> SUBSET CallValues] : f \in F
    BY DEF Sections
  <2>2. \A f \in F : f \in [Contracts -> SUBSET CallValues]
    BY DEF Sections
  <2>3. QED
    BY <2>1, <2>2
<1>2. step \in [F -> F]
  <2>1. ASSUME NEW a \in F PROVE [c \in Contracts |-> AcceptedBy(a, c)] \in [Contracts -> SUBSET CallValues]
    <3>1. \A c \in Contracts : AcceptedBy(a, c) \subseteq CallValues
      BY DEF AcceptedBy
    <3>2. QED
      BY <3>1
  <2> HIDE DEF F
  <2>2. QED
    BY <1>1, <2>1
<1>3. ASSUME NEW a \in F, NEW b \in F, NEW c \in Contracts,
             \A d \in Contracts : Nesting[d] < Nesting[c] => a[d] = b[d]
      PROVE  step[a][c] = step[b][c]
  <2>1. c.is = "array" => a[c.element] = b[c.element]
    BY <1>3, ArrayParts
  <2>2. AcceptedBy(a, c) = AcceptedBy(b, c)
    BY <2>1 DEF AcceptedBy
  <2> HIDE DEF F
  <2>3. QED
    BY <2>2
<1>4. PICK a \in F : a = step[a]
  <2>1. \A c \in Contracts : R[c] # {}
    OBVIOUS
  <2> HIDE DEF R, step
  <2>2. \A f, g \in F, c \in Contracts :
            (\A d \in Contracts : Nesting[d] < Nesting[c] => f[d] = g[d]) => step[f][c] = step[g][c]
    <3> HIDE DEF F
    <3> QED
      BY <1>3
  <2>3. Nesting \in [Contracts -> Nat]
    BY ContractsAssumption
  <2>4. Descends(Contracts, Nesting, R, step)
    BY <1>2, <2>1, <2>2, <2>3 DEF Descends
  <2>5. QED
    BY <2>4, RecursionHasSolution
<1>5. a = [c \in Contracts |-> AcceptedBy(a, c)]
  <2> HIDE DEF F
  <2> QED
    BY <1>4
<1>6. QED
  BY <1>1, <1>4, <1>5

\* TypeMatches, unfolded once.
LEMMA AcceptedIs ==
  ASSUME NEW contract \in Contracts, NEW v \in CallValues
  PROVE  /\ contract = NoContract => TypeMatches(contract, v)
         /\ contract.is = "array" =>
               (TypeMatches(contract, v)
                  <=> v.is = "array" /\ \A i \in DOMAIN v.elements : TypeMatches(contract.element, v.elements[i]))
         /\ contract.is = "signature" =>
               (TypeMatches(contract, v) <=> v.is \in Callables /\ FunctionMatches(contract, v))
         /\ contract.is = "primitive" =>
               (TypeMatches(contract, v) <=> contract = AnyType \/ contract.name = PrimitiveNameOf(v))
<1>1. Accepted = [c \in Contracts |-> AcceptedBy(Accepted, c)]
  BY AcceptanceIsDefined DEF Accepted, AcceptedBy
<1>2. Accepted[contract] = AcceptedBy(Accepted, contract)
  BY <1>1
<1>3. TypeMatches(contract, v) <=> v \in AcceptedBy(Accepted, contract)
  BY <1>2 DEF TypeMatches
<1>4. NoContract.is = "none"
  BY DEF NoContract
<1>5. CASE contract = NoContract
  BY <1>3, <1>4, <1>5 DEF AcceptedBy
<1>6. CASE contract.is = "array"
  BY <1>3, <1>4, <1>6 DEF AcceptedBy, TypeMatches
<1>7. CASE contract.is = "signature"
  BY <1>3, <1>4, <1>7 DEF AcceptedBy
<1>8. CASE contract.is = "primitive"
  BY <1>3, <1>4, <1>8 DEF AcceptedBy
<1>9. QED
  BY <1>5, <1>6, <1>7, <1>8

LEMMA ValueShapes ==
  ASSUME NEW v \in CallValues
  PROVE  /\ v.is \in {"scalar", "array", "instance"} \cup Callables
         /\ v.is = "scalar" => v = Scalar(v.type)
         /\ v.is = "array" => \A i \in DOMAIN v.elements : v.elements[i] \in CallValues
         /\ v.is = "instance" => \A name \in DOMAIN v.fields : v.fields[name] \in CallValues
         /\ v.is \in Callables => v.signature \in Contracts /\ v.signature.is = "signature"
<1>1. IsValue(v)
  BY CallsAssumption
<1>2. v \in [is : {"scalar"}, type : STRING] => v.is = "scalar" /\ v = Scalar(v.type)
  BY DEF Scalar
<1>3. v.is = "array" /\ v.elements \in Seq(CallValues) => \A i \in DOMAIN v.elements : v.elements[i] \in CallValues
  OBVIOUS
<1>4. v.signature \in Signatures => v.signature.is = "signature"
  BY SignatureShape
<1>5. QED
  BY <1>1, <1>2, <1>3, <1>4 DEF IsValue, Callables

-----------------------------------------------------------------------------
(* Assignability composes.                                                 *)

Takes(x, y) == ContractAssignable[<<x, y>>]
Composes(x, y, z) == Takes(x, y) /\ Takes(y, z) => Takes(x, z)
Returns(x, y) == CallReturnAssignable(ContractAssignable, x, y)
NullType == Primitive("null")

\* Assignability, unfolded once.
LEMMA TakesIs ==
  ASSUME NEW x \in Contracts, NEW y \in Contracts
  PROVE  Takes(x, y) <=> AssignableBy(ContractAssignable, x, y)
BY AssignableIs DEF Takes

\* Assignability of results, written or omitted.
LEMMA ReturnsIs ==
  ASSUME NEW x, NEW y
  PROVE  Returns(x, y) <=> \/ x = NoContract /\ y \in {NoContract, NullType}
                           \/ y = NoContract /\ x \in {NoContract, NullType}
                           \/ x # NoContract /\ y # NoContract /\ Takes(x, y)
BY DEF Returns, CallReturnAssignable, Takes, NullType, NoContract, Primitive

\* What takes null, and what null takes.
LEMMA TakesNull ==
  ASSUME NEW x \in Contracts
  PROVE  /\ NullType \in Contracts => (Takes(x, NullType) <=> x \in {AnyType, NullType})
         /\ NullType \in Contracts => (Takes(NullType, x) <=> x = NullType)
         /\ ~Takes(NoContract, x) /\ ~Takes(x, NoContract)
<1>1. NoContract \in Contracts /\ x.is \in {"none", "primitive", "struct", "array", "signature"}
  BY ContractsAssumption, ContractKinds
<1>2. ~Takes(NoContract, x) /\ ~Takes(x, NoContract)
  BY <1>1, TakesIs DEF AssignableBy
<1>3. ASSUME NullType \in Contracts PROVE Takes(x, NullType) <=> x \in {AnyType, NullType}
  <2>1. Takes(x, NullType) <=> AssignableBy(ContractAssignable, x, NullType)
    BY <1>3, TakesIs
  <2>2. NullType.is = "primitive" /\ NullType # AnyType /\ NullType # NoContract
    BY DEF NullType, Primitive, AnyType, NoContract
  <2>3. (x.is = "array" \/ x.is = "signature") => x \notin {AnyType, NullType}
    BY DEF NullType, Primitive, AnyType
  <2>4. NoContract \notin {AnyType, NullType}
    BY DEF NullType, Primitive, AnyType, NoContract
  <2>5. QED
    BY <2>1, <2>2, <2>3, <2>4 DEF AssignableBy
<1>4. ASSUME NullType \in Contracts PROVE Takes(NullType, x) <=> x = NullType
  <2>1. Takes(NullType, x) <=> AssignableBy(ContractAssignable, NullType, x)
    BY <1>4, TakesIs
  <2>2. /\ NullType.is = "primitive" /\ NullType # AnyType /\ NullType # NoContract
        /\ NullType # Primitive("array") /\ NullType # Primitive("call")
    BY DEF NullType, Primitive, AnyType, NoContract
  <2>3. QED
    BY <2>1, <2>2 DEF AssignableBy
<1>5. QED
  BY <1>2, <1>3, <1>4

\* Results of signatures compose, but for the three that SpellingsAgree keeps
\* apart.
LEMMA ReturnsCompose ==
  ASSUME NEW x \in Contracts, NEW y \in Contracts, NEW z \in Contracts, Composes(x, y, z),
         ~(x = AnyType /\ y = NullType /\ z = NoContract),
         Returns(x, y), Returns(y, z)
  PROVE  Returns(x, z)
<1>1. NullType # NoContract
  BY DEF NullType, NoContract, Primitive
<1>2. CASE x = NoContract
  <2>1. y \in {NoContract, NullType}
    BY <1>2, ReturnsIs
  <2>2. z \in {NoContract, NullType}
    BY <2>1, <1>1, ReturnsIs, TakesNull
  <2>3. QED
    BY <2>2, <1>2, ReturnsIs
<1>3. CASE x # NoContract /\ y = NoContract
  <2>1. x = NullType /\ z \in {NoContract, NullType}
    BY <1>3, ReturnsIs
  <2>2. Takes(NullType, NullType)
    BY <2>1, TakesNull
  <2>3. QED
    BY <2>1, <2>2, <1>1, ReturnsIs
<1>4. CASE x # NoContract /\ y # NoContract /\ z = NoContract
  <2>1. y = NullType /\ Takes(x, NullType)
    BY <1>4, ReturnsIs
  <2>2. x = NullType
    BY <2>1, <1>4, TakesNull
  <2>3. QED
    BY <2>2, <1>4, ReturnsIs
<1>5. CASE x # NoContract /\ y # NoContract /\ z # NoContract
  BY <1>5, ReturnsIs DEF Composes
<1>6. QED
  BY <1>2, <1>3, <1>4, <1>5

\* No three signatures hold the results that break the chain.
LEMMA SpellingsKeptApart ==
  ASSUME SpellingsAgree, NEW a \in Contracts, NEW b \in Contracts, NEW c \in Contracts,
         a.is = "signature", b.is = "signature", c.is = "signature"
  PROVE  ~(a.success = AnyType /\ b.success = NullType /\ c.success = NoContract)
BY DEF SpellingsAgree, NullType

\* A signature that satisfies one that satisfies a third satisfies the third,
\* where their components compose: parameters the other way round.
LEMMA SignaturesCompose ==
  ASSUME SpellingsAgree, NEW a \in Contracts, NEW b \in Contracts, NEW c \in Contracts,
         a.is = "signature", b.is = "signature", c.is = "signature",
         \A x, y, z \in Contracts :
             \/ Nesting[x] < Nesting[a] /\ Nesting[y] < Nesting[b] /\ Nesting[z] < Nesting[c]
             \/ Nesting[x] < Nesting[c] /\ Nesting[y] < Nesting[b] /\ Nesting[z] < Nesting[a]
             => Composes(x, y, z),
         SignatureAssignable(ContractAssignable, a, b),
         SignatureAssignable(ContractAssignable, b, c)
  PROVE  SignatureAssignable(ContractAssignable, a, c)
<1>1. a \in Signatures /\ b \in Signatures /\ c \in Signatures
  BY ContractKinds
<1>2. Len(a.params) = Len(b.params) /\ Len(b.params) = Len(c.params)
      /\ DOMAIN a.params = DOMAIN b.params /\ DOMAIN b.params = DOMAIN c.params
  BY <1>1, SignatureShape DEF SignatureAssignable
<1>3. a.variadic = c.variadic
  BY DEF SignatureAssignable
<1>4. ASSUME NEW i \in DOMAIN a.params
      PROVE  ParameterAssignable(ContractAssignable, a.params[i], c.params[i])
  <2> DEFINE p == a.params[i]
             q == b.params[i]
             r == c.params[i]
  <2>1. ParameterAssignable(ContractAssignable, p, q) /\ ParameterAssignable(ContractAssignable, q, r)
    BY <1>2 DEF SignatureAssignable
  <2>2. p.type \in Contracts /\ q.type \in Contracts /\ r.type \in Contracts
    BY <1>1, <1>2, SignatureShape
  <2>3. Nesting[p.type] < Nesting[a] /\ Nesting[q.type] < Nesting[b] /\ Nesting[r.type] < Nesting[c]
    BY <1>1, <1>2, SignatureParts
  <2>4. Composes(r.type, q.type, p.type)
    <3> HIDE DEF p, q, r
    <3> QED
      BY <2>2, <2>3
  <2>5. p.name # "" => p.name = r.name
    <3> HIDE DEF p, q, r
    <3> QED
      BY <2>1 DEF ParameterAssignable
  <2>6. ASSUME r.type # NoContract PROVE Takes(r.type, p.type)
    <3> HIDE DEF p, q, r
    <3>1. Takes(r.type, q.type)
      BY <2>1, <2>6 DEF ParameterAssignable, Takes
    <3>2. q.type # NoContract
      BY <3>1, <2>2, TakesNull
    <3>3. Takes(q.type, p.type)
      BY <2>1, <3>2 DEF ParameterAssignable, Takes
    <3>4. QED
      BY <3>1, <3>3, <2>4 DEF Composes
  <2>7. QED
    BY <2>5, <2>6 DEF ParameterAssignable, Takes
<1>5. Returns(a.success, c.success)
  <2>1. a.success \in Contracts /\ b.success \in Contracts /\ c.success \in Contracts
    BY <1>1, SignatureShape
  <2>2. Nesting[a.success] < Nesting[a] /\ Nesting[b.success] < Nesting[b] /\ Nesting[c.success] < Nesting[c]
    BY SignatureParts
  <2>3. Composes(a.success, b.success, c.success)
    BY <2>1, <2>2
  <2>4. Returns(a.success, b.success) /\ Returns(b.success, c.success)
    BY DEF SignatureAssignable, CallReturnsAssignable, Returns
  <2>5. QED
    BY <2>1, <2>3, <2>4, ReturnsCompose, SpellingsKeptApart
<1>6. ASSUME NEW f \in c.errors PROVE \E e \in a.errors : Takes(e, f)
  <2>1. PICK d \in b.errors : Takes(d, f)
    BY DEF SignatureAssignable, CallReturnsAssignable, Takes
  <2>2. PICK e \in a.errors : Takes(e, d)
    BY DEF SignatureAssignable, CallReturnsAssignable, Takes
  <2>3. e \in Contracts /\ d \in Contracts /\ f \in Contracts
    BY <1>1, SignatureShape
  <2>4. Nesting[e] < Nesting[a] /\ Nesting[d] < Nesting[b] /\ Nesting[f] < Nesting[c]
    BY SignatureParts
  <2>5. Composes(e, d, f)
    BY <2>3, <2>4
  <2>6. QED
    BY <2>1, <2>2, <2>5 DEF Composes
<1>7. QED
  BY <1>2, <1>3, <1>4, <1>5, <1>6 DEF SignatureAssignable, CallReturnsAssignable, Returns, Takes

\* Contracts compose where all that are nested less do.
LEMMA ContractsComposeStep ==
  ASSUME SpellingsAgree, NEW a \in Contracts, NEW b \in Contracts, NEW c \in Contracts,
         \A x, y, z \in Contracts :
             Nesting[x] + Nesting[y] + Nesting[z] < Nesting[a] + Nesting[b] + Nesting[c] => Composes(x, y, z)
  PROVE  Composes(a, b, c)
<1> SUFFICES ASSUME Takes(a, b), Takes(b, c) PROVE Takes(a, c)
  BY DEF Composes
<1>1. /\ AssignableBy(ContractAssignable, a, b) /\ AssignableBy(ContractAssignable, b, c)
      /\ Takes(a, c) <=> AssignableBy(ContractAssignable, a, c)
  BY TakesIs
<1>2. ASSUME NEW x \in Contracts, NEW y \in Contracts, NEW z \in Contracts,
             \/ Nesting[x] < Nesting[a] /\ Nesting[y] < Nesting[b] /\ Nesting[z] < Nesting[c]
             \/ Nesting[x] < Nesting[c] /\ Nesting[y] < Nesting[b] /\ Nesting[z] < Nesting[a]
      PROVE  Composes(x, y, z)
  <2>1. /\ Nesting[x] \in Nat /\ Nesting[y] \in Nat /\ Nesting[z] \in Nat
        /\ Nesting[a] \in Nat /\ Nesting[b] \in Nat /\ Nesting[c] \in Nat
    BY ContractKinds
  <2>2. Nesting[x] + Nesting[y] + Nesting[z] < Nesting[a] + Nesting[b] + Nesting[c]
    BY <2>1, <1>2
  <2>3. QED
    BY <2>2
<1>3. a # NoContract /\ b # NoContract /\ c # NoContract
  BY <1>1 DEF AssignableBy
<1>4. CASE a = AnyType
  BY <1>1, <1>3, <1>4 DEF AssignableBy
<1>5. CASE a # AnyType
  <2>1. b # AnyType /\ c # AnyType
    BY <1>1, <1>5 DEF AssignableBy
  <2>2. CASE a.is = "array"
    <3>1. b.is = "array" /\ Takes(a.element, b.element)
      BY <1>1, <1>5, <2>1, <2>2 DEF AssignableBy, Takes
    <3>2. c.is = "array" /\ Takes(b.element, c.element)
      BY <1>1, <2>1, <3>1 DEF AssignableBy, Takes
    <3>3. a.element \in Contracts /\ b.element \in Contracts /\ c.element \in Contracts
      BY <2>2, <3>1, <3>2, ArrayParts
    <3>4. Nesting[a.element] < Nesting[a] /\ Nesting[b.element] < Nesting[b] /\ Nesting[c.element] < Nesting[c]
      BY <2>2, <3>1, <3>2, ArrayParts
    <3>5. Takes(a.element, c.element)
      BY <1>2, <3>1, <3>2, <3>3, <3>4 DEF Composes
    <3>6. QED
      BY <1>1, <1>3, <2>1, <2>2, <3>2, <3>5 DEF AssignableBy, Takes
  <2>3. CASE a.is # "array" /\ c.is = "array"
    <3>1. b.is = "array" \/ b = Primitive("array")
      BY <1>1, <2>1, <2>3 DEF AssignableBy
    <3>2. a = Primitive("array")
      <4>1. Primitive("array").is = "primitive"
        BY DEF Primitive
      <4>2. QED
        BY <1>1, <1>5, <2>1, <2>3, <3>1, <4>1 DEF AssignableBy
    <3>3. QED
      BY <1>1, <1>3, <2>1, <2>3, <3>2 DEF AssignableBy
  <2>4. CASE a.is # "array" /\ c.is # "array"
    <3>1. b.is # "array"
      BY <1>1, <2>1, <2>4 DEF AssignableBy
    <3>2. CASE a.is = "signature"
      <4>1. b.is = "signature" /\ SignatureAssignable(ContractAssignable, a, b)
        BY <1>1, <1>5, <2>1, <2>4, <3>1, <3>2 DEF AssignableBy
      <4>2. c.is = "signature" /\ SignatureAssignable(ContractAssignable, b, c)
        BY <1>1, <2>1, <2>4, <4>1 DEF AssignableBy
      <4>3. SignatureAssignable(ContractAssignable, a, c)
        BY <1>2, <3>2, <4>1, <4>2, SignaturesCompose
      <4>4. QED
        BY <1>1, <1>3, <2>1, <2>4, <3>2, <4>2, <4>3 DEF AssignableBy
    <3>3. CASE a.is # "signature" /\ c.is = "signature"
      <4>1. b.is = "signature" \/ b = Primitive("call")
        BY <1>1, <2>1, <2>4, <3>1, <3>3 DEF AssignableBy
      <4>2. Primitive("call").is = "primitive"
        BY DEF Primitive
      <4>3. a = Primitive("call")
        BY <1>1, <1>5, <2>1, <2>4, <3>1, <3>3, <4>1, <4>2 DEF AssignableBy
      <4>4. QED
        BY <1>1, <1>3, <2>1, <2>4, <3>3, <4>3 DEF AssignableBy
    <3>4. CASE a.is # "signature" /\ c.is # "signature"
      <4>1. b.is # "signature"
        BY <1>1, <2>1, <2>4, <3>1, <3>4 DEF AssignableBy
      <4>2. a = b /\ b = c
        BY <1>1, <1>5, <2>1, <2>4, <3>1, <3>4, <4>1 DEF AssignableBy
      <4>3. QED
        BY <4>2
    <3>5. QED
      BY <3>2, <3>3, <3>4
  <2>5. QED
    BY <2>2, <2>3, <2>4
<1>6. QED
  BY <1>4, <1>5

\* Assignability is transitive.
LEMMA ContractsCompose ==
  ASSUME SpellingsAgree PROVE \A a, b, c \in Contracts : Composes(a, b, c)
<1> DEFINE S == Contracts \X Contracts \X Contracts
           h == [t \in S |-> Nesting[t[1]] + Nesting[t[2]] + Nesting[t[3]]]
           T == {t \in S : Composes(t[1], t[2], t[3])}
<1>1. h \in [S -> Nat]
  BY ContractKinds
<1>2. ASSUME NEW t \in S, \A u \in S : h[u] < h[t] => u \in T PROVE t \in T
  <2>1. PICK a \in Contracts, b \in Contracts, c \in Contracts : t = <<a, b, c>>
    OBVIOUS
  <2>2. ASSUME NEW x \in Contracts, NEW y \in Contracts, NEW z \in Contracts,
               Nesting[x] + Nesting[y] + Nesting[z] < Nesting[a] + Nesting[b] + Nesting[c]
        PROVE  Composes(x, y, z)
    <3>1. <<x, y, z>> \in S /\ h[<<x, y, z>>] < h[t]
      BY <2>1, <2>2
    <3>2. <<x, y, z>> \in T
      <4> HIDE DEF S, h, T
      <4> QED
        BY <3>1, <1>2
    <3>3. QED
      BY <3>2
  <2>3. Composes(a, b, c)
    BY <2>2, ContractsComposeStep
  <2>4. QED
    BY <2>1, <2>3
<1>3. T = S
  <2>1. T \in SUBSET S
    OBVIOUS
  <2> HIDE DEF S, h, T
  <2>2. QED
    BY <1>1, <1>2, <2>1, MeasureInduction
<1>4. ASSUME NEW a \in Contracts, NEW b \in Contracts, NEW c \in Contracts PROVE Composes(a, b, c)
  <2>1. <<a, b, c>> \in T
    <3>1. <<a, b, c>> \in S
      OBVIOUS
    <3> HIDE DEF S, T
    <3>2. QED
      BY <3>1, <1>3
  <2>2. QED
    BY <2>1
<1>5. QED
  BY <1>4

-----------------------------------------------------------------------------
(* What a contract accepts, every contract that takes it accepts.          *)

Widens(target, supplied) ==
    \A v \in CallValues : TypeMatches(supplied, v) => TypeMatches(target, v)

\* A contract accepts what those it takes accept, where its components do.
LEMMA WidensStep ==
  ASSUME SpellingsAgree, NEW t \in Contracts, NEW s \in Contracts, Takes(t, s),
         \A x, y \in Contracts : Nesting[x] < Nesting[t] /\ Takes(x, y) => Widens(x, y)
  PROVE  Widens(t, s)
<1> SUFFICES ASSUME NEW v \in CallValues, TypeMatches(s, v) PROVE TypeMatches(t, v)
  BY DEF Widens
<1>1. AssignableBy(ContractAssignable, t, s)
  BY TakesIs
<1>2. CASE t = AnyType
  <2>1. t.is = "primitive"
    BY <1>2 DEF AnyType, Primitive
  <2>2. QED
    BY <1>2, <2>1, AcceptedIs
<1>3. CASE t # AnyType
  <2>1. s # AnyType
    BY <1>1, <1>3 DEF AssignableBy
  <2>2. CASE t.is = "array"
    <3>1. s.is = "array" /\ Takes(t.element, s.element)
      BY <1>1, <1>3, <2>2 DEF AssignableBy, Takes
    <3>2. t.element \in Contracts /\ s.element \in Contracts /\ Nesting[t.element] < Nesting[t]
      BY <2>2, <3>1, ArrayParts
    <3>3. Widens(t.element, s.element)
      BY <3>1, <3>2
    <3>4. v.is = "array" /\ \A i \in DOMAIN v.elements : TypeMatches(s.element, v.elements[i])
      BY <3>1, AcceptedIs
    <3>5. \A i \in DOMAIN v.elements : v.elements[i] \in CallValues
      BY <3>4, ValueShapes
    <3>6. QED
      BY <2>2, <3>3, <3>4, <3>5, AcceptedIs DEF Widens
  <2>3. CASE t.is # "array" /\ s.is = "array"
    <3>1. t = Primitive("array")
      BY <1>1, <1>3, <2>3 DEF AssignableBy
    <3>2. v.is = "array"
      BY <2>3, AcceptedIs
    <3>3. t.is = "primitive" /\ t.name = PrimitiveNameOf(v)
      BY <3>1, <3>2 DEF Primitive, PrimitiveNameOf, Callables
    <3>4. QED
      BY <3>3, AcceptedIs
  <2>4. CASE t.is = "signature" /\ s.is # "array"
    <3>1. s.is = "signature" /\ SignatureAssignable(ContractAssignable, t, s)
      BY <1>1, <1>3, <2>4 DEF AssignableBy
    <3>2. v.is \in Callables /\ FunctionMatches(s, v)
      BY <3>1, AcceptedIs
    <3>3. v.signature \in Contracts /\ v.signature.is = "signature"
      BY <3>2, ValueShapes
    <3>4. SignatureAssignable(ContractAssignable, t, v.signature)
      BY <2>4, <3>1, <3>2, <3>3, ContractsCompose, SignaturesCompose DEF FunctionMatches
    <3>5. QED
      BY <2>4, <3>2, <3>4, AcceptedIs DEF FunctionMatches
  <2>5. CASE t.is \notin {"array", "signature"} /\ s.is = "signature"
    <3>1. t = Primitive("call")
      BY <1>1, <1>3, <2>5 DEF AssignableBy
    <3>2. v.is \in Callables
      BY <2>5, AcceptedIs
    <3>3. t.is = "primitive" /\ t.name = PrimitiveNameOf(v)
      BY <3>1, <3>2 DEF Primitive, PrimitiveNameOf, Callables
    <3>4. QED
      BY <3>3, AcceptedIs
  <2>6. CASE t.is \notin {"array", "signature"} /\ s.is \notin {"array", "signature"}
    BY <1>1, <1>3, <2>6 DEF AssignableBy
  <2>7. QED
    BY <2>2, <2>3, <2>4, <2>5, <2>6
<1>4. QED
  BY <1>2, <1>3

\* A contract accepts every value of every contract it takes.
LEMMA TakersAccept ==
  ASSUME SpellingsAgree PROVE \A t, s \in Contracts : Takes(t, s) => Widens(t, s)
<1> DEFINE T == {t \in Contracts : \A s \in Contracts : Takes(t, s) => Widens(t, s)}
<1>1. ASSUME NEW t \in Contracts, \A x \in Contracts : Nesting[x] < Nesting[t] => x \in T PROVE t \in T
  <2>1. \A x, y \in Contracts : Nesting[x] < Nesting[t] /\ Takes(x, y) => Widens(x, y)
    BY <1>1
  <2>2. ASSUME NEW s \in Contracts, Takes(t, s) PROVE Widens(t, s)
    BY <2>1, <2>2, WidensStep
  <2>3. QED
    BY <2>2
<1>2. T = Contracts
  <2>1. T \in SUBSET Contracts /\ Nesting \in [Contracts -> Nat]
    BY ContractsAssumption
  <2> HIDE DEF T
  <2>2. QED
    BY <1>1, <2>1, MeasureInduction
<1>3. QED
  BY <1>2

-----------------------------------------------------------------------------
(* What the values of a call are.                                          *)

Occupancy == [from : Nat, whole : BOOLEAN, value : CallValues]

\* Arguments are bound in their order, each by one parameter whole or by
\* several by its fields.
Placed ==
    /\ \A i \in DOMAIN Params : bound[i].from <= taken /\ (bound[i].from = 0 <=> bound[i] = Unbound)
    /\ \A i \in DOMAIN Params \ Fixed : bound[i] = Unbound
    /\ \A i \in Fixed : bound[i] # Unbound => TypeMatches(Params[i].type, bound[i].value)
    /\ ~Variadic => \A n \in 1 .. taken : \E i \in Fixed : bound[i].from = n
    /\ \A i, j \in Fixed :
          i < j /\ bound[j] # Unbound /\ bound[j].whole =>
              bound[i] # Unbound /\ bound[i].from < bound[j].from
    /\ \A i, j \in Fixed :
          i # j /\ bound[i] # Unbound /\ bound[i].from = bound[j].from => ~bound[i].whole

\* What comes back through the slot.
ResultFits ==
    /\ at = "returned" =>
          IF slot.success = NoContract THEN result = Null ELSE TypeMatches(slot.success, result)
    /\ at = "raised" => MatchesDeclaredError(slot.errors, result)

\* The arguments of the slot, which are those of the function but for a method.
BoundInOrder ==
    /\ TypedFor(slot, given)
    /\ \A i \in Fixed :
          bound[i] = IF i <= taken THEN [from |-> i, whole |-> TRUE, value |-> given[i]] ELSE Unbound
    /\ at = "failed" => AllBound

ThroughSlot ==
    /\ slot \in Signatures /\ FunctionMatches(slot, fn) /\ ~fn.operator
    /\ fn.is # "method" => BoundInOrder
    /\ ResultFits

CallInv ==
    /\ at = "idle" => slot = NoContract
    /\ at # "idle" =>
          /\ fn.signature \in Signatures
          /\ given \in Seq(CallValues) /\ taken \in 0 .. Len(given)
          /\ bound \in [DOMAIN Params -> Occupancy]
          /\ Placed
          /\ at \notin {"binding", "failed"} => taken = Len(given) /\ AllBound
          /\ SpellingsAgree /\ slot # NoContract => ThroughSlot

LEMMA UnboundIs ==
  ASSUME NEW n \in Nat, NEW w, NEW v
  PROVE  /\ [from |-> n + 1, whole |-> w, value |-> v] # Unbound
         /\ Unbound \in Occupancy
         /\ Unbound.from = 0
BY CallsAssumption DEF Unbound, Occupancy

LEMMA ParamShapes ==
  ASSUME fn.signature \in Signatures
  PROVE  /\ Variadic \in BOOLEAN /\ Len(Params) \in Nat /\ DOMAIN Params = 1 .. Len(Params)
         /\ Fixed \subseteq DOMAIN Params
         /\ Fixed = IF Variadic THEN DOMAIN Params \ {Len(Params)} ELSE DOMAIN Params
         /\ Variadic => Len(Params) > 0
         /\ \A i \in DOMAIN Params : Params[i].type \in Contracts
<1>1. /\ Variadic \in BOOLEAN /\ Len(Params) \in Nat /\ DOMAIN Params = 1 .. Len(Params)
      /\ Variadic => Len(Params) > 0
      /\ \A i \in DOMAIN Params : Params[i].type \in Contracts
  BY SignatureShape DEF Variadic, Params
<1>2. 1 .. Len(Params) - 1 = (1 .. Len(Params)) \ {Len(Params)}
  BY <1>1
<1>3. QED
  BY <1>1, <1>2 DEF Fixed

\* A call starts with nothing bound.
LEMMA InitPlaces == CallIdle \/ CallInit => CallInv
<1>1. ASSUME CallIdle PROVE CallInv
  BY <1>1 DEF CallIdle, CallInv
<1>2. ASSUME NEW s, NEW f \in Functions, NEW args \in Arguments, StartCall(s, f, args),
             \/ s = NoContract
             \/ s \in Slots /\ ~f.operator /\ FunctionMatches(s, f) /\ TypedFor(s, args)
      PROVE  CallInv
  <2>1. /\ slot = s /\ fn = f /\ taken = 0 /\ at = "binding"
        /\ given = IF f.is = "method" THEN <<f.receiver>> \o args ELSE args
        /\ bound = [i \in DOMAIN Params |-> Unbound]
    BY <1>2 DEF StartCall, Params
  <2>2. fn.signature \in Signatures /\ given \in Seq(CallValues)
    <3>1. /\ f.signature \in Signatures /\ args \in Seq(CallValues)
          /\ f.is = "method" => f.receiver \in CallValues
      BY CallsAssumption
    <3>2. QED
      BY <2>1, <3>1
  <2>3. taken \in 0 .. Len(given)
    BY <2>1, <2>2
  <2>4. Unbound \in Occupancy /\ Unbound.from = 0
    BY UnboundIs
  <2>5. Fixed \subseteq DOMAIN Params /\ Variadic \in BOOLEAN /\ \A i \in Fixed : i > 0
    BY <2>2, ParamShapes
  <2>6. Placed
    BY <2>1, <2>4, <2>5 DEF Placed
  <2>7. ASSUME slot # NoContract PROVE ThroughSlot
    <3>1. /\ slot \in Signatures /\ FunctionMatches(slot, fn) /\ ~fn.operator
          /\ fn.is # "method" => TypedFor(slot, given)
      BY <1>2, <2>1, <2>7, CallsAssumption
    <3>2. \A i \in Fixed : ~(i <= taken) /\ bound[i] = Unbound
      BY <2>1, <2>2, <2>5, ParamShapes
    <3>3. QED
      BY <2>1, <3>1, <3>2 DEF ThroughSlot, BoundInOrder, ResultFits
  <2>8. QED
    BY <2>1, <2>2, <2>3, <2>4, <2>6, <2>7 DEF CallInv
<1>3. ASSUME CallInit PROVE CallInv
  BY <1>2, <1>3 DEF CallInit
<1>4. QED
  BY <1>1, <1>3

\* nextUnassignedParameter finds the first gap.
LEMMA NextUnassignedIs ==
  ASSUME fn.signature \in Signatures, bound \in [DOMAIN Params -> Occupancy]
  PROVE  /\ NextUnassigned(bound) \in 1 .. Len(Params) + 1
         /\ \A i \in DOMAIN Params : i < NextUnassigned(bound) => bound[i] # Unbound
         /\ NextUnassigned(bound) \in DOMAIN Params => bound[NextUnassigned(bound)] = Unbound
<1>1. DOMAIN Params = 1 .. Len(Params) /\ Len(Params) \in Nat
  BY ParamShapes
<1>2. DOMAIN bound = 1 .. Len(Params) /\ Len(bound) = Len(Params)
  BY <1>1
<1> DEFINE vacant == {i \in DOMAIN bound : bound[i] = Unbound}
<1>3. CASE vacant = {}
  <2>1. NextUnassigned(bound) = Len(Params) + 1
    BY <1>2, <1>3 DEF NextUnassigned
  <2>2. QED
    BY <1>1, <1>2, <1>3, <2>1
<1>4. CASE vacant # {}
  <2>1. vacant \in SUBSET Nat
    BY <1>2
  <2>2. \E i \in vacant : \A j \in vacant : i <= j
    <3> HIDE DEF vacant
    <3> QED
      BY <1>4, <2>1, LeastOf
  <2>3. NextUnassigned(bound) = CHOOSE i \in vacant : \A j \in vacant : i <= j
    BY <1>4 DEF NextUnassigned
  <2>4. NextUnassigned(bound) \in vacant /\ \A j \in vacant : NextUnassigned(bound) <= j
    <3> HIDE DEF vacant
    <3> QED
      BY <2>2, <2>3
  <2>5. ASSUME NEW i \in DOMAIN Params, i < NextUnassigned(bound) PROVE bound[i] # Unbound
    <3>1. i \in DOMAIN bound /\ i \in Nat /\ NextUnassigned(bound) \in Nat /\ ~(NextUnassigned(bound) <= i)
      BY <1>1, <1>2, <2>1, <2>4, <2>5
    <3>2. QED
      BY <2>4, <3>1
  <2>6. QED
    BY <1>1, <1>2, <2>4, <2>5
<1>5. QED
  BY <1>3, <1>4

\* What stays while arguments are bound.
LEMMA TakeKeeps ==
  ASSUME CallInv, Binding, NEW b, Take(b)
  PROVE  /\ fn.signature \in Signatures /\ given \in Seq(CallValues) /\ taken \in Nat /\ taken + 1 \in 1 .. Len(given)
         /\ bound \in [DOMAIN Params -> Occupancy] /\ Placed
         /\ SpellingsAgree /\ slot # NoContract => ThroughSlot
         /\ taken' = taken + 1 /\ bound' = b
         /\ at = "binding" /\ at' = "binding" /\ slot' = slot /\ fn' = fn /\ given' = given /\ result' = result
         /\ Params' = Params /\ Variadic' = Variadic /\ Fixed' = Fixed
         /\ Argument \in CallValues
<1>1. at = "binding" /\ taken < Len(given)
  BY DEF Binding
<1>2. /\ fn.signature \in Signatures /\ given \in Seq(CallValues) /\ taken \in 0 .. Len(given)
      /\ bound \in [DOMAIN Params -> Occupancy] /\ Placed
      /\ SpellingsAgree /\ slot # NoContract => ThroughSlot
  BY <1>1 DEF CallInv
<1>3. Len(given) \in Nat
  BY <1>2
<1>4. taken + 1 \in 1 .. Len(given) /\ taken \in Nat
  BY <1>1, <1>2, <1>3
<1>5. Argument \in CallValues
  BY <1>2, <1>4 DEF Argument
<1>6. /\ taken' = taken + 1 /\ bound' = b
      /\ at' = at /\ slot' = slot /\ fn' = fn /\ given' = given /\ result' = result
  BY DEF Take
<1>7. Params' = Params /\ Variadic' = Variadic /\ Fixed' = Fixed
  BY <1>6 DEF Params, Variadic, Fixed
<1>8. QED
  BY <1>1, <1>2, <1>4, <1>5, <1>6, <1>7

\* An argument taken whole fills the first gap with a value of its contract.
LEMMA WholePlaces ==
  ASSUME CallInv, BindWhole
  PROVE  bound' \in [DOMAIN Params -> Occupancy] /\ Placed'
<1> DEFINE p == NextUnassigned(bound)
           new == [from |-> taken + 1, whole |-> TRUE, value |-> Argument]
<1>1. Binding /\ p \in Fixed /\ TakesWhole(p) /\ Take([bound EXCEPT ![p] = new])
  BY DEF BindWhole
<1> HIDE DEF p
<1>2. /\ fn.signature \in Signatures /\ given \in Seq(CallValues) /\ taken \in Nat
      /\ bound \in [DOMAIN Params -> Occupancy] /\ Placed
      /\ taken' = taken + 1 /\ bound' = [bound EXCEPT ![p] = new]
      /\ Params' = Params /\ Variadic' = Variadic /\ Fixed' = Fixed
      /\ Argument \in CallValues
  BY <1>1, TakeKeeps
<1>3. Fixed \subseteq DOMAIN Params /\ DOMAIN Params = 1 .. Len(Params) /\ Len(Params) \in Nat
  BY <1>2, ParamShapes
<1>4. \A i \in DOMAIN Params : i < p => bound[i] # Unbound
  BY <1>2, NextUnassignedIs DEF p
<1>5. bound[p] = Unbound
  BY <1>1, <1>2, <1>3, NextUnassignedIs DEF p
<1>6. new \in Occupancy /\ new # Unbound /\ new.from = taken + 1 /\ new.whole /\ new.value = Argument
  BY <1>2, UnboundIs DEF Occupancy
<1>7. Unbound.from = 0
  BY UnboundIs
<1> HIDE DEF new
<1>8. \A i \in DOMAIN Params : bound'[i] = IF i = p THEN new ELSE bound[i]
  BY <1>1, <1>2, <1>3
<1>9. \A i \in DOMAIN Params : bound[i].from \in Nat
  BY <1>2 DEF Occupancy
<1>10. bound' \in [DOMAIN Params -> Occupancy]
  BY <1>1, <1>2, <1>3, <1>6
<1>11. \A i \in DOMAIN Params : bound'[i].from <= taken' /\ (bound'[i].from = 0 <=> bound'[i] = Unbound)
  BY <1>2, <1>6, <1>8, <1>9 DEF Placed
<1>12. \A i \in DOMAIN Params \ Fixed : bound'[i] = Unbound
  BY <1>1, <1>2, <1>8 DEF Placed
<1>13. \A i \in Fixed : bound'[i] # Unbound => TypeMatches(Params[i].type, bound'[i].value)
  BY <1>1, <1>2, <1>3, <1>6, <1>8 DEF Placed, TakesWhole
<1>14. ~Variadic => \A n \in 1 .. taken' : \E i \in Fixed : bound'[i].from = n
  <2> SUFFICES ASSUME ~Variadic, NEW n \in 1 .. taken + 1 PROVE \E i \in Fixed : bound'[i].from = n
    BY <1>2
  <2>1. CASE n = taken + 1
    BY <2>1, <1>1, <1>3, <1>6, <1>8
  <2>2. CASE n # taken + 1
    <3>1. n \in 1 .. taken
      BY <2>2, <1>2
    <3>2. PICK i \in Fixed : bound[i].from = n
      BY <3>1, <1>2 DEF Placed
    <3>3. i # p
      BY <3>1, <3>2, <1>5, <1>7
    <3>4. QED
      BY <3>2, <3>3, <1>3, <1>8
  <2>3. QED
    BY <2>1, <2>2
<1>15. ASSUME NEW i \in Fixed, NEW j \in Fixed, i < j, bound'[j] # Unbound, bound'[j].whole
       PROVE  bound'[i] # Unbound /\ bound'[i].from < bound'[j].from
  <2>1. CASE j = p
    <3>1. i # p /\ bound[i] # Unbound /\ bound[i].from <= taken /\ bound'[i] = bound[i]
      BY <2>1, <1>2, <1>3, <1>4, <1>8, <1>15 DEF Placed
    <3>2. QED
      BY <3>1, <2>1, <1>2, <1>3, <1>6, <1>8, <1>9
  <2>2. CASE j # p
    <3>1. bound[i] # Unbound /\ bound[i].from < bound[j].from /\ bound'[j] = bound[j]
      BY <2>2, <1>2, <1>3, <1>8, <1>15 DEF Placed
    <3>2. i # p
      BY <3>1, <1>5
    <3>3. QED
      BY <3>1, <3>2, <1>3, <1>8
  <2>3. QED
    BY <2>1, <2>2
<1>16. ASSUME NEW i \in Fixed, NEW j \in Fixed, i # j, bound'[i] # Unbound, bound'[i].from = bound'[j].from
       PROVE  ~bound'[i].whole
  <2>1. i # p
    <3>1. CASE i = p
      <4>1. bound'[j] = bound[j] /\ bound[j].from <= taken /\ bound'[i].from = taken + 1
        BY <3>1, <1>2, <1>3, <1>6, <1>8, <1>16 DEF Placed
      <4>2. QED
        BY <4>1, <1>2, <1>3, <1>9, <1>16
    <3>2. QED
      BY <3>1
  <2>2. j # p
    <3>1. CASE j = p
      <4>1. bound'[i] = bound[i] /\ bound[i].from <= taken /\ bound'[j].from = taken + 1
        BY <3>1, <1>2, <1>3, <1>6, <1>8, <1>16 DEF Placed
      <4>2. QED
        BY <4>1, <1>2, <1>3, <1>9, <1>16
    <3>2. QED
      BY <3>1
  <2>3. QED
    BY <2>1, <2>2, <1>2, <1>3, <1>8, <1>16 DEF Placed
<1>17. Placed'
  BY <1>2, <1>11, <1>12, <1>13, <1>14, <1>15, <1>16 DEF Placed
<1>18. QED
  BY <1>10, <1>17

\* Fields fill the parameters they are named for, the first gap among them.
LEMMA FieldsPlace ==
  ASSUME CallInv, Destructure
  PROVE  bound' \in [DOMAIN Params -> Occupancy] /\ Placed'
<1> DEFINE p == NextUnassigned(bound)
           O == Offered(p)
           new(i) == [from |-> taken + 1, whole |-> FALSE, value |-> Argument.fields[Params[i].name]]
<1>1. Binding /\ TakesFields(p) /\ Take([i \in DOMAIN bound |-> IF i \in O THEN new(i) ELSE bound[i]])
  BY DEF Destructure
<1>2. /\ fn.signature \in Signatures /\ given \in Seq(CallValues) /\ taken \in Nat
      /\ bound \in [DOMAIN Params -> Occupancy] /\ Placed
      /\ taken' = taken + 1 /\ bound' = [i \in DOMAIN bound |-> IF i \in O THEN new(i) ELSE bound[i]]
      /\ Params' = Params /\ Variadic' = Variadic /\ Fixed' = Fixed
      /\ Argument \in CallValues
  BY <1>1, TakeKeeps
<1>3. Fixed \subseteq DOMAIN Params /\ DOMAIN Params = 1 .. Len(Params) /\ Len(Params) \in Nat
  BY <1>2, ParamShapes
<1>4. /\ O # {} /\ O \subseteq Fixed /\ Argument.is = "instance"
      /\ \A i \in O : bound[i] = Unbound /\ Params[i].name \in DOMAIN Argument.fields
      /\ \A i \in O : TypeMatches(Params[i].type, Argument.fields[Params[i].name])
  BY <1>1 DEF TakesFields, Offered
<1>5. \A i \in O : Argument.fields[Params[i].name] \in CallValues
  BY <1>2, <1>4, ValueShapes
<1>6. \A i \in O : new(i) \in Occupancy /\ new(i) # Unbound /\ new(i).from = taken + 1 /\ ~new(i).whole
                   /\ new(i).value = Argument.fields[Params[i].name]
  BY <1>2, <1>5, UnboundIs DEF Occupancy
<1>7. Unbound.from = 0
  BY UnboundIs
<1> HIDE DEF new, O, p
<1>8. \A i \in DOMAIN Params : bound'[i] = IF i \in O THEN new(i) ELSE bound[i]
  BY <1>2
<1>9. \A i \in DOMAIN Params : bound[i].from \in Nat
  BY <1>2 DEF Occupancy
<1>10. bound' \in [DOMAIN Params -> Occupancy]
  BY <1>2, <1>6
<1>11. \A i \in DOMAIN Params : bound'[i].from <= taken' /\ (bound'[i].from = 0 <=> bound'[i] = Unbound)
  BY <1>2, <1>6, <1>8, <1>9 DEF Placed
<1>12. \A i \in DOMAIN Params \ Fixed : bound'[i] = Unbound
  BY <1>2, <1>4, <1>8 DEF Placed
<1>13. \A i \in Fixed : bound'[i] # Unbound => TypeMatches(Params[i].type, bound'[i].value)
  BY <1>2, <1>3, <1>4, <1>6, <1>8 DEF Placed
<1>14. ~Variadic => \A n \in 1 .. taken' : \E i \in Fixed : bound'[i].from = n
  <2> SUFFICES ASSUME ~Variadic, NEW n \in 1 .. taken + 1 PROVE \E i \in Fixed : bound'[i].from = n
    BY <1>2
  <2>1. CASE n = taken + 1
    <3>1. PICK i \in O : TRUE
      BY <1>4
    <3>2. i \in Fixed /\ bound'[i].from = n
      BY <3>1, <2>1, <1>3, <1>4, <1>6, <1>8
    <3>3. QED
      BY <3>2
  <2>2. CASE n # taken + 1
    <3>1. n \in 1 .. taken
      BY <2>2, <1>2
    <3>2. PICK i \in Fixed : bound[i].from = n
      BY <3>1, <1>2 DEF Placed
    <3>3. i \notin O
      BY <3>1, <3>2, <1>4, <1>7
    <3>4. QED
      BY <3>2, <3>3, <1>3, <1>8
  <2>3. QED
    BY <2>1, <2>2
<1>15. ASSUME NEW i \in Fixed, NEW j \in Fixed, i < j, bound'[j] # Unbound, bound'[j].whole
       PROVE  bound'[i] # Unbound /\ bound'[i].from < bound'[j].from
  <2>1. j \notin O /\ bound'[j] = bound[j]
    BY <1>3, <1>6, <1>8, <1>15
  <2>2. bound[i] # Unbound /\ bound[i].from < bound[j].from
    BY <2>1, <1>2, <1>15 DEF Placed
  <2>3. i \notin O
    BY <2>2, <1>4
  <2>4. QED
    BY <2>1, <2>2, <2>3, <1>3, <1>8
<1>16. ASSUME NEW i \in Fixed, NEW j \in Fixed, i # j, bound'[i] # Unbound, bound'[i].from = bound'[j].from
       PROVE  ~bound'[i].whole
  <2>1. CASE i \in O
    BY <2>1, <1>3, <1>6, <1>8
  <2>2. CASE i \notin O
    <3>1. bound'[i] = bound[i] /\ bound[i].from <= taken
      BY <2>2, <1>2, <1>3, <1>8 DEF Placed
    <3>2. j \notin O
      <4>1. CASE j \in O
        <5>1. bound'[j].from = taken + 1
          BY <4>1, <1>3, <1>6, <1>8
        <5>2. QED
          BY <5>1, <3>1, <1>2, <1>3, <1>9, <1>16
      <4>2. QED
        BY <4>1
    <3>3. bound'[j] = bound[j]
      BY <3>2, <1>3, <1>8
    <3>4. QED
      BY <3>1, <3>3, <1>2, <1>16 DEF Placed
  <2>3. QED
    BY <2>1, <2>2
<1>17. Placed'
  BY <1>2, <1>11, <1>12, <1>13, <1>14, <1>15, <1>16 DEF Placed
<1>18. QED
  BY <1>10, <1>17

\* An argument of the variadic parameter leaves the others alone.
LEMMA RestPlaces ==
  ASSUME CallInv, BindRest
  PROVE  bound' \in [DOMAIN Params -> Occupancy] /\ Placed'
<1>1. Binding /\ NextUnassigned(bound) \notin Fixed /\ TakesWhole(NextUnassigned(bound)) /\ Take(bound)
  BY DEF BindRest
<1>2. /\ fn.signature \in Signatures /\ taken \in Nat
      /\ bound \in [DOMAIN Params -> Occupancy] /\ Placed
      /\ taken' = taken + 1 /\ bound' = bound
      /\ Params' = Params /\ Variadic' = Variadic /\ Fixed' = Fixed
  BY <1>1, TakeKeeps
<1>3. Variadic
  BY <1>1, <1>2, ParamShapes DEF TakesWhole
<1>4. \A i \in DOMAIN Params : bound[i].from \in Nat
  BY <1>2 DEF Occupancy
<1>5. \A i \in DOMAIN Params : bound'[i].from <= taken' /\ (bound'[i].from = 0 <=> bound'[i] = Unbound)
  BY <1>2, <1>4 DEF Placed
<1>6. QED
  BY <1>2, <1>3, <1>5 DEF Placed

-----------------------------------------------------------------------------
(* Calls through a slot.                                                   *)

LEMMA SlotShape ==
  ASSUME ThroughSlot, fn.signature \in Signatures
  PROVE  /\ slot.params \in Seq(Parameters) /\ Len(slot.params) = Len(Params) /\ slot.variadic = Variadic
         /\ DOMAIN slot.params = DOMAIN Params
         /\ \A i \in DOMAIN Params :
               /\ slot.params[i].type \in Contracts
               /\ Params[i].type # NoContract => Takes(Params[i].type, slot.params[i].type)
         /\ slot.success \in Contracts /\ slot.errors \subseteq Contracts
         /\ Returns(slot.success, fn.signature.success)
         /\ \A failure \in fn.signature.errors : \E allowed \in slot.errors : Takes(allowed, failure)
<1>1. slot \in Signatures /\ SignatureAssignable(ContractAssignable, slot, fn.signature)
  BY DEF ThroughSlot, FunctionMatches
<1>2. /\ slot.params \in Seq(Parameters) /\ DOMAIN slot.params = 1 .. Len(slot.params)
      /\ \A i \in DOMAIN slot.params : slot.params[i].type \in Contracts
      /\ slot.success \in Contracts /\ slot.errors \subseteq Contracts
  BY <1>1, SignatureShape
<1>3. Len(slot.params) = Len(Params) /\ slot.variadic = Variadic
  BY <1>1 DEF SignatureAssignable, Params, Variadic
<1>4. DOMAIN slot.params = DOMAIN Params
  BY <1>2, <1>3, ParamShapes
<1>5. \A i \in DOMAIN Params : Params[i].type # NoContract => Takes(Params[i].type, slot.params[i].type)
  BY <1>1, <1>4 DEF SignatureAssignable, ParameterAssignable, Takes, Params
<1>6. /\ Returns(slot.success, fn.signature.success)
      /\ \A failure \in fn.signature.errors : \E allowed \in slot.errors : Takes(allowed, failure)
  BY <1>1 DEF SignatureAssignable, CallReturnsAssignable, Returns, Takes
<1>7. QED
  BY <1>2, <1>3, <1>4, <1>5, <1>6

\* An argument that the slot lets pass fits the parameter that is its turn.
LEMMA SlotArgument ==
  ASSUME SpellingsAgree, CallInv, Binding, slot # NoContract, fn.is # "method"
  PROVE  LET p == NextUnassigned(bound)
         IN /\ p = IF taken + 1 < Len(Params) THEN taken + 1 ELSE Len(Params)
            /\ TakesWhole(p)
            /\ p \in Fixed => p = taken + 1
            /\ p \notin Fixed => Variadic /\ taken + 1 >= Len(Params)
<1> DEFINE p == NextUnassigned(bound)
<1>1. at = "binding" /\ taken < Len(given) /\ (Variadic \/ Len(given) <= Len(Params))
  BY DEF Binding
<1>2. /\ fn.signature \in Signatures /\ given \in Seq(CallValues) /\ taken \in 0 .. Len(given)
      /\ bound \in [DOMAIN Params -> Occupancy] /\ Placed /\ ThroughSlot
  BY <1>1 DEF CallInv
<1>3. /\ Variadic \in BOOLEAN /\ Len(Params) \in Nat /\ DOMAIN Params = 1 .. Len(Params)
      /\ Fixed = IF Variadic THEN DOMAIN Params \ {Len(Params)} ELSE DOMAIN Params
      /\ Variadic => Len(Params) > 0
      /\ \A i \in DOMAIN Params : Params[i].type \in Contracts
  BY <1>2, ParamShapes
<1>4. taken \in Nat /\ Len(given) \in Nat /\ taken + 1 \in 1 .. Len(given)
  BY <1>1, <1>2
<1>5. /\ p \in 1 .. Len(Params) + 1
      /\ \A i \in DOMAIN Params : i < p => bound[i] # Unbound
      /\ p \in DOMAIN Params => bound[p] = Unbound
  BY <1>2, NextUnassignedIs
<1>6. \A i \in Fixed : bound[i] = IF i <= taken THEN [from |-> i, whole |-> TRUE, value |-> given[i]] ELSE Unbound
  BY <1>2 DEF ThroughSlot, BoundInOrder
<1>7. ASSUME NEW i \in Fixed, i <= taken PROVE bound[i] # Unbound
  <2>1. bound[i].from = i /\ i > 0
    <3>1. bound[i] = [from |-> i, whole |-> TRUE, value |-> given[i]]
      BY <1>6, <1>7
    <3>2. QED
      BY <3>1, <1>3
  <2>2. Unbound.from = 0
    BY UnboundIs
  <2>3. QED
    BY <2>1, <2>2, <1>3
<1>8. ~Variadic => Len(given) = Len(Params)
  BY <1>2, SlotShape DEF ThroughSlot, BoundInOrder, TypedFor
<1> HIDE DEF p
<1> DEFINE turn == IF taken + 1 < Len(Params) THEN taken + 1 ELSE Len(Params)
<1>9. turn \in DOMAIN Params /\ (turn \in Fixed => turn = taken + 1) /\ (turn \notin Fixed => Variadic /\ taken + 1 >= Len(Params))
  BY <1>1, <1>3, <1>4, <1>8
<1>10. bound[turn] = Unbound
  <2>1. CASE turn \in Fixed
    <3>1. turn = taken + 1
      BY <2>1, <1>9
    <3> HIDE DEF turn
    <3>2. turn \in Nat /\ ~(turn <= taken)
      BY <3>1, <1>4
    <3>3. QED
      BY <2>1, <3>2, <1>6
  <2>2. CASE turn \notin Fixed
    BY <2>2, <1>2, <1>9 DEF Placed
  <2>3. QED
    BY <2>1, <2>2
<1>11. ASSUME NEW i \in DOMAIN Params, i < turn PROVE bound[i] # Unbound
  <2>1. i \in Fixed /\ i <= taken
    BY <1>3, <1>4, <1>11
  <2>2. QED
    BY <2>1, <1>7
<1>12. p = turn
  <2>1. turn \in Nat /\ p \in Nat
    BY <1>3, <1>4, <1>5
  <2>2. ~(turn < p)
    BY <1>5, <1>9, <1>10
  <2>3. ~(p < turn)
    <3>1. CASE p < turn
      <4>1. p \in DOMAIN Params
        BY <3>1, <1>3, <1>5, <1>9
      <4>2. QED
        BY <3>1, <4>1, <1>5, <1>11
    <3>2. QED
      BY <3>1
  <2>4. QED
    BY <2>1, <2>2, <2>3
<1>13. TypeMatches(slot.params[turn].type, Argument)
  <2>1. Len(slot.params) = Len(Params) /\ slot.variadic = Variadic
    BY <1>2, SlotShape
  <2>2. taken + 1 \in DOMAIN given
    BY <1>2, <1>4
  <2>3. TypeMatches(slot.params[IF taken + 1 < Len(slot.params) THEN taken + 1 ELSE Len(slot.params)].type, given[taken + 1])
    BY <1>2, <2>2 DEF ThroughSlot, BoundInOrder, TypedFor
  <2>4. QED
    BY <2>1, <2>3 DEF Argument
<1>14. Argument \in CallValues
  BY <1>2, <1>4 DEF Argument
<1>15. TypeMatches(Params[turn].type, Argument)
  <2> HIDE DEF turn
  <2>1. slot.params[turn].type \in Contracts /\ Params[turn].type \in Contracts
    BY <1>2, <1>3, <1>9, SlotShape
  <2>2. CASE Params[turn].type = NoContract
    BY <2>1, <2>2, <1>14, AcceptedIs
  <2>3. CASE Params[turn].type # NoContract
    <3>1. Takes(Params[turn].type, slot.params[turn].type)
      BY <2>3, <1>2, <1>9, SlotShape
    <3>2. Widens(Params[turn].type, slot.params[turn].type)
      BY <2>1, <3>1, TakersAccept
    <3>3. QED
      BY <3>2, <1>13, <1>14 DEF Widens
  <2>4. QED
    BY <2>2, <2>3
<1>16. TakesWhole(turn)
  BY <1>9, <1>15 DEF TakesWhole
<1>17. QED
  BY <1>9, <1>12, <1>16 DEF p

\* Through a slot the arguments of a function are taken whole and in order.
LEMMA SlotTakes ==
  ASSUME SpellingsAgree, CallInv, slot # NoContract, BindWhole \/ BindRest, fn.is # "method"
  PROVE  ThroughSlot'
<1> DEFINE p == NextUnassigned(bound)
           new == [from |-> taken + 1, whole |-> TRUE, value |-> Argument]
           next == IF BindWhole THEN [bound EXCEPT ![p] = new] ELSE bound
<1>1. CASE BindWhole
  <2>1. Binding /\ p \in Fixed /\ Take([bound EXCEPT ![p] = new])
    BY <1>1 DEF BindWhole
  <2> HIDE DEF p, new
  <2>2. /\ fn.signature \in Signatures /\ taken \in Nat /\ bound \in [DOMAIN Params -> Occupancy] /\ ThroughSlot
        /\ taken' = taken + 1 /\ bound' = [bound EXCEPT ![p] = new]
        /\ at = "binding" /\ at' = "binding" /\ slot' = slot /\ fn' = fn /\ given' = given /\ result' = result
        /\ Fixed' = Fixed
    BY <2>1, TakeKeeps
  <2>3. p = taken + 1
    BY <2>1, SlotArgument DEF p
  <2>4. new = [from |-> taken + 1, whole |-> TRUE, value |-> given[taken + 1]]
    BY DEF new, Argument
  <2>5. Fixed \subseteq DOMAIN Params /\ \A i \in Fixed : i \in Nat
    BY <2>2, ParamShapes
  <2>6. ASSUME NEW i \in Fixed
        PROVE  bound'[i] = IF i <= taken + 1 THEN [from |-> i, whole |-> TRUE, value |-> given[i]] ELSE Unbound
    <3>1. bound'[i] = IF i = p THEN new ELSE bound[i]
      BY <2>1, <2>2, <2>5
    <3>2. bound[i] = IF i <= taken THEN [from |-> i, whole |-> TRUE, value |-> given[i]] ELSE Unbound
      BY <2>2 DEF ThroughSlot, BoundInOrder
    <3>3. i # p => (i <= taken + 1 <=> i <= taken)
      BY <2>2, <2>3, <2>5
    <3>4. i = p => i <= taken + 1
      BY <2>2, <2>3
    <3>5. QED
      BY <3>1, <3>2, <3>3, <3>4, <2>3, <2>4
  <2>7. QED
    <3>1. slot' \in Signatures /\ FunctionMatches(slot', fn') /\ ~fn'.operator /\ TypedFor(slot', given')
      BY <2>2 DEF ThroughSlot, BoundInOrder
    <3>2. \A i \in Fixed' :
              bound'[i] = IF i <= taken' THEN [from |-> i, whole |-> TRUE, value |-> given'[i]] ELSE Unbound
      BY <2>2, <2>6
    <3>3. at' \notin {"failed", "returned", "raised"}
      BY <2>2
    <3>4. QED
      BY <3>1, <3>2, <3>3 DEF ThroughSlot, BoundInOrder, ResultFits
<1>2. CASE BindRest
  <2>1. Binding /\ p \notin Fixed /\ Take(bound)
    BY <1>2 DEF BindRest
  <2> HIDE DEF p
  <2>2. /\ fn.signature \in Signatures /\ taken \in Nat /\ bound \in [DOMAIN Params -> Occupancy] /\ ThroughSlot
        /\ taken' = taken + 1 /\ bound' = bound
        /\ at = "binding" /\ at' = "binding" /\ slot' = slot /\ fn' = fn /\ given' = given /\ result' = result
        /\ Fixed' = Fixed
    BY <2>1, TakeKeeps
  <2>3. Variadic /\ taken + 1 >= Len(Params)
    BY <2>1, SlotArgument DEF p
  <2>4. \A i \in Fixed : i \in Nat /\ i <= taken /\ i <= taken + 1
    BY <2>2, <2>3, ParamShapes
  <2>5. \A i \in Fixed : bound'[i] = IF i <= taken + 1 THEN [from |-> i, whole |-> TRUE, value |-> given[i]] ELSE Unbound
    BY <2>2, <2>4 DEF ThroughSlot, BoundInOrder
  <2>6. QED
    <3>1. slot' \in Signatures /\ FunctionMatches(slot', fn') /\ ~fn'.operator /\ TypedFor(slot', given')
      BY <2>2 DEF ThroughSlot, BoundInOrder
    <3>2. \A i \in Fixed' :
              bound'[i] = IF i <= taken' THEN [from |-> i, whole |-> TRUE, value |-> given'[i]] ELSE Unbound
      BY <2>2, <2>5
    <3>3. at' \notin {"failed", "returned", "raised"}
      BY <2>2
    <3>4. QED
      BY <3>1, <3>2, <3>3 DEF ThroughSlot, BoundInOrder, ResultFits
<1>3. QED
  BY <1>1, <1>2

\* And what came back through it is not touched.
LEMMA MethodTakes ==
  ASSUME SpellingsAgree, CallInv, slot # NoContract, Binding, \E b : Take(b), fn.is = "method"
  PROVE  ThroughSlot'
<1>1. /\ ThroughSlot /\ at' = "binding" /\ slot' = slot /\ fn' = fn
  BY TakeKeeps
<1>2. slot' \in Signatures /\ FunctionMatches(slot', fn') /\ ~fn'.operator /\ fn'.is = "method"
  BY <1>1 DEF ThroughSlot
<1>3. at' \notin {"failed", "returned", "raised"}
  BY <1>1
<1>4. QED
  BY <1>2, <1>3 DEF ThroughSlot, ResultFits

\* Through a slot no argument of a function is taken apart, too many or too few.
LEMMA SlotBinds ==
  ASSUME SpellingsAgree, CallInv, slot # NoContract, fn.is # "method"
  PROVE  ~Destructure /\ ~BindingFails /\ ~TooManyArguments /\ ~TooFewArguments
<1>1. ~Destructure
  BY SlotArgument DEF Destructure, TakesFields
<1>2. ~BindingFails
  BY SlotArgument DEF BindingFails
<1>3. ASSUME TooManyArguments PROVE FALSE
  <2>1. at = "binding" /\ ~Variadic /\ Len(given) > Len(Params)
    BY <1>3 DEF TooManyArguments
  <2>2. fn.signature \in Signatures /\ given \in Seq(CallValues) /\ ThroughSlot
    BY <2>1 DEF CallInv
  <2>3. Len(given) = Len(Params) /\ Len(Params) \in Nat
    BY <2>1, <2>2, SlotShape, ParamShapes DEF ThroughSlot, BoundInOrder, TypedFor
  <2>4. QED
    BY <2>1, <2>3
<1>4. ASSUME TooFewArguments PROVE FALSE
  <2>1. at = "binding" /\ taken = Len(given) /\ ~AllBound
    BY <1>4 DEF TooFewArguments
  <2>2. fn.signature \in Signatures /\ given \in Seq(CallValues) /\ ThroughSlot
    BY <2>1 DEF CallInv
  <2>3. IF Variadic THEN Len(given) >= Len(Params) - 1 ELSE Len(given) = Len(Params)
    BY <2>2, SlotShape DEF ThroughSlot, BoundInOrder, TypedFor
  <2>4. Len(given) \in Nat /\ \A i \in Fixed : i \in Nat /\ i > 0 /\ i <= taken
    BY <2>1, <2>2, <2>3, ParamShapes
  <2>5. ASSUME NEW i \in Fixed PROVE bound[i] # Unbound
    <3>1. bound[i] = [from |-> i, whole |-> TRUE, value |-> given[i]]
      BY <2>2, <2>4 DEF ThroughSlot, BoundInOrder
    <3>2. bound[i].from = i /\ Unbound.from = 0
      BY <3>1, UnboundIs
    <3>3. QED
      BY <3>2, <2>4
  <2>6. QED
    BY <2>1, <2>5 DEF AllBound
<1>5. QED
  BY <1>1, <1>2, <1>3, <1>4

\* A failure the function lists is one that the slot lists.
LEMMA SlotErrors ==
  ASSUME SpellingsAgree, ThroughSlot, fn.signature \in Signatures, NEW v \in CallValues,
         MatchesDeclaredError(fn.signature.errors, v)
  PROVE  MatchesDeclaredError(slot.errors, v)
<1>1. PICK failure \in fn.signature.errors : TypeMatches(failure, v)
  BY DEF MatchesDeclaredError
<1>2. PICK allowed \in slot.errors : Takes(allowed, failure)
  BY SlotShape
<1>3. failure \in Contracts /\ allowed \in Contracts
  BY SlotShape, SignatureShape
<1>4. TypeMatches(allowed, v)
  BY <1>1, <1>2, <1>3, TakersAccept DEF Widens
<1>5. QED
  BY <1>4 DEF MatchesDeclaredError

\* Only null satisfies null.
LEMMA NullMatches ==
  ASSUME NEW v \in CallValues, NullType \in Contracts
  PROVE  TypeMatches(NullType, v) <=> v = Null
<1>1. NullType.is = "primitive" /\ NullType # AnyType /\ NullType.name = "null"
  BY DEF NullType, Primitive, AnyType
<1>2. TypeMatches(NullType, v) <=> PrimitiveNameOf(v) = "null"
  BY <1>1, AcceptedIs
<1>3. v.is = "scalar" => v = Scalar(v.type)
  BY ValueShapes
<1>4. PrimitiveNameOf(v) = "null" <=> v.is = "scalar" /\ v.type = "null"
  BY ValueShapes DEF PrimitiveNameOf, Callables
<1>5. Null.is = "scalar" /\ Null.type = "null" /\ Null = Scalar("null")
  BY DEF Null, Scalar
<1>6. QED
  BY <1>2, <1>3, <1>4, <1>5

\* A success of the function is one of the slot.
LEMMA SlotSuccess ==
  ASSUME SpellingsAgree, ThroughSlot, fn.signature \in Signatures, NEW v \in CallValues,
         IF fn.signature.success = NoContract THEN v = Null ELSE TypeMatches(fn.signature.success, v)
  PROVE  IF slot.success = NoContract THEN v = Null ELSE TypeMatches(slot.success, v)
<1>1. fn.signature.success \in Contracts /\ slot.success \in Contracts
  BY SlotShape, SignatureShape
<1>2. Returns(slot.success, fn.signature.success)
  BY SlotShape
<1>3. CASE slot.success = NoContract
  <2>1. fn.signature.success \in {NoContract, NullType}
    BY <1>2, <1>3, ReturnsIs
  <2>2. QED
    BY <2>1, <1>1, <1>3, NullMatches
<1>4. CASE slot.success # NoContract /\ fn.signature.success = NoContract
  <2>1. slot.success = NullType /\ v = Null
    BY <1>2, <1>4, ReturnsIs
  <2>2. QED
    BY <2>1, <1>1, <1>4, NullMatches
<1>5. CASE slot.success # NoContract /\ fn.signature.success # NoContract
  <2>1. Takes(slot.success, fn.signature.success)
    BY <1>2, <1>5, ReturnsIs
  <2>2. QED
    BY <2>1, <1>1, <1>5, TakersAccept DEF Widens
<1>6. QED
  BY <1>3, <1>4, <1>5

\* What a body returns fits the slot.
LEMMA ReturnFits ==
  ASSUME SpellingsAgree, CallInv, slot # NoContract, NEW v \in Results, Return(v)
  PROVE  ResultFits'
<1>1. at = "running"
  BY DEF Return
<1>2. fn.signature \in Signatures /\ ThroughSlot
  BY <1>1 DEF CallInv
<1>3. ~fn.operator /\ v \in CallValues /\ Null \in CallValues
  BY <1>2, CallsAssumption DEF ThroughSlot
<1>4. CASE Void
  <2>1. at' = "returned" /\ result' = Null /\ slot' = slot
    BY <1>1, <1>4 DEF Return, Leave
  <2>2. fn.signature.success = NoContract
    BY <1>4 DEF Void
  <2>3. IF slot.success = NoContract THEN Null = Null ELSE TypeMatches(slot.success, Null)
    BY <2>2, <1>2, <1>3, SlotSuccess
  <2>4. QED
    BY <2>1, <2>3 DEF ResultFits
<1>5. CASE ~Void /\ ~ReturnTypeHolds(fn.signature, v)
  <2>1. at' = "failed"
    BY <1>1, <1>3, <1>5 DEF Return, Leave
  <2>2. QED
    BY <2>1 DEF ResultFits
<1>6. CASE ~Void /\ ReturnTypeHolds(fn.signature, v) /\ MatchesDeclaredError(fn.signature.errors, v)
  <2>1. at' = "raised" /\ result' = v /\ slot' = slot
    BY <1>1, <1>3, <1>6 DEF Return, Leave
  <2>2. MatchesDeclaredError(slot.errors, v)
    BY <1>2, <1>3, <1>6, SlotErrors
  <2>3. QED
    BY <2>1, <2>2 DEF ResultFits
<1>7. CASE ~Void /\ ReturnTypeHolds(fn.signature, v) /\ ~MatchesDeclaredError(fn.signature.errors, v)
  <2>1. at' = "returned" /\ result' = v /\ slot' = slot
    BY <1>1, <1>3, <1>7 DEF Return, Leave
  <2>2. IF fn.signature.success = NoContract THEN v = Null ELSE TypeMatches(fn.signature.success, v)
    BY <1>7 DEF ReturnTypeHolds
  <2>3. IF slot.success = NoContract THEN v = Null ELSE TypeMatches(slot.success, v)
    BY <2>2, <1>2, <1>3, SlotSuccess
  <2>4. QED
    BY <2>1, <2>3 DEF ResultFits
<1>8. QED
  BY <1>4, <1>5, <1>6, <1>7

-----------------------------------------------------------------------------
(* The invariant of a call.                                                *)

\* What stays when a call fails, enters its body or leaves.
LEMMA LeaveCallKeeps ==
  ASSUME CallInv, at \in {"binding", "running"}, UNCHANGED <<slot, fn, given, taken, bound>>,
         at' # "idle",
         at' \notin {"binding", "failed"} => taken = Len(given) /\ AllBound,
         SpellingsAgree /\ slot # NoContract =>
            ResultFits' /\ (fn.is # "method" /\ at' = "failed" => AllBound)
  PROVE  CallInv'
<1>1. /\ fn.signature \in Signatures
      /\ given \in Seq(CallValues) /\ taken \in 0 .. Len(given)
      /\ bound \in [DOMAIN Params -> Occupancy]
      /\ Placed
      /\ SpellingsAgree /\ slot # NoContract => ThroughSlot
  BY DEF CallInv
<1>2. Params' = Params /\ Variadic' = Variadic /\ Fixed' = Fixed
  BY DEF Params, Variadic, Fixed
<1>3. Placed' /\ (AllBound' <=> AllBound)
  BY <1>1, <1>2 DEF Placed, AllBound
<1>4. ASSUME SpellingsAgree, slot # NoContract PROVE ThroughSlot'
  <2>1. slot' \in Signatures /\ FunctionMatches(slot', fn') /\ ~fn'.operator
    BY <1>1, <1>4 DEF ThroughSlot
  <2>2. ASSUME fn'.is # "method" PROVE BoundInOrder'
    <3>1. TypedFor(slot', given') /\ fn.is # "method"
      BY <1>1, <1>4, <2>2 DEF ThroughSlot, BoundInOrder
    <3>2. \A i \in Fixed' :
              bound'[i] = IF i <= taken' THEN [from |-> i, whole |-> TRUE, value |-> given'[i]] ELSE Unbound
      BY <1>1, <1>2, <1>4, <2>2 DEF ThroughSlot, BoundInOrder
    <3>3. QED
      BY <3>1, <3>2, <1>3, <1>4 DEF BoundInOrder
  <2>3. QED
    BY <2>1, <2>2, <1>4 DEF ThroughSlot
<1>5. QED
  BY <1>1, <1>2, <1>3, <1>4 DEF CallInv

\* Binding one argument keeps the invariant of a call.
LEMMA TakePreserves ==
  ASSUME CallInv, BindWhole \/ BindRest \/ Destructure
  PROVE  CallInv'
<1>1. Binding /\ \E b : Take(b)
  BY DEF BindWhole, BindRest, Destructure
<1>2. /\ fn.signature \in Signatures /\ given \in Seq(CallValues) /\ taken + 1 \in 1 .. Len(given)
      /\ taken' = taken + 1 /\ at' = "binding" /\ slot' = slot /\ fn' = fn /\ given' = given
      /\ Params' = Params
  BY <1>1, TakeKeeps
<1>3. bound' \in [DOMAIN Params -> Occupancy] /\ Placed'
  BY WholePlaces, RestPlaces, FieldsPlace
<1>4. SpellingsAgree /\ slot # NoContract => ThroughSlot'
  BY <1>1, SlotTakes, SlotBinds, MethodTakes
<1>5. taken' \in 0 .. Len(given')
  BY <1>2
<1>6. QED
  BY <1>2, <1>3, <1>4, <1>5 DEF CallInv

\* Every step of a call keeps its invariant.
LEMMA CallNextKeeps ==
  ASSUME CallInv, [CallNext]_callVars
  PROVE  CallInv'
<1>1. CASE UNCHANGED callVars
  BY <1>1 DEF callVars, CallInv, Placed, ThroughSlot, BoundInOrder, ResultFits, Params, Variadic, Fixed, AllBound, FunctionMatches, TypedFor
<1>2. CASE TooManyArguments \/ BindingFails \/ TooFewArguments
  <2>1. Fail /\ at = "binding"
    BY <1>2 DEF TooManyArguments, BindingFails, TooFewArguments, Binding
  <2>2. SpellingsAgree /\ slot # NoContract => fn.is = "method"
    BY <1>2, SlotBinds
  <2>3. at' = "failed" /\ UNCHANGED <<slot, fn, given, taken, bound>> /\ ResultFits'
    BY <2>1 DEF Fail, ResultFits
  <2>4. QED
    BY <2>1, <2>2, <2>3, LeaveCallKeeps
<1>3. CASE BindWhole \/ BindRest \/ Destructure
  BY <1>3, TakePreserves
<1>4. CASE EnterBody
  <2>1. /\ at = "binding" /\ taken = Len(given) /\ AllBound /\ at' = "running"
        /\ UNCHANGED <<slot, fn, given, taken, bound>>
    BY <1>4 DEF EnterBody
  <2>2. ResultFits'
    BY <2>1 DEF ResultFits
  <2>3. QED
    BY <2>1, <2>2, LeaveCallKeeps
<1>5. ASSUME NEW v \in Results, Return(v) PROVE CallInv'
  <2>1. at = "running" /\ at' \in {"returned", "failed", "raised"} /\ UNCHANGED <<slot, fn, given, taken, bound>>
    BY <1>5 DEF Return, Leave
  <2>2. taken = Len(given) /\ AllBound
    BY <2>1 DEF CallInv
  <2>3. SpellingsAgree /\ slot # NoContract => ResultFits'
    BY <1>5, ReturnFits
  <2>4. QED
    BY <2>1, <2>2, <2>3, LeaveCallKeeps
<1>6. QED
  BY <1>1, <1>2, <1>3, <1>4, <1>5 DEF CallNext

\* The invariant says of calls through slots what SlotCallsBind says.
LEMMA SlotCallsProved == ASSUME SpellingsAgree, CallInv PROVE SlotCallsBind
<1> SUFFICES ASSUME fn.is # "method", slot # NoContract, at # "idle"
             PROVE  /\ at = "failed" => AllBound
                    /\ \A i \in Fixed : bound[i] # Unbound => bound[i].whole /\ bound[i].value = given[i]
  BY DEF SlotCallsBind, EveryCallableBinds
<1>1. BoundInOrder
  BY DEF CallInv, ThroughSlot
<1>2. ASSUME NEW i \in Fixed, bound[i] # Unbound PROVE bound[i].whole /\ bound[i].value = given[i]
  <2>1. bound[i] = [from |-> i, whole |-> TRUE, value |-> given[i]]
    BY <1>1, <1>2 DEF BoundInOrder
  <2>2. QED
    BY <2>1
<1>3. QED
  BY <1>1, <1>2 DEF BoundInOrder

\* And of their results what SlotResultsFit says.
LEMMA SlotResultsProved == ASSUME SpellingsAgree, CallInv PROVE SlotResultsFit
BY DEF SlotResultsFit, CallInv, ThroughSlot, ResultFits

\* And of every call what ArgumentsAreUsed says.
LEMMA ArgumentsProved == ASSUME CallInv PROVE ArgumentsAreUsed
<1> SUFFICES ASSUME at = "running"
             PROVE  /\ \A i \in Fixed : bound[i] # Unbound /\ TypeMatches(Params[i].type, bound[i].value)
                    /\ ~Variadic => {bound[i].from : i \in Fixed} = DOMAIN given
                    /\ \A i, j \in Fixed : i < j /\ bound[i].whole /\ bound[j].whole =>
                           bound[i].from < bound[j].from
                    /\ \A i, j \in Fixed : i # j /\ bound[i].from = bound[j].from => ~bound[i].whole
  BY DEF ArgumentsAreUsed
<1>1. /\ fn.signature \in Signatures /\ given \in Seq(CallValues) /\ taken = Len(given)
      /\ bound \in [DOMAIN Params -> Occupancy] /\ Placed /\ AllBound
  BY DEF CallInv
<1>2. \A i \in Fixed : bound[i] # Unbound
  BY <1>1 DEF AllBound
<1>3. Fixed \subseteq DOMAIN Params
  BY <1>1, ParamShapes
<1>4. ~Variadic => {bound[i].from : i \in Fixed} = DOMAIN given
  <2> SUFFICES ASSUME ~Variadic PROVE {bound[i].from : i \in Fixed} = DOMAIN given
    OBVIOUS
  <2>1. DOMAIN given = 1 .. taken
    BY <1>1
  <2>2. \A i \in Fixed : bound[i].from \in 1 .. taken
    <3>1. \A i \in Fixed : bound[i].from \in Nat /\ bound[i].from <= taken /\ bound[i].from # 0
      BY <1>1, <1>2, <1>3 DEF Placed, Occupancy
    <3>2. QED
      BY <3>1, <1>1
  <2>3. \A n \in 1 .. taken : \E i \in Fixed : bound[i].from = n
    BY <1>1 DEF Placed
  <2>4. QED
    BY <2>1, <2>2, <2>3
<1>5. QED
  BY <1>1, <1>2, <1>4 DEF Placed

-----------------------------------------------------------------------------
(* Expressions.                                                            *)
(* Integers that wrap.                                                     *)

Congruent(a, b) == \E k \in Int : a = b + k * (2 * Half)

LEMMA ModulusFacts == 2 * Half \in Nat \ {0} /\ Half \in Int /\ Half >= 2
BY HalfAssumption

\* Wrap gives the representable number of the same residue.
LEMMA WrapFacts ==
  ASSUME NEW n \in Int
  PROVE  Wrap(n) \in Representable /\ Wrap(n) \in Int /\ Congruent(Wrap(n), n)
<1> DEFINE M == 2 * Half
           a == n + Half
<1>1. M \in Nat \ {0} /\ a \in Int
  BY ModulusFacts
<1>2. a % M \in 0 .. M - 1 /\ a \div M \in Int /\ a = M * (a \div M) + (a % M)
  <2> HIDE DEF M, a
  <2> QED
    BY <1>1
<1>3. Wrap(n) = (a % M) - Half
  BY DEF Wrap
<1>4. Wrap(n) = n + (-(a \div M)) * M
  <2>1. PICK k \in Int : k = a \div M
    BY <1>2
  <2>2. PICK r \in Int : r = a % M
    BY <1>2
  <2>3. n + Half = M * k + r /\ Wrap(n) = r - Half
    BY <1>2, <1>3, <2>1, <2>2
  <2>4. Wrap(n) = n + (-k) * M
    <3> HIDE DEF M, a
    <3> QED
      BY <1>1, <2>3, ModulusFacts
  <2>5. QED
    BY <2>1, <2>4
<1>5. Wrap(n) \in -Half .. Half - 1
  BY <1>2, <1>3, ModulusFacts
<1>6. -(a \div M) \in Int
  <2> HIDE DEF M, a
  <2> QED
    BY <1>2
<1>7. QED
  BY <1>4, <1>5, <1>6, ModulusFacts DEF Congruent, Representable

LEMMA CongruentIsSymmetric ==
  ASSUME NEW a \in Int, NEW b \in Int, Congruent(a, b)
  PROVE  Congruent(b, a)
<1>1. PICK k \in Int : a = b + k * (2 * Half)
  BY DEF Congruent
<1>2. -k \in Int /\ b = a + (-k) * (2 * Half)
  <2>1. PICK M \in Int : M = 2 * Half
    BY ModulusFacts
  <2>2. a = b + k * M
    BY <1>1, <2>1
  <2>3. b = a + (-k) * M
    BY <2>2
  <2>4. QED
    BY <2>1, <2>3
<1>3. QED
  BY <1>2 DEF Congruent

LEMMA CongruentIsTransitive ==
  ASSUME NEW a \in Int, NEW b \in Int, NEW c \in Int, Congruent(a, b), Congruent(b, c)
  PROVE  Congruent(a, c)
<1>1. PICK M \in Int : M = 2 * Half
  BY ModulusFacts
<1>2. PICK k \in Int : a = b + k * M
  BY <1>1 DEF Congruent
<1>3. PICK j \in Int : b = c + j * M
  BY <1>1 DEF Congruent
<1>4. k + j \in Int /\ a = c + (k + j) * M
  BY <1>2, <1>3
<1>5. QED
  BY <1>1, <1>4 DEF Congruent

LEMMA CongruentToItself ==
  ASSUME NEW a \in Int
  PROVE  Congruent(a, a)
<1>1. a = a + 0 * (2 * Half)
  BY ModulusFacts
<1>2. QED
  BY <1>1 DEF Congruent

\* Sums, differences, products and negatives respect residues.
LEMMA CongruentUnderOperations ==
  ASSUME NEW a \in Int, NEW b \in Int, NEW c \in Int, NEW d \in Int, Congruent(a, c), Congruent(b, d)
  PROVE  /\ Congruent(a + b, c + d)
         /\ Congruent(a - b, c - d)
         /\ Congruent(a * b, c * d)
         /\ Congruent(-a, -c)
<1>1. PICK M \in Int : M = 2 * Half
  BY ModulusFacts
<1>2. PICK k \in Int : a = c + k * M
  BY <1>1 DEF Congruent
<1>3. PICK j \in Int : b = d + j * M
  BY <1>1 DEF Congruent
<1>4. k + j \in Int /\ a + b = (c + d) + (k + j) * M
  BY <1>2, <1>3
<1>5. k - j \in Int /\ a - b = (c - d) + (k - j) * M
  BY <1>2, <1>3
<1>6. -k \in Int /\ -a = -c + (-k) * M
  BY <1>2
<1>7. c * j + k * d + k * j * M \in Int
  OBVIOUS
<1>8. a * b = (c * d) + (c * j + k * d + k * j * M) * M
  BY <1>2, <1>3
<1>9. Congruent(a * b, c * d)
  BY <1>1, <1>7, <1>8 DEF Congruent
<1>10. Congruent(a + b, c + d)
  BY <1>1, <1>4 DEF Congruent
<1>11. Congruent(a - b, c - d)
  BY <1>1, <1>5 DEF Congruent
<1>12. Congruent(-a, -c)
  BY <1>1, <1>6 DEF Congruent
<1>13. QED
  BY <1>9, <1>10, <1>11, <1>12

\* Every residue has one representable number.
LEMMA OneRepresentative ==
  ASSUME NEW a \in Representable, NEW b \in Representable, Congruent(a, b)
  PROVE  a = b
<1>1. PICK M \in Int : M = 2 * Half /\ M >= 4
  BY ModulusFacts
<1>2. PICK k \in Int : a = b + k * M
  BY <1>1 DEF Congruent
<1>3. a \in Int /\ b \in Int /\ a - b < M /\ b - a < M
  BY <1>1, ModulusFacts DEF Representable
<1>4. k * M < M /\ -(k * M) < M
  BY <1>1, <1>2, <1>3
<1>5. ASSUME k >= 1 PROVE FALSE
  <2>1. k * M >= M
    BY <1>1, <1>5
  <2>2. QED
    BY <1>1, <1>4, <2>1
<1>6. ASSUME k <= -1 PROVE FALSE
  <2>1. (-k) * M >= M
    BY <1>1, <1>6
  <2>2. (-k) * M = -(k * M)
    BY <1>1
  <2>3. QED
    BY <1>1, <1>4, <2>1, <2>2
<1>7. k = 0
  BY <1>5, <1>6
<1>8. QED
  BY <1>1, <1>2, <1>3, <1>7

\* Small numbers are representable.
LEMMA RepresentableFacts ==
  /\ Representable \subseteq Int
  /\ 0 \in Representable /\ 1 \in Representable
  /\ 0 .. Half - 1 \subseteq Representable
BY ModulusFacts DEF Representable

\* What has the same residue wraps to the same number.
LEMMA WrapRepresents ==
  ASSUME NEW n \in Int, NEW a \in Int, Congruent(a, n)
  PROVE  /\ Wrap(a) = Wrap(n)
         /\ a \in Representable => Wrap(n) = a
<1>1. /\ Wrap(n) \in Representable /\ Wrap(n) \in Int /\ Congruent(n, Wrap(n))
      /\ Wrap(a) \in Representable /\ Wrap(a) \in Int /\ Congruent(Wrap(a), a)
  BY WrapFacts, CongruentIsSymmetric
<1>2. Congruent(a, Wrap(n))
  BY <1>1, CongruentIsTransitive
<1>3. Congruent(Wrap(a), Wrap(n))
  BY <1>1, <1>2, CongruentIsTransitive
<1>4. QED
  BY <1>1, <1>2, <1>3, OneRepresentative

-----------------------------------------------------------------------------
(* Powers.                                                                 *)

Indices == [n \in Nat |-> n]

\* Induction on the naturals, for a set.
LEMMA CountingUp ==
  ASSUME NEW T \in SUBSET Nat, 0 \in T, \A n \in T : n + 1 \in T
  PROVE  T = Nat
<1> SUFFICES ASSUME Nat \ T # {} PROVE FALSE
  OBVIOUS
<1>1. PICK i \in Nat \ T : \A j \in Nat \ T : i <= j
  BY LeastOf
<1>2. i # 0 /\ i - 1 \in Nat /\ ~(i <= i - 1)
  OBVIOUS
<1>3. i - 1 \in T
  BY <1>1, <1>2
<1>4. (i - 1) + 1 \in T /\ (i - 1) + 1 = i
  BY <1>3
<1>5. QED
  BY <1>4

\* A product of n equal factors, wrapped after each.
LEMMA ProductIs ==
  ASSUME NEW base \in Int
  PROVE  /\ Product(base)[0] = 1
         /\ \A n \in Nat : Product(base)[n] \in Representable
         /\ \A n \in Nat : Product(base)[n + 1] = Wrap(base * Product(base)[n])
<1> DEFINE R == [n \in Nat |-> Representable]
           F == Sections(Nat, R)
           step == [f \in F |-> [n \in Nat |-> IF n = 0 THEN 1 ELSE Wrap(base * f[n - 1])]]
<1>1. \A f \in F, n \in Nat : f[n] \in Representable /\ f[n] \in Int
  BY RepresentableFacts DEF Sections
<1>2. \A f \in F : step[f] \in F
  <2>1. SUFFICES ASSUME NEW f \in F PROVE step[f] \in F
    OBVIOUS
  <2>2. ASSUME NEW n \in Nat PROVE step[f][n] \in Representable
    <3>1. CASE n = 0
      BY <3>1, RepresentableFacts
    <3>2. CASE n # 0
      <4>1. n - 1 \in Nat
        BY <3>2
      <4>2. PICK p \in Int : p = f[n - 1]
        BY <4>1, <1>1
      <4>3. base * p \in Int
        OBVIOUS
      <4>4. QED
        BY <3>2, <4>2, <4>3, WrapFacts
    <3>3. QED
      BY <3>1, <3>2
  <2>3. step[f] \in [Nat -> UNION {R[n] : n \in Nat}]
    BY <2>2
  <2>4. QED
    BY <2>2, <2>3 DEF Sections
<1>3. Descends(Nat, Indices, R, step)
  <2>1. Indices \in [Nat -> Nat]
    BY DEF Indices
  <2>2. step \in [F -> F]
    BY <1>2
  <2>3. \A n \in Nat : R[n] # {}
    BY RepresentableFacts
  <2>4. ASSUME NEW f \in F, NEW g \in F, NEW n \in Nat, \A m \in Nat : Indices[m] < Indices[n] => f[m] = g[m]
        PROVE  step[f][n] = step[g][n]
    <3>1. CASE n = 0
      BY <3>1
    <3>2. CASE n # 0
      <4>1. n - 1 \in Nat /\ Indices[n - 1] < Indices[n]
        BY <3>2 DEF Indices
      <4>2. f[n - 1] = g[n - 1]
        BY <4>1, <2>4
      <4>3. QED
        BY <4>2, <3>2
    <3>3. QED
      BY <3>1, <3>2
  <2>5. QED
    BY <2>1, <2>2, <2>3, <2>4 DEF Descends
<1>4. \E f \in F : f = [n \in Nat |-> IF n = 0 THEN 1 ELSE Wrap(base * f[n - 1])]
  <2>1. PICK f \in F : f = step[f]
    <3> HIDE DEF step, R
    <3> QED
      BY <1>3, RecursionHasSolution
  <2>2. step[f] = [n \in Nat |-> IF n = 0 THEN 1 ELSE Wrap(base * f[n - 1])]
    OBVIOUS
  <2>3. f = [n \in Nat |-> IF n = 0 THEN 1 ELSE Wrap(base * f[n - 1])]
    <3> HIDE DEF step
    <3> QED
      BY <2>1, <2>2
  <2>4. QED
    <3> HIDE DEF F
    <3> QED
      BY <2>3
<1>5. \E f : f = [n \in Nat |-> IF n = 0 THEN 1 ELSE Wrap(base * f[n - 1])]
  BY <1>4
<1>6. Product(base) = [n \in Nat |-> IF n = 0 THEN 1 ELSE Wrap(base * Product(base)[n - 1])]
  BY <1>5 DEF Product
<1>7. Product(base)[0] = 1
  BY <1>6
<1>8. \A n \in Nat : Product(base)[n + 1] = Wrap(base * Product(base)[n])
  <2>1. SUFFICES ASSUME NEW n \in Nat PROVE Product(base)[n + 1] = Wrap(base * Product(base)[n])
    OBVIOUS
  <2>2. n + 1 \in Nat /\ n + 1 # 0 /\ (n + 1) - 1 = n
    OBVIOUS
  <2>3. Product(base)[n + 1] = Wrap(base * Product(base)[(n + 1) - 1])
    BY <1>6, <2>2
  <2>4. QED
    BY <2>2, <2>3
<1>9. \A n \in Nat : Product(base)[n] \in Representable
  <2> DEFINE T == {n \in Nat : Product(base)[n] \in Representable}
  <2>1. ASSUME NEW n \in T PROVE n + 1 \in T
    <3>1. n + 1 \in Nat /\ n \in Nat
      OBVIOUS
    <3>2. PICK p \in Int : p = Product(base)[n]
      BY RepresentableFacts
    <3>3. Product(base)[n + 1] = Wrap(base * p) /\ base * p \in Int
      BY <1>8, <3>1, <3>2
    <3>4. QED
      BY <3>1, <3>3, WrapFacts
  <2>2. T = Nat
    <3>1. T \in SUBSET Nat /\ 0 \in T
      BY <1>7, RepresentableFacts
    <3> HIDE DEF T
    <3> QED
      BY <2>1, <3>1, CountingUp
  <2>3. QED
    BY <2>2
<1>10. QED
  BY <1>7, <1>8, <1>9

\* Factors of one residue have one product.
LEMMA ProductCongruent ==
  ASSUME NEW a \in Int, NEW b \in Int, Congruent(a, b)
  PROVE  \A n \in Nat : Product(a)[n] = Product(b)[n]
<1> DEFINE T == {n \in Nat : Product(a)[n] = Product(b)[n]}
<1>1. 0 \in T
  BY ProductIs
<1>2. ASSUME NEW n \in T PROVE n + 1 \in T
  <2>1. PICK p \in Int : p = Product(a)[n] /\ p = Product(b)[n]
    BY ProductIs, RepresentableFacts
  <2>2. n \in Nat /\ n + 1 \in Nat
    OBVIOUS
  <2>3. Product(a)[n + 1] = Wrap(a * p) /\ Product(b)[n + 1] = Wrap(b * p)
    BY <2>1, <2>2, ProductIs
  <2>4. a * p \in Int /\ b * p \in Int /\ Congruent(a * p, b * p)
    <3>1. Congruent(p, p)
      BY CongruentToItself
    <3>2. QED
      BY <3>1, CongruentUnderOperations
  <2>5. Wrap(a * p) = Wrap(b * p)
    BY <2>4, WrapRepresents
  <2>6. QED
    BY <2>2, <2>3, <2>5
<1>3. T = Nat
  <2>1. T \in SUBSET Nat
    OBVIOUS
  <2> HIDE DEF T
  <2> QED
    BY <1>1, <1>2, <2>1, CountingUp
<1>4. QED
  BY <1>3

\* Half as many factors of the square.
LEMMA ProductOfSquare ==
  ASSUME NEW b \in Int
  PROVE  \A e \in Nat : Product(Wrap(b * b))[e] = Product(b)[2 * e]
<1>1. PICK c \in Int : c = Wrap(b * b) /\ Congruent(c, b * b)
  BY WrapFacts
<1> DEFINE T == {e \in Nat : Product(c)[e] = Product(b)[2 * e]}
<1>2. 0 \in T
  BY ProductIs
<1>3. ASSUME NEW e \in T PROVE e + 1 \in T
  <2>1. e \in Nat /\ 2 * e \in Nat /\ 2 * e + 1 \in Nat /\ 2 * (e + 1) = (2 * e + 1) + 1 /\ e + 1 \in Nat
    OBVIOUS
  <2>2. PICK p \in Int : p = Product(c)[e] /\ p = Product(b)[2 * e]
    BY <2>1, ProductIs, RepresentableFacts
  <2>3. Product(c)[e + 1] = Wrap(c * p)
    BY <2>1, <2>2, ProductIs
  <2>4. Product(b)[2 * e + 1] = Wrap(b * p)
    BY <2>1, <2>2, ProductIs
  <2>5. PICK q \in Int : q = Wrap(b * p) /\ Congruent(q, b * p)
    <3>1. b * p \in Int
      OBVIOUS
    <3>2. QED
      BY <3>1, WrapFacts
  <2>6. Product(b)[2 * (e + 1)] = Wrap(b * q)
    BY <2>1, <2>4, <2>5, ProductIs
  <2>7. b * q \in Int /\ c * p \in Int /\ b * b \in Int /\ b * p \in Int /\ b * (b * p) \in Int
        /\ (b * b) * p = b * (b * p)
    OBVIOUS
  <2>8. Congruent(c * p, (b * b) * p)
    BY <1>1, <2>7, CongruentToItself, CongruentUnderOperations
  <2>9. Congruent(b * q, b * (b * p))
    BY <2>5, <2>7, CongruentToItself, CongruentUnderOperations
  <2>10. Wrap(c * p) = Wrap(b * (b * p)) /\ Wrap(b * q) = Wrap(b * (b * p))
    BY <2>7, <2>8, <2>9, WrapRepresents
  <2>11. QED
    BY <2>1, <2>3, <2>6, <2>10
<1>4. T = Nat
  <2>1. T \in SUBSET Nat
    OBVIOUS
  <2> HIDE DEF T
  <2> QED
    BY <1>2, <1>3, <2>1, CountingUp
<1>5. QED
  BY <1>1, <1>4

Loops(exponent) == (0 .. exponent) \X Representable \X Representable

\* The loop of integerPower with what is left of the exponent, the square and
\* the result so far.
NextLoop(loop) ==
    <<loop[1] \div 2, Wrap(loop[2] * loop[2]),
      IF loop[1] % 2 = 1 THEN Wrap(loop[3] * loop[2]) ELSE loop[3]>>

LEMMA HalvingFacts ==
  ASSUME NEW e \in Nat
  PROVE  /\ e \div 2 \in Nat /\ e \div 2 <= e
         /\ e # 0 => e \div 2 < e
         /\ e % 2 = 1 => e = 2 * (e \div 2) + 1
         /\ e % 2 # 1 => e = 2 * (e \div 2)
OBVIOUS

LEMMA NextLoopFacts ==
  ASSUME NEW exponent \in Nat, NEW loop \in Loops(exponent)
  PROVE  /\ NextLoop(loop) \in Loops(exponent)
         /\ loop[1] # 0 => NextLoop(loop)[1] < loop[1]
<1>1. PICK e \in 0 .. exponent, b \in Representable, r \in Representable : loop = <<e, b, r>>
  BY DEF Loops
<1>2. e \in Nat /\ b \in Int /\ r \in Int /\ b * b \in Int /\ r * b \in Int
  BY RepresentableFacts
<1>3. e \div 2 \in 0 .. exponent /\ (e # 0 => e \div 2 < e)
  BY <1>2, HalvingFacts
<1>4. Wrap(b * b) \in Representable /\ Wrap(r * b) \in Representable
  BY <1>2, WrapFacts
<1>5. NextLoop(loop) = <<e \div 2, Wrap(b * b), IF e % 2 = 1 THEN Wrap(r * b) ELSE r>> /\ loop[1] = e
  BY <1>1 DEF NextLoop
<1>6. (IF e % 2 = 1 THEN Wrap(r * b) ELSE r) \in Representable
  BY <1>4
<1>7. NextLoop(loop) \in Loops(exponent)
  <2> HIDE DEF Representable
  <2> QED
    BY <1>3, <1>4, <1>5, <1>6 DEF Loops
<1>8. QED
  BY <1>3, <1>5, <1>7

\* The loop of integerPower ends: the exponent is halved.
LEMMA SquaringIsDefined ==
  ASSUME NEW exponent \in Nat
  PROVE  \E f \in [Loops(exponent) -> Representable] :
            f = [loop \in Loops(exponent) |-> IF loop[1] = 0 THEN loop[3] ELSE f[NextLoop(loop)]]
<1> DEFINE S == Loops(exponent)
           h == [loop \in S |-> loop[1]]
           R == [loop \in S |-> Representable]
           F == Sections(S, R)
           step == [f \in F |-> [loop \in S |-> IF loop[1] = 0 THEN loop[3] ELSE f[NextLoop(loop)]]]
<1>1. \A loop \in S : loop[1] \in Nat /\ loop[3] \in Representable
  BY DEF Loops
<1>2. \A loop \in S : NextLoop(loop) \in S /\ (loop[1] # 0 => NextLoop(loop)[1] < loop[1])
  BY NextLoopFacts
<1> HIDE DEF S
<1>3. \A f \in F, loop \in S : f[loop] \in Representable
  BY DEF Sections
<1>4. \A f \in F : step[f] \in F
  <2>1. SUFFICES ASSUME NEW f \in F PROVE step[f] \in F
    OBVIOUS
  <2>2. \A loop \in S : step[f][loop] \in Representable
    BY <1>1, <1>2, <1>3
  <2>3. step[f] \in [S -> UNION {R[loop] : loop \in S}]
    BY <2>2
  <2>4. QED
    BY <2>2, <2>3 DEF Sections
<1>5. Descends(S, h, R, step)
  <2>1. h \in [S -> Nat]
    BY <1>1
  <2>2. step \in [F -> F]
    BY <1>4
  <2>3. \A loop \in S : R[loop] # {}
    BY RepresentableFacts
  <2>4. ASSUME NEW f \in F, NEW g \in F, NEW loop \in S, \A other \in S : h[other] < h[loop] => f[other] = g[other]
        PROVE  step[f][loop] = step[g][loop]
    <3>1. CASE loop[1] = 0
      BY <3>1
    <3>2. CASE loop[1] # 0
      <4>1. NextLoop(loop) \in S /\ h[NextLoop(loop)] < h[loop]
        BY <3>2, <1>2
      <4>2. f[NextLoop(loop)] = g[NextLoop(loop)]
        BY <4>1, <2>4
      <4>3. QED
        BY <4>2, <3>2
    <3>3. QED
      BY <3>1, <3>2
  <2>5. QED
    BY <2>1, <2>2, <2>3, <2>4 DEF Descends
<1>6. PICK f \in F : f = step[f]
  <2> HIDE DEF step, R
  <2> QED
    BY <1>5, RecursionHasSolution
<1>7. step[f] = [loop \in S |-> IF loop[1] = 0 THEN loop[3] ELSE f[NextLoop(loop)]]
  OBVIOUS
<1>8. f \in [S -> Representable]
  BY <1>3 DEF Sections
<1>9. f = [loop \in S |-> IF loop[1] = 0 THEN loop[3] ELSE f[NextLoop(loop)]]
  <2> HIDE DEF step
  <2> QED
    BY <1>6, <1>7
<1>10. QED
  BY <1>8, <1>9 DEF S

\* Every turn of the loop keeps the product of the result and the power left.
LEMMA SquaringKeepsProduct ==
  ASSUME NEW exponent \in Nat, NEW loop \in Loops(exponent), loop[1] # 0
  PROVE  Wrap(NextLoop(loop)[3] * Product(NextLoop(loop)[2])[NextLoop(loop)[1]])
            = Wrap(loop[3] * Product(loop[2])[loop[1]])
<1>1. PICK e \in 0 .. exponent, b \in Representable, r \in Representable : loop = <<e, b, r>>
  BY DEF Loops
<1>2. e \in Nat /\ b \in Int /\ r \in Int /\ b * b \in Int /\ r * b \in Int
  BY RepresentableFacts
<1>3. PICK d \in Nat : d = e \div 2 /\ (e % 2 = 1 => e = 2 * d + 1) /\ (e % 2 # 1 => e = 2 * d)
  BY <1>2, HalvingFacts
<1>4. PICK p \in Int : p = Product(Wrap(b * b))[d] /\ p = Product(b)[2 * d]
  <2>1. 2 * d \in Nat
    OBVIOUS
  <2>2. Product(b)[2 * d] \in Int
    BY <2>1, <1>2, ProductIs, RepresentableFacts
  <2>3. QED
    BY <2>2, <1>2, ProductOfSquare
<1>5. /\ NextLoop(loop)[1] = d /\ NextLoop(loop)[2] = Wrap(b * b)
      /\ NextLoop(loop)[3] = (IF e % 2 = 1 THEN Wrap(r * b) ELSE r)
      /\ loop[1] = e /\ loop[2] = b /\ loop[3] = r
  BY <1>1, <1>3 DEF NextLoop
<1>6. CASE e % 2 = 1
  <2>1. PICK s \in Int : s = Wrap(r * b) /\ Congruent(s, r * b)
    BY <1>2, WrapFacts
  <2>2. Product(b)[e] = Wrap(b * p)
    BY <1>2, <1>3, <1>4, <1>6, ProductIs
  <2>3. PICK q \in Int : q = Wrap(b * p) /\ Congruent(q, b * p)
    <3>1. b * p \in Int
      BY <1>2
    <3>2. QED
      BY <3>1, WrapFacts
  <2>4. s * p \in Int /\ r * q \in Int /\ b * p \in Int /\ r * (b * p) \in Int /\ (r * b) * p = r * (b * p)
    BY <1>2
  <2>5. Congruent(s * p, (r * b) * p)
    BY <1>2, <2>1, <2>4, CongruentToItself, CongruentUnderOperations
  <2>6. Congruent(r * q, r * (b * p))
    BY <1>2, <2>3, <2>4, CongruentToItself, CongruentUnderOperations
  <2>7. Wrap(s * p) = Wrap(r * (b * p)) /\ Wrap(r * q) = Wrap(r * (b * p))
    BY <2>4, <2>5, <2>6, WrapRepresents
  <2>8. QED
    BY <1>4, <1>5, <1>6, <2>1, <2>2, <2>3, <2>7
<1>7. CASE e % 2 # 1
  BY <1>3, <1>4, <1>5, <1>7
<1>8. QED
  BY <1>6, <1>7

\* integerPower computes the product, in any number of turns.
LEMMA PowerIsProduct ==
  ASSUME NEW base \in Representable, NEW exponent \in Nat
  PROVE  IntegerPower(base, exponent) = Product(base)[exponent]
<1> DEFINE S == Loops(exponent)
           Solves(f) == f = [loop \in S |-> IF loop[1] = 0 THEN loop[3] ELSE f[NextLoop(loop)]]
           power == CHOOSE f : Solves(f)
<1>1. PICK f : f = power /\ Solves(f)
  <2>1. \E f : Solves(f)
    BY SquaringIsDefined
  <2> HIDE DEF Solves
  <2> QED
    BY <2>1
<1>2. IntegerPower(base, exponent) = f[<<exponent, base, 1>>]
  BY <1>1 DEF IntegerPower, Loops, NextLoop
<1> DEFINE value == [loop \in S |-> Wrap(loop[3] * Product(loop[2])[loop[1]])]
           h == [loop \in S |-> loop[1]]
           T == {loop \in S : f[loop] = value[loop]}
<1>3. ASSUME NEW loop \in S, \A other \in S : h[other] < h[loop] => other \in T
      PROVE  loop \in T
  <2>1. PICK e \in 0 .. exponent, b \in Representable, r \in Representable : loop = <<e, b, r>>
    BY DEF Loops
  <2>2. b \in Int /\ r \in Int /\ loop[1] = e /\ loop[2] = b /\ loop[3] = r
    BY <2>1, RepresentableFacts
  <2>3. CASE e = 0
    <3>1. f[loop] = r
      BY <1>1, <2>2, <2>3
    <3>2. Product(b)[e] = 1 /\ r * 1 = r
      BY <2>2, <2>3, ProductIs
    <3>3. Wrap(r) = r
      BY <2>2, CongruentToItself, WrapRepresents
    <3>4. QED
      BY <2>2, <3>1, <3>2, <3>3
  <2>4. CASE e # 0
    <3>1. NextLoop(loop) \in S /\ NextLoop(loop)[1] < loop[1]
      BY <2>2, <2>4, NextLoopFacts
    <3>2. f[loop] = f[NextLoop(loop)]
      BY <1>1, <2>2, <2>4
    <3>3. f[NextLoop(loop)] = value[NextLoop(loop)]
      BY <1>3, <3>1
    <3>4. value[NextLoop(loop)] = value[loop]
      BY <2>2, <2>4, <3>1, SquaringKeepsProduct
    <3>5. QED
      BY <3>2, <3>3, <3>4
  <2>5. QED
    BY <2>3, <2>4
<1>4. T = S
  <2>1. h \in [S -> Nat] /\ T \in SUBSET S
    BY DEF Loops
  <2> HIDE DEF S, h, T
  <2>2. QED
    BY <1>3, <2>1, MeasureInduction
<1>5. <<exponent, base, 1>> \in S
  BY RepresentableFacts DEF Loops
<1>6. f[<<exponent, base, 1>>] = Wrap(1 * Product(base)[exponent])
  BY <1>4, <1>5
<1>7. base \in Int /\ Product(base)[exponent] \in Representable /\ Product(base)[exponent] \in Int
  BY ProductIs, RepresentableFacts
<1>8. Wrap(1 * Product(base)[exponent]) = Product(base)[exponent]
  <2>1. PICK p \in Representable : p = Product(base)[exponent] /\ p \in Int
    BY <1>7
  <2>2. 1 * p = p
    BY <2>1
  <2>3. Wrap(p) = p
    BY <2>1, CongruentToItself, WrapRepresents
  <2>4. QED
    BY <2>1, <2>2, <2>3
<1>9. QED
  BY <1>2, <1>6, <1>8

-----------------------------------------------------------------------------
(* Scalars, and the errors that evaluation ends with.                      *)

Scalars == ScalarsOf(Representable)
Failures == {Error("zero_division"), Error("type"), Undetermined}
ScalarsAndErrors == Scalars \cup Failures
Operators == Custom \cup DOMAIN Precedences

\* What a scalar is.
LEMMA ScalarShapes ==
  ASSUME NEW v \in Scalars
  PROVE  /\ v.is \in {"int", "bool", "float"}
         /\ v.is = "int" => v.n \in Representable /\ v = Integer(v.n)
         /\ v.is = "bool" => v \in {Bool(TRUE), Bool(FALSE)}
         /\ v.is = "float" => v = Float
BY DEF Scalars, ScalarsOf, Integer, Bool, Float

LEMMA FailureShapes ==
  ASSUME NEW v \in Failures
  PROVE  v.is = "error"
BY DEF Failures, Error, Undetermined

LEMMA MadeValues ==
  /\ \A n \in Representable : Integer(n) \in Scalars
  /\ \A n : Integer(n).is = "int" /\ Integer(n).n = n
  /\ \A b \in BOOLEAN : Bool(b) \in Scalars
  /\ \A b : Bool(b).is = "bool"
  /\ Float \in Scalars /\ Float.is = "float"
  /\ Error("zero_division") \in Failures /\ Error("type") \in Failures /\ Undetermined \in Failures
BY DEF Scalars, ScalarsOf, Integer, Bool, Float, Failures

\* What a step of evaluation gives is a scalar or an error, not both.
LEMMA ScalarsAreNoFailures ==
  ASSUME NEW v \in ScalarsAndErrors
  PROVE  v \in Scalars <=> v.is # "error"
BY ScalarShapes, FailureShapes DEF ScalarsAndErrors

\* A prefix operator gives a scalar or an error.
LEMMA PrefixValues ==
  ASSUME NEW op, NEW v \in Scalars
  PROVE  EvalPrefix(op, v) \in ScalarsAndErrors
<1>1. CASE op = "!"
  <2>1. EvalPrefix(op, v) = Bool(v = Bool(FALSE))
    BY <1>1 DEF EvalPrefix
  <2>2. Bool(v = Bool(FALSE)) \in Scalars
    BY MadeValues, Zenon
  <2>3. QED
    BY <2>1, <2>2 DEF ScalarsAndErrors
<1>2. CASE op = "-" /\ v.is = "int"
  <2>1. v.n \in Representable
    BY <1>2, ScalarShapes
  <2>2. PICK n \in Int : n = v.n
    BY <2>1, RepresentableFacts
  <2>3. Wrap(-n) \in Representable
    <3>1. -n \in Int
      OBVIOUS
    <3>2. QED
      BY <3>1, WrapFacts
  <2>4. Integer(Wrap(-n)) \in Scalars
    BY <2>3, MadeValues
  <2>5. EvalPrefix(op, v) = Integer(Wrap(-n))
    BY <1>2, <2>2 DEF EvalPrefix
  <2>6. QED
    BY <2>4, <2>5 DEF ScalarsAndErrors
<1>3. CASE op = "-" /\ v.is = "float"
  BY <1>3, MadeValues DEF EvalPrefix, ScalarsAndErrors
<1>4. CASE op # "!" /\ ~(op = "-" /\ v.is = "int") /\ ~(op = "-" /\ v.is = "float")
  <2>1. EvalPrefix(op, v) = Error("type")
    BY <1>4 DEF EvalPrefix
  <2>2. QED
    BY <2>1, MadeValues DEF ScalarsAndErrors
<1>5. QED
  BY <1>1, <1>2, <1>3, <1>4

LEMMA OperatorsNamed ==
  /\ DOMAIN Precedences = {"||", "&&", "==", "<", "+", "-", "*", "//", "%", "**"}
  /\ \A op \in Custom : op \notin {"||", "&&", "==", "<", "+", "-", "*", "//", "%", "**"}
BY CustomAssumption DEF Precedences

\* Quotient and remainder truncate toward zero and undo each other, also where
\* the quotient of the least integer by -1 wraps.
LEMMA QuotientAndRemainder ==
  ASSUME NEW l \in Representable, NEW r \in Representable, r # 0
  PROVE  /\ Quotient(l, r) \in Representable
         /\ Remainder(l, r) \in Representable
         /\ Wrap(Quotient(l, r) * r + Remainder(l, r)) = l
         /\ Magnitude(Remainder(l, r)) < Magnitude(r)
         /\ Remainder(l, r) # 0 => Sign(Remainder(l, r)) = Sign(l)
<1>1. l \in Int /\ r \in Int
  BY RepresentableFacts
<1>2. PICK a \in Nat : a = Magnitude(l) /\ l = Sign(l) * a
  <2>1. Magnitude(l) \in Nat /\ l = Sign(l) * Magnitude(l)
    BY <1>1 DEF Magnitude, Sign
  <2>2. QED
    BY <2>1
<1>3. PICK b \in Nat \ {0} : b = Magnitude(r) /\ r = Sign(r) * b
  <2>1. Magnitude(r) \in Nat \ {0} /\ r = Sign(r) * Magnitude(r)
    BY <1>1 DEF Magnitude, Sign
  <2>2. QED
    BY <2>1
<1>4. a \div b \in Int /\ a % b \in 0 .. b - 1 /\ a = b * (a \div b) + (a % b)
  OBVIOUS
<1>5. PICK q \in Int : q = a \div b
  BY <1>4
<1>6. PICK m \in 0 .. b - 1 : m = a % b
  BY <1>4
<1>7. a = b * q + m /\ q >= 0
  <2>1. a = b * q + m
    BY <1>4, <1>5, <1>6
  <2>2. ASSUME q <= -1 PROVE FALSE
    <3>1. b * q <= -b
      BY <2>2
    <3>2. QED
      BY <2>1, <3>1
  <2>3. QED
    BY <2>1, <2>2
<1>8. m <= a
  <2>1. b * q >= 0
    BY <1>7
  <2>2. QED
    BY <1>7, <2>1
<1>9. PICK x \in {-1, 1} : x = Sign(l)
  BY DEF Sign
<1>10. PICK y \in {-1, 1} : y = Sign(r)
  BY DEF Sign
<1>11. Remainder(l, r) = x * m
  BY <1>2, <1>3, <1>6, <1>9 DEF Remainder
<1>12. Quotient(l, r) = Wrap(x * y * q)
  BY <1>2, <1>3, <1>5, <1>9, <1>10 DEF Quotient
<1>13. l = x * a /\ r = y * b /\ (x = -1 <=> l < 0)
  BY <1>1, <1>2, <1>3, <1>9, <1>10 DEF Sign
<1>14. x * y * q \in Int
  OBVIOUS
<1>15. Quotient(l, r) \in Representable
  BY <1>12, <1>14, WrapFacts
<1>16. x * m \in Int /\ x * m \in Representable
  BY <1>8, <1>9, <1>13, ModulusFacts DEF Representable
<1>17. (x * y * q) * r + x * m = l
  <2>1. (x * y * q) * (y * b) + x * m = x * (b * q + m)
    BY <1>9, <1>10
  <2>2. QED
    BY <2>1, <1>7, <1>13
<1>18. PICK k \in Int : k = Quotient(l, r) /\ Congruent(k, x * y * q)
  BY <1>12, <1>14, WrapFacts
<1>19. Congruent(k * r + x * m, l)
  <2>1. (x * y * q) * r \in Int /\ k * r \in Int
    BY <1>1, <1>14
  <2>2. Congruent(r, r) /\ Congruent(x * m, x * m)
    BY <1>1, <1>16, CongruentToItself
  <2>3. Congruent(k * r, (x * y * q) * r)
    BY <1>1, <1>14, <1>18, <2>2, CongruentUnderOperations
  <2>4. Congruent(k * r + x * m, (x * y * q) * r + x * m)
    BY <1>16, <2>1, <2>2, <2>3, CongruentUnderOperations
  <2>5. QED
    BY <2>4, <1>17
<1>20. k * r + x * m \in Int
  BY <1>1, <1>16
<1>21. Wrap(k * r + x * m) = l
  <2>1. Congruent(l, k * r + x * m)
    BY <1>1, <1>19, <1>20, CongruentIsSymmetric
  <2>2. QED
    BY <1>1, <1>20, <2>1, WrapRepresents
<1>22. Magnitude(x * m) = m
  BY <1>9 DEF Magnitude
<1>23. x * m # 0 => Sign(x * m) = x
  BY <1>9 DEF Sign
<1>24. QED
  BY <1>3, <1>9, <1>11, <1>15, <1>16, <1>18, <1>21, <1>22, <1>23

LEMMA IntegerValues ==
  ASSUME NEW op, NEW l \in Representable, NEW r \in Representable
  PROVE  EvalIntegerInfix(op, l, r) \in ScalarsAndErrors
<1>1. l \in Int /\ r \in Int /\ l + r \in Int /\ l - r \in Int /\ l * r \in Int
  BY RepresentableFacts
<1>2. Integer(Wrap(l + r)) \in Scalars /\ Integer(Wrap(l - r)) \in Scalars /\ Integer(Wrap(l * r)) \in Scalars
  BY <1>1, WrapFacts, MadeValues
<1>3. r >= 0 => Integer(IntegerPower(l, r)) \in Scalars
  <2>1. SUFFICES ASSUME r >= 0 PROVE Integer(IntegerPower(l, r)) \in Scalars
    OBVIOUS
  <2>2. r \in Nat
    BY <1>1, <2>1
  <2>3. IntegerPower(l, r) \in Representable
    BY <1>1, <2>2, PowerIsProduct, ProductIs
  <2>4. QED
    BY <2>3, MadeValues
<1>4. r # 0 => Integer(Quotient(l, r)) \in Scalars /\ Integer(Remainder(l, r)) \in Scalars
  BY QuotientAndRemainder, MadeValues
<1>5. Bool(l < r) \in Scalars /\ Bool(l = r) \in Scalars
  <2>1. (l < r) \in BOOLEAN /\ (l = r) \in BOOLEAN
    BY <1>1
  <2>2. QED
    BY <2>1, MadeValues, Zenon
<1>6. Error("zero_division") \in ScalarsAndErrors /\ Error("type") \in ScalarsAndErrors /\ Float \in ScalarsAndErrors /\ Scalars \subseteq ScalarsAndErrors
  BY MadeValues DEF ScalarsAndErrors
<1>7. CASE op = "+"
  BY <1>2, <1>3, <1>4, <1>5, <1>6, <1>7 DEF EvalIntegerInfix
<1>8. CASE op = "-"
  BY <1>2, <1>3, <1>4, <1>5, <1>6, <1>8 DEF EvalIntegerInfix
<1>9. CASE op = "*"
  BY <1>2, <1>3, <1>4, <1>5, <1>6, <1>9 DEF EvalIntegerInfix
<1>10. CASE op = "**" /\ r < 0
  BY <1>2, <1>3, <1>4, <1>5, <1>6, <1>10 DEF EvalIntegerInfix
<1>11. CASE op = "**" /\ r >= 0
  BY <1>2, <1>3, <1>4, <1>5, <1>6, <1>11 DEF EvalIntegerInfix
<1>12. CASE op \in {"//", "%"} /\ r = 0
  BY <1>2, <1>3, <1>4, <1>5, <1>6, <1>12 DEF EvalIntegerInfix
<1>13. CASE op = "//" /\ r # 0
  BY <1>2, <1>3, <1>4, <1>5, <1>6, <1>13 DEF EvalIntegerInfix
<1>14. CASE op = "%" /\ r # 0
  BY <1>2, <1>3, <1>4, <1>5, <1>6, <1>14 DEF EvalIntegerInfix
<1>15. CASE op = "<"
  BY <1>2, <1>3, <1>4, <1>5, <1>6, <1>15 DEF EvalIntegerInfix
<1>16. CASE op = "=="
  BY <1>2, <1>3, <1>4, <1>5, <1>6, <1>16 DEF EvalIntegerInfix
<1>17. CASE op \notin {"+", "-", "*", "**", "//", "%", "<", "=="}
  BY <1>2, <1>3, <1>4, <1>5, <1>6, <1>17 DEF EvalIntegerInfix
<1>18. r < 0 \/ r >= 0
  BY <1>1
<1>19. QED
  BY <1>7, <1>8, <1>9, <1>10, <1>11, <1>12, <1>13, <1>14, <1>15, <1>16, <1>17, <1>18

LEMMA FloatValues ==
  ASSUME NEW op, NEW r
  PROVE  EvalFloatInfix(op, r) \in ScalarsAndErrors
BY MadeValues DEF EvalFloatInfix, ScalarsAndErrors

\* An infix operator gives a scalar or an error.
LEMMA InfixValues ==
  ASSUME NEW op, NEW l \in Scalars, NEW r \in Scalars
  PROVE  EvalInfix(op, l, r) \in ScalarsAndErrors
<1>1. Bool(Truthy(l) /\ Truthy(r)) \in Scalars /\ Bool(Truthy(l) \/ Truthy(r)) \in Scalars /\ Bool(l = r) \in Scalars
  BY MadeValues, Zenon
<1>2. CASE op \in {"&&", "||"}
  BY <1>1, <1>2 DEF EvalInfix, ScalarsAndErrors
<1>3. CASE op \notin {"&&", "||"} /\ {l.is, r.is} = {"int"}
  <2>1. EvalInfix(op, l, r) = EvalIntegerInfix(op, l.n, r.n)
    BY <1>3 DEF EvalInfix
  <2>2. l.n \in Representable /\ r.n \in Representable
    BY <1>3, ScalarShapes
  <2>3. QED
    BY <2>1, <2>2, IntegerValues
<1>4. CASE op \notin {"&&", "||"} /\ {l.is, r.is} # {"int"} /\ {l.is, r.is} \in {{"float"}, {"int", "float"}}
  BY <1>4, FloatValues DEF EvalInfix
<1>5. CASE op \notin {"&&", "||"} /\ {l.is, r.is} # {"int"} /\ {l.is, r.is} \notin {{"float"}, {"int", "float"}}
  BY <1>1, <1>5, MadeValues DEF EvalInfix, ScalarsAndErrors
<1>6. QED
  BY <1>2, <1>3, <1>4, <1>5

\* The folder has no value for an operator that a package declares.
LEMMA CustomIsNoScalarOperator ==
  ASSUME NEW op \in Custom, NEW l \in Scalars, NEW r \in Scalars
  PROVE  EvalInfix(op, l, r).is = "error"
<1>1. op \notin {"||", "&&", "==", "<", "+", "-", "*", "//", "%", "**"}
  BY OperatorsNamed
<1>2. CASE {l.is, r.is} = {"int"}
  <2>1. l.n \in Int /\ r.n \in Int
    BY <1>2, ScalarShapes, RepresentableFacts
  <2>2. EvalInfix(op, l, r) = EvalIntegerInfix(op, l.n, r.n)
    BY <1>1, <1>2 DEF EvalInfix
  <2>3. EvalIntegerInfix(op, l.n, r.n) = Error("type")
    BY <1>1, <2>1 DEF EvalIntegerInfix
  <2>4. QED
    BY <2>2, <2>3 DEF Error
<1>3. CASE {l.is, r.is} # {"int"}
  BY <1>1, <1>3 DEF EvalInfix, EvalFloatInfix, Error
<1>4. QED
  BY <1>2, <1>3

-----------------------------------------------------------------------------
(* Tokens and trees.                                                       *)

LEMMA TokenShapes ==
  ASSUME NEW token \in Tokens
  PROVE  /\ token.is \in {"operand", "prefix", "infix"}
         /\ token.is = "operand" => token.node \in {Name} \cup {Literal(v) : v \in ScalarsOf(0 .. Half - 1)}
         /\ token.is = "prefix" => token.op \in {"-", "!"}
         /\ token.is = "infix" => token.op \in Operators /\ token.newline \in BOOLEAN
BY DEF Tokens, Operand, PrefixToken, InfixToken, Operators

\* Precedences are numbers above the lowest.
LEMMA PrecedenceFacts ==
  ASSUME NEW op \in Operators
  PROVE  Precedence(op) \in Int /\ Precedence(op) >= 2
<1>1. CASE op \in Custom
  BY <1>1 DEF Precedence
<1>2. CASE op \notin Custom
  <2>1. op \in {"||", "&&", "==", "<", "+", "-", "*", "//", "%", "**"}
    BY <1>2, OperatorsNamed DEF Operators
  <2>2. Precedences[op] \in {3, 4, 5, 6, 7, 8, 10}
    BY <2>1 DEF Precedences
  <2>3. QED
    BY <1>2, <2>2 DEF Precedence
<1>3. QED
  BY <1>1, <1>2

\* Every token of a source is a token.
LEMMA SourceFacts ==
  ASSUME NEW s \in Sources
  PROVE  /\ Len(s) \in Nat /\ Len(s) >= 1 /\ DOMAIN s = 1 .. Len(s)
         /\ \A i \in 1 .. Len(s) : s[i] \in Tokens
         /\ s[1].is # "infix" /\ s[Len(s)].is = "operand"
         /\ \A i \in 1 .. Len(s) - 1 : s[i].is = "operand" <=> s[i + 1].is = "infix"
<1>1. s \in Seq(Tokens) /\ s # <<>>
  BY SourcesAssumption
<1>2. QED
  BY <1>1, SourcesAssumption

Children(t) ==
    IF t.node = "prefix" THEN {t.right} ELSE IF t.node = "infix" THEN {t.left, t.right} ELSE {}

\* What is below a node is there, and lower.
Grounded(ns, h) ==
    /\ h \in [DOMAIN ns -> Nat]
    /\ \A i \in DOMAIN ns : \A c \in Children(ns[i]) : c \in DOMAIN ns /\ h[c] < h[i]

Powers(ns) == {Power(ns[i]) : i \in DOMAIN ns}

OutlineOf(outline, ns, i) ==
    LET t == ns[i]
    IN CASE t.node = "prefix" ->
               [under |-> {i} \cup outline[t.right].under,
                begin |-> {}, end |-> {Power(t)} \cup outline[t.right].end]
         [] t.node = "infix" ->
               [under |-> {i} \cup outline[t.left].under \cup outline[t.right].under,
                begin |-> {Power(t)} \cup outline[t.left].begin,
                end |-> {Power(t)} \cup outline[t.right].end]
         [] OTHER -> [under |-> {i}, begin |-> {}, end |-> {}]

\* There is an outline of every tree.
LEMMA OutlineIsDefined ==
  ASSUME NEW ns, NEW h, Grounded(ns, h)
  PROVE  \E o : o = [i \in DOMAIN ns |-> OutlineOf(o, ns, i)]
<1> DEFINE S == DOMAIN ns
           O == [under : SUBSET S, begin : SUBSET Powers(ns), end : SUBSET Powers(ns)]
           R == [i \in S |-> O]
           F == Sections(S, R)
           step == [o \in F |-> [i \in S |-> OutlineOf(o, ns, i)]]
<1>1. \A o \in F, i \in S : o[i] \in O
  BY DEF Sections
<1>2. ASSUME NEW o \in F, NEW i \in S PROVE OutlineOf(o, ns, i) \in O
  <2>1. Power(ns[i]) \in Powers(ns)
    BY DEF Powers
  <2>2. CASE ns[i].node = "prefix"
    <3>1. o[ns[i].right] \in O
      BY <1>1, <2>2 DEF Grounded, Children
    <3>2. OutlineOf(o, ns, i) = [under |-> {i} \cup o[ns[i].right].under,
                                 begin |-> {}, end |-> {Power(ns[i])} \cup o[ns[i].right].end]
      BY <2>2 DEF OutlineOf
    <3>3. QED
      BY <2>1, <3>1, <3>2
  <2>3. CASE ns[i].node = "infix"
    <3>1. o[ns[i].right] \in O /\ o[ns[i].left] \in O
      BY <1>1, <2>3 DEF Grounded, Children
    <3>2. OutlineOf(o, ns, i) = [under |-> {i} \cup o[ns[i].left].under \cup o[ns[i].right].under,
                                 begin |-> {Power(ns[i])} \cup o[ns[i].left].begin,
                                 end |-> {Power(ns[i])} \cup o[ns[i].right].end]
      BY <2>3 DEF OutlineOf
    <3>3. QED
      BY <2>1, <3>1, <3>2
  <2>4. CASE ns[i].node \notin {"prefix", "infix"}
    <3>1. OutlineOf(o, ns, i) = [under |-> {i}, begin |-> {}, end |-> {}]
      BY <2>4 DEF OutlineOf
    <3>2. QED
      BY <3>1
  <2>5. QED
    BY <2>2, <2>3, <2>4
<1>3. \A o \in F : step[o] \in F
  <2>1. SUFFICES ASSUME NEW o \in F PROVE step[o] \in F
    OBVIOUS
  <2>2. \A i \in S : step[o][i] \in O
    BY <1>2
  <2>3. step[o] \in [S -> UNION {R[i] : i \in S}]
    BY <2>2
  <2>4. QED
    BY <2>2, <2>3 DEF Sections
<1>4. Descends(S, h, R, step)
  <2>1. h \in [S -> Nat]
    BY DEF Grounded
  <2>2. step \in [F -> F]
    BY <1>3
  <2>3. \A i \in S : R[i] # {}
    <3>1. [under |-> {}, begin |-> {}, end |-> {}] \in O
      OBVIOUS
    <3>2. QED
      BY <3>1
  <2>4. ASSUME NEW o \in F, NEW p \in F, NEW i \in S, \A j \in S : h[j] < h[i] => o[j] = p[j]
        PROVE  step[o][i] = step[p][i]
    <3>1. \A c \in Children(ns[i]) : o[c] = p[c]
      BY <2>4 DEF Grounded
    <3>2. OutlineOf(o, ns, i) = OutlineOf(p, ns, i)
      <4>1. CASE ns[i].node = "prefix"
        BY <3>1, <4>1 DEF OutlineOf, Children
      <4>2. CASE ns[i].node = "infix"
        BY <3>1, <4>2 DEF OutlineOf, Children
      <4>3. CASE ns[i].node \notin {"prefix", "infix"}
        BY <4>3 DEF OutlineOf
      <4>4. QED
        BY <4>1, <4>2, <4>3
    <3>3. QED
      BY <3>2
  <2>5. QED
    BY <2>1, <2>2, <2>3, <2>4 DEF Descends
<1>5. PICK o \in F : o = step[o]
  <2> HIDE DEF step, R
  <2> QED
    BY <1>4, RecursionHasSolution
<1>6. step[o] = [i \in S |-> OutlineOf(o, ns, i)]
  OBVIOUS
<1>7. o = [i \in S |-> OutlineOf(o, ns, i)]
  <2> HIDE DEF step
  <2> QED
    BY <1>5, <1>6
<1>8. QED
  BY <1>7

\* Outline, unfolded once.
LEMMA OutlineIs ==
  ASSUME NEW ns, NEW h, Grounded(ns, h)
  PROVE  /\ DOMAIN Outline(ns) = DOMAIN ns
         /\ \A i \in DOMAIN ns : Outline(ns)[i] = OutlineOf(Outline(ns), ns, i)
<1>1. Outline(ns) = [i \in DOMAIN ns |-> OutlineOf(Outline(ns), ns, i)]
  BY OutlineIsDefined DEF Outline, OutlineOf
<1>2. QED
  BY <1>1

LEMMA OutlineTyped ==
  ASSUME NEW ns, NEW h, Grounded(ns, h)
  PROVE  \A i \in DOMAIN ns : Outline(ns)[i].begin \subseteq Powers(ns) /\ Outline(ns)[i].end \subseteq Powers(ns)
<1> DEFINE S == DOMAIN ns
           o == Outline(ns)
           T == {i \in S : o[i].begin \subseteq Powers(ns) /\ o[i].end \subseteq Powers(ns)}
<1>1. ASSUME NEW i \in S, \A j \in S : h[j] < h[i] => j \in T PROVE i \in T
  <2>1. o[i] = OutlineOf(o, ns, i)
    BY OutlineIs
  <2>2. \A c \in Children(ns[i]) : o[c].begin \subseteq Powers(ns) /\ o[c].end \subseteq Powers(ns)
    BY <1>1 DEF Grounded
  <2>3. Power(ns[i]) \in Powers(ns)
    BY DEF Powers
  <2> HIDE DEF o
  <2>4. CASE ns[i].node = "prefix"
    <3>1. o[i].begin = {} /\ o[i].end = {Power(ns[i])} \cup o[ns[i].right].end
      BY <2>1, <2>4 DEF OutlineOf
    <3>2. QED
      BY <2>2, <2>3, <2>4, <3>1 DEF Children
  <2>5. CASE ns[i].node = "infix"
    <3>1. /\ o[i].begin = {Power(ns[i])} \cup o[ns[i].left].begin
          /\ o[i].end = {Power(ns[i])} \cup o[ns[i].right].end
      BY <2>1, <2>5 DEF OutlineOf
    <3>2. QED
      BY <2>2, <2>3, <2>5, <3>1 DEF Children
  <2>6. CASE ns[i].node \notin {"prefix", "infix"}
    <3>1. o[i].begin = {} /\ o[i].end = {}
      BY <2>1, <2>6 DEF OutlineOf
    <3>2. QED
      BY <3>1
  <2>7. QED
    BY <2>4, <2>5, <2>6
<1>2. T = S
  <2>1. h \in [S -> Nat] /\ T \in SUBSET S
    BY DEF Grounded
  <2> HIDE DEF S, T
  <2>2. QED
    BY <1>1, <2>1, MeasureInduction
<1>3. QED
  BY <1>2

\* Adding nodes does not change the outline of those that were there.
LEMMA OutlinesStay ==
  ASSUME NEW ns, NEW h, Grounded(ns, h), NEW ms, NEW g, Grounded(ms, g),
         DOMAIN ns \subseteq DOMAIN ms, \A i \in DOMAIN ns : ms[i] = ns[i]
  PROVE  \A i \in DOMAIN ns : Outline(ms)[i] = Outline(ns)[i]
<1> DEFINE S == DOMAIN ns
           T == {i \in S : Outline(ms)[i] = Outline(ns)[i]}
<1>1. ASSUME NEW i \in S, \A j \in S : h[j] < h[i] => j \in T PROVE i \in T
  <2>1. Outline(ns)[i] = OutlineOf(Outline(ns), ns, i) /\ Outline(ms)[i] = OutlineOf(Outline(ms), ms, i)
    BY OutlineIs
  <2>2. \A c \in Children(ns[i]) : Outline(ms)[c] = Outline(ns)[c]
    BY <1>1 DEF Grounded
  <2>3. ms[i] = ns[i]
    OBVIOUS
  <2>4. OutlineOf(Outline(ns), ns, i) = OutlineOf(Outline(ms), ms, i)
    <3>1. CASE ns[i].node = "prefix"
      BY <2>2, <2>3, <3>1 DEF OutlineOf, Children
    <3>2. CASE ns[i].node = "infix"
      BY <2>2, <2>3, <3>2 DEF OutlineOf, Children
    <3>3. CASE ns[i].node \notin {"prefix", "infix"}
      BY <2>3, <3>3 DEF OutlineOf
    <3>4. QED
      BY <3>1, <3>2, <3>3
  <2>5. QED
    BY <2>1, <2>4
<1>2. T = S
  <2>1. h \in [S -> Nat] /\ T \in SUBSET S
    BY DEF Grounded
  <2> HIDE DEF S, T
  <2>2. QED
    BY <1>1, <2>1, MeasureInduction
<1>3. QED
  BY <1>2

\* A node above nodes that are there.
With(ns, i, t) == [j \in DOMAIN ns \cup {i} |-> IF j = i THEN t ELSE ns[j]]

\* A node over known operands stands on the ground.
LEMMA OneNodeMore ==
  ASSUME NEW ns, NEW h, NEW i, NEW t, Grounded(ns, h), i \notin DOMAIN ns, Children(t) \subseteq DOMAIN ns
  PROVE  \E g : Grounded(With(ns, i, t), g)
<1> DEFINE ms == With(ns, i, t)
           top == CASE t.node = "prefix" -> h[t.right] + 1
                    [] t.node = "infix" -> h[t.left] + h[t.right] + 1
                    [] OTHER -> 0
           g == [j \in DOMAIN ns \cup {i} |-> IF j = i THEN top ELSE h[j]]
<1>1. DOMAIN ms = DOMAIN ns \cup {i} /\ ms[i] = t /\ \A j \in DOMAIN ns : ms[j] = ns[j]
  BY DEF With
<1>2. top \in Nat /\ \A c \in Children(t) : h[c] < top
  <2>1. \A c \in Children(t) : h[c] \in Nat
    BY DEF Grounded
  <2>2. CASE t.node = "prefix"
    <3>1. PICK r \in Nat : r = h[t.right]
      BY <2>1, <2>2 DEF Children
    <3>2. top = r + 1 /\ Children(t) = {t.right}
      BY <2>2, <3>1 DEF Children
    <3> HIDE DEF top
    <3>3. QED
      BY <3>1, <3>2
  <2>3. CASE t.node = "infix"
    <3>1. PICK r \in Nat : r = h[t.right]
      BY <2>1, <2>3 DEF Children
    <3>2. PICK l \in Nat : l = h[t.left]
      BY <2>1, <2>3 DEF Children
    <3>3. top = l + r + 1 /\ Children(t) = {t.left, t.right}
      BY <2>3, <3>1, <3>2 DEF Children
    <3> HIDE DEF top
    <3>4. QED
      BY <3>1, <3>2, <3>3
  <2>4. CASE t.node \notin {"prefix", "infix"}
    BY <2>4 DEF Children
  <2>5. QED
    BY <2>2, <2>3, <2>4
<1> HIDE DEF top
<1>3. g \in [DOMAIN ms -> Nat]
  BY <1>1, <1>2 DEF Grounded
<1>4. ASSUME NEW j \in DOMAIN ms, NEW c \in Children(ms[j]) PROVE c \in DOMAIN ms /\ g[c] < g[j]
  <2>1. CASE j = i
    BY <1>1, <1>2, <1>4, <2>1
  <2>2. CASE j # i
    <3>1. j \in DOMAIN ns /\ c \in Children(ns[j])
      BY <1>1, <2>2, <1>4
    <3>2. c \in DOMAIN ns /\ h[c] < h[j]
      BY <3>1 DEF Grounded
    <3>3. c # i
      BY <3>2
    <3>4. QED
      BY <1>1, <2>2, <3>1, <3>2, <3>3
  <2>3. QED
    BY <2>1, <2>2
<1>5. Grounded(ms, g)
  BY <1>3, <1>4 DEF Grounded
<1>6. QED
  <2> HIDE DEF g, ms
  <2> QED
    BY <1>5 DEF ms

\* A new node leaves the outlines of the others alone.
LEMMA OutlineWith ==
  ASSUME NEW ns, NEW h, NEW i, NEW t, NEW ms, Grounded(ns, h), i \notin DOMAIN ns, Children(t) \subseteq DOMAIN ns,
         ms = With(ns, i, t)
  PROVE  /\ \A j \in DOMAIN ns : Outline(ms)[j] = Outline(ns)[j]
         /\ Outline(ms)[i] = OutlineOf(Outline(ms), ms, i)
<1>1. PICK g : Grounded(ms, g)
  BY OneNodeMore
<1>2. DOMAIN ms = DOMAIN ns \cup {i} /\ ms[i] = t /\ \A j \in DOMAIN ns : ms[j] = ns[j]
  BY DEF With
<1>3. i \in DOMAIN ms /\ DOMAIN ns \subseteq DOMAIN ms
  BY <1>2
<1>4. QED
  BY <1>1, <1>2, <1>3, OutlinesStay, OutlineIs

-----------------------------------------------------------------------------
(* The parser.                                                             *)

\* Call k of parseExpression: for the operand of a prefix operator that begins
\* the operand of call k - 1, or for the right operand of an infix operator
\* whose left operand is that of call k - 1 so far.
CallKnown(cs, k, s, outline, made) ==
    LET c == cs[k]
        outer == cs[k - 1]
    IN \/ /\ s[c.operator].is = "prefix" /\ c.left = 0 /\ c.precedence = PrefixPower
          /\ c.operator = outer.operator + 1
       \/ /\ s[c.operator].is = "infix" /\ c.left \in made
          /\ c.precedence = Precedence(s[c.operator].op) /\ c.precedence > outer.precedence
          /\ outline[c.left].under = outer.operator + 1 .. c.operator - 1
          /\ \A power \in outline[c.left].begin : power > outer.precedence
          /\ \A power \in outline[c.left].end : power >= c.precedence

CallRecords == [operator : Nat, left : Nat, precedence : Int]

CallsInv ==
    /\ calls \in Seq(CallRecords)
    /\ calls # <<>> /\ calls[1] = Call(0, 0, Lowest)
    /\ \A j, k \in DOMAIN calls : j < k => calls[j].operator < calls[k].operator
    /\ \A k \in DOMAIN calls : calls[k].operator < position
    /\ \A k \in DOMAIN calls : k > 1 => CallKnown(calls, k, source, Outline(nodes), DOMAIN nodes)

Pending == {calls[k].operator : k \in DOMAIN calls}

NodesInv ==
    /\ DOMAIN nodes = (1 .. position - 1) \ Pending
    /\ \E h : Grounded(nodes, h)
    /\ \A i \in DOMAIN nodes : MadeFrom(source[i], nodes[i]) /\ Follows(i, nodes[i], Outline(nodes))

OperandInv ==
    \/ /\ operand = 0
       /\ position = InnermostCall.operator + 1 /\ position <= Len(source) /\ source[position].is # "infix"
    \/ /\ operand \in DOMAIN nodes
       /\ Outline(nodes)[operand].under = InnermostCall.operator + 1 .. position - 1
       /\ \A power \in Outline(nodes)[operand].begin : power > InnermostCall.precedence
       /\ \A power \in Outline(nodes)[operand].end : Ends(power)
       /\ InnermostCall.operator < position - 1 /\ source[position - 1].is = "operand"

ParseInv ==
    /\ source \in Sources /\ position \in 1 .. Len(source) + 1
    /\ \A j \in 1 .. position - 1 : ~(source[j].is = "infix" /\ source[j].newline)
    /\ CallsInv /\ NodesInv /\ OperandInv

\* What the invariant says of the shapes of things.
LEMMA ParseFacts ==
  ASSUME ParseInv
  PROVE  /\ Len(calls) \in Nat /\ Len(calls) >= 1 /\ DOMAIN calls = 1 .. Len(calls)
         /\ InnermostCall = calls[Len(calls)]
         /\ InnermostCall.operator \in Nat /\ InnermostCall.left \in Nat /\ InnermostCall.precedence \in Int
         /\ InnermostCall.operator < position
         /\ \A k \in DOMAIN calls : calls[k].operator \in Nat
         /\ position \in Nat /\ position >= 1
         /\ Len(source) \in Nat /\ position <= Len(source) + 1 /\ DOMAIN source = 1 .. Len(source)
         /\ \A i \in 1 .. Len(source) : source[i] \in Tokens
         /\ DOMAIN nodes \subseteq 1 .. position - 1
         /\ operand = 0 \/ operand \in DOMAIN nodes
<1>1. calls \in Seq(CallRecords) /\ calls # <<>>
  BY DEF ParseInv, CallsInv
<1>2. Len(calls) \in Nat /\ Len(calls) >= 1 /\ DOMAIN calls = 1 .. Len(calls)
  BY <1>1
<1>3. \A k \in DOMAIN calls : calls[k].operator \in Nat /\ calls[k].left \in Nat /\ calls[k].precedence \in Int
  <2>1. \A k \in DOMAIN calls : calls[k] \in CallRecords
    BY <1>1
  <2>2. QED
    BY <2>1 DEF CallRecords
<1>4. Len(calls) \in DOMAIN calls /\ InnermostCall = calls[Len(calls)]
  BY <1>2 DEF InnermostCall
<1>5. InnermostCall.operator < position
  BY <1>4 DEF ParseInv, CallsInv
<1>6. /\ position \in Nat /\ position >= 1
      /\ Len(source) \in Nat /\ position <= Len(source) + 1 /\ DOMAIN source = 1 .. Len(source)
      /\ \A i \in 1 .. Len(source) : source[i] \in Tokens
  BY SourceFacts DEF ParseInv
<1>7. DOMAIN nodes \subseteq 1 .. position - 1 /\ (operand = 0 \/ operand \in DOMAIN nodes)
  BY DEF ParseInv, NodesInv, OperandInv
<1>8. QED
  BY <1>2, <1>3, <1>4, <1>5, <1>6, <1>7

\* What a call takes does not change when nodes are added.
LEMMA CallKnownStays ==
  ASSUME NEW cs, NEW ds, NEW k, NEW s, NEW outline, NEW other, NEW made, NEW more,
         CallKnown(cs, k, s, outline, made), ds[k] = cs[k], ds[k - 1] = cs[k - 1],
         made \subseteq more, \A i \in made : other[i] = outline[i]
  PROVE  CallKnown(ds, k, s, other, more)
BY DEF CallKnown

\* Nor does what follows a node.
LEMMA FollowsStays ==
  ASSUME NEW i, NEW t, NEW outline, NEW other, Follows(i, t, outline),
         \A c \in Children(t) : other[c] = outline[c]
  PROVE  Follows(i, t, other)
<1>1. CASE t.node = "prefix"
  BY <1>1 DEF Follows, Children
<1>2. CASE t.node = "infix"
  BY <1>2 DEF Follows, Children
<1>3. CASE t.node \notin {"prefix", "infix"}
  BY <1>3 DEF Follows
<1>4. QED
  BY <1>1, <1>2, <1>3

\* The parser starts with one call that has parsed nothing.
LEMMA StartsParsing ==
  ASSUME ExprInit
  PROVE  ParseInv
<1>1. source \in Sources /\ position = 1 /\ operand = 0 /\ nodes = <<>> /\ calls = <<Call(0, 0, Lowest)>>
  BY DEF ExprInit
<1>2. Call(0, 0, Lowest) \in CallRecords /\ Call(0, 0, Lowest).operator = 0
  BY DEF Call, Lowest, CallRecords
<1>3. calls \in Seq(CallRecords) /\ Len(calls) = 1 /\ DOMAIN calls = {1}
      /\ calls[1] = Call(0, 0, Lowest) /\ calls # <<>>
  BY <1>1, <1>2
<1>4. CallsInv
  BY <1>1, <1>2, <1>3 DEF CallsInv
<1>5. NodesInv
  <2>1. DOMAIN nodes = {} /\ Pending = {0}
    BY <1>1, <1>2, <1>3 DEF Pending
  <2>2. (1 .. position - 1) \ Pending = {}
    BY <1>1
  <2>3. Grounded(nodes, [i \in {} |-> 0])
    BY <2>1 DEF Grounded
  <2>4. QED
    BY <2>1, <2>2, <2>3 DEF NodesInv
<1>6. OperandInv
  <2>1. InnermostCall.operator = 0
    BY <1>2, <1>3 DEF InnermostCall
  <2>2. Len(source) >= 1 /\ source[1].is # "infix"
    BY <1>1, SourceFacts
  <2>3. QED
    BY <1>1, <2>1, <2>2 DEF OperandInv
<1>7. position \in 1 .. Len(source) + 1
  BY <1>1, SourceFacts
<1>8. QED
  BY <1>1, <1>4, <1>5, <1>6, <1>7 DEF ParseInv

\* Operands and operators alternate: what the next token can be.
LEMMA TokensAround ==
  ASSUME ParseInv
  PROVE  /\ operand = 0 => position \in 1 .. Len(source) /\ position = InnermostCall.operator + 1
                            /\ source[position].is \in {"operand", "prefix"}
         /\ operand # 0 /\ position <= Len(source) => source[position].is = "infix"
<1>1. position \in Nat /\ position >= 1 /\ Len(source) \in Nat /\ \A i \in 1 .. Len(source) : source[i] \in Tokens
  BY ParseFacts
<1>2. \A i \in DOMAIN nodes : i # 0
  BY ParseFacts
<1>3. ASSUME operand = 0
      PROVE  position \in 1 .. Len(source) /\ position = InnermostCall.operator + 1 /\ source[position].is \in {"operand", "prefix"}
  <2>1. position \in 1 .. Len(source) /\ position = InnermostCall.operator + 1 /\ source[position].is # "infix"
    BY <1>1, <1>2, <1>3 DEF ParseInv, OperandInv
  <2>2. QED
    BY <1>1, <2>1, TokenShapes
<1>4. ASSUME operand # 0, position <= Len(source)
      PROVE  source[position].is = "infix"
  <2>1. source[position - 1].is = "operand" /\ InnermostCall.operator < position - 1 /\ InnermostCall.operator \in Nat
    BY <1>4, ParseFacts DEF ParseInv, OperandInv
  <2>2. position - 1 \in 1 .. Len(source) - 1
    BY <1>1, <1>4, <2>1
  <2>3. source[(position - 1) + 1].is = "infix"
    BY <2>1, <2>2, SourceFacts DEF ParseInv
  <2>4. (position - 1) + 1 = position
    BY <1>1
  <2>5. QED
    BY <2>3, <2>4
<1>5. QED
  BY <1>3, <1>4

\* An operand is a tree of one token.
LEMMA ParseOperandKeeps ==
  ASSUME ParseInv, ParseOperand
  PROVE  ParseInv'
<1> DEFINE i == position
           t == source[i].node
           n == Len(calls)
<1>1. /\ source' = source /\ calls' = calls /\ position' = i + 1 /\ operand' = i /\ nodes' = With(nodes, i, t)
      /\ source[i].is = "operand" /\ operand = 0
  BY DEF ParseOperand, Extended, With
<1>2. i \in 1 .. Len(source) /\ i = InnermostCall.operator + 1 /\ i \in Nat
  BY <1>1, TokensAround
<1>3. t.node \in {"name", "literal"} /\ Children(t) = {}
  <2>1. source[i] \in Tokens
    BY <1>2, ParseFacts
  <2>2. t \in {Name} \cup {Literal(v) : v \in ScalarsOf(0 .. Half - 1)}
    BY <1>1, <2>1, TokenShapes
  <2>3. t.node \in {"name", "literal"}
    BY <2>2 DEF Name, Literal
  <2>4. QED
    BY <2>3 DEF Children
<1>4. i \notin DOMAIN nodes
  BY <1>2, ParseFacts
<1>5. PICK h : Grounded(nodes, h)
  BY DEF ParseInv, NodesInv
<1>6. /\ \E g : Grounded(nodes', g)
      /\ DOMAIN nodes' = DOMAIN nodes \cup {i}
      /\ nodes'[i] = t
      /\ \A j \in DOMAIN nodes : nodes'[j] = nodes[j] /\ Outline(nodes')[j] = Outline(nodes)[j]
      /\ Outline(nodes')[i] = OutlineOf(Outline(nodes'), nodes', i)
  <2>1. Children(t) \subseteq DOMAIN nodes
    BY <1>3
  <2>2. nodes' = With(nodes, i, t)
    BY <1>1
  <2> HIDE DEF i, t
  <2>3. DOMAIN nodes' = DOMAIN nodes \cup {i} /\ nodes'[i] = t /\ \A j \in DOMAIN nodes : nodes'[j] = nodes[j]
    BY <1>4, <2>2 DEF With
  <2>4. \E g : Grounded(nodes', g)
    BY <1>4, <1>5, <2>1, <2>2, OneNodeMore
  <2>5. /\ \A j \in DOMAIN nodes : Outline(nodes')[j] = Outline(nodes)[j]
        /\ Outline(nodes')[i] = OutlineOf(Outline(nodes'), nodes', i)
    BY <1>4, <1>5, <2>1, <2>2, OutlineWith
  <2>6. QED
    BY <2>3, <2>4, <2>5
<1>7. Outline(nodes')[i] = [under |-> {i}, begin |-> {}, end |-> {}]
  BY <1>3, <1>6 DEF OutlineOf
<1>8. CallsInv'
  <2>1. /\ calls \in Seq(CallRecords)
        /\ calls # <<>> /\ calls[1] = Call(0, 0, Lowest)
        /\ \A j, k \in DOMAIN calls : j < k => calls[j].operator < calls[k].operator
    BY DEF ParseInv, CallsInv
  <2>2. \A k \in DOMAIN calls : calls[k].operator < i + 1
    <3>1. \A k \in DOMAIN calls : calls[k].operator \in Nat /\ calls[k].operator < i
      BY ParseFacts DEF ParseInv, CallsInv
    <3>2. QED
      BY <1>2, <3>1
  <2>3. ASSUME NEW k \in DOMAIN calls, k > 1
        PROVE  CallKnown(calls, k, source, Outline(nodes'), DOMAIN nodes')
    <3>1. CallKnown(calls, k, source, Outline(nodes), DOMAIN nodes)
      BY <2>3 DEF ParseInv, CallsInv
    <3>2. DOMAIN nodes \subseteq DOMAIN nodes' /\ \A j \in DOMAIN nodes : Outline(nodes')[j] = Outline(nodes)[j]
      BY <1>6
    <3>3. QED
      BY <3>1, <3>2, CallKnownStays
  <2>4. QED
    BY <1>1, <2>1, <2>2, <2>3 DEF CallsInv
<1>9. NodesInv'
  <2>1. Pending' = Pending /\ DOMAIN nodes = (1 .. i - 1) \ Pending
    BY <1>1 DEF Pending, ParseInv, NodesInv
  <2>2. i \notin Pending
    BY <1>2 DEF Pending, ParseInv, CallsInv
  <2>3. 1 .. (i + 1) - 1 = (1 .. i - 1) \cup {i}
    BY <1>2
  <2>4. DOMAIN nodes' = (1 .. position' - 1) \ Pending'
    BY <1>1, <1>6, <2>1, <2>2, <2>3
  <2>5. ASSUME NEW j \in DOMAIN nodes'
        PROVE  MadeFrom(source[j], nodes'[j]) /\ Follows(j, nodes'[j], Outline(nodes'))
    <3>1. CASE j = i
      <4>1. MadeFrom(source[i], t)
        BY <1>1 DEF MadeFrom
      <4>2. Follows(i, t, Outline(nodes'))
        BY <1>3 DEF Follows
      <4>3. QED
        BY <3>1, <1>6, <4>1, <4>2
    <3>2. CASE j # i
      <4>1. j \in DOMAIN nodes /\ nodes'[j] = nodes[j]
        BY <1>6, <3>2
      <4>2. MadeFrom(source[j], nodes[j]) /\ Follows(j, nodes[j], Outline(nodes))
        BY <4>1 DEF ParseInv, NodesInv
      <4>3. \A c \in Children(nodes[j]) : Outline(nodes')[c] = Outline(nodes)[c]
        BY <1>5, <1>6, <4>1 DEF Grounded
      <4>4. QED
        BY <4>1, <4>2, <4>3, FollowsStays
    <3>3. QED
      BY <3>1, <3>2
  <2>6. QED
    BY <1>1, <1>6, <2>4, <2>5 DEF NodesInv
<1>10. OperandInv'
  <2>1. InnermostCall' = InnermostCall
    BY <1>1 DEF InnermostCall
  <2>2. InnermostCall.operator + 1 .. (i + 1) - 1 = {i} /\ (i + 1) - 1 = i /\ InnermostCall.operator < (i + 1) - 1
    BY <1>2, ParseFacts
  <2>3. i \in DOMAIN nodes'
    BY <1>6
  <2>4. QED
    BY <1>1, <1>7, <2>1, <2>2, <2>3 DEF OperandInv
<1>11. position' \in 1 .. Len(source') + 1
  BY <1>1, <1>2, ParseFacts
<1>12. ASSUME NEW j \in 1 .. position' - 1 PROVE ~(source[j].is = "infix" /\ source[j].newline)
  <2>1. j \in 1 .. i - 1 \/ j = i
    BY <1>1, <1>2, <1>12
  <2>2. QED
    BY <1>1, <2>1 DEF ParseInv
<1>13. QED
  BY <1>1, <1>8, <1>9, <1>10, <1>11, <1>12 DEF ParseInv

\* parseExpression is called for what follows an operator.
LEMMA CallKeeps ==
  ASSUME ParseInv, position <= Len(source), source[position].is # "operand",
         source[position].is = "infix" => source[position].newline = FALSE,
         NEW c \in CallRecords, c.operator = position,
         CallKnown(Append(calls, c), Len(calls) + 1, source, Outline(nodes), DOMAIN nodes),
         calls' = Append(calls, c), position' = position + 1, operand' = 0, source' = source, nodes' = nodes
  PROVE  ParseInv'
<1> DEFINE i == position
           n == Len(calls)
<1>1. /\ n \in Nat /\ n >= 1 /\ DOMAIN calls = 1 .. n /\ i \in Nat /\ i >= 1
      /\ \A k \in 1 .. n : calls[k].operator \in Nat /\ calls[k].operator < i
      /\ calls \in Seq(CallRecords)
  BY ParseFacts DEF ParseInv, CallsInv
<1>2. /\ calls' \in Seq(CallRecords) /\ Len(calls') = n + 1 /\ DOMAIN calls' = 1 .. n + 1
      /\ calls'[n + 1] = c /\ \A k \in 1 .. n : calls'[k] = calls[k]
  <2> HIDE DEF n
  <2> QED
    BY <1>1 DEF n
<1>3. CallsInv'
  <2>1. calls' # <<>> /\ calls'[1] = Call(0, 0, Lowest)
    BY <1>1, <1>2 DEF ParseInv, CallsInv
  <2>2. ASSUME NEW j \in DOMAIN calls', NEW k \in DOMAIN calls', j < k PROVE calls'[j].operator < calls'[k].operator
    <3>1. CASE k = n + 1
      <4>1. j \in 1 .. n /\ calls'[j] = calls[j] /\ calls'[k] = c
        BY <1>1, <1>2, <2>2, <3>1
      <4>2. QED
        BY <1>1, <4>1
    <3>2. CASE k # n + 1
      <4>1. j \in 1 .. n /\ k \in 1 .. n
        BY <1>1, <1>2, <2>2, <3>2
      <4>2. calls[j].operator < calls[k].operator
        BY <1>1, <2>2, <4>1 DEF ParseInv, CallsInv
      <4>3. QED
        BY <1>2, <4>1, <4>2
    <3>3. QED
      BY <3>1, <3>2
  <2>3. ASSUME NEW k \in DOMAIN calls' PROVE calls'[k].operator < i + 1
    <3>1. CASE k = n + 1
      BY <1>1, <1>2, <3>1
    <3>2. CASE k # n + 1
      <4>1. k \in 1 .. n
        BY <1>1, <1>2, <3>2
      <4>2. calls[k].operator \in Nat /\ calls[k].operator < i
        BY <1>1, <4>1
      <4>3. QED
        BY <1>1, <1>2, <4>1, <4>2
    <3>3. QED
      BY <3>1, <3>2
  <2>4. ASSUME NEW k \in DOMAIN calls', k > 1
        PROVE  CallKnown(calls', k, source, Outline(nodes), DOMAIN nodes)
    <3>1. CASE k = n + 1
      BY <3>1
    <3>2. CASE k # n + 1
      <4>1. k \in 1 .. n /\ k - 1 \in 1 .. n
        BY <1>1, <1>2, <2>4, <3>2
      <4>2. CallKnown(calls, k, source, Outline(nodes), DOMAIN nodes)
        BY <1>1, <2>4, <4>1 DEF ParseInv, CallsInv
      <4>3. calls'[k] = calls[k] /\ calls'[k - 1] = calls[k - 1]
        BY <1>2, <4>1
      <4>4. QED
        BY <4>2, <4>3, CallKnownStays
    <3>3. QED
      BY <3>1, <3>2
  <2>5. QED
    BY <1>2, <2>1, <2>2, <2>3, <2>4 DEF CallsInv
<1>4. NodesInv'
  <2>1. Pending' = Pending \cup {i}
    <3>1. Pending' = {calls'[k].operator : k \in 1 .. n + 1} /\ Pending = {calls[k].operator : k \in 1 .. n}
      BY <1>1, <1>2 DEF Pending
    <3>2. 1 .. n + 1 = (1 .. n) \cup {n + 1}
      BY <1>1
    <3> HIDE DEF n
    <3>3. QED
      BY <1>2, <3>1, <3>2
  <2>2. (1 .. (i + 1) - 1) \ (Pending \cup {i}) = (1 .. i - 1) \ Pending
    BY <1>1
  <2>3. DOMAIN nodes = (1 .. i - 1) \ Pending
    BY DEF ParseInv, NodesInv
  <2>4. QED
    BY <2>1, <2>2, <2>3 DEF ParseInv, NodesInv
<1>5. i \in 1 .. Len(source) - 1 /\ source[i + 1].is # "infix"
  <2>1. source[Len(source)].is = "operand" /\ Len(source) \in Nat
    BY SourceFacts DEF ParseInv
  <2>2. i \in 1 .. Len(source) - 1
    BY <1>1, <2>1
  <2>3. QED
    BY <2>2, SourceFacts DEF ParseInv
<1>6. OperandInv'
  <2>1. InnermostCall' = c
    BY <1>2 DEF InnermostCall
  <2>2. position' <= Len(source)
    BY <1>1, <1>5, ParseFacts
  <2>3. QED
    BY <1>5, <2>1, <2>2 DEF OperandInv
<1>7. position' \in 1 .. Len(source') + 1
  BY <1>1, <1>5, ParseFacts
<1>8. ASSUME NEW j \in 1 .. position' - 1 PROVE ~(source[j].is = "infix" /\ source[j].newline)
  <2>1. j \in 1 .. i - 1 \/ j = i
    BY <1>1, <1>8
  <2>2. QED
    BY <2>1 DEF ParseInv
<1>9. QED
  BY <1>3, <1>4, <1>6, <1>7, <1>8 DEF ParseInv

\* A prefix operator waits for what binds tighter.
LEMMA ParsePrefixExpressionKeeps ==
  ASSUME ParseInv, ParsePrefixExpression
  PROVE  ParseInv'
<1> DEFINE c == Call(position, 0, PrefixPower)
<1>1. /\ source' = source /\ nodes' = nodes /\ operand' = operand /\ operand = 0 /\ position' = position + 1
      /\ calls' = Append(calls, c) /\ source[position].is = "prefix"
  BY DEF ParsePrefixExpression
<1>2. position \in 1 .. Len(source) /\ position = InnermostCall.operator + 1 /\ position \in Nat
  BY <1>1, TokensAround
<1>3. c \in CallRecords /\ c.operator = position /\ c.left = 0 /\ c.precedence = PrefixPower
  BY <1>2 DEF Call, CallRecords, PrefixPower
<1>4. Append(calls, c)[Len(calls) + 1] = c /\ Append(calls, c)[(Len(calls) + 1) - 1] = InnermostCall
  <2>1. Len(calls) \in Nat /\ Len(calls) >= 1 /\ InnermostCall = calls[Len(calls)] /\ calls \in Seq(CallRecords)
    BY ParseFacts DEF ParseInv, CallsInv
  <2>2. (Len(calls) + 1) - 1 = Len(calls) /\ Len(calls) \in 1 .. Len(calls)
    BY <2>1
  <2> HIDE DEF c
  <2>3. QED
    BY <2>1, <2>2
<1>5. CallKnown(Append(calls, c), Len(calls) + 1, source, Outline(nodes), DOMAIN nodes)
  <2> HIDE DEF c
  <2> QED
    BY <1>1, <1>2, <1>3, <1>4 DEF CallKnown
<1>6. position <= Len(source) /\ source[position].is # "operand" /\ source[position].is # "infix"
  BY <1>1, <1>2
<1>7. QED
  <2> HIDE DEF c
  <2> QED
    BY <1>1, <1>3, <1>5, <1>6, CallKeeps

LEMMA PowersAreNumbers ==
  ASSUME ParseInv
  PROVE  Powers(nodes) \subseteq Int
<1>1. SUFFICES ASSUME NEW i \in DOMAIN nodes PROVE Power(nodes[i]) \in Int
  BY DEF Powers
<1>2. MadeFrom(source[i], nodes[i])
  BY DEF ParseInv, NodesInv
<1>3. source[i] \in Tokens
  BY ParseFacts
<1>4. CASE source[i].is = "operand"
  <2>1. nodes[i] \in {Name} \cup {Literal(v) : v \in ScalarsOf(0 .. Half - 1)}
    BY <1>2, <1>3, <1>4, TokenShapes DEF MadeFrom
  <2>2. nodes[i].node # "infix"
    BY <2>1 DEF Name, Literal
  <2>3. QED
    BY <2>2 DEF Power, PrefixPower
<1>5. CASE source[i].is = "prefix"
  BY <1>2, <1>5 DEF MadeFrom, Power, PrefixPower
<1>6. CASE source[i].is = "infix"
  <2>1. nodes[i] = Infix(source[i].op, nodes[i].left, nodes[i].right) /\ source[i].op \in Operators
    BY <1>2, <1>3, <1>6, TokenShapes DEF MadeFrom
  <2>2. nodes[i].op = source[i].op /\ nodes[i].node = "infix"
    BY <2>1 DEF Infix
  <2>3. QED
    BY <2>1, <2>2, PrecedenceFacts DEF Power
<1>7. QED
  BY <1>3, <1>4, <1>5, <1>6, TokenShapes

\* An infix operator takes what has been parsed and waits for its right operand.
LEMMA ParseInfixExpressionKeeps ==
  ASSUME ParseInv, ParseInfixExpression
  PROVE  ParseInv'
<1> DEFINE op == source[position].op
           c == Call(position, operand, Precedence(op))
<1>1. /\ source' = source /\ nodes' = nodes /\ operand' = 0 /\ operand # 0 /\ position' = position + 1
      /\ calls' = Append(calls, c) /\ ~Ends(InnermostCall.precedence)
  BY DEF ParseInfixExpression
<1>2. /\ position \in 1 .. Len(source) /\ ~source[position].newline
      /\ BindsTighter(InnermostCall.precedence, op)
  BY <1>1, ParseFacts DEF Ends
<1>3. source[position].is = "infix" /\ op \in Operators /\ source[position].newline = FALSE
  <2>1. source[position].is = "infix" /\ source[position] \in Tokens
    BY <1>1, <1>2, TokensAround, ParseFacts
  <2>2. QED
    BY <1>2, <2>1, TokenShapes
<1>4. Precedence(op) \in Int /\ Precedence(op) > InnermostCall.precedence
  BY <1>2, <1>3, PrecedenceFacts, ParseFacts DEF BindsTighter
<1>5. operand \in DOMAIN nodes /\ operand \in Nat
  BY <1>1, ParseFacts
<1>6. c \in CallRecords /\ c.operator = position /\ c.left = operand /\ c.precedence = Precedence(op)
  <2> HIDE DEF op
  <2> QED
    BY <1>2, <1>4, <1>5 DEF Call, CallRecords
<1>7. Append(calls, c)[Len(calls) + 1] = c /\ Append(calls, c)[(Len(calls) + 1) - 1] = InnermostCall
  <2>1. Len(calls) \in Nat /\ Len(calls) >= 1 /\ InnermostCall = calls[Len(calls)] /\ calls \in Seq(CallRecords)
    BY ParseFacts DEF ParseInv, CallsInv
  <2>2. (Len(calls) + 1) - 1 = Len(calls) /\ Len(calls) \in 1 .. Len(calls)
    BY <2>1
  <2> HIDE DEF c
  <2>3. QED
    BY <2>1, <2>2
<1>8. /\ Outline(nodes)[operand].under = InnermostCall.operator + 1 .. position - 1
      /\ \A power \in Outline(nodes)[operand].begin : power > InnermostCall.precedence
      /\ \A power \in Outline(nodes)[operand].end : Ends(power)
  BY <1>1 DEF ParseInv, OperandInv
<1>9. ASSUME NEW power \in Outline(nodes)[operand].end PROVE power >= Precedence(op)
  <2>1. power \in Int
    <3>1. PICK h : Grounded(nodes, h)
      BY DEF ParseInv, NodesInv
    <3>2. power \in Powers(nodes)
      BY <1>5, <3>1, OutlineTyped
    <3>3. QED
      BY <3>2, PowersAreNumbers
  <2>2. ~BindsTighter(power, op)
    BY <1>2, <1>8, ParseFacts DEF Ends
  <2>3. QED
    BY <1>4, <2>1, <2>2 DEF BindsTighter
<1>10. CallKnown(Append(calls, c), Len(calls) + 1, source, Outline(nodes), DOMAIN nodes)
  <2> HIDE DEF c
  <2> QED
    BY <1>3, <1>4, <1>5, <1>6, <1>7, <1>8, <1>9 DEF CallKnown
<1>11. position <= Len(source) /\ source[position].is # "operand"
  BY <1>2, <1>3
<1>12. QED
  <2> HIDE DEF c
  <2> QED
    BY <1>1, <1>3, <1>6, <1>10, <1>11, CallKeeps

\* The node that the function of the operator i makes.
LEMMA ReturnedNode ==
  ASSUME ParseInv, ReturnExpression
  PROVE  \E t :
            LET i == InnermostCall.operator
                outer == calls[Len(calls) - 1]
                outline == Outline(With(nodes, i, t))
            IN /\ nodes' = With(nodes, i, t)
               /\ Children(t) \subseteq DOMAIN nodes
               /\ MadeFrom(source[i], t)
               /\ i \in 1 .. position - 1 /\ i \notin DOMAIN nodes
               /\ Follows(i, t, outline)
               /\ outline[i].under = outer.operator + 1 .. position - 1
               /\ \A power \in outline[i].begin : power > outer.precedence
               /\ \A power \in outline[i].end : Ends(power)
<1> DEFINE i == InnermostCall.operator
           n == Len(calls)
           outer == calls[n - 1]
           op == source[i].op
           t == IF InnermostCall.left = 0 THEN Prefix(op, operand) ELSE Infix(op, InnermostCall.left, operand)
           outline == Outline(With(nodes, i, t))
<1>1. /\ nodes' = With(nodes, i, t) /\ operand # 0 /\ Ends(InnermostCall.precedence) /\ n > 1
  BY DEF ReturnExpression, Extended, With
<1>2. /\ n \in Nat /\ DOMAIN calls = 1 .. n /\ InnermostCall = calls[n] /\ i \in Nat /\ i < position /\ position \in Nat
      /\ n \in DOMAIN calls /\ n - 1 \in DOMAIN calls /\ outer.operator \in Nat
      /\ position <= Len(source) + 1 /\ Len(source) \in Nat
      /\ operand \in DOMAIN nodes /\ 0 \notin DOMAIN nodes
  BY <1>1, ParseFacts
<1>3. CallKnown(calls, n, source, Outline(nodes), DOMAIN nodes)
  BY <1>1, <1>2 DEF ParseInv, CallsInv
<1>4. outer.operator < i
  BY <1>1, <1>2 DEF ParseInv, CallsInv
<1>5. i \in 1 .. position - 1 /\ i \notin DOMAIN nodes
  <2>1. i \in Pending
    BY <1>2 DEF Pending
  <2>2. QED
    BY <1>2, <1>4, <2>1 DEF ParseInv, NodesInv
<1>6. PICK h : Grounded(nodes, h)
  BY DEF ParseInv, NodesInv
<1>7. /\ Outline(nodes)[operand].under = i + 1 .. position - 1
      /\ \A power \in Outline(nodes)[operand].begin : power > InnermostCall.precedence
      /\ \A power \in Outline(nodes)[operand].end : Ends(power)
  BY <1>1 DEF ParseInv, OperandInv
<1>8. \/ /\ source[i].is = "prefix" /\ InnermostCall.left = 0 /\ InnermostCall.precedence = PrefixPower
         /\ i = outer.operator + 1
      \/ /\ source[i].is = "infix" /\ InnermostCall.left \in DOMAIN nodes
         /\ InnermostCall.precedence = Precedence(op) /\ InnermostCall.precedence > outer.precedence
         /\ Outline(nodes)[InnermostCall.left].under = outer.operator + 1 .. i - 1
         /\ \A power \in Outline(nodes)[InnermostCall.left].begin : power > outer.precedence
         /\ \A power \in Outline(nodes)[InnermostCall.left].end : power >= InnermostCall.precedence
  BY <1>2, <1>3 DEF CallKnown
<1>9. CASE InnermostCall.left = 0
  <2>1. /\ source[i].is = "prefix" /\ InnermostCall.precedence = PrefixPower /\ i = outer.operator + 1
        /\ t = Prefix(op, operand)
    BY <1>2, <1>8, <1>9
  <2>2. t.node = "prefix" /\ t.right = operand /\ Children(t) = {operand} /\ Power(t) = PrefixPower /\ t = Prefix(op, t.right)
    <3> HIDE DEF op, t
    <3> QED
      BY <2>1 DEF Prefix, Children, Power
  <2>3. MadeFrom(source[i], t)
    <3> HIDE DEF t
    <3> QED
      BY <2>1, <2>2 DEF MadeFrom, op
  <2>4. /\ outline[operand] = Outline(nodes)[operand]
        /\ outline[i] = OutlineOf(outline, With(nodes, i, t), i) /\ With(nodes, i, t)[i] = t
    <3>1. Children(t) \subseteq DOMAIN nodes /\ operand \in DOMAIN nodes /\ i \notin DOMAIN nodes
      BY <1>2, <1>5, <2>2
    <3> HIDE DEF i, t
    <3>2. PICK ms : ms = With(nodes, i, t)
      OBVIOUS
    <3>3. /\ \A j \in DOMAIN nodes : Outline(ms)[j] = Outline(nodes)[j]
          /\ Outline(ms)[i] = OutlineOf(Outline(ms), ms, i)
      BY <1>6, <3>1, <3>2, OutlineWith
    <3>4. ms[i] = t
      BY <3>2 DEF With
    <3>5. QED
      BY <3>1, <3>2, <3>3, <3>4
  <2>5. outline[i] = [under |-> {i} \cup Outline(nodes)[operand].under,
                      begin |-> {}, end |-> {PrefixPower} \cup Outline(nodes)[operand].end]
    <3> HIDE DEF i, t, outline
    <3> QED
      BY <2>2, <2>4 DEF OutlineOf
  <2>6. Follows(i, t, outline)
    <3>1. \A j \in outline[operand].under : i < j
      BY <1>2, <1>7, <2>4
    <3>2. \A power \in outline[operand].begin : power > PrefixPower
      BY <1>7, <2>1, <2>4
    <3> HIDE DEF i, t, outline
    <3>3. QED
      BY <2>2, <3>1, <3>2 DEF Follows
  <2>7. {i} \cup (i + 1 .. position - 1) = outer.operator + 1 .. position - 1
    BY <1>2, <1>5, <2>1
  <2>8. /\ outline[i].under = outer.operator + 1 .. position - 1
        /\ \A power \in outline[i].begin : power > outer.precedence
        /\ \A power \in outline[i].end : Ends(power)
    <3> HIDE DEF i, t, outline
    <3> QED
      BY <1>1, <1>7, <2>1, <2>5, <2>7
  <2>9. Children(t) \subseteq DOMAIN nodes
    BY <1>2, <2>2
  <2>10. QED
    BY <1>1, <1>5, <2>3, <2>6, <2>8, <2>9
<1>10. CASE InnermostCall.left # 0
  <2> DEFINE left == InnermostCall.left
  <2>1. /\ source[i].is = "infix" /\ left \in DOMAIN nodes
        /\ InnermostCall.precedence = Precedence(op) /\ InnermostCall.precedence > outer.precedence
        /\ Outline(nodes)[left].under = outer.operator + 1 .. i - 1
        /\ \A power \in Outline(nodes)[left].begin : power > outer.precedence
        /\ \A power \in Outline(nodes)[left].end : power >= InnermostCall.precedence
        /\ t = Infix(op, left, operand)
    BY <1>2, <1>8, <1>10
  <2>2. /\ t.node = "infix" /\ t.right = operand /\ t.left = left /\ Children(t) = {left, operand}
        /\ Power(t) = Precedence(op) /\ t = Infix(op, t.left, t.right)
    <3> HIDE DEF op, t, left
    <3> QED
      BY <2>1 DEF Infix, Children, Power
  <2>3. MadeFrom(source[i], t)
    <3> HIDE DEF t
    <3> QED
      BY <2>1, <2>2 DEF MadeFrom, op
  <2>4. /\ outline[operand] = Outline(nodes)[operand] /\ outline[left] = Outline(nodes)[left]
        /\ outline[i] = OutlineOf(outline, With(nodes, i, t), i) /\ With(nodes, i, t)[i] = t
    <3>1. left \in DOMAIN nodes /\ Children(t) \subseteq DOMAIN nodes /\ operand \in DOMAIN nodes /\ i \notin DOMAIN nodes
      BY <1>2, <1>5, <2>1, <2>2
    <3> HIDE DEF i, t, left
    <3>2. PICK ms : ms = With(nodes, i, t)
      OBVIOUS
    <3>3. /\ \A j \in DOMAIN nodes : Outline(ms)[j] = Outline(nodes)[j]
          /\ Outline(ms)[i] = OutlineOf(Outline(ms), ms, i)
      BY <1>6, <3>1, <3>2, OutlineWith
    <3>4. ms[i] = t
      BY <3>2 DEF With
    <3>5. QED
      BY <3>1, <3>2, <3>3, <3>4
  <2>5. outline[i] = [under |-> {i} \cup Outline(nodes)[left].under \cup Outline(nodes)[operand].under,
                      begin |-> {Precedence(op)} \cup Outline(nodes)[left].begin,
                      end |-> {Precedence(op)} \cup Outline(nodes)[operand].end]
    <3> HIDE DEF i, t, outline, left, op
    <3> QED
      BY <2>2, <2>4 DEF OutlineOf
  <2>6. Follows(i, t, outline)
    <3>1. \A j \in outline[operand].under : i < j
      BY <1>2, <1>7, <2>4
    <3>2. \A power \in outline[operand].begin : power > Precedence(op)
      BY <1>7, <2>1, <2>4
    <3>3. \A j \in outline[left].under : j < i
      <4>1. outline[left].under = outer.operator + 1 .. i - 1
        BY <2>1, <2>4
      <4>2. \A j \in outer.operator + 1 .. i - 1 : j < i
        BY <1>2
      <4> HIDE DEF outline, left, outer, i
      <4>3. QED
        BY <4>1, <4>2
    <3>4. \A power \in outline[left].end : power >= Precedence(op)
      BY <2>1, <2>4
    <3> HIDE DEF i, t, outline, left, op
    <3>5. QED
      BY <2>2, <3>1, <3>2, <3>3, <3>4 DEF Follows
  <2>7. {i} \cup (outer.operator + 1 .. i - 1) \cup (i + 1 .. position - 1) = outer.operator + 1 .. position - 1
    <3>1. outer.operator \in Nat /\ outer.operator < i /\ i \in Nat /\ position \in Nat /\ i < position
      BY <1>2, <1>4
    <3> HIDE DEF outer, i
    <3>2. QED
      BY <3>1
  <2>8. /\ outline[i].under = outer.operator + 1 .. position - 1
        /\ \A power \in outline[i].begin : power > outer.precedence
        /\ \A power \in outline[i].end : Ends(power)
    <3> HIDE DEF i, t, outline, left, op
    <3> QED
      BY <1>1, <1>7, <2>1, <2>5, <2>7
  <2>9. Children(t) \subseteq DOMAIN nodes
    BY <1>2, <2>1, <2>2
  <2>10. QED
    BY <1>1, <1>5, <2>3, <2>6, <2>8, <2>9
<1>11. QED
  BY <1>9, <1>10

\* The node of an operator follows the precedences of both its operands.
LEMMA ReturnExpressionKeeps ==
  ASSUME ParseInv, ReturnExpression
  PROVE  ParseInv'
<1> DEFINE i == InnermostCall.operator
           n == Len(calls)
           outer == calls[n - 1]
           outline == Outline(nodes')
<1>1. /\ source' = source /\ position' = position /\ operand' = i /\ n > 1
      /\ calls' = SubSeq(calls, 1, n - 1)
  BY DEF ReturnExpression
<1>2. /\ n \in Nat /\ DOMAIN calls = 1 .. n /\ InnermostCall = calls[n] /\ i \in Nat
      /\ \A k \in 1 .. n : calls[k].operator \in Nat
      /\ position \in Nat /\ position >= 1 /\ Len(source) \in Nat /\ position <= Len(source) + 1
  BY ParseFacts
<1>3. PICK t : /\ nodes' = With(nodes, i, t)
               /\ Children(t) \subseteq DOMAIN nodes
               /\ MadeFrom(source[i], t)
               /\ i \in 1 .. position - 1 /\ i \notin DOMAIN nodes
               /\ Follows(i, t, outline)
               /\ outline[i].under = outer.operator + 1 .. position - 1
               /\ \A power \in outline[i].begin : power > outer.precedence
               /\ \A power \in outline[i].end : Ends(power)
  <2>1. PICK t : LET with == Outline(With(nodes, i, t))
                 IN /\ nodes' = With(nodes, i, t)
                    /\ Children(t) \subseteq DOMAIN nodes
                    /\ MadeFrom(source[i], t)
                    /\ i \in 1 .. position - 1 /\ i \notin DOMAIN nodes
                    /\ Follows(i, t, with)
                    /\ with[i].under = outer.operator + 1 .. position - 1
                    /\ \A power \in with[i].begin : power > outer.precedence
                    /\ \A power \in with[i].end : Ends(power)
    BY ReturnedNode, Zenon
  <2> HIDE DEF i, outer
  <2>2. QED
    BY <2>1
<1>4. PICK h : Grounded(nodes, h)
  BY DEF ParseInv, NodesInv
<1>5. DOMAIN nodes' = DOMAIN nodes \cup {i} /\ nodes'[i] = t /\ \A j \in DOMAIN nodes : nodes'[j] = nodes[j]
  <2> HIDE DEF i
  <2> QED
    BY <1>3 DEF With
<1>6. /\ \E g : Grounded(nodes', g)
      /\ \A j \in DOMAIN nodes : outline[j] = Outline(nodes)[j]
  <2>1. nodes' = With(nodes, i, t) /\ Children(t) \subseteq DOMAIN nodes /\ i \notin DOMAIN nodes
    BY <1>3
  <2> HIDE DEF i, outer
  <2>2. \E g : Grounded(nodes', g)
    BY <1>4, <2>1, OneNodeMore
  <2>3. \A j \in DOMAIN nodes : Outline(nodes')[j] = Outline(nodes)[j]
    BY <1>4, <2>1, OutlineWith
  <2>4. QED
    BY <2>2, <2>3
<1>7. /\ calls' \in Seq(CallRecords) /\ Len(calls') = n - 1 /\ DOMAIN calls' = 1 .. n - 1
      /\ \A k \in 1 .. n - 1 : calls'[k] = calls[k]
  <2>1. calls \in Seq(CallRecords) /\ n - 1 \in 0 .. n
    BY <1>1, <1>2 DEF ParseInv, CallsInv
  <2>2. QED
    BY <1>1, <1>2, <2>1
<1>8. CallsInv'
  <2>1. calls' # <<>> /\ calls'[1] = Call(0, 0, Lowest)
    <3>1. 1 \in 1 .. n - 1 /\ calls[1] = Call(0, 0, Lowest)
      BY <1>1, <1>2 DEF ParseInv, CallsInv
    <3>2. calls'[1] = calls[1]
      BY <1>7, <3>1
    <3>3. Len(calls') # 0
      BY <1>1, <1>2, <1>7
    <3>4. QED
      BY <3>1, <3>2, <3>3
  <2>2. \A k \in 1 .. n - 1 : k \in 1 .. n /\ (k > 1 => k - 1 \in 1 .. n - 1)
    BY <1>2
  <2>3. /\ \A j, k \in DOMAIN calls' : j < k => calls'[j].operator < calls'[k].operator
        /\ \A k \in DOMAIN calls' : calls'[k].operator < position
    <3>1. /\ \A j, k \in 1 .. n : j < k => calls[j].operator < calls[k].operator
          /\ \A k \in 1 .. n : calls[k].operator < position
      BY <1>2 DEF ParseInv, CallsInv
    <3> HIDE DEF n
    <3>2. QED
      BY <1>7, <2>2, <3>1
  <2>4. ASSUME NEW k \in DOMAIN calls', k > 1
        PROVE  CallKnown(calls', k, source, outline, DOMAIN nodes')
    <3>1. k \in 1 .. n /\ k \in 1 .. n - 1 /\ k - 1 \in 1 .. n - 1
      BY <1>7, <2>2, <2>4
    <3>2. CallKnown(calls, k, source, Outline(nodes), DOMAIN nodes)
      BY <1>2, <2>4, <3>1 DEF ParseInv, CallsInv
    <3>3. calls'[k] = calls[k] /\ calls'[k - 1] = calls[k - 1]
      BY <1>7, <3>1
    <3>4. DOMAIN nodes \subseteq DOMAIN nodes'
      BY <1>5
    <3> HIDE DEF outline
    <3>5. QED
      BY <1>6, <3>2, <3>3, <3>4, CallKnownStays
  <2>5. QED
    BY <1>1, <1>7, <2>1, <2>3, <2>4 DEF CallsInv
<1>9. NodesInv'
  <2>1. Pending = Pending' \cup {i} /\ i \notin Pending'
    <3>1. Pending' = {calls[k].operator : k \in 1 .. n - 1}
      BY <1>7 DEF Pending
    <3>2. Pending = {calls[k].operator : k \in 1 .. n} /\ 1 .. n = (1 .. n - 1) \cup {n} /\ i = calls[n].operator
      BY <1>1, <1>2 DEF Pending
    <3>3. \A k \in 1 .. n - 1 : calls[k].operator # i
      <4>1. \A k \in 1 .. n - 1 : k \in 1 .. n /\ n \in 1 .. n /\ k < n
        BY <1>1, <1>2
      <4>2. \A k \in 1 .. n - 1 : calls[k].operator < calls[n].operator /\ calls[k].operator \in Nat
        BY <1>2, <4>1 DEF ParseInv, CallsInv
      <4>3. QED
        BY <1>2, <4>2
    <3> HIDE DEF n, i
    <3>4. QED
      BY <3>1, <3>2, <3>3
  <2>2. DOMAIN nodes = (1 .. position - 1) \ Pending
    BY DEF ParseInv, NodesInv
  <2>3. i \in 1 .. position - 1
    BY <1>3
  <2>4. DOMAIN nodes' = (1 .. position' - 1) \ Pending'
    <3> HIDE DEF i
    <3> QED
      BY <1>1, <1>5, <2>1, <2>2, <2>3
  <2>5. ASSUME NEW j \in DOMAIN nodes'
        PROVE  MadeFrom(source[j], nodes'[j]) /\ Follows(j, nodes'[j], outline)
    <3>1. CASE j = i
      BY <1>3, <1>5, <3>1
    <3>2. CASE j # i
      <4>1. j \in DOMAIN nodes /\ nodes'[j] = nodes[j]
        BY <1>5, <3>2
      <4>2. MadeFrom(source[j], nodes[j]) /\ Follows(j, nodes[j], Outline(nodes))
        BY <4>1 DEF ParseInv, NodesInv
      <4>3. \A c \in Children(nodes[j]) : outline[c] = Outline(nodes)[c]
        BY <1>4, <1>6, <4>1 DEF Grounded
      <4> HIDE DEF outline
      <4>4. QED
        BY <4>1, <4>2, <4>3, FollowsStays
    <3>3. QED
      BY <3>1, <3>2
  <2>6. QED
    BY <1>1, <1>6, <2>4, <2>5 DEF NodesInv
<1>10. OperandInv'
  <2>1. InnermostCall' = outer
    <3>1. n - 1 \in 1 .. n - 1
      BY <1>1, <1>2
    <3>2. QED
      BY <1>7, <3>1 DEF InnermostCall
  <2>2. i \in DOMAIN nodes'
    BY <1>5
  <2>3. outer.operator < position - 1 /\ outer.operator \in Nat
    <3>1. n - 1 \in 1 .. n /\ n \in 1 .. n /\ n - 1 < n
      BY <1>1, <1>2
    <3>2. calls[n - 1].operator < calls[n].operator /\ calls[n - 1].operator \in Nat
      BY <1>2, <3>1 DEF ParseInv, CallsInv
    <3>3. i <= position - 1
      BY <1>3
    <3>4. QED
      BY <1>2, <3>2, <3>3
  <2>4. \A power : Ends(power)' <=> Ends(power)
    BY <1>1 DEF Ends
  <2>5. source[position - 1].is = "operand"
    <3>1. operand # 0
      BY DEF ReturnExpression
    <3>2. QED
      BY <3>1 DEF ParseInv, OperandInv
  <2>6. QED
    <3> HIDE DEF i, outer
    <3> QED
      BY <1>1, <1>3, <2>1, <2>2, <2>3, <2>4, <2>5 DEF OperandInv
<1>11. QED
  BY <1>1, <1>8, <1>9, <1>10 DEF ParseInv

-----------------------------------------------------------------------------
(* The tree.                                                               *)

\* What is parsed, of the source s.
IsTreeOf(tr, s) ==
    LET outline == Outline(tr.nodes)
        line == {i \in DOMAIN s : \A j \in 1 .. i : ~(s[j].is = "infix" /\ s[j].newline)}
    IN /\ DOMAIN tr.nodes = line
       /\ tr.root \in line
       /\ outline[tr.root].under = line
       /\ \E h : Grounded(tr.nodes, h)
       /\ \A i \in line : MadeFrom(s[i], tr.nodes[i]) /\ Follows(i, tr.nodes[i], outline)

\* When the outermost call returns the tree is that of the line.
LEMMA ParseProgramMakesTree ==
  ASSUME ParseInv, ParseProgram
  PROVE  IsTreeOf(parsed', source)
<1>1. /\ parsed' = [root |-> operand, nodes |-> nodes] /\ operand # 0 /\ Ends(InnermostCall.precedence) /\ Len(calls) = 1
  BY DEF ParseProgram
<1>2. /\ calls[1] = Call(0, 0, Lowest) /\ InnermostCall = calls[1] /\ DOMAIN calls = {1}
  BY <1>1, ParseFacts DEF ParseInv, CallsInv, InnermostCall
<1>3. InnermostCall.operator = 0 /\ InnermostCall.precedence = 1 /\ Pending = {0}
  BY <1>2 DEF Call, Lowest, Pending
<1>4. /\ position \in Nat /\ position >= 1 /\ Len(source) \in Nat /\ position <= Len(source) + 1
      /\ DOMAIN source = 1 .. Len(source)
  BY ParseFacts
<1>5. DOMAIN nodes = 1 .. position - 1
  BY <1>3, <1>4 DEF ParseInv, NodesInv
<1>6. position <= Len(source) => source[position].is = "infix" /\ source[position].newline
  <2>1. SUFFICES ASSUME position <= Len(source) PROVE source[position].is = "infix" /\ source[position].newline
    OBVIOUS
  <2>2. source[position].is = "infix" /\ source[position].op \in Operators
    BY <1>1, <1>4, <2>1, TokensAround, ParseFacts, TokenShapes
  <2>3. BindsTighter(1, source[position].op)
    BY <2>2, PrecedenceFacts DEF BindsTighter
  <2>4. position \in DOMAIN source
    BY <1>4, <2>1
  <2>5. QED
    BY <1>1, <1>3, <2>2, <2>3, <2>4 DEF Ends
<1>7. {i \in DOMAIN source : \A j \in 1 .. i : ~(source[j].is = "infix" /\ source[j].newline)} = 1 .. position - 1
  <2>1. ASSUME NEW i \in 1 .. position - 1
        PROVE  i \in DOMAIN source /\ \A j \in 1 .. i : ~(source[j].is = "infix" /\ source[j].newline)
    <3>1. i \in DOMAIN source /\ 1 .. i \subseteq 1 .. position - 1
      BY <1>4
    <3>2. QED
      BY <3>1 DEF ParseInv
  <2>2. ASSUME NEW i \in DOMAIN source, \A j \in 1 .. i : ~(source[j].is = "infix" /\ source[j].newline)
        PROVE  i \in 1 .. position - 1
    <3>1. CASE i >= position
      BY <1>4, <1>6, <2>2, <3>1
    <3>2. CASE ~(i >= position)
      BY <1>4, <3>2
    <3>3. QED
      BY <3>1, <3>2
  <2>3. QED
    BY <2>1, <2>2
<1>8. operand \in DOMAIN nodes /\ Outline(nodes)[operand].under = 1 .. position - 1
  BY <1>1, <1>3 DEF ParseInv, OperandInv
<1>9. /\ \E h : Grounded(nodes, h)
      /\ \A i \in DOMAIN nodes : MadeFrom(source[i], nodes[i]) /\ Follows(i, nodes[i], Outline(nodes))
  BY DEF ParseInv, NodesInv
<1>10. QED
  BY <1>1, <1>5, <1>7, <1>8, <1>9 DEF IsTreeOf

-----------------------------------------------------------------------------
(* Evaluation of a tree.                                                   *)

Valued(ns) ==
    \A i \in DOMAIN ns :
        /\ ns[i].node \in {"literal", "name", "prefix", "infix"}
        /\ ns[i].node = "literal" => ns[i].value \in Scalars

\* The nodes of a tree can be evaluated.
LEMMA TreeIsValued ==
  ASSUME NEW s \in Sources, NEW tr, IsTreeOf(tr, s)
  PROVE  /\ Valued(tr.nodes)
         /\ \A i \in DOMAIN tr.nodes :
               tr.nodes[i].node = "literal" => tr.nodes[i].value \in ScalarsOf(0 .. Half - 1)
<1>1. SUFFICES ASSUME NEW i \in DOMAIN tr.nodes
               PROVE  /\ tr.nodes[i].node \in {"literal", "name", "prefix", "infix"}
                      /\ tr.nodes[i].node = "literal" =>
                            tr.nodes[i].value \in Scalars /\ tr.nodes[i].value \in ScalarsOf(0 .. Half - 1)
  BY DEF Valued
<1> DEFINE t == tr.nodes[i]
<1>2. MadeFrom(s[i], t) /\ s[i] \in Tokens
  BY SourceFacts DEF IsTreeOf
<1>3. ScalarsOf(0 .. Half - 1) \subseteq Scalars
  <2>1. \A v \in 0 .. Half - 1 : Integer(v) \in ScalarsOf(Representable)
    BY RepresentableFacts DEF ScalarsOf
  <2>2. QED
    BY <2>1 DEF Scalars, ScalarsOf
<1> HIDE DEF t
<1>4. CASE s[i].is = "operand"
  <2>1. t \in {Name} \cup {Literal(v) : v \in ScalarsOf(0 .. Half - 1)}
    BY <1>2, <1>4, TokenShapes DEF MadeFrom
  <2>2. CASE t = Name
    BY <2>2 DEF Name, t
  <2>3. CASE t \in {Literal(v) : v \in ScalarsOf(0 .. Half - 1)}
    <3>1. PICK v \in ScalarsOf(0 .. Half - 1) : t = Literal(v)
      BY <2>3
    <3>2. t.node = "literal" /\ t.value = v
      BY <3>1 DEF Literal
    <3>3. QED
      BY <1>3, <3>2 DEF t
  <2>4. QED
    BY <2>1, <2>2, <2>3
<1>5. CASE s[i].is = "prefix"
  BY <1>2, <1>5 DEF MadeFrom, t
<1>6. CASE s[i].is = "infix"
  BY <1>2, <1>6 DEF MadeFrom, t
<1>7. QED
  BY <1>2, <1>4, <1>5, <1>6, TokenShapes

ValueOf(value, ns, i) ==
    LET t == ns[i]
    IN CASE t.node = "literal" -> t.value
         [] t.node = "name" -> NameValue
         [] t.node = "prefix" ->
               LET v == value[t.right] IN IF v.is = "error" THEN v ELSE EvalPrefix(t.op, v)
         [] t.node = "infix" ->
               LET l == value[t.left]
                   r == value[t.right]
               IN IF l.is = "error" THEN l
                  ELSE IF t.op = "&&" /\ ~Truthy(l) THEN Bool(FALSE)
                  ELSE IF t.op = "||" /\ Truthy(l) THEN Bool(TRUE)
                  ELSE IF r.is = "error" THEN r
                  ELSE IF t.op \in Custom THEN r
                  ELSE EvalInfix(t.op, l, r)

\* Every node has a scalar or an error for a value.
LEMMA ValueTyped ==
  ASSUME NEW ns, NEW h, Grounded(ns, h), Valued(ns), NEW value,
         NEW i \in DOMAIN ns, \A c \in Children(ns[i]) : value[c] \in ScalarsAndErrors
  PROVE  ValueOf(value, ns, i) \in ScalarsAndErrors
<1>1. CASE ns[i].node = "literal"
  BY <1>1 DEF Valued, ValueOf, ScalarsAndErrors
<1>2. CASE ns[i].node = "name"
  BY <1>2, NameAssumption DEF ValueOf, ScalarsAndErrors, Scalars
<1>3. CASE ns[i].node = "prefix"
  <2>1. PICK v \in ScalarsAndErrors : v = value[ns[i].right]
    BY <1>3 DEF Children
  <2>2. ValueOf(value, ns, i) = IF v.is = "error" THEN v ELSE EvalPrefix(ns[i].op, v)
    BY <1>3, <2>1 DEF ValueOf
  <2>3. v.is # "error" => EvalPrefix(ns[i].op, v) \in ScalarsAndErrors
    BY ScalarsAreNoFailures, PrefixValues
  <2>4. QED
    BY <2>2, <2>3
<1>4. CASE ns[i].node = "infix"
  <2> DEFINE op == ns[i].op
  <2>1. PICK l \in ScalarsAndErrors : l = value[ns[i].left]
    BY <1>4 DEF Children
  <2>2. PICK r \in ScalarsAndErrors : r = value[ns[i].right]
    BY <1>4 DEF Children
  <2>3. ValueOf(value, ns, i) =
           IF l.is = "error" THEN l
           ELSE IF op = "&&" /\ ~Truthy(l) THEN Bool(FALSE)
           ELSE IF op = "||" /\ Truthy(l) THEN Bool(TRUE)
           ELSE IF r.is = "error" THEN r
           ELSE IF op \in Custom THEN r
           ELSE EvalInfix(op, l, r)
    BY <1>4, <2>1, <2>2 DEF ValueOf
  <2>4. l.is # "error" /\ r.is # "error" => EvalInfix(op, l, r) \in ScalarsAndErrors
    BY ScalarsAreNoFailures, InfixValues
  <2>5. Bool(TRUE) \in ScalarsAndErrors /\ Bool(FALSE) \in ScalarsAndErrors
    BY MadeValues DEF ScalarsAndErrors
  <2> HIDE DEF op
  <2>6. QED
    BY <2>3, <2>4, <2>5
<1>5. QED
  BY <1>1, <1>2, <1>3, <1>4 DEF Valued

\* A value depends on those of the operands only.
LEMMA ValueFollowsChildren ==
  ASSUME NEW ns, NEW i, NEW value, NEW other, \A c \in Children(ns[i]) : value[c] = other[c]
  PROVE  ValueOf(value, ns, i) = ValueOf(other, ns, i)
<1>1. CASE ns[i].node = "prefix"
  BY <1>1 DEF ValueOf, Children
<1>2. CASE ns[i].node = "infix"
  <2>1. value[ns[i].left] = other[ns[i].left] /\ value[ns[i].right] = other[ns[i].right]
    BY <1>2 DEF Children
  <2>2. QED
    BY <1>2, <2>1 DEF ValueOf
<1>3. CASE ns[i].node \notin {"prefix", "infix"}
  BY <1>3 DEF ValueOf
<1>4. QED
  BY <1>1, <1>2, <1>3

\* There is a function that Evaluate describes.
LEMMA EvaluationIsDefined ==
  ASSUME NEW ns, NEW h, Grounded(ns, h), Valued(ns)
  PROVE  \E value : value = [i \in DOMAIN ns |-> ValueOf(value, ns, i)]
<1> DEFINE S == DOMAIN ns
           R == [i \in S |-> ScalarsAndErrors]
           F == Sections(S, R)
           step == [value \in F |-> [i \in S |-> ValueOf(value, ns, i)]]
<1>1. \A value \in F, i \in S : value[i] \in ScalarsAndErrors
  BY DEF Sections
<1>2. ASSUME NEW value \in F, NEW i \in S PROVE ValueOf(value, ns, i) \in ScalarsAndErrors
  <2>1. \A c \in Children(ns[i]) : value[c] \in ScalarsAndErrors
    BY <1>1 DEF Grounded
  <2>2. QED
    BY <2>1, ValueTyped
<1>3. \A value \in F : step[value] \in F
  <2>1. SUFFICES ASSUME NEW value \in F PROVE step[value] \in F
    OBVIOUS
  <2>2. \A i \in S : step[value][i] \in ScalarsAndErrors
    BY <1>2
  <2>3. step[value] \in [S -> UNION {R[i] : i \in S}]
    BY <2>2
  <2>4. QED
    BY <2>2, <2>3 DEF Sections
<1>4. Descends(S, h, R, step)
  <2>1. h \in [S -> Nat]
    BY DEF Grounded
  <2>2. step \in [F -> F]
    BY <1>3
  <2>3. \A i \in S : R[i] # {}
    BY MadeValues DEF ScalarsAndErrors
  <2>4. ASSUME NEW f \in F, NEW g \in F, NEW i \in S, \A j \in S : h[j] < h[i] => f[j] = g[j]
        PROVE  step[f][i] = step[g][i]
    <3>1. \A c \in Children(ns[i]) : f[c] = g[c]
      BY <2>4 DEF Grounded
    <3>2. ValueOf(f, ns, i) = ValueOf(g, ns, i)
      BY <3>1, ValueFollowsChildren
    <3>3. QED
      BY <3>2
  <2>5. QED
    BY <2>1, <2>2, <2>3, <2>4 DEF Descends
<1>5. PICK value \in F : value = step[value]
  <2> HIDE DEF step, R
  <2> QED
    BY <1>4, RecursionHasSolution
<1>6. step[value] = [i \in S |-> ValueOf(value, ns, i)]
  OBVIOUS
<1>7. value = [i \in S |-> ValueOf(value, ns, i)]
  <2> HIDE DEF step
  <2> QED
    BY <1>5, <1>6
<1>8. QED
  BY <1>7

\* Evaluate, unfolded once.
LEMMA EvaluateIs ==
  ASSUME NEW ns, NEW h, Grounded(ns, h), Valued(ns)
  PROVE  \A i \in DOMAIN ns : Evaluate(ns)[i] = ValueOf(Evaluate(ns), ns, i) /\ Evaluate(ns)[i] \in ScalarsAndErrors
<1> DEFINE value == Evaluate(ns)
<1>1. value = [i \in DOMAIN ns |-> ValueOf(value, ns, i)]
  BY EvaluationIsDefined DEF Evaluate, ValueOf
<1> HIDE DEF value
<1>2. \A i \in DOMAIN ns : value[i] = ValueOf(value, ns, i)
  BY <1>1
<1> DEFINE T == {i \in DOMAIN ns : value[i] \in ScalarsAndErrors}
<1>3. ASSUME NEW i \in DOMAIN ns, \A j \in DOMAIN ns : h[j] < h[i] => j \in T PROVE i \in T
  <2>1. \A c \in Children(ns[i]) : value[c] \in ScalarsAndErrors
    BY <1>3 DEF Grounded
  <2>2. QED
    BY <1>2, <2>1, ValueTyped
<1>4. T = DOMAIN ns
  <2>1. h \in [DOMAIN ns -> Nat] /\ T \in SUBSET DOMAIN ns
    BY DEF Grounded
  <2> HIDE DEF T
  <2>2. QED
    BY <1>3, <2>1, MeasureInduction
<1>5. QED
  BY <1>2, <1>4 DEF value

-----------------------------------------------------------------------------
(* Folding.                                                                *)

FoldedOf(folded, ns, i) ==
    LET t == ns[i]
    IN CASE t.node = "prefix" /\ folded[t.right].node = "literal" ->
               FoldedLiteralOrOriginal(EvalPrefix(t.op, folded[t.right].value), t)
         [] t.node = "infix" /\ folded[t.left].node = "literal" /\ folded[t.right].node = "literal" ->
               FoldedLiteralOrOriginal(
                   EvalInfix(t.op, folded[t.left].value, folded[t.right].value), t)
         [] OTHER -> t

Foldings(ns, i) == {ns[i]} \cup {Literal(v) : v \in Scalars}

LEMMA FoldingsFacts ==
  ASSUME NEW ns, Valued(ns), NEW i \in DOMAIN ns, NEW t \in Foldings(ns, i), t.node = "literal"
  PROVE  t.value \in Scalars
BY DEF Foldings, Literal, Valued

\* What an expression of literals folds to is its value, or itself.
LEMMA FoldsToValue ==
  ASSUME NEW value \in ScalarsAndErrors, NEW t
  PROVE  \/ value.is = "error" /\ FoldedLiteralOrOriginal(value, t) = t
         \/ value \in Scalars /\ FoldedLiteralOrOriginal(value, t) = Literal(value)
BY ScalarsAreNoFailures DEF FoldedLiteralOrOriginal

LEMMA FoldedTyped ==
  ASSUME NEW ns, Valued(ns), NEW folded, NEW i \in DOMAIN ns,
         \A c \in Children(ns[i]) : c \in DOMAIN ns /\ folded[c] \in Foldings(ns, c)
  PROVE  FoldedOf(folded, ns, i) \in Foldings(ns, i)
<1> DEFINE t == ns[i]
<1>1. CASE t.node = "prefix" /\ folded[t.right].node = "literal"
  <2>1. folded[t.right].value \in Scalars
    BY <1>1, FoldingsFacts DEF Children
  <2>2. PICK v \in ScalarsAndErrors : v = EvalPrefix(t.op, folded[t.right].value)
    BY <2>1, PrefixValues
  <2>3. FoldedOf(folded, ns, i) = FoldedLiteralOrOriginal(v, t)
    BY <1>1, <2>2 DEF FoldedOf
  <2>4. QED
    BY <2>3, FoldsToValue DEF Foldings
<1>2. CASE t.node = "infix" /\ folded[t.left].node = "literal" /\ folded[t.right].node = "literal"
  <2>1. folded[t.right].value \in Scalars /\ folded[t.left].value \in Scalars
    BY <1>2, FoldingsFacts DEF Children
  <2>2. PICK v \in ScalarsAndErrors : v = EvalInfix(t.op, folded[t.left].value, folded[t.right].value)
    BY <2>1, InfixValues
  <2>3. FoldedOf(folded, ns, i) = FoldedLiteralOrOriginal(v, t)
    BY <1>2, <2>2 DEF FoldedOf
  <2>4. QED
    BY <2>3, FoldsToValue DEF Foldings
<1>3. CASE /\ ~(t.node = "prefix" /\ folded[t.right].node = "literal")
           /\ ~(t.node = "infix" /\ folded[t.left].node = "literal" /\ folded[t.right].node = "literal")
  <2>1. FoldedOf(folded, ns, i) = t
    BY <1>3 DEF FoldedOf
  <2>2. QED
    BY <2>1 DEF Foldings
<1>4. QED
  BY <1>1, <1>2, <1>3

LEMMA FoldedFollowsChildren ==
  ASSUME NEW ns, NEW i, NEW folded, NEW other, \A c \in Children(ns[i]) : folded[c] = other[c]
  PROVE  FoldedOf(folded, ns, i) = FoldedOf(other, ns, i)
<1>1. CASE ns[i].node = "prefix"
  BY <1>1 DEF FoldedOf, Children
<1>2. CASE ns[i].node = "infix"
  <2>1. folded[ns[i].left] = other[ns[i].left] /\ folded[ns[i].right] = other[ns[i].right]
    BY <1>2 DEF Children
  <2>2. QED
    BY <1>2, <2>1 DEF FoldedOf
<1>3. CASE ns[i].node \notin {"prefix", "infix"}
  BY <1>3 DEF FoldedOf
<1>4. QED
  BY <1>1, <1>2, <1>3

\* There is a function that Fold describes.
LEMMA FoldingIsDefined ==
  ASSUME NEW ns, NEW h, Grounded(ns, h), Valued(ns)
  PROVE  \E folded : folded = [i \in DOMAIN ns |-> FoldedOf(folded, ns, i)]
<1> DEFINE S == DOMAIN ns
           R == [i \in S |-> Foldings(ns, i)]
           F == Sections(S, R)
           step == [folded \in F |-> [i \in S |-> FoldedOf(folded, ns, i)]]
<1>1. \A folded \in F, i \in S : folded[i] \in Foldings(ns, i)
  BY DEF Sections
<1>2. ASSUME NEW folded \in F, NEW i \in S PROVE FoldedOf(folded, ns, i) \in Foldings(ns, i)
  <2>1. \A c \in Children(ns[i]) : c \in S /\ folded[c] \in Foldings(ns, c)
    BY <1>1 DEF Grounded
  <2>2. QED
    BY <2>1, FoldedTyped
<1>3. \A folded \in F : step[folded] \in F
  <2>1. SUFFICES ASSUME NEW folded \in F PROVE step[folded] \in F
    OBVIOUS
  <2>2. \A i \in S : step[folded][i] \in Foldings(ns, i)
    BY <1>2
  <2>3. step[folded] \in [S -> UNION {R[i] : i \in S}]
    BY <2>2
  <2>4. QED
    BY <2>2, <2>3 DEF Sections
<1>4. Descends(S, h, R, step)
  <2>1. h \in [S -> Nat]
    BY DEF Grounded
  <2>2. step \in [F -> F]
    BY <1>3
  <2>3. \A i \in S : R[i] # {}
    BY DEF Foldings
  <2>4. ASSUME NEW f \in F, NEW g \in F, NEW i \in S, \A j \in S : h[j] < h[i] => f[j] = g[j]
        PROVE  step[f][i] = step[g][i]
    <3>1. \A c \in Children(ns[i]) : f[c] = g[c]
      BY <2>4 DEF Grounded
    <3>2. FoldedOf(f, ns, i) = FoldedOf(g, ns, i)
      BY <3>1, FoldedFollowsChildren
    <3>3. QED
      BY <3>2
  <2>5. QED
    BY <2>1, <2>2, <2>3, <2>4 DEF Descends
<1>5. PICK folded \in F : folded = step[folded]
  <2> HIDE DEF step, R
  <2> QED
    BY <1>4, RecursionHasSolution
<1>6. step[folded] = [i \in S |-> FoldedOf(folded, ns, i)]
  OBVIOUS
<1>7. folded = [i \in S |-> FoldedOf(folded, ns, i)]
  <2> HIDE DEF step
  <2> QED
    BY <1>5, <1>6
<1>8. QED
  BY <1>7

\* Fold, unfolded once.
LEMMA FoldIs ==
  ASSUME NEW ns, NEW h, Grounded(ns, h), Valued(ns)
  PROVE  /\ DOMAIN Fold(ns) = DOMAIN ns
         /\ \A i \in DOMAIN ns : Fold(ns)[i] = FoldedOf(Fold(ns), ns, i) /\ Fold(ns)[i] \in Foldings(ns, i)
<1> DEFINE folded == Fold(ns)
<1>1. folded = [i \in DOMAIN ns |-> FoldedOf(folded, ns, i)]
  BY FoldingIsDefined DEF Fold, FoldedOf
<1> HIDE DEF folded
<1>2. DOMAIN folded = DOMAIN ns /\ \A i \in DOMAIN ns : folded[i] = FoldedOf(folded, ns, i)
  BY <1>1
<1> DEFINE T == {i \in DOMAIN ns : folded[i] \in Foldings(ns, i)}
<1>3. ASSUME NEW i \in DOMAIN ns, \A j \in DOMAIN ns : h[j] < h[i] => j \in T PROVE i \in T
  <2>1. \A c \in Children(ns[i]) : c \in DOMAIN ns /\ folded[c] \in Foldings(ns, c)
    BY <1>3 DEF Grounded
  <2>2. QED
    BY <1>2, <2>1, FoldedTyped
<1>4. T = DOMAIN ns
  <2>1. h \in [DOMAIN ns -> Nat] /\ T \in SUBSET DOMAIN ns
    BY DEF Grounded
  <2> HIDE DEF T
  <2>2. QED
    BY <1>3, <2>1, MeasureInduction
<1>5. QED
  BY <1>2, <1>4 DEF folded

\* The folded tree stands on the same ground.
LEMMA FoldedTree ==
  ASSUME NEW ns, NEW h, Grounded(ns, h), Valued(ns)
  PROVE  Grounded(Fold(ns), h) /\ Valued(Fold(ns))
<1>1. DOMAIN Fold(ns) = DOMAIN ns /\ \A i \in DOMAIN ns : Fold(ns)[i] \in Foldings(ns, i)
  BY FoldIs
<1>2. ASSUME NEW i \in DOMAIN ns, Fold(ns)[i] # ns[i]
      PROVE  \E v \in Scalars : Fold(ns)[i] = Literal(v)
  BY <1>1, <1>2 DEF Foldings
<1>3. \A v : Literal(v).node = "literal" /\ Literal(v).value = v /\ Children(Literal(v)) = {}
  BY DEF Literal, Children
<1>4. Grounded(Fold(ns), h)
  <2>1. ASSUME NEW i \in DOMAIN ns, NEW c \in Children(Fold(ns)[i]) PROVE c \in DOMAIN ns /\ h[c] < h[i]
    <3>1. Fold(ns)[i] = ns[i]
      BY <1>2, <1>3, <2>1
    <3>2. QED
      BY <2>1, <3>1 DEF Grounded
  <2>2. QED
    BY <1>1, <2>1 DEF Grounded
<1>5. Valued(Fold(ns))
  <2>1. ASSUME NEW i \in DOMAIN ns
        PROVE  /\ Fold(ns)[i].node \in {"literal", "name", "prefix", "infix"}
               /\ Fold(ns)[i].node = "literal" => Fold(ns)[i].value \in Scalars
    <3>1. CASE Fold(ns)[i] = ns[i]
      BY <3>1 DEF Valued
    <3>2. CASE Fold(ns)[i] # ns[i]
      BY <1>2, <1>3, <3>2
    <3>3. QED
      BY <3>1, <3>2
  <2>2. QED
    BY <1>1, <2>1 DEF Valued
<1>6. QED
  BY <1>4, <1>5

\* A folded expression has the value of the expression.
LEMMA FoldedKeepsValue ==
  ASSUME NEW ns, NEW h, Grounded(ns, h), Valued(ns), NEW i \in DOMAIN ns,
         \A c \in Children(ns[i]) : Evaluate(Fold(ns))[c] = Evaluate(ns)[c]
  PROVE  Evaluate(Fold(ns))[i] = Evaluate(ns)[i]
<1> DEFINE folded == Fold(ns)
           t == ns[i]
<1>1. Grounded(folded, h) /\ Valued(folded) /\ DOMAIN folded = DOMAIN ns
  BY FoldedTree, FoldIs
<1>2. \A j \in DOMAIN ns : /\ Evaluate(ns)[j] = ValueOf(Evaluate(ns), ns, j)
                          /\ Evaluate(folded)[j] = ValueOf(Evaluate(folded), folded, j)
  <2> HIDE DEF folded
  <2> QED
    BY <1>1, EvaluateIs
<1>3. \A c \in Children(t) : c \in DOMAIN ns
  BY DEF Grounded
<1>4. ASSUME NEW c \in Children(t), folded[c].node = "literal"
      PROVE  folded[c].value \in Scalars /\ Evaluate(ns)[c] = folded[c].value /\ folded[c].value.is # "error"
  <2>1. c \in DOMAIN ns
    BY <1>3
  <2>2. folded[c].value \in Scalars
    BY <1>1, <1>4, <2>1 DEF Valued
  <2>3. Evaluate(folded)[c] = folded[c].value
    BY <1>2, <1>4, <2>1 DEF ValueOf
  <2>4. QED
    BY <2>2, <2>3, ScalarShapes
<1>5. CASE folded[i] = t
  <2>1. ValueOf(Evaluate(folded), folded, i) = ValueOf(Evaluate(folded), ns, i)
    BY <1>5 DEF ValueOf
  <2>2. ValueOf(Evaluate(folded), ns, i) = ValueOf(Evaluate(ns), ns, i)
    BY ValueFollowsChildren
  <2>3. QED
    BY <1>2, <2>1, <2>2
<1>6. CASE folded[i] # t
  <2>1. folded[i] = FoldedOf(folded, ns, i)
    BY FoldIs
  <2>2. ASSUME NEW v \in Scalars, folded[i] = Literal(v)
        PROVE  Evaluate(folded)[i] = v
    <3>1. folded[i].node = "literal" /\ folded[i].value = v
      BY <2>2 DEF Literal
    <3>2. QED
      BY <1>2, <3>1 DEF ValueOf
  <2>3. CASE t.node = "prefix" /\ folded[t.right].node = "literal"
    <3>1. PICK w \in Scalars : w = folded[t.right].value /\ w = Evaluate(ns)[t.right] /\ w.is # "error"
      BY <1>4, <2>3 DEF Children
    <3>2. PICK v \in ScalarsAndErrors : v = EvalPrefix(t.op, w)
      BY PrefixValues
    <3>3. folded[i] = FoldedLiteralOrOriginal(v, t)
      BY <2>1, <2>3, <3>1, <3>2 DEF FoldedOf
    <3>4. v \in Scalars /\ folded[i] = Literal(v)
      BY <1>6, <3>3, FoldsToValue
    <3>5. Evaluate(ns)[i] = v
      BY <1>2, <2>3, <3>1, <3>2 DEF ValueOf
    <3>6. QED
      BY <2>2, <3>4, <3>5
  <2>4. CASE t.node = "infix" /\ folded[t.left].node = "literal" /\ folded[t.right].node = "literal"
    <3> DEFINE op == t.op
    <3>1. PICK r \in Scalars : r = folded[t.right].value /\ r = Evaluate(ns)[t.right] /\ r.is # "error"
      BY <1>4, <2>4 DEF Children
    <3>2. PICK l \in Scalars : l = folded[t.left].value /\ l = Evaluate(ns)[t.left] /\ l.is # "error"
      BY <1>4, <2>4 DEF Children
    <3>3. PICK v \in ScalarsAndErrors : v = EvalInfix(op, l, r)
      BY InfixValues
    <3>4. folded[i] = FoldedLiteralOrOriginal(v, t)
      BY <2>1, <2>4, <3>1, <3>2, <3>3 DEF FoldedOf
    <3>5. v \in Scalars /\ folded[i] = Literal(v) /\ v.is # "error"
      BY <1>6, <3>4, FoldsToValue, ScalarsAreNoFailures
    <3>6. op \notin Custom
      BY <3>3, <3>5, CustomIsNoScalarOperator
    <3>7. Evaluate(ns)[i] =
             IF op = "&&" /\ ~Truthy(l) THEN Bool(FALSE)
             ELSE IF op = "||" /\ Truthy(l) THEN Bool(TRUE)
             ELSE v
      BY <1>2, <2>4, <3>1, <3>2, <3>3, <3>6 DEF ValueOf
    <3>8. op = "&&" /\ ~Truthy(l) => v = Bool(FALSE)
      BY <3>3 DEF EvalInfix
    <3>9. op = "||" /\ Truthy(l) => v = Bool(TRUE)
      BY <3>3 DEF EvalInfix
    <3> HIDE DEF op
    <3>10. QED
      BY <2>2, <3>5, <3>7, <3>8, <3>9
  <2>5. CASE /\ ~(t.node = "prefix" /\ folded[t.right].node = "literal")
             /\ ~(t.node = "infix" /\ folded[t.left].node = "literal" /\ folded[t.right].node = "literal")
    BY <1>6, <2>1, <2>5 DEF FoldedOf
  <2>6. QED
    BY <2>3, <2>4, <2>5
<1>7. QED
  BY <1>5, <1>6

\* A folded tree evaluates to what the tree evaluates to, at every node.
LEMMA FoldKeepsMeaning ==
  ASSUME NEW ns, NEW h, Grounded(ns, h), Valued(ns)
  PROVE  \A i \in DOMAIN ns : Evaluate(Fold(ns))[i] = Evaluate(ns)[i]
<1> DEFINE T == {i \in DOMAIN ns : Evaluate(Fold(ns))[i] = Evaluate(ns)[i]}
<1>1. ASSUME NEW i \in DOMAIN ns, \A j \in DOMAIN ns : h[j] < h[i] => j \in T PROVE i \in T
  <2>1. \A c \in Children(ns[i]) : Evaluate(Fold(ns))[c] = Evaluate(ns)[c]
    BY <1>1 DEF Grounded
  <2>2. QED
    BY <2>1, FoldedKeepsValue
<1>2. T = DOMAIN ns
  <2>1. h \in [DOMAIN ns -> Nat] /\ T \in SUBSET DOMAIN ns
    BY DEF Grounded
  <2> HIDE DEF T
  <2>2. QED
    BY <1>1, <2>1, MeasureInduction
<1>3. QED
  BY <1>2

-----------------------------------------------------------------------------
(* Unbounded values.                                                       *)

\* Literals have no sign.
Written(ns) ==
    \A i \in DOMAIN ns : ns[i].node = "literal" => ns[i].value \in ScalarsOf(0 .. Half - 1)

\* A literal integer is representable.
LEMMA WrittenIntegers ==
  ASSUME NEW ns, Written(ns), NEW i \in DOMAIN ns, ns[i].node = "literal", ns[i].value.is = "int"
  PROVE  /\ ns[i].value.n \in 0 .. Half - 1 /\ ns[i].value.n \in Nat /\ ns[i].value.n \in Representable
         /\ ns[i].value = Integer(ns[i].value.n)
<1>1. PICK v \in ScalarsOf(0 .. Half - 1) : v = ns[i].value
  BY DEF Written
<1>2. PICK n \in 0 .. Half - 1 : v = Integer(n)
  BY <1>1 DEF ScalarsOf, Integer, Bool, Float
<1>3. v.n = n
  BY <1>2 DEF Integer
<1>4. n \in Nat /\ n \in Representable
  BY RepresentableFacts, ModulusFacts
<1>5. QED
  BY <1>1, <1>2, <1>3, <1>4

ExactOf(exact, ns, i) ==
    LET t == ns[i]
    IN CASE t.node = "literal" /\ t.value.is = "int" -> Unbounded(TRUE, t.value.n)
         [] t.node = "prefix" /\ t.op = "-" -> Unbounded(exact[t.right].ring, -exact[t.right].n)
         [] t.node = "infix" /\ t.op = "+" ->
               Unbounded(exact[t.left].ring /\ exact[t.right].ring, exact[t.left].n + exact[t.right].n)
         [] t.node = "infix" /\ t.op = "-" ->
               Unbounded(exact[t.left].ring /\ exact[t.right].ring, exact[t.left].n - exact[t.right].n)
         [] t.node = "infix" /\ t.op = "*" ->
               Unbounded(exact[t.left].ring /\ exact[t.right].ring, exact[t.left].n * exact[t.right].n)
         [] t.node = "infix" /\ t.op = "**"
              /\ ns[t.right].node = "literal" /\ ns[t.right].value.is = "int" ->
               Unbounded(exact[t.left].ring, Product(exact[t.left].n)[ns[t.right].value.n])
         [] OTHER -> Unbounded(FALSE, 0)

\* The cases of ExactOf.
IsNumber(t) == t.node = "literal" /\ t.value.is = "int"
IsSum(t) == t.node = "infix" /\ t.op \in {"+", "-", "*"}
IsPower(ns, t) == t.node = "infix" /\ t.op = "**" /\ IsNumber(ns[t.right])

Ring == [ring : BOOLEAN, n : Int]

LEMMA ExactTyped ==
  ASSUME NEW ns, Written(ns), NEW exact, NEW i \in DOMAIN ns,
         \A c \in Children(ns[i]) : c \in DOMAIN ns /\ exact[c] \in Ring
  PROVE  ExactOf(exact, ns, i) \in Ring
<1> DEFINE t == ns[i]
<1>1. \A b \in BOOLEAN, n \in Int : Unbounded(b, n) \in Ring
  BY DEF Unbounded, Ring
<1>2. \A c \in Children(t) : c \in DOMAIN ns /\ exact[c].ring \in BOOLEAN /\ exact[c].n \in Int
  BY DEF Ring
<1>3. CASE IsNumber(t)
  <2>1. t.value.n \in Int
    BY <1>3, WrittenIntegers DEF IsNumber
  <2>2. QED
    BY <1>1, <1>3, <2>1 DEF ExactOf, IsNumber, IsSum, IsPower
<1>4. CASE t.node = "prefix" /\ t.op = "-"
  <2>1. PICK a \in Int : a = exact[t.right].n
    BY <1>2, <1>4 DEF Children
  <2>2. -a \in Int /\ exact[t.right].ring \in BOOLEAN
    BY <1>2, <1>4 DEF Children
  <2>3. ExactOf(exact, ns, i) = Unbounded(exact[t.right].ring, -a)
    BY <1>4, <2>1 DEF ExactOf, IsNumber, IsSum, IsPower
  <2>4. QED
    BY <1>1, <2>2, <2>3
<1>5. CASE IsSum(t)
  <2>1. PICK a \in Int : a = exact[t.left].n
    BY <1>2, <1>5 DEF Children, IsSum
  <2>2. PICK b \in Int : b = exact[t.right].n
    BY <1>2, <1>5 DEF Children, IsSum
  <2>3. PICK r \in BOOLEAN : r = (exact[t.left].ring /\ exact[t.right].ring)
    OBVIOUS
  <2>4. ExactOf(exact, ns, i) \in {Unbounded(r, a + b), Unbounded(r, a - b), Unbounded(r, a * b)}
    BY <1>5, <2>1, <2>2, <2>3 DEF ExactOf, IsNumber, IsSum, IsPower
  <2>5. a + b \in Int /\ a - b \in Int /\ a * b \in Int
    OBVIOUS
  <2>6. QED
    BY <1>1, <2>4, <2>5
<1>6. CASE IsPower(ns, t)
  <2>1. PICK a \in Int : a = exact[t.left].n
    BY <1>2, <1>6 DEF Children, IsPower
  <2>2. ns[t.right].value.n \in Nat
    BY <1>2, <1>6, WrittenIntegers DEF IsPower, IsNumber, Children
  <2>3. Product(a)[ns[t.right].value.n] \in Int
    BY <2>2, ProductIs, RepresentableFacts
  <2>4. exact[t.left].ring \in BOOLEAN
    BY <1>2, <1>6 DEF Children, IsPower
  <2>5. QED
    BY <1>1, <1>6, <2>1, <2>3, <2>4 DEF ExactOf, IsNumber, IsSum, IsPower
<1>7. CASE ~IsNumber(t) /\ ~(t.node = "prefix" /\ t.op = "-") /\ ~IsSum(t) /\ ~IsPower(ns, t)
  <2>1. ExactOf(exact, ns, i) = Unbounded(FALSE, 0)
    BY <1>7 DEF ExactOf, IsNumber, IsSum, IsPower
  <2>2. Unbounded(FALSE, 0) \in Ring
    BY DEF Unbounded, Ring
  <2>3. QED
    BY <2>1, <2>2
<1>8. QED
  BY <1>3, <1>4, <1>5, <1>6, <1>7

LEMMA ExactFollowsChildren ==
  ASSUME NEW ns, NEW i, NEW exact, NEW other, \A c \in Children(ns[i]) : exact[c] = other[c]
  PROVE  ExactOf(exact, ns, i) = ExactOf(other, ns, i)
<1> DEFINE t == ns[i]
<1>1. CASE IsNumber(t)
  BY <1>1 DEF ExactOf, IsNumber, IsSum, IsPower
<1>2. CASE t.node = "prefix" /\ t.op = "-"
  <2>1. exact[t.right] = other[t.right]
    BY <1>2 DEF Children
  <2>2. QED
    BY <1>2, <2>1 DEF ExactOf, IsNumber, IsSum, IsPower
<1>3. CASE IsSum(t)
  <2>1. exact[t.right] = other[t.right] /\ exact[t.left] = other[t.left]
    BY <1>3 DEF Children, IsSum
  <2>2. QED
    BY <1>3, <2>1 DEF ExactOf, IsNumber, IsSum, IsPower
<1>4. CASE IsPower(ns, t)
  <2>1. exact[t.left] = other[t.left]
    BY <1>4 DEF Children, IsPower
  <2>2. QED
    BY <1>4, <2>1 DEF ExactOf, IsNumber, IsSum, IsPower
<1>5. CASE ~IsNumber(t) /\ ~(t.node = "prefix" /\ t.op = "-") /\ ~IsSum(t) /\ ~IsPower(ns, t)
  BY <1>5 DEF ExactOf, IsNumber, IsSum, IsPower
<1>6. QED
  BY <1>1, <1>2, <1>3, <1>4, <1>5

\* There is a function that Exact describes.
LEMMA ExactIsDefined ==
  ASSUME NEW ns, NEW h, Grounded(ns, h), Written(ns)
  PROVE  \E exact : exact = [i \in DOMAIN ns |-> ExactOf(exact, ns, i)]
<1> DEFINE S == DOMAIN ns
           R == [i \in S |-> Ring]
           F == Sections(S, R)
           step == [exact \in F |-> [i \in S |-> ExactOf(exact, ns, i)]]
<1>1. \A exact \in F, i \in S : exact[i] \in Ring
  BY DEF Sections
<1>2. ASSUME NEW exact \in F, NEW i \in S PROVE ExactOf(exact, ns, i) \in Ring
  <2>1. \A c \in Children(ns[i]) : c \in S /\ exact[c] \in Ring
    BY <1>1 DEF Grounded
  <2>2. QED
    BY <2>1, ExactTyped
<1>3. \A exact \in F : step[exact] \in F
  <2>1. SUFFICES ASSUME NEW exact \in F PROVE step[exact] \in F
    OBVIOUS
  <2>2. \A i \in S : step[exact][i] \in Ring
    BY <1>2
  <2>3. step[exact] \in [S -> UNION {R[i] : i \in S}]
    BY <2>2
  <2>4. QED
    BY <2>2, <2>3 DEF Sections
<1>4. Descends(S, h, R, step)
  <2>1. h \in [S -> Nat]
    BY DEF Grounded
  <2>2. step \in [F -> F]
    BY <1>3
  <2>3. \A i \in S : R[i] # {}
    <3>1. Unbounded(FALSE, 0) \in Ring
      BY DEF Unbounded, Ring
    <3>2. QED
      BY <3>1
  <2>4. ASSUME NEW f \in F, NEW g \in F, NEW i \in S, \A j \in S : h[j] < h[i] => f[j] = g[j]
        PROVE  step[f][i] = step[g][i]
    <3>1. \A c \in Children(ns[i]) : f[c] = g[c]
      BY <2>4 DEF Grounded
    <3>2. ExactOf(f, ns, i) = ExactOf(g, ns, i)
      BY <3>1, ExactFollowsChildren
    <3>3. QED
      BY <3>2
  <2>5. QED
    BY <2>1, <2>2, <2>3, <2>4 DEF Descends
<1>5. PICK exact \in F : exact = step[exact]
  <2> HIDE DEF step, R
  <2> QED
    BY <1>4, RecursionHasSolution
<1>6. step[exact] = [i \in S |-> ExactOf(exact, ns, i)]
  OBVIOUS
<1>7. exact = [i \in S |-> ExactOf(exact, ns, i)]
  <2> HIDE DEF step
  <2> QED
    BY <1>5, <1>6
<1>8. QED
  BY <1>7

\* Exact, unfolded once.
LEMMA ExactIs ==
  ASSUME NEW ns, NEW h, Grounded(ns, h), Written(ns)
  PROVE  \A i \in DOMAIN ns : Exact(ns)[i] = ExactOf(Exact(ns), ns, i) /\ Exact(ns)[i] \in Ring
<1> DEFINE exact == Exact(ns)
<1>1. exact = [i \in DOMAIN ns |-> ExactOf(exact, ns, i)]
  BY ExactIsDefined DEF Exact, ExactOf
<1> HIDE DEF exact
<1>2. \A i \in DOMAIN ns : exact[i] = ExactOf(exact, ns, i)
  BY <1>1
<1> DEFINE T == {i \in DOMAIN ns : exact[i] \in Ring}
<1>3. ASSUME NEW i \in DOMAIN ns, \A j \in DOMAIN ns : h[j] < h[i] => j \in T PROVE i \in T
  <2>1. \A c \in Children(ns[i]) : c \in DOMAIN ns /\ exact[c] \in Ring
    BY <1>3 DEF Grounded
  <2>2. QED
    BY <1>2, <2>1, ExactTyped
<1>4. T = DOMAIN ns
  <2>1. h \in [DOMAIN ns -> Nat] /\ T \in SUBSET DOMAIN ns
    BY DEF Grounded
  <2> HIDE DEF T
  <2>2. QED
    BY <1>3, <2>1, MeasureInduction
<1>5. QED
  BY <1>2, <1>4 DEF exact

\* The ring operations of the evaluator.
LEMMA IntegerArithmetic ==
  ASSUME NEW a \in Representable, NEW b \in Representable
  PROVE  /\ EvalIntegerInfix("+", a, b) = Integer(Wrap(a + b))
         /\ EvalIntegerInfix("-", a, b) = Integer(Wrap(a - b))
         /\ EvalIntegerInfix("*", a, b) = Integer(Wrap(a * b))
         /\ b >= 0 => EvalIntegerInfix("**", a, b) = Integer(IntegerPower(a, b))
BY DEF EvalIntegerInfix

\* What an infix operator of integers gives, where both operands are integers.
LEMMA InfixOfIntegers ==
  ASSUME NEW ns, NEW h, Grounded(ns, h), Valued(ns), NEW i \in DOMAIN ns,
         ns[i].node = "infix", ns[i].op \in {"+", "-", "*", "**"},
         NEW a \in Representable, NEW b \in Representable,
         Evaluate(ns)[ns[i].left] = Integer(a), Evaluate(ns)[ns[i].right] = Integer(b)
  PROVE  Evaluate(ns)[i] = EvalIntegerInfix(ns[i].op, a, b)
<1> DEFINE op == ns[i].op
<1>1. Evaluate(ns)[i] = ValueOf(Evaluate(ns), ns, i)
  BY EvaluateIs
<1>2. Integer(a).is = "int" /\ Integer(b).is = "int" /\ Integer(a).n = a /\ Integer(b).n = b
  BY DEF Integer
<1>3. op \notin Custom /\ op # "&&" /\ op # "||"
  BY OperatorsNamed
<1>4. ValueOf(Evaluate(ns), ns, i) = EvalInfix(op, Integer(a), Integer(b))
  BY <1>2, <1>3 DEF ValueOf
<1>5. EvalInfix(op, Integer(a), Integer(b)) = EvalIntegerInfix(op, a, b)
  BY <1>2, <1>3 DEF EvalInfix
<1>6. QED
  BY <1>1, <1>4, <1>5

\* The operands of a sum, a difference or a product: what is wrapped before is
\* wrapped again.
LEMMA WrapsOnce ==
  ASSUME NEW m \in Int, NEW n \in Int
  PROVE  /\ Wrap(m) \in Representable /\ Wrap(n) \in Representable
         /\ Wrap(Wrap(m) + Wrap(n)) = Wrap(m + n)
         /\ Wrap(Wrap(m) - Wrap(n)) = Wrap(m - n)
         /\ Wrap(Wrap(m) * Wrap(n)) = Wrap(m * n)
         /\ Wrap(-Wrap(m)) = Wrap(-m)
<1>1. PICK a \in Int : a = Wrap(m) /\ a \in Representable /\ Congruent(a, m)
  BY WrapFacts
<1>2. PICK b \in Int : b = Wrap(n) /\ b \in Representable /\ Congruent(b, n)
  BY WrapFacts
<1>3. Congruent(a + b, m + n) /\ Congruent(a - b, m - n) /\ Congruent(a * b, m * n) /\ Congruent(-a, -m)
  BY <1>1, <1>2, CongruentUnderOperations
<1>4. /\ a + b \in Int /\ a - b \in Int /\ a * b \in Int /\ -a \in Int
      /\ m + n \in Int /\ m - n \in Int /\ m * n \in Int /\ -m \in Int
  OBVIOUS
<1>5. Wrap(a + b) = Wrap(m + n)
  BY <1>3, <1>4, WrapRepresents
<1>6. Wrap(a - b) = Wrap(m - n)
  BY <1>3, <1>4, WrapRepresents
<1>7. Wrap(a * b) = Wrap(m * n)
  BY <1>3, <1>4, WrapRepresents
<1>8. Wrap(-a) = Wrap(-m)
  BY <1>3, <1>4, WrapRepresents
<1>9. QED
  BY <1>1, <1>2, <1>5, <1>6, <1>7, <1>8

\* Wrapping leaves the representable alone.
LEMMA RepresentableIsWrapped ==
  ASSUME NEW n \in Representable
  PROVE  Wrap(n) = n
<1>1. n \in Int
  BY RepresentableFacts
<1>2. Congruent(n, n)
  BY <1>1, CongruentToItself
<1>3. QED
  BY <1>1, <1>2, WrapRepresents

\* A node has its unbounded value, wrapped, where its operands have.
LEMMA ExactStep ==
  ASSUME NEW ns, NEW h, Grounded(ns, h), Valued(ns), Written(ns), NEW i \in DOMAIN ns, Exact(ns)[i].ring,
         \A c \in Children(ns[i]) : Exact(ns)[c].ring => Evaluate(ns)[c] = Integer(Wrap(Exact(ns)[c].n))
  PROVE  Evaluate(ns)[i] = Integer(Wrap(Exact(ns)[i].n))
<1> DEFINE t == ns[i]
           exact == Exact(ns)
           value == Evaluate(ns)
<1>1. exact[i] = ExactOf(exact, ns, i) /\ value[i] = ValueOf(value, ns, i)
  BY ExactIs, EvaluateIs
<1>2. \A c \in Children(t) : c \in DOMAIN ns /\ exact[c].ring \in BOOLEAN /\ exact[c].n \in Int
  BY ExactIs DEF Grounded, Ring
<1>3. \A b, n : Unbounded(b, n).ring = b /\ Unbounded(b, n).n = n
  BY DEF Unbounded
<1>4. CASE IsNumber(t)
  <2>1. t.value.n \in Representable /\ t.value = Integer(t.value.n)
    BY <1>4, WrittenIntegers DEF IsNumber
  <2>2. exact[i] = Unbounded(TRUE, t.value.n)
    BY <1>1, <1>4 DEF ExactOf, IsNumber
  <2>3. value[i] = t.value
    BY <1>1, <1>4 DEF ValueOf, IsNumber
  <2>4. exact[i].n = t.value.n
    BY <2>2 DEF Unbounded
  <2>5. QED
    BY <2>1, <2>3, <2>4, RepresentableIsWrapped
<1>5. CASE t.node = "prefix" /\ t.op = "-"
  <2>1. t.right \in Children(t)
    BY <1>5 DEF Children
  <2>2. PICK n \in Int : n = exact[t.right].n
    BY <1>2, <2>1
  <2>3. exact[i] = Unbounded(exact[t.right].ring, -n)
    BY <1>1, <1>5, <2>2 DEF ExactOf, IsNumber, IsSum, IsPower
  <2>4. exact[i].n = -n /\ exact[t.right].ring
    BY <1>3, <2>3
  <2>5. value[t.right] = Integer(Wrap(n))
    BY <2>1, <2>2, <2>4
  <2>6. Integer(Wrap(n)).is = "int" /\ Integer(Wrap(n)).n = Wrap(n)
    BY DEF Integer
  <2>7. value[i] = EvalPrefix("-", Integer(Wrap(n)))
    BY <1>1, <1>5, <2>5, <2>6 DEF ValueOf
  <2>8. EvalPrefix("-", Integer(Wrap(n))) = Integer(Wrap(-Wrap(n)))
    BY <2>6 DEF EvalPrefix
  <2>9. Wrap(-Wrap(n)) = Wrap(-n)
    BY WrapsOnce
  <2>10. QED
    BY <2>4, <2>7, <2>8, <2>9
<1>6. CASE IsSum(t)
  <2>1. t.left \in Children(t) /\ t.right \in Children(t)
    BY <1>6 DEF Children, IsSum
  <2>2. PICK m \in Int : m = exact[t.left].n
    BY <1>2, <2>1
  <2>3. PICK n \in Int : n = exact[t.right].n
    BY <1>2, <2>1
  <2>4. PICK both \in BOOLEAN : both = (exact[t.left].ring /\ exact[t.right].ring)
    OBVIOUS
  <2>5. /\ t.op = "+" => exact[i] = Unbounded(both, m + n)
        /\ t.op = "-" => exact[i] = Unbounded(both, m - n)
        /\ t.op = "*" => exact[i] = Unbounded(both, m * n)
    BY <1>1, <1>6, <2>2, <2>3, <2>4 DEF ExactOf, IsSum
  <2>6. /\ exact[t.left].ring /\ exact[t.right].ring
        /\ t.op = "+" => exact[i].n = m + n
        /\ t.op = "-" => exact[i].n = m - n
        /\ t.op = "*" => exact[i].n = m * n
    <3>1. PICK k : exact[i] = Unbounded(both, k)
      BY <1>6, <2>5 DEF IsSum
    <3>2. both
      BY <3>1 DEF Unbounded
    <3>3. exact[t.left].ring /\ exact[t.right].ring
      BY <2>4, <3>2
    <3>4. /\ t.op = "+" => exact[i].n = m + n
          /\ t.op = "-" => exact[i].n = m - n
          /\ t.op = "*" => exact[i].n = m * n
      BY <2>5 DEF Unbounded
    <3>5. QED
      BY <3>3, <3>4
  <2>7. value[t.left] = Integer(Wrap(m)) /\ value[t.right] = Integer(Wrap(n))
    BY <2>1, <2>2, <2>3, <2>6
  <2>8. PICK a \in Representable : a = Wrap(m)
    BY WrapsOnce
  <2>9. PICK b \in Representable : b = Wrap(n)
    BY WrapsOnce
  <2>10. value[i] = EvalIntegerInfix(t.op, a, b)
    BY <1>6, <2>7, <2>8, <2>9, InfixOfIntegers DEF IsSum
  <2>11. /\ t.op = "+" => value[i] = Integer(Wrap(a + b))
         /\ t.op = "-" => value[i] = Integer(Wrap(a - b))
         /\ t.op = "*" => value[i] = Integer(Wrap(a * b))
    BY <2>10, IntegerArithmetic
  <2>12. Wrap(a + b) = Wrap(m + n) /\ Wrap(a - b) = Wrap(m - n) /\ Wrap(a * b) = Wrap(m * n)
    BY <2>8, <2>9, WrapsOnce
  <2>13. QED
    BY <1>6, <2>6, <2>11, <2>12 DEF IsSum
<1>7. CASE IsPower(ns, t)
  <2>1. t.left \in Children(t) /\ t.right \in Children(t)
    BY <1>7 DEF Children, IsPower
  <2>2. PICK m \in Int : m = exact[t.left].n
    BY <1>2, <2>1
  <2>3. t.right \in DOMAIN ns /\ ns[t.right].node = "literal" /\ ns[t.right].value.is = "int"
    BY <1>2, <1>7, <2>1 DEF IsPower, IsNumber
  <2>4. PICK e \in Nat : e = ns[t.right].value.n /\ e \in Representable /\ ns[t.right].value = Integer(e)
    BY <2>3, WrittenIntegers
  <2>5. exact[i] = Unbounded(exact[t.left].ring, Product(m)[e])
    BY <1>1, <1>7, <2>2, <2>4 DEF ExactOf, IsPower, IsNumber
  <2>6. exact[i].n = Product(m)[e] /\ exact[t.left].ring
    BY <1>3, <2>5
  <2>7. value[t.left] = Integer(Wrap(m))
    BY <2>1, <2>2, <2>6
  <2>8. value[t.right] = Integer(e)
    <3>1. value[t.right] = ValueOf(value, ns, t.right)
      BY <2>3, EvaluateIs
    <3>2. QED
      BY <3>1, <2>3, <2>4 DEF ValueOf
  <2>9. PICK a \in Representable : a = Wrap(m) /\ a \in Int /\ Congruent(a, m)
    BY WrapFacts
  <2>10. t.node = "infix" /\ t.op = "**"
    BY <1>7 DEF IsPower
  <2>11. value[i] = EvalIntegerInfix("**", a, e)
    BY <2>4, <2>7, <2>8, <2>9, <2>10, InfixOfIntegers
  <2>12. e >= 0
    BY <2>4
  <2>13. value[i] = Integer(IntegerPower(a, e))
    BY <2>4, <2>11, <2>12, IntegerArithmetic
  <2>14. IntegerPower(a, e) = Product(a)[e]
    BY <2>4, PowerIsProduct
  <2>15. Product(a)[e] = Product(m)[e]
    BY <2>4, <2>9, ProductCongruent
  <2>16. Product(m)[e] \in Representable
    BY <2>4, ProductIs
  <2>17. QED
    BY <2>6, <2>13, <2>14, <2>15, <2>16, RepresentableIsWrapped
<1>8. CASE ~IsNumber(t) /\ ~(t.node = "prefix" /\ t.op = "-") /\ ~IsSum(t) /\ ~IsPower(ns, t)
  <2>1. exact[i] = Unbounded(FALSE, 0)
    BY <1>1, <1>8 DEF ExactOf, IsNumber, IsSum, IsPower
  <2>2. QED
    BY <1>3, <2>1
<1>9. QED
  BY <1>4, <1>5, <1>6, <1>7, <1>8

\* However a tree of sums, differences, products and powers is grouped, its
\* value is the unbounded one, wrapped once.
LEMMA ExactValue ==
  ASSUME NEW ns, NEW h, Grounded(ns, h), Valued(ns), Written(ns)
  PROVE  \A i \in DOMAIN ns : Exact(ns)[i].ring => Evaluate(ns)[i] = Integer(Wrap(Exact(ns)[i].n))
<1> DEFINE T == {i \in DOMAIN ns : Exact(ns)[i].ring => Evaluate(ns)[i] = Integer(Wrap(Exact(ns)[i].n))}
<1>1. ASSUME NEW i \in DOMAIN ns, \A j \in DOMAIN ns : h[j] < h[i] => j \in T PROVE i \in T
  <2>1. \A c \in Children(ns[i]) : Exact(ns)[c].ring => Evaluate(ns)[c] = Integer(Wrap(Exact(ns)[c].n))
    BY <1>1 DEF Grounded
  <2>2. QED
    BY <2>1, ExactStep
<1>2. T = DOMAIN ns
  <2>1. h \in [DOMAIN ns -> Nat] /\ T \in SUBSET DOMAIN ns
    BY DEF Grounded
  <2> HIDE DEF T
  <2>2. QED
    BY <1>1, <2>1, MeasureInduction
<1>3. QED
  BY <1>2

-----------------------------------------------------------------------------
(* The phases of one expression.                                           *)

Folding(tr) == [tr EXCEPT !.nodes = Fold(@)]

ExprInv ==
    \/ phase = "idle"
    \/ phase = "source" /\ ParseInv
    \/ /\ source \in Sources
       /\ parsed \in [{"root", "nodes"} -> {parsed.root, parsed.nodes}]
       /\ IsTreeOf(parsed, source)
       /\ \/ phase = "parsed" /\ tree = parsed
          \/ phase = "folded" /\ tree = Folding(parsed)
          \/ phase = "evaluated" /\ answer = Evaluate(Fold(parsed.nodes))[parsed.root]

\* What the parser makes can be evaluated and folded.
LEMMA TreeFacts ==
  ASSUME NEW s \in Sources, NEW tr, IsTreeOf(tr, s)
  PROVE  /\ Valued(tr.nodes) /\ Written(tr.nodes)
         /\ \E h : Grounded(tr.nodes, h)
         /\ tr.root \in DOMAIN tr.nodes
BY TreeIsValued DEF IsTreeOf, Written

LEMMA FoldedRecord ==
  ASSUME NEW tr, tr \in [{"root", "nodes"} -> {tr.root, tr.nodes}]
  PROVE  Folding(tr).root = tr.root /\ Folding(tr).nodes = Fold(tr.nodes)
BY DEF Folding

\* An expression starts with its source.
LEMMA ExprStarts ==
  ASSUME ExprIdle \/ ExprInit
  PROVE  ExprInv
BY StartsParsing DEF ExprIdle, ExprInit, ExprInv

\* Every phase keeps the invariant of an expression.
LEMMA ExprNextKeeps ==
  ASSUME ExprInv, [ExprNext]_exprVars
  PROVE  ExprInv'
<1>1. CASE ParseOperand \/ ParsePrefixExpression \/ ParseInfixExpression \/ ReturnExpression
  <2>1. phase = "source" /\ phase' = "source"
    BY <1>1 DEF ParseOperand, ParsePrefixExpression, ParseInfixExpression, ReturnExpression
  <2>2. ParseInv
    BY <2>1 DEF ExprInv
  <2>3. ParseInv'
    BY <1>1, <2>2, ParseOperandKeeps, ParsePrefixExpressionKeeps, ParseInfixExpressionKeeps, ReturnExpressionKeeps
  <2>4. QED
    BY <2>1, <2>3 DEF ExprInv
<1>2. CASE ParseProgram
  <2>1. phase = "source" /\ phase' = "parsed" /\ source' = source /\ tree' = parsed'
        /\ parsed' = [root |-> operand, nodes |-> nodes]
    BY <1>2 DEF ParseProgram
  <2>2. ParseInv /\ source \in Sources
    BY <2>1 DEF ExprInv, ParseInv
  <2>3. IsTreeOf(parsed', source')
    BY <1>2, <2>1, <2>2, ParseProgramMakesTree
  <2>4. parsed' \in [{"root", "nodes"} -> {parsed'.root, parsed'.nodes}]
    BY <2>1
  <2>5. QED
    BY <2>1, <2>2, <2>3, <2>4 DEF ExprInv
<1>3. CASE FoldConstants
  <2>1. phase = "parsed" /\ phase' = "folded" /\ source' = source /\ parsed' = parsed /\ tree' = Folding(tree)
    BY <1>3 DEF FoldConstants, Folding
  <2>2. /\ source \in Sources /\ IsTreeOf(parsed, source) /\ tree = parsed
        /\ parsed \in [{"root", "nodes"} -> {parsed.root, parsed.nodes}]
    BY <2>1 DEF ExprInv
  <2>3. IsTreeOf(parsed', source') /\ tree' = Folding(parsed')
    BY <2>1, <2>2
  <2>4. parsed' \in [{"root", "nodes"} -> {parsed'.root, parsed'.nodes}]
    BY <2>1, <2>2
  <2>5. QED
    BY <2>1, <2>2, <2>3, <2>4 DEF ExprInv
<1>4. CASE Eval
  <2>1. phase = "folded" /\ phase' = "evaluated" /\ source' = source /\ parsed' = parsed
        /\ answer' = Evaluate(tree.nodes)[tree.root]
    BY <1>4 DEF Eval
  <2>2. /\ source \in Sources /\ IsTreeOf(parsed, source) /\ tree = Folding(parsed)
        /\ parsed \in [{"root", "nodes"} -> {parsed.root, parsed.nodes}]
    BY <2>1 DEF ExprInv
  <2>3. tree.root = parsed.root /\ tree.nodes = Fold(parsed.nodes)
    BY <2>2, FoldedRecord
  <2>4. IsTreeOf(parsed', source') /\ answer' = Evaluate(Fold(parsed'.nodes))[parsed'.root]
    BY <2>1, <2>2, <2>3
  <2>5. parsed' \in [{"root", "nodes"} -> {parsed'.root, parsed'.nodes}]
    BY <2>1, <2>2
  <2>6. QED
    BY <2>1, <2>2, <2>4, <2>5 DEF ExprInv
<1>5. CASE UNCHANGED exprVars
  <2>1. /\ source' = source /\ position' = position /\ operand' = operand /\ calls' = calls /\ nodes' = nodes
        /\ parsed' = parsed /\ tree' = tree /\ answer' = answer /\ phase' = phase
    BY <1>5 DEF exprVars
  <2>2. ParseInv' = ParseInv
    BY <2>1 DEF ParseInv, CallsInv, NodesInv, OperandInv, Pending, InnermostCall, Ends
  <2>3. CASE phase = "source" /\ ParseInv
    BY <2>1, <2>2, <2>3 DEF ExprInv
  <2>4. CASE phase = "idle"
    BY <2>1, <2>4 DEF ExprInv
  <2>5. CASE phase \notin {"idle", "source"}
    BY <2>1, <2>5 DEF ExprInv
  <2>6. QED
    BY <2>3, <2>4, <2>5 DEF ExprInv
<1>6. QED
  BY <1>1, <1>2, <1>3, <1>4, <1>5 DEF ExprNext

\* The invariant says of trees what TreesFollowPrecedence says.
LEMMA TreesProved ==
  ASSUME ExprInv
  PROVE  TreesFollowPrecedence
<1>1. SUFFICES ASSUME phase = "parsed"
               PROVE  LET outline == Outline(parsed.nodes)
                      IN /\ outline[parsed.root].under = FirstLine
                         /\ DOMAIN parsed.nodes = FirstLine
                         /\ \A i \in FirstLine :
                               MadeFrom(source[i], parsed.nodes[i]) /\ Follows(i, parsed.nodes[i], outline)
  BY DEF TreesFollowPrecedence
<1>2. IsTreeOf(parsed, source)
  BY <1>1 DEF ExprInv
<1>3. QED
  BY <1>2 DEF IsTreeOf, FirstLine

\* And of folding what FoldingKeepsMeaning says.
LEMMA FoldingProved ==
  ASSUME ExprInv
  PROVE  FoldingKeepsMeaning
<1>1. SUFFICES ASSUME phase = "evaluated" PROVE answer = Evaluate(parsed.nodes)[parsed.root]
  BY DEF FoldingKeepsMeaning
<1>2. source \in Sources /\ IsTreeOf(parsed, source) /\ answer = Evaluate(Fold(parsed.nodes))[parsed.root]
  BY <1>1 DEF ExprInv
<1>3. PICK h : Grounded(parsed.nodes, h)
  BY <1>2, TreeFacts
<1>4. Valued(parsed.nodes) /\ parsed.root \in DOMAIN parsed.nodes
  BY <1>2, TreeFacts
<1>5. QED
  BY <1>2, <1>3, <1>4, FoldKeepsMeaning

\* And of values what ArithmeticWraps says.
LEMMA ArithmeticProved ==
  ASSUME ExprInv
  PROVE  ArithmeticWraps
<1> DEFINE ns == parsed.nodes
           root == ns[parsed.root]
           l == Evaluate(ns)[root.left]
           r == Evaluate(ns)[root.right]
<1>1. SUFFICES ASSUME phase = "evaluated"
      PROVE  /\ Exact(ns)[parsed.root].ring => answer = Integer(Wrap(Exact(ns)[parsed.root].n))
             /\ root.node = "infix" /\ l.is = "int" /\ r.is = "int" /\ r.n # 0 =>
                   /\ Wrap(Quotient(l.n, r.n) * r.n + Remainder(l.n, r.n)) = l.n
                   /\ Magnitude(Remainder(l.n, r.n)) < Magnitude(r.n)
                   /\ Remainder(l.n, r.n) # 0 => Sign(Remainder(l.n, r.n)) = Sign(l.n)
  BY DEF ArithmeticWraps
<1>2. source \in Sources /\ IsTreeOf(parsed, source)
  BY <1>1 DEF ExprInv
<1>3. PICK h : Grounded(ns, h)
  BY <1>2, TreeFacts
<1>4. Valued(ns) /\ Written(ns) /\ parsed.root \in DOMAIN ns
  BY <1>2, TreeFacts
<1>5. answer = Evaluate(ns)[parsed.root]
  BY <1>1, FoldingProved DEF FoldingKeepsMeaning
<1>6. Exact(ns)[parsed.root].ring => answer = Integer(Wrap(Exact(ns)[parsed.root].n))
  BY <1>3, <1>4, <1>5, ExactValue
<1>7. ASSUME root.node = "infix", l.is = "int", r.is = "int", r.n # 0
      PROVE  l.n \in Representable /\ r.n \in Representable
  <2>1. root.left \in DOMAIN ns /\ root.right \in DOMAIN ns
    BY <1>3, <1>4, <1>7 DEF Grounded, Children
  <2>2. l \in ScalarsAndErrors /\ r \in ScalarsAndErrors
    BY <1>3, <1>4, <2>1, EvaluateIs
  <2>3. l \in Scalars /\ r \in Scalars
    BY <1>7, <2>2, ScalarsAreNoFailures
  <2>4. QED
    BY <1>7, <2>3, ScalarShapes
<1>8. QED
  BY <1>6, <1>7, QuotientAndRemainder

-----------------------------------------------------------------------------
(* The parts together.                                                     *)

\* What the whole starts with, each part may start with.
LEMMA LanguageStarts ==
  ASSUME LanguageInit
  PROVE  ParserIdle /\ MapsInit /\ (ExprIdle \/ ExprInit) /\ (CallIdle \/ CallInit)
BY DEF LanguageInit

\* A step of the whole is one of a part, and the others rest.
LEMMA LanguageSteps ==
  ASSUME [LanguageNext]_languageVars
  PROVE  [ParserNext]_parserVars /\ [MapsNext]_mapsVars /\ [ExprNext]_exprVars /\ [CallNext]_callVars
<1>1. CASE ParserStep
  BY <1>1 DEF ParserStep
<1>2. CASE ExprStep
  BY <1>2 DEF ExprStep
<1>3. CASE CallStep
  BY <1>3 DEF CallStep
<1>4. CASE MapsStep
  BY <1>4 DEF MapsStep
<1>5. CASE UNCHANGED languageVars
  BY <1>5 DEF languageVars
<1>6. QED
  BY <1>1, <1>2, <1>3, <1>4, <1>5 DEF LanguageNext

\* Whatever is chosen, the parser and the map behave as their own
\* specifications say: what is proved of these holds of the whole.
THEOREM PartsKeepTheirSpecifications == LanguageSpec => ParserSpec /\ MapsSpec
<1>1. LanguageInit => ParserIdle /\ MapsInit
  BY LanguageStarts
<1>2. [LanguageNext]_languageVars => [ParserNext]_parserVars /\ [MapsNext]_mapsVars
  BY LanguageSteps
<1>3. QED
  BY <1>1, <1>2, PTL DEF LanguageSpec, ParserSpec, MapsSpec

\* The invariant of an expression holds of the whole.
LEMMA ExprInvHolds == LanguageSpec => []ExprInv
<1>1. LanguageInit => ExprInv
  BY LanguageStarts, ExprStarts
<1>2. ExprInv /\ [LanguageNext]_languageVars => ExprInv'
  BY LanguageSteps, ExprNextKeeps
<1>3. QED
  BY <1>1, <1>2, PTL DEF LanguageSpec

\* So does that of a call.
LEMMA CallInvHolds == LanguageSpec => []CallInv
<1>1. LanguageInit => CallInv
  BY LanguageStarts, InitPlaces
<1>2. CallInv /\ [LanguageNext]_languageVars => CallInv'
  BY LanguageSteps, CallNextKeeps
<1>3. QED
  BY <1>1, <1>2, PTL DEF LanguageSpec

\* The tree that the precedence climbing of the parser builds holds the tokens
\* of its line in their order and groups them by precedence, for sources of
\* every length over any operators a package declares.
THEOREM TreesCorrect == LanguageSpec => []TreesFollowPrecedence
<1>1. ExprInv => TreesFollowPrecedence
  BY TreesProved
<1>2. QED
  BY <1>1, ExprInvHolds, PTL

\* Constant folding changes no value and no error, for every source and for
\* integers of every width.
THEOREM FoldingCorrect == LanguageSpec => []FoldingKeepsMeaning
<1>1. ExprInv => FoldingKeepsMeaning
  BY FoldingProved
<1>2. QED
  BY <1>1, ExprInvHolds, PTL

\* Sums, differences, products and powers by squaring are those of unbounded
\* integers, wrapped once at the end, and // and % undo each other, for
\* integers of every width.
THEOREM ArithmeticCorrect == LanguageSpec => []ArithmeticWraps
<1>1. ExprInv => ArithmeticWraps
  BY ArithmeticProved
<1>2. QED
  BY <1>1, ExprInvHolds, PTL

\* Where null results are spelled in one way, a function called through a slot
\* binds every argument list that the slot's signature allows, for any contracts,
\* however deeply signatures are nested in each other.  Methods are excluded:
\* what a slot admits with its receiver is called with the receiver before the
\* arguments, so that EveryCallableBinds is false of it.
THEOREM SlotCallsCorrect == ASSUME SpellingsAgree PROVE LanguageSpec => []SlotCallsBind
<1>1. CallInv => SlotCallsBind
  BY SlotCallsProved
<1>2. QED
  BY <1>1, CallInvHolds, PTL

\* Under the same hypothesis what comes back through a slot is what the slot's
\* signature announces.
THEOREM SlotResultsCorrect == ASSUME SpellingsAgree PROVE LanguageSpec => []SlotResultsFit
<1>1. CallInv => SlotResultsFit
  BY SlotResultsProved
<1>2. QED
  BY <1>1, CallInvHolds, PTL

\* A body runs with every parameter bound to a value of its contract, and every
\* argument is used once, whole or by its fields, in every call.
THEOREM ArgumentsCorrect == LanguageSpec => []ArgumentsAreUsed
<1>1. CallInv => ArgumentsAreUsed
  BY ArgumentsProved
<1>2. QED
  BY <1>1, CallInvHolds, PTL
=============================================================================
