--------------------------- MODULE Bindings_proofs ---------------------------
(***************************************************************************)
(* Proofs about Bindings, for every value of its constants: its inductive  *)
(* invariant, that bindings honour their contracts unless an overtaken     *)
(* assignment stored their value, and that they implement LexicalCells.    *)
(***************************************************************************)
EXTENDS Bindings, FiniteSetTheorems, SequenceTheorems, TLAPS

-----------------------------------------------------------------------------
(* The cell an assignment has found is still the nearest one with its name *)
(* and still has the contract that the assignment is held to.              *)
Settled(item) ==
  /\ item.target \in enclosing[item.scope]
  /\ bindings[item.target][item.name] # None
  /\ bindings[item.target][item.name].contract = item.contract
  /\ \A s \in enclosing[item.scope] :
       bindings[s][item.name] # None => s <= item.target

(* An assignment waits for such a cell, or its name was declared again in  *)
(* its own scope since.                                                    *)
Found(item) ==
  IF item.target = 0 THEN bindings[item.scope][item.name] # None
  ELSE Settled(item)

(* Scopes grow inward, every value honours the contract of its cell unless *)
(* it strayed there, and closures run in scopes that exist.                *)
Closed(value) == value.type = "call" => value.scope \in DOMAIN enclosing
Good == {v \in Values : Closed(v)}

EnvInv ==
  /\ enclosing \in Seq(SUBSET Scopes) /\ Len(enclosing) \in Scopes
  /\ \A s \in DOMAIN enclosing :
       s \in enclosing[s] /\ enclosing[s] \subseteq 1 .. s
  /\ bindings \in Seq([Names -> Cells \cup {None}])
  /\ Len(bindings) = Len(enclosing)
  /\ \A s \in DOMAIN enclosing : \A n \in Names :
       bindings[s][n] # None =>
         /\ <<s, n>> \notin strayed =>
              Conforms(bindings[s][n].contract, bindings[s][n].value)
         /\ Closed(bindings[s][n].value)
  /\ strayed \subseteq (DOMAIN enclosing) \X Names

(* Scopes grow inward on the stack, too. *)
StackInv ==
  /\ stack \in Seq(Item) /\ stack # <<>> /\ Len(stack) <= MaxDepth + 1
  /\ \A i \in DOMAIN stack :
       /\ stack[i].scope \in DOMAIN enclosing
       /\ stack[i].kind = "program" <=> i = 1
       /\ stack[i].kind \in Waits \cup {"try"} => stack[i].name \in Names
       /\ stack[i].kind = "assign" => Found(stack[i])
  /\ \A i, j \in DOMAIN stack : i <= j => stack[i].scope <= stack[j].scope

(* Every handler that may still run has room for its scope. *)
Tries(items) == {i \in DOMAIN items : items[i].kind = "try"}
RoomInv == Len(enclosing) + Cardinality(Tries(stack)) <= MaxScopes

RestInv ==
  /\ result \in Good \cup {None}
  /\ types \in Ids /\ steps \in 0 .. MaxSteps

BindingsInv == EnvInv /\ StackInv /\ RoomInv /\ RestInv

(* What lookups and expressions rely on. *)
ClosedInv ==
  /\ \A s \in DOMAIN bindings : \A n \in Names :
       bindings[s][n] # None => Closed(bindings[s][n].value)
  /\ result # None => Closed(result)

-----------------------------------------------------------------------------
(* Sequences and largest members.                                          *)
LEMMA PushType ==
  ASSUME NEW S, NEW s \in Seq(S), NEW e \in S
  PROVE  /\ Append(s, e) \in Seq(S)
         /\ Len(Append(s, e)) = Len(s) + 1
         /\ DOMAIN Append(s, e) = 1 .. Len(s) + 1
         /\ \A i \in 1 .. Len(s) : Append(s, e)[i] = s[i]
         /\ Append(s, e)[Len(s) + 1] = e
BY AppendProperties

LEMMA PopType ==
  ASSUME NEW S, NEW s \in Seq(S), s # <<>>
  PROVE  /\ Front(s) \in Seq(S)
         /\ Len(Front(s)) = Len(s) - 1
         /\ DOMAIN Front(s) = 1 .. Len(s) - 1
         /\ \A i \in 1 .. Len(s) - 1 : Front(s)[i] = s[i]
         /\ Front(s) # <<>> => Len(s) - 1 \in 1 .. Len(s) /\ Last(Front(s)) = s[Len(s) - 1]
<1>1. Len(s) \in Nat \ {0} /\ \A i \in 1..Len(s) : s[i] \in S
  BY EmptySeq, ElementOfSeq
<1>2. \A i \in 1..Len(s)-1 : s[i] \in S
  BY <1>1
<1>3. Len(s)-1 \in Int /\ 1 \in Int
  BY <1>1
<1>4. /\ SubSeq(s, 1, Len(s)-1) \in Seq(S)
      /\ Len(SubSeq(s, 1, Len(s)-1)) =
           IF 1 <= Len(s)-1 THEN (Len(s)-1) - 1 + 1 ELSE 0
      /\ \A i \in 1..((Len(s)-1) - 1 + 1) :
           SubSeq(s, 1, Len(s)-1)[i] = s[1 + i - 1]
  BY <1>2, <1>3, SubSeqProperties
<1>5. Len(SubSeq(s, 1, Len(s)-1)) = Len(s) - 1
  <2>1. \A n \in Nat \ {0} : (IF 1 <= n - 1 THEN (n - 1) - 1 + 1 ELSE 0) = n - 1
    OBVIOUS
  <2>2. QED
    BY <1>1, <1>4, <2>1
<1>6. ASSUME NEW i \in 1..Len(s)-1
      PROVE  SubSeq(s, 1, Len(s)-1)[i] = s[i]
  <2>1. i \in 1..((Len(s)-1) - 1 + 1) /\ 1 + i - 1 = i
    BY <1>1
  <2>2. QED
    BY <2>1, <1>4
<1>7. DOMAIN SubSeq(s, 1, Len(s)-1) = 1 .. Len(s) - 1
  BY <1>4, <1>5, LenProperties
<1>8. ASSUME SubSeq(s, 1, Len(s)-1) # <<>>
      PROVE  /\ Len(s) - 1 \in 1 .. Len(s)
             /\ Last(SubSeq(s, 1, Len(s)-1)) = s[Len(s) - 1]
  <2>1. Len(SubSeq(s, 1, Len(s)-1)) # 0
    BY <1>4, <1>8, EmptySeq
  <2>2. Len(s) - 1 # 0
    BY <2>1, <1>5
  <2>3. Len(s) - 1 \in 1 .. Len(s) - 1 /\ Len(s) - 1 \in 1 .. Len(s)
    <3>1. \A n \in Nat \ {0} : n - 1 # 0 => n - 1 \in 1 .. n - 1 /\ n - 1 \in 1 .. n
      OBVIOUS
    <3>2. QED
      BY <3>1, <2>2, <1>1
  <2>4. QED
    BY <2>3, <1>5, <1>6 DEF Last
<1>9. QED
  BY <1>4, <1>5, <1>6, <1>7, <1>8 DEF Front

(* A nonempty set of naturals has a least member: the intervals up to its  *)
(* members are finite sets, and strict inclusion of those is well founded. *)
LEMMA LeastOf ==
  ASSUME NEW T \in SUBSET Nat, T # {}
  PROVE  \E i \in T : \A j \in T : i <= j
<1> DEFINE Spans == {1..n : n \in T}
           R == StrictSubsetOrdering(Nat)
<1>1. IsWellFoundedOn(R, FiniteSubsetsOf(Nat))
  BY FS_StrictSubsetOrderingWellFounded
<1>2. ASSUME NEW n \in Nat PROVE 1..n \in FiniteSubsetsOf(Nat)
  BY FS_Interval DEF FiniteSubsetsOf
<1>3. Spans # {} /\ Spans \subseteq FiniteSubsetsOf(Nat)
  BY <1>2
<1>4. PICK x \in Spans : \A y \in Spans : ~(<<y, x>> \in R)
  <2> HIDE DEF Spans, R
  <2> QED
    BY <1>1, <1>3, WFMin
<1>5. PICK i \in T : x = 1..i
  BY <1>4
<1>6. ASSUME NEW j \in T, j < i PROVE FALSE
  <2>1. 1..j \in SUBSET Nat /\ 1..i \in SUBSET Nat /\ 1..j \subseteq 1..i
    BY <1>6
  <2>2. i \in 1..i /\ i \notin 1..j
    BY <1>6
  <2>3. <<1..j, 1..i>> \in R
    BY <2>1, <2>2 DEF StrictSubsetOrdering
  <2>4. QED
    BY <2>3, <1>4, <1>5
<1>7. QED
  BY <1>6

LEMMA MaxOf ==
  ASSUME NEW n \in Nat, NEW T \in SUBSET (1 .. n), T # {}
  PROVE  Max(T) \in T /\ \A t \in T : t <= Max(T)
<1> DEFINE Mirror == {n - t : t \in T}
<1>1. Mirror \in SUBSET Nat /\ Mirror # {}
  <2>1. \A t \in T : t \in Int /\ n - t \in Nat
    OBVIOUS
  <2>2. QED
    BY <2>1
<1>2. PICK i \in Mirror : \A j \in Mirror : i <= j
  <2> HIDE DEF Mirror
  <2> QED
    BY <1>1, LeastOf
<1>3. PICK t \in T : i = n - t
  BY <1>2
<1>4. \A u \in T : u <= t
  <2>1. ASSUME NEW u \in T PROVE u <= t
    <3>1. n - u \in Mirror /\ u \in Int /\ t \in Int
      OBVIOUS
    <3>2. n - t <= n - u
      BY <3>1, <1>2, <1>3
    <3>3. QED
      BY <3>1, <3>2
  <2>2. QED
    BY <2>1
<1>5. \E x \in T : \A y \in T : x >= y
  BY <1>4
<1>6. Max(T) \in T /\ \A y \in T : Max(T) >= y
  BY <1>5 DEF Max
<1>7. QED
  BY <1>6

-----------------------------------------------------------------------------
(* Values and contracts.                                                   *)
LEMMA Numbers ==
  /\ MaxScopes \in Nat \ {0} /\ MaxTypes \in Nat /\ MaxDepth \in Nat /\ MaxSteps \in Nat
  /\ BuiltinError \in Ids
BY BindingsAssumption DEF BuiltinError, Ids

LEMMA ValueKinds ==
  ASSUME NEW v \in Values
  PROVE  /\ v.type \in Primitives \cup Reserved
         /\ v.type \in {"struct", "instance"} => v.id \in Ids
         /\ v.type = "alias" => v.contract \in Contracts
         /\ v.type = "call" => /\ v.scope \in Scopes /\ v.parameter \in Names
                               /\ v.contract \in Contracts \cup {None}
<1>1. CASE \E id \in Ids : v = Definition(id) \/ v = Instance(id)
  BY <1>1 DEF Definition, Instance, Reserved
<1>2. CASE \E c \in Contracts : v = Alias(c)
  BY <1>2 DEF Alias, Reserved
<1>3. CASE \E p \in Primitives : v = Literal(p)
  BY <1>3, BindingsAssumption DEF Literal, Reserved
<1>4. CASE \E s \in Scopes, n \in Names, c \in Contracts \cup {None} :
             v = Function(s, n, c)
  BY <1>4 DEF Function, Reserved
<1>5. QED
  BY <1>1, <1>2, <1>3, <1>4 DEF Values

LEMMA ValueSorts ==
  /\ \A id \in Ids : /\ Definition(id) \in Values /\ Instance(id) \in Values
                     /\ Nominal(id) \in Contracts
                     /\ Definition(id).type = "struct"
                     /\ Instance(id).type = "instance" /\ Instance(id).id = id
  /\ \A c \in Contracts : Alias(c) \in Values /\ Alias(c).type = "alias"
  /\ \A p \in Primitives : /\ Literal(p) \in Values /\ Runtime(p) \in Contracts
                           /\ Literal(p).type # "call"
  /\ \A s \in Scopes, n \in Names, c \in Contracts \cup {None} :
       /\ Function(s, n, c) \in Values
       /\ Function(s, n, c).scope = s
  /\ \A t \in Reserved \ {"instance"} : Runtime(t) \in Contracts
<1>1. \A p \in Primitives : Literal(p).type # "call"
  BY BindingsAssumption DEF Literal, Reserved
<1>2. \A id \in Ids : /\ Definition(id) \in Values /\ Instance(id) \in Values
                      /\ Nominal(id) \in Contracts
                      /\ Definition(id).type = "struct"
                      /\ Instance(id).type = "instance" /\ Instance(id).id = id
  <2>1. \A id \in Ids : Definition(id) \in Values /\ Instance(id) \in Values
    BY DEF Values
  <2>2. \A id \in Ids : Nominal(id) \in Contracts
    BY DEF Contracts
  <2>3. \A id \in Ids : /\ Definition(id).type = "struct"
                        /\ Instance(id).type = "instance" /\ Instance(id).id = id
    BY DEF Definition, Instance
  <2>4. QED
    BY <2>1, <2>2, <2>3
<1>3. \A c \in Contracts : Alias(c) \in Values /\ Alias(c).type = "alias"
  BY DEF Values, Alias
<1>4. \A p \in Primitives : Literal(p) \in Values /\ Runtime(p) \in Contracts
  BY DEF Values, Contracts
<1>5. \A s \in Scopes, n \in Names, c \in Contracts \cup {None} :
       /\ Function(s, n, c) \in Values
       /\ Function(s, n, c).scope = s
  BY DEF Values, Function
<1>6. \A t \in Reserved \ {"instance"} : Runtime(t) \in Contracts
  BY DEF Contracts
<1>7. QED
  BY <1>1, <1>2, <1>3, <1>4, <1>5, <1>6

LEMMA Inferred ==
  ASSUME NEW v \in Values
  PROVE  /\ InferredContract(v) \in Contracts
         /\ Conforms(InferredContract(v), v)
<1>1. CASE v.type = "instance"
  BY <1>1, ValueKinds, ValueSorts DEF InferredContract, Conforms, Nominal
<1>2. CASE v.type # "instance"
  BY <1>2, ValueKinds, ValueSorts DEF InferredContract, Conforms, Runtime
<1>3. QED
  BY <1>1, <1>2

LEMMA CellType ==
  ASSUME NEW v \in Values, NEW c \in Contracts \cup {None}
  PROVE  /\ Cell(v, c) \in Cells /\ Cell(v, c) # None
         /\ Cell(v, c).value = v /\ Cell(v, c).contract = c
<1>1. Cell(v, c) \in Cells
  BY DEF Cell, Cells
<1>2. QED
  BY <1>1, NoneIsNoCell DEF Cell

-----------------------------------------------------------------------------
(* Environments and lookups.                                               *)
LEMMA Environments ==
  ASSUME TypeOK
  PROVE  /\ enclosing \in Seq(SUBSET Scopes)
         /\ bindings \in Seq([Names -> Cells \cup {None}])
         /\ Len(enclosing) \in Nat /\ Len(enclosing) >= 1
         /\ Len(enclosing) <= MaxScopes
         /\ DOMAIN enclosing = 1 .. Len(enclosing)
         /\ DOMAIN bindings = 1 .. Len(enclosing)
         /\ DOMAIN enclosing \subseteq Scopes
         /\ \A s \in DOMAIN enclosing :
              /\ s \in enclosing[s] /\ enclosing[s] \subseteq 1 .. s
              /\ enclosing[s] \subseteq DOMAIN enclosing
              /\ bindings[s] \in [Names -> Cells \cup {None}]
<1> USE DEF TypeOK
<1>1. /\ Len(enclosing) \in Nat /\ DOMAIN enclosing = 1 .. Len(enclosing)
      /\ DOMAIN bindings = 1 .. Len(enclosing)
  BY LenProperties
<1>2. Len(enclosing) >= 1 /\ Len(enclosing) <= MaxScopes
  BY <1>1, Numbers DEF Scopes
<1>3. DOMAIN enclosing \subseteq Scopes
  BY <1>1, <1>2, Numbers DEF Scopes
<1>4. \A s \in DOMAIN enclosing : bindings[s] \in [Names -> Cells \cup {None}]
  BY <1>1, ElementOfSeq
<1>5. \A s \in DOMAIN enclosing : enclosing[s] \subseteq DOMAIN enclosing
  BY <1>1
<1>6. QED
  BY <1>1, <1>2, <1>3, <1>4, <1>5

LEMMA InvType ==
  ASSUME BindingsInv
  PROVE  BindingsConform /\ ClosedInv
<1> USE DEF BindingsInv, EnvInv, StackInv, RestInv
<1>1. DOMAIN bindings = DOMAIN enclosing
  BY LenProperties
<1>2. TypeOK
  <2>1. PICK l \in Nat : l \in 1 .. MaxScopes /\ DOMAIN enclosing = 1 .. l
    BY LenProperties, Numbers DEF Scopes
  <2>2. DOMAIN enclosing \subseteq Scopes
    BY <2>1, Numbers DEF Scopes
  <2>3. strayed \subseteq Scopes \X Names
    BY <2>2
  <2>4. QED
    BY <2>3 DEF TypeOK, Good
<1>3. ClosedInv
  BY <1>1 DEF ClosedInv, Good
<1>4. \A s \in DOMAIN bindings : \A n \in Names :
        <<s, n>> \notin strayed => Honours(bindings[s][n])
  BY <1>1 DEF Honours
<1>5. QED
  BY <1>2, <1>3, <1>4 DEF BindingsConform

LEMMA NearestFacts ==
  ASSUME TypeOK, NEW s \in DOMAIN enclosing, NEW n \in Names
  PROVE  /\ Nearest(s, n) # 0 =>
              /\ Nearest(s, n) \in enclosing[s]
              /\ bindings[Nearest(s, n)][n] # None
         /\ \A u \in enclosing[s] : bindings[u][n] # None => u <= Nearest(s, n)
<1>1. Holding(s, n) \in SUBSET (1 .. s) /\ s \in Nat
  BY Environments DEF Holding
<1>2. CASE Holding(s, n) = {}
  BY <1>2 DEF Nearest, Holding
<1>3. CASE Holding(s, n) # {}
  <2>1. /\ Max(Holding(s, n)) \in Holding(s, n)
        /\ \A t \in Holding(s, n) : t <= Max(Holding(s, n))
    BY <1>1, <1>3, MaxOf
  <2>2. Nearest(s, n) = Max(Holding(s, n))
    BY <1>3 DEF Nearest
  <2>3. QED
    BY <2>1, <2>2 DEF Holding
<1>4. QED
  BY <1>2, <1>3

(* The nearest cell is the only one that is near enough. *)
LEMMA NearestIs ==
  ASSUME TypeOK, NEW s \in DOMAIN enclosing, NEW n \in Names,
         NEW t \in enclosing[s], bindings[t][n] # None,
         \A u \in enclosing[s] : bindings[u][n] # None => u <= t
  PROVE  Nearest(s, n) = t
<1>1. t \in Holding(s, n) /\ t \in 1 .. s /\ s \in Nat
  BY Environments DEF Holding
<1>2. Nearest(s, n) # 0
  <2>1. Holding(s, n) \in SUBSET (1 .. s) /\ Holding(s, n) # {}
    BY <1>1, Environments DEF Holding
  <2>2. Max(Holding(s, n)) \in 1 .. s
    BY <2>1, <1>1, MaxOf
  <2>3. QED
    BY <2>1, <2>2 DEF Nearest
<1>3. /\ Nearest(s, n) \in 1 .. s /\ Nearest(s, n) <= t /\ t <= Nearest(s, n)
  BY <1>1, <1>2, NearestFacts, Environments
<1>4. QED
  BY <1>1, <1>3

LEMMA LookupType ==
  ASSUME TypeOK, ClosedInv, NEW s \in DOMAIN enclosing, NEW n \in Names
  PROVE  Lookup(s, n) \in Good \cup {None}
<1>1. CASE Nearest(s, n) # 0
  <2>1. PICK t \in enclosing[s] : t = Nearest(s, n) /\ bindings[t][n] # None
    BY <1>1, NearestFacts
  <2>2. t \in DOMAIN bindings /\ bindings[t][n] \in Cells
    BY <2>1, Environments
  <2>3. bindings[t][n].value \in Values /\ Closed(bindings[t][n].value)
    BY <2>1, <2>2 DEF Cells, ClosedInv
  <2>4. QED
    BY <1>1, <2>1, <2>3 DEF Lookup, Good
<1>2. CASE Nearest(s, n) = 0
  <2>1. Definition(BuiltinError) \in Good
    BY Numbers, ValueSorts DEF Good, Closed
  <2>2. QED
    BY <1>2, <2>1 DEF Lookup
<1>3. QED
  BY <1>1, <1>2

LEMMA MeaningType ==
  ASSUME TypeOK, ClosedInv, NEW s \in DOMAIN enclosing,
         NEW a \in Names \cup Primitives \cup {None}
  PROVE  /\ Meaning(a, s) \subseteq Contracts \cup {None}
         /\ a # None => Meaning(a, s) \subseteq Contracts
         /\ ErrorMeaning(a, s) \subseteq Contracts
<1>1. CASE a = None
  BY <1>1, BindingsAssumption DEF Meaning, ErrorMeaning
<1>2. CASE a \in Primitives
  <2>1. a # None
    BY <1>2, BindingsAssumption
  <2>2. Meaning(a, s) = {Runtime(a)}
    BY <1>2, <2>1 DEF Meaning
  <2>3. QED
    BY <1>2, <2>2, ValueSorts DEF ErrorMeaning
<1>3. CASE a \in Names
  <2>1. a # None /\ a \notin Primitives
    BY <1>3, BindingsAssumption
  <2>2. PICK value : value = Lookup(s, a) /\ value \in Good \cup {None}
    BY <1>3, LookupType
  <2>3. Meaning(a, s) =
          IF value = None THEN {}
          ELSE IF value.type = "struct" THEN {Nominal(value.id)}
          ELSE IF value.type = "alias" THEN {value.contract} ELSE {}
    BY <2>1, <2>2 DEF Meaning
  <2>4. Meaning(a, s) \subseteq Contracts
    BY <2>2, <2>3, ValueKinds, ValueSorts DEF Good
  <2>5. QED
    BY <2>4 DEF ErrorMeaning
<1>4. QED
  BY <1>1, <1>2, <1>3

LEMMA StackFacts ==
  ASSUME TypeOK
  PROVE  /\ stack \in Seq(Item) /\ Len(stack) \in Nat /\ Len(stack) >= 1
         /\ DOMAIN stack = 1 .. Len(stack) /\ Len(stack) \in DOMAIN stack
         /\ \A i \in DOMAIN stack : /\ stack[i] \in Item
                                    /\ stack[i].scope \in DOMAIN enclosing
         /\ Top = stack[Len(stack)] /\ Top \in Item
         /\ Here \in DOMAIN enclosing /\ Here \in Scopes
<1>1. stack \in Seq(Item) /\ stack # <<>>
  BY DEF TypeOK
<1>2. /\ Len(stack) \in Nat /\ DOMAIN stack = 1 .. Len(stack)
      /\ Len(stack) # 0
  BY <1>1, LenProperties, EmptySeq
<1>3. Len(stack) >= 1 /\ Len(stack) \in DOMAIN stack
  BY <1>2
<1>4. \A i \in DOMAIN stack : stack[i] \in Item
  BY <1>1, <1>2, ElementOfSeq
<1>5. \A i \in DOMAIN stack : stack[i].scope \in DOMAIN enclosing
  BY DEF TypeOK
<1>6. QED
  BY <1>1, <1>2, <1>3, <1>4, <1>5, Environments DEF Top, Here

LEMMA ProducibleType ==
  ASSUME TypeOK, ClosedInv
  PROVE  Producible \subseteq Good /\ Visible \subseteq Good
<1>1. Visible \subseteq Good
  BY LookupType, StackFacts DEF Visible
<1>2. {Literal(p) : p \in Primitives} \subseteq Good
  BY ValueSorts DEF Good, Closed
<1>3. {Instance(v.id) : v \in {w \in Visible : w.type = "struct"}} \subseteq Good
  BY <1>1, ValueKinds, ValueSorts DEF Good, Closed
<1>4. FunctionLiterals \subseteq Good
  <2>1. ASSUME NEW s \in Signatures, NEW c \in Meaning(s[2], Here)
        PROVE  Function(Here, s[1], c) \in Good
    <3>1. s[1] \in Names /\ s[2] \in Names \cup Primitives \cup {None}
      BY BindingsAssumption
    <3>2. c \in Contracts \cup {None}
      BY <3>1, MeaningType, StackFacts
    <3>3. Function(Here, s[1], c) \in Values /\ Function(Here, s[1], c).scope = Here
      BY <3>1, <3>2, StackFacts, ValueSorts
    <3>4. QED
      BY <3>3, StackFacts DEF Good, Closed
  <2>2. QED
    BY <2>1 DEF FunctionLiterals
<1>5. result \in Good \cup {None}
  BY DEF TypeOK, ClosedInv, Good
<1>6. QED
  BY <1>1, <1>2, <1>3, <1>4, <1>5 DEF Producible

-----------------------------------------------------------------------------
(* What a step does to the environments.                                   *)
LEMMA PutEnv ==
  ASSUME BindingsInv, UNCHANGED enclosing,
         NEW s \in DOMAIN enclosing, NEW n \in Names, NEW cell \in Cells,
         Closed(cell.value),
         bindings' = [bindings EXCEPT ![s][n] = cell],
         \/ strayed' = strayed \ {<<s, n>>} /\ Conforms(cell.contract, cell.value)
         \/ strayed' = strayed \cup {<<s, n>>}
  PROVE  /\ EnvInv'
         /\ \A u \in DOMAIN enclosing : \A m \in Names :
              bindings'[u][m] = IF u = s /\ m = n THEN cell ELSE bindings[u][m]
<1>1. TypeOK /\ EnvInv
  BY InvType DEF BindingsConform, BindingsInv
<1>2. PICK b : b = bindings /\ b \in Seq([Names -> Cells \cup {None}])
                /\ Len(b) \in Nat /\ DOMAIN b = 1 .. Len(b) /\ Len(b) = Len(enclosing)
  BY <1>1, LenProperties DEF EnvInv
<1>3. /\ b \in [1 .. Len(b) -> [Names -> Cells \cup {None}]]
      /\ s \in 1 .. Len(b)
  BY <1>1, <1>2, Environments, SeqDef
<1>4. PICK d : d = bindings'
  OBVIOUS
<1>5. d = [b EXCEPT ![s] = [b[s] EXCEPT ![n] = cell]]
  BY <1>2, <1>4
<1>6. /\ d \in [1 .. Len(b) -> [Names -> Cells \cup {None}]]
      /\ \A u \in 1 .. Len(b) : \A m \in Names :
           d[u][m] = IF u = s /\ m = n THEN cell ELSE b[u][m]
  BY <1>3, <1>5
<1>7. d \in Seq([Names -> Cells \cup {None}]) /\ Len(d) = Len(b)
  BY <1>2, <1>6, SeqDef, LenProperties
<1>8. DOMAIN enclosing = 1 .. Len(b)
  BY <1>1, <1>2, Environments
<1>9. ASSUME NEW u \in DOMAIN enclosing, NEW m \in Names, d[u][m] # None
      PROVE  /\ <<u, m>> \notin strayed' => Conforms(d[u][m].contract, d[u][m].value)
             /\ Closed(d[u][m].value)
  <2>1. CASE u = s /\ m = n
    BY <2>1, <1>6, <1>8
  <2>2. CASE ~(u = s /\ m = n)
    <3>1. d[u][m] = bindings[u][m]
      BY <2>2, <1>2, <1>6, <1>8
    <3>2. <<u, m>> \notin strayed' => <<u, m>> \notin strayed
      BY <2>2
    <3>3. QED
      BY <3>1, <3>2, <1>1, <1>9 DEF EnvInv
  <2>3. QED
    BY <2>1, <2>2
<1>10. EnvInv'
  <2>1. strayed' \subseteq (DOMAIN enclosing) \X Names
    BY <1>1 DEF EnvInv
  <2>2. QED
    BY <2>1, <1>1, <1>2, <1>4, <1>7, <1>9 DEF EnvInv, Closed
<1>11. QED
  BY <1>2, <1>4, <1>6, <1>8, <1>10

LEMMA OpenEnv ==
  ASSUME BindingsInv, NEW outer \in DOMAIN enclosing, NEW name \in Names,
         NEW value \in Good, NEW contract \in Contracts \cup {None},
         Conforms(contract, value), NextScope <= MaxScopes,
         OpenScope(outer, name, value, contract), UNCHANGED strayed
  PROVE  /\ EnvInv'
         /\ Len(enclosing') = Len(enclosing) + 1
         /\ NextScope \in DOMAIN enclosing' /\ NextScope \notin DOMAIN enclosing
         /\ DOMAIN enclosing' = DOMAIN enclosing \cup {NextScope}
         /\ DOMAIN bindings' = DOMAIN enclosing'
         /\ \A s \in DOMAIN enclosing : /\ enclosing'[s] = enclosing[s]
                                        /\ bindings'[s] = bindings[s]
         /\ bindings'[NextScope] = [Empty EXCEPT ![name] = Cell(value, contract)]
<1>1. TypeOK /\ EnvInv
  BY InvType DEF BindingsConform, BindingsInv
<1>2. PICK k \in Nat : k = Len(enclosing) /\ k = Len(bindings) /\ k + 1 <= MaxScopes
                        /\ NextScope = k + 1
  BY <1>1, Environments DEF EnvInv, NextScope
<1>3. PICK e : e = enclosing'
  OBVIOUS
<1>4. PICK b : b = bindings'
  OBVIOUS
<1>5. /\ DOMAIN enclosing = 1 .. k /\ DOMAIN bindings = 1 .. k
      /\ k + 1 \in Scopes /\ 1 .. k + 1 \subseteq Scopes /\ k + 1 \notin 1 .. k
      /\ 1 .. k + 1 = 1 .. k \cup {k + 1}
  BY <1>1, <1>2, Environments, Numbers DEF Scopes
<1>6. PICK new : new = enclosing[outer] \cup {k + 1}
  OBVIOUS
<1>7. new \in SUBSET Scopes /\ k + 1 \in new /\ new \subseteq 1 .. k + 1
  BY <1>1, <1>5, <1>6, Environments
<1>8. PICK row : row = [Empty EXCEPT ![name] = Cell(value, contract)]
  OBVIOUS
<1>9. /\ row \in [Names -> Cells \cup {None}]
      /\ \A m \in Names : row[m] # None => m = name
      /\ row[name] = Cell(value, contract)
  BY <1>8, CellType DEF Empty, Good
<1>10. e = Append(enclosing, new) /\ b = Append(bindings, row)
  BY <1>2, <1>3, <1>4, <1>6, <1>8 DEF OpenScope
<1>11. /\ e \in Seq(SUBSET Scopes) /\ Len(e) = k + 1 /\ DOMAIN e = 1 .. k + 1
       /\ \A s \in 1 .. k : e[s] = enclosing[s]
       /\ e[k + 1] = new
  BY <1>1, <1>2, <1>7, <1>10, PushType DEF EnvInv
<1>12. /\ b \in Seq([Names -> Cells \cup {None}]) /\ Len(b) = k + 1
       /\ DOMAIN b = 1 .. k + 1
       /\ \A s \in 1 .. k : b[s] = bindings[s]
       /\ b[k + 1] = row
  BY <1>1, <1>2, <1>9, <1>10, PushType DEF EnvInv
<1>13. \A s \in 1 .. k + 1 : s \in e[s] /\ e[s] \subseteq 1 .. s
  <2>1. \A s \in 1 .. k : s \in e[s] /\ e[s] \subseteq 1 .. s
    BY <1>1, <1>5, <1>11, Environments
  <2>2. QED
    BY <2>1, <1>5, <1>7, <1>11
<1>14. ASSUME NEW s \in 1 .. k + 1, NEW m \in Names, b[s][m] # None
       PROVE  /\ <<s, m>> \notin strayed => Conforms(b[s][m].contract, b[s][m].value)
              /\ b[s][m].value.type = "call" => b[s][m].value.scope \in 1 .. k + 1
  <2>1. CASE s \in 1 .. k
    <3>1. b[s][m] = bindings[s][m]
      BY <2>1, <1>12
    <3>2. /\ <<s, m>> \notin strayed => Conforms(b[s][m].contract, b[s][m].value)
          /\ Closed(b[s][m].value)
      BY <3>1, <2>1, <1>1, <1>5, <1>14 DEF EnvInv
    <3>3. QED
      BY <3>2, <1>5 DEF Closed
  <2>2. CASE s = k + 1
    <3>1. b[s][m] = Cell(value, contract)
      BY <2>2, <1>9, <1>12, <1>14
    <3>2. b[s][m].value = value /\ b[s][m].contract = contract
      BY <3>1, CellType DEF Good
    <3>3. QED
      BY <3>2, <1>5 DEF Closed, Good
  <2>3. QED
    BY <2>1, <2>2, <1>5
<1>15. EnvInv'
  <2>1. Len(e) \in Scopes
    BY <1>5, <1>11
  <2>2. strayed' \subseteq (DOMAIN e) \X Names
    BY <1>1, <1>5, <1>11 DEF EnvInv
  <2>3. QED
    BY <2>1, <2>2, <1>3, <1>4, <1>11, <1>12, <1>13, <1>14 DEF EnvInv, Closed
<1>16. QED
  BY <1>2, <1>3, <1>4, <1>5, <1>8, <1>11, <1>12, <1>15

-----------------------------------------------------------------------------
(* What a step does to the stack: it keeps the items up to some place, and *)
(* may put a new one upon them.                                            *)
Undisturbed(item) ==
  /\ enclosing'[item.scope] = enclosing[item.scope]
  /\ \A u \in enclosing[item.scope] :
       /\ bindings'[u][item.name] = None <=> bindings[u][item.name] = None
       /\ bindings'[u][item.name].contract = bindings[u][item.name].contract

LEMMA StayingFound ==
  ASSUME NEW item, item.scope \in enclosing[item.scope],
         Found(item), Undisturbed(item)
  PROVE  Found(item)'
<1>1. CASE item.target = 0
  BY <1>1 DEF Found, Undisturbed
<1>2. CASE item.target # 0
  <2>1. /\ item.target \in enclosing[item.scope]
        /\ enclosing'[item.scope] = enclosing[item.scope]
    BY <1>2 DEF Found, Settled, Undisturbed
  <2>2. /\ bindings'[item.target][item.name] # None
        /\ bindings'[item.target][item.name].contract = item.contract
    BY <1>2, <2>1 DEF Found, Settled, Undisturbed
  <2>3. \A s \in enclosing[item.scope] :
          bindings'[s][item.name] # None => s <= item.target
    BY <1>2 DEF Found, Settled, Undisturbed
  <2>4. QED
    BY <1>2, <2>1, <2>2, <2>3 DEF Found, Settled
<1>3. QED
  BY <1>1, <1>2

(* What an item is apart from what it has found. *)
Alike(before, after) ==
  /\ after.kind = before.kind /\ after.scope = before.scope
  /\ after.name = before.name

LEMMA StackShape ==
  ASSUME BindingsInv, DOMAIN enclosing \subseteq DOMAIN enclosing',
         NEW k \in 1 .. Len(stack), NEW top \in Item,
         NEW s \in Seq(Item), stack' = s, Len(s) <= MaxDepth + 1,
         \/ Len(s) = k
         \/ /\ Len(s) = k + 1 /\ s[k + 1] = top
            /\ top.scope \in DOMAIN enclosing' /\ top.kind # "program"
            /\ top.kind \in Waits \cup {"try"} => top.name \in Names
            /\ top.kind = "assign" => Found(top)'
            /\ \A i \in 1 .. k : stack[i].scope <= top.scope,
         \A i \in 1 .. k : Alike(stack[i], s[i]),
         \A i \in 1 .. k : s[i].kind = "assign" => Found(s[i])'
  PROVE  StackInv'
<1>1. /\ k \in Nat \ {0} /\ 1 .. k \subseteq DOMAIN stack
      /\ 1 \in 1 .. k /\ k + 1 # 1 /\ 1 .. k + 1 = 1 .. k \cup {k + 1} /\ k + 1 \notin 1 .. k
  BY StackFacts, InvType DEF BindingsConform
<1>2. DOMAIN s = 1 .. Len(s) /\ Len(s) \in Nat /\ s # <<>>
  BY <1>1, LenProperties, EmptySeq
<1>3. ASSUME NEW i \in 1 .. k
      PROVE  /\ s[i].scope \in DOMAIN enclosing'
             /\ s[i].kind = "program" <=> i = 1
             /\ s[i].kind \in Waits \cup {"try"} => s[i].name \in Names
             /\ s[i].kind = "assign" => Found(s[i])'
  <2>1. PICK item : item = stack[i]
    OBVIOUS
  <2>2. /\ item.scope \in DOMAIN enclosing
        /\ item.kind = "program" <=> i = 1
        /\ item.kind \in Waits \cup {"try"} => item.name \in Names
    BY <1>1, <2>1 DEF BindingsInv, StackInv
  <2>3. s[i].kind = item.kind /\ s[i].scope = item.scope /\ s[i].name = item.name
    BY <2>1 DEF Alike
  <2>4. QED
    BY <2>2, <2>3
<1>4. \A i, j \in 1 .. k : i <= j => s[i].scope <= s[j].scope
  BY <1>1 DEF BindingsInv, StackInv, Alike
<1>5. CASE Len(s) = k
  <2>1. DOMAIN s = 1 .. k
    BY <1>2, <1>5
  <2>2. \A i \in DOMAIN s :
           /\ s[i].scope \in DOMAIN enclosing'
           /\ s[i].kind = "program" <=> i = 1
           /\ s[i].kind \in Waits \cup {"try"} => s[i].name \in Names
           /\ s[i].kind = "assign" => Found(s[i])'
    BY <1>3, <2>1
  <2>3. \A i, j \in DOMAIN s : i <= j => s[i].scope <= s[j].scope
    BY <1>4, <2>1
  <2>4. QED
    BY <1>2, <2>2, <2>3, Zenon DEF StackInv
<1>6. CASE Len(s) # k
  <2>1. /\ Len(s) = k + 1 /\ s[k + 1] = top
        /\ top.scope \in DOMAIN enclosing' /\ top.kind # "program"
        /\ top.kind \in Waits \cup {"try"} => top.name \in Names
        /\ top.kind = "assign" => Found(top)'
        /\ \A i \in 1 .. k : stack[i].scope <= top.scope
    BY <1>6
  <2>2. DOMAIN s = 1 .. k \cup {k + 1}
    BY <1>1, <1>2, <2>1
  <2>3. top.scope <= top.scope
    <3>1. top.scope \in Int
      BY DEF Item, Scopes
    <3>2. QED
      BY <3>1
  <2>4. \A i \in 1 .. k : ~(k + 1 <= i)
    BY <1>1
  <2>5. \A i \in DOMAIN s :
           /\ s[i].scope \in DOMAIN enclosing'
           /\ s[i].kind = "program" <=> i = 1
           /\ s[i].kind \in Waits \cup {"try"} => s[i].name \in Names
           /\ s[i].kind = "assign" => Found(s[i])'
    <3>1. \A i \in DOMAIN s : i \in 1 .. k \/ i = k + 1
      BY <2>2
    <3>2. /\ s[k + 1].scope \in DOMAIN enclosing'
          /\ s[k + 1].kind # "program" /\ k + 1 # 1
          /\ s[k + 1].kind \in Waits \cup {"try"} => s[k + 1].name \in Names
          /\ s[k + 1].kind = "assign" => Found(s[k + 1])'
      BY <1>1, <2>1
    <3>3. QED
      BY <3>1, <3>2, <1>3
  <2>6. \A i, j \in DOMAIN s : i <= j => s[i].scope <= s[j].scope
    <3>1. ASSUME NEW i \in DOMAIN s, NEW j \in DOMAIN s
          PROVE  i <= j => s[i].scope <= s[j].scope
      <4>1. CASE i \in 1 .. k /\ j \in 1 .. k
        BY <4>1, <1>4
      <4>2. CASE i \in 1 .. k /\ j = k + 1
        BY <4>2, <2>1 DEF Alike
      <4>3. CASE i = k + 1 /\ j \in 1 .. k
        BY <4>3, <2>4
      <4>4. CASE i = k + 1 /\ j = k + 1
        BY <4>4, <2>1, <2>3
      <4>5. QED
        BY <4>1, <4>2, <4>3, <4>4, <2>2
    <3>2. QED
      BY <3>1
  <2>7. QED
    BY <1>2, <2>5, <2>6, Zenon DEF StackInv
<1>7. QED
  BY <1>5, <1>6

LEMMA StackStep ==
  ASSUME BindingsInv, DOMAIN enclosing \subseteq DOMAIN enclosing',
         NEW k \in 1 .. Len(stack), NEW top \in Item,
         stack' \in Seq(Item), Len(stack') <= MaxDepth + 1,
         \/ Len(stack') = k
         \/ /\ Len(stack') = k + 1 /\ stack'[k + 1] = top
            /\ top.scope \in DOMAIN enclosing' /\ top.kind # "program"
            /\ top.kind \in Waits \cup {"try"} => top.name \in Names
            /\ top.kind = "assign" => Found(top)'
            /\ \A i \in 1 .. k : stack[i].scope <= top.scope,
         \A i \in 1 .. k : stack'[i] = stack[i],
         \A i \in 1 .. k : stack[i].kind = "assign" => Undisturbed(stack[i])
  PROVE  StackInv'
<1>1. PICK s : s = stack'
  OBVIOUS
<1>2. s \in Seq(Item) /\ Len(s) <= MaxDepth + 1 /\ \A i \in 1 .. k : s[i] = stack[i]
  BY <1>1
<1>3. \A i \in 1 .. k : Alike(stack[i], s[i])
  BY <1>2 DEF Alike
<1>4. ASSUME NEW i \in 1 .. k, s[i].kind = "assign"
      PROVE  Found(s[i])'
  <2>1. PICK item : item = stack[i] /\ item = s[i]
    BY <1>2
  <2>2. i \in DOMAIN stack
    BY StackFacts, InvType DEF BindingsConform
  <2>3. /\ item.scope \in enclosing[item.scope]
        /\ Found(item) /\ Undisturbed(item)
    BY <1>4, <2>1, <2>2, StackFacts, Environments, InvType
    DEF BindingsConform, BindingsInv, StackInv
  <2>4. Found(item)'
    BY <2>3, StayingFound
  <2>5. QED
    BY <2>1, <2>4
<1>5. \/ Len(s) = k
      \/ /\ Len(s) = k + 1 /\ s[k + 1] = top
         /\ top.scope \in DOMAIN enclosing' /\ top.kind # "program"
         /\ top.kind \in Waits \cup {"try"} => top.name \in Names
         /\ top.kind = "assign" => Found(top)'
         /\ \A i \in 1 .. k : stack[i].scope <= top.scope
  BY <1>1
<1>6. stack' = s
  BY <1>1
<1>7. QED
  BY <1>2, <1>3, <1>4, <1>5, <1>6, StackShape

(* The items up to a place, and their handlers. *)
LEMMA SubStack ==
  ASSUME BindingsInv, NEW k \in 1 .. Len(stack)
  PROVE  /\ SubSeq(stack, 1, k) \in Seq(Item)
         /\ Len(SubSeq(stack, 1, k)) = k
         /\ \A i \in 1 .. k : SubSeq(stack, 1, k)[i] = stack[i]
<1>1. stack \in Seq(Item) /\ 1 .. k \subseteq DOMAIN stack /\ k \in Int /\ 1 <= k
  BY StackFacts, InvType DEF BindingsConform
<1>2. \A i \in 1 .. k : stack[i] \in Item
  BY <1>1, ElementOfSeq
<1>3. /\ SubSeq(stack, 1, k) \in Seq(Item)
      /\ Len(SubSeq(stack, 1, k)) = IF 1 <= k THEN k - 1 + 1 ELSE 0
      /\ \A i \in 1 .. (k - 1 + 1) : SubSeq(stack, 1, k)[i] = stack[1 + i - 1]
  BY <1>1, <1>2, SubSeqProperties
<1>4. k - 1 + 1 = k /\ \A i \in 1 .. k : 1 + i - 1 = i
  BY <1>1
<1>5. QED
  BY <1>1, <1>3, <1>4

LEMMA TriesFacts ==
  ASSUME BindingsInv
  PROVE  /\ IsFiniteSet(Tries(stack)) /\ Cardinality(Tries(stack)) \in Nat
         /\ \A T \in SUBSET Tries(stack) :
              /\ Cardinality(T) \in Nat /\ Cardinality(T) <= Cardinality(Tries(stack))
              /\ \A i \in Tries(stack) \ T : Cardinality(T) + 1 <= Cardinality(Tries(stack))
         /\ \A i : /\ Cardinality(Tries(stack) \cup {i}) \in Nat
                   /\ Cardinality(Tries(stack) \cup {i}) <= Cardinality(Tries(stack)) + 1
<1>1. PICK n \in Nat : DOMAIN stack = 1 .. n
  BY StackFacts, InvType DEF BindingsConform
<1>2. PICK A : A = Tries(stack) /\ A \subseteq 1 .. n
  BY <1>1 DEF Tries
<1>3. IsFiniteSet(A) /\ Cardinality(A) \in Nat
  <2>1. IsFiniteSet(1 .. n)
    BY FS_Interval
  <2>2. IsFiniteSet(A)
    BY <1>2, <2>1, FS_Subset
  <2>3. QED
    BY <2>2, FS_CardinalityType
<1>4. ASSUME NEW T \in SUBSET A
      PROVE  /\ Cardinality(T) \in Nat /\ Cardinality(T) <= Cardinality(A)
             /\ \A i \in A \ T : Cardinality(T) + 1 <= Cardinality(A)
  <2>1. IsFiniteSet(T) /\ Cardinality(T) \in Nat /\ Cardinality(T) <= Cardinality(A)
    BY <1>3, FS_Subset, FS_CardinalityType
  <2>2. ASSUME NEW i \in A \ T PROVE Cardinality(T) + 1 <= Cardinality(A)
    <3>1. Cardinality(T \cup {i}) = Cardinality(T) + 1
      BY <2>1, <2>2, FS_AddElement
    <3>2. T \cup {i} \in SUBSET A
      BY <2>2
    <3>3. QED
      BY <3>1, <3>2, <1>3, FS_Subset
  <2>3. QED
    BY <2>1, <2>2
<1>5. ASSUME NEW i
      PROVE  /\ Cardinality(A \cup {i}) \in Nat
             /\ Cardinality(A \cup {i}) <= Cardinality(A) + 1
  <2>1. IsFiniteSet(A \cup {i}) /\ Cardinality(A \cup {i}) =
          IF i \in A THEN Cardinality(A) ELSE Cardinality(A) + 1
    BY <1>3, FS_AddElement
  <2>2. QED
    BY <2>1, <1>3
<1>6. QED
  BY <1>2, <1>3, <1>4, <1>5

LEMMA StackOrder ==
  ASSUME BindingsInv
  PROVE  /\ \A i \in DOMAIN stack : /\ stack[i].scope <= Here
                                    /\ enclosing[stack[i].scope] \subseteq 1 .. stack[i].scope
                                    /\ stack[i].scope \in Nat
         /\ Here \in Nat
         /\ Top.kind # "program" => Len(stack) > 1
<1>1. /\ Len(stack) \in DOMAIN stack /\ Here = stack[Len(stack)].scope
      /\ Top = stack[Len(stack)] /\ Here \in DOMAIN enclosing
      /\ DOMAIN stack = 1 .. Len(stack) /\ Len(stack) \in Nat
      /\ \A i \in DOMAIN stack : stack[i].scope \in DOMAIN enclosing
  BY StackFacts, InvType DEF BindingsConform, Here
<1>2. \A i \in DOMAIN stack : i <= Len(stack)
  BY <1>1
<1>3. \A i \in DOMAIN stack : stack[i].scope <= Here
  BY <1>1, <1>2 DEF BindingsInv, StackInv
<1>4. \A s \in DOMAIN enclosing : enclosing[s] \subseteq 1 .. s /\ s \in Nat
  BY Environments, InvType DEF BindingsConform
<1>5. Top.kind # "program" => Len(stack) # 1
  BY <1>1 DEF BindingsInv, StackInv
<1>6. QED
  BY <1>1, <1>3, <1>4, <1>5

LEMMA TriesKept ==
  ASSUME BindingsInv, NEW k \in 1 .. Len(stack), NEW items \in Seq(Item),
         \/ Len(items) = k
         \/ Len(items) = k + 1 /\ items[k + 1].kind # "try",
         \A i \in 1 .. k : items[i].kind = stack[i].kind
  PROVE  /\ Tries(items) \in SUBSET Tries(stack)
         /\ \A i \in Tries(items) : i \in 1 .. k
<1>1. /\ DOMAIN items = 1 .. Len(items) /\ k \in Nat /\ 1 .. k \subseteq DOMAIN stack
      /\ 1 .. k + 1 = 1 .. k \cup {k + 1}
  BY StackFacts, InvType, LenProperties DEF BindingsConform
<1>2. \A i \in Tries(items) : i \in 1 .. k
  <2>1. CASE Len(items) = k
    BY <1>1, <2>1 DEF Tries
  <2>2. CASE Len(items) # k
    <3>1. items[k + 1].kind # "try" /\ DOMAIN items = 1 .. k \cup {k + 1}
      BY <1>1, <2>2
    <3>2. QED
      BY <3>1 DEF Tries
  <2>3. QED
    BY <2>1, <2>2
<1>3. QED
  BY <1>1, <1>2 DEF Tries

LEMMA TriesPushed ==
  ASSUME BindingsInv, NEW top \in Item
  PROVE  Tries(Append(stack, top)) =
           IF top.kind = "try" THEN Tries(stack) \cup {Len(stack) + 1} ELSE Tries(stack)
<1>1. PICK s : s = Append(stack, top)
  OBVIOUS
<1>2. PICK n \in Nat : n = Len(stack) /\ DOMAIN stack = 1 .. n /\ stack \in Seq(Item)
  BY StackFacts, InvType DEF BindingsConform
<1>3. /\ DOMAIN s = 1 .. n \cup {n + 1} /\ s[n + 1] = top
      /\ \A i \in 1 .. n : s[i] = stack[i]
  <2>1. 1 .. n + 1 = 1 .. n \cup {n + 1}
    BY <1>2
  <2>2. QED
    BY <1>1, <1>2, <2>1, PushType
<1>4. QED
  BY <1>1, <1>2, <1>3 DEF Tries

-----------------------------------------------------------------------------
(* The kinds of steps.                                                     *)
LEMMA PushSame ==
  ASSUME BindingsInv, UNCHANGED <<enclosing, bindings, strayed>>,
         NEW top \in Item, Push(top), top.scope = Here, top.kind # "program",
         top.kind \in Waits \cup {"try"} => top.name \in Names,
         top.kind = "assign" => Found(top),
         top.kind = "try" => RoomForScope
  PROVE  EnvInv' /\ StackInv' /\ RoomInv'
<1>1. EnvInv'
  BY DEF BindingsInv, EnvInv, Closed
<1>2. PICK n \in Nat \ {0} : n = Len(stack) /\ DOMAIN stack = 1 .. n /\ stack \in Seq(Item)
  <2>1. Len(stack) \in Nat \ {0}
    BY StackFacts, InvType DEF BindingsConform
  <2>2. QED
    BY <2>1, StackFacts, InvType DEF BindingsConform
<1>3. \A item : Undisturbed(item)
  BY DEF Undisturbed
<1>4. PICK s : s = stack'
  OBVIOUS
<1>5. /\ s = Append(stack, top) /\ n + 1 <= MaxDepth + 1
      /\ s \in Seq(Item) /\ Len(s) = n + 1 /\ s[n + 1] = top
      /\ \A i \in 1 .. n : s[i] = stack[i]
  <2>1. s = Append(stack, top) /\ n < MaxDepth
    BY <1>2, <1>4 DEF Push
  <2>2. n + 1 <= MaxDepth + 1
    BY <2>1, Numbers
  <2>3. QED
    BY <2>1, <2>2, <1>2, PushType
<1>6. top.kind = "assign" => Found(top)'
  <2>1. top.scope \in enclosing[top.scope]
    BY StackFacts, Environments, InvType DEF BindingsConform
  <2>2. QED
    BY <1>3, <2>1, StayingFound
<1>7. StackInv'
  <2>1. n \in 1 .. Len(stack)
    BY <1>2
  <2>2. /\ top.scope \in DOMAIN enclosing'
        /\ \A i \in 1 .. n : stack[i].scope <= top.scope
    BY <1>2, StackFacts, StackOrder, InvType DEF BindingsConform
  <2>3. QED
    BY <1>2, <1>3, <1>4, <1>5, <1>6, <2>1, <2>2, StackStep
<1>8. RoomInv'
  <2>1. PICK l \in Nat : l = Len(enclosing)
    BY Environments, InvType DEF BindingsConform
  <2>2. Tries(s) = IF top.kind = "try" THEN Tries(stack) \cup {n + 1} ELSE Tries(stack)
    BY <1>2, <1>5, TriesPushed
  <2>3. CASE top.kind = "try"
    <3>1. l + 1 + Cardinality(Tries(stack)) <= MaxScopes
      BY <2>1, <2>3 DEF RoomForScope, NextScope, Tries
    <3>2. PICK c \in Nat : c = Cardinality(Tries(stack))
      BY TriesFacts
    <3>3. PICK d \in Nat : d = Cardinality(Tries(s)) /\ d <= c + 1
      BY <2>2, <2>3, <3>2, TriesFacts
    <3>4. l + d <= MaxScopes
      BY <3>1, <3>2, <3>3, Numbers
    <3>5. QED
      BY <1>4, <2>1, <3>3, <3>4 DEF RoomInv
  <2>4. CASE top.kind # "try"
    BY <1>4, <2>2, <2>4 DEF BindingsInv, RoomInv
  <2>5. QED
    BY <2>3, <2>4
<1>9. QED
  BY <1>1, <1>7, <1>8

LEMMA PushOpen ==
  ASSUME BindingsInv, NEW outer \in DOMAIN enclosing, NEW name \in Names,
         NEW value \in Good, NEW contract \in Contracts \cup {None},
         Conforms(contract, value), RoomForScope,
         OpenScope(outer, name, value, contract), UNCHANGED strayed,
         NEW kind \in {"call", "iteration"}, Push(Body(kind, NextScope))
  PROVE  EnvInv' /\ StackInv' /\ RoomInv'
<1>1. PICK l \in Nat : l = Len(enclosing) /\ NextScope = l + 1
  BY Environments, InvType DEF BindingsConform, NextScope
<1>2. PICK c \in Nat : c = Cardinality(Tries(stack)) /\ l + 1 + c <= MaxScopes
  BY <1>1, TriesFacts DEF RoomForScope, Tries
<1>3. NextScope <= MaxScopes
  BY <1>1, <1>2, Numbers
<1>4. /\ EnvInv' /\ Len(enclosing') = l + 1
      /\ NextScope \in DOMAIN enclosing'
      /\ DOMAIN enclosing \subseteq DOMAIN enclosing'
      /\ \A s \in DOMAIN enclosing : /\ enclosing'[s] = enclosing[s]
                                     /\ bindings'[s] = bindings[s]
  BY <1>1, <1>3, OpenEnv
<1>5. PICK n \in Nat \ {0} : n = Len(stack) /\ DOMAIN stack = 1 .. n /\ stack \in Seq(Item)
  <2>1. Len(stack) \in Nat \ {0}
    BY StackFacts, InvType DEF BindingsConform
  <2>2. QED
    BY <2>1, StackFacts, InvType DEF BindingsConform
<1>6. PICK top : top = Body(kind, NextScope)
  OBVIOUS
<1>7. /\ top \in Item /\ top.kind = kind /\ top.scope = l + 1
  <2>1. l + 1 \in Scopes
    BY <1>1, <1>3, Numbers DEF Scopes
  <2>2. QED
    BY <1>1, <1>6, <2>1 DEF Body, Item
<1>8. \A i \in DOMAIN stack : Undisturbed(stack[i])
  <2>1. ASSUME NEW i \in DOMAIN stack PROVE Undisturbed(stack[i])
    <3>1. stack[i].scope \in DOMAIN enclosing
      BY <2>1, StackFacts, InvType DEF BindingsConform
    <3>2. enclosing[stack[i].scope] \subseteq DOMAIN enclosing
      BY <3>1, Environments, InvType DEF BindingsConform
    <3>3. QED
      BY <3>1, <3>2, <1>4 DEF Undisturbed
  <2>2. QED
    BY <2>1
<1>9. PICK s : s = stack'
  OBVIOUS
<1>10. /\ s = Append(stack, top) /\ n + 1 <= MaxDepth + 1
       /\ s \in Seq(Item) /\ Len(s) = n + 1 /\ s[n + 1] = top
       /\ \A i \in 1 .. n : s[i] = stack[i]
  <2>1. s = Append(stack, top) /\ n < MaxDepth
    BY <1>5, <1>6, <1>9 DEF Push
  <2>2. n + 1 <= MaxDepth + 1
    BY <2>1, Numbers
  <2>3. QED
    BY <2>1, <2>2, <1>5, <1>7, PushType
<1>11. StackInv'
  <2>1. n \in 1 .. Len(stack)
    BY <1>5
  <2>2. \A i \in 1 .. n : stack[i].scope <= top.scope
    <3>1. \A i \in 1 .. n : stack[i].scope \in 1 .. l
      BY <1>1, <1>5, StackFacts, Environments, InvType DEF BindingsConform
    <3>2. \A u \in 1 .. l : u <= l + 1
      OBVIOUS
    <3>3. QED
      BY <3>1, <3>2, <1>7
  <2>3. /\ top.scope \in DOMAIN enclosing' /\ top.kind # "program"
        /\ top.kind \notin Waits \cup {"try"}
    BY <1>1, <1>4, <1>7 DEF Waits
  <2>4. top.kind # "assign"
    BY <1>7
  <2>5. \/ Len(stack') = n
        \/ /\ Len(stack') = n + 1 /\ stack'[n + 1] = top
           /\ top.scope \in DOMAIN enclosing' /\ top.kind # "program"
           /\ top.kind \in Waits \cup {"try"} => top.name \in Names
           /\ top.kind = "assign" => Found(top)'
           /\ \A i \in 1 .. n : stack[i].scope <= top.scope
    BY <1>9, <1>10, <2>2, <2>3, <2>4
  <2>6. \A i \in 1 .. n : stack'[i] = stack[i]
    BY <1>9, <1>10
  <2>7. \A i \in 1 .. n : stack[i].kind = "assign" => Undisturbed(stack[i])
    BY <1>5, <1>8
  <2>8. stack' \in Seq(Item) /\ Len(stack') <= MaxDepth + 1
    BY <1>9, <1>10
  <2>9. QED
    BY <1>4, <1>7, <2>1, <2>5, <2>6, <2>7, <2>8, StackStep
<1>12. RoomInv'
  <2>1. Tries(s) = Tries(stack)
    BY <1>7, <1>10, TriesPushed
  <2>2. QED
    BY <1>2, <1>4, <1>9, <2>1 DEF RoomInv
<1>13. QED
  BY <1>4, <1>11, <1>12

(* The value arrives, or the body ends. *)
LEMMA Pop ==
  ASSUME BindingsInv, UNCHANGED enclosing, Top.kind # "program",
         NEW s \in Seq(Item), stack' = s, Len(s) = Len(stack) - 1,
         \A i \in 1 .. Len(stack) - 1 : Alike(stack[i], s[i]),
         \A i \in 1 .. Len(stack) - 1 : s[i].kind = "assign" => Found(s[i])'
  PROVE  StackInv' /\ RoomInv'
<1>1. PICK n \in Nat : n + 1 = Len(stack) /\ n = Len(stack) - 1 /\ n \in 1 .. Len(stack)
  <2>1. PICK m \in Nat : m = Len(stack) /\ m > 1
    BY StackFacts, StackOrder, InvType DEF BindingsConform
  <2>2. m - 1 \in Nat /\ m - 1 + 1 = m /\ m - 1 \in 1 .. m
    BY <2>1
  <2>3. QED
    BY <2>1, <2>2
<1>2. /\ Len(s) = n /\ \A i \in 1 .. n : Alike(stack[i], s[i])
      /\ \A i \in 1 .. n : s[i].kind = "assign" => Found(s[i])'
  BY <1>1
<1>3. StackInv'
  <2>1. Len(s) <= MaxDepth + 1
    <3>1. n + 1 <= MaxDepth + 1
      BY <1>1 DEF BindingsInv, StackInv
    <3>2. QED
      BY <3>1, <1>2, Numbers
  <2>2. PICK top : top \in Item
    BY StackFacts, InvType DEF BindingsConform
  <2>3. DOMAIN enclosing \subseteq DOMAIN enclosing'
    OBVIOUS
  <2>4. QED
    BY <1>1, <1>2, <2>1, <2>2, <2>3, StackShape
<1>4. RoomInv'
  <2>1. \A i \in 1 .. n : s[i].kind = stack[i].kind
    BY <1>2 DEF Alike
  <2>2. Tries(s) \in SUBSET Tries(stack)
    BY <1>1, <1>2, <2>1, TriesKept
  <2>3. PICK c \in Nat : c = Cardinality(Tries(stack))
    BY TriesFacts
  <2>4. PICK d \in Nat : d = Cardinality(Tries(s)) /\ d <= c
    BY <2>2, <2>3, TriesFacts
  <2>5. PICK l \in Nat : l = Len(enclosing) /\ l + c <= MaxScopes
    BY <2>3, Environments, InvType DEF BindingsConform, BindingsInv, RoomInv
  <2>6. l + d <= MaxScopes
    BY <2>3, <2>4, <2>5, Numbers
  <2>7. QED
    BY <2>4, <2>5, <2>6 DEF RoomInv
<1>5. QED
  BY <1>3, <1>4

LEMMA HandlerFacts ==
  ASSUME BindingsInv, NEW id \in Ids, Handlers(id) # {}
  PROVE  \E h \in DOMAIN stack :
           /\ h = Max(Handlers(id)) /\ h \in Tries(stack)
           /\ h - 1 \in 1 .. Len(stack) /\ h - 1 + 1 = h /\ h \notin 1 .. h - 1
           /\ h <= Len(stack)
           /\ stack[h].scope \in DOMAIN enclosing /\ stack[h].name \in Names
           /\ stack[h].contract = Nominal(id)
           /\ Nominal(id) \in Contracts /\ Instance(id) \in Good
           /\ Conforms(Nominal(id), Instance(id))
<1>1. PICK n \in Nat : n = Len(stack) /\ DOMAIN stack = 1 .. n
  BY StackFacts, InvType DEF BindingsConform
<1>2. Handlers(id) \in SUBSET (1 .. n)
  BY <1>1 DEF Handlers
<1>3. PICK h : h = Max(Handlers(id)) /\ h \in Handlers(id)
  BY <1>1, <1>2, MaxOf
<1>4. h \in 1 .. n /\ h \in Tries(stack) /\ stack[h].contract = Nominal(id)
  BY <1>1, <1>2, <1>3 DEF Handlers, Tries
<1>5. /\ stack[h].kind = "try" /\ h # 1 /\ stack[h].name \in Names
      /\ stack[h].scope \in DOMAIN enclosing
  BY <1>1, <1>4 DEF Tries, BindingsInv, StackInv
<1>6. h - 1 \in 1 .. n /\ h - 1 + 1 = h /\ h \notin 1 .. h - 1 /\ h <= n
  BY <1>4, <1>5
<1>7. /\ Nominal(id) \in Contracts /\ Instance(id) \in Good
      /\ Conforms(Nominal(id), Instance(id))
  BY ValueSorts DEF Good, Closed, Conforms, Nominal, Instance
<1>8. QED
  BY <1>1, <1>3, <1>4, <1>5, <1>6, <1>7

LEMMA UnwindStep ==
  ASSUME BindingsInv, NEW id \in Ids, Unwind(id), UNCHANGED strayed
  PROVE  EnvInv' /\ StackInv' /\ RoomInv'
<1>1. CASE Handlers(id) = {}
  <2>1. UNCHANGED <<enclosing, bindings>> /\ stack' = <<Head(stack)>>
    BY <1>1 DEF Unwind
  <2>2. /\ EnvInv' /\ \A item : Undisturbed(item)
        /\ DOMAIN enclosing \subseteq DOMAIN enclosing'
    BY <2>1 DEF BindingsInv, EnvInv, Closed, Undisturbed
  <2>3. PICK s : s = stack'
    OBVIOUS
  <2>4. stack[1] \in Item /\ stack # <<>> /\ stack \in Seq(Item) /\ 1 \in 1 .. Len(stack)
    BY StackFacts, InvType DEF BindingsConform, BindingsInv, StackInv
  <2>5. s = <<stack[1]>>
    BY <2>1, <2>3, <2>4
  <2>6. s \in Seq(Item) /\ Len(s) = 1 /\ s[1] = stack[1]
    BY <2>4, <2>5
  <2>7. Len(s) <= MaxDepth + 1 /\ \A i \in 1 .. 1 : s[i] = stack[i]
    BY <2>6, Numbers
  <2>8. StackInv'
    <3>1. \A i \in 1 .. 1 : stack[i].kind = "assign" => Undisturbed(stack[i])
      BY <2>2
    <3>2. stack' \in Seq(Item) /\ Len(stack') <= MaxDepth + 1 /\ Len(stack') = 1
          /\ \A i \in 1 .. 1 : stack'[i] = stack[i]
      BY <2>3, <2>6, <2>7
    <3>3. QED
      BY <2>2, <2>4, <3>1, <3>2, StackStep
  <2>9. RoomInv'
    <3>1. Tries(s) \in SUBSET Tries(stack)
      BY <2>4, <2>6, <2>7, TriesKept
    <3>2. PICK c \in Nat : c = Cardinality(Tries(stack))
      BY TriesFacts
    <3>3. PICK d \in Nat : d = Cardinality(Tries(s)) /\ d <= c
      BY <3>1, <3>2, TriesFacts
    <3>4. PICK l \in Nat : l = Len(enclosing) /\ l + c <= MaxScopes
      BY <3>2, Environments, InvType DEF BindingsConform, BindingsInv, RoomInv
    <3>5. l + d <= MaxScopes
      BY <3>2, <3>3, <3>4, Numbers
    <3>6. QED
      BY <2>1, <2>3, <3>3, <3>4, <3>5 DEF RoomInv
  <2>10. QED
    BY <2>2, <2>8, <2>9
<1>2. CASE Handlers(id) # {}
  <2>1. PICK h \in DOMAIN stack :
           /\ h = Max(Handlers(id)) /\ h \in Tries(stack)
           /\ h - 1 \in 1 .. Len(stack) /\ h - 1 + 1 = h /\ h \notin 1 .. h - 1
           /\ h <= Len(stack)
           /\ stack[h].scope \in DOMAIN enclosing /\ stack[h].name \in Names
           /\ stack[h].contract = Nominal(id)
           /\ Nominal(id) \in Contracts /\ Instance(id) \in Good
           /\ Conforms(Nominal(id), Instance(id))
    BY <1>2, HandlerFacts
  <2>2. PICK k \in 1 .. Len(stack) : k = h - 1 /\ k + 1 = h /\ h \notin 1 .. k
    BY <2>1
  <2>3. PICK top : top = Body("catch", NextScope)
    OBVIOUS
  <2>4. /\ OpenScope(stack[h].scope, stack[h].name, Instance(id), Nominal(id))
        /\ stack' = Append(SubSeq(stack, 1, k), top)
    BY <1>2, <2>1, <2>2, <2>3 DEF Unwind
  <2>5. PICK l \in Nat : l = Len(enclosing) /\ NextScope = l + 1
    BY Environments, InvType DEF BindingsConform, NextScope
  <2>6. PICK c \in Nat : c = Cardinality(Tries(stack)) /\ l + c <= MaxScopes
    BY <2>5, TriesFacts DEF BindingsInv, RoomInv
  <2>7. c >= 1
    <3>1. /\ {} \in SUBSET Tries(stack) /\ h \in Tries(stack) \ {}
          /\ Cardinality({}) = 0
      BY <2>1, FS_EmptySet
    <3>2. Cardinality({}) + 1 <= Cardinality(Tries(stack))
      BY <3>1, TriesFacts
    <3>3. QED
      BY <3>1, <3>2, <2>6
  <2>8. NextScope <= MaxScopes
    BY <2>5, <2>6, <2>7, Numbers
  <2>9. /\ EnvInv' /\ Len(enclosing') = l + 1
        /\ NextScope \in DOMAIN enclosing'
        /\ DOMAIN enclosing \subseteq DOMAIN enclosing'
        /\ \A s \in DOMAIN enclosing : /\ enclosing'[s] = enclosing[s]
                                       /\ bindings'[s] = bindings[s]
    BY <2>1, <2>4, <2>5, <2>8, OpenEnv
  <2>10. top \in Item /\ top.kind = "catch" /\ top.scope = l + 1
    <3>1. l + 1 \in Scopes
      BY <2>5, <2>8, Numbers DEF Scopes
    <3>2. QED
      BY <2>3, <2>5, <3>1 DEF Body, Item
  <2>11. PICK s : s = stack'
    OBVIOUS
  <2>12. /\ s \in Seq(Item) /\ Len(s) = k + 1 /\ s[k + 1] = top
         /\ \A i \in 1 .. k : s[i] = stack[i]
    <3>1. PICK outer : outer = SubSeq(stack, 1, k)
      OBVIOUS
    <3>2. outer \in Seq(Item) /\ Len(outer) = k /\ \A i \in 1 .. k : outer[i] = stack[i]
      BY <3>1, SubStack
    <3>3. QED
      BY <3>1, <3>2, <2>4, <2>10, <2>11, PushType
  <2>13. \A i \in DOMAIN stack : Undisturbed(stack[i])
    <3>1. ASSUME NEW i \in DOMAIN stack PROVE Undisturbed(stack[i])
      <4>1. stack[i].scope \in DOMAIN enclosing
        BY <3>1, StackFacts, InvType DEF BindingsConform
      <4>2. enclosing[stack[i].scope] \subseteq DOMAIN enclosing
        BY <4>1, Environments, InvType DEF BindingsConform
      <4>3. QED
        BY <4>1, <4>2, <2>9 DEF Undisturbed
    <3>2. QED
      BY <3>1
  <2>14. StackInv'
    <3>1. 1 .. k \subseteq DOMAIN stack
      BY StackFacts, InvType DEF BindingsConform
    <3>2. \A i \in 1 .. k : stack[i].scope <= top.scope
      <4>1. \A i \in 1 .. k : stack[i].scope \in 1 .. l
        BY <2>5, <3>1, StackFacts, Environments, InvType DEF BindingsConform
      <4>2. \A u \in 1 .. l : u <= l + 1
        OBVIOUS
      <4>3. QED
        BY <4>1, <4>2, <2>10
    <3>3. Len(s) <= MaxDepth + 1
      <4>1. Len(stack) \in Nat /\ Len(stack) <= MaxDepth + 1 /\ k + 1 <= Len(stack)
        BY <2>1, <2>2, StackFacts, InvType DEF BindingsConform, BindingsInv, StackInv
      <4>2. QED
        BY <4>1, <2>12, Numbers
    <3>4. \/ Len(stack') = k
          \/ /\ Len(stack') = k + 1 /\ stack'[k + 1] = top
             /\ top.scope \in DOMAIN enclosing' /\ top.kind # "program"
             /\ top.kind \in Waits \cup {"try"} => top.name \in Names
             /\ top.kind = "assign" => Found(top)'
             /\ \A i \in 1 .. k : stack[i].scope <= top.scope
      <4>1. /\ top.scope \in DOMAIN enclosing' /\ top.kind # "program"
            /\ top.kind \notin Waits \cup {"try"} /\ top.kind # "assign"
        BY <2>5, <2>9, <2>10 DEF Waits
      <4>2. QED
        BY <4>1, <2>11, <2>12, <3>2
    <3>5. \A i \in 1 .. k : stack'[i] = stack[i]
      BY <2>11, <2>12
    <3>6. \A i \in 1 .. k : stack[i].kind = "assign" => Undisturbed(stack[i])
      BY <2>13, <3>1
    <3>7. stack' \in Seq(Item) /\ Len(stack') <= MaxDepth + 1
      BY <2>11, <2>12, <3>3
    <3>8. QED
      BY <2>9, <2>10, <3>4, <3>5, <3>6, <3>7, StackStep
  <2>15. RoomInv'
    <3>1. Tries(s) \in SUBSET Tries(stack) /\ h \in Tries(stack) \ Tries(s)
      <4>1. s[k + 1].kind # "try"
        BY <2>10, <2>12
      <4>2. /\ Tries(s) \in SUBSET Tries(stack)
            /\ \A i \in Tries(s) : i \in 1 .. k
        BY <4>1, <2>12, TriesKept
      <4>3. QED
        BY <4>2, <2>1, <2>2
    <3>2. PICK d \in Nat : d = Cardinality(Tries(s)) /\ d + 1 <= c
      BY <3>1, <2>6, TriesFacts
    <3>3. l + 1 + d <= MaxScopes
      BY <3>2, <2>6, Numbers
    <3>4. QED
      BY <3>2, <3>3, <2>9, <2>11 DEF RoomInv
  <2>16. QED
    BY <2>9, <2>14, <2>15
<1>3. QED
  BY <1>1, <1>2

LEMMA RestStep ==
  ASSUME BindingsInv, DOMAIN enclosing \subseteq DOMAIN enclosing',
         result' \in Good \cup {None, result}, types' \in Ids,
         steps' = steps \/ Begin
  PROVE  RestInv'
<1>1. Good \subseteq Good'
  BY DEF Good, Closed
<1>2. steps' \in 0 .. MaxSteps
  BY Numbers DEF BindingsInv, RestInv, Begin
<1>3. result' \in Good' \cup {None}
  BY <1>1 DEF BindingsInv, RestInv
<1>4. QED
  BY <1>2, <1>3 DEF RestInv

(* Where the items found their cells, seen from the innermost scope. *)
LEMMA HeldPlaces ==
  ASSUME BindingsInv, NEW i \in DOMAIN stack, stack[i].kind = "assign",
         stack[i].target # 0
  PROVE  /\ Promised(stack[i]).at = <<stack[i].target, stack[i].name>>
         /\ stack[i].target \in enclosing[stack[i].scope]
         /\ stack[i].target \in DOMAIN enclosing
         /\ stack[i].target <= Here
         /\ stack[i].target = Here => stack[i].scope = Here
<1>1. /\ stack[i].target \in enclosing[stack[i].scope]
      /\ stack[i].scope \in DOMAIN enclosing
  BY DEF BindingsInv, StackInv, Found, Settled
<1>2. stack[i].target \in DOMAIN enclosing
  BY <1>1, Environments, InvType DEF BindingsConform
<1>3. /\ stack[i].target = Here => stack[i].scope = Here
      /\ stack[i].target <= Here
  <2>1. PICK u \in Nat : /\ u = stack[i].scope /\ u <= Here
                         /\ enclosing[stack[i].scope] \subseteq 1 .. u /\ Here \in Nat
    BY StackOrder
  <2>2. stack[i].target \in 1 .. u
    BY <1>1, <2>1
  <2>3. QED
    BY <2>1, <2>2
<1>4. Promised(stack[i]).at = <<stack[i].target, stack[i].name>>
  BY DEF Promised, Waits
<1>5. QED
  BY <1>1, <1>2, <1>3, <1>4

(* A cell of the innermost scope is out of reach of the others' bodies.    *)
LEMMA Elsewhere ==
  ASSUME BindingsInv, UNCHANGED enclosing, NEW n,
         \A u \in DOMAIN enclosing : \A m \in Names :
           u # Here \/ m # n => bindings'[u][m] = bindings[u][m],
         NEW i \in DOMAIN stack, stack[i].kind = "assign",
         stack[i].scope # Here \/ stack[i].name # n
  PROVE  Undisturbed(stack[i])
<1>1. /\ stack[i].scope \in DOMAIN enclosing /\ stack[i].name \in Names
      /\ enclosing[stack[i].scope] \subseteq DOMAIN enclosing
  BY Environments, InvType DEF BindingsConform, BindingsInv, StackInv, Waits
<1>2. Here \notin enclosing[stack[i].scope] \/ stack[i].name # n
  <2>1. PICK u \in Nat : u = stack[i].scope /\ u <= Here
                         /\ enclosing[stack[i].scope] \subseteq 1 .. u /\ Here \in Nat
    BY StackOrder
  <2>2. u # Here => Here \notin 1 .. u
    BY <2>1
  <2>3. QED
    BY <2>1, <2>2
<1>3. QED
  BY <1>1, <1>2 DEF Undisturbed

(* A declaration in the innermost scope overtakes the assignments that     *)
(* wait there for its name, and leaves every other one its cell.           *)
LEMMA OvertakenItem ==
  ASSUME NEW items \in Seq(Item), NEW name, NEW i \in 1 .. Len(items)
  PROVE  /\ i \in DOMAIN Overtake(items, name)
         /\ Overtake(items, name)[i] \in Item
         /\ Alike(items[i], Overtake(items, name)[i])
         /\ Overtaken(items[i], name) => Overtake(items, name)[i].target = 0
         /\ ~Overtaken(items[i], name) => Overtake(items, name)[i] = items[i]
<1>1. PICK item : item = items[i] /\ item \in Item
  BY ElementOfSeq
<1>2. DOMAIN items = 1 .. Len(items)
  BY LenProperties
<1>3. PICK after : after = IF Overtaken(item, name) THEN [item EXCEPT !.target = 0] ELSE item
  OBVIOUS
<1>4. i \in DOMAIN Overtake(items, name) /\ Overtake(items, name)[i] = after
  BY <1>1, <1>2, <1>3 DEF Overtake
<1>5. /\ after \in Item /\ after.kind = item.kind /\ after.scope = item.scope
      /\ after.name = item.name
      /\ Overtaken(item, name) => after.target = 0
      /\ ~Overtaken(item, name) => after = item
  BY <1>1, <1>3 DEF Item
<1>6. QED
  BY <1>1, <1>4, <1>5 DEF Alike

LEMMA OvertakenStack ==
  ASSUME BindingsInv, NEW k \in 1 .. Len(stack), NEW before \in Seq(Item),
         Len(before) = k, \A i \in 1 .. k : before[i] = stack[i],
         NEW name, NEW s, s = Overtake(before, name)
  PROVE  /\ s \in Seq(Item) /\ Len(s) = k
         /\ \A i \in 1 .. k : /\ Alike(stack[i], s[i])
                              /\ Overtaken(stack[i], name) => s[i].target = 0
                              /\ ~Overtaken(stack[i], name) => s[i] = stack[i]
<1>1. \A i \in 1 .. k : /\ s[i] \in Item /\ Alike(stack[i], s[i])
                        /\ Overtaken(stack[i], name) => s[i].target = 0
                        /\ ~Overtaken(stack[i], name) => s[i] = stack[i]
  <2>1. ASSUME NEW i \in 1 .. k
        PROVE  /\ s[i] \in Item /\ Alike(stack[i], s[i])
               /\ Overtaken(stack[i], name) => s[i].target = 0
               /\ ~Overtaken(stack[i], name) => s[i] = stack[i]
    <3>1. i \in 1 .. Len(before) /\ before[i] = stack[i]
      OBVIOUS
    <3>2. /\ s[i] \in Item /\ Alike(before[i], s[i])
          /\ Overtaken(before[i], name) => s[i].target = 0
          /\ ~Overtaken(before[i], name) => s[i] = before[i]
      BY <3>1, OvertakenItem
    <3>3. QED
      BY <3>1, <3>2
  <2>2. QED
    BY <2>1
<1>2. k \in Nat
  OBVIOUS
<1>3. DOMAIN before = 1 .. k
  BY LenProperties
<1>4. s = [i \in 1 .. k |-> s[i]]
  BY <1>3 DEF Overtake
<1>5. s \in [1 .. k -> Item]
  BY <1>1, <1>4
<1>6. s \in Seq(Item) /\ Len(s) = k
  BY <1>2, <1>5, SeqDef, LenProperties
<1>7. QED
  BY <1>1, <1>6

Declares(name, cell) ==
  /\ UNCHANGED enclosing /\ name \in Names /\ cell # None
  /\ \A u \in DOMAIN enclosing : \A m \in Names :
       bindings'[u][m] = IF u = Here /\ m = name THEN cell ELSE bindings[u][m]
Begins(before, k) ==
  /\ k \in 1 .. Len(stack) /\ before \in Seq(Item) /\ Len(before) = k
  /\ \A i \in 1 .. k : before[i] = stack[i]

LEMMA OvertakenFound ==
  ASSUME BindingsInv, NEW name, NEW cell, Declares(name, cell),
         NEW k, NEW before, Begins(before, k),
         NEW s, s = Overtake(before, name),
         NEW i \in 1 .. k, NEW item, item = s[i], item.kind = "assign"
  PROVE  Found(item)'
<1> USE DEF Declares, Begins
<1>1. /\ Alike(stack[i], s[i])
      /\ Overtaken(stack[i], name) => s[i].target = 0
      /\ ~Overtaken(stack[i], name) => s[i] = stack[i]
  BY OvertakenStack
<1>2. i \in DOMAIN stack /\ Here \in DOMAIN enclosing
  BY StackFacts, InvType DEF BindingsConform
<1>3. CASE Overtaken(stack[i], name)
  <2>1. item.target = 0 /\ item.scope = Here /\ item.name = name
    BY <1>1, <1>3 DEF Overtaken, Alike
  <2>2. bindings'[Here][name] # None
    BY <1>2
  <2>3. QED
    BY <2>1, <2>2 DEF Found
<1>4. CASE ~Overtaken(stack[i], name)
  <2>1. item = stack[i]
    BY <1>1, <1>4
  <2>2. stack[i].scope # Here \/ stack[i].name # name
    BY <1>4, <2>1 DEF Overtaken
  <2>3. \A u \in DOMAIN enclosing : \A m \in Names :
          u # Here \/ m # name => bindings'[u][m] = bindings[u][m]
    OBVIOUS
  <2>4. Undisturbed(stack[i])
    BY <1>2, <2>1, <2>2, <2>3, Elsewhere
  <2>5. item.scope \in enclosing[item.scope] /\ Found(item) /\ Undisturbed(item)
    BY <1>2, <2>1, <2>4, Environments, InvType
    DEF BindingsConform, BindingsInv, StackInv
  <2>6. QED
    BY <2>5, StayingFound
<1>5. QED
  BY <1>3, <1>4

-----------------------------------------------------------------------------
(* LexicalCells: the cells and promises of a state.                        *)
CellsAt ==
  [p \in Scopes \X Names |->
     IF p[1] \in DOMAIN bindings THEN bindings[p[1]][p[2]] ELSE None]
PromisesOf(items) == [i \in DOMAIN items |-> Promised(items[i])]
PromisesMade == {Promised(item) : item \in Item}

LEMMA PromisesType ==
  ASSUME NEW items \in Seq(Item)
  PROVE  /\ PromisesOf(items) \in Seq(PromisesMade)
         /\ Len(PromisesOf(items)) = Len(items)
         /\ DOMAIN PromisesOf(items) = 1 .. Len(items)
         /\ \A i \in 1 .. Len(items) : PromisesOf(items)[i] = Promised(items[i])
<1>1. /\ Len(items) \in Nat /\ DOMAIN items = 1 .. Len(items)
      /\ \A i \in 1 .. Len(items) : items[i] \in Item
  BY LenProperties, ElementOfSeq
<1>2. PICK n \in Nat : n = Len(items)
  BY <1>1
<1>3. PICK p : p = PromisesOf(items)
  OBVIOUS
<1>4. p \in [1 .. n -> PromisesMade] /\ \A i \in 1 .. n : p[i] = Promised(items[i])
  BY <1>1, <1>2, <1>3 DEF PromisesOf, PromisesMade
<1>5. p \in Seq(PromisesMade) /\ Len(p) = n /\ DOMAIN p = 1 .. n
  BY <1>2, <1>4, SeqDef, LenProperties
<1>6. QED
  BY <1>2, <1>3, <1>4, <1>5

LEMMA PromisesPush ==
  ASSUME NEW items \in Seq(Item), NEW top \in Item
  PROVE  PromisesOf(Append(items, top)) = Append(PromisesOf(items), Promised(top))
<1>1. PICK n \in Nat : n = Len(items)
  BY LenProperties
<1>2. PICK s : s = Append(items, top)
  OBVIOUS
<1>3. /\ s \in Seq(Item) /\ Len(s) = n + 1 /\ s[n + 1] = top
      /\ \A i \in 1 .. n : s[i] = items[i]
  BY <1>1, <1>2, PushType
<1>4. PICK p : p = PromisesOf(items)
  OBVIOUS
<1>5. p \in Seq(PromisesMade) /\ Len(p) = n /\ \A i \in 1 .. n : p[i] = Promised(items[i])
  BY <1>1, <1>4, PromisesType
<1>6. PICK q : q = Append(p, Promised(top))
  OBVIOUS
<1>7. /\ q \in Seq(PromisesMade) /\ Len(q) = n + 1 /\ q[n + 1] = Promised(top)
      /\ \A i \in 1 .. n : q[i] = p[i]
  <2>1. Promised(top) \in PromisesMade
    BY DEF PromisesMade
  <2>2. QED
    BY <2>1, <1>5, <1>6, PushType
<1>8. PICK r : r = PromisesOf(s)
  OBVIOUS
<1>9. /\ r \in Seq(PromisesMade) /\ Len(r) = n + 1
      /\ \A i \in 1 .. n + 1 : r[i] = Promised(s[i])
  BY <1>3, <1>8, PromisesType
<1>10. \A i \in 1 .. n + 1 : r[i] = q[i]
  <2>1. 1 .. n + 1 = 1 .. n \cup {n + 1}
    BY <1>1
  <2>2. QED
    BY <2>1, <1>3, <1>5, <1>7, <1>9
<1>11. r = q
  BY <1>7, <1>9, <1>10, SeqEqual
<1>12. QED
  BY <1>2, <1>4, <1>6, <1>8, <1>11

LEMMA PromisesSub ==
  ASSUME NEW items \in Seq(Item), NEW s \in Seq(Item), NEW k \in 0 .. Len(items),
         Len(s) = k, \A i \in 1 .. k : s[i] = items[i]
  PROVE  PromisesOf(s) = SubSeq(PromisesOf(items), 1, k)
<1>1. PICK n \in Nat : n = Len(items) /\ k \in 0 .. n
  BY LenProperties
<1>2. PICK p : p = PromisesOf(items)
  OBVIOUS
<1>3. p \in Seq(PromisesMade) /\ Len(p) = n /\ \A i \in 1 .. n : p[i] = Promised(items[i])
  BY <1>1, <1>2, PromisesType
<1>4. PICK r : r = PromisesOf(s)
  OBVIOUS
<1>5. r \in Seq(PromisesMade) /\ Len(r) = k /\ \A i \in 1 .. k : r[i] = Promised(s[i])
  BY <1>4, PromisesType
<1>6. PICK q : q = SubSeq(p, 1, k)
  OBVIOUS
<1>7. q \in Seq(PromisesMade) /\ Len(q) = k /\ \A i \in 1 .. k : q[i] = p[i]
  <2>1. \A i \in 1 .. k : p[i] \in PromisesMade
    <3>1. 1 .. k \subseteq 1 .. n
      BY <1>1
    <3>2. QED
      BY <3>1, <1>3, ElementOfSeq
  <2>2. /\ q \in Seq(PromisesMade)
        /\ Len(q) = IF 1 <= k THEN k - 1 + 1 ELSE 0
        /\ \A i \in 1 .. (k - 1 + 1) : q[i] = p[1 + i - 1]
    BY <2>1, <1>1, <1>6, SubSeqProperties
  <2>3. /\ k - 1 + 1 = k /\ (IF 1 <= k THEN k - 1 + 1 ELSE 0) = k
        /\ \A i \in 1 .. k : 1 + i - 1 = i
    BY <1>1
  <2>4. QED
    BY <2>2, <2>3
<1>8. \A i \in 1 .. k : r[i] = q[i]
  <2>1. 1 .. k \subseteq 1 .. n
    BY <1>1
  <2>2. QED
    BY <2>1, <1>3, <1>5, <1>7
<1>9. r = q
  BY <1>5, <1>7, <1>8, SeqEqual
<1>10. QED
  BY <1>2, <1>4, <1>6, <1>9

CellsFit ==
  /\ \A s \in DOMAIN enclosing : \A n \in Names :
       CellsAt[<<s, n>>] = bindings[s][n]
  /\ \A s \in Scopes \ DOMAIN enclosing : \A n \in Names :
       CellsAt[<<s, n>>] = None
  /\ CellsAt = [p \in Scopes \X Names |-> CellsAt[p]]
  /\ DOMAIN enclosing \subseteq Scopes

LEMMA CellsOfInv == EnvInv => CellsFit
<1> SUFFICES ASSUME EnvInv PROVE CellsFit
  OBVIOUS
<1>1. PICK l \in Nat : l = Len(enclosing) /\ l \in 1 .. MaxScopes
  BY Numbers DEF EnvInv, Scopes
<1>2. /\ DOMAIN enclosing = 1 .. l /\ DOMAIN bindings = 1 .. l
      /\ 1 .. l \subseteq Scopes
  BY <1>1, LenProperties, Numbers DEF EnvInv, Scopes
<1>3. \A s \in Scopes : \A n \in Names : <<s, n>> \in Scopes \X Names
  OBVIOUS
<1>4. QED
  BY <1>1, <1>2, <1>3 DEF CellsAt, CellsFit

LEMMA CellsPut ==
  ASSUME EnvInv, EnvInv', UNCHANGED enclosing,
         NEW s \in DOMAIN enclosing, NEW n \in Names, NEW cell,
         \A u \in DOMAIN enclosing : \A m \in Names :
           bindings'[u][m] = IF u = s /\ m = n THEN cell ELSE bindings[u][m]
  PROVE  /\ <<s, n>> \in Scopes \X Names
         /\ CellsAt' = [CellsAt EXCEPT ![<<s, n>>] = cell]
         /\ CellsAt'[<<s, n>>] = cell
<1>1. PICK d : d = CellsAt'
  OBVIOUS
<1>2. PICK c : c = CellsAt
  OBVIOUS
<1>3. CellsFit /\ CellsFit'
  <2>1. (EnvInv => CellsFit)'
    BY CellsOfInv, PTL
  <2>2. QED
    BY <2>1, CellsOfInv
<1>4. /\ \A u \in DOMAIN enclosing : \A m \in Names : c[<<u, m>>] = bindings[u][m]
      /\ \A u \in Scopes \ DOMAIN enclosing : \A m \in Names : c[<<u, m>>] = None
  BY <1>2, <1>3 DEF CellsFit
<1>5. /\ \A u \in DOMAIN enclosing : \A m \in Names : d[<<u, m>>] = bindings'[u][m]
      /\ \A u \in Scopes \ DOMAIN enclosing : \A m \in Names : d[<<u, m>>] = None
  BY <1>1, <1>3 DEF CellsFit
<1>6. /\ c = [p \in Scopes \X Names |-> c[p]]
      /\ d = [p \in Scopes \X Names |-> d[p]]
  BY <1>1, <1>2, <1>3 DEF CellsFit
<1>7. <<s, n>> \in Scopes \X Names
  BY <1>3 DEF CellsFit
<1>8. \A p \in Scopes \X Names : d[p] = IF p = <<s, n>> THEN cell ELSE c[p]
  <2>1. ASSUME NEW u \in Scopes, NEW m \in Names
        PROVE  d[<<u, m>>] = IF u = s /\ m = n THEN cell ELSE c[<<u, m>>]
    <3>1. CASE u \in DOMAIN enclosing
      <4>1. d[<<u, m>>] = bindings'[u][m] /\ c[<<u, m>>] = bindings[u][m]
        BY <3>1, <1>4, <1>5
      <4>2. bindings'[u][m] = IF u = s /\ m = n THEN cell ELSE bindings[u][m]
        BY <3>1
      <4>3. QED
        BY <4>1, <4>2
    <3>2. CASE u \notin DOMAIN enclosing
      <4>1. d[<<u, m>>] = None /\ c[<<u, m>>] = None /\ u # s
        BY <3>2, <1>4, <1>5
      <4>2. QED
        BY <4>1
    <3>3. QED
      BY <3>1, <3>2
  <2>2. QED
    BY <2>1
<1>9. d = [c EXCEPT ![<<s, n>>] = cell]
  BY <1>6, <1>7, <1>8
<1>10. QED
  BY <1>1, <1>2, <1>7, <1>8, <1>9

(* A new scope is a place where nothing was bound. *)
LEMMA CellsOpen ==
  ASSUME BindingsInv, EnvInv', NEW outer \in DOMAIN enclosing, NEW name \in Names,
         NEW value \in Good, NEW contract \in Contracts \cup {None},
         Conforms(contract, value), NextScope <= MaxScopes,
         OpenScope(outer, name, value, contract), UNCHANGED strayed
  PROVE  /\ <<NextScope, name>> \in Scopes \X Names
         /\ CellsAt[<<NextScope, name>>] = None
         /\ CellsAt'[<<NextScope, name>>] = Cell(value, contract)
         /\ CellsAt' = [CellsAt EXCEPT ![<<NextScope, name>>] = Cell(value, contract)]
<1>1. PICK d : d = CellsAt'
  OBVIOUS
<1>2. PICK c : c = CellsAt
  OBVIOUS
<1>3. CellsFit /\ CellsFit'
  <2>1. (EnvInv => CellsFit)'
    BY CellsOfInv, PTL
  <2>2. QED
    BY <2>1, CellsOfInv DEF BindingsInv
<1>4. PICK new : new = NextScope
  OBVIOUS
<1>5. /\ new \in DOMAIN enclosing' /\ new \notin DOMAIN enclosing
      /\ DOMAIN enclosing' = DOMAIN enclosing \cup {new}
      /\ \A s \in DOMAIN enclosing : bindings'[s] = bindings[s]
      /\ bindings'[new] = [Empty EXCEPT ![name] = Cell(value, contract)]
  <2>1. /\ NextScope \in DOMAIN enclosing' /\ NextScope \notin DOMAIN enclosing
        /\ DOMAIN enclosing' = DOMAIN enclosing \cup {NextScope}
        /\ \A s \in DOMAIN enclosing : /\ enclosing'[s] = enclosing[s]
                                       /\ bindings'[s] = bindings[s]
        /\ bindings'[NextScope] = [Empty EXCEPT ![name] = Cell(value, contract)]
    <3>1. NextScope \in DOMAIN enclosing'
      BY OpenEnv
    <3>2. NextScope \notin DOMAIN enclosing
      BY OpenEnv
    <3>3. DOMAIN enclosing' = DOMAIN enclosing \cup {NextScope}
      BY OpenEnv
    <3>4. \A s \in DOMAIN enclosing : /\ enclosing'[s] = enclosing[s]
                                      /\ bindings'[s] = bindings[s]
      BY OpenEnv
    <3>5. bindings'[NextScope] = [Empty EXCEPT ![name] = Cell(value, contract)]
      BY OpenEnv
    <3>6. QED
      BY <3>1, <3>2, <3>3, <3>4, <3>5
  <2>2. QED
    BY <2>1, <1>4
<1>6. PICK cell : cell = Cell(value, contract)
  OBVIOUS
<1>7. \A m \in Names : bindings'[new][m] = IF m = name THEN cell ELSE None
  BY <1>5, <1>6 DEF Empty
<1>8. /\ \A u \in DOMAIN enclosing : \A m \in Names : c[<<u, m>>] = bindings[u][m]
      /\ \A u \in Scopes \ DOMAIN enclosing : \A m \in Names : c[<<u, m>>] = None
  BY <1>2, <1>3 DEF CellsFit
<1>9. /\ \A u \in DOMAIN enclosing' : \A m \in Names : d[<<u, m>>] = bindings'[u][m]
      /\ \A u \in Scopes \ DOMAIN enclosing' : \A m \in Names : d[<<u, m>>] = None
      /\ DOMAIN enclosing' \subseteq Scopes
  BY <1>1, <1>3 DEF CellsFit
<1>10. /\ c = [p \in Scopes \X Names |-> c[p]]
       /\ d = [p \in Scopes \X Names |-> d[p]]
  BY <1>1, <1>2, <1>3 DEF CellsFit
<1>11. new \in Scopes /\ <<new, name>> \in Scopes \X Names
  BY <1>5, <1>9
<1>12. c[<<new, name>>] = None
  BY <1>5, <1>8, <1>11
<1>13. \A p \in Scopes \X Names : d[p] = IF p = <<new, name>> THEN cell ELSE c[p]
  <2>1. ASSUME NEW u \in Scopes, NEW m \in Names
        PROVE  d[<<u, m>>] = IF u = new /\ m = name THEN cell ELSE c[<<u, m>>]
    <3>1. CASE u \in DOMAIN enclosing
      <4>1. d[<<u, m>>] = bindings'[u][m] /\ c[<<u, m>>] = bindings[u][m] /\ u # new
        BY <3>1, <1>5, <1>8, <1>9
      <4>2. bindings'[u][m] = bindings[u][m]
        BY <3>1, <1>5
      <4>3. QED
        BY <4>1, <4>2
    <3>2. CASE u = new
      <4>1. d[<<u, m>>] = (IF m = name THEN cell ELSE None) /\ c[<<u, m>>] = None
        BY <3>2, <1>5, <1>7, <1>8, <1>9, ZenonT(60)
      <4>2. QED
        BY <3>2, <4>1
    <3>3. CASE u \notin DOMAIN enclosing /\ u # new
      <4>1. d[<<u, m>>] = None /\ c[<<u, m>>] = None
        BY <3>3, <1>5, <1>8, <1>9
      <4>2. QED
        BY <3>3, <4>1
    <3>4. QED
      BY <3>1, <3>2, <3>3
  <2>2. QED
    BY <2>1
<1>14. d = [c EXCEPT ![<<new, name>>] = cell]
  BY <1>10, <1>11, <1>13
<1>15. QED
  BY <1>1, <1>2, <1>4, <1>6, <1>11, <1>12, <1>13, <1>14

-----------------------------------------------------------------------------
(* Every step keeps the promises.                                          *)

(* A kind of promise tells the kind of the item. *)
Voided(item) == item.kind = "assign" /\ item.target = 0

LEMMA PromisedKinds ==
  ASSUME NEW item \in Item
  PROVE  /\ item.kind \in Waits /\ ~Voided(item) =>
              /\ Promised(item).kind = item.kind
              /\ Promised(item).contract = item.contract
              /\ Promised(item) # Abstract!NoPromise
              /\ Promised(item) # Abstract!Void
         /\ item.kind \notin Waits => Promised(item) = Abstract!NoPromise
         /\ Voided(item) => Promised(item) = Abstract!Void
         /\ Promised(item).kind = "assign" => item.kind = "assign" /\ item.target # 0
<1>1. item.kind \notin Waits => Promised(item) = Abstract!NoPromise
  BY DEF Promised, Abstract!NoPromise
<1>2. Voided(item) => Promised(item) = Abstract!Void
  BY DEF Promised, Abstract!Void, Voided, Waits
<1>3. item.kind \in Waits /\ ~Voided(item) =>
        Promised(item).kind = item.kind /\ Promised(item).contract = item.contract
  BY DEF Promised, Voided
<1>4. /\ Abstract!NoPromise.kind = "none" /\ Abstract!Void.kind = "void"
      /\ "none" \notin Waits /\ "void" \notin Waits /\ "assign" \in Waits
      /\ "none" # "assign" /\ "void" # "assign"
  BY DEF Abstract!NoPromise, Abstract!Void, Waits
<1>5. QED
  BY <1>1, <1>2, <1>3, <1>4 DEF Voided

(* What a declaration in the innermost scope makes of the promises.        *)
LEMMA OvertakenPromises ==
  ASSUME BindingsInv, NEW k \in 1 .. Len(stack), NEW before \in Seq(Item),
         Len(before) = k, \A i \in 1 .. k : before[i] = stack[i],
         NEW name \in Names, NEW s, s = Overtake(before, name)
  PROVE  Abstract!Overtakes(<<Here, name>>, PromisesOf(before), PromisesOf(s))
<1>1. /\ s \in Seq(Item) /\ Len(s) = k
      /\ \A i \in 1 .. k : /\ Alike(stack[i], s[i])
                           /\ Overtaken(stack[i], name) => s[i].target = 0
                           /\ ~Overtaken(stack[i], name) => s[i] = stack[i]
  BY OvertakenStack
<1>2. PICK p : p = PromisesOf(before)
  OBVIOUS
<1>3. PICK q : q = PromisesOf(s)
  OBVIOUS
<1>4. DOMAIN p = 1 .. k /\ \A i \in 1 .. k : p[i] = Promised(stack[i])
  BY <1>2, PromisesType
<1>5. DOMAIN q = 1 .. k /\ \A i \in 1 .. k : q[i] = Promised(s[i])
  BY <1>1, <1>3, PromisesType
<1>6. PICK place : place = <<Here, name>>
  OBVIOUS
<1>7. ASSUME NEW i \in 1 .. k
      PROVE  \/ q[i] = p[i] /\ (p[i].kind = "assign" => p[i].at # place)
             \/ q[i] = Abstract!Void /\ p[i].kind = "assign" /\ Hiding(place, p[i].at)
  <2>1. i \in DOMAIN stack /\ stack[i] \in Item /\ s[i] \in Item
    BY <1>1, StackFacts, InvType, ElementOfSeq DEF BindingsConform
  <2>2. p[i] = Promised(stack[i]) /\ q[i] = Promised(s[i])
    BY <1>4, <1>5
  <2>3. CASE Overtaken(stack[i], name)
    <3>1. /\ stack[i].kind = "assign" /\ stack[i].name = name
          /\ s[i].kind = "assign" /\ s[i].target = 0
      BY <1>1, <2>3 DEF Overtaken, Alike
    <3>2. q[i] = Abstract!Void
      BY <2>1, <2>2, <3>1, PromisedKinds DEF Voided
    <3>3. CASE stack[i].target = 0
      <4>1. p[i] = Abstract!Void
        BY <2>1, <2>2, <3>1, <3>3, PromisedKinds DEF Voided
      <4>2. p[i].kind # "assign"
        BY <4>1 DEF Abstract!Void
      <4>3. QED
        BY <3>2, <4>1, <4>2
    <3>4. CASE stack[i].target # 0
      <4>1. p[i].kind = "assign"
        BY <2>1, <2>2, <3>1, <3>4, PromisedKinds DEF Voided, Waits
      <4>2. p[i].at = <<stack[i].target, stack[i].name>> /\ stack[i].target <= Here
        BY <2>1, <2>2, <3>1, <3>4, HeldPlaces
      <4>3. Hiding(place, p[i].at)
        BY <1>6, <3>1, <4>2 DEF Hiding
      <4>4. QED
        BY <3>2, <4>1, <4>3
    <3>5. QED
      BY <3>3, <3>4
  <2>4. CASE ~Overtaken(stack[i], name)
    <3>1. q[i] = p[i]
      BY <1>1, <2>2, <2>4
    <3>2. ASSUME p[i].kind = "assign" PROVE p[i].at # place
      <4>1. stack[i].kind = "assign" /\ stack[i].target # 0
        BY <2>1, <2>2, <3>2, PromisedKinds
      <4>2. /\ p[i].at = <<stack[i].target, stack[i].name>>
            /\ stack[i].target = Here => stack[i].scope = Here
        BY <2>1, <2>2, <4>1, HeldPlaces
      <4>3. stack[i].target # Here \/ stack[i].name # name
        BY <2>4, <4>1, <4>2 DEF Overtaken
      <4>4. QED
        BY <1>6, <4>2, <4>3
    <3>3. QED
      BY <3>1, <3>2
  <2>5. QED
    BY <2>3, <2>4
<1>8. Abstract!Overtakes(place, p, q)
  BY <1>4, <1>5, <1>7 DEF Abstract!Overtakes
<1>9. QED
  BY <1>2, <1>3, <1>6, <1>8

LEMMA MakeStep ==
  ASSUME BindingsInv, UNCHANGED <<enclosing, bindings>>,
         NEW top \in Item, Push(top), top.kind \in Waits, top.scope = Here,
         top.name \in Names,
         top.kind = "assign" => top.target # 0 /\ Settled(top)
  PROVE  Abstract!Make
<1>1. PICK new : new = Promised(top)
  OBVIOUS
<1>2. stack \in Seq(Item) /\ Here \in DOMAIN enclosing
  BY StackFacts, InvType DEF BindingsConform
<1>3. CellsFit
  BY CellsOfInv DEF BindingsInv
<1>4. PICK place : place = new.at
  OBVIOUS
<1>5. new \in Abstract!Promise
      /\ (new.kind = "assign" =>
           CellsAt[place] # None /\ new.contract = CellsAt[place].contract)
  <2>1. CASE top.kind = "assign"
    <3>1. /\ top.target \in enclosing[Here] /\ bindings[top.target][top.name] # None
          /\ bindings[top.target][top.name].contract = top.contract
          /\ top.target # 0
      BY <2>1 DEF Settled
    <3>2. top.target \in DOMAIN enclosing /\ top.target \in Scopes
      BY <1>2, <3>1, Environments, InvType DEF BindingsConform
    <3>3. /\ new.kind = "assign" /\ new.contract = top.contract
          /\ place = <<top.target, top.name>>
      BY <1>1, <1>4, <2>1, <3>1 DEF Promised, Waits
    <3>4. CellsAt[place] = bindings[top.target][top.name]
      BY <1>3, <3>2, <3>3 DEF CellsFit
    <3>5. new \in Abstract!Promise
      BY <1>1, <2>1, <3>1, <3>2
      DEF Promised, Waits, Abstract!Promise, Abstract!Kinds, Item
    <3>6. QED
      BY <3>1, <3>3, <3>4, <3>5
  <2>2. CASE top.kind # "assign"
    <3>1. top.kind \in {"let", "infer"}
      BY <2>2 DEF Waits
    <3>2. new.kind # "assign"
      BY <1>1, <2>2, <3>1 DEF Promised, Waits
    <3>3. Here \in Scopes
      BY <1>2, <1>3 DEF CellsFit
    <3>4. new \in Abstract!Promise
      BY <1>1, <2>2, <3>1, <3>3
      DEF Promised, Waits, Abstract!Promise, Abstract!Kinds, Item
    <3>5. QED
      BY <3>2, <3>4
  <2>3. QED
    BY <2>1, <2>2
<1>6. PromisesOf(stack)' = Append(PromisesOf(stack), new)
  BY <1>1, <1>2, PromisesPush DEF Push
<1>7. UNCHANGED CellsAt
  BY DEF CellsAt
<1>8. QED
  BY <1>4, <1>5, <1>6, <1>7 DEF Abstract!Make, Abstract!Bound, CellsAt, PromisesOf

(* The items a value leaves when it arrives, and their promises.           *)
LEMMA UnderFacts ==
  ASSUME BindingsInv, Top.kind # "program"
  PROVE  /\ Len(stack) - 1 \in 1 .. Len(stack)
         /\ Under \in Seq(Item) /\ Len(Under) = Len(stack) - 1
         /\ \A i \in 1 .. Len(stack) - 1 : Under[i] = stack[i]
         /\ PromisesOf(stack) # <<>>
         /\ PromisesOf(Under) = Abstract!Front(PromisesOf(stack))
         /\ Promised(Top) = Abstract!Last(PromisesOf(stack))
<1>1. /\ stack \in Seq(Item) /\ Top = stack[Len(stack)] /\ Len(stack) \in Nat
      /\ stack # <<>>
  BY StackFacts, InvType DEF BindingsConform, BindingsInv, StackInv
<1>2. PICK l \in Nat : l + 1 = Len(stack) /\ l = Len(stack) - 1 /\ l \in 1 .. Len(stack)
  <2>1. PICK m \in Nat : m = Len(stack) /\ m > 1
    BY StackFacts, StackOrder, InvType DEF BindingsConform
  <2>2. m - 1 \in Nat /\ m - 1 + 1 = m /\ m - 1 \in 1 .. m
    BY <2>1
  <2>3. QED
    BY <2>1, <2>2
<1>3. /\ Under \in Seq(Item) /\ Len(Under) = l
      /\ \A i \in 1 .. l : Under[i] = stack[i]
  BY <1>1, <1>2, PopType DEF Under
<1>4. PICK p : p = PromisesOf(stack)
  OBVIOUS
<1>5. /\ p \in Seq(PromisesMade) /\ Len(p) = l + 1
      /\ p[l + 1] = Promised(Top)
  <2>1. l + 1 \in 1 .. Len(stack)
    BY <1>2
  <2>2. QED
    BY <2>1, <1>1, <1>2, <1>4, PromisesType
<1>6. p # <<>> /\ Len(p) - 1 = l
  <2>1. l + 1 # 0 /\ l + 1 - 1 = l
    OBVIOUS
  <2>2. QED
    BY <2>1, <1>5, EmptySeq
<1>7. PromisesOf(Under) = SubSeq(p, 1, l)
  <2>1. l \in 0 .. Len(stack)
    BY <1>2
  <2>2. QED
    BY <2>1, <1>1, <1>3, <1>4, PromisesSub
<1>8. /\ PromisesOf(Under) = Abstract!Front(p)
      /\ Promised(Top) = Abstract!Last(p)
  BY <1>5, <1>6, <1>7 DEF Abstract!Front, Abstract!Last
<1>9. QED
  BY <1>2, <1>3, <1>4, <1>6, <1>8

(* A value that arrived is in the promised cell, under its contract. *)
LEMMA KeepStep ==
  ASSUME BindingsInv, EnvInv', NEW kind \in Waits, NEW value, Arrived(kind, value),
         ~Voided(Top), NEW s \in DOMAIN enclosing, NEW n \in Names, NEW cell,
         Promised(Top).at = <<s, n>>, cell # None,
         kind # "assign" => s = Here /\ n = Top.name,
         Conforms(cell.contract, cell.value),
         kind # "infer" => cell.contract = Top.contract,
         \A u \in DOMAIN enclosing : \A m \in Names :
           bindings'[u][m] = IF u = s /\ m = n THEN cell ELSE bindings[u][m]
  PROVE  Abstract!Keep
<1>1. Top \in Item /\ Top.kind = kind /\ Top.kind # "program" /\ UNCHANGED enclosing
  BY StackFacts, InvType DEF BindingsConform, Arrived, Waits
<1>2. PICK made : made = Promised(Top)
  OBVIOUS
<1>3. /\ made.at = <<s, n>> /\ made.kind = kind /\ made.contract = Top.contract
      /\ made \notin {Abstract!NoPromise, Abstract!Void}
  BY <1>1, <1>2, PromisedKinds
<1>4. /\ CellsAt' = [CellsAt EXCEPT ![<<s, n>>] = cell]
      /\ CellsAt'[<<s, n>>] = cell
  BY <1>1, CellsPut DEF BindingsInv
<1>5. /\ CellsAt' = [CellsAt EXCEPT ![made.at] = CellsAt'[made.at]]
      /\ CellsAt'[made.at] # None
      /\ Abstract!Honoured(CellsAt'[made.at])
      /\ made.kind # "infer" => CellsAt'[made.at].contract = made.contract
  <2>1. CellsAt'[made.at] = cell
    BY <1>3, <1>4
  <2>2. CellsAt' = [CellsAt EXCEPT ![made.at] = CellsAt'[made.at]]
    BY <1>3, <1>4, <2>1
  <2>3. Abstract!Honoured(cell)
    BY DEF Abstract!Honoured
  <2>4. QED
    BY <1>3, <2>1, <2>2, <2>3
<1>6. /\ PromisesOf(stack) # <<>>
      /\ PromisesOf(Under) = Abstract!Front(PromisesOf(stack))
      /\ made = Abstract!Last(PromisesOf(stack))
  BY <1>1, <1>2, UnderFacts
<1>7. PICK under : under = Under
  OBVIOUS
<1>8. IF made.kind = "assign" THEN PromisesOf(stack)' = PromisesOf(under)
      ELSE Abstract!Overtakes(made.at, PromisesOf(under), PromisesOf(stack)')
  <2>1. PICK items : items = stack'
    OBVIOUS
  <2>2. PromisesOf(stack)' = PromisesOf(items)
    BY <2>1
  <2>3. CASE kind = "assign"
    <3>1. items = under
      BY <1>7, <2>1, <2>3 DEF Arrived
    <3>2. QED
      BY <1>3, <2>2, <2>3, <3>1
  <2>4. CASE kind # "assign"
    <3>1. items = Overtake(under, Top.name)
      BY <1>7, <2>1, <2>4 DEF Arrived
    <3>2. PICK l \in 1 .. Len(stack) : /\ under \in Seq(Item) /\ Len(under) = l
                                       /\ \A i \in 1 .. l : under[i] = stack[i]
      BY <1>1, <1>7, UnderFacts
    <3>3. made.at = <<Here, Top.name>> /\ Top.name \in Names
      BY <1>3, <2>4
    <3>4. Abstract!Overtakes(<<Here, Top.name>>, PromisesOf(under), PromisesOf(items))
      BY <3>1, <3>2, <3>3, OvertakenPromises
    <3>5. QED
      BY <1>3, <2>2, <2>4, <3>3, <3>4
  <2>5. QED
    BY <2>3, <2>4
<1>9. IF made.kind = "assign"
      THEN PromisesOf(stack)' = Abstract!Front(PromisesOf(stack))
      ELSE Abstract!Overtakes(made.at, Abstract!Front(PromisesOf(stack)), PromisesOf(stack)')
  BY <1>6, <1>7, <1>8
<1>10. QED
  BY <1>3, <1>5, <1>6, <1>9 DEF Abstract!Keep, CellsAt, PromisesOf

(* A value whose assignment was overtaken is stored all the same. *)
Revalued(before, after, value) == after = [before EXCEPT !.value = value]

LEMMA StrayStep ==
  ASSUME BindingsInv, EnvInv', NEW value, Arrived("assign", value), Voided(Top),
         NEW s \in DOMAIN enclosing, NEW n \in Names, bindings[s][n] # None,
         NEW cell, Revalued(bindings[s][n], cell, value), cell.value = value,
         \A u \in DOMAIN enclosing : \A m \in Names :
           bindings'[u][m] = IF u = s /\ m = n THEN cell ELSE bindings[u][m]
  PROVE  Abstract!Stray
<1>1. Top \in Item /\ Top.kind # "program" /\ UNCHANGED enclosing /\ stack' = Under
  BY StackFacts, InvType DEF BindingsConform, Arrived
<1>2. /\ PromisesOf(stack) # <<>>
      /\ PromisesOf(Under) = Abstract!Front(PromisesOf(stack))
      /\ Abstract!Last(PromisesOf(stack)) = Abstract!Void
  BY <1>1, UnderFacts, PromisedKinds
<1>3. PromisesOf(stack)' = Abstract!Front(PromisesOf(stack))
  BY <1>1, <1>2
<1>4. CellsFit
  BY CellsOfInv DEF BindingsInv
<1>5. PICK place \in Scopes \X Names : place = <<s, n>>
  BY <1>4 DEF CellsFit
<1>6. /\ CellsAt' = [CellsAt EXCEPT ![place] = cell]
      /\ CellsAt'[place] = cell
  BY <1>1, <1>5, CellsPut DEF BindingsInv
<1>7. CellsAt[place] = bindings[s][n]
  BY <1>4, <1>5 DEF CellsFit
<1>8. CellsAt[place] # None /\ Revalued(CellsAt[place], cell, value)
  BY <1>7
<1>9. CellsAt' = [CellsAt EXCEPT ![place].value = CellsAt'[place].value]
  BY <1>6, <1>8 DEF Revalued
<1>10. QED
  BY <1>2, <1>3, <1>5, <1>8, <1>9 DEF Abstract!Stray, Abstract!Bound, CellsAt, PromisesOf

(* What a stack that keeps its items up to a place makes of the promises.  *)
LEMMA Nested ==
  ASSUME BindingsInv, NEW k \in 1 .. Len(stack), NEW items \in Seq(Item),
         Len(items) = k \/ (Len(items) = k + 1 /\ items[k + 1].kind \notin Waits),
         \A i \in 1 .. k : items[i] = stack[i]
  PROVE  \E kept \in 0 .. Len(PromisesOf(stack)) :
           \/ PromisesOf(items) = SubSeq(PromisesOf(stack), 1, kept)
           \/ PromisesOf(items) =
                Append(SubSeq(PromisesOf(stack), 1, kept), Abstract!NoPromise)
<1>1. PICK n \in Nat : n = Len(stack) /\ stack \in Seq(Item) /\ DOMAIN stack = 1 .. n
  BY StackFacts, InvType DEF BindingsConform
<1>2. PICK p : p = PromisesOf(stack)
  OBVIOUS
<1>3. Len(p) = n /\ k \in 0 .. n /\ k \in Nat
  BY <1>1, <1>2, PromisesType
<1>4. PICK outer : outer = SubSeq(stack, 1, k)
  OBVIOUS
<1>5. /\ outer \in Seq(Item) /\ Len(outer) = k
      /\ \A i \in 1 .. k : outer[i] = stack[i]
  BY <1>4, SubStack
<1>6. PromisesOf(outer) = SubSeq(p, 1, k)
  <2>1. k \in 0 .. Len(stack)
    BY <1>1, <1>3
  <2>2. QED
    BY <1>1, <1>2, <1>5, <2>1, PromisesSub
<1>7. CASE Len(items) = k
  <2>1. items = outer
    BY <1>5, <1>7, SeqEqual
  <2>2. QED
    BY <1>2, <1>3, <1>6, <2>1
<1>8. CASE Len(items) # k
  <2>1. Len(items) = k + 1 /\ items[k + 1].kind \notin Waits
    BY <1>8
  <2>2. 1 .. k + 1 = 1 .. k \cup {k + 1}
    BY <1>3
  <2>3. PICK top : top = items[k + 1] /\ top \in Item
    <3>1. k + 1 \in 1 .. Len(items)
      BY <2>1, <2>2
    <3>2. QED
      BY <3>1, ElementOfSeq
  <2>4. items = Append(outer, top)
    <3>1. PICK s : s = Append(outer, top)
      OBVIOUS
    <3>2. /\ s \in Seq(Item) /\ Len(s) = k + 1 /\ s[k + 1] = top
          /\ \A i \in 1 .. k : s[i] = outer[i]
      BY <1>5, <2>3, <3>1, PushType
    <3>3. \A i \in 1 .. k + 1 : s[i] = items[i]
      BY <1>5, <2>2, <2>3, <3>2
    <3>4. QED
      BY <2>1, <3>1, <3>2, <3>3, SeqEqual
  <2>5. PromisesOf(items) = Append(SubSeq(p, 1, k), Abstract!NoPromise)
    <3>1. Promised(top) = Abstract!NoPromise
      BY <2>1, <2>3, PromisedKinds
    <3>2. QED
      BY <1>5, <1>6, <2>3, <2>4, <3>1, PromisesPush
  <2>6. QED
    BY <1>2, <1>3, <2>5
<1>9. QED
  BY <1>7, <1>8

(* Steps that begin or end bodies only. *)
LEMMA BindSame ==
  ASSUME BindingsInv, UNCHANGED <<enclosing, bindings>>,
         NEW k \in 1 .. Len(stack), stack' \in Seq(Item),
         Len(stack') = k \/ (Len(stack') = k + 1 /\ stack'[k + 1].kind \notin Waits),
         \A i \in 1 .. k : stack'[i] = stack[i]
  PROVE  Abstract!Bind
<1>1. PICK items : items = stack'
  OBVIOUS
<1>2. \E kept \in 0 .. Len(PromisesOf(stack)) :
        \/ PromisesOf(items) = SubSeq(PromisesOf(stack), 1, kept)
        \/ PromisesOf(items) =
             Append(SubSeq(PromisesOf(stack), 1, kept), Abstract!NoPromise)
  BY <1>1, Nested
<1>3. PromisesOf(stack)' = PromisesOf(items)
  BY <1>1
<1>4. Abstract!Nests
  BY <1>2, <1>3 DEF Abstract!Nests, PromisesOf
<1>5. UNCHANGED CellsAt
  BY DEF CellsAt
<1>6. QED
  BY <1>4, <1>5 DEF Abstract!Bind, CellsAt

(* A step that opens a scope and puts a body in it on the stack. *)
LEMMA BindOpen ==
  ASSUME BindingsInv, EnvInv', NEW outer \in DOMAIN enclosing, NEW name \in Names,
         NEW value \in Good, NEW contract \in Contracts \cup {None},
         Conforms(contract, value), NextScope <= MaxScopes,
         OpenScope(outer, name, value, contract), UNCHANGED strayed,
         NEW k \in 1 .. Len(stack), stack' \in Seq(Item),
         Len(stack') = k + 1, stack'[k + 1].kind \notin Waits,
         \A i \in 1 .. k : stack'[i] = stack[i]
  PROVE  Abstract!Bind
<1>1. PICK new : new = NextScope
  OBVIOUS
<1>2. PICK cell : cell = Cell(value, contract)
  OBVIOUS
<1>3. /\ <<new, name>> \in Scopes \X Names
      /\ CellsAt[<<new, name>>] = None
      /\ CellsAt'[<<new, name>>] = cell
      /\ CellsAt' = [CellsAt EXCEPT ![<<new, name>>] = cell]
  BY <1>1, <1>2, CellsOpen
<1>4. cell # None /\ Conforms(cell.contract, cell.value)
  BY <1>2, CellType DEF Good
<1>5. PICK items : items = stack'
  OBVIOUS
<1>6. \E kept \in 0 .. Len(PromisesOf(stack)) :
        \/ PromisesOf(items) = SubSeq(PromisesOf(stack), 1, kept)
        \/ PromisesOf(items) =
             Append(SubSeq(PromisesOf(stack), 1, kept), Abstract!NoPromise)
  BY <1>5, Nested
<1>7. PromisesOf(stack)' = PromisesOf(items)
  BY <1>5
<1>8. Abstract!Nests
  BY <1>6, <1>7 DEF Abstract!Nests, PromisesOf
<1>9. PICK place \in Scopes \X Names : place = <<new, name>>
  BY <1>3
<1>10. /\ ~Abstract!Bound(place)
       /\ CellsAt' = [CellsAt EXCEPT ![place] = CellsAt'[place]]
       /\ CellsAt'[place] # None
       /\ Abstract!Honoured(CellsAt'[place])
  <2>1. Abstract!Honoured(cell)
    BY <1>4 DEF Abstract!Honoured
  <2>2. ~Abstract!Bound(place)
    BY <1>3, <1>9 DEF Abstract!Bound, CellsAt
  <2>3. QED
    BY <1>3, <1>4, <1>9, <2>1, <2>2
<1>11. QED
  BY <1>8, <1>10 DEF Abstract!Bind, CellsAt, PromisesOf

LEMMA BindPushed ==
  ASSUME BindingsInv, UNCHANGED <<enclosing, bindings>>,
         NEW top \in Item, Push(top), top.kind \notin Waits
  PROVE  Abstract!Bind
<1>1. PICK n \in Nat : n = Len(stack) /\ n \in 1 .. Len(stack) /\ stack \in Seq(Item)
  BY StackFacts, InvType DEF BindingsConform
<1>2. PICK s : s = stack'
  OBVIOUS
<1>3. /\ s \in Seq(Item) /\ Len(s) = n + 1 /\ s[n + 1] = top
      /\ \A i \in 1 .. n : s[i] = stack[i]
  BY <1>1, <1>2, PushType DEF Push
<1>4. /\ stack' \in Seq(Item) /\ Len(stack') = n + 1 /\ stack'[n + 1].kind \notin Waits
      /\ \A i \in 1 .. n : stack'[i] = stack[i]
  BY <1>2, <1>3
<1>5. QED
  BY <1>1, <1>4, BindSame

LEMMA BindCalled ==
  ASSUME BindingsInv, EnvInv', NEW outer \in DOMAIN enclosing, NEW name \in Names,
         NEW value \in Good, NEW contract \in Contracts \cup {None},
         Conforms(contract, value), RoomForScope,
         OpenScope(outer, name, value, contract), UNCHANGED strayed,
         NEW kind \in {"call", "iteration"}, Push(Body(kind, NextScope))
  PROVE  Abstract!Bind
<1>1. PICK n \in Nat : n = Len(stack) /\ n \in 1 .. Len(stack) /\ stack \in Seq(Item)
  BY StackFacts, InvType DEF BindingsConform
<1>2. NextScope <= MaxScopes /\ NextScope \in Nat \ {0}
  <2>1. Cardinality(Tries(stack)) \in Nat /\ NextScope \in Nat \ {0}
    BY TriesFacts, Environments, InvType DEF BindingsConform, NextScope
  <2>2. NextScope + Cardinality(Tries(stack)) <= MaxScopes
    BY DEF RoomForScope, Tries
  <2>3. QED
    BY <2>1, <2>2, Numbers
<1>3. PICK top : top = Body(kind, NextScope)
  OBVIOUS
<1>4. top \in Item /\ top.kind \notin Waits
  <2>1. NextScope \in Scopes
    BY <1>2, Numbers DEF Scopes
  <2>2. QED
    BY <1>3, <2>1 DEF Body, Item, Waits
<1>5. PICK s : s = stack'
  OBVIOUS
<1>6. /\ s \in Seq(Item) /\ Len(s) = n + 1 /\ s[n + 1] = top
      /\ \A i \in 1 .. n : s[i] = stack[i]
  BY <1>1, <1>3, <1>4, <1>5, PushType DEF Push
<1>7. /\ stack' \in Seq(Item) /\ Len(stack') = n + 1 /\ stack'[n + 1].kind \notin Waits
      /\ \A i \in 1 .. n : stack'[i] = stack[i]
  BY <1>4, <1>5, <1>6
<1>8. QED
  BY <1>1, <1>2, <1>7, BindOpen

LEMMA BindFailed ==
  ASSUME BindingsInv, EnvInv', NEW id \in Ids, Unwind(id), UNCHANGED strayed
  PROVE  Abstract!Bind
<1>1. CASE Handlers(id) = {}
  <2>1. UNCHANGED <<enclosing, bindings>> /\ stack' = <<Head(stack)>>
    BY <1>1 DEF Unwind
  <2>2. /\ stack[1] \in Item /\ stack # <<>> /\ stack \in Seq(Item)
        /\ 1 \in 1 .. Len(stack)
    BY StackFacts, InvType DEF BindingsConform, BindingsInv, StackInv
  <2>3. PICK s : s = stack'
    OBVIOUS
  <2>4. s = <<stack[1]>>
    BY <2>1, <2>2, <2>3
  <2>5. s \in Seq(Item) /\ Len(s) = 1 /\ \A i \in 1 .. 1 : s[i] = stack[i]
    BY <2>2, <2>4
  <2>6. stack' \in Seq(Item) /\ Len(stack') = 1 /\ \A i \in 1 .. 1 : stack'[i] = stack[i]
    BY <2>3, <2>5
  <2>7. QED
    BY <2>1, <2>2, <2>6, BindSame
<1>2. CASE Handlers(id) # {}
  <2>1. PICK h \in DOMAIN stack :
           /\ h = Max(Handlers(id)) /\ h \in Tries(stack)
           /\ h - 1 \in 1 .. Len(stack) /\ h - 1 + 1 = h /\ h \notin 1 .. h - 1
           /\ h <= Len(stack)
           /\ stack[h].scope \in DOMAIN enclosing /\ stack[h].name \in Names
           /\ stack[h].contract = Nominal(id)
           /\ Nominal(id) \in Contracts /\ Instance(id) \in Good
           /\ Conforms(Nominal(id), Instance(id))
    BY <1>2, HandlerFacts
  <2>2. PICK k \in 1 .. Len(stack) : k = h - 1 /\ k + 1 = h
    BY <2>1
  <2>3. PICK top : top = Body("catch", NextScope)
    OBVIOUS
  <2>4. /\ OpenScope(stack[h].scope, stack[h].name, Instance(id), Nominal(id))
        /\ stack' = Append(SubSeq(stack, 1, k), top)
    BY <1>2, <2>1, <2>2, <2>3 DEF Unwind
  <2>5. NextScope <= MaxScopes /\ NextScope \in Nat \ {0}
    <3>1. PICK l \in Nat : l = Len(enclosing) /\ NextScope = l + 1
      BY Environments, InvType DEF BindingsConform, NextScope
    <3>2. PICK c \in Nat : c = Cardinality(Tries(stack)) /\ l + c <= MaxScopes
      BY <3>1, TriesFacts DEF BindingsInv, RoomInv
    <3>3. /\ {} \in SUBSET Tries(stack) /\ h \in Tries(stack) \ {}
          /\ Cardinality({}) = 0
      BY <2>1, FS_EmptySet
    <3>4. Cardinality({}) + 1 <= Cardinality(Tries(stack))
      BY <3>3, TriesFacts
    <3>5. c >= 1
      BY <3>2, <3>3, <3>4
    <3>6. QED
      BY <3>1, <3>2, <3>5, Numbers
  <2>6. top \in Item /\ top.kind \notin Waits
    <3>1. NextScope \in Scopes
      BY <2>5, Numbers DEF Scopes
    <3>2. QED
      BY <2>3, <3>1 DEF Body, Item, Waits
  <2>7. PICK s : s = stack'
    OBVIOUS
  <2>8. /\ s \in Seq(Item) /\ Len(s) = k + 1 /\ s[k + 1] = top
        /\ \A i \in 1 .. k : s[i] = stack[i]
    <3>1. PICK kept : kept = SubSeq(stack, 1, k)
      OBVIOUS
    <3>2. kept \in Seq(Item) /\ Len(kept) = k /\ \A i \in 1 .. k : kept[i] = stack[i]
      BY <3>1, SubStack
    <3>3. QED
      BY <3>1, <3>2, <2>4, <2>6, <2>7, PushType
  <2>9. /\ stack' \in Seq(Item) /\ Len(stack') = k + 1 /\ stack'[k + 1].kind \notin Waits
        /\ \A i \in 1 .. k : stack'[i] = stack[i]
    BY <2>6, <2>7, <2>8
  <2>10. QED
    BY <2>1, <2>4, <2>5, <2>9, BindOpen
<1>3. QED
  BY <1>1, <1>2

-----------------------------------------------------------------------------
(* The actions: each keeps the invariant, and is a step of LexicalCells.   *)
LEMMA BeginLetStep ==
  ASSUME BindingsInv, NEW name \in Names, NEW annotation \in Annotations,
         BeginLet(name, annotation)
  PROVE  BindingsInv' /\ Abstract!Make
<1>1. PICK contract \in Meaning(annotation, Here) :
        Push([Body("let", Here) EXCEPT !.name = name, !.contract = contract])
  BY DEF BeginLet
<1>2. contract \in Contracts \cup {None}
  <2>1. annotation \in Names \cup Primitives \cup {None}
    BY BindingsAssumption
  <2>2. QED
    BY <2>1, MeaningType, StackFacts, InvType DEF BindingsConform
<1>3. PICK top : top = [Body("let", Here) EXCEPT !.name = name, !.contract = contract]
  OBVIOUS
<1>4. /\ top \in Item /\ top.kind = "let" /\ top.scope = Here /\ top.name = name
  BY <1>2, <1>3, StackFacts, InvType DEF BindingsConform, Body, Item
<1>5. EnvInv' /\ StackInv' /\ RoomInv'
  BY <1>1, <1>3, <1>4, PushSame DEF BeginLet
<1>6. RestInv'
  BY RestStep DEF BeginLet, BindingsInv, RestInv
<1>7. Abstract!Make
  BY <1>1, <1>3, <1>4, MakeStep DEF BeginLet, Waits
<1>8. QED
  BY <1>5, <1>6, <1>7 DEF BindingsInv

LEMMA BeginInferredStep ==
  ASSUME BindingsInv, NEW name \in Names, BeginInferred(name)
  PROVE  BindingsInv' /\ Abstract!Make
<1>1. PICK top : top = [Body("infer", Here) EXCEPT !.name = name]
  OBVIOUS
<1>2. top \in Item /\ top.kind = "infer" /\ top.scope = Here /\ top.name = name
  BY <1>1, StackFacts, InvType DEF BindingsConform, Body, Item
<1>3. EnvInv' /\ StackInv' /\ RoomInv'
  BY <1>1, <1>2, PushSame DEF BeginInferred
<1>4. RestInv'
  BY RestStep DEF BeginInferred, BindingsInv, RestInv
<1>5. Abstract!Make
  BY <1>1, <1>2, MakeStep DEF BeginInferred, Waits
<1>6. QED
  BY <1>3, <1>4, <1>5 DEF BindingsInv

LEMMA BeginAssignStep ==
  ASSUME BindingsInv, NEW name \in Names, BeginAssign(name)
  PROVE  BindingsInv' /\ Abstract!Make
<1>1. PICK scope : scope = Nearest(Here, name)
  OBVIOUS
<1>2. PICK top : top = [Body("assign", Here) EXCEPT
                          !.name = name, !.target = scope,
                          !.contract = bindings[scope][name].contract]
  OBVIOUS
<1>3. scope # 0 /\ Push(top)
  BY <1>1, <1>2 DEF BeginAssign
<1>4. /\ scope \in enclosing[Here] /\ bindings[scope][name] # None
      /\ \A u \in enclosing[Here] : bindings[u][name] # None => u <= scope
  BY <1>1, <1>3, NearestFacts, StackFacts, InvType DEF BindingsConform
<1>5. scope \in DOMAIN enclosing /\ scope \in Scopes /\ bindings[scope][name] \in Cells
  BY <1>4, StackFacts, Environments, InvType DEF BindingsConform
<1>6. bindings[scope][name].contract \in Contracts \cup {None}
  BY <1>5 DEF Cells
<1>7. /\ top \in Item /\ top.kind = "assign" /\ top.scope = Here /\ top.name = name
      /\ top.target = scope /\ top.contract = bindings[scope][name].contract
  BY <1>2, <1>5, <1>6, StackFacts, InvType DEF BindingsConform, Body, Item
<1>8. Settled(top) /\ Found(top) /\ top.target # 0
  BY <1>3, <1>4, <1>7 DEF Settled, Found
<1>9. EnvInv' /\ StackInv' /\ RoomInv'
  BY <1>3, <1>7, <1>8, PushSame DEF BeginAssign
<1>10. RestInv'
  BY RestStep DEF BeginAssign, BindingsInv, RestInv
<1>11. Abstract!Make
  BY <1>3, <1>7, <1>8, MakeStep DEF BeginAssign, Waits
<1>12. QED
  BY <1>9, <1>10, <1>11 DEF BindingsInv

(* What a value that arrived leaves, when its statement has put it.        *)
LEMMA ArrivedStep ==
  ASSUME BindingsInv, NEW kind, NEW value, Arrived(kind, value), EnvInv',
         NEW s \in Seq(Item), stack' = s, Len(s) = Len(stack) - 1,
         \A i \in 1 .. Len(stack) - 1 : Alike(stack[i], s[i]),
         \A i \in 1 .. Len(stack) - 1 : s[i].kind = "assign" => Found(s[i])'
  PROVE  BindingsInv'
<1>1. Top.kind # "program"
  BY DEF Arrived, Evaluating, Waits
<1>2. StackInv' /\ RoomInv'
  BY <1>1, Pop DEF Arrived
<1>3. RestInv'
  BY RestStep DEF Arrived, BindingsInv, RestInv, counters
<1>4. QED
  BY <1>2, <1>3 DEF BindingsInv

LEMMA Arriving ==
  ASSUME BindingsInv, NEW kind \in Waits, NEW value, Arrived(kind, value)
  PROVE  /\ value \in Good /\ UNCHANGED enclosing /\ Here \in DOMAIN enclosing
         /\ Top = stack[Len(stack)] /\ Top \in Item /\ Top.kind = kind
         /\ Top.kind # "program"
         /\ Top.name \in Names /\ Top.contract \in Contracts \cup {None}
         /\ kind = "assign" => Found(Top)
<1>1. /\ value \in Good /\ UNCHANGED enclosing /\ Top.kind = kind
      /\ Top = stack[Len(stack)] /\ Top \in Item /\ Len(stack) \in DOMAIN stack
      /\ Here \in DOMAIN enclosing
  <2>1. TypeOK /\ ClosedInv
    BY InvType DEF BindingsConform
  <2>2. value \in Producible /\ UNCHANGED enclosing /\ Top.kind = kind
    BY DEF Arrived
  <2>3. value \in Good
    BY <2>1, <2>2, ProducibleType
  <2>4. QED
    BY <2>1, <2>2, <2>3, StackFacts
<1>2. /\ Top.name \in Names
      /\ kind = "assign" => Found(Top)
  BY <1>1 DEF BindingsInv, StackInv
<1>3. Top.contract \in Contracts \cup {None}
  BY <1>1 DEF Item
<1>4. Top.kind # "program"
  BY <1>1 DEF Waits
<1>5. QED
  BY <1>1, <1>2, <1>3, <1>4

(* A declaration's value. *)
LEMMA DeclaredStep ==
  ASSUME BindingsInv, NEW kind \in {"let", "infer"}, NEW value, Arrived(kind, value),
         NEW contract \in Contracts \cup {None}, Conforms(contract, value),
         kind = "let" => contract = Top.contract,
         SetTyped(Here, Top.name, value, contract)
  PROVE  BindingsInv' /\ Abstract!Keep
<1>1. kind \in Waits /\ kind # "assign"
  BY DEF Waits
<1>2. /\ value \in Good /\ UNCHANGED enclosing /\ Here \in DOMAIN enclosing
      /\ Top.name \in Names /\ Top.kind = kind /\ Top.kind # "program"
  BY <1>1, Arriving
<1>3. PICK cell : cell = Cell(value, contract)
  OBVIOUS
<1>4. /\ cell \in Cells /\ cell # None
      /\ Conforms(cell.contract, cell.value) /\ Closed(cell.value)
      /\ cell.contract = contract
  BY <1>2, <1>3, CellType DEF Good
<1>5. /\ EnvInv'
      /\ \A u \in DOMAIN enclosing : \A m \in Names :
           bindings'[u][m] = IF u = Here /\ m = Top.name THEN cell ELSE bindings[u][m]
  BY <1>2, <1>3, <1>4, PutEnv, ZenonT(60) DEF SetTyped
<1>6. Abstract!Keep
  <2>1. /\ Promised(Top).at = <<Here, Top.name>>
        /\ kind # "infer" => contract = Top.contract
        /\ ~Voided(Top)
    BY <1>1, <1>2 DEF Promised, Here, Voided
  <2>2. QED
    BY <1>1, <1>2, <1>4, <1>5, <2>1, KeepStep
<1>7. BindingsInv'
  <2>1. PICK before : before = Under
    OBVIOUS
  <2>2. PICK l : l = Len(stack) - 1
    OBVIOUS
  <2>3. /\ l \in 1 .. Len(stack) /\ before \in Seq(Item) /\ Len(before) = l
        /\ \A i \in 1 .. l : before[i] = stack[i]
    BY <1>2, <2>1, <2>2, UnderFacts
  <2>4. PICK s : s = Overtake(before, Top.name)
    OBVIOUS
  <2>5. stack' = s
    BY <1>1, <2>1, <2>4 DEF Arrived
  <2>6. s \in Seq(Item) /\ Len(s) = l /\ \A i \in 1 .. l : Alike(stack[i], s[i])
    BY <2>3, <2>4, OvertakenStack
  <2>7. ASSUME NEW i \in 1 .. l, s[i].kind = "assign" PROVE Found(s[i])'
    <3>1. PICK name \in Names : name = Top.name
      BY <1>2
    <3>2. PICK item : item = s[i] /\ item.kind = "assign"
      BY <2>7
    <3>3. s = Overtake(before, name)
      BY <2>4, <3>1
    <3>4. Declares(name, cell) /\ Begins(before, l)
      BY <1>2, <1>4, <1>5, <2>3, <3>1 DEF Declares, Begins
    <3>5. Found(item)'
      BY <2>7, <3>2, <3>3, <3>4, OvertakenFound
    <3>6. QED
      BY <3>2, <3>5
  <2>8. QED
    BY <1>5, <2>2, <2>5, <2>6, <2>7, ArrivedStep
<1>8. QED
  BY <1>6, <1>7

(* The cell an assignment finds when its value is there: the promised one, *)
(* unless the assignment was overtaken.                                    *)
Stored(t, cell, value) ==
  /\ Top.name \in Names /\ bindings[t][Top.name] # None
  /\ Revalued(bindings[t][Top.name], cell, value)
  /\ cell.value = value /\ Closed(cell.value)
  /\ cell.contract = bindings[t][Top.name].contract
  /\ bindings' = [bindings EXCEPT ![t][Top.name] = cell]
  /\ Top.target = 0 => strayed' = strayed \cup {<<t, Top.name>>}
  /\ Top.target # 0 =>
       /\ t = Top.target /\ cell.contract = Top.contract
       /\ Conforms(cell.contract, cell.value)
       /\ strayed' = strayed \ {<<t, Top.name>>}

LEMMA AssignedCell ==
  ASSUME BindingsInv, NEW value, EndAssign(value)
  PROVE  \E t \in DOMAIN enclosing : \E cell \in Cells : Stored(t, cell, value)
<1>1. "assign" \in Waits /\ Arrived("assign", value)
  BY DEF Waits, EndAssign
<1>2. /\ value \in Good /\ Here \in DOMAIN enclosing
      /\ Top.name \in Names /\ Found(Top)
      /\ Top.contract \in Contracts \cup {None}
  BY <1>1, Arriving
<1>3. PICK t : t = Nearest(Here, Top.name)
  OBVIOUS
<1>4. t \in enclosing[Here] /\ bindings[t][Top.name] # None
  <2>1. CASE Top.target = 0
    <3>1. /\ bindings[Here][Top.name] # None /\ Here \in enclosing[Here]
          /\ Here \in Nat \ {0}
      BY <1>2, <2>1, Environments, InvType DEF BindingsConform, Found, Here
    <3>2. Here <= t
      BY <1>2, <1>3, <3>1, NearestFacts, InvType DEF BindingsConform
    <3>3. t # 0
      BY <3>1, <3>2
    <3>4. QED
      BY <1>2, <1>3, <3>3, NearestFacts, InvType DEF BindingsConform
  <2>2. CASE Top.target # 0
    <3>1. t = Top.target
      BY <1>2, <1>3, <2>2, NearestIs, InvType DEF BindingsConform, Found, Settled, Here
    <3>2. QED
      BY <1>2, <2>2, <3>1 DEF Found, Settled, Here
  <2>3. QED
    BY <2>1, <2>2
<1>5. t \in DOMAIN enclosing /\ bindings[t][Top.name] \in Cells
  BY <1>2, <1>4, Environments, InvType DEF BindingsConform
<1>6. PICK cell : Revalued(bindings[t][Top.name], cell, value)
  BY DEF Revalued
<1>7. /\ cell \in Cells /\ cell.value = value
      /\ cell.contract = bindings[t][Top.name].contract
  BY <1>2, <1>5, <1>6 DEF Cells, Good, Revalued
<1>8. bindings' = [bindings EXCEPT ![t][Top.name] = cell]
  BY <1>3, <1>6 DEF EndAssign, Assign, AssignTo, Revalued
<1>9. Closed(cell.value)
  BY <1>2, <1>7 DEF Good
<1>10. Top.target = 0 => strayed' = strayed \cup {<<t, Top.name>>}
  BY <1>3 DEF EndAssign, Assign, AssignTo
<1>11. Top.target # 0 =>
         /\ t = Top.target /\ cell.contract = Top.contract
         /\ Conforms(cell.contract, cell.value)
         /\ strayed' = strayed \ {<<t, Top.name>>}
  <2>1. ASSUME Top.target # 0
        PROVE  /\ t = Top.target /\ cell.contract = Top.contract
               /\ Conforms(cell.contract, cell.value)
    <3>1. Settled(Top)
      BY <1>2, <2>1 DEF Found
    <3>2. t = Top.target
      BY <1>2, <1>3, <3>1, NearestIs, InvType DEF BindingsConform, Settled, Here
    <3>3. cell.contract = Top.contract
      BY <1>7, <3>1, <3>2 DEF Settled
    <3>4. QED
      BY <1>7, <3>2, <3>3 DEF EndAssign
  <2>2. Top.target # 0 => strayed' = strayed \ {<<t, Top.name>>}
    BY <1>3 DEF EndAssign, Assign, AssignTo
  <2>3. QED
    BY <2>1, <2>2
<1>12. Stored(t, cell, value)
  BY <1>2, <1>4, <1>6, <1>7, <1>8, <1>9, <1>10, <1>11, Zenon DEF Stored
<1>13. QED
  BY <1>5, <1>7, <1>12

LEMMA EndAssignStep ==
  ASSUME BindingsInv, NEW value, EndAssign(value)
  PROVE  BindingsInv' /\ (Abstract!Keep \/ Abstract!Stray)
<1>1. PICK t \in DOMAIN enclosing : \E cell \in Cells : Stored(t, cell, value)
  BY AssignedCell
<1>2. PICK cell \in Cells : Stored(t, cell, value)
  BY <1>1
<1>3. /\ UNCHANGED enclosing /\ Arrived("assign", value) /\ "assign" \in Waits
      /\ Top.kind = "assign" /\ Top.kind # "program"
  BY DEF EndAssign, Arrived, Waits
<1>4. /\ EnvInv'
      /\ \A u \in DOMAIN enclosing : \A m \in Names :
           bindings'[u][m] = IF u = t /\ m = Top.name THEN cell ELSE bindings[u][m]
  <2>1. \/ strayed' = strayed \ {<<t, Top.name>>} /\ Conforms(cell.contract, cell.value)
        \/ strayed' = strayed \cup {<<t, Top.name>>}
    BY <1>2 DEF Stored
  <2>2. /\ Closed(cell.value) /\ Top.name \in Names
        /\ bindings' = [bindings EXCEPT ![t][Top.name] = cell]
    BY <1>2 DEF Stored
  <2>3. QED
    BY <1>3, <2>1, <2>2, PutEnv
<1>5. cell # None
  BY NoneIsNoCell
<1>6. ASSUME NEW i \in DOMAIN stack, stack[i].kind = "assign"
      PROVE  Undisturbed(stack[i])
  <2>1. /\ stack[i].scope \in DOMAIN enclosing /\ stack[i].name \in Names
        /\ enclosing[stack[i].scope] \subseteq DOMAIN enclosing
    BY <1>6, Environments, InvType DEF BindingsConform, BindingsInv, StackInv, Waits
  <2>2. bindings[t][Top.name] # None /\ cell.contract = bindings[t][Top.name].contract
    BY <1>2 DEF Stored
  <2>3. QED
    BY <1>3, <1>4, <1>5, <2>1, <2>2 DEF Undisturbed
<1>7. Abstract!Keep \/ Abstract!Stray
  <2>1. CASE Top.target = 0
    <3>1. Voided(Top)
      BY <1>3, <2>1 DEF Voided
    <3>2. /\ bindings[t][Top.name] # None /\ Top.name \in Names
          /\ Revalued(bindings[t][Top.name], cell, value)
          /\ cell.value = value
      BY <1>2 DEF Stored
    <3>3. Abstract!Stray
      BY <1>3, <1>4, <3>1, <3>2, StrayStep
    <3>4. QED
      BY <3>3
  <2>2. CASE Top.target # 0
    <3>1. /\ t = Top.target /\ cell.contract = Top.contract /\ Top.name \in Names
          /\ Conforms(cell.contract, cell.value)
      BY <1>2, <2>2 DEF Stored
    <3>2. Promised(Top).at = <<t, Top.name>> /\ ~Voided(Top)
      BY <1>3, <2>2, <3>1 DEF Promised, Voided
    <3>3. Abstract!Keep
      BY <1>3, <1>4, <1>5, <3>1, <3>2, KeepStep
    <3>4. QED
      BY <3>3
  <2>3. QED
    BY <2>1, <2>2
<1>8. BindingsInv'
  <2>1. PICK s : s = Under
    OBVIOUS
  <2>2. PICK l : l = Len(stack) - 1
    OBVIOUS
  <2>3. /\ l \in 1 .. Len(stack) /\ s \in Seq(Item) /\ Len(s) = l
        /\ \A i \in 1 .. l : s[i] = stack[i]
    BY <1>3, <2>1, <2>2, UnderFacts
  <2>4. stack' = s
    BY <1>3, <2>1 DEF Arrived
  <2>5. \A i \in 1 .. l : Alike(stack[i], s[i])
    BY <2>3 DEF Alike
  <2>6. ASSUME NEW i \in 1 .. l, s[i].kind = "assign" PROVE Found(s[i])'
    <3>1. PICK item : item = s[i] /\ item = stack[i]
      BY <2>3
    <3>2. i \in DOMAIN stack
      BY <2>3, StackFacts, InvType DEF BindingsConform
    <3>3. item.scope \in enclosing[item.scope] /\ Found(item) /\ Undisturbed(item)
      BY <1>6, <2>6, <3>1, <3>2, Environments, InvType
      DEF BindingsConform, BindingsInv, StackInv
    <3>4. Found(item)'
      BY <3>3, StayingFound
    <3>5. QED
      BY <3>1, <3>4
  <2>7. QED
    BY <1>3, <1>4, <2>2, <2>3, <2>4, <2>5, <2>6, ArrivedStep
<1>9. QED
  BY <1>7, <1>8

LEMMA EndLetStep ==
  ASSUME BindingsInv, NEW value, EndLet(value)
  PROVE  BindingsInv' /\ Abstract!Keep
<1>1. Top.contract \in Contracts \cup {None}
  BY Arriving DEF EndLet, Waits
<1>2. QED
  BY <1>1, DeclaredStep DEF EndLet

LEMMA EndInferredStep ==
  ASSUME BindingsInv, NEW value, EndInferred(value)
  PROVE  BindingsInv' /\ Abstract!Keep
<1>1. value \in Values
  BY Arriving DEF EndInferred, Waits, Good
<1>2. /\ InferredContract(value) \in Contracts \cup {None}
      /\ Conforms(InferredContract(value), value)
  BY <1>1, Inferred
<1>3. QED
  BY <1>2, DeclaredStep DEF EndInferred

(* A type name bound at once. *)
LEMMA NamedStep ==
  ASSUME BindingsInv, UNCHANGED enclosing, NEW name \in Names,
         stack' = Overtake(stack, name),
         NEW value \in Good, SetTyped(Here, name, value, None)
  PROVE  EnvInv' /\ StackInv' /\ RoomInv' /\ Abstract!Declare
<1>1. /\ Here \in DOMAIN enclosing /\ Here \in Scopes
      /\ stack \in Seq(Item) /\ DOMAIN stack = 1 .. Len(stack)
  BY StackFacts, InvType DEF BindingsConform
<1>2. PICK cell : cell = Cell(value, None)
  OBVIOUS
<1>3. cell \in Cells /\ cell # None /\ Conforms(cell.contract, cell.value) /\ Closed(cell.value)
  <2>1. cell \in Cells /\ cell # None /\ cell.value = value /\ cell.contract = None
    BY <1>2, CellType DEF Good
  <2>2. QED
    BY <2>1 DEF Good, Conforms
<1>4. /\ EnvInv'
      /\ \A u \in DOMAIN enclosing : \A m \in Names :
           bindings'[u][m] = IF u = Here /\ m = name THEN cell ELSE bindings[u][m]
  BY <1>1, <1>2, <1>3, PutEnv, ZenonT(60) DEF SetTyped
<1>5. PICK k \in 1 .. Len(stack) : k = Len(stack)
  BY StackFacts, InvType DEF BindingsConform
<1>6. PICK s : s = Overtake(stack, name)
  OBVIOUS
<1>7. /\ s \in Seq(Item) /\ Len(s) = k /\ stack' = s
      /\ \A i \in 1 .. k : Alike(stack[i], s[i])
  BY <1>1, <1>5, <1>6, OvertakenStack
<1>8. StackInv'
  <2>1. ASSUME NEW i \in 1 .. k, s[i].kind = "assign" PROVE Found(s[i])'
    <3>1. PICK item : item = s[i] /\ item.kind = "assign"
      BY <2>1
    <3>2. Declares(name, cell) /\ Begins(stack, k)
      BY <1>1, <1>3, <1>4, <1>5 DEF Declares, Begins
    <3>3. Found(item)'
      BY <1>6, <2>1, <3>1, <3>2, OvertakenFound
    <3>4. QED
      BY <3>1, <3>3
  <2>2. Len(s) <= MaxDepth + 1
    BY <1>5, <1>7 DEF BindingsInv, StackInv
  <2>3. PICK top : top \in Item
    BY StackFacts, InvType DEF BindingsConform
  <2>4. DOMAIN enclosing \subseteq DOMAIN enclosing'
    OBVIOUS
  <2>5. QED
    BY <1>7, <2>1, <2>2, <2>3, <2>4, StackShape
<1>9. RoomInv'
  <2>1. Tries(s) = Tries(stack)
    <3>1. DOMAIN s = 1 .. k /\ DOMAIN stack = 1 .. k
      BY <1>1, <1>5, <1>7, LenProperties
    <3>2. QED
      BY <3>1, <1>7 DEF Tries, Alike
  <2>2. QED
    BY <1>7, <2>1 DEF BindingsInv, RoomInv
<1>10. Abstract!Declare
  <2>1. Abstract!Overtakes(<<Here, name>>, PromisesOf(stack), PromisesOf(s))
    BY <1>1, <1>5, <1>6, OvertakenPromises
  <2>2. PromisesOf(stack)' = PromisesOf(s)
    BY <1>7
  <2>3. /\ CellsAt' = [CellsAt EXCEPT ![<<Here, name>>] = cell]
        /\ CellsAt'[<<Here, name>>] = cell
    BY <1>1, <1>4, CellsPut DEF BindingsInv
  <2>4. PICK place \in Scopes \X Names : place = <<Here, name>>
    BY <1>1
  <2>5. Abstract!Honoured(cell)
    BY <1>3 DEF Abstract!Honoured
  <2>6. /\ Abstract!Overtakes(place, PromisesOf(stack), PromisesOf(stack)')
        /\ CellsAt' = [CellsAt EXCEPT ![place] = CellsAt'[place]]
        /\ CellsAt'[place] # None
        /\ Abstract!Honoured(CellsAt'[place])
    BY <1>3, <2>1, <2>2, <2>3, <2>4, <2>5
  <2>7. QED
    BY <2>6 DEF Abstract!Declare, CellsAt, PromisesOf
<1>11. QED
  BY <1>4, <1>8, <1>9, <1>10

LEMMA DeclareNominalStep ==
  ASSUME BindingsInv, NEW name \in Names, DeclareNominal(name)
  PROVE  BindingsInv' /\ Abstract!Declare
<1>1. types + 1 \in Ids
  BY Numbers DEF DeclareNominal, BindingsInv, RestInv, Ids
<1>2. Definition(types + 1) \in Good
  BY <1>1, ValueSorts DEF Good, Closed
<1>3. EnvInv' /\ StackInv' /\ RoomInv' /\ Abstract!Declare
  BY <1>2, NamedStep DEF DeclareNominal
<1>4. RestInv'
  BY <1>1, RestStep DEF DeclareNominal
<1>5. QED
  BY <1>3, <1>4 DEF BindingsInv

LEMMA DeclareAliasStep ==
  ASSUME BindingsInv, NEW name \in Names,
         NEW annotation \in Annotations, DeclareAlias(name, annotation)
  PROVE  BindingsInv' /\ Abstract!Declare
<1>1. PICK contract \in Meaning(annotation, Here) :
        SetTyped(Here, name, Alias(contract), None)
  BY DEF DeclareAlias
<1>2. contract \in Contracts
  <2>1. annotation \in Names \cup Primitives \cup {None} /\ annotation # None
    BY BindingsAssumption DEF DeclareAlias
  <2>2. QED
    BY <2>1, MeaningType, StackFacts, InvType DEF BindingsConform
<1>3. Alias(contract) \in Good
  BY <1>2, ValueSorts DEF Good, Closed
<1>4. EnvInv' /\ StackInv' /\ RoomInv' /\ Abstract!Declare
  BY <1>1, <1>3, NamedStep DEF DeclareAlias
<1>5. RestInv'
  BY RestStep DEF DeclareAlias, BindingsInv, RestInv
<1>6. QED
  BY <1>4, <1>5 DEF BindingsInv

LEMMA CallStep ==
  ASSUME BindingsInv, NEW function \in Visible \cup ({result} \ {None}),
         NEW argument \in Producible, Call(function, argument)
  PROVE  BindingsInv' /\ Abstract!Bind
<1>1. TypeOK /\ ClosedInv
  BY InvType DEF BindingsConform
<1>2. function \in Good /\ argument \in Good
  BY <1>1, ProducibleType DEF Producible
<1>3. /\ function.scope \in DOMAIN enclosing /\ function.parameter \in Names
      /\ function.contract \in Contracts \cup {None}
  BY <1>2, ValueKinds DEF Good, Closed, Call
<1>4. EnvInv' /\ StackInv' /\ RoomInv'
  BY <1>2, <1>3, PushOpen DEF Call
<1>5. RestInv'
  <2>1. DOMAIN enclosing \subseteq DOMAIN enclosing'
    <3>1. NextScope <= MaxScopes
      <4>1. Cardinality(Tries(stack)) \in Nat /\ NextScope \in Nat
        BY <1>1, TriesFacts, Environments DEF NextScope
      <4>2. NextScope + Cardinality(Tries(stack)) <= MaxScopes
        BY DEF Call, RoomForScope, Tries
      <4>3. QED
        BY <4>1, <4>2, Numbers
    <3>2. QED
      BY <1>2, <1>3, <3>1, OpenEnv DEF Call
  <2>2. QED
    BY <2>1, RestStep DEF Call, BindingsInv, RestInv
<1>6. Abstract!Bind
  BY <1>2, <1>3, <1>4, BindCalled DEF Call
<1>7. QED
  BY <1>4, <1>5, <1>6 DEF BindingsInv

LEMMA IterateStep ==
  ASSUME BindingsInv, NEW name \in Names, NEW value \in Producible,
         Iterate(name, value)
  PROVE  BindingsInv' /\ Abstract!Bind
<1>1. TypeOK /\ ClosedInv
  BY InvType DEF BindingsConform
<1>2. value \in Good /\ Here \in DOMAIN enclosing /\ Conforms(None, value)
  BY <1>1, ProducibleType, StackFacts DEF Conforms
<1>3. EnvInv' /\ StackInv' /\ RoomInv'
  BY <1>2, PushOpen DEF Iterate
<1>4. RestInv'
  <2>1. DOMAIN enclosing \subseteq DOMAIN enclosing'
    <3>1. NextScope <= MaxScopes
      <4>1. Cardinality(Tries(stack)) \in Nat /\ NextScope \in Nat
        BY <1>1, TriesFacts, Environments DEF NextScope
      <4>2. NextScope + Cardinality(Tries(stack)) <= MaxScopes
        BY DEF Iterate, RoomForScope, Tries
      <4>3. QED
        BY <4>1, <4>2, Numbers
    <3>2. QED
      BY <1>2, <3>1, OpenEnv DEF Iterate
  <2>2. QED
    BY <2>1, RestStep DEF Iterate, BindingsInv, RestInv
<1>5. Abstract!Bind
  BY <1>2, <1>3, BindCalled DEF Iterate
<1>6. QED
  BY <1>3, <1>4, <1>5 DEF BindingsInv

LEMMA EnterBlockStep ==
  ASSUME BindingsInv, EnterBlock
  PROVE  BindingsInv' /\ Abstract!Bind
<1>1. PICK top : top = Body("block", Here)
  OBVIOUS
<1>2. top \in Item /\ top.kind = "block" /\ top.scope = Here
  BY <1>1, StackFacts, InvType DEF BindingsConform, Body, Item
<1>3. EnvInv' /\ StackInv' /\ RoomInv'
  BY <1>1, <1>2, PushSame DEF EnterBlock, Waits
<1>4. RestInv'
  BY RestStep DEF EnterBlock, BindingsInv, RestInv
<1>5. Abstract!Bind
  BY <1>1, <1>2, BindPushed DEF EnterBlock, Waits
<1>6. QED
  BY <1>3, <1>4, <1>5 DEF BindingsInv

LEMMA EnterTryStep ==
  ASSUME BindingsInv, NEW name \in Names, NEW annotation \in Annotations \cap Names,
         EnterTry(name, annotation)
  PROVE  BindingsInv' /\ Abstract!Bind
<1>1. PICK contract \in ErrorMeaning(annotation, Here) :
        Push([Body("try", Here) EXCEPT !.name = name, !.contract = contract])
  BY DEF EnterTry
<1>2. contract \in Contracts
  BY MeaningType, StackFacts, InvType DEF BindingsConform
<1>3. PICK top : top = [Body("try", Here) EXCEPT !.name = name, !.contract = contract]
  OBVIOUS
<1>4. top \in Item /\ top.kind = "try" /\ top.scope = Here /\ top.name = name
  BY <1>2, <1>3, StackFacts, InvType DEF BindingsConform, Body, Item
<1>5. EnvInv' /\ StackInv' /\ RoomInv'
  BY <1>1, <1>3, <1>4, PushSame DEF EnterTry
<1>6. RestInv'
  BY RestStep DEF EnterTry, BindingsInv, RestInv
<1>7. Abstract!Bind
  BY <1>1, <1>3, <1>4, BindPushed DEF EnterTry, Waits
<1>8. QED
  BY <1>5, <1>6, <1>7 DEF BindingsInv

LEMMA LeaveStep ==
  ASSUME BindingsInv, NEW value \in Producible, Leave(value)
  PROVE  BindingsInv' /\ Abstract!Bind
<1>1. UNCHANGED <<enclosing, bindings>> /\ EnvInv'
  BY DEF Leave, BindingsInv, EnvInv, Closed
<1>2. StackInv' /\ RoomInv'
  <2>1. PICK s : s = Under
    OBVIOUS
  <2>2. Top.kind # "program" /\ stack' = s
    BY <2>1 DEF Leave
  <2>3. PICK l : l = Len(stack) - 1
    OBVIOUS
  <2>4. /\ s \in Seq(Item) /\ Len(s) = l /\ l \in 1 .. Len(stack)
        /\ \A i \in 1 .. l : s[i] = stack[i]
    BY <2>1, <2>2, <2>3, UnderFacts
  <2>5. \A i \in 1 .. l : Alike(stack[i], s[i])
    BY <2>4 DEF Alike
  <2>6. ASSUME NEW i \in 1 .. l, s[i].kind = "assign" PROVE Found(s[i])'
    <3>1. PICK item : item = s[i] /\ item = stack[i]
      BY <2>4
    <3>2. i \in DOMAIN stack
      BY <2>4, StackFacts, InvType DEF BindingsConform
    <3>3. Found(item)
      BY <2>6, <3>1, <3>2 DEF BindingsInv, StackInv
    <3>4. Undisturbed(item) /\ item.scope \in enclosing[item.scope]
      BY <1>1, <3>1, <3>2, StackFacts, Environments, InvType
      DEF BindingsConform, Undisturbed
    <3>5. Found(item)'
      BY <3>3, <3>4, StayingFound
    <3>6. QED
      BY <3>1, <3>5
  <2>7. QED
    BY <1>1, <2>2, <2>3, <2>4, <2>5, <2>6, Pop
<1>3. UNCHANGED strayed
  BY DEF Leave
<1>4. RestInv'
  <2>1. value \in Good
    BY ProducibleType, InvType DEF BindingsConform
  <2>2. result' \in Good \cup {None}
    BY <2>1 DEF Leave
  <2>3. QED
    BY <1>1, <2>2, RestStep DEF Leave, counters, BindingsInv, RestInv
<1>5. Abstract!Bind
  <2>1. PICK l \in Nat : l + 1 = Len(stack) /\ l # 0
    <3>1. PICK m \in Nat : m = Len(stack) /\ m > 1
      BY StackFacts, StackOrder, InvType DEF BindingsConform, Leave
    <3>2. m - 1 \in Nat /\ m - 1 + 1 = m /\ m - 1 # 0
      BY <3>1
    <3>3. QED
      BY <3>1, <3>2
  <2>2. stack \in Seq(Item) /\ stack # <<>> /\ l \in 1 .. Len(stack) /\ l + 1 - 1 = l
    BY <2>1 DEF BindingsInv, StackInv
  <2>3. PICK s : s = stack' /\ s = Front(stack)
    BY DEF Leave, Under
  <2>4. s \in Seq(Item) /\ Len(s) = l /\ \A i \in 1 .. l : s[i] = stack[i]
    BY <2>1, <2>2, <2>3, PopType
  <2>5. stack' \in Seq(Item) /\ Len(stack') = l /\ \A i \in 1 .. l : stack'[i] = stack[i]
    BY <2>3, <2>4
  <2>6. QED
    BY <1>1, <2>2, <2>5, BindSame
<1>6. QED
  BY <1>1, <1>2, <1>4, <1>5 DEF BindingsInv

(* A failure unwinds to the nearest handler of its kind. *)
LEMMA FailStep ==
  ASSUME BindingsInv, NEW id \in Ids, Unwind(id), result' = None,
         UNCHANGED <<strayed, counters>>
  PROVE  BindingsInv' /\ Abstract!Bind
<1>1. EnvInv' /\ StackInv' /\ RoomInv'
  BY UnwindStep
<1>2. RestInv'
  BY DEF RestInv, BindingsInv, counters
<1>3. Abstract!Bind
  BY <1>1, BindFailed
<1>4. QED
  BY <1>1, <1>2, <1>3 DEF BindingsInv

LEMMA ThrownId ==
  ASSUME BindingsInv, NEW value \in Producible, Throw(value)
  PROVE  value.id \in Ids
BY ProducibleType, ValueKinds, InvType DEF BindingsConform, Good, Throw

LEMMA NextKeepsInv ==
  ASSUME BindingsInv, [Next]_vars
  PROVE  BindingsInv' /\ [Abstract!CellsNext]_(Abstract!cellVars)
<1> DEFINE Holds == BindingsInv' /\ Abstract!CellsNext
<1> USE DEF Abstract!CellsNext
<1>1. ASSUME Statement PROVE Holds
  <2>1. CASE \E n \in Names :
               \/ \E a \in Annotations : BeginLet(n, a) \/ DeclareAlias(n, a)
               \/ BeginInferred(n) \/ BeginAssign(n) \/ DeclareNominal(n)
    BY <2>1, BeginLetStep, DeclareAliasStep, BeginInferredStep,
       BeginAssignStep, DeclareNominalStep
  <2>2. CASE \E v \in Producible : EndLet(v) \/ EndInferred(v) \/ EndAssign(v)
    BY <2>2, EndLetStep, EndInferredStep, EndAssignStep
  <2>3. QED
    BY <1>1, <2>1, <2>2 DEF Statement
<1>2. ASSUME Bodies PROVE Holds
  <2>1. CASE \E f \in Visible \cup ({result} \ {None}), v \in Producible : Call(f, v)
    BY <2>1, CallStep
  <2>2. CASE \E n \in Names :
               \/ \E v \in Producible : Iterate(n, v)
               \/ \E a \in Annotations \cap Names : EnterTry(n, a)
    BY <2>2, IterateStep, EnterTryStep
  <2>3. CASE EnterBlock
    BY <2>3, EnterBlockStep
  <2>4. CASE \E v \in Producible : Leave(v)
    BY <2>4, LeaveStep
  <2>5. CASE \E v \in Producible : Throw(v)
    BY <2>5, ThrownId, FailStep DEF Throw
  <2>6. QED
    BY <1>2, <2>1, <2>2, <2>3, <2>4, <2>5 DEF Bodies
<1>3. ASSUME Fault PROVE Holds
  BY <1>3, Numbers, FailStep DEF Fault
<1>4. CASE UNCHANGED vars
  <2>1. BindingsInv'
    BY <1>4 DEF vars, BindingsInv, EnvInv, StackInv, Found, Settled, RoomInv, RestInv, Closed, Good
  <2>2. UNCHANGED Abstract!cellVars
    BY <1>4 DEF vars, Abstract!cellVars, Promised
  <2>3. QED
    BY <2>1, <2>2
<1>5. QED
  BY <1>1, <1>2, <1>3, <1>4 DEF Next, Abstract!CellsNext

LEMMA InitInv ==
  ASSUME Init
  PROVE  BindingsInv
<1>1. PICK prelude \in Preludes : bindings = <<prelude>>
  BY DEF Init
<1>2. /\ prelude \in [Names -> Cells \cup {None}]
      /\ \A n \in Names : prelude[n] # None =>
           /\ Conforms(prelude[n].contract, prelude[n].value)
           /\ prelude[n].value.type = "call" => prelude[n].value.scope = 1
      /\ strayed = {}
  BY PreludesAssumption DEF Init
<1>3. 1 \in Scopes /\ {1} \subseteq 1 .. 1 /\ 1 <= MaxDepth + 1 /\ 1 <= MaxScopes
  BY Numbers DEF Scopes
<1>4. /\ enclosing = <<{1}>> /\ Len(enclosing) = 1 /\ DOMAIN enclosing = 1 .. 1
      /\ enclosing[1] = {1} /\ enclosing \in Seq(SUBSET Scopes)
  BY <1>3 DEF Init
<1>5. /\ Len(bindings) = 1 /\ bindings[1] = prelude
      /\ bindings \in Seq([Names -> Cells \cup {None}])
  BY <1>1, <1>2
<1>6. EnvInv
  BY <1>2, <1>3, <1>4, <1>5 DEF EnvInv, Closed
<1>7. PICK item : item = Body("program", 1)
  OBVIOUS
<1>8. item \in Item /\ item.kind = "program" /\ item.scope = 1
  BY <1>3, <1>7 DEF Body, Item
<1>9. /\ stack = <<item>> /\ stack \in Seq(Item) /\ stack # <<>> /\ Len(stack) = 1
      /\ DOMAIN stack = 1 .. 1 /\ stack[1] = item
  BY <1>7, <1>8 DEF Init
<1>10. StackInv
  BY <1>3, <1>4, <1>8, <1>9 DEF StackInv, Waits
<1>11. RoomInv
  <2>1. Tries(stack) = {}
    BY <1>8, <1>9 DEF Tries
  <2>2. QED
    BY <2>1, <1>3, <1>4, FS_EmptySet DEF RoomInv
<1>12. RestInv
  BY Numbers DEF Init, RestInv, Ids
<1>13. QED
  BY <1>6, <1>10, <1>11, <1>12 DEF BindingsInv

(* The invariant: environments grow inward and honour their contracts, and *)
(* the cell every waiting assignment has found is still the nearest one,   *)
(* under the contract it was found with, unless its name was declared in   *)
(* its own scope since (environment.go, evalAssignment).                   *)
THEOREM BindingsIsInvariant == Spec => []BindingsInv
<1>1. Init => BindingsInv
  BY InitInv
<1>2. BindingsInv /\ [Next]_vars => BindingsInv'
  BY NextKeepsInv
<1>3. QED
  BY <1>1, <1>2, PTL DEF Spec

(* What a name holds honours the contract its declaration captured, unless *)
(* an assignment stored it whose name was declared again in its scope      *)
(* while it waited (LetStatement, evalAssignment, SetTyped).               *)
THEOREM BindingsCorrect == Spec => []BindingsConform
<1>1. Spec => []BindingsInv
  BY BindingsIsInvariant
<1>2. BindingsInv => BindingsConform
  BY InvType
<1>3. QED
  BY <1>1, <1>2, PTL

LEMMA InitPromises ==
  ASSUME Init
  PROVE  Abstract!CellsInit
<1>1. BindingsInv /\ EnvInv /\ CellsFit
  BY InitInv, CellsOfInv DEF BindingsInv
<1>2. PICK item : item = Body("program", 1)
  OBVIOUS
<1>3. item \in Item /\ item.kind = "program" /\ stack = <<item>> /\ stack \in Seq(Item)
  <2>1. 1 \in Scopes
    BY Numbers DEF Scopes
  <2>2. QED
    BY <1>2, <2>1 DEF Body, Item, Init
<1>4. PromisesOf(stack) = <<Abstract!NoPromise>>
  <2>1. Promised(item) = Abstract!NoPromise
    BY <1>3, PromisedKinds DEF Waits
  <2>2. DOMAIN stack = 1 .. 1 /\ stack[1] = item
    BY <1>3
  <2>3. PromisesOf(stack) = [i \in 1 .. 1 |-> Promised(stack[i])]
    BY <2>2 DEF PromisesOf
  <2>4. [i \in 1 .. 1 |-> Promised(stack[i])] = <<Promised(stack[1])>>
    OBVIOUS
  <2>5. QED
    BY <2>1, <2>2, <2>3, <2>4
<1>5. ASSUME NEW place \in Scopes \X Names
      PROVE  Abstract!Honoured(CellsAt[place])
  <2>1. PICK s \in Scopes, n \in Names : place = <<s, n>>
    OBVIOUS
  <2>2. CASE s \in DOMAIN enclosing
    <3>1. PICK cell : cell = bindings[s][n] /\ CellsAt[place] = cell
      BY <1>1, <2>1, <2>2 DEF CellsFit
    <3>2. cell # None => Conforms(cell.contract, cell.value)
      BY <1>1, <2>1, <2>2, <3>1 DEF EnvInv, Init
    <3>3. QED
      BY <3>1, <3>2 DEF Abstract!Honoured
  <2>3. CASE s \notin DOMAIN enclosing
    BY <1>1, <2>1, <2>3 DEF CellsFit, Abstract!Honoured
  <2>4. QED
    BY <2>2, <2>3
<1>6. QED
  BY <1>4, <1>5 DEF Abstract!CellsInit, CellsAt, PromisesOf

(* Every value that a statement waited for lands in the very cell, and     *)
(* under the contract, that the statement had found when it began; only an *)
(* assignment whose name is declared again meanwhile is free of its        *)
(* promise (AssignmentTarget, Environment.Assign, SetTyped).               *)
THEOREM PromisesCorrect == Spec => KeepsPromises
<1>1. Init => Abstract!CellsInit
  BY InitPromises
<1>2. BindingsInv /\ [Next]_vars => [Abstract!CellsNext]_(Abstract!cellVars)
  BY NextKeepsInv
<1>3. Spec => []BindingsInv
  BY BindingsIsInvariant
<1>4. QED
  BY <1>1, <1>2, <1>3, PTL DEF Spec, KeepsPromises, Abstract!CellsSpec
=============================================================================
