---------------------------- MODULE Objects_proofs ----------------------------
(***************************************************************************)
(* Proofs about Objects, for all names, layouts and bounds: fields conform *)
(* to the contracts that their declarations captured, lookups end, and     *)
(* methods get receivers that they accept.                                 *)
(***************************************************************************)
EXTENDS Objects, SequenceTheorems, FiniteSetTheorems, TLAPS

-----------------------------------------------------------------------------
(* The inductive invariant.                                                *)

\* A definition captures only definitions made before it and itself; what a
\* whole one embeds is a struct.
DefinitionInv ==
    /\ Len(definitions) <= MaxDefinitions
    /\ \A d \in DOMAIN definitions :
           /\ Len(definitions[d].types) = Len(FieldsOf(d))
           /\ \A k, o \in DOMAIN FieldsOf(d) : FieldsOf(d)[k].name = FieldsOf(d)[o].name => k = o
           /\ \A k \in DOMAIN FieldsOf(d) :
                  LET type == definitions[d].types[k]
                  IN /\ type.is = "nominal" => type.of \in 1 .. d
                     /\ type.is = "method" => type.self \in 1 .. d
                     /\ definitions[d].whole /\ FieldsOf(d)[k].embedded =>
                            type.is = "nominal" /\ type.of \in Structs

\* Values refer to what exists.
LiveValues ==
    {Plain}
    \cup {Value(i) : i \in DOMAIN instances}
    \cup {EnumMember(d) : d \in DOMAIN definitions \ Structs}
    \cup {MethodFunction(Nominal(d)) : d \in DOMAIN definitions}
    \cup {BoundTo(Nominal(d), i) : d \in DOMAIN definitions, i \in DOMAIN instances}

\* A whole definition that embeds itself has no instances: the first would
\* have needed another.
InstanceInv ==
    /\ Len(instances) <= MaxInstances
    /\ \A i \in DOMAIN instances :
           LET d == instances[i].of
           IN /\ \A m \in DOMAIN instances[i].values : instances[i].values[m] \in LiveValues
              /\ \A k \in DOMAIN FieldsOf(d) :
                     definitions[d].whole /\ FieldsOf(d)[k].embedded =>
                         definitions[d].types[k] # Nominal(d)

PendingInv ==
    \A k \in DOMAIN pending : Declares(instances[pending[k].owner].of, pending[k].member)

ObjectsInv == FieldsConform /\ DefinitionInv /\ InstanceInv /\ PendingInv

-----------------------------------------------------------------------------
(* Lookups.                                                                *)

(* A nonempty set of naturals has a least member: the intervals up to its  *)
(* members are finite sets, and strict inclusion of those is well founded. *)
LEMMA LeastOf ==
  ASSUME NEW T \in SUBSET Nat, T # {}
  PROVE  \E i \in T : \A j \in T : i <= j
<1> DEFINE Spans == {1..n : n \in T}
           R == StrictSubsetOrdering(Nat)
<1>1. IsWellFoundedOn(R, FiniteSubsetsOf(Nat))
  BY FS_StrictSubsetOrderingWellFounded
<1>2. ASSUME NEW n \in Nat PROVE 1..n \in FiniteSubsetsOf(Nat)
  BY FS_Interval DEF FiniteSubsetsOf
<1>3. Spans # {} /\ Spans \subseteq FiniteSubsetsOf(Nat)
  BY <1>2
<1>4. PICK x \in Spans : \A y \in Spans : ~(<<y, x>> \in R)
  <2> HIDE DEF Spans, R
  <2> QED
    BY <1>1, <1>3, WFMin
<1>5. PICK i \in T : x = 1..i
  BY <1>4
<1>6. ASSUME NEW j \in T, j < i PROVE FALSE
  <2>1. 1..j \in SUBSET Nat /\ 1..i \in SUBSET Nat /\ 1..j \subseteq 1..i
    BY <1>6
  <2>2. i \in 1..i /\ i \notin 1..j
    BY <1>6
  <2>3. <<1..j, 1..i>> \in R
    BY <2>1, <2>2 DEF StrictSubsetOrdering
  <2>4. QED
    BY <2>3, <1>4, <1>5
<1>7. QED
  BY <1>6

\* What lookups find, depth by depth.
Start == [i \in DOMAIN instances |-> Endless]
Deeper(m, below) == [i \in DOMAIN instances |-> Answer(m, i, below)]
Table(m, n, f) == f = [depth \in 0 .. n |-> IF depth = 0 THEN Start ELSE Deeper(m, f[depth - 1])]

LEMMA TableExists ==
  ASSUME NEW m, NEW n \in Nat
  PROVE  \E f : Table(m, n, f)
<1> DEFINE Bad == {o \in Nat : ~ \E f : Table(m, o, f)}
<1>1. SUFFICES ASSUME Bad # {} PROVE FALSE
  OBVIOUS
<1>2. PICK o \in Bad : \A q \in Bad : o <= q
  <2>1. Bad \in SUBSET Nat
    OBVIOUS
  <2> HIDE DEF Bad
  <2>2. QED
    BY <1>1, <2>1, LeastOf
<1>3. CASE o = 0
  <2> DEFINE f == [depth \in 0 .. 0 |-> Start]
  <2>1. f = [depth \in 0 .. 0 |-> IF depth = 0 THEN Start ELSE Deeper(m, f[depth - 1])]
    OBVIOUS
  <2>2. QED
    BY <2>1, <1>2, <1>3 DEF Table
<1>4. CASE o # 0
  <2>1. o - 1 \in Nat /\ o \in Nat /\ ~(o <= o - 1)
    BY <1>4
  <2>2. PICK g : Table(m, o - 1, g)
    BY <2>1, <1>2
  <2> DEFINE f == [depth \in 0 .. o |-> IF depth = o THEN Deeper(m, g[o - 1]) ELSE g[depth]]
  <2>3. ASSUME NEW depth \in 0 .. o
        PROVE  f[depth] = IF depth = 0 THEN Start ELSE Deeper(m, f[depth - 1])
    <3>1. CASE depth = o
      <4>1. o - 1 \in 0 .. o /\ o - 1 # o
        BY <2>1
      <4>2. f[o - 1] = g[o - 1] /\ f[o] = Deeper(m, g[o - 1])
        BY <4>1, <2>1
      <4>3. QED
        BY <4>2, <3>1, <1>4
    <3>2. CASE depth # o
      <4>1. depth \in 0 .. o - 1 /\ (depth # 0 => depth - 1 \in 0 .. o /\ depth - 1 # o)
        BY <3>2, <2>1
      <4>2. g[depth] = IF depth = 0 THEN Start ELSE Deeper(m, g[depth - 1])
        BY <2>2, <4>1 DEF Table
      <4>3. f[depth] = g[depth] /\ (depth # 0 => f[depth - 1] = g[depth - 1])
        BY <4>1, <3>2
      <4>4. QED
        BY <4>2, <4>3
    <3>3. QED
      BY <3>1, <3>2
  <2>4. f = [depth \in 0 .. o |-> IF depth = 0 THEN Start ELSE Deeper(m, f[depth - 1])]
    BY <2>3
  <2>5. QED
    BY <2>4, <1>2 DEF Table
<1>5. QED
  BY <1>3, <1>4

LEMMA LookupsUnfold ==
  ASSUME NEW m, Len(instances) \in Nat
  PROVE  \E f : Table(m, Len(instances), f) /\ Lookups(m) = f[Len(instances)]
<1> DEFINE f == CHOOSE f : Table(m, Len(instances), f)
<1>1. Table(m, Len(instances), f)
  BY TableExists
<1>2. Lookups(m) = f[Len(instances)]
  BY DEF Lookups, Table, Start, Deeper
<1>3. QED
  BY <1>1, <1>2

-----------------------------------------------------------------------------
(* Definitions and the instances they describe.                            *)

LEMMA DefinitionFacts ==
  ASSUME ObjectsTyped, DefinitionInv, NEW d \in DOMAIN definitions
  PROVE  /\ DOMAIN definitions = 1 .. Len(definitions) /\ Len(definitions) \in Nat
         /\ MaxDefinitions \in Nat /\ d \in 1 .. MaxDefinitions /\ d \in Nat
         /\ definitions[d].kind \in {"struct", "enum"} /\ definitions[d].whole \in BOOLEAN
         /\ DOMAIN FieldsOf(d) = 1 .. Len(FieldsOf(d)) /\ Len(FieldsOf(d)) \in Nat
         /\ DOMAIN definitions[d].types = DOMAIN FieldsOf(d)
         /\ \A k \in DOMAIN FieldsOf(d) : /\ FieldsOf(d)[k].name \in FieldNames
                                          /\ FieldsOf(d)[k].embedded \in BOOLEAN
                                          /\ definitions[d].types[k] \in FieldContracts
<1> DEFINE Record == [kind : {"struct", "enum"}, name : Names,
               fields : Seq([name : FieldNames, embedded : BOOLEAN]),
               types : Seq(FieldContracts), whole : BOOLEAN]
<1>1. definitions \in Seq(Record)
  BY DEF ObjectsTyped
<1>2. /\ DOMAIN definitions = 1 .. Len(definitions) /\ Len(definitions) \in Nat
      /\ definitions[d] \in Record
  <2> HIDE DEF Record
  <2>1. QED
    BY <1>1, LenProperties, ElementOfSeq
<1>3. /\ MaxDefinitions \in Nat /\ d \in 1 .. MaxDefinitions /\ d \in Nat
  BY <1>2, ObjectsAssumption DEF DefinitionInv
<1>4. /\ definitions[d].kind \in {"struct", "enum"} /\ definitions[d].whole \in BOOLEAN
      /\ FieldsOf(d) \in Seq([name : FieldNames, embedded : BOOLEAN])
      /\ definitions[d].types \in Seq(FieldContracts)
  BY <1>2 DEF FieldsOf
<1>5. /\ DOMAIN FieldsOf(d) = 1 .. Len(FieldsOf(d)) /\ Len(FieldsOf(d)) \in Nat
      /\ \A k \in DOMAIN FieldsOf(d) : FieldsOf(d)[k] \in [name : FieldNames, embedded : BOOLEAN]
  BY <1>4, LenProperties, ElementOfSeq
<1>6. DOMAIN definitions[d].types = DOMAIN FieldsOf(d)
  BY <1>4, <1>5, LenProperties DEF DefinitionInv
<1>7. \A k \in DOMAIN FieldsOf(d) : definitions[d].types[k] \in FieldContracts
  BY <1>4, <1>5, <1>6, LenProperties, ElementOfSeq
<1>8. QED
  BY <1>2, <1>3, <1>4, <1>5, <1>6, <1>7

LEMMA ContractKinds ==
  ASSUME NEW c \in FieldContracts
  PROVE  /\ c.is = "nominal" => /\ c.of \in 1 .. MaxDefinitions
                                /\ c = Nominal(c.of)
         /\ c.is = "method" => /\ c.self \in 1 .. MaxDefinitions
                               /\ c = Method(c.self)
         /\ c.is \in {"unannotated", "plain", "nominal", "method"}
<1>1. CASE c \in {Unannotated, Plain}
  BY <1>1 DEF Unannotated, Plain
<1>2. CASE \E d \in 1 .. MaxDefinitions : c = Nominal(d)
  <2>1. PICK d \in 1 .. MaxDefinitions : c = Nominal(d)
    BY <1>2
  <2>2. c.is = "nominal" /\ c.of = d
    BY <2>1 DEF Nominal
  <2>3. QED
    BY <2>1, <2>2
<1>3. CASE \E d \in 1 .. MaxDefinitions : c = Method(d)
  <2>1. PICK d \in 1 .. MaxDefinitions : c = Method(d)
    BY <1>3
  <2>2. c.is = "method" /\ c.self = d
    BY <2>1 DEF Method
  <2>3. QED
    BY <2>1, <2>2
<1>4. QED
  BY <1>1, <1>2, <1>3 DEF FieldContracts

LEMMA IndexFacts ==
  ASSUME ObjectsTyped, DefinitionInv, NEW d \in DOMAIN definitions
  PROVE  /\ \A m : Declares(d, m) => /\ IndexOf(d, m) \in DOMAIN FieldsOf(d)
                                     /\ FieldsOf(d)[IndexOf(d, m)].name = m
         /\ \A k \in DOMAIN FieldsOf(d) : IndexOf(d, FieldsOf(d)[k].name) = k
<1>1. \A m : Declares(d, m) => /\ IndexOf(d, m) \in DOMAIN FieldsOf(d)
                               /\ FieldsOf(d)[IndexOf(d, m)].name = m
  BY DEF Declares, IndexOf
<1>2. ASSUME NEW k \in DOMAIN FieldsOf(d) PROVE IndexOf(d, FieldsOf(d)[k].name) = k
  <2>1. Declares(d, FieldsOf(d)[k].name)
    BY DEF Declares
  <2>2. QED
    BY <2>1, <1>1 DEF DefinitionInv
<1>3. QED
  BY <1>1, <1>2

LEMMA InstanceFacts ==
  ASSUME ObjectsInv, NEW i \in DOMAIN instances
  PROVE  /\ DOMAIN instances = 1 .. Len(instances) /\ Len(instances) \in Nat
         /\ i \in 1 .. MaxInstances /\ i \in Nat
         /\ instances[i].of \in Structs /\ instances[i].of \in DOMAIN definitions
         /\ instances[i].values \in UNION {[ms -> HeldValues] : ms \in SUBSET FieldNames}
         /\ \A k \in DOMAIN FieldsOf(instances[i].of) :
                /\ FieldsOf(instances[i].of)[k].name \in DOMAIN instances[i].values
                /\ FieldValue(i, k) \in LiveValues
                /\ FieldMatches(definitions[instances[i].of].types[k], FieldValue(i, k))
<1> DEFINE Record == [of : Structs, values : UNION {[ms -> HeldValues] : ms \in SUBSET FieldNames}]
<1>0. ObjectsTyped /\ FieldsConform /\ InstanceInv
  BY DEF ObjectsInv, FieldsConform
<1>1. instances \in Seq(Record)
  BY <1>0 DEF ObjectsTyped
<1>2. /\ DOMAIN instances = 1 .. Len(instances) /\ Len(instances) \in Nat
      /\ instances[i] \in Record
  <2> HIDE DEF Record
  <2>1. QED
    BY <1>1, LenProperties, ElementOfSeq
<1>3. i \in 1 .. MaxInstances /\ i \in Nat
  BY <1>0, <1>2, ObjectsAssumption DEF InstanceInv
<1>4. /\ instances[i].of \in Structs
      /\ instances[i].values \in UNION {[ms -> HeldValues] : ms \in SUBSET FieldNames}
  BY <1>2
<1>5. instances[i].of \in DOMAIN definitions
  BY <1>4 DEF Structs
<1>6. ASSUME NEW k \in DOMAIN FieldsOf(instances[i].of)
      PROVE  /\ FieldsOf(instances[i].of)[k].name \in DOMAIN instances[i].values
             /\ FieldValue(i, k) \in LiveValues
             /\ FieldMatches(definitions[instances[i].of].types[k], FieldValue(i, k))
  <2>1. FieldsOf(instances[i].of)[k].name \in DOMAIN instances[i].values
    BY <1>0 DEF FieldsConform
  <2>2. FieldValue(i, k) \in LiveValues
    BY <2>1, <1>0 DEF InstanceInv, FieldValue
  <2>3. FieldMatches(definitions[instances[i].of].types[k], FieldValue(i, k))
    BY <1>0 DEF FieldsConform, FieldValue
  <2>4. QED
    BY <2>1, <2>2, <2>3
<1>7. QED
  BY <1>2, <1>3, <1>4, <1>5, <1>6

\* What is embedded exists, and is of an earlier definition if the declaration
\* of the outer one succeeded.
LEMMA EmbeddedFacts ==
  ASSUME ObjectsInv, NEW i \in DOMAIN instances, NEW k \in EmbeddedFields(i)
  PROVE  /\ Embedded(i, k) \in DOMAIN instances
         /\ Definition(i).whole => instances[Embedded(i, k)].of < instances[i].of
<1>1. /\ k \in DOMAIN FieldsOf(instances[i].of) /\ FieldsOf(instances[i].of)[k].embedded
      /\ FieldValue(i, k).is = "instance"
  BY DEF EmbeddedFields
<1>2. FieldValue(i, k) \in LiveValues
  BY <1>1, InstanceFacts
<1>3. PICK j \in DOMAIN instances : FieldValue(i, k) = Value(j)
  BY <1>1, <1>2 DEF LiveValues, Plain, Value, EnumMember, MethodFunction, BoundTo
<1>4. Embedded(i, k) = j
  BY <1>3 DEF Embedded, Value
<1>5. ASSUME Definition(i).whole PROVE instances[j].of < instances[i].of
  <2> DEFINE d == instances[i].of
             type == definitions[d].types[k]
  <2>1. d \in DOMAIN definitions /\ definitions[d].whole
    BY <1>5, InstanceFacts DEF Definition
  <2>2. type.is = "nominal" /\ type.of \in 1 .. d /\ type # Nominal(d)
    BY <2>1, <1>1 DEF ObjectsInv, DefinitionInv, InstanceInv
  <2>3. type \in FieldContracts /\ d \in Nat
    BY <2>1, <1>1, DefinitionFacts DEF ObjectsInv, FieldsConform
  <2>4. type = Nominal(type.of)
    BY <2>2, <2>3, ContractKinds
  <2>5. FieldMatches(type, Value(j))
    BY <1>1, <1>3, InstanceFacts
  <2>6. NominalMatches(type, Value(j))
    BY <2>5, <2>2 DEF FieldMatches
  <2>7. instances[j].of = type.of
    BY <2>6 DEF NominalMatches, Value, EnumMember
  <2> HIDE DEF d, type
  <2>8. instances[j].of < d
    BY <2>2, <2>3, <2>4, <2>7
  <2>9. QED
    BY <2>8 DEF d
<1>6. QED
  BY <1>3, <1>4, <1>5

LEMMA EndsFacts == ObjectsInv => LookupsEnd
<1>1. SUFFICES ASSUME ObjectsInv,
                      NEW circle \in SUBSET {i \in DOMAIN instances : Definition(i).whole},
                      circle # {}
               PROVE  \E i \in circle : \A k \in EmbeddedFields(i) : Embedded(i, k) \notin circle
  BY DEF LookupsEnd
<1> DEFINE Ranks == {instances[i].of : i \in circle}
<1>2. \A i \in circle : i \in DOMAIN instances /\ instances[i].of \in Nat
  BY InstanceFacts, DefinitionFacts, <1>1 DEF ObjectsInv, FieldsConform
<1>3. Ranks \in SUBSET Nat /\ Ranks # {}
  BY <1>1, <1>2
<1>4. PICK r \in Ranks : \A s \in Ranks : r <= s
  <2> HIDE DEF Ranks
  <2> QED
    BY <1>3, LeastOf
<1>5. PICK i \in circle : r = instances[i].of
  BY <1>4
<1>6. ASSUME NEW k \in EmbeddedFields(i), Embedded(i, k) \in circle PROVE FALSE
  <2>1. instances[Embedded(i, k)].of < instances[i].of
    BY <1>1, EmbeddedFacts
  <2>2. instances[i].of <= instances[Embedded(i, k)].of
    BY <1>4, <1>5, <1>6
  <2>3. instances[i].of \in Nat /\ instances[Embedded(i, k)].of \in Nat
    BY <1>2, <1>6
  <2>4. QED
    BY <2>1, <2>2, <2>3
<1>7. QED
  BY <1>6

\* A lookup that ends with a field ends at an instance that declares it.
LEMMA LookupFacts ==
  ASSUME ObjectsInv, NEW i \in DOMAIN instances, NEW m
  PROVE  Has(i, m) => Owner(i, m) \in DOMAIN instances /\ Declares(instances[Owner(i, m)].of, m)
<1> DEFINE Fields == {Found(j) : j \in {j \in DOMAIN instances : Declares(instances[j].of, m)}}
           Answers == {Missing, Endless} \cup Fields
<1>1. Len(instances) \in Nat
  BY InstanceFacts
<1>2. PICK f : Table(m, Len(instances), f) /\ Lookups(m) = f[Len(instances)]
  BY <1>1, LookupsUnfold
<1> DEFINE Bad == {depth \in 0 .. Len(instances) :
                      ~ \A j \in DOMAIN instances : f[depth][j] \in Answers}
<1>3. Bad = {}
  <2>1. SUFFICES ASSUME Bad # {} PROVE FALSE
    OBVIOUS
  <2>2. PICK depth \in Bad : \A o \in Bad : depth <= o
    <3>1. Bad \in SUBSET Nat
      BY <1>1
    <3> HIDE DEF Bad
    <3>2. QED
      BY <2>1, <3>1, LeastOf
  <2>3. PICK j \in DOMAIN instances : f[depth][j] \notin Answers
    BY <2>2
  <2>4. depth \in 0 .. Len(instances) /\ depth \in Nat
    BY <2>2, <1>1
  <2>5. f[depth] = IF depth = 0 THEN Start ELSE Deeper(m, f[depth - 1])
    BY <1>2, <2>4 DEF Table
  <2>6. CASE depth = 0
    BY <2>3, <2>5, <2>6 DEF Start
  <2>7. CASE depth # 0
    <3>1. depth - 1 \in 0 .. Len(instances) /\ ~(depth <= depth - 1)
      BY <2>4, <2>7, <1>1
    <3>2. \A o \in DOMAIN instances : f[depth - 1][o] \in Answers
      BY <3>1, <2>2
    <3>3. f[depth][j] = Answer(m, j, f[depth - 1])
      BY <2>5, <2>7 DEF Deeper
    <3> DEFINE hits == {k \in EmbeddedFields(j) : f[depth - 1][Embedded(j, k)] # Missing}
    <3>4. CASE Declares(instances[j].of, m)
      BY <3>3, <3>4, <2>3 DEF Answer
    <3>5. CASE hits = {} /\ ~Declares(instances[j].of, m)
      BY <3>3, <3>5, <2>3 DEF Answer
    <3>6. CASE hits # {} /\ ~Declares(instances[j].of, m)
      <4>1. EmbeddedFields(j) \in SUBSET Nat
        BY InstanceFacts, DefinitionFacts DEF EmbeddedFields, ObjectsInv, FieldsConform
      <4>2. \E k \in hits : \A o \in hits : k <= o
        <5>1. hits \in SUBSET Nat
          BY <4>1
        <5> HIDE DEF hits
        <5>2. QED
          BY <5>1, <3>6, LeastOf
      <4> DEFINE first == CHOOSE k \in hits : \A o \in hits : k <= o
      <4>3. first \in hits
        BY <4>2
      <4>4. first \in EmbeddedFields(j)
        BY <4>3
      <4>5. f[depth][j] = f[depth - 1][Embedded(j, first)]
        BY <3>3, <3>6 DEF Answer
      <4> HIDE DEF first, hits
      <4>6. QED
        BY <4>4, <4>5, <3>2, <2>3, EmbeddedFacts
    <3>7. QED
      BY <3>4, <3>5, <3>6
  <2>8. QED
    BY <2>6, <2>7
<1>4. ResolveField(i, m) \in Answers
  <2>1. Len(instances) \in 0 .. Len(instances)
    BY <1>1
  <2>2. QED
    BY <2>1, <1>2, <1>3 DEF ResolveField
<1>5. ASSUME Has(i, m) PROVE ResolveField(i, m) \in Fields
  BY <1>4, <1>5 DEF Has, Missing, Endless
<1>6. QED
  BY <1>5 DEF Owner, Found

\* The value and the contract of a member are those of a field of its owner.
LEMMA MemberFacts ==
  ASSUME ObjectsInv, NEW i \in DOMAIN instances, NEW m, Has(i, m)
  PROVE  /\ Owner(i, m) \in DOMAIN instances
         /\ Get(i, m) \in LiveValues
         /\ ContractOf(Owner(i, m), m) \in FieldContracts
         /\ FieldMatches(ContractOf(Owner(i, m), m), Get(i, m))
<1> DEFINE j == Owner(i, m)
           d == instances[j].of
           k == IndexOf(d, m)
<1>1. j \in DOMAIN instances /\ Declares(d, m)
  BY LookupFacts
<1>2. d \in DOMAIN definitions
  BY <1>1, InstanceFacts
<1>3. ObjectsTyped /\ DefinitionInv
  BY DEF ObjectsInv, FieldsConform
<1>4. k \in DOMAIN FieldsOf(d) /\ FieldsOf(d)[k].name = m
  BY <1>1, <1>2, <1>3, IndexFacts
<1>5. Get(i, m) = FieldValue(j, k) /\ ContractOf(j, m) = definitions[d].types[k]
  BY <1>4 DEF Get, FieldValue, ContractOf
<1>6. FieldValue(j, k) \in LiveValues /\ FieldMatches(definitions[d].types[k], FieldValue(j, k))
  BY <1>1, <1>4, InstanceFacts
<1>7. definitions[d].types[k] \in FieldContracts
  BY <1>2, <1>3, <1>4, DefinitionFacts
<1>8. QED
  BY <1>1, <1>5, <1>6, <1>7

LEMMA ReceiverFacts == ObjectsInv => ReceiversFit
<1>1. SUFFICES ASSUME ObjectsInv, NEW i \in DOMAIN instances, NEW m, Has(i, m),
                      ContractOf(Owner(i, m), m) = Method(instances[Owner(i, m)].of)
               PROVE  /\ Get(i, m).is = "function" =>
                             Accepts(EvalMember(i, m).takes, instances[EvalMember(i, m).receiver].of)
                      /\ i = Owner(i, m) =>
                             Accepts(StructCallable(i, m).takes, instances[StructCallable(i, m).receiver].of)
  BY DEF ReceiversFit
<1> DEFINE j == Owner(i, m)
<1>2. FieldMatches(Method(instances[j].of), Get(i, m))
  BY <1>1, MemberFacts
<1>3. Accepts(Get(i, m).takes, instances[j].of)
  BY <1>2 DEF FieldMatches, Method
<1>4. ASSUME Get(i, m).is = "function"
      PROVE  EvalMember(i, m).takes = Get(i, m).takes /\ EvalMember(i, m).receiver = j
  BY <1>1, <1>4 DEF EvalMember, Method, BoundTo, Receiver
<1>5. StructCallable(i, m).takes = Get(i, m).takes /\ StructCallable(i, m).receiver = i
  BY DEF StructCallable, BoundTo
<1>6. QED
  BY <1>3, <1>4, <1>5

-----------------------------------------------------------------------------
(* What an expression can evaluate to.                                     *)

LEMMA LiveAreHeld ==
  ASSUME ObjectsInv
  PROVE  LiveValues \subseteq HeldValues
<1>1. DOMAIN definitions \subseteq 1 .. MaxDefinitions /\ DOMAIN instances \subseteq 1 .. MaxInstances
  BY InstanceFacts, DefinitionFacts DEF ObjectsInv, FieldsConform
<1>2. QED
  BY <1>1 DEF LiveValues, HeldValues

LEMMA TakesFacts ==
  ASSUME ObjectsInv
  PROVE  Takes \subseteq DOMAIN definitions
<1>1. SUFFICES ASSUME NEW d \in Structs, NEW k \in DOMAIN definitions[d].types,
                      definitions[d].types[k].is = "method"
               PROVE  definitions[d].types[k].self \in DOMAIN definitions
  BY DEF Takes, ToSet
<1>2. d \in DOMAIN definitions
  BY DEF Structs
<1>3. /\ DOMAIN definitions = 1 .. Len(definitions) /\ Len(definitions) \in Nat
      /\ d \in Nat /\ k \in DOMAIN FieldsOf(d)
  BY <1>2, DefinitionFacts DEF ObjectsInv, FieldsConform
<1>4. definitions[d].types[k].self \in 1 .. d
  BY <1>1, <1>2, <1>3 DEF ObjectsInv, DefinitionInv
<1>5. QED
  BY <1>2, <1>3, <1>4

LEMMA MembersLive ==
  ASSUME ObjectsInv, NEW i \in DOMAIN instances, NEW m, Has(i, m)
  PROVE  EvalMember(i, m) \in LiveValues
<1>1. Owner(i, m) \in DOMAIN instances /\ Get(i, m) \in LiveValues
  BY MemberFacts
<1>2. ASSUME Get(i, m).is = "function"
      PROVE  BoundTo(Get(i, m).takes, Receiver(i, m)) \in LiveValues
  <2>1. PICK d \in DOMAIN definitions : Get(i, m) = MethodFunction(Nominal(d))
    BY <1>1, <1>2 DEF LiveValues, Plain, Value, EnumMember, BoundTo
  <2>2. Get(i, m).takes = Nominal(d)
    BY <2>1 DEF MethodFunction
  <2>3. QED
    BY <2>2, <1>1 DEF LiveValues, Receiver
<1>3. QED
  BY <1>1, <1>2 DEF EvalMember

LEMMA ValuesLive ==
  ASSUME ObjectsInv
  PROVE  MemberValues \subseteq LiveValues
<1>1. {MethodFunction(Nominal(d)) : d \in Takes} \subseteq LiveValues
  BY TakesFacts DEF LiveValues
<1>2. {EvalMember(r[1], r[2]) : r \in {r \in (DOMAIN instances) \X Members : Has(r[1], r[2])}}
          \subseteq LiveValues
  BY MembersLive
<1>3. {Plain} \cup {Value(i) : i \in DOMAIN instances}
          \cup {EnumMember(d) : d \in DOMAIN definitions \ Structs} \subseteq LiveValues
  BY DEF LiveValues
<1>4. QED
  BY <1>1, <1>2, <1>3 DEF MemberValues

-----------------------------------------------------------------------------
(* Declarations keep the invariant.                                        *)

Definitions ==
    [kind : {"struct", "enum"}, name : Names,
     fields : Seq([name : FieldNames, embedded : BOOLEAN]),
     types : Seq(FieldContracts), whole : BOOLEAN]

LEMMA AppendFacts ==
  ASSUME NEW S, NEW s \in Seq(S), NEW x \in S
  PROVE  /\ Append(s, x) \in Seq(S)
         /\ Len(Append(s, x)) = Len(s) + 1
         /\ DOMAIN Append(s, x) = 1 .. Len(s) + 1
         /\ \A k \in DOMAIN s : Append(s, x)[k] = s[k]
         /\ Append(s, x)[Len(s) + 1] = x
<1>1. /\ Append(s, x) \in Seq(S)
      /\ Len(Append(s, x)) = Len(s) + 1
      /\ \A k \in 1 .. Len(s) : Append(s, x)[k] = s[k]
      /\ Append(s, x)[Len(s) + 1] = x
  BY AppendProperties
<1>2. DOMAIN Append(s, x) = 1 .. Len(s) + 1 /\ DOMAIN s = 1 .. Len(s)
  BY <1>1, LenProperties
<1>3. QED
  BY <1>1, <1>2

\* What a declaration publishes: d is the new definition, structs are the
\* definitions it may embed.
Declared(definition, d, structs) ==
    /\ definition \in Definitions
    /\ Len(definition.types) = Len(definition.fields)
    /\ \A k, o \in DOMAIN definition.fields :
           definition.fields[k].name = definition.fields[o].name => k = o
    /\ \A k \in DOMAIN definition.fields :
           LET type == definition.types[k]
           IN /\ type.is = "nominal" => type.of \in 1 .. d
              /\ type.is = "method" => type.self \in 1 .. d
              /\ definition.whole /\ definition.fields[k].embedded =>
                     /\ type.is = "nominal"
                     /\ type.of \in structs \/ (type.of = d /\ definition.kind = "struct")

LEMMA PendingFacts ==
  ASSUME ObjectsTyped, NEW k \in DOMAIN pending
  PROVE  pending[k].owner \in DOMAIN instances /\ pending[k].member \in FieldNames
<1> DEFINE Record == [owner : DOMAIN instances, member : FieldNames]
<1>1. pending \in Seq(Record)
  BY DEF ObjectsTyped
<1>2. pending[k] \in Record
  <2> HIDE DEF Record
  <2>1. QED
    BY <1>1, LenProperties, ElementOfSeq
<1>3. QED
  BY <1>2

\* What a contract admits stays admitted while instances keep their type.
LEMMA MatchesStay ==
  ASSUME NEW contract \in FieldContracts, NEW v, v \in LiveValues, FieldMatches(contract, v),
         \A i \in DOMAIN instances : instances'[i].of = instances[i].of
  PROVE  FieldMatches(contract, v)'
<1>1. CASE contract.is = "nominal"
  <2>1. NominalMatches(contract, v)
    BY <1>1 DEF FieldMatches
  <2>2. v.is = "instance" => v.of \in DOMAIN instances
    BY DEF LiveValues, Plain, Value, EnumMember, MethodFunction, BoundTo
  <2>3. NominalMatches(contract, v)'
    BY <2>1, <2>2 DEF NominalMatches
  <2>4. QED
    BY <2>3, <1>1 DEF FieldMatches
<1>2. CASE contract.is # "nominal"
  BY <1>2, ContractKinds DEF FieldMatches, Callable, Accepts
<1>3. QED
  BY <1>1, <1>2

LEMMA PublishKeeps ==
  ASSUME ObjectsInv, Len(definitions) < MaxDefinitions, NEW n \in Names, NEW definition,
         Declared(definition, Len(definitions) + 1, Structs), Publish(n, definition)
  PROVE  ObjectsInv'
<1> DEFINE d == Len(definitions) + 1
<1>1. ObjectsTyped /\ FieldsConform /\ DefinitionInv /\ InstanceInv /\ PendingInv
  BY DEF ObjectsInv, FieldsConform
<1>2. definitions \in Seq(Definitions) /\ definition \in Definitions
  BY <1>1 DEF ObjectsTyped, Definitions, Declared
<1>3. /\ definitions' \in Seq(Definitions) /\ Len(definitions') = d
      /\ DOMAIN definitions' = 1 .. d /\ DOMAIN definitions = 1 .. Len(definitions)
      /\ \A o \in DOMAIN definitions : definitions'[o] = definitions[o]
      /\ definitions'[d] = definition
  BY <1>2, AppendFacts, LenProperties DEF Publish
<1>4. Len(definitions) \in Nat /\ MaxDefinitions \in Nat
  BY <1>2, LenProperties, ObjectsAssumption
<1>5. PICK e \in Nat : e = Len(definitions) + 1
  BY <1>4
<1>6. /\ DOMAIN definitions \subseteq DOMAIN definitions'
      /\ DOMAIN definitions' = DOMAIN definitions \cup {e} /\ e \notin DOMAIN definitions
      /\ definitions'[e] = definition
  BY <1>3, <1>4, <1>5
<1>7. /\ Structs \subseteq Structs' /\ DOMAIN definitions \cap Structs' = Structs
      /\ definition.kind = "struct" => e \in Structs'
  BY <1>3, <1>6 DEF Structs
<1>8. UNCHANGED <<instances, pending>>
  BY DEF Publish
<1>9. LiveValues \subseteq LiveValues'
  BY <1>6, <1>7, <1>8 DEF LiveValues
<1>10. \A o \in DOMAIN definitions : FieldsOf(o)' = FieldsOf(o)
  BY <1>3 DEF FieldsOf
<1>11. FieldsOf(e)' = definition.fields
  BY <1>6 DEF FieldsOf
<1>12. \A i \in DOMAIN instances : instances'[i] = instances[i] /\ instances[i].of \in DOMAIN definitions
  BY <1>8, InstanceFacts
<1>13. ObjectsTyped'
  <2>1. named' \in [Names -> 0 .. Len(definitions')]
    <3>1. 0 .. Len(definitions) \subseteq 0 .. e /\ e \in 0 .. e
      BY <1>4, <1>5
    <3>2. named \in [Names -> 0 .. e]
      BY <3>1, <1>1 DEF ObjectsTyped
    <3>3. named' = [named EXCEPT ![n] = e]
      BY <1>5 DEF Publish
    <3>4. QED
      BY <3>1, <3>2, <3>3, <1>3, <1>5
  <2>2. instances' \in Seq([of : Structs', values : UNION {[ms -> HeldValues] : ms \in SUBSET FieldNames}])
    <3>1. instances \in Seq([of : Structs, values : UNION {[ms -> HeldValues] : ms \in SUBSET FieldNames}])
      BY <1>1 DEF ObjectsTyped
    <3>2. [of : Structs, values : UNION {[ms -> HeldValues] : ms \in SUBSET FieldNames}] \subseteq
              [of : Structs', values : UNION {[ms -> HeldValues] : ms \in SUBSET FieldNames}]
      BY <1>7
    <3>3. QED
      BY <3>1, <3>2, <1>8, SeqMonotonic
  <2>3. pending' \in Seq([owner : DOMAIN instances', member : FieldNames])
    BY <1>1, <1>8 DEF ObjectsTyped
  <2>4. QED
    BY <2>1, <2>2, <2>3, <1>3 DEF ObjectsTyped, Definitions
<1>14. FieldsConform'
  <2>1. ASSUME NEW i \in DOMAIN instances', NEW k \in DOMAIN definitions'[instances'[i].of].fields
        PROVE  FieldMatches(definitions[instances[i].of].types[k],
                           instances[i].values[FieldsOf(instances[i].of)[k].name])'
    <3>1. i \in DOMAIN instances /\ instances[i].of \in DOMAIN definitions
      BY <1>8, <1>12
    <3>2. /\ definitions'[instances'[i].of].fields = FieldsOf(instances[i].of)
          /\ definitions'[instances'[i].of] = definitions[instances[i].of]
      BY <3>1, <1>3, <1>8, <1>10 DEF FieldsOf
    <3>3. k \in DOMAIN FieldsOf(instances[i].of)
      BY <3>2 DEF FieldsOf
    <3>4. PICK c, v : /\ c = definitions[instances[i].of].types[k]
                      /\ v = instances[i].values[FieldsOf(instances[i].of)[k].name]
      OBVIOUS
    <3>5. FieldMatches(c, v) /\ v \in LiveValues /\ c \in FieldContracts
      BY <3>1, <3>3, <3>4, <1>1, InstanceFacts, DefinitionFacts DEF FieldValue
    <3>6. FieldMatches(c, v)'
      BY <3>5, <1>8, MatchesStay
    <3>7. c = definitions'[instances'[i].of].types[k]
          /\ v = instances'[i].values[definitions'[instances'[i].of].fields[k].name]
      BY <3>2, <3>4, <1>8 DEF FieldsOf
    <3>8. QED
      BY <3>6, <3>7 DEF FieldsOf
  <2>2. ASSUME NEW i \in DOMAIN instances'
        PROVE  DOMAIN instances'[i].values =
                   {definitions'[instances'[i].of].fields[k].name : k \in DOMAIN definitions'[instances'[i].of].fields}
    <3>1. i \in DOMAIN instances /\ instances[i].of \in DOMAIN definitions
      BY <1>8, <1>12
    <3>2. definitions'[instances'[i].of].fields = FieldsOf(instances[i].of)
      BY <3>1, <1>3, <1>8, <1>10 DEF FieldsOf
    <3>3. QED
      BY <3>1, <3>2, <1>1, <1>8 DEF FieldsConform
  <2>3. QED
    BY <2>1, <2>2, <1>13 DEF FieldsConform, FieldsOf
<1>15. DefinitionInv'
  <2>1. Len(definitions') <= MaxDefinitions
    BY <1>3, <1>4
  <2>2. ASSUME NEW o \in DOMAIN definitions'
        PROVE  /\ Len(definitions'[o].types) = Len(FieldsOf(o)')
               /\ \A k, l \in DOMAIN FieldsOf(o)' :
                      FieldsOf(o)'[k].name = FieldsOf(o)'[l].name => k = l
    <3>1. CASE o \in DOMAIN definitions
      BY <3>1, <1>1, <1>3, <1>10 DEF DefinitionInv
    <3>2. CASE o = e
      BY <3>2, <1>6, <1>11 DEF Declared
    <3>3. QED
      BY <3>1, <3>2, <1>6
  <2>3. ASSUME NEW o \in DOMAIN definitions', NEW k \in DOMAIN FieldsOf(o)'
        PROVE  LET type == definitions'[o].types[k]
               IN /\ type.is = "nominal" => type.of \in 1 .. o
                  /\ type.is = "method" => type.self \in 1 .. o
                  /\ definitions'[o].whole /\ FieldsOf(o)'[k].embedded =>
                         type.is = "nominal" /\ type.of \in Structs'
    <3>1. CASE o \in DOMAIN definitions
      BY <3>1, <1>1, <1>3, <1>7, <1>10 DEF DefinitionInv
    <3>2. CASE o = e
      <4>1. k \in DOMAIN definition.fields /\ definitions'[o] = definition
            /\ FieldsOf(o)' = definition.fields
        BY <3>2, <2>3, <1>6, <1>11
      <4>2. Declared(definition, e, Structs)
        BY <1>5
      <4>3. QED
        BY <4>1, <4>2, <3>2, <1>7 DEF Declared
    <3>3. QED
      BY <3>1, <3>2, <1>6
  <2>4. QED
    BY <2>1, <2>2, <2>3 DEF DefinitionInv
<1>16. InstanceInv'
  <2>1. ASSUME NEW i \in DOMAIN instances'
        PROVE  /\ \A m \in DOMAIN instances'[i].values : instances'[i].values[m] \in LiveValues'
               /\ \A k \in DOMAIN definitions'[instances'[i].of].fields :
                      definitions'[instances'[i].of].whole /\ definitions'[instances'[i].of].fields[k].embedded =>
                          definitions'[instances'[i].of].types[k] # Nominal(instances'[i].of)
    <3>1. i \in DOMAIN instances /\ instances[i].of \in DOMAIN definitions
      BY <1>8, <1>12
    <3>2. /\ definitions'[instances'[i].of].fields = FieldsOf(instances[i].of)
          /\ definitions'[instances'[i].of] = definitions[instances[i].of]
      BY <3>1, <1>3, <1>8, <1>10 DEF FieldsOf
    <3>3. QED
      BY <3>1, <3>2, <1>1, <1>8, <1>9 DEF InstanceInv
  <2>2. QED
    BY <2>1, <1>1, <1>8 DEF InstanceInv, FieldsOf
<1>17. PendingInv'
  <2>1. \A k \in DOMAIN pending : pending[k].owner \in DOMAIN instances
    BY <1>1, PendingFacts
  <2>2. QED
    BY <2>1, <1>1, <1>8, <1>10, <1>12 DEF PendingInv, Declares
<1>18. QED
  BY <1>14, <1>15, <1>16, <1>17 DEF ObjectsInv

LEMMA ResolvedFacts ==
  ASSUME NEW d \in Nat, d <= MaxDefinitions, MaxDefinitions \in Nat,
         NEW scope \in [Names -> 0 .. d], NEW annotation \in Annotations,
         Resolves(annotation, scope)
  PROVE  /\ Resolved(annotation, scope) \in FieldContracts
         /\ Resolved(annotation, scope).is = "nominal" => Resolved(annotation, scope).of \in 1 .. d
         /\ Resolved(annotation, scope).is = "method" => Resolved(annotation, scope).self \in 1 .. d
<1>1. CASE annotation \in {Unannotated, Plain}
  <2>1. Resolved(annotation, scope) = annotation
    BY <1>1 DEF Resolved, Unannotated, Plain
  <2>2. QED
    BY <1>1, <2>1 DEF FieldContracts, Unannotated, Plain
<1>2. CASE \E n \in Names : annotation = Nominal(n)
  <2>1. PICK n \in Names : annotation = Nominal(n)
    BY <1>2
  <2>2. annotation.is = "nominal" /\ annotation.of = n
    BY <2>1 DEF Nominal
  <2>3. Resolved(annotation, scope) = Nominal(scope[n])
    BY <2>2 DEF Resolved
  <2>4. scope[n] # 0 /\ scope[n] \in 0 .. d
    BY <2>2 DEF Resolves
  <2>5. scope[n] \in 1 .. d /\ scope[n] \in 1 .. MaxDefinitions
    BY <2>4
  <2>6. Nominal(scope[n]).is = "nominal" /\ Nominal(scope[n]).of = scope[n]
    BY DEF Nominal
  <2>7. QED
    BY <2>3, <2>5, <2>6 DEF FieldContracts
<1>3. CASE \E n \in Names : annotation = Method(n)
  <2>1. PICK n \in Names : annotation = Method(n)
    BY <1>3
  <2>2. annotation.is = "method" /\ annotation.self = n
    BY <2>1 DEF Method
  <2>3. Resolved(annotation, scope) = Method(scope[n])
    BY <2>2 DEF Resolved
  <2>4. scope[n] # 0 /\ scope[n] \in 0 .. d
    BY <2>2 DEF Resolves
  <2>5. scope[n] \in 1 .. d /\ scope[n] \in 1 .. MaxDefinitions
    BY <2>4
  <2>6. Method(scope[n]).is = "method" /\ Method(scope[n]).self = scope[n]
    BY DEF Method
  <2>7. QED
    BY <2>3, <2>5, <2>6 DEF FieldContracts
<1>4. QED
  BY <1>1, <1>2, <1>3 DEF Annotations

\* A function on an interval is a sequence of that length.
LEMMA IntervalSeq ==
  ASSUME NEW S, NEW n \in Nat, NEW s \in [1 .. n -> S]
  PROVE  s \in Seq(S) /\ Len(s) = n
<1>1. s \in Seq(S)
  BY SeqDef
<1>2. DOMAIN s = 1 .. Len(s) /\ Len(s) \in Nat /\ DOMAIN s = 1 .. n
  BY <1>1, LenProperties
<1>3. \A a, b \in Nat : 1 .. a = 1 .. b => a = b
  <2>1. SUFFICES ASSUME NEW a \in Nat, NEW b \in Nat, 1 .. a = 1 .. b PROVE a = b
    OBVIOUS
  <2>2. (a # 0 => a \in 1 .. a) /\ (b # 0 => b \in 1 .. b)
    OBVIOUS
  <2>3. (a # 0 => a \in 1 .. b) /\ (b # 0 => b \in 1 .. a)
    BY <2>1, <2>2
  <2>4. QED
    BY <2>3
<1>4. QED
  BY <1>1, <1>2, <1>3

LEMMA StructKeeps ==
  ASSUME ObjectsInv, NEW n \in Names, NEW layout \in Layouts[n], EvalStructType(n, layout)
  PROVE  ObjectsInv'
<1>1. ObjectsTyped /\ DefinitionInv /\ Len(definitions) \in Nat /\ MaxDefinitions \in Nat
      /\ DOMAIN definitions = 1 .. Len(definitions)
  <2>1. ObjectsTyped /\ DefinitionInv
    BY DEF ObjectsInv, FieldsConform
  <2>2. definitions \in Seq(Definitions)
    BY <2>1 DEF ObjectsTyped, Definitions
  <2>3. QED
    BY <2>1, <2>2, LenProperties, ObjectsAssumption
<1>2. Len(definitions) < MaxDefinitions
  BY DEF EvalStructType
<1>3. PICK d \in Nat : d = Len(definitions) + 1
  BY <1>1
<1>4. PICK scope : scope = [named EXCEPT ![n] = d]
  OBVIOUS
<1>5. scope \in [Names -> 0 .. d] /\ d <= MaxDefinitions
  <2>1. 0 .. Len(definitions) \subseteq 0 .. d /\ d \in 0 .. d /\ d <= MaxDefinitions
    BY <1>1, <1>2, <1>3
  <2>2. QED
    BY <2>1, <1>1, <1>4 DEF ObjectsTyped
<1>6. /\ layout \in Seq([name : FieldNames, type : Annotations, embedded : BOOLEAN])
      /\ \A k, o \in DOMAIN layout : layout[k].name = layout[o].name => k = o
  BY ObjectsAssumption
<1>7. /\ DOMAIN layout = 1 .. Len(layout) /\ Len(layout) \in Nat
      /\ \A k \in DOMAIN layout : layout[k] \in [name : FieldNames, type : Annotations, embedded : BOOLEAN]
  <2> DEFINE Record == [name : FieldNames, type : Annotations, embedded : BOOLEAN]
  <2>1. layout \in Seq(Record)
    BY <1>6
  <2> HIDE DEF Record
  <2>2. /\ DOMAIN layout = 1 .. Len(layout) /\ Len(layout) \in Nat
        /\ \A k \in DOMAIN layout : layout[k] \in Record
    BY <2>1, LenProperties, ElementOfSeq
  <2>3. QED
    BY <2>2 DEF Record
<1> DEFINE fields == [k \in DOMAIN layout |-> [name |-> layout[k].name, embedded |-> layout[k].embedded]]
           types == CapturedTypes(layout, scope, d)
           whole == \A k \in DOMAIN layout : ~FieldFails(layout[k], scope, d)
           definition == [kind |-> "struct", name |-> n, fields |-> fields, types |-> types, whole |-> whole]
<1>8. Publish(n, definition)
  BY <1>3, <1>4 DEF EvalStructType
<1>9. ASSUME NEW k \in DOMAIN layout
      PROVE  /\ types[k] \in FieldContracts
             /\ types[k].is = "nominal" => types[k].of \in 1 .. d
             /\ types[k].is = "method" => types[k].self \in 1 .. d
  <2>1. CASE /\ \A earlier \in 1 .. k - 1 : ~FieldFails(layout[earlier], scope, d)
             /\ Resolves(layout[k].type, scope)
    <3>1. types[k] = Resolved(layout[k].type, scope)
      BY <2>1 DEF CapturedTypes
    <3>2. layout[k].type \in Annotations
      BY <1>7
    <3>3. QED
      BY <3>1, <3>2, <2>1, <1>1, <1>5, ResolvedFacts
  <2>2. CASE ~ (/\ \A earlier \in 1 .. k - 1 : ~FieldFails(layout[earlier], scope, d)
                /\ Resolves(layout[k].type, scope))
    <3>1. types[k] = Unannotated
      BY <2>2 DEF CapturedTypes
    <3>2. QED
      BY <3>1 DEF FieldContracts, Unannotated
  <2>3. QED
    BY <2>1, <2>2
<1>10. ASSUME whole, NEW k \in DOMAIN layout, layout[k].embedded
       PROVE  types[k].is = "nominal" /\ (types[k].of \in Structs \/ types[k].of = d)
  <2>1. ~FieldFails(layout[k], scope, d)
    BY <1>10
  <2>2. Resolves(layout[k].type, scope) /\ Embeds(Resolved(layout[k].type, scope), d)
    BY <2>1, <1>10 DEF FieldFails
  <2>3. \A earlier \in 1 .. k - 1 : earlier \in DOMAIN layout
    BY <1>7
  <2>4. types[k] = Resolved(layout[k].type, scope)
    BY <2>2, <2>3, <1>10 DEF CapturedTypes
  <2>5. types[k].is = "nominal" /\ (types[k].of = d \/ definitions[types[k].of].kind = "struct")
    BY <2>2, <2>4 DEF Embeds
  <2>6. types[k].of \in 1 .. d
    BY <2>5, <1>9, <1>10
  <2>7. types[k].of # d => types[k].of \in DOMAIN definitions
    BY <2>6, <1>1, <1>3
  <2>8. QED
    BY <2>5, <2>7 DEF Structs
<1>11. fields \in Seq([name : FieldNames, embedded : BOOLEAN]) /\ Len(fields) = Len(layout)
  <2>1. fields \in [1 .. Len(layout) -> [name : FieldNames, embedded : BOOLEAN]]
    BY <1>7
  <2> HIDE DEF fields
  <2>2. QED
    BY <2>1, <1>7, IntervalSeq
<1>12. types \in Seq(FieldContracts) /\ Len(types) = Len(layout)
  <2>1. types \in [1 .. Len(layout) -> FieldContracts]
    <3>1. types = [k \in 1 .. Len(layout) |-> types[k]]
      BY <1>7 DEF CapturedTypes
    <3> HIDE DEF types
    <3>2. QED
      BY <3>1, <1>7, <1>9
  <2> HIDE DEF types
  <2>2. QED
    BY <2>1, <1>7, IntervalSeq
<1>13. \A k \in DOMAIN layout : fields[k].name = layout[k].name /\ fields[k].embedded = layout[k].embedded
  OBVIOUS
<1>14. DOMAIN fields = DOMAIN layout /\ whole \in BOOLEAN
  OBVIOUS
<1> HIDE DEF fields, types, whole
<1>15. Declared(definition, d, Structs)
  <2>1. definition \in Definitions
    BY <1>11, <1>12, <1>14 DEF Definitions
  <2>2. /\ definition.kind = "struct" /\ definition.fields = fields
        /\ definition.types = types /\ definition.whole = whole
    OBVIOUS
  <2> HIDE DEF definition
  <2>3. QED
    BY <2>1, <2>2, <1>6, <1>9, <1>10, <1>11, <1>12, <1>13, <1>14 DEF Declared
<1>16. QED
  BY <1>2, <1>3, <1>8, <1>15, PublishKeeps

LEMMA EnumKeeps ==
  ASSUME ObjectsInv, NEW n \in EnumNames, EvalEnumType(n)
  PROVE  ObjectsInv'
<1> DEFINE definition == [kind |-> "enum", name |-> n, fields |-> <<>>, types |-> <<>>, whole |-> TRUE]
<1>1. n \in Names /\ Len(definitions) < MaxDefinitions /\ Publish(n, definition)
  BY ObjectsAssumption DEF EvalEnumType
<1>2. /\ <<>> \in Seq([name : FieldNames, embedded : BOOLEAN]) /\ <<>> \in Seq(FieldContracts)
      /\ DOMAIN <<>> = {}
  BY EmptySeq
<1>3. Declared(definition, Len(definitions) + 1, Structs)
  BY <1>1, <1>2 DEF Declared, Definitions
<1>4. QED
  BY <1>1, <1>3, PublishKeeps

-----------------------------------------------------------------------------
(* Constructions and assignments keep the invariant.                       *)

\* What is defined stays when only instances change.
LEMMA SameDefinitions ==
  ASSUME ObjectsInv, UNCHANGED <<definitions, named>>
  PROVE  /\ DefinitionInv' /\ Structs' = Structs
         /\ \A d \in DOMAIN definitions : FieldsOf(d)' = FieldsOf(d)
         /\ definitions' \in Seq(Definitions) /\ named' \in [Names -> 0 .. Len(definitions')]
<1>1. ObjectsTyped /\ DefinitionInv
  BY DEF ObjectsInv, FieldsConform
<1>2. Structs' = Structs
  BY DEF Structs
<1>3. DefinitionInv'
  BY <1>1, <1>2 DEF DefinitionInv, FieldsOf
<1>4. \A d \in DOMAIN definitions : FieldsOf(d)' = FieldsOf(d)
  BY DEF FieldsOf
<1>5. QED
  BY <1>1, <1>2, <1>3, <1>4 DEF ObjectsTyped, Definitions

LEMMA ApplyKeeps ==
  ASSUME ObjectsInv, NEW d \in Structs, NEW values \in [DOMAIN FieldsOf(d) -> MemberValues],
         ApplyStruct(d, values)
  PROVE  ObjectsInv'
<1> DEFINE Record == [of : Structs, values : UNION {[ms -> HeldValues] : ms \in SUBSET FieldNames}]
           Names_ == {FieldsOf(d)[k].name : k \in DOMAIN FieldsOf(d)}
           held == [m \in Names_ |-> values[IndexOf(d, m)]]
           fresh == [of |-> d, values |-> held]
<1>1. ObjectsTyped /\ FieldsConform /\ DefinitionInv /\ InstanceInv /\ PendingInv
  BY DEF ObjectsInv, FieldsConform
<1>2. UNCHANGED <<definitions, named, pending>> /\ instances' = Append(instances, fresh)
  BY DEF ApplyStruct
<1>3. /\ DefinitionInv' /\ Structs' = Structs
      /\ \A o \in DOMAIN definitions : FieldsOf(o)' = FieldsOf(o)
      /\ definitions' \in Seq(Definitions) /\ named' \in [Names -> 0 .. Len(definitions')]
  BY <1>2, SameDefinitions
<1>4. d \in DOMAIN definitions
  BY DEF Structs
<1>5. \A k \in DOMAIN FieldsOf(d) :
          /\ FieldsOf(d)[k].name \in Names_ /\ FieldsOf(d)[k].name \in FieldNames
          /\ held[FieldsOf(d)[k].name] = values[k]
  BY <1>1, <1>4, IndexFacts, DefinitionFacts
<1>6. \A m \in Names_ : \E k \in DOMAIN FieldsOf(d) : m = FieldsOf(d)[k].name /\ held[m] = values[k]
  BY <1>5
<1>7. \A k \in DOMAIN FieldsOf(d) : values[k] \in LiveValues /\ values[k] \in HeldValues
  BY ValuesLive, LiveAreHeld
<1>8. \A m \in Names_ : held[m] \in LiveValues /\ held[m] \in HeldValues
  BY <1>6, <1>7
<1>9. held \in [Names_ -> HeldValues] /\ Names_ \in SUBSET FieldNames
  <2>1. Names_ \in SUBSET FieldNames
    BY <1>5
  <2> HIDE DEF Names_
  <2>2. QED
    BY <2>1, <1>8
<1> HIDE DEF held
<1>10. fresh \in Record
  BY <1>9
<1>11. fresh.of = d /\ fresh.values = held
  OBVIOUS
<1>12. instances \in Seq(Record)
  BY <1>1 DEF ObjectsTyped
<1> HIDE DEF Record, fresh
<1>13. PICK j \in Nat : j = Len(instances) + 1
  BY <1>12, LenProperties
<1>14. /\ instances' \in Seq(Record) /\ Len(instances') = j /\ Len(instances) \in Nat
       /\ DOMAIN instances' = 1 .. j /\ DOMAIN instances = 1 .. Len(instances)
       /\ \A i \in DOMAIN instances : instances'[i] = instances[i]
       /\ instances'[j] = fresh
  BY <1>2, <1>10, <1>12, <1>13, AppendFacts, LenProperties
<1>15. /\ DOMAIN instances \subseteq DOMAIN instances' /\ j \notin DOMAIN instances
       /\ DOMAIN instances' = DOMAIN instances \cup {j}
  BY <1>13, <1>14
<1>16. LiveValues \subseteq LiveValues'
  BY <1>2, <1>3, <1>15 DEF LiveValues
<1>17. \A i \in DOMAIN instances : instances[i].of \in DOMAIN definitions
  BY InstanceFacts
<1>18. ObjectsTyped'
  <2>1. instances' \in Seq([of : Structs', values : UNION {[ms -> HeldValues] : ms \in SUBSET FieldNames}])
    BY <1>3, <1>14 DEF Record
  <2>2. pending' \in Seq([owner : DOMAIN instances', member : FieldNames])
    <3>1. pending \in Seq([owner : DOMAIN instances, member : FieldNames])
      BY <1>1 DEF ObjectsTyped
    <3>2. [owner : DOMAIN instances, member : FieldNames] \subseteq
              [owner : DOMAIN instances', member : FieldNames]
      BY <1>15
    <3>3. pending \in Seq([owner : DOMAIN instances', member : FieldNames])
      BY ONLY <3>1, <3>2, SeqMonotonic
    <3>4. QED
      BY <3>3, <1>2
  <2>3. QED
    BY <2>1, <2>2, <1>3 DEF ObjectsTyped, Definitions
<1>19. FieldsConform'
  <2>1. ASSUME NEW i \in DOMAIN instances'
        PROVE  DOMAIN instances'[i].values =
                   {definitions'[instances'[i].of].fields[k].name : k \in DOMAIN definitions'[instances'[i].of].fields}
    <3>1. CASE i \in DOMAIN instances
      BY <3>1, <1>1, <1>2, <1>14 DEF FieldsConform, FieldsOf
    <3>2. CASE i = j
      <4>1. instances'[i].of = d /\ instances'[i].values = held
        BY <3>2, <1>11, <1>14
      <4>2. definitions'[d].fields = FieldsOf(d)
        BY <1>2 DEF FieldsOf
      <4>3. DOMAIN held = {FieldsOf(d)[k].name : k \in DOMAIN FieldsOf(d)}
        BY <1>9
      <4>4. QED
        BY <4>1, <4>2, <4>3
    <3>3. QED
      BY <3>1, <3>2, <1>15
  <2>2. ASSUME NEW i \in DOMAIN instances', NEW k \in DOMAIN definitions'[instances'[i].of].fields
        PROVE  FieldMatches(definitions[instances[i].of].types[k],
                           instances[i].values[definitions[instances[i].of].fields[k].name])'
    <3>1. PICK c, v : /\ c = definitions'[instances'[i].of].types[k]
                      /\ v = instances'[i].values[definitions'[instances'[i].of].fields[k].name]
      OBVIOUS
    <3>2. c \in FieldContracts /\ FieldMatches(c, v) /\ v \in LiveValues
      <4>1. CASE i \in DOMAIN instances
        <5>1. /\ instances'[i] = instances[i] /\ k \in DOMAIN FieldsOf(instances[i].of)
              /\ instances[i].of \in DOMAIN definitions
          BY <4>1, <2>2, <1>2, <1>14, <1>17 DEF FieldsOf
        <5>2. c = definitions[instances[i].of].types[k] /\ v = FieldValue(i, k)
          BY <5>1, <3>1, <1>2 DEF FieldValue, FieldsOf
        <5>3. QED
          BY <4>1, <5>1, <5>2, <1>1, InstanceFacts, DefinitionFacts
      <4>2. CASE i = j
        <5>1. k \in DOMAIN FieldsOf(d) /\ c = definitions[d].types[k]
              /\ v = held[FieldsOf(d)[k].name]
          BY <4>2, <2>2, <3>1, <1>2, <1>11, <1>14 DEF FieldsOf
        <5>2. v = values[k]
          BY <5>1, <1>5 DEF held
        <5>3. FieldMatches(definitions[d].types[k], values[k])
          BY <5>1 DEF ApplyStruct
        <5>4. QED
          BY <5>1, <5>2, <5>3, <1>1, <1>4, <1>7, DefinitionFacts
      <4>3. QED
        BY <4>1, <4>2, <1>15
    <3>3. FieldMatches(c, v)'
      BY <3>2, <1>14, MatchesStay
    <3>4. QED
      BY <3>1, <3>3
  <2>3. QED
    BY <2>1, <2>2, <1>18 DEF FieldsConform, FieldsOf
<1>20. InstanceInv'
  <2>1. Len(instances') <= MaxInstances
    BY <1>13, <1>14, ObjectsAssumption DEF ApplyStruct
  <2>2. ASSUME NEW i \in DOMAIN instances', NEW m \in DOMAIN instances'[i].values
        PROVE  instances'[i].values[m] \in LiveValues'
    <3>1. CASE i \in DOMAIN instances
      BY <2>2, <3>1, <1>1, <1>14, <1>16 DEF InstanceInv
    <3>2. CASE i = j
      BY <2>2, <3>2, <1>8, <1>9, <1>11, <1>14, <1>16
    <3>3. QED
      BY <3>1, <3>2, <1>15
  <2>3. ASSUME NEW i \in DOMAIN instances', NEW k \in DOMAIN definitions'[instances'[i].of].fields,
               definitions'[instances'[i].of].whole, definitions'[instances'[i].of].fields[k].embedded
        PROVE  definitions'[instances'[i].of].types[k] # Nominal(instances'[i].of)
    <3>1. CASE i \in DOMAIN instances
      BY <2>3, <3>1, <1>1, <1>2, <1>14 DEF InstanceInv, FieldsOf
    <3>2. CASE i = j
      \* The value of the field would be an instance of d, of which there would
      \* be one already, or an enum member, which d is not.
      <4>1. k \in DOMAIN FieldsOf(d) /\ definitions[d].whole /\ FieldsOf(d)[k].embedded
            /\ definitions'[instances'[i].of] = definitions[d] /\ instances'[i].of = d
        BY <2>3, <3>2, <1>2, <1>11, <1>14 DEF FieldsOf
      <4>2. ASSUME definitions[d].types[k] = Nominal(d) PROVE FALSE
        <5>1. FieldMatches(Nominal(d), values[k])
          BY <4>1, <4>2 DEF ApplyStruct
        <5>2. NominalMatches(Nominal(d), values[k])
          BY <5>1 DEF FieldMatches, Nominal
        <5>3. \/ values[k].is = "instance" /\ instances[values[k].of].of = d
              \/ values[k] = EnumMember(d)
          BY <5>2 DEF NominalMatches, Nominal
        <5>4. values[k] \in LiveValues
          BY <4>1, <1>7
        <5>5. CASE values[k] = EnumMember(d)
          <6>1. values[k].is = "member" /\ values[k].of = d
            BY <5>5 DEF EnumMember
          <6>2. d \in DOMAIN definitions \ Structs
            BY <5>4, <6>1 DEF LiveValues, Plain, Value, EnumMember, MethodFunction, BoundTo
          <6>3. QED
            BY <6>2
        <5>6. CASE values[k].is = "instance" /\ instances[values[k].of].of = d
          <6>1. values[k].of \in DOMAIN instances
            BY <5>4, <5>6 DEF LiveValues, Plain, Value, EnumMember, MethodFunction, BoundTo
          <6>2. definitions[d].types[k] # Nominal(d)
            BY <4>1, <5>6, <6>1, <1>1 DEF InstanceInv
          <6>3. QED
            BY <4>2, <6>2
        <5>7. QED
          BY <5>3, <5>5, <5>6
      <4>3. QED
        BY <4>1, <4>2
    <3>3. QED
      BY <3>1, <3>2, <1>15
  <2>4. QED
    BY <2>1, <2>2, <2>3 DEF InstanceInv, FieldsOf
<1>21. PendingInv'
  <2>1. \A k \in DOMAIN pending : pending[k].owner \in DOMAIN instances
    BY <1>1, PendingFacts
  <2>2. QED
    BY <2>1, <1>1, <1>2, <1>14 DEF PendingInv, Declares, FieldsOf
<1>22. QED
  BY <1>3, <1>19, <1>20, <1>21 DEF ObjectsInv

LEMMA FrontFacts ==
  ASSUME NEW S, NEW s \in Seq(S), s # <<>>
  PROVE  /\ Last(s) = s[Len(s)] /\ Len(s) \in DOMAIN s
         /\ Front(s) \in Seq(S)
         /\ \A k \in DOMAIN Front(s) : k \in DOMAIN s /\ Front(s)[k] = s[k]
<1>1. Len(s) \in Nat \ {0} /\ DOMAIN s = 1 .. Len(s) /\ \A i \in 1 .. Len(s) : s[i] \in S
  BY EmptySeq, LenProperties, ElementOfSeq
<1>2. PICK n \in Nat : n = Len(s) - 1
  <2>1. Len(s) - 1 \in Nat
    BY <1>1
  <2>2. QED
    BY <2>1
<1>3. \A i \in 1 .. n : s[i] \in S /\ i \in 1 .. Len(s)
  BY <1>1, <1>2
<1>4. /\ SubSeq(s, 1, n) \in Seq(S)
      /\ Len(SubSeq(s, 1, n)) = IF 1 <= n THEN n - 1 + 1 ELSE 0
      /\ \A i \in 1 .. n - 1 + 1 : SubSeq(s, 1, n)[i] = s[1 + i - 1]
  <2>1. n \in Int /\ 1 \in Int
    OBVIOUS
  <2>2. QED
    BY <2>1, <1>3, SubSeqProperties
<1>5. Len(SubSeq(s, 1, n)) = n /\ n - 1 + 1 = n
  BY <1>2, <1>4
<1>6. DOMAIN SubSeq(s, 1, n) = 1 .. n
  BY <1>4, <1>5, LenProperties
<1>7. \A i \in 1 .. n : SubSeq(s, 1, n)[i] = s[i]
  <2>1. \A i \in 1 .. n : i \in 1 .. n - 1 + 1 /\ 1 + i - 1 = i
    BY <1>5
  <2>2. QED
    BY <2>1, <1>4
<1>8. Front(s) = SubSeq(s, 1, n)
  BY <1>2 DEF Front
<1>9. QED
  BY <1>1, <1>3, <1>4, <1>6, <1>7, <1>8 DEF Last

LEMMA SameConform ==
  ASSUME FieldsConform, ObjectsTyped', UNCHANGED <<definitions, instances>>
  PROVE  FieldsConform'
<1>1. ASSUME NEW i \in DOMAIN instances', NEW k \in DOMAIN definitions'[instances'[i].of].fields
      PROVE  FieldMatches(definitions[instances[i].of].types[k],
                         instances[i].values[definitions[instances[i].of].fields[k].name])'
  <2>1. PICK c, v : /\ c = definitions[instances[i].of].types[k]
                    /\ v = instances[i].values[definitions[instances[i].of].fields[k].name]
    OBVIOUS
  <2>2. FieldMatches(c, v)
    BY <1>1, <2>1 DEF FieldsConform, FieldsOf
  <2>3. FieldMatches(c, v)' = FieldMatches(c, v)
    BY DEF FieldMatches, NominalMatches, Callable, Accepts
  <2>4. QED
    BY <2>1, <2>2, <2>3
<1>2. ASSUME NEW i \in DOMAIN instances'
      PROVE  DOMAIN instances'[i].values =
                 {definitions'[instances'[i].of].fields[k].name : k \in DOMAIN definitions'[instances'[i].of].fields}
  BY DEF FieldsConform, FieldsOf
<1>3. QED
  BY <1>1, <1>2 DEF FieldsConform, FieldsOf

LEMMA BeginKeeps ==
  ASSUME ObjectsInv, NEW i \in DOMAIN instances, NEW m \in Members, BeginAssignment(i, m)
  PROVE  ObjectsInv'
<1> DEFINE Record == [owner : DOMAIN instances, member : FieldNames]
           fresh == [owner |-> Owner(i, m), member |-> m]
<1>1. ObjectsTyped /\ FieldsConform /\ DefinitionInv /\ InstanceInv /\ PendingInv
  BY DEF ObjectsInv, FieldsConform
<1>2. UNCHANGED <<definitions, named, instances>> /\ pending' = Append(pending, fresh)
  BY DEF BeginAssignment
<1>3. Owner(i, m) \in DOMAIN instances /\ Declares(instances[Owner(i, m)].of, m)
  BY LookupFacts DEF BeginAssignment
<1>4. m \in FieldNames
  <2>1. PICK d \in Structs : m \in {FieldsOf(d)[k].name : k \in DOMAIN FieldsOf(d)}
    BY DEF Members
  <2>2. d \in DOMAIN definitions
    BY DEF Structs
  <2>3. QED
    BY <2>1, <2>2, <1>1, DefinitionFacts
<1>5. fresh \in Record /\ fresh.owner = Owner(i, m) /\ fresh.member = m
  BY <1>3, <1>4
<1>6. pending \in Seq(Record)
  BY <1>1 DEF ObjectsTyped
<1> HIDE DEF Record, fresh
<1>7. PICK o \in Nat : o = Len(pending)
  BY <1>6, LenProperties
<1>8. /\ pending' \in Seq(Record)
      /\ DOMAIN pending' = 1 .. o + 1 /\ DOMAIN pending = 1 .. o
      /\ \A k \in DOMAIN pending : pending'[k] = pending[k]
      /\ pending'[o + 1] = fresh
  BY <1>2, <1>5, <1>6, <1>7, AppendFacts, LenProperties
<1>9. DOMAIN pending' = DOMAIN pending \cup {o + 1}
  BY <1>7, <1>8
<1>10. PendingInv'
  <2>1. ASSUME NEW k \in DOMAIN pending'
        PROVE  Declares(instances[pending'[k].owner].of, pending'[k].member)
    <3>1. CASE k \in DOMAIN pending
      BY <3>1, <1>1, <1>8 DEF PendingInv
    <3>2. CASE k = o + 1
      BY <3>2, <1>3, <1>5, <1>8
    <3>3. QED
      BY <3>1, <3>2, <1>9
  <2>2. QED
    BY <2>1, <1>2 DEF PendingInv, Declares, FieldsOf
<1>11. ObjectsTyped'
  BY <1>1, <1>2, <1>8 DEF ObjectsTyped, Structs, Record
<1>12. FieldsConform'
  BY <1>1, <1>2, <1>11, SameConform
<1>13. DefinitionInv' /\ InstanceInv'
  BY <1>1, <1>2 DEF DefinitionInv, InstanceInv, FieldsOf, Structs, LiveValues
<1>14. QED
  BY <1>10, <1>12, <1>13 DEF ObjectsInv

\* Of the assignments that wait, the last is no longer one of them.
LEMMA FrontPending ==
  ASSUME ObjectsInv, pending # <<>>, pending' = Front(pending),
         DOMAIN instances' = DOMAIN instances,
         \A i \in DOMAIN instances : instances'[i].of = instances[i].of,
         UNCHANGED definitions
  PROVE  /\ Len(pending) \in DOMAIN pending /\ Last(pending) = pending[Len(pending)]
         /\ pending' \in Seq([owner : DOMAIN instances', member : FieldNames])
         /\ PendingInv'
<1> DEFINE Record == [owner : DOMAIN instances, member : FieldNames]
<1>1. ObjectsTyped /\ PendingInv
  BY DEF ObjectsInv, FieldsConform
<1>2. pending \in Seq(Record)
  BY <1>1 DEF ObjectsTyped
<1> HIDE DEF Record
<1>3. /\ Last(pending) = pending[Len(pending)] /\ Len(pending) \in DOMAIN pending
      /\ pending' \in Seq(Record)
      /\ \A k \in DOMAIN pending' : k \in DOMAIN pending /\ pending'[k] = pending[k]
  BY <1>2, FrontFacts
<1>4. PendingInv'
  <2>1. ASSUME NEW k \in DOMAIN pending'
        PROVE  \E l \in DOMAIN definitions'[instances'[pending'[k].owner].of].fields :
                   definitions'[instances'[pending'[k].owner].of].fields[l].name = pending'[k].member
    <3>1. k \in DOMAIN pending /\ pending'[k] = pending[k] /\ pending[k].owner \in DOMAIN instances
      BY <2>1, <1>1, <1>3, PendingFacts
    <3>2. Declares(instances[pending[k].owner].of, pending[k].member)
      BY <3>1, <1>1 DEF PendingInv
    <3>3. QED
      BY <3>1, <3>2 DEF Declares, FieldsOf
  <2>2. QED
    BY <2>1 DEF PendingInv, Declares, FieldsOf
<1>5. QED
  BY <1>3, <1>4 DEF Record

LEMMA FailKeeps ==
  ASSUME ObjectsInv, AssignmentFails
  PROVE  ObjectsInv'
<1>1. ObjectsTyped /\ FieldsConform /\ DefinitionInv /\ InstanceInv
  BY DEF ObjectsInv, FieldsConform
<1>2. UNCHANGED <<definitions, named, instances>> /\ pending # <<>> /\ pending' = Front(pending)
  BY DEF AssignmentFails
<1>3. PendingInv' /\ pending' \in Seq([owner : DOMAIN instances', member : FieldNames])
  BY <1>2, FrontPending
<1>4. ObjectsTyped'
  BY <1>1, <1>2, <1>3 DEF ObjectsTyped, Structs
<1>5. FieldsConform'
  BY <1>1, <1>2, <1>4, SameConform
<1>6. DefinitionInv' /\ InstanceInv'
  BY <1>1, <1>2 DEF DefinitionInv, InstanceInv, FieldsOf, Structs, LiveValues
<1>7. QED
  BY <1>3, <1>5, <1>6 DEF ObjectsInv

LEMMA EndKeeps ==
  ASSUME ObjectsInv, NEW v \in MemberValues, EndAssignment(v)
  PROVE  ObjectsInv'
<1> DEFINE Record == [of : Structs, values : UNION {[ms -> HeldValues] : ms \in SUBSET FieldNames}]
<1>1. ObjectsTyped /\ FieldsConform /\ DefinitionInv /\ InstanceInv /\ PendingInv
  BY DEF ObjectsInv, FieldsConform
<1>2. UNCHANGED <<definitions, named>> /\ pending # <<>> /\ pending' = Front(pending)
  BY DEF EndAssignment
<1>3. PICK j, m : j = Last(pending).owner /\ m = Last(pending).member
  OBVIOUS
<1>4. /\ FieldMatches(ContractOf(j, m), v)
      /\ instances' = [instances EXCEPT ![j].values[m] = v]
  BY <1>3 DEF EndAssignment, AssignmentContract
<1>5. Len(pending) \in DOMAIN pending /\ Last(pending) = pending[Len(pending)]
  <2>1. pending \in Seq([owner : DOMAIN instances, member : FieldNames])
    BY <1>1 DEF ObjectsTyped
  <2>2. QED
    BY ONLY <2>1, <1>2, FrontFacts
<1>6. j \in DOMAIN instances /\ m \in FieldNames /\ Declares(instances[j].of, m)
  BY <1>1, <1>3, <1>5, PendingFacts DEF PendingInv
<1>7. v \in LiveValues /\ v \in HeldValues
  BY ValuesLive, LiveAreHeld
<1> DEFINE d == instances[j].of
           x == IndexOf(d, m)
           changed == [instances[j] EXCEPT !.values[m] = v]
<1>8. d \in DOMAIN definitions
  BY <1>6, InstanceFacts
<1>9. x \in DOMAIN FieldsOf(d) /\ FieldsOf(d)[x].name = m
  BY <1>1, <1>6, <1>8, IndexFacts
<1>10. instances \in Seq(Record)
  BY <1>1 DEF ObjectsTyped
<1>11. DOMAIN instances = 1 .. Len(instances) /\ instances[j] \in Record
  <2> HIDE DEF Record
  <2>1. QED
    BY <1>6, <1>10, LenProperties, ElementOfSeq
<1>12. /\ instances' = [instances EXCEPT ![j] = changed]
       /\ changed.of = d /\ changed.values = [instances[j].values EXCEPT ![m] = v]
  BY <1>4, <1>6, <1>11
<1>13. changed \in Record
  <2>1. PICK ms \in SUBSET FieldNames : instances[j].values \in [ms -> HeldValues]
    BY <1>11
  <2>2. [instances[j].values EXCEPT ![m] = v] \in [ms -> HeldValues]
    BY <2>1, <1>7
  <2>3. [instances[j].values EXCEPT ![m] = v] \in UNION {[s -> HeldValues] : s \in SUBSET FieldNames}
    BY <2>2
  <2>4. changed = [of |-> d, values |-> [instances[j].values EXCEPT ![m] = v]]
    BY <1>11
  <2>5. QED
    BY <2>3, <2>4, <1>11
<1> HIDE DEF Record, changed
<1>14. /\ instances' \in Seq(Record) /\ Len(instances') = Len(instances)
       /\ \A i \in DOMAIN instances : instances'[i] = IF i = j THEN changed ELSE instances[i]
  BY <1>6, <1>10, <1>11, <1>12, <1>13, ExceptSeq
<1>15. DOMAIN instances' = DOMAIN instances
  BY <1>12
<1>16. \A i \in DOMAIN instances : instances'[i].of = instances[i].of
  BY <1>12, <1>14
<1>17. /\ DefinitionInv' /\ Structs' = Structs
       /\ definitions' \in Seq(Definitions) /\ named' \in [Names -> 0 .. Len(definitions')]
  BY <1>2, SameDefinitions
<1>18. /\ PendingInv' /\ pending' \in Seq([owner : DOMAIN instances', member : FieldNames])
  BY <1>2, <1>15, <1>16, FrontPending
<1>19. LiveValues' = LiveValues
  BY <1>2, <1>15, <1>17 DEF LiveValues
<1>20. \A i \in DOMAIN instances :
           /\ DOMAIN instances'[i].values = DOMAIN instances[i].values
           /\ \A n \in DOMAIN instances[i].values :
                  instances'[i].values[n] = IF i = j /\ n = m THEN v ELSE instances[i].values[n]
  BY <1>12, <1>14
<1>21. ObjectsTyped'
  BY <1>14, <1>17, <1>18 DEF ObjectsTyped, Definitions, Record
<1>22. FieldsConform'
  <2>1. ASSUME NEW i \in DOMAIN instances'
        PROVE  DOMAIN instances'[i].values =
                   {definitions'[instances'[i].of].fields[k].name : k \in DOMAIN definitions'[instances'[i].of].fields}
    BY <1>1, <1>2, <1>15, <1>16, <1>20 DEF FieldsConform, FieldsOf
  <2>2. ASSUME NEW i \in DOMAIN instances', NEW k \in DOMAIN definitions'[instances'[i].of].fields
        PROVE  FieldMatches(definitions[instances[i].of].types[k],
                           instances[i].values[definitions[instances[i].of].fields[k].name])'
    <3>1. PICK c, w : /\ c = definitions'[instances'[i].of].types[k]
                      /\ w = instances'[i].values[definitions'[instances'[i].of].fields[k].name]
      OBVIOUS
    <3>2. /\ i \in DOMAIN instances /\ k \in DOMAIN FieldsOf(instances[i].of)
          /\ instances[i].of \in DOMAIN definitions
          /\ c = definitions[instances[i].of].types[k]
          /\ w = instances'[i].values[FieldsOf(instances[i].of)[k].name]
          /\ FieldsOf(instances[i].of)[k].name \in DOMAIN instances[i].values
      <4>1. i \in DOMAIN instances /\ instances'[i].of = instances[i].of
        BY <1>15, <1>16
      <4>2. k \in DOMAIN FieldsOf(instances[i].of)
        BY <4>1, <2>2, <1>2 DEF FieldsOf
      <4>3. QED
        BY <4>1, <4>2, <3>1, <1>2, InstanceFacts DEF FieldsOf
    <3>3. c \in FieldContracts
      BY <3>2, <1>1, DefinitionFacts
    <3>4. FieldMatches(c, w) /\ w \in LiveValues
      <4>1. CASE i = j /\ FieldsOf(instances[i].of)[k].name = m
        <5>1. k = x
          BY <4>1, <3>2, <1>1, <1>8, IndexFacts
        <5>2. c = ContractOf(j, m) /\ w = v
          BY <4>1, <5>1, <3>2, <1>20 DEF ContractOf
        <5>3. QED
          BY <5>2, <1>4, <1>7
      <4>2. CASE ~(i = j /\ FieldsOf(instances[i].of)[k].name = m)
        <5>1. w = FieldValue(i, k)
          BY <4>2, <3>2, <1>20 DEF FieldValue
        <5>2. QED
          BY <5>1, <3>2, InstanceFacts
      <4>3. QED
        BY <4>1, <4>2
    <3>5. FieldMatches(c, w)'
      BY <3>3, <3>4, <1>16, MatchesStay
    <3>6. QED
      BY <3>1, <3>5
  <2>3. QED
    BY <2>1, <2>2, <1>21 DEF FieldsConform, FieldsOf
<1>23. InstanceInv'
  <2>1. ASSUME NEW i \in DOMAIN instances', NEW n \in DOMAIN instances'[i].values
        PROVE  instances'[i].values[n] \in LiveValues'
    BY <1>1, <1>7, <1>15, <1>19, <1>20 DEF InstanceInv
  <2>2. ASSUME NEW i \in DOMAIN instances', NEW k \in DOMAIN definitions'[instances'[i].of].fields,
               definitions'[instances'[i].of].whole, definitions'[instances'[i].of].fields[k].embedded
        PROVE  definitions'[instances'[i].of].types[k] # Nominal(instances'[i].of)
    BY <2>2, <1>1, <1>2, <1>15, <1>16 DEF InstanceInv, FieldsOf
  <2>3. Len(instances') <= MaxInstances
    BY <1>1, <1>14 DEF InstanceInv
  <2>4. QED
    BY <2>1, <2>2, <2>3 DEF InstanceInv, FieldsOf
<1>24. QED
  BY <1>17, <1>18, <1>22, <1>23 DEF ObjectsInv

-----------------------------------------------------------------------------
(* The theorems.                                                           *)

LEMMA InitObjects == ObjectsInit => ObjectsInv
<1> SUFFICES ASSUME ObjectsInit PROVE ObjectsInv
  OBVIOUS
<1>1. /\ \A S : <<>> \in Seq(S)
      /\ DOMAIN definitions = {} /\ DOMAIN instances = {} /\ DOMAIN pending = {}
      /\ Len(definitions) = 0 /\ Len(instances) = 0
  BY EmptySeq DEF ObjectsInit
<1>2. ObjectsTyped
  <2>1. named \in [Names -> 0 .. Len(definitions)]
    BY <1>1 DEF ObjectsInit
  <2>2. definitions = <<>> /\ instances = <<>> /\ pending = <<>>
    BY DEF ObjectsInit
  <2>3. QED
    BY <1>1, <2>1, <2>2 DEF ObjectsTyped
<1>3. QED
  BY <1>1, <1>2, ObjectsAssumption
     DEF ObjectsInv, FieldsConform, DefinitionInv, InstanceInv, PendingInv

LEMMA NextObjects == ObjectsInv /\ [ObjectsNext]_objectsVars => ObjectsInv'
<1> SUFFICES ASSUME ObjectsInv, [ObjectsNext]_objectsVars PROVE ObjectsInv'
  OBVIOUS
<1>1. ASSUME NEW n \in Names, NEW layout \in Layouts[n], EvalStructType(n, layout)
      PROVE  ObjectsInv'
  BY <1>1, StructKeeps
<1>2. ASSUME NEW n \in EnumNames, EvalEnumType(n) PROVE ObjectsInv'
  BY <1>2, EnumKeeps
<1>3. ASSUME NEW d \in Structs, NEW values \in [DOMAIN FieldsOf(d) -> MemberValues],
             ApplyStruct(d, values)
      PROVE  ObjectsInv'
  BY <1>3, ApplyKeeps
<1>4. ASSUME NEW i \in DOMAIN instances, NEW m \in Members, BeginAssignment(i, m)
      PROVE  ObjectsInv'
  BY <1>4, BeginKeeps
<1>5. ASSUME NEW v \in MemberValues, EndAssignment(v) PROVE ObjectsInv'
  BY <1>5, EndKeeps
<1>6. ASSUME AssignmentFails PROVE ObjectsInv'
  BY <1>6, FailKeeps
<1>7. ASSUME UNCHANGED objectsVars PROVE ObjectsInv'
  <2>1. UNCHANGED <<definitions, named, instances, pending>>
    BY <1>7 DEF objectsVars
  <2>2. ObjectsTyped' /\ DefinitionInv' /\ InstanceInv' /\ PendingInv'
    <3>1. UNCHANGED <<Structs, LiveValues>>
      BY <2>1 DEF Structs, LiveValues
    <3>2. ObjectsTyped'
      BY <2>1, <3>1 DEF ObjectsInv, FieldsConform, ObjectsTyped, FieldsOf
    <3>3. DefinitionInv'
      BY <2>1, <3>1 DEF ObjectsInv, DefinitionInv, FieldsOf
    <3>4. InstanceInv'
      BY <2>1, <3>1 DEF ObjectsInv, InstanceInv, FieldsOf, Nominal
    <3>5. PendingInv'
      BY <2>1, <3>1 DEF ObjectsInv, PendingInv, Declares, FieldsOf
    <3>6. QED
      BY <3>2, <3>3, <3>4, <3>5
  <2>3. QED
    BY <2>1, <2>2, SameConform DEF ObjectsInv
<1>8. QED
  BY <1>1, <1>2, <1>3, <1>4, <1>5, <1>6, <1>7 DEF ObjectsNext

\* Definitions are well formed, values refer to what exists, and a whole
\* definition that embeds itself has no instances.
THEOREM ObjectsIsInvariant == ObjectsSpec => []ObjectsInv
<1>1. QED
  BY InitObjects, NextObjects, PTL DEF ObjectsSpec

\* What a field holds is what its captured contract admits (identifiers.go,
\* evalMemberAssignment; callables.go, applyStruct).
THEOREM FieldsCorrect == ObjectsSpec => []FieldsConform
<1>1. ObjectsInv => FieldsConform
  BY DEF ObjectsInv
<1>2. QED
  BY <1>1, ObjectsIsInvariant, PTL

\* Lookups of members end in instances of definitions whose declarations
\* succeeded (struct.go, ResolveField).
THEOREM EndsCorrect == ObjectsSpec => []LookupsEnd
<1>1. QED
  BY EndsFacts, ObjectsIsInvariant, PTL

\* Methods get receivers that they accept, however deep they are embedded
\* (identifiers.go, evalMember; struct_operators.go, struct_index.go).
THEOREM ReceiversCorrect == ObjectsSpec => []ReceiversFit
<1>1. QED
  BY ReceiverFacts, ObjectsIsInvariant, PTL
=============================================================================
