------------------------------- MODULE Objects -------------------------------
(***************************************************************************)
(* Struct and enum definitions, instances, embedded fields and methods     *)
(* (evaluator/struct.go, enum.go, identifiers.go, struct_operators.go,     *)
(* struct_index.go; object/struct.go).  A declaration publishes its        *)
(* definition before the types of its fields are resolved; an assignment   *)
(* to a member finds the instance that owns the field and then evaluates a *)
(* value, which runs any other statement first.                            *)
(***************************************************************************)
EXTENDS Naturals, Sequences, FiniteSets, SequencesExt

CONSTANTS
    Names,          \* names that type declarations bind
    Layouts,        \* Layouts[n]: field lists that structs called n may have
    EnumNames,      \* names that may be declared as enums
    FieldNames,     \* names of fields
    MaxDefinitions, MaxInstances, MaxPending

VARIABLES
    definitions,    \* definitions made so far, the latest last
    named,          \* named[n]: the definition a type name resolves to, or 0
    instances,      \* struct instances made so far
    pending         \* member assignments whose value is being evaluated

objectsVars == <<definitions, named, instances, pending>>

\* Contracts that fields capture (object.Contract; Unannotated is nil), and
\* annotations: contracts that still name their type.
Unannotated == [is |-> "unannotated"]
Plain == [is |-> "plain"]
Nominal(d) == [is |-> "nominal", of |-> d]
Method(d) == [is |-> "method", self |-> d]

\* A declaration with two fields of one name fails before it publishes anything.
Annotations ==
    {Unannotated, Plain} \cup {Nominal(n) : n \in Names} \cup {Method(n) : n \in Names}

ASSUME ObjectsAssumption ==
    /\ MaxDefinitions \in Nat /\ MaxInstances \in Nat
    /\ EnumNames \subseteq Names
    /\ \A n \in Names : \A layout \in Layouts[n] :
           /\ layout \in Seq([name : FieldNames, type : Annotations, embedded : BOOLEAN])
           /\ \A k, o \in DOMAIN layout : layout[k].name = layout[o].name => k = o

Value(i) == [is |-> "instance", of |-> i]
EnumMember(d) == [is |-> "member", of |-> d]
MethodFunction(takes) == [is |-> "function", takes |-> takes]
BoundTo(takes, i) == [is |-> "bound", takes |-> takes, receiver |-> i]

Definition(i) == definitions[instances[i].of]
FieldsOf(d) == definitions[d].fields
IndexOf(d, m) == CHOOSE k \in DOMAIN FieldsOf(d) : FieldsOf(d)[k].name = m
Declares(d, m) == \E k \in DOMAIN FieldsOf(d) : FieldsOf(d)[k].name = m
Callable(v) == v.is \in {"function", "bound"}

\* typeMatches: nominal contracts compare definitions, and a callable must
\* accept the receiver that its signature lets callers pass.
Accepts(parameter, d) == parameter \in {Unannotated, Nominal(d)}

NominalMatchesByName(contract, v) ==
    \/ v.is = "instance" /\ Definition(v.of).name = definitions[contract.of].name
    \/ v = EnumMember(contract.of)
NominalMatches(contract, v) ==
    \/ v.is = "instance" /\ instances[v.of].of = contract.of
    \/ v = EnumMember(contract.of)

FieldMatches(contract, v) ==
    CASE contract.is = "unannotated" -> TRUE
      [] contract.is = "plain" -> v = Plain
      [] contract.is = "nominal" -> NominalMatches(contract, v)
      [] contract.is = "method" -> Callable(v) /\ Accepts(v.takes, contract.self)

-----------------------------------------------------------------------------
(* Member lookup.                                                          *)

Missing == [owner |-> 0, via |-> "missing"]
Endless == [owner |-> 0, via |-> "endless"]
Found(i) == [owner |-> i, via |-> "field"]

\* The fields of i that hold embedded instances, and what they hold.
FieldValue(i, k) == instances[i].values[FieldsOf(instances[i].of)[k].name]
EmbeddedFields(i) ==
    {k \in DOMAIN FieldsOf(instances[i].of) :
        FieldsOf(instances[i].of)[k].embedded /\ FieldValue(i, k).is = "instance"}
Embedded(i, k) == FieldValue(i, k).of

\* A direct field wins, then the first embedded instance that has one; below
\* is what the embedded instances answer.
Answer(m, i, below) ==
    IF Declares(instances[i].of, m) THEN Found(i)
    ELSE LET hits == {k \in EmbeddedFields(i) : below[Embedded(i, k)] # Missing}
         IN IF hits = {} THEN Missing
            ELSE below[Embedded(i, CHOOSE k \in hits : \A o \in hits : k <= o)]

\* A lookup that has visited as many instances as there are and goes on goes
\* round in a circle and never ends.
Lookups(m) ==
    LET Lookup[depth \in 0 .. Len(instances)] ==
            IF depth = 0 THEN [i \in DOMAIN instances |-> Endless]
            ELSE [i \in DOMAIN instances |-> Answer(m, i, Lookup[depth - 1])]
    IN Lookup[Len(instances)]

ResolveField(i, m) == Lookups(m)[i]

Has(i, m) == ResolveField(i, m).via = "field"
Owner(i, m) == ResolveField(i, m).owner
Get(i, m) == instances[Owner(i, m)].values[m]
ContractOf(j, m) == definitions[instances[j].of].types[IndexOf(instances[j].of, m)]
OuterReceiver(i, m) == i
Receiver(i, m) == Owner(i, m)

\* evalMember: a function in a field with a call signature is bound to the
\* instance that owns the field; everything else is the value as it is.
EvalMember(i, m) ==
    IF ContractOf(Owner(i, m), m).is = "method" /\ Get(i, m).is = "function"
        THEN BoundTo(Get(i, m).takes, Receiver(i, m))
        ELSE Get(i, m)

\* evalStructInfixExpression and callStructIndexMethod bind the callable, even
\* one bound before, to the instance that stands in the expression.
StructCallable(i, m) == BoundTo(Get(i, m).takes, i)

-----------------------------------------------------------------------------
(* Declarations.                                                           *)

\* object.ResolveContract, in the scope the declaration publishes into.
Resolves(annotation, scope) ==
    CASE annotation.is = "nominal" -> scope[annotation.of] # 0
      [] annotation.is = "method" -> scope[annotation.self] # 0
      [] OTHER -> TRUE

Resolved(annotation, scope) ==
    CASE annotation.is = "nominal" -> Nominal(scope[annotation.of])
      [] annotation.is = "method" -> Method(scope[annotation.self])
      [] OTHER -> annotation

\* Only a contract whose definition is a struct may be embedded; d is the
\* definition being declared.
Embeds(contract, d) ==
    contract.is = "nominal" /\ (contract.of = d \/ definitions[contract.of].kind = "struct")

FieldFails(field, scope, d) ==
    \/ ~Resolves(field.type, scope)
    \/ field.embedded /\ ~Embeds(Resolved(field.type, scope), d)

\* The types that fields have captured when the declaration ends, which is at
\* the first field that fails: the others keep no contract.
CapturedTypes(layout, scope, d) ==
    [k \in DOMAIN layout |->
        IF /\ \A earlier \in 1 .. k - 1 : ~FieldFails(layout[earlier], scope, d)
           /\ Resolves(layout[k].type, scope)
        THEN Resolved(layout[k].type, scope) ELSE Unannotated]

Publish(n, definition) ==
    /\ definitions' = Append(definitions, definition)
    /\ named' = [named EXCEPT ![n] = Len(definitions) + 1]
    /\ UNCHANGED <<instances, pending>>

\* evalStructType.  "whole" records whether every field was resolved: the
\* declaration's error, which leaves the published name in place.
EvalStructType(n, layout) ==
    LET d == Len(definitions) + 1
        scope == [named EXCEPT ![n] = d]
    IN /\ Len(definitions) < MaxDefinitions
       /\ Publish(n, [kind |-> "struct", name |-> n,
              fields |-> [k \in DOMAIN layout |->
                  [name |-> layout[k].name, embedded |-> layout[k].embedded]],
              types |-> CapturedTypes(layout, scope, d),
              whole |-> \A k \in DOMAIN layout : ~FieldFails(layout[k], scope, d)])

\* evalEnumType: a namespace whose members carry its identity.
EvalEnumType(n) ==
    /\ Len(definitions) < MaxDefinitions
    /\ Publish(n, [kind |-> "enum", name |-> n, fields |-> <<>>, types |-> <<>>,
                   whole |-> TRUE])

-----------------------------------------------------------------------------
(* Values and assignments.                                                 *)

Structs == {d \in DOMAIN definitions : definitions[d].kind = "struct"}
Members == UNION {{FieldsOf(d)[k].name : k \in DOMAIN FieldsOf(d)} : d \in Structs}

\* What an expression can evaluate to.  Functions differ in the receiver they
\* take; one that no method slot asks for is as inert as a plain value, and
\* one that takes anything fits every slot and every receiver.
Takes ==
    LET slots == UNION {ToSet(definitions[d].types) : d \in Structs}
    IN {c.self : c \in {c \in slots : c.is = "method"}}

MemberValues ==
    {Plain}
    \cup {Value(i) : i \in DOMAIN instances}
    \cup {EnumMember(d) : d \in DOMAIN definitions \ Structs}
    \cup {MethodFunction(Nominal(d)) : d \in Takes}
    \cup {EvalMember(r[1], r[2]) : r \in {r \in (DOMAIN instances) \X Members : Has(r[1], r[2])}}

\* applyStruct, through a constructor captured at any time.
ApplyStruct(d, values) ==
    /\ Len(instances) < MaxInstances
    /\ \A k \in DOMAIN values : FieldMatches(definitions[d].types[k], values[k])
    /\ instances' = Append(instances, [of |-> d,
           values |-> [m \in {FieldsOf(d)[k].name : k \in DOMAIN FieldsOf(d)} |->
                           values[IndexOf(d, m)]]])
    /\ UNCHANGED <<definitions, named, pending>>

\* evalMemberAssignment finds the owner of the field, evaluates the value
\* (any statement may run meanwhile), checks it against the contract of that
\* owner's field and writes to that owner, wherever it is by then.
BeginAssignment(i, m) ==
    /\ Len(pending) < MaxPending
    /\ Has(i, m)
    /\ pending' = Append(pending, [owner |-> Owner(i, m), member |-> m])
    /\ UNCHANGED <<definitions, named, instances>>

AssignmentContractByName(a) ==
    LET d == named[Definition(a.owner).name]
    IN IF Declares(d, a.member) THEN definitions[d].types[IndexOf(d, a.member)] ELSE Unannotated
AssignmentContract(a) == ContractOf(a.owner, a.member)

EndAssignment(v) ==
    /\ pending # <<>>
    /\ LET a == Last(pending)
       IN /\ FieldMatches(AssignmentContract(a), v)
          /\ instances' = [instances EXCEPT ![a.owner].values[a.member] = v]
    /\ pending' = Front(pending)
    /\ UNCHANGED <<definitions, named>>

\* The value fails, or its type does.
AssignmentFails ==
    /\ pending # <<>>
    /\ pending' = Front(pending)
    /\ UNCHANGED <<definitions, named, instances>>

-----------------------------------------------------------------------------
ObjectsInit ==
    /\ definitions = <<>>
    /\ named = [n \in Names |-> 0]
    /\ instances = <<>>
    /\ pending = <<>>

ObjectsNext ==
    \/ \E n \in Names : \E layout \in Layouts[n] : EvalStructType(n, layout)
    \/ \E n \in EnumNames : EvalEnumType(n)
    \/ \E d \in Structs : \E values \in [DOMAIN FieldsOf(d) -> MemberValues] : ApplyStruct(d, values)
    \/ \E i \in DOMAIN instances, m \in Members : BeginAssignment(i, m)
    \/ \E v \in MemberValues : EndAssignment(v)
    \/ AssignmentFails

ObjectsSpec == ObjectsInit /\ [][ObjectsNext]_objectsVars

-----------------------------------------------------------------------------
FieldContracts ==
    {Unannotated, Plain} \cup {Nominal(d) : d \in 1 .. MaxDefinitions}
        \cup {Method(d) : d \in 1 .. MaxDefinitions}
HeldValues ==
    {Plain} \cup {Value(i) : i \in 1 .. MaxInstances}
        \cup {EnumMember(d) : d \in 1 .. MaxDefinitions}
        \cup {MethodFunction(Nominal(d)) : d \in 1 .. MaxDefinitions}
        \cup {BoundTo(Nominal(d), i) : d \in 1 .. MaxDefinitions, i \in 1 .. MaxInstances}

ObjectsTyped ==
    /\ definitions \in Seq([kind : {"struct", "enum"}, name : Names,
           fields : Seq([name : FieldNames, embedded : BOOLEAN]),
           types : Seq(FieldContracts), whole : BOOLEAN])
    /\ named \in [Names -> 0 .. Len(definitions)]
    /\ instances \in Seq([of : Structs, values : UNION {[ms -> HeldValues] : ms \in SUBSET FieldNames}])
    /\ pending \in Seq([owner : DOMAIN instances, member : FieldNames])

\* Every field that an instance's definition declares holds a value, and one
\* that its captured contract admits, and no other field does: whatever names
\* have been declared again and whatever the path of an assignment led
\* through (identifiers.go, evalMemberAssignment; callables.go, applyStruct).
FieldsConform ==
    /\ ObjectsTyped
    /\ \A i \in DOMAIN instances :
           LET d == instances[i].of
           IN /\ DOMAIN instances[i].values = {FieldsOf(d)[k].name : k \in DOMAIN FieldsOf(d)}
              /\ \A k \in DOMAIN FieldsOf(d) :
                     FieldMatches(definitions[d].types[k], instances[i].values[FieldsOf(d)[k].name])

\* Lookups of members end: an instance that contains itself through embedded
\* fields owes that to an instance of a definition whose declaration failed,
\* for of any instances of definitions that did not, one embeds none of the
\* others and not itself (struct.go, ResolveField, which recurses without a
\* bound).
LookupsEnd ==
    \A circle \in SUBSET {i \in DOMAIN instances : Definition(i).whole} :
        circle # {} =>
            \E i \in circle : \A k \in EmbeddedFields(i) : Embedded(i, k) \notin circle

\* A method declared to take its own struct gets a receiver that its function
\* accepts: through any path of embedded fields when it is called as a member,
\* and on the instance itself when it is an operator or an index method, also
\* when the stored value was bound to another instance before.
ReceiversFit ==
    \A i \in DOMAIN instances : \A m \in {m \in Members : Has(i, m)} :
        LET j == Owner(i, m)
            Fits(b) == Accepts(b.takes, instances[b.receiver].of)
        IN ContractOf(j, m) = Method(instances[j].of) =>
               /\ Get(i, m).is = "function" => Fits(EvalMember(i, m))
               /\ i = j => Fits(StructCallable(i, m))
=============================================================================
