----------------------------- MODULE MCLanguage -----------------------------
(***************************************************************************)
(* Instances for Language: expressions of up to three infix operators,     *)
(* integers of four bits, signatures of up to three parameters, and one    *)
(* factory of a map inside of another.                                     *)
(***************************************************************************)
EXTENDS Language

\* Operands and operators in turn; each is a sequence of tokens.
Chains(operands, operators, n) ==
    {FlattenSeq([i \in 1 .. 2 * n + 1 |->
                    IF i % 2 = 1 THEN chain.operand[(i + 1) \div 2] ELSE chain.operator[i \div 2]]) :
        chain \in [operand : [1 .. n + 1 -> operands], operator : [1 .. n -> operators]]}

Alone(node) == <<Operand(node)>>
Prefixed(op, node) == <<PrefixToken(op), Operand(node)>>
Number(n) == Literal(Integer(n))
OnLine(ops) == {<<InfixToken(op, FALSE)>> : op \in ops}
OnNextLine(ops) == {<<InfixToken(op, TRUE)>> : op \in ops}

\* How operators group.
Groupings ==
    Chains({Alone(Number(1)), Prefixed("-", Number(1))}, OnLine({"@", "||", "==", "+", "*", "**"}), 3)
        \cup Chains({Alone(Name)}, OnLine({"+"}) \cup OnNextLine({"-", "**"}), 2)

\* What they compute.
Mixtures ==
    Chains({Alone(Number(3)), Alone(Number(7)), Prefixed("-", Number(2)), Alone(Name),
            Prefixed("-", Name), Prefixed("!", Name), Alone(Literal(Bool(TRUE)))},
           OnLine({"+", "*", "**", "//", "%", "<", "==", "&&", "||", "@"}), 2)

Calculations ==
    Chains({Alone(Number(n)) : n \in 0 .. 7} \cup {Prefixed("-", Number(n)) : n \in 1 .. 7} \cup {Alone(Name)},
           OnLine({"+", "-", "*", "**", "//", "%", "<"}), 1)

SomeSources == Groupings \cup Mixtures \cup Calculations
SomeOperators == {"@"}
Least == Integer(-8)

-----------------------------------------------------------------------------
IntType == Primitive("int")
D == Struct("D")
E == Struct("E")
Parameter(name, type) == [name |-> name, type |-> type]
Number0 == Scalar("int")
OneD == Instance("D", [x \in {"x"} |-> Number0])
OnInt == Signature(<<Parameter("", IntType)>>, FALSE, IntType, {})
OnAny == Signature(<<Parameter("", AnyType)>>, FALSE, IntType, {})
Giving(success, errors) == Signature(<<>>, FALSE, success, errors)
GivingAny == Giving(AnyType, {})
GivingNull == Giving(Primitive("null"), {})
GivingNothing == Giving(NoContract, {})

Written ==
    {NoContract, AnyType, IntType, Primitive("null"), Primitive("array"), Primitive("call"), D, E,
     OnInt, OnAny, GivingAny, ArrayOf(IntType), ArrayOf(AnyType), ArrayOf(OnInt), ArrayOf(OnAny)}
NullOmitted == Written \cup {GivingNothing}
NullInBothWays == NullOmitted \cup {GivingNull}

Depth(contracts) ==
    [c \in contracts |->
        IF ComponentsOf(c) = {} THEN 0
        ELSE IF c.is = "array" /\ ComponentsOf(c.element) # {} THEN 2 ELSE 1]
DepthOmitted == Depth(NullOmitted)
DepthInBothWays == Depth(NullInBothWays)

Typed == {AnyType, IntType, D, OnInt}

SomeSlots ==
    {Signature(<<Parameter(n, a), Parameter("", b)>>, v, NoContract, {}) :
        n \in {"", "x"}, a \in Typed, b \in Typed, v \in BOOLEAN}
    \cup {Signature(<<Parameter("", a)>>, FALSE, NoContract, {}) :
            a \in {IntType, OnAny, ArrayOf(IntType), ArrayOf(AnyType), ArrayOf(OnAny), GivingNothing}}
    \cup {Giving(s, e) :
            s \in {NoContract, AnyType, IntType, Primitive("null"), D, OnInt, GivingNothing}, e \in SUBSET {D, E}}
    \cup {Signature(<<Parameter("", AnyType)>>, TRUE, s, e) : s \in {NoContract, IntType}, e \in SUBSET {E}}

SomeFunctions ==
    {Function(Signature(<<Parameter("x", a), Parameter("y", b)>>, v, NoContract, {}), FALSE) :
        a \in {NoContract} \cup Typed, b \in {NoContract} \cup Typed, v \in BOOLEAN}
    \cup {Function(Signature(<<Parameter("x", a)>>, FALSE, NoContract, {}), FALSE) :
            a \in {IntType, OnAny, OnInt, GivingAny, ArrayOf(AnyType), ArrayOf(OnInt), Primitive("array"), Primitive("call")}}
    \cup {Function(Signature(<<Parameter("x", a), Parameter("y", b), Parameter("z", IntType)>>, FALSE, NoContract, {}), FALSE) :
            a \in Typed, b \in Typed}
    \cup {Function(Giving(s, e), FALSE) :
            s \in {NoContract, AnyType, IntType, Primitive("null"), D, OnInt, OnAny, GivingAny}, e \in SUBSET {D, E}}
    \cup {Function(Signature(<<Parameter("x", IntType), Parameter("y", IntType)>>, FALSE, s, {}), TRUE) :
            s \in {NoContract, IntType}}
    \cup {BoundMethod(Signature(<<Parameter("x", a), Parameter("y", b)>>, v, NoContract, {}), OneD) :
            a \in {NoContract, D}, b \in {AnyType, IntType, D}, v \in BOOLEAN}
    \cup {BoundMethod(Signature(<<Parameter("x", AnyType)>>, v, s, e), OneD) :
            v \in BOOLEAN, s \in {NoContract, IntType}, e \in SUBSET {E}}

OneE == Instance("E", [y \in {"y"} |-> Number0])
Both == Instance("F", [xy \in {"x", "y"} |-> Number0])
Silent == Function(GivingNothing, FALSE)
Common == {Number0, OneD, OneE, Both, Builtin(OnInt), Array(<<Number0>>), BoundMethod(OnInt, OneD)}
Several == {Array(<<OneD>>), Array(<<Builtin(OnAny)>>), Function(OnAny, FALSE), Builtin(OnAny), Silent, Null}
SomeValues == Common \cup Several

SomeArguments ==
    {<<>>}
    \cup {<<a>> : a \in SomeValues}
    \cup {<<a, b>> : a \in Common \cup {Function(OnAny, FALSE)}, b \in Common}
    \cup {<<a, b, Number0>> : a \in {Number0, OneE, Both}, b \in {Number0, OneD}}

SomeResults == {Null, Number0, OneD, OneE, Builtin(OnInt), Builtin(OnAny), Silent}

\* Where a null result is written here and omitted there.
MoreSlots == SomeSlots \cup {Signature(<<Parameter("", GivingNull)>>, FALSE, NoContract, {})}
=============================================================================
