----------------------------- MODULE Expressions -----------------------------
(***************************************************************************)
(* From the tokens of an operator expression to its value: the Pratt       *)
(* parser (parser/expressions.go, parser/operators.go), the constant       *)
(* folder (evaluator/folding.go) and the evaluation of bounded integers    *)
(* and booleans (evaluator/expressions.go, int.go, bool.go).  A float      *)
(* is one opaque value: what it is worth is not modelled, nor is the       *)
(* operator / that only makes floats.                                      *)
(***************************************************************************)
EXTENDS Integers, Sequences, FiniteSets

CONSTANTS
    Sources,        \* token sequences: operands with infix and prefix operators
    Custom,         \* operators that the package of the source declares
    Half,           \* integers are those of -Half .. Half - 1: Half is 2^63 in the program
    NameValue       \* the value of the one variable that sources read

VARIABLES
    source,         \* the tokens
    position,       \* the next token
    operand,        \* where the tree is that the innermost call has parsed, or 0
    calls,          \* calls of parseExpression that have not returned, innermost last
    nodes,          \* nodes[i]: the node that was made from token i
    parsed,         \* the syntax tree, before constant folding
    tree,           \* the tree the evaluator is given
    answer,         \* its value
    phase           \* "idle", "source", "parsed", "folded" or "evaluated"

exprVars == <<source, position, operand, calls, nodes, parsed, tree, answer, phase>>

\* A tree is a position and the nodes below it; a node names its operands by
\* the positions of the tokens they are made from.
NoTree == [root |-> 0, nodes |-> <<>>]
Literal(v) == [node |-> "literal", value |-> v]
Name == [node |-> "name"]
Prefix(op, right) == [node |-> "prefix", op |-> op, right |-> right]
Infix(op, left, right) == [node |-> "infix", op |-> op, left |-> left, right |-> right]

Integer(n) == [is |-> "int", n |-> n]
Bool(b) == [is |-> "bool", b |-> b]
Float == [is |-> "float"]
Error(kind) == [is |-> "error", kind |-> kind]
Undetermined == Error("undetermined")

\* A token: an operand, a prefix operator, or an infix operator that stands on
\* the line of its left operand or on the next one.
Operand(node) == [is |-> "operand", node |-> node]
PrefixToken(op) == [is |-> "prefix", op |-> op]
InfixToken(op, newline) == [is |-> "infix", op |-> op, newline |-> newline]

Representable == -Half .. Half - 1
ScalarsOf(integers) == {Integer(n) : n \in integers} \cup {Bool(b) : b \in BOOLEAN} \cup {Float}

Lowest == 1
PrefixPower == 9

Precedences ==
    [op \in {"||", "&&", "==", "<", "+", "-", "*", "//", "%", "**"} |->
        CASE op = "||" -> 3 [] op = "&&" -> 4 [] op = "==" -> 5 [] op = "<" -> 6
          [] op \in {"+", "-"} -> 7 [] op \in {"*", "//", "%"} -> 8 [] op = "**" -> 10]

Tokens ==
    {Operand(node) : node \in {Name} \cup {Literal(v) : v \in ScalarsOf(0 .. Half - 1)}}
        \cup {PrefixToken(op) : op \in {"-", "!"}}
        \cup {InfixToken(op, newline) : op \in Custom \cup DOMAIN Precedences, newline \in BOOLEAN}

ASSUME HalfAssumption == Half \in Nat /\ Half >= 2

\* A literal has no sign: -1 is a prefix operator and a literal.
ASSUME SourcesAssumption ==
    \A s \in Sources :
        /\ s \in Seq(Tokens) /\ s # <<>>
        /\ s[1].is # "infix" /\ s[Len(s)].is = "operand"
        /\ \A i \in 1 .. Len(s) - 1 : s[i].is = "operand" <=> s[i + 1].is = "infix"

ASSUME CustomAssumption == Custom \cap DOMAIN Precedences = {}

ASSUME NameAssumption == NameValue \in ScalarsOf(Representable)

-----------------------------------------------------------------------------
(* Parsing.                                                                *)

\* peekPrecedence and curPrecedence: every user-defined operator binds less
\* than the operators of the language, and ends nothing else.
Precedence(op) == IF op \in Custom THEN 2 ELSE Precedences[op]

\* The threshold for equal binding power, which the caller keeps.
BindsTighterOrEqual(precedence, op) == precedence <= Precedence(op)
BindsTighter(precedence, op) == precedence < Precedence(op)

\* A call of parseExpression, for the right operand of an operator or, when
\* operator is 0, for the whole; left is 0 for a prefix operator.
Call(operator, left, precedence) ==
    [operator |-> operator, left |-> left, precedence |-> precedence]

InnermostCall == calls[Len(calls)]

Extended(i, node) == [j \in DOMAIN nodes \cup {i} |-> IF j = i THEN node ELSE nodes[j]]

\* What has been parsed is extended by tighter operators on the same line only.
Ends(precedence) ==
    position \in DOMAIN source =>
        source[position].newline \/ ~BindsTighter(precedence, source[position].op)

\* The prefix function of an operand.
ParseOperand ==
    /\ phase = "source" /\ operand = 0 /\ source[position].is = "operand"
    /\ nodes' = Extended(position, source[position].node)
    /\ operand' = position
    /\ position' = position + 1
    /\ UNCHANGED <<source, calls, parsed, tree, answer, phase>>

ParsePrefixExpression ==
    /\ phase = "source" /\ operand = 0 /\ source[position].is = "prefix"
    /\ calls' = Append(calls, Call(position, 0, PrefixPower))
    /\ position' = position + 1
    /\ UNCHANGED <<source, operand, nodes, parsed, tree, answer, phase>>

ParseInfixExpression ==
    /\ phase = "source" /\ operand # 0 /\ ~Ends(InnermostCall.precedence)
    /\ calls' = Append(calls, Call(position, operand, Precedence(source[position].op)))
    /\ operand' = 0
    /\ position' = position + 1
    /\ UNCHANGED <<source, nodes, parsed, tree, answer, phase>>

\* parseExpression returns to the function of an operator, which makes its node.
ReturnExpression ==
    /\ phase = "source" /\ operand # 0 /\ Ends(InnermostCall.precedence) /\ Len(calls) > 1
    /\ LET i == InnermostCall.operator
           op == source[i].op
       IN /\ nodes' = Extended(i, IF InnermostCall.left = 0 THEN Prefix(op, operand)
                                  ELSE Infix(op, InnermostCall.left, operand))
          /\ operand' = i
    /\ calls' = SubSeq(calls, 1, Len(calls) - 1)
    /\ UNCHANGED <<source, position, parsed, tree, answer, phase>>

ParseProgram ==
    /\ phase = "source" /\ operand # 0 /\ Ends(InnermostCall.precedence) /\ Len(calls) = 1
    /\ parsed' = [root |-> operand, nodes |-> nodes]
    /\ tree' = parsed'
    /\ phase' = "parsed"
    /\ UNCHANGED <<source, position, operand, calls, nodes, answer>>

-----------------------------------------------------------------------------
(* Integers, two's complement.                                             *)

Wrap(n) == ((n + Half) % (2 * Half)) - Half
Magnitude(n) == IF n < 0 THEN -n ELSE n
Sign(n) == IF n < 0 THEN -1 ELSE 1

\* Go's / and % truncate toward zero; the quotient of the least integer by -1
\* wraps.
Quotient(l, r) == Wrap(Sign(l) * Sign(r) * (Magnitude(l) \div Magnitude(r)))
FlooredRemainder(l, r) == IF r > 0 THEN l % r ELSE -((-l) % (-r))
Remainder(l, r) == Sign(l) * (Magnitude(l) % Magnitude(r))

\* integerPower: exponentiation by squaring, every product wrapped.
IntegerPower(base, exponent) ==
    LET Squaring[loop \in (0 .. exponent) \X Representable \X Representable] ==
            LET e == loop[1]
                b == loop[2]
                result == loop[3]
            IN IF e = 0 THEN result
               ELSE Squaring[<<e \div 2, Wrap(b * b), IF e % 2 = 1 THEN Wrap(result * b) ELSE result>>]
    IN Squaring[<<exponent, base, 1>>]

EvalIntegerInfix(op, l, r) ==
    CASE op = "+" -> Integer(Wrap(l + r))
      [] op = "-" -> Integer(Wrap(l - r))
      [] op = "*" -> Integer(Wrap(l * r))
      [] op = "**" /\ r < 0 -> IF l = 0 THEN Error("zero_division") ELSE Float
      [] op = "**" /\ r >= 0 -> Integer(IntegerPower(l, r))
      [] op \in {"//", "%"} /\ r = 0 -> Error("zero_division")
      [] op = "//" /\ r # 0 -> Integer(Quotient(l, r))
      [] op = "%" /\ r # 0 -> Integer(Remainder(l, r))
      [] op = "<" -> Bool(l < r)
      [] op = "==" -> Bool(l = r)
      [] OTHER -> Error("type")

-----------------------------------------------------------------------------
(* Evaluation.                                                             *)

\* isTruthy: only False and null are falsey.
Truthy(v) == v # Bool(FALSE)

EvalPrefix(op, v) ==
    CASE op = "!" -> Bool(v = Bool(FALSE))
      [] op = "-" /\ v.is = "int" -> Integer(Wrap(-v.n))
      [] op = "-" /\ v.is = "float" -> Float
      [] OTHER -> Error("type")

\* Comparing or dividing a float depends on what it is worth: Undetermined, and
\* so is all that follows.
EvalFloatInfix(op, r) ==
    CASE op \in {"+", "-", "*"} -> Float
      [] op \in {"//", "%"} /\ r = Integer(0) -> Error("zero_division")
      [] op \in Custom -> Error("type")
      [] OTHER -> Undetermined

\* evalInfixExpression, on operands that are no errors.
EvalInfix(op, l, r) ==
    IF op = "&&" THEN Bool(Truthy(l) /\ Truthy(r))
    ELSE IF op = "||" THEN Bool(Truthy(l) \/ Truthy(r))
    ELSE IF {l.is, r.is} = {"int"} THEN EvalIntegerInfix(op, l.n, r.n)
    ELSE IF {l.is, r.is} \in {{"float"}, {"int", "float"}} THEN EvalFloatInfix(op, r)
    ELSE IF op = "==" THEN Bool(l = r)
    ELSE Error("type")

\* Both operands are evaluated, left first, and an error goes up, but && and
\* || skip the right one; an operator the package declares calls its function,
\* which here returns its second argument.
Evaluate(ns) ==
    LET Value[i \in DOMAIN ns] ==
            LET t == ns[i]
            IN CASE t.node = "literal" -> t.value
                 [] t.node = "name" -> NameValue
                 [] t.node = "prefix" ->
                       LET v == Value[t.right] IN IF v.is = "error" THEN v ELSE EvalPrefix(t.op, v)
                 [] t.node = "infix" ->
                       LET l == Value[t.left]
                           r == Value[t.right]
                       IN IF l.is = "error" THEN l
                          ELSE IF t.op = "&&" /\ ~Truthy(l) THEN Bool(FALSE)
                          ELSE IF t.op = "||" /\ Truthy(l) THEN Bool(TRUE)
                          ELSE IF r.is = "error" THEN r
                          ELSE IF t.op \in Custom THEN r
                          ELSE EvalInfix(t.op, l, r)
    IN Value

-----------------------------------------------------------------------------
(* Constant folding.                                                       *)

\* Only scalar results replace an expression: one that fails stays, and fails
\* when it is evaluated.
FoldedAnyway(value, original) == Literal(value)
FoldedLiteralOrOriginal(value, original) ==
    IF value.is = "error" THEN original ELSE Literal(value)

\* Operands first; what replaces an expression stands at its place.
Fold(ns) ==
    LET Folded[i \in DOMAIN ns] ==
            LET t == ns[i]
            IN CASE t.node = "prefix" /\ Folded[t.right].node = "literal" ->
                       FoldedLiteralOrOriginal(EvalPrefix(t.op, Folded[t.right].value), t)
                 [] t.node = "infix" /\ Folded[t.left].node = "literal" /\ Folded[t.right].node = "literal" ->
                       FoldedLiteralOrOriginal(
                           EvalInfix(t.op, Folded[t.left].value, Folded[t.right].value), t)
                 [] OTHER -> t
    IN Folded

-----------------------------------------------------------------------------
ExprIdle ==
    /\ source = <<>> /\ position = 0 /\ operand = 0 /\ calls = <<>> /\ nodes = <<>>
    /\ parsed = NoTree /\ tree = NoTree /\ answer = Error("none") /\ phase = "idle"

ExprInit ==
    /\ source \in Sources
    /\ position = 1 /\ operand = 0 /\ calls = <<Call(0, 0, Lowest)>> /\ nodes = <<>>
    /\ parsed = NoTree /\ tree = NoTree /\ answer = Error("none") /\ phase = "source"

FoldConstants ==
    /\ phase = "parsed"
    /\ tree' = [tree EXCEPT !.nodes = Fold(@)]
    /\ phase' = "folded"
    /\ UNCHANGED <<source, position, operand, calls, nodes, parsed, answer>>

Eval ==
    /\ phase = "folded"
    /\ answer' = Evaluate(tree.nodes)[tree.root]
    /\ phase' = "evaluated"
    /\ UNCHANGED <<source, position, operand, calls, nodes, parsed, tree>>

ExprNext ==
    \/ ParseOperand \/ ParsePrefixExpression \/ ParseInfixExpression \/ ReturnExpression
    \/ ParseProgram \/ FoldConstants \/ Eval

-----------------------------------------------------------------------------
(* What the phases must agree with, defined without precedence climbing,   *)
(* without folding and on unbounded integers.                              *)

Power(t) == IF t.node = "infix" THEN Precedence(t.op) ELSE PrefixPower

\* Of every node: the tokens of the tree below it, and the binding powers of
\* the operators that begin, or end, where that tree does.
Outline(ns) ==
    LET Of[i \in DOMAIN ns] ==
            LET t == ns[i]
            IN CASE t.node = "prefix" ->
                       [under |-> {i} \cup Of[t.right].under,
                        begin |-> {}, end |-> {Power(t)} \cup Of[t.right].end]
                 [] t.node = "infix" ->
                       [under |-> {i} \cup Of[t.left].under \cup Of[t.right].under,
                        begin |-> {Power(t)} \cup Of[t.left].begin,
                        end |-> {Power(t)} \cup Of[t.right].end]
                 [] OTHER -> [under |-> {i}, begin |-> {}, end |-> {}]
    IN Of

MadeFrom(token, t) ==
    CASE token.is = "operand" -> t = token.node
      [] token.is = "prefix" -> t.node = "prefix" /\ t = Prefix(token.op, t.right)
      [] token.is = "infix" -> t.node = "infix" /\ t = Infix(token.op, t.left, t.right)

\* Operands are the trees of the tokens before and after; operators of higher
\* precedence are below, and of equal precedence on the left; a leading prefix
\* operator takes what binds tighter than itself.
Follows(i, t, outline) ==
    /\ t.node \in {"prefix", "infix"} =>
          /\ \A j \in outline[t.right].under : i < j
          /\ \A power \in outline[t.right].begin : power > Power(t)
    /\ t.node = "infix" =>
          /\ \A j \in outline[t.left].under : j < i
          /\ \A power \in outline[t.left].end : power >= Power(t)

FirstLine ==
    {i \in DOMAIN source : \A j \in 1 .. i : ~(source[j].is = "infix" /\ source[j].newline)}

\* The tree of an expression holds the tokens of its line in their order and
\* groups them by precedence, with operators of one precedence grouped to the
\* left and those that the package declares last (parser/expressions.go,
\* parseExpression; docs/language_guide/operators.md).
TreesFollowPrecedence ==
    phase = "parsed" =>
        LET outline == Outline(parsed.nodes)
        IN /\ outline[parsed.root].under = FirstLine
           /\ DOMAIN parsed.nodes = FirstLine
           /\ \A i \in FirstLine :
                 MadeFrom(source[i], parsed.nodes[i]) /\ Follows(i, parsed.nodes[i], outline)

\* Folding changes no value and no error of any expression.
FoldingKeepsMeaning == phase = "evaluated" => answer = Evaluate(parsed.nodes)[parsed.root]

Product(base) ==
    LET Raised[n \in Nat] == IF n = 0 THEN 1 ELSE Wrap(base * Raised[n - 1])
    IN Raised

Unbounded(ring, n) == [ring |-> ring, n |-> n]

\* Which trees are of +, -, *, and powers by literals only, and their value in
\* unbounded arithmetic (a residue of it where there are powers).
Exact(ns) ==
    LET Of[i \in DOMAIN ns] ==
            LET t == ns[i]
            IN CASE t.node = "literal" /\ t.value.is = "int" -> Unbounded(TRUE, t.value.n)
                 [] t.node = "prefix" /\ t.op = "-" -> Unbounded(Of[t.right].ring, -Of[t.right].n)
                 [] t.node = "infix" /\ t.op = "+" ->
                       Unbounded(Of[t.left].ring /\ Of[t.right].ring, Of[t.left].n + Of[t.right].n)
                 [] t.node = "infix" /\ t.op = "-" ->
                       Unbounded(Of[t.left].ring /\ Of[t.right].ring, Of[t.left].n - Of[t.right].n)
                 [] t.node = "infix" /\ t.op = "*" ->
                       Unbounded(Of[t.left].ring /\ Of[t.right].ring, Of[t.left].n * Of[t.right].n)
                 [] t.node = "infix" /\ t.op = "**"
                      /\ ns[t.right].node = "literal" /\ ns[t.right].value.is = "int" ->
                       Unbounded(Of[t.left].ring, Product(Of[t.left].n)[ns[t.right].value.n])
                 [] OTHER -> Unbounded(FALSE, 0)
    IN Of

\* Overflow is wraparound whatever the order of the operations, and // and %
\* undo each other with a remainder smaller than the divisor and of the sign
\* of the dividend (evaluator/int.go: "overflow follows Go's signed-integer
\* wraparound behavior").
ArithmeticWraps ==
    phase = "evaluated" =>
        LET exact == Exact(parsed.nodes)[parsed.root]
            root == parsed.nodes[parsed.root]
        IN /\ exact.ring => answer = Integer(Wrap(exact.n))
           /\ root.node = "infix" =>
                 LET l == Evaluate(parsed.nodes)[root.left]
                     r == Evaluate(parsed.nodes)[root.right]
                 IN l.is = "int" /\ r.is = "int" /\ r.n # 0 =>
                        LET q == Quotient(l.n, r.n)
                            m == Remainder(l.n, r.n)
                        IN /\ Wrap(q * r.n + m) = l.n
                           /\ Magnitude(m) < Magnitude(r.n)
                           /\ m # 0 => Sign(m) = Sign(l.n)
=============================================================================
