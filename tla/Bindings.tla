------------------------------ MODULE Bindings ------------------------------
(***************************************************************************)
(* Lexical environments, the contracts declarations capture, and the       *)
(* statements that bind and assign names.  Every statement that takes a    *)
(* value resolves its target or its annotation first, then evaluates an    *)
(* expression that may call closures, catch failures and run blocks, and   *)
(* then stores.  `stack` holds the bodies being executed and the           *)
(* statements waiting for a value, innermost last.                         *)
(*                                                                         *)
(* The program text is arbitrary: a running body may take any statement,   *)
(* and a value may be anything an expression can produce where it stands.  *)
(* Templates, which execute later in the scope they captured, and deferred *)
(* calls are left out.                                                     *)
(***************************************************************************)
EXTENDS Integers, Sequences, FiniteSets, FiniteSetsExt, SequencesExt

CONSTANTS
  Names,          \* identifiers of values and types
  BuiltinNames,   \* those that name a built-in struct while nothing is bound
  Primitives,     \* primitive types, of literals and in annotations
  Annotations,    \* annotations of the program; None: no annotation
  Signatures,     \* <<parameter, annotation>> of its function literals
  None,           \* no contract, no value, not bound
  Preludes,       \* what the script's first statements may have bound
  MaxScopes,      \* bound: environments created
  MaxDepth,       \* bound: bodies and waiting statements at once
  MaxTypes,       \* bound: nominal definitions created
  MaxSteps        \* bound: statements and calls begun

Reserved == {"struct", "alias", "instance", "call"}

ASSUME BindingsAssumption ==
  /\ BuiltinNames \subseteq Names
  /\ Names \cap Primitives = {} /\ Primitives \cap Reserved = {}
  /\ None \notin Names \cup Primitives
  /\ Annotations \subseteq Names \cup Primitives \cup {None}
  /\ Signatures \subseteq Names \X (Names \cup Primitives \cup {None})
  /\ MaxScopes \in Nat \ {0} /\ MaxDepth \in Nat /\ MaxTypes \in Nat
  /\ MaxSteps \in Nat

VARIABLES
  enclosing,  \* Environment.outer, as the set of scopes from each one outward
  bindings,   \* Environment.store and .types: a cell for each bound name
  stack,      \* bodies being executed and statements waiting for a value
  strayed,    \* history: cells last assigned by a statement that had found another
  result,     \* the value the last call or block has produced
  types,      \* nominal definitions created so far
  steps       \* statements and calls begun so far

vars == <<enclosing, bindings, stack, strayed, result, types, steps>>
counters == <<types, steps>>

Scopes == 1 .. MaxScopes
BuiltinError == 0       \* the identity of the built-in Error definition

-----------------------------------------------------------------------------
(* Values and contracts.                                                   *)

Definition(id) == [type |-> "struct", id |-> id]
Instance(id) == [type |-> "instance", id |-> id]
Alias(contract) == [type |-> "alias", contract |-> contract]
Literal(primitive) == [type |-> primitive]
Function(scope, parameter, contract) ==
  [type |-> "call", scope |-> scope, parameter |-> parameter,
   contract |-> contract]

(* A nominal contract holds the exact definition, never its name. *)
Nominal(id) == [type |-> "instance", id |-> id]
Runtime(type) == [type |-> type]

Ids == 0 .. MaxTypes
Contracts == {Nominal(id) : id \in Ids}
             \cup {Runtime(t) : t \in Primitives \cup (Reserved \ {"instance"})}
Values == {Definition(id) : id \in Ids} \cup {Instance(id) : id \in Ids}
          \cup {Alias(c) : c \in Contracts}
          \cup {Literal(p) : p \in Primitives}
          \cup {Function(s, n, c) : s \in Scopes, n \in Names,
                                    c \in Contracts \cup {None}}
Cells == [value : Values, contract : Contracts \cup {None}]

(* A cell is told from an unbound name. *)
ASSUME NoneIsNoCell == None \notin Cells

(* typeMatches, without arrays and signatures. *)
Conforms(contract, value) ==
  contract # None =>
    /\ value.type = contract.type
    /\ value.type = "instance" => value.id = contract.id

(* The first statements of a script run in its scope, as others do. *)
ASSUME PreludesAssumption ==
  \A prelude \in Preludes :
    /\ prelude \in [Names -> Cells \cup {None}]
    /\ \A n \in Names : prelude[n] # None =>
         /\ Conforms(prelude[n].contract, prelude[n].value)
         /\ prelude[n].value.type = "call" => prelude[n].value.scope = 1

(* inferredBindingContract *)
InferredContract(value) ==
  IF value.type = "instance" THEN Nominal(value.id) ELSE Runtime(value.type)

-----------------------------------------------------------------------------
(* Environments.                                                           *)

Item == [kind     : {"program", "call", "iteration", "catch", "block", "try",
                     "let", "infer", "assign"},
         scope    : Scopes,                    \* where its code runs
         name     : Names \cup {None},         \* the name it will bind
         contract : Contracts \cup {None},     \* captured before the value
         \* history: the scope of the cell that an assignment found; 0 when
         \* its name was declared again since
         target   : Scopes \cup {0}]

Body(kind, scope) ==
  [kind |-> kind, scope |-> scope, name |-> None, contract |-> None,
   target |-> 0]

Waits == {"let", "infer", "assign"}
Top == stack[Len(stack)]
Under == Front(stack)
Here == Top.scope
Executing == Top.kind \notin Waits
Evaluating == Top.kind \in Waits

(* Scope numbers grow inward: the nearest scope is the largest. *)
Holding(scope, name) == {s \in enclosing[scope] : bindings[s][name] # None}
Nearest(scope, name) ==
  IF Holding(scope, name) = {} THEN 0 ELSE Max(Holding(scope, name))

(* evalIdentifier, and the lookup of a type name. *)
Lookup(scope, name) ==
  IF Nearest(scope, name) # 0 THEN bindings[Nearest(scope, name)][name].value
  ELSE IF name \in BuiltinNames THEN Definition(BuiltinError) ELSE None

(* ResolveContract of a simple name; the annotation None means anything.   *)
Meaning(annotation, scope) ==
  CASE annotation = None -> {None}
    [] annotation \in Primitives -> {Runtime(annotation)}
    [] OTHER ->
         LET value == Lookup(scope, annotation)
         IN IF value = None THEN {}
            ELSE IF value.type = "struct" THEN {Nominal(value.id)}
            ELSE IF value.type = "alias" THEN {value.contract} ELSE {}

(* ResolveErrorContract: a failure alternative is a struct. *)
ErrorMeaning(annotation, scope) ==
  {c \in Meaning(annotation, scope) : c # None /\ c.type = "instance"}

Empty == [n \in Names |-> None]
Cell(value, contract) == [value |-> value, contract |-> contract]
NextScope == Len(enclosing) + 1

(* The bound leaves every open try the scope its handler may need. *)
RoomForScope ==
  NextScope + Cardinality({i \in DOMAIN stack : stack[i].kind = "try"})
    <= MaxScopes

(* NewFunctionEnvironment and NewEnclosedEnvironment, with one name bound. *)
OpenScope(outer, name, value, contract) ==
  /\ enclosing' = Append(enclosing, enclosing[outer] \cup {NextScope})
  /\ bindings' =
       Append(bindings, [Empty EXCEPT ![name] = Cell(value, contract)])

(* Environment.Set and SetTyped replace value and contract together. *)
SetTyped(scope, name, value, contract) ==
  /\ bindings' = [bindings EXCEPT ![scope][name] = Cell(value, contract)]
  /\ strayed' = strayed \ {<<scope, name>>}

AssignTo(scope, name, value) ==
  /\ bindings' = [bindings EXCEPT ![scope][name].value = value]
  /\ strayed' = IF Top.target = 0 THEN strayed \cup {<<scope, name>>}
                 ELSE strayed \ {<<scope, name>>}
(* As Assign, taking the outermost of the cells. *)
AssignOutermost(name, value) == AssignTo(Min(Holding(Here, name)), name, value)
(* Environment.Assign looks the name up again, and keeps the contract that *)
(* the cell it finds has now.                                              *)
Assign(name, value) == AssignTo(Nearest(Here, name), name, value)

(* A declaration in a scope where assignments to its name wait, of which   *)
(* `items` are those that wait when it takes effect.                       *)
Overtaken(item, name) ==
  item.kind = "assign" /\ item.scope = Here /\ item.name = name
Overtake(items, name) ==
  [i \in DOMAIN items |->
     IF Overtaken(items[i], name) THEN [items[i] EXCEPT !.target = 0] ELSE items[i]]

-----------------------------------------------------------------------------
(* Expressions.                                                            *)

Visible == {Lookup(Here, n) : n \in Names} \ {None}
FunctionLiterals ==
  UNION {{Function(Here, s[1], c) : c \in Meaning(s[2], Here)} :
           s \in Signatures}

(* What an expression evaluated here can come to: literals, names,         *)
(* constructed instances, closures, and what its last call returned.       *)
Producible ==
  {Literal(p) : p \in Primitives} \cup Visible
  \cup {Instance(v.id) : v \in {w \in Visible : w.type = "struct"}}
  \cup FunctionLiterals
  \cup ({result} \ {None})

Begin == steps < MaxSteps /\ steps' = steps + 1
Push(item) == Len(stack) < MaxDepth /\ stack' = Append(stack, item)

-----------------------------------------------------------------------------
(* Statements that wait for a value.                                       *)

(* LetStatement: the annotation is resolved before the initializer runs.   *)
BeginLet(name, annotation) ==
  /\ Executing /\ Begin
  /\ \E contract \in Meaning(annotation, Here) :
       Push([Body("let", Here) EXCEPT !.name = name, !.contract = contract])
  /\ UNCHANGED <<enclosing, bindings, strayed, result, types>>

(* let name := ... *)
BeginInferred(name) ==
  /\ Executing /\ Begin
  /\ Push([Body("infer", Here) EXCEPT !.name = name])
  /\ UNCHANGED <<enclosing, bindings, strayed, result, types>>

(* evalAssignment: AssignmentTarget finds the contract of the nearest cell *)
(* before the value is evaluated; only the contract is kept.               *)
BeginAssign(name) ==
  /\ Executing /\ Begin
  /\ LET scope == Nearest(Here, name)
     IN /\ scope # 0
        /\ Push([Body("assign", Here) EXCEPT
                   !.name = name, !.target = scope,
                   !.contract = bindings[scope][name].contract])
  /\ UNCHANGED <<enclosing, bindings, strayed, result, types>>

Arrived(kind, value) ==
  /\ Evaluating /\ Top.kind = kind
  /\ value \in Producible
  /\ stack' = IF kind = "assign" THEN Under ELSE Overtake(Under, Top.name)
  /\ result' = None
  /\ UNCHANGED <<enclosing, counters>>

EndLet(value) ==
  /\ Arrived("let", value)
  /\ Conforms(Top.contract, value)
  /\ SetTyped(Here, Top.name, value, Top.contract)

EndInferred(value) ==
  /\ Arrived("infer", value)
  /\ SetTyped(Here, Top.name, value, InferredContract(value))

EndAssignUnchecked(value) == Arrived("assign", value) /\ Assign(Top.name, value)
EndAssign(value) ==
  /\ Arrived("assign", value)
  /\ Conforms(Top.contract, value)
  /\ Assign(Top.name, value)

-----------------------------------------------------------------------------
(* Statements that bind a type name at once.                               *)

(* evalStructType, evalEnumType: a fresh definition replaces the binding.  *)
(* A struct is bound before its fields are resolved: a Fault may follow.   *)
DeclareNominal(name) ==
  /\ Executing /\ Begin
  /\ types < MaxTypes /\ types' = types + 1
  /\ SetTyped(Here, name, Definition(types + 1), None)
  /\ stack' = Overtake(stack, name)
  /\ UNCHANGED <<enclosing, result>>

(* evalTypeStatement of an annotation. *)
DeclareAlias(name, annotation) ==
  /\ Executing /\ Begin
  /\ annotation # None
  /\ \E contract \in Meaning(annotation, Here) :
       SetTyped(Here, name, Alias(contract), None)
  /\ stack' = Overtake(stack, name)
  /\ UNCHANGED <<enclosing, result, types>>

-----------------------------------------------------------------------------
(* Bodies.                                                                 *)

(* applyUserFunction: the argument is checked against the contract that    *)
(* the function captured, then bound in a child of its captured scope.     *)
Call(function, argument) ==
  /\ Begin /\ RoomForScope
  /\ function.type = "call"
  /\ Conforms(function.contract, argument)
  /\ OpenScope(function.scope, function.parameter, argument, function.contract)
  /\ Push(Body("call", NextScope))
  /\ result' = None
  /\ UNCHANGED <<strayed, types>>

(* evalForIteration: an untyped loop variable in a scope of its own. *)
Iterate(name, value) ==
  /\ Executing /\ Begin /\ RoomForScope
  /\ OpenScope(Here, name, value, None)
  /\ Push(Body("iteration", NextScope))
  /\ UNCHANGED <<strayed, result, types>>

(* A block of if or switch runs in the scope of the statement it is in. *)
EnterBlock ==
  /\ Evaluating /\ Begin
  /\ Push(Body("block", Here))
  /\ UNCHANGED <<enclosing, bindings, strayed, result, types>>

(* evalTryExpression: the handler's type is resolved first; the body runs  *)
(* in the surrounding scope.                                               *)
EnterTry(name, annotation) ==
  /\ Begin /\ RoomForScope
  /\ \E contract \in ErrorMeaning(annotation, Here) :
       Push([Body("try", Here) EXCEPT !.name = name, !.contract = contract])
  /\ UNCHANGED <<enclosing, bindings, strayed, result, types>>

(* A body ends; its value matters to a statement that waits for it.        *)
Leave(value) ==
  /\ Executing /\ Top.kind # "program"
  /\ value \in Producible
  /\ stack' = Under
  /\ result' = IF Last(Under).kind \in Waits THEN value ELSE None
  /\ UNCHANGED <<enclosing, bindings, strayed, counters>>

-----------------------------------------------------------------------------
(* Failures.  No statement runs between a failure and its handler but      *)
(* deferred calls, which Unwinding models, so unwinding is one step.       *)

Handlers(id) ==
  {i \in DOMAIN stack : stack[i].kind = "try" /\ stack[i].contract = Nominal(id)}

Unwind(id) ==
  IF Handlers(id) = {}
    THEN stack' = <<Head(stack)>> /\ UNCHANGED <<enclosing, bindings>>
    ELSE LET handler == stack[Max(Handlers(id))]
         IN /\ OpenScope(handler.scope, handler.name, Instance(id),
                         handler.contract)
            /\ stack' = Append(SubSeq(stack, 1, Max(Handlers(id)) - 1),
                               Body("catch", NextScope))

(* A runtime fault: an unknown name, a value or an argument against its    *)
(* contract, an annotation that names no type, any failing operation.      *)
Fault ==
  /\ Len(stack) > 1 /\ Unwind(BuiltinError)
  /\ result' = None
  /\ UNCHANGED <<strayed, counters>>

(* A call returns an instance of a struct it declares as an error.         *)
Throw(value) ==
  /\ Executing /\ Top.kind = "call"
  /\ value \in Producible /\ value.type = "instance"
  /\ Unwind(value.id)
  /\ result' = None
  /\ UNCHANGED <<strayed, counters>>

-----------------------------------------------------------------------------
Init ==
  /\ enclosing = <<{1}>>
  /\ \E prelude \in Preludes : bindings = <<prelude>>
  /\ stack = <<Body("program", 1)>>
  /\ strayed = {}
  /\ result = None
  /\ types = 0 /\ steps = 0

Statement ==
  \/ \E n \in Names :
       \/ \E a \in Annotations : BeginLet(n, a) \/ DeclareAlias(n, a)
       \/ BeginInferred(n) \/ BeginAssign(n) \/ DeclareNominal(n)
  \/ \E v \in Producible : EndLet(v) \/ EndInferred(v) \/ EndAssign(v)

Bodies ==
  \/ \E f \in Visible \cup ({result} \ {None}), v \in Producible : Call(f, v)
  \/ \E n \in Names :
       \/ \E v \in Producible : Iterate(n, v)
       \/ \E a \in Annotations \cap Names : EnterTry(n, a)
  \/ EnterBlock
  \/ \E v \in Producible : Leave(v) \/ Throw(v)

Next == Statement \/ Bodies \/ Fault
Spec == Init /\ [][Next]_vars

-----------------------------------------------------------------------------
(* Types and bounds of the state. *)
TypeOK ==
  /\ enclosing \in Seq(SUBSET Scopes)
  /\ Len(enclosing) \in Scopes
  /\ \A s \in DOMAIN enclosing :
       s \in enclosing[s] /\ enclosing[s] \subseteq 1 .. s
  /\ bindings \in Seq([Names -> Cells \cup {None}])
  /\ Len(bindings) = Len(enclosing)
  /\ stack \in Seq(Item) /\ stack # <<>> /\ Len(stack) <= MaxDepth + 1
  /\ \A i \in DOMAIN stack : stack[i].scope \in DOMAIN enclosing
  /\ strayed \subseteq Scopes \X Names
  /\ result \in Values \cup {None}
  /\ types \in Ids /\ steps \in 0 .. MaxSteps

Honours(cell) == cell # None => Conforms(cell.contract, cell.value)

(* An annotation remains attached to its binding, so that every assignment *)
(* is checked against it (docs/language_guide/types.md): the value of a    *)
(* name always honours the contract of its declaration.                    *)
AssignmentsAreChecked ==
  \A s \in DOMAIN bindings : \A n \in Names : Honours(bindings[s][n])

(* What a name holds honours the contract its declaration captured, unless *)
(* it was stored by an assignment whose name was declared again in the     *)
(* scope of the assignment while this waited for its value: closures and   *)
(* handlers, and what is declared in them, never come between the check    *)
(* and the store (evalAssignment, LetStatement).                           *)
BindingsConform ==
  /\ TypeOK
  /\ \A s \in DOMAIN bindings : \A n \in Names :
       <<s, n>> \notin strayed => Honours(bindings[s][n])

(* Every value that a statement waited for lands in the cell, and under the*)
(* contract, that the statement had found when it began, unless the name   *)
(* was declared again since: LexicalCells.                                 *)
Promised(item) ==
  IF item.kind \notin Waits THEN [kind |-> "none"]
  ELSE IF item.kind = "assign" /\ item.target = 0 THEN [kind |-> "void"]
  ELSE [kind |-> item.kind,
        at |-> <<IF item.kind = "assign" THEN item.target ELSE item.scope,
                 item.name>>,
        contract |-> item.contract]

(* A declaration hides what a name meant in its scope and further out. *)
Hiding(place, other) == place[2] = other[2] /\ other[1] <= place[1]

Abstract == INSTANCE LexicalCells WITH
  Places <- Scopes \X Names,
  Hides <- Hiding,
  cells <- [p \in Scopes \X Names |->
              IF p[1] \in DOMAIN bindings THEN bindings[p[1]][p[2]] ELSE None],
  promises <- [i \in DOMAIN stack |-> Promised(stack[i])]
KeepsPromises == Abstract!CellsSpec
=============================================================================
