---------------------------- MODULE CallContracts ----------------------------
(***************************************************************************)
(* Resolved contracts and one call that crosses them (evaluator/types.go,  *)
(* evaluator/callables.go): a callable value is held by a slot whose       *)
(* signature it satisfies, or is called directly; its arguments are bound  *)
(* one by one, its body returns, and its result is checked.                *)
(***************************************************************************)
EXTENDS Naturals, Sequences, FiniteSets

CONSTANTS
    Contracts,      \* what signatures are made of, and the signatures of values
    Nesting,        \* Nesting[c]: how deep a contract is nested
    CallValues,     \* every value, the elements and fields of values included
    Slots,          \* signatures of variables, fields and parameters
    Functions,      \* Silver functions, methods bound to their receivers included
    Arguments,      \* argument lists of direct calls
    Results         \* values that bodies return

VARIABLES
    slot,           \* the signature the call goes through, or NoContract
    fn,             \* the function called
    given,          \* its arguments, the receiver of a method first
    taken,          \* how many of them have been bound
    bound,          \* bound[i]: what parameter i received, or Unbound
    at,             \* "idle", "binding", "running", "returned", "raised" or "failed"
    result          \* what the call returned or raised

callVars == <<slot, fn, given, taken, bound, at, result>>

NoContract == [is |-> "none"]
Primitive(name) == [is |-> "primitive", name |-> name]
AnyType == Primitive("any")
Struct(d) == [is |-> "struct", of |-> d]
ArrayOf(element) == [is |-> "array", element |-> element]

\* A call signature: parameters are records of a name ("" when unnamed) and a
\* contract, and the last one takes the rest of the arguments when variadic.
Signature(params, variadic, success, errors) ==
    [is |-> "signature", params |-> params, variadic |-> variadic,
     success |-> success, errors |-> errors]

Scalar(name) == [is |-> "scalar", type |-> name]
Null == Scalar("null")
Instance(d, fields) == [is |-> "instance", of |-> d, fields |-> fields]
Array(elements) == [is |-> "array", elements |-> elements]
Function(signature, operator) ==
    [is |-> "function", signature |-> signature, operator |-> operator]
Builtin(signature) == [is |-> "builtin", signature |-> signature]

\* What evalMember makes of a function in a field with a call signature.
BoundMethod(signature, receiver) ==
    [is |-> "method", signature |-> signature, operator |-> FALSE, receiver |-> receiver]
Callables == {"function", "method", "builtin"}

Parameters == [name : STRING, type : Contracts]
Signatures ==
    {s \in [is : {"signature"}, params : Seq(Parameters), variadic : BOOLEAN,
            success : Contracts, errors : SUBSET Contracts] :
        s.variadic => s.params # <<>>}

ComponentsOf(c) ==
    CASE c.is = "array" -> {c.element}
      [] c.is = "signature" -> {c.params[i].type : i \in DOMAIN c.params} \cup {c.success} \cup c.errors
      [] OTHER -> {}

ASSUME ContractsAssumption ==
    /\ NoContract \in Contracts
    /\ \A c \in Contracts :
          \/ c = NoContract
          \/ c \in [is : {"primitive"}, name : STRING] \cup [is : {"struct"}, of : STRING]
          \/ c \in [is : {"array"}, element : Contracts] \cup Signatures
    /\ Nesting \in [Contracts -> Nat]
    /\ \A c \in Contracts : \A d \in ComponentsOf(c) : Nesting[d] < Nesting[c]

IsValue(v) ==
    \/ v \in [is : {"scalar"}, type : STRING]
    \/ v.is = "array" /\ v.elements \in Seq(CallValues)
    \/ v.is = "instance" /\ \A name \in DOMAIN v.fields : v.fields[name] \in CallValues
    \/ /\ v.is \in Callables /\ v.signature \in Contracts \cap Signatures
       /\ v.is = "method" => v.receiver \in CallValues /\ v.receiver.is = "instance"

ASSUME CallsAssumption ==
    /\ Null \in CallValues
    /\ \A v \in CallValues : IsValue(v)
    /\ Slots \subseteq Signatures
    /\ \A f \in Functions :
          f.signature \in Signatures /\ (f.is = "method" => f.receiver \in CallValues)
    /\ Arguments \subseteq Seq(CallValues)
    /\ Results \subseteq CallValues

Unbound == [from |-> 0, whole |-> TRUE, value |-> Null]

-----------------------------------------------------------------------------
(* Assignability of contracts.                                             *)

(* assignable[<<target, source>>] is what has been found about components. *)

\* Omitted results denote null.
CallReturnAssignable(assignable, target, source) ==
    LET omitted == {NoContract, Primitive("null")}
    IN IF NoContract \in {target, source} THEN {target, source} \subseteq omitted
       ELSE assignable[<<target, source>>]

ReturnsAssignableIgnoringErrors(assignable, target, source) ==
    CallReturnAssignable(assignable, target.success, source.success)

\* The source may declare fewer failures than the target, not others.
CallReturnsAssignable(assignable, target, source) ==
    /\ CallReturnAssignable(assignable, target.success, source.success)
    /\ \A failure \in source.errors : \E allowed \in target.errors : assignable[<<allowed, failure>>]

\* A parameter of the source must take what the target lets callers pass.
ParameterAssignableCovariant(assignable, target, source) ==
    /\ target.name # "" => target.name = source.name
    /\ source.type # NoContract => assignable[<<target.type, source.type>>]

ParameterAssignable(assignable, target, source) ==
    /\ target.name # "" => target.name = source.name
    /\ source.type # NoContract => assignable[<<source.type, target.type>>]

SignatureAssignable(assignable, target, source) ==
    /\ target.variadic = source.variadic
    /\ Len(target.params) = Len(source.params)
    /\ \A i \in DOMAIN target.params :
          ParameterAssignable(assignable, target.params[i], source.params[i])
    /\ CallReturnsAssignable(assignable, target, source)

ContractAssignable[pair \in Contracts \X Contracts] ==
    LET target == pair[1]
        source == pair[2]
    IN /\ NoContract \notin {target, source}
       /\ \/ target = AnyType
          \/ /\ source # AnyType
             /\ IF target.is = "array"
                    THEN source.is = "array" /\ ContractAssignable[<<target.element, source.element>>]
                ELSE IF source.is = "array" THEN target = Primitive("array")
                ELSE IF target.is = "signature"
                    THEN source.is = "signature" /\ SignatureAssignable(ContractAssignable, target, source)
                ELSE IF source.is = "signature" THEN target = Primitive("call")
                ELSE target = source

\* runtimeFunctionMatches: a function, by its resolved signature; a bound method,
\* by the signature of its function, which has the receiver as a parameter.
FunctionMatches(signature, f) == SignatureAssignable(ContractAssignable, signature, f.signature)

-----------------------------------------------------------------------------
(* Values against contracts.                                               *)

PrimitiveNameOf(v) ==
    CASE v.is = "scalar" -> v.type
      [] v.is = "array" -> "array"
      [] v.is \in Callables -> "call"
      [] OTHER -> "struct"

\* The values that a contract accepts.
Accepted[contract \in Contracts] ==
    {v \in CallValues :
        CASE contract.is = "none" -> TRUE
          [] contract.is = "array" ->
                v.is = "array" /\ \A i \in DOMAIN v.elements : v.elements[i] \in Accepted[contract.element]
          [] contract.is = "signature" -> v.is \in Callables /\ FunctionMatches(contract, v)
          [] contract.is = "primitive" -> contract = AnyType \/ contract.name = PrimitiveNameOf(v)
          [] contract.is = "struct" -> v.is = "instance" /\ v.of = contract.of}

TypeMatches(contract, v) == v \in Accepted[contract]

MatchesDeclaredError(errors, v) == \E failure \in errors : TypeMatches(failure, v)

\* requireReturnType: an omitted success contract denotes null.
ReturnTypeHolds(signature, v) ==
    \/ IF signature.success = NoContract THEN v = Null ELSE TypeMatches(signature.success, v)
    \/ MatchesDeclaredError(signature.errors, v)

-----------------------------------------------------------------------------
(* The call.                                                               *)

Params == fn.signature.params
Variadic == fn.signature.variadic
Fixed == IF Variadic THEN 1 .. Len(Params) - 1 ELSE DOMAIN Params

\* What a caller may pass through the slot: one value for every parameter, and
\* any number for the last one of a variadic signature.
TypedFor(signature, args) ==
    LET n == Len(signature.params)
        ParameterOf(i) == signature.params[IF i < n THEN i ELSE n]
    IN /\ IF signature.variadic THEN Len(args) >= n - 1 ELSE Len(args) = n
       /\ \A i \in DOMAIN args : TypeMatches(ParameterOf(i).type, args[i])

\* nextUnassignedParameter: destructuring fills later parameters and leaves
\* gaps, and the next argument goes into the first one.
NextUnassigned(b) ==
    LET vacant == {i \in DOMAIN b : b[i] = Unbound}
    IN IF vacant = {} THEN Len(b) + 1 ELSE CHOOSE i \in vacant : \A j \in vacant : i <= j

Argument == given[taken + 1]

\* The parameters that fields of the argument are offered to.
OfferedAgain(p) == {i \in Fixed : i >= p /\ Params[i].name \in DOMAIN Argument.fields}
Offered(p) ==
    {i \in Fixed : i >= p /\ bound[i] = Unbound /\ Params[i].name \in DOMAIN Argument.fields}

\* applyFunction puts the receiver of a method in front.
StartCall(s, f, args) ==
    /\ slot = s /\ fn = f /\ taken = 0
    /\ given = IF f.is = "method" THEN <<f.receiver>> \o args ELSE args
    /\ bound = [i \in DOMAIN f.signature.params |-> Unbound]
    /\ at = "binding" /\ result = Null

Fail ==
    /\ at' = "failed"
    /\ UNCHANGED <<slot, fn, given, taken, bound, result>>

TooManyArguments == at = "binding" /\ taken = 0 /\ ~Variadic /\ Len(given) > Len(Params) /\ Fail

\* One turn of the loop of bindFunctionArguments.
Binding == at = "binding" /\ taken < Len(given) /\ (Variadic \/ Len(given) <= Len(Params))

Take(newlyBound) ==
    /\ taken' = taken + 1
    /\ bound' = newlyBound
    /\ UNCHANGED <<slot, fn, given, at, result>>

\* The parameter p takes the argument whole, or its fields go to p and others.
TakesWhole(p) == p \in DOMAIN Params /\ TypeMatches(Params[p].type, Argument)

TakesFields(p) ==
    /\ p \in Fixed
    /\ ~TakesWhole(p)
    /\ Argument.is = "instance"
    /\ Offered(p) # {}
    /\ \A i \in Offered(p) : TypeMatches(Params[i].type, Argument.fields[Params[i].name])

BindWhole ==
    /\ Binding
    /\ LET p == NextUnassigned(bound)
       IN /\ p \in Fixed /\ TakesWhole(p)
          /\ Take([bound EXCEPT ![p] = [from |-> taken + 1, whole |-> TRUE, value |-> Argument]])

\* The pack is bound when every argument has been seen.
BindRest ==
    /\ Binding
    /\ LET p == NextUnassigned(bound) IN p \notin Fixed /\ TakesWhole(p)
    /\ Take(bound)

Destructure ==
    /\ Binding
    /\ LET p == NextUnassigned(bound)
       IN /\ TakesFields(p)
          /\ Take([i \in DOMAIN bound |->
                 IF i \in Offered(p)
                     THEN [from |-> taken + 1, whole |-> FALSE,
                           value |-> Argument.fields[Params[i].name]]
                     ELSE bound[i]])

BindingFails ==
    /\ Binding
    /\ LET p == NextUnassigned(bound) IN ~TakesWhole(p) /\ ~TakesFields(p)
    /\ Fail

AllBound == \A i \in Fixed : bound[i] # Unbound

TooFewArguments == at = "binding" /\ taken = Len(given) /\ ~AllBound /\ Fail

EnterBody ==
    /\ at = "binding" /\ taken = Len(given) /\ AllBound
    /\ at' = "running"
    /\ UNCHANGED <<slot, fn, given, taken, bound, result>>

Leave(how, v) ==
    /\ at' = how
    /\ result' = v
    /\ UNCHANGED <<slot, fn, given, taken, bound>>

Void == fn.signature.success = NoContract /\ fn.signature.errors = {} /\ ~fn.operator

\* applyUserFunction after the body, which returned v or ended, for null.
Return(v) ==
    /\ at = "running"
    /\ LET checked == ~fn.operator \/ fn.signature.success # NoContract
       IN IF Void THEN Leave("returned", Null)
          ELSE IF checked /\ ~ReturnTypeHolds(fn.signature, v) THEN Leave("failed", Null)
          ELSE Leave(IF MatchesDeclaredError(fn.signature.errors, v) THEN "raised" ELSE "returned", v)

CallIdle ==
    /\ slot = NoContract /\ fn = Null /\ given = <<>> /\ taken = 0 /\ bound = <<>>
    /\ at = "idle" /\ result = Null

CallInit ==
    \E f \in Functions, args \in Arguments :
        \/ StartCall(NoContract, f, args)
        \/ \E s \in Slots : ~f.operator /\ FunctionMatches(s, f) /\ TypedFor(s, args) /\ StartCall(s, f, args)

CallNext ==
    \/ TooManyArguments \/ BindWhole \/ BindRest \/ Destructure \/ BindingFails
    \/ TooFewArguments \/ EnterBody
    \/ \E v \in Results : Return(v)

-----------------------------------------------------------------------------
\* The results that make assignability intransitive never meet: a null result
\* may be written or omitted, an omitted one satisfies `null`, `null` satisfies
\* `any`, and an omitted one does not.
SpellingsAgree ==
    \E missing \in {AnyType, Primitive("null"), NoContract} :
        \A c \in Contracts : c.is = "signature" => c.success # missing

\* What a slot admitted binds every argument list that the slot's signature
\* lets callers pass, whole and in order: what assignability decided from two
\* signatures holds for the values of a call (types.go, runtimeFunctionMatches:
\* "The supplied function must accept everything the expected signature permits
\* callers to pass").
EveryCallableBinds ==
    slot # NoContract /\ at # "idle" =>
        /\ at = "failed" => AllBound
        /\ \A i \in Fixed : bound[i] # Unbound => bound[i].whole /\ bound[i].value = given[i]

\* The same of every function that is called without a receiver.  A method is
\* admitted by a signature that names its receiver as a parameter, and called
\* with the receiver before the arguments: EveryCallableBinds is false of it.
SlotCallsBind == fn.is # "method" => EveryCallableBinds

\* What comes back through a slot is what its signature announces: a success
\* of its success contract, null when it has none, and no failure that it does
\* not list (types.go, callReturnsAssignable).
SlotResultsFit ==
    slot # NoContract =>
        /\ at = "returned" =>
               IF slot.success = NoContract THEN result = Null ELSE TypeMatches(slot.success, result)
        /\ at = "raised" => MatchesDeclaredError(slot.errors, result)

\* A body runs with every parameter bound to a value of its contract; every
\* argument is used, whole by one parameter (whole ones keep their order) or
\* by the parameters that its fields are named for (callables.go,
\* bindFunctionArguments: "Track occupancy separately so the next argument
\* fills the first gap").
ArgumentsAreUsed ==
    at = "running" =>
        /\ \A i \in Fixed : bound[i] # Unbound /\ TypeMatches(Params[i].type, bound[i].value)
        /\ ~Variadic => {bound[i].from : i \in Fixed} = DOMAIN given
        /\ \A i, j \in Fixed : i < j /\ bound[i].whole /\ bound[j].whole =>
               bound[i].from < bound[j].from
        /\ \A i, j \in Fixed : i # j /\ bound[i].from = bound[j].from => ~bound[i].whole
=============================================================================
