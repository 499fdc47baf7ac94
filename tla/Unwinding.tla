------------------------------ MODULE Unwinding ------------------------------
(***************************************************************************)
(* How one evaluator enters and leaves scopes: function calls, imports,    *)
(* loops, try/catch, value operands and lazy templates, the deferred calls *)
(* each invocation owns, and the signals (return, break, continue, error)  *)
(* that unwind them.  The Go call stack of the tree walker is `stack`: one *)
(* item per construct whose evaluation is in progress, innermost last.     *)
(* `signal` is the object.Object the innermost Eval has just produced;     *)
(* "run" means that the construct on top is executing its statements.      *)
(*                                                                         *)
(* The program text is arbitrary: a running body may take any statement.   *)
(* Values are abstracted to what unwinding tells apart: an ordinary value  *)
(* (None) or an instance of an application error struct.                   *)
(***************************************************************************)
EXTENDS Integers, Sequences, FiniteSets, SequencesExt

CONSTANTS
  Errors,            \* application error structs (nominal definitions)
  RuntimeError,      \* the built-in runtime error struct of that name
  Fault,             \* any other built-in one: TypeError, NameError, ...
  None,              \* an ordinary value: no error struct involved
  CatchClauses,      \* the sets of error types try expressions catch
  MaxDepth,          \* bound: constructs in progress and templates
  MaxEnvs,           \* bound: environments created
  MaxDefers,         \* bound: defer statements executed
  MaxTemplates       \* bound: template literals evaluated

RuntimeErrors == {RuntimeError, Fault}
AllErrors == Errors \cup RuntimeErrors

ASSUME UnwindingAssumption ==
  /\ Errors \cap RuntimeErrors = {}
  /\ None \notin AllErrors
  /\ CatchClauses \subseteq SUBSET AllErrors
  /\ MaxDepth \in Nat /\ MaxEnvs \in Nat /\ MaxDefers \in Nat
  /\ MaxTemplates \in Nat

VARIABLES
  stack,       \* constructs in progress
  signal,      \* the result being handed to the construct on top
  contexts,    \* Evaluator.contexts: environments naming active functions
  deferOwner,  \* Environment.deferOwner, 0 when nil; one entry per environment
  defers,      \* Environment.defers, as indices into regs
  templates,   \* template values created so far
  regs,        \* history: every executed defer statement
  drained,     \* history: environments whose defers have been taken
  left         \* history: environments whose invocation has been left

vars == <<stack, signal, contexts, deferOwner, defers, templates,
          regs, drained, left>>

-----------------------------------------------------------------------------
(* Signals and traceback frames.                                           *)

TraceFrame == [fn : Nat, level : Int]
SignalKinds == {"run", "return", "break", "continue", "error", "done"}
Signal == [kind : SignalKinds, type : AllErrors \cup {None},
           frames : Seq(TraceFrame)]

Plain(kind) == [kind |-> kind, type |-> None, frames |-> <<>>]
Run == Plain("run")
ErrorOf(type, frames) == [kind |-> "error", type |-> type, frames |-> frames]

(* Constructs in progress.  Program and Call own a lifetime; a Template    *)
(* borrows a captured environment; the others live inside an invocation.   *)
Lifetimes == {"Program", "Call"}
Kinds == Lifetimes \cup {"Template", "Loop", "Try", "Catch", "Operand"}
ReturnChecks == {"void", "checked", "any"}

Item == [kind      : Kinds,
         env       : Nat,               \* environment statements run in
         level     : Int,               \* calls, imports and templates below
         types     : SUBSET AllErrors,  \* declared errors, or catch clauses
         check     : ReturnChecks,      \* how a Call validates its result
         fresh     : BOOLEAN,           \* for: an environment per iteration
         inLoop    : BOOLEAN,           \* a Template declared inside a loop
         saved     : Seq(Nat),          \* the caller's contexts (Template)
         deferred  : BOOLEAN,           \* invoked by runDefers
         unwinding : BOOLEAN,           \* running the defers it has taken
         todo      : Seq(Nat),          \* taken defers not yet invoked
         held      : Signal,            \* result of the body
         failure   : Signal]            \* runDefers' deferredFailure

NewItem(kind, env, level) ==
  [kind |-> kind, env |-> env, level |-> level, types |-> {},
   check |-> "any", fresh |-> FALSE, inLoop |-> FALSE, saved |-> <<>>,
   deferred |-> FALSE, unwinding |-> FALSE, todo |-> <<>>,
   held |-> Run, failure |-> Run]

Top == stack[Len(stack)]
Under == Front(stack)
Current(ctxs) == IF ctxs = <<>> THEN 0 ELSE Last(ctxs)
Here == [fn |-> Current(contexts), level |-> Top.level]

(* newError followed by the SetOrigin of the innermost Eval. *)
Fail(type) == ErrorOf(type, <<Here>>)

(* prependCallerFrame, then Eval's SetOrigin at the calling node: an error *)
(* with a traceback gains the caller in front of it, one without a         *)
(* traceback originates at the call.                                       *)
AtCallerForgetsPrepend(result, caller) ==
  IF result.kind = "error" /\ result.frames = <<>>
    THEN [result EXCEPT !.frames = <<caller>>]
    ELSE result
AtCaller(result, caller) ==
  IF result.kind = "error"
    THEN [result EXCEPT !.frames = <<caller>> \o @]
    ELSE result

-----------------------------------------------------------------------------
(* Environments.                                                           *)

Owner(env) == IF deferOwner[env] = 0 THEN env ELSE deferOwner[env]
NextEnv == Len(deferOwner) + 1

NewEnvironment(owner) ==
  /\ deferOwner' = Append(deferOwner, owner)
  /\ defers' = Append(defers, <<>>)

NewFunctionEnvironment == NewEnvironment(0)
NewEnclosedEnvironment(outer) == NewEnvironment(Owner(outer))

(* The bound leaves every open try the environment its handler may need.   *)
RoomForEnv ==
  NextEnv + Cardinality({p \in DOMAIN stack : stack[p].kind = "Try"}) <= MaxEnvs

SameEnvironments == UNCHANGED <<deferOwner, defers>>
SameHistory == UNCHANGED <<regs, drained, left>>

(* A template takes the room of one construct. *)
RoomForItem == Len(stack) + Cardinality(templates) < MaxDepth
Push(item) == RoomForItem /\ stack' = Append(stack, item)
Replace(item) == stack' = Append(Under, item)

Running == stack # <<>> /\ signal.kind = "run" /\ ~Top.unwinding
Arriving(kinds) == stack # <<>> /\ signal.kind \in kinds

Inside(kind) == NewItem(kind, Top.env, Top.level)

-----------------------------------------------------------------------------
Init ==
  /\ stack = <<NewItem("Program", 1, 0)>>
  /\ signal = Run
  /\ contexts = <<>>
  /\ deferOwner = <<0>>
  /\ defers = << <<>> >>
  /\ templates = {}
  /\ regs = <<>>
  /\ drained = {}
  /\ left = {}

-----------------------------------------------------------------------------
(* Statements a running body may execute.                                  *)

(* The callable and its arguments are captured now; the call belongs to    *)
(* the owner of the current environment, whatever scope this is.           *)
DeferStatement ==
  /\ Running
  /\ Len(regs) < MaxDefers
  /\ LET owner == Owner(Top.env) IN
       /\ regs' = Append(regs, [owner |-> owner, late |-> owner \in drained,
                                runs |-> 0])
       /\ defers' = [defers EXCEPT ![owner] = Append(@, Len(regs) + 1)]
  /\ UNCHANGED <<stack, signal, contexts, deferOwner, templates, drained, left>>

(* A fault in this body, a failed argument binding, or a native builtin    *)
(* answering with one of its declared error structs.                       *)
RaiseError(type) ==
  /\ Running
  /\ signal' = Fail(type)
  /\ UNCHANGED <<stack, contexts, templates>> /\ SameEnvironments /\ SameHistory

ReturnStatement(payload) ==
  /\ Running
  /\ signal' = [Plain("return") EXCEPT !.type = payload]
  /\ UNCHANGED <<stack, contexts, templates>> /\ SameEnvironments /\ SameHistory

(* The parser's loopDepth: a function literal starts again from zero, an   *)
(* interpolation keeps the depth of the place its template is written at.  *)
(* That the parser admits a break nowhere else is checked in ParserContexts. *)
InsideLoop ==
  LET scopes == {p \in DOMAIN stack :
                   stack[p].kind \in Lifetimes \cup {"Template", "Loop"}}
      nearest == stack[CHOOSE p \in scopes : \A q \in scopes : q <= p]
  IN nearest.kind = "Loop" \/ (nearest.kind = "Template" /\ nearest.inLoop)

LoopControl(kind) ==
  /\ Running
  /\ InsideLoop
  /\ signal' = Plain(kind)
  /\ UNCHANGED <<stack, contexts, templates>> /\ SameEnvironments /\ SameHistory

EnterOperand ==
  /\ Running
  /\ Push(Inside("Operand"))
  /\ UNCHANGED <<signal, contexts, templates>>
  /\ SameEnvironments /\ SameHistory

(* Catch contracts are resolved before the body runs. *)
EnterTry(catches) ==
  /\ Running
  /\ RoomForEnv
  /\ Push([Inside("Try") EXCEPT !.types = catches])
  /\ UNCHANGED <<signal, contexts, templates>>
  /\ SameEnvironments /\ SameHistory

EnterWhile ==
  /\ Running
  /\ Push(Inside("Loop"))
  /\ UNCHANGED <<signal, contexts, templates>>
  /\ SameEnvironments /\ SameHistory

EnterFor ==
  /\ Running
  /\ RoomForEnv
  /\ NewEnclosedEnvironment(Top.env)
  /\ Push([Inside("Loop") EXCEPT !.env = NextEnv, !.fresh = TRUE])
  /\ UNCHANGED <<signal, contexts, templates>> /\ SameHistory

(* runDefers walks the taken calls from the last one down. *)
FirstDeferred(calls) == Head(calls)
LastDeferred(calls) == Last(calls)
Undrained(calls) == Front(calls)

(* applyUserFunction once its arguments are bound: a function environment  *)
(* with its own defers and a context entry.                                *)
Invoke(declared, check, deferred) ==
  /\ RoomForEnv
  /\ NewFunctionEnvironment
  /\ contexts' = Append(contexts, NextEnv)
  /\ LET call == [NewItem("Call", NextEnv, Top.level + 1) EXCEPT
                    !.types = declared, !.check = check, !.deferred = deferred]
     IN IF deferred
          THEN /\ RoomForItem
               /\ stack' = Append(Append(Under, [Top EXCEPT !.todo = Undrained(@)]),
                               call)
          ELSE Push(call)

CallFunction(declared, check) ==
  /\ Running
  /\ Invoke(declared, check, FALSE)
  /\ UNCHANGED <<signal, templates>> /\ SameHistory

(* An import whose module is not loaded yet evaluates its program in a     *)
(* top-level environment of its own.                                       *)
ImportModule ==
  /\ Running
  /\ RoomForEnv
  /\ NewFunctionEnvironment
  /\ contexts' = Append(contexts, NextEnv)
  /\ Push(NewItem("Program", NextEnv, Top.level + 1))
  /\ UNCHANGED <<signal, templates>> /\ SameHistory

(* A template literal captures its environment and a fork of the execution *)
(* context; nothing is evaluated.                                          *)
TemplateLiteral ==
  /\ Running
  /\ Cardinality(templates) < MaxTemplates
  /\ templates' = templates \cup
       {[env |-> Top.env, contexts |-> contexts, inLoop |-> InsideLoop]}
  /\ UNCHANGED <<stack, signal, contexts>> /\ SameEnvironments /\ SameHistory

(* eval() runs the interpolations in the captured environment, in a fork   *)
(* of the captured context.                                                *)
EvalTemplateInCallersContext(t) ==
  /\ Running
  /\ Push([NewItem("Template", t.env, Top.level + 1) EXCEPT
             !.saved = contexts, !.inLoop = t.inLoop])
  /\ UNCHANGED <<signal, contexts, templates>>
  /\ SameEnvironments /\ SameHistory
EvalTemplate(t) ==
  /\ Running
  /\ Push([NewItem("Template", t.env, Top.level + 1) EXCEPT
             !.saved = contexts, !.inLoop = t.inLoop])
  /\ contexts' = t.contexts
  /\ UNCHANGED <<signal, templates>> /\ SameEnvironments /\ SameHistory

-----------------------------------------------------------------------------
(* A body runs to its end, or a signal arrives at the construct on top.    *)

Leave(result) ==
  /\ stack' = Under
  /\ signal' = result

(* Operands, try bodies and catch bodies hand their value to the enclosing *)
(* construct, which goes on executing.                                     *)
EndBlock ==
  /\ Running
  /\ Top.kind \in {"Operand", "Try", "Catch"}
  /\ Leave(Run)
  /\ UNCHANGED <<contexts, templates>> /\ SameEnvironments /\ SameHistory

(* evalValue: errors propagate, statement control may not escape into the  *)
(* consumer of a value.                                                    *)
EscapesValue == IF signal.kind = "error" THEN signal ELSE Fail(RuntimeError)

SignalAtOperand ==
  /\ Arriving({"return", "break", "continue", "error"})
  /\ Top.kind = "Operand"
  /\ Leave(EscapesValue)
  /\ UNCHANGED <<contexts, templates>> /\ SameEnvironments /\ SameHistory

Caught == signal.kind = "error" /\ signal.type \in Top.types

CatchError ==
  /\ Arriving({"error"})
  /\ Top.kind = "Try"
  /\ Caught
  /\ NewEnclosedEnvironment(Top.env)
  /\ Replace([Inside("Catch") EXCEPT !.env = NextEnv])
  /\ signal' = Run
  /\ UNCHANGED <<contexts, templates>> /\ SameHistory

PassThrough ==
  /\ Arriving({"return", "break", "continue", "error"})
  /\ \/ Top.kind = "Catch"
     \/ Top.kind = "Try" /\ ~Caught
     \/ Top.kind = "Loop" /\ signal.kind \in {"return", "error"}
  /\ Leave(signal)
  /\ UNCHANGED <<contexts, templates>> /\ SameEnvironments /\ SameHistory

(* The body of a loop ended, or asked for the next iteration. *)
IterationEnds == (Running \/ Arriving({"continue"})) /\ Top.kind = "Loop"

NextIteration ==
  /\ IterationEnds
  /\ signal' = Run
  /\ IF Top.fresh
       THEN /\ RoomForEnv
            /\ NewEnclosedEnvironment(Top.env)
            /\ Replace([Top EXCEPT !.env = NextEnv])
       ELSE SameEnvironments /\ UNCHANGED stack
  /\ UNCHANGED <<contexts, templates>> /\ SameHistory

ExitLoop ==
  /\ IterationEnds \/ (Arriving({"break"}) /\ Top.kind = "Loop")
  /\ Leave(Run)
  /\ UNCHANGED <<contexts, templates>> /\ SameEnvironments /\ SameHistory

(* An interpolation is a value operand; the caller of eval() then sees the *)
(* result of a builtin, and its own contexts are untouched.                *)
LeaveTemplate ==
  /\ Running \/ Arriving({"return", "break", "continue", "error"})
  /\ Top.kind = "Template"
  /\ contexts' = Top.saved
  /\ LET result == IF Running THEN Run ELSE EscapesValue
     IN Leave(AtCaller(result, [fn |-> Current(contexts'),
                                level |-> Top.level - 1]))
  /\ UNCHANGED templates /\ SameEnvironments /\ SameHistory

-----------------------------------------------------------------------------
(* Leaving a function, module or script: runDefers, then the result check. *)

(* TakeDefers empties the owner's list before any deferred call is made.   *)
TakeDefers ==
  /\ Running \/ Arriving({"return", "break", "continue", "error"})
  /\ Top.kind \in Lifetimes
  /\ LET owner == Owner(Top.env) IN
       /\ Replace([Top EXCEPT !.unwinding = TRUE, !.todo = defers[owner],
                              !.held = signal])
       /\ defers' = [defers EXCEPT ![owner] = <<>>]
       /\ drained' = drained \cup {owner}
  /\ signal' = Run
  /\ UNCHANGED <<contexts, deferOwner, templates, regs, left>>

Unwinding == stack # <<>> /\ signal.kind = "run" /\ Top.unwinding

InvokeLast ==
  /\ Unwinding
  /\ Top.todo # <<>>
  /\ regs' = [regs EXCEPT ![LastDeferred(Top.todo)].runs = @ + 1]
  /\ UNCHANGED <<signal, templates, drained, left>>

(* The deferred callable is a native builtin, or cannot be applied at all. *)
RunNativeDefer(outcome) ==
  /\ InvokeLast
  /\ Replace([Top EXCEPT
       !.todo = Undrained(@),
       !.failure = IF outcome = None THEN @ ELSE Fail(outcome)])
  /\ UNCHANGED contexts /\ SameEnvironments

RunSilverDefer(declared, check) ==
  /\ InvokeLast
  /\ Invoke(declared, check, TRUE)

(* A failing defer replaces the body's result, the last failure wins.      *)
UnwoundForgetsBody(item) ==
  IF item.failure.kind = "error" THEN item.failure ELSE Run
Unwound(item) == IF item.failure.kind = "error" THEN item.failure ELSE item.held

(* What applyUserFunction may answer: runtime errors pass, application     *)
(* errors must be declared, a returned declared error struct becomes an    *)
(* error, and a checked result may fail its contract.                      *)
CallResultsCheckedEarly(call) ==
  IF call.failure.kind = "error" THEN {call.failure} ELSE {Run}
CallResults(call) ==
  LET result == Unwound(call)
      payload == IF result.kind = "return" THEN result.type ELSE None
  IN IF result.kind = "error"
       THEN {IF result.type \in RuntimeErrors \cup call.types
               THEN result ELSE ErrorOf(RuntimeError, <<>>)}
     ELSE IF call.check = "void" THEN {Run}
     ELSE IF payload \in call.types THEN {Fail(payload)}
     ELSE IF call.check = "checked" THEN {Run, ErrorOf(Fault, <<>>)}
     ELSE {Run}

(* evalProgram inside an import: a failure propagates, otherwise the       *)
(* exports are collected, which fails for an undefined exported name.      *)
ModuleResults(module) ==
  IF Unwound(module).kind = "error"
    THEN {Unwound(module)}
    ELSE {Run, Fail(Fault)}

(* All deferred calls run even if one fails. *)
ExhaustedOrFailed == Top.todo = <<>> \/ Top.failure.kind = "error"
Exhausted == Top.todo = <<>>

PopContext == contexts' = Front(contexts)

(* The invocation is over: its context is popped and the result is handed  *)
(* to the caller, or to the runDefers loop that made the call.             *)
Finish(results) ==
  /\ Unwinding
  /\ Exhausted
  /\ Len(stack) > 1
  /\ PopContext
  /\ \E result \in results :
       LET caller == [fn |-> Current(contexts'), level |-> Top.level - 1]
           answer == AtCaller(result, caller)
           below  == Last(Under)
       IN IF Top.deferred
            THEN /\ stack' = Append(Front(Under),
                       IF answer.kind = "error"
                         THEN [below EXCEPT !.failure = answer] ELSE below)
                 /\ signal' = Run
            ELSE Leave(answer)
  /\ left' = left \cup {Top.env}
  /\ UNCHANGED <<templates, regs, drained>> /\ SameEnvironments

FinishCall == Unwinding /\ Top.kind = "Call" /\ Finish(CallResults(Top))
FinishModule ==
  Unwinding /\ Top.kind = "Program" /\ Finish(ModuleResults(Top))

FinishScript ==
  /\ Unwinding
  /\ Exhausted
  /\ Len(stack) = 1
  /\ stack' = <<>>
  /\ signal' = [kind |-> "done",
                type |-> IF Unwound(Top).kind = "error"
                           THEN Unwound(Top).type ELSE None,
                frames |-> Unwound(Top).frames]
  /\ left' = left \cup {Top.env}
  /\ UNCHANGED <<contexts, templates, regs, drained>> /\ SameEnvironments

Finished == stack = <<>> /\ UNCHANGED vars

-----------------------------------------------------------------------------
Contract(declared, check) ==
  declared \in SUBSET Errors /\ check \in ReturnChecks
    /\ (check = "void" => declared = {})

Statement ==
  \/ DeferStatement
  \/ \E type \in AllErrors : RaiseError(type)
  \/ \E payload \in Errors \cup {None} : ReturnStatement(payload)
  \/ \E kind \in {"break", "continue"} : LoopControl(kind)
  \/ EnterOperand
  \/ \E catches \in CatchClauses : EnterTry(catches)
  \/ EnterWhile
  \/ EnterFor
  \/ \E declared \in SUBSET Errors, check \in ReturnChecks :
       Contract(declared, check) /\ CallFunction(declared, check)
  \/ ImportModule
  \/ TemplateLiteral
  \/ \E t \in templates : EvalTemplate(t)

Propagate ==
  \/ EndBlock \/ SignalAtOperand \/ CatchError \/ PassThrough
  \/ NextIteration \/ ExitLoop \/ LeaveTemplate

Unwind ==
  \/ TakeDefers
  \/ \E outcome \in AllErrors \cup {None} : RunNativeDefer(outcome)
  \/ \E declared \in SUBSET Errors, check \in ReturnChecks :
       Contract(declared, check) /\ RunSilverDefer(declared, check)
  \/ FinishCall \/ FinishModule \/ FinishScript

Next == Statement \/ Propagate \/ Unwind \/ Finished

Spec == Init /\ [][Next]_vars

-----------------------------------------------------------------------------
(* Properties.                                                             *)

(* Every variable has its type. *)
TypeOK ==
  /\ stack \in Seq(Item)
  /\ signal \in Signal
  /\ contexts \in Seq(Nat)
  /\ deferOwner \in Seq(Nat)
  /\ defers \in Seq(Seq(Nat)) /\ Len(defers) = Len(deferOwner)
  /\ templates \subseteq [env : Nat, contexts : Seq(Nat), inLoop : BOOLEAN]
  /\ regs \in Seq([owner : Nat, late : BOOLEAN, runs : Nat])
  /\ drained \subseteq Nat /\ left \subseteq Nat

(* A deferred call is invoked at most once, and exactly once by the time   *)
(* its function, module or script has been left, however it was left:      *)
(* normally, by a return, by an error, or by an error of another deferred  *)
(* call.  Calls registered after the owner's list was taken are excluded.  *)
CleanupRunsOnce ==
  \A d \in DOMAIN regs :
    /\ regs[d].runs <= 1
    /\ regs[d].owner \in left /\ ~regs[d].late => regs[d].runs = 1

(* Deferred calls of one owner run last-in-first-out: a call is invoked    *)
(* only when every later registration of its owner has been.               *)
UnwindsInReverse ==
  [][\A d \in DOMAIN regs : \A later \in DOMAIN regs :
       /\ regs'[d].runs > regs[d].runs
       /\ later > d /\ regs[later].owner = regs[d].owner
       /\ ~regs[later].late
       => regs[later].runs = 1]_vars

(* An application error crosses a function boundary only if that function  *)
(* declares it, also when a deferred call has replaced the body's failure. *)
Crossing == /\ stack # <<>> /\ Top.kind = "Call" /\ Top.unwinding
            /\ Len(stack') < Len(stack)
Answer == IF Top.deferred THEN stack'[Len(stack')].failure ELSE signal'
OnlyDeclaredErrorsEscape ==
  [][/\ Crossing /\ Answer.kind = "error"
     /\ Top.deferred => Answer # Last(Under).failure
     => Answer.type \in RuntimeErrors \cup Top.types]_vars

(* A failure is never swallowed by unwinding: an invocation whose body or  *)
(* whose deferred call failed is left with an error.                       *)
FailuresSurviveUnwinding ==
  [][/\ stack # <<>> /\ Top.unwinding /\ Len(stack') < Len(stack)
     /\ "error" \in {Top.held.kind, Top.failure.kind}
     => IF stack' = <<>> THEN signal'.type # None
                         ELSE Answer.kind = "error"]_vars

(* A traceback is the chain of calls from the construct the error has      *)
(* reached down to its origin: one frame per call, outermost first.        *)
CallChain(error, level) ==
  error.kind = "error" =>
    /\ error.frames # <<>>
    /\ \A i \in DOMAIN error.frames : error.frames[i].level = level + i - 1
TracebackIsCallChain ==
  /\ stack # <<>> /\ signal.kind = "error" =>
       /\ CallChain(signal, Top.level)
       /\ signal.frames[1].fn = Current(contexts)
  /\ \A p \in DOMAIN stack :
       /\ CallChain(stack[p].held, stack[p].level)
       /\ CallChain(stack[p].failure, stack[p].level)

(* Whatever way invocations are left, the evaluator's contexts name exactly *)
(* the invocations in progress above the innermost template, in their       *)
(* order, on top of the contexts that template captured.                    *)
ActiveBetween(from, to) == {p \in from..to : stack[p].kind \in Lifetimes}
ContextsMatchActivations ==
  stack # <<>> =>
    LET marks == {p \in DOMAIN stack : stack[p].kind = "Template"}
        mark  == IF marks = {} THEN 1
                 ELSE CHOOSE p \in marks : \A q \in marks : q <= p
    IN \E under \in IF marks = {} THEN {<<>>} ELSE {t.contexts : t \in templates} :
         /\ Len(contexts) =
              Len(under) + Cardinality(ActiveBetween(mark + 1, Len(stack)))
         /\ \A i \in DOMAIN under : contexts[i] = under[i]
         /\ \A p \in ActiveBetween(mark + 1, Len(stack)) :
              contexts[Len(under) + Cardinality(ActiveBetween(mark + 1, p))]
                = stack[p].env
=============================================================================
