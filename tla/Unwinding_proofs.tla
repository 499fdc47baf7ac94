--------------------------- MODULE Unwinding_proofs ---------------------------
(***************************************************************************)
(* Proofs about Unwinding, for every program, set of error structs and     *)
(* bound: its type invariant; that deferred calls run exactly once, in     *)
(* reverse order; what errors do while scopes are left: which of them      *)
(* cross a function, that none is swallowed, what their tracebacks say;    *)
(* and that the contexts those tracebacks take their names from are those  *)
(* in progress.                                                            *)
(***************************************************************************)
EXTENDS Unwinding, SequenceTheorems, FiniteSetTheorems, TLAPS

-----------------------------------------------------------------------------
(* Environments in use exist, and defer owners own their defers.           *)
EnvInv ==
  /\ \A p \in DOMAIN stack : stack[p].env \in DOMAIN deferOwner
  /\ \A t \in templates : t.env \in DOMAIN deferOwner
  /\ \A e \in DOMAIN deferOwner :
       deferOwner[e] # 0 => /\ deferOwner[e] \in DOMAIN deferOwner
                            /\ deferOwner[deferOwner[e]] = 0

TypeInv == TypeOK /\ EnvInv

LEMMA FrontType ==
  ASSUME NEW S, NEW s \in Seq(S), s # <<>>
  PROVE  /\ Front(s) \in Seq(S)
         /\ Len(Front(s)) = Len(s) - 1
         /\ \A i \in 1..Len(s)-1 : Front(s)[i] = s[i]
         /\ Last(s) \in S
<1>1. Len(s) \in Nat \ {0} /\ \A i \in 1..Len(s) : s[i] \in S
  BY EmptySeq, ElementOfSeq
<1>2. \A i \in 1..Len(s)-1 : s[i] \in S
  BY <1>1
<1>3. Len(s)-1 \in Int /\ 1 \in Int
  BY <1>1
<1>4. /\ SubSeq(s, 1, Len(s)-1) \in Seq(S)
      /\ Len(SubSeq(s, 1, Len(s)-1)) =
           IF 1 <= Len(s)-1 THEN (Len(s)-1) - 1 + 1 ELSE 0
      /\ \A i \in 1..((Len(s)-1) - 1 + 1) :
           SubSeq(s, 1, Len(s)-1)[i] = s[1 + i - 1]
  BY <1>2, <1>3, SubSeqProperties
<1>5. Len(SubSeq(s, 1, Len(s)-1)) = Len(s) - 1
  <2>1. \A n \in Nat \ {0} : (IF 1 <= n - 1 THEN (n - 1) - 1 + 1 ELSE 0) = n - 1
    OBVIOUS
  <2>2. QED
    BY <1>1, <1>4, <2>1
<1>6. ASSUME NEW i \in 1..Len(s)-1
      PROVE  SubSeq(s, 1, Len(s)-1)[i] = s[i]
  <2>1. i \in 1..((Len(s)-1) - 1 + 1) /\ 1 + i - 1 = i
    BY <1>1
  <2>2. QED
    BY <2>1, <1>4
<1>7. Last(s) \in S
  BY <1>1 DEF Last
<1>8. QED
  BY <1>4, <1>5, <1>6, <1>7 DEF Front

LEMMA FrontSeq ==
  ASSUME NEW S, NEW s \in Seq(S)
  PROVE  Front(s) \in Seq(S)
BY DEF Front

LEMMA PlainType == \A kind \in SignalKinds : Plain(kind) \in Signal
BY DEF Plain, Signal

LEMMA NewItemType ==
  ASSUME NEW kind \in Kinds, NEW env \in Nat, NEW level \in Int
  PROVE  NewItem(kind, env, level) \in Item
BY PlainType DEF NewItem, Item, Run, ReturnChecks, SignalKinds

LEMMA TopType ==
  ASSUME TypeOK, stack # <<>>
  PROVE  Top \in Item /\ Under \in Seq(Item) /\ Len(stack) \in DOMAIN stack
<1>1. stack \in Seq(Item) /\ Len(stack) \in 1..Len(stack)
  BY EmptySeq DEF TypeOK
<1>2. Top \in Item
  BY <1>1, ElementOfSeq DEF Top
<1>3. QED
  BY <1>1, <1>2, FrontType DEF Under

LEMMA CurrentType ==
  ASSUME NEW c \in Seq(Nat)
  PROVE  Current(c) \in Nat
BY DEF Current, Last

LEMMA HereType ==
  ASSUME TypeOK, stack # <<>>
  PROVE  Here \in TraceFrame
BY TopType, CurrentType DEF Here, TraceFrame, Item, TypeOK

LEMMA FailType ==
  ASSUME TypeOK, stack # <<>>, NEW type \in AllErrors
  PROVE  Fail(type) \in Signal
BY HereType DEF Fail, ErrorOf, Signal, SignalKinds

LEMMA AtCallerType ==
  ASSUME NEW result \in Signal, NEW caller \in TraceFrame
  PROVE  AtCaller(result, caller) \in Signal
<1>1. result.frames \in Seq(TraceFrame) /\ <<caller>> \in Seq(TraceFrame)
  BY DEF Signal
<1>2. <<caller>> \o result.frames \in Seq(TraceFrame)
  BY <1>1, ConcatProperties
<1>3. QED
  BY <1>2 DEF AtCaller, Signal

-----------------------------------------------------------------------------
(* What each kind of step does to the stack keeps it well typed.           *)

LEMMA PushType ==
  ASSUME TypeOK, NEW item \in Item, Push(item)
  PROVE  /\ stack' \in Seq(Item)
         /\ Len(stack') = Len(stack) + 1
         /\ \A p \in DOMAIN stack : stack'[p] = stack[p]
         /\ stack'[Len(stack) + 1] = item
BY AppendProperties DEF Push, TypeOK

LEMMA ReplaceType ==
  ASSUME TypeOK, stack # <<>>, NEW item \in Item, Replace(item)
  PROVE  /\ stack' \in Seq(Item)
         /\ Len(stack') = Len(stack)
         /\ \A p \in 1..Len(stack)-1 : stack'[p] = stack[p]
         /\ stack'[Len(stack)] = item
<1>1. Len(stack) \in Nat \ {0}
  BY EmptySeq DEF TypeOK
<1>2. /\ Under \in Seq(Item) /\ Len(Under) = Len(stack) - 1
      /\ \A p \in 1..Len(stack)-1 : Under[p] = stack[p]
  BY FrontType DEF TypeOK, Under
<1>3. QED
  BY <1>1, <1>2, AppendProperties DEF Replace

LEMMA PopType ==
  ASSUME TypeOK, stack # <<>>, stack' = Under
  PROVE  /\ stack' \in Seq(Item)
         /\ Len(stack') = Len(stack) - 1
         /\ \A p \in 1..Len(stack)-1 : stack'[p] = stack[p]
BY FrontType DEF TypeOK, Under

LEMMA NewEnvironmentType ==
  ASSUME TypeInv, NEW owner \in Nat,
         owner # 0 => owner \in DOMAIN deferOwner /\ deferOwner[owner] = 0,
         NewEnvironment(owner)
  PROVE  /\ deferOwner' \in Seq(Nat) /\ defers' \in Seq(Seq(Nat))
         /\ Len(defers') = Len(deferOwner')
         /\ NextEnv \in DOMAIN deferOwner'
         /\ \A e \in DOMAIN deferOwner :
              /\ e \in DOMAIN deferOwner' /\ deferOwner'[e] = deferOwner[e]
              /\ defers'[e] = defers[e]
         /\ deferOwner'[NextEnv] = owner /\ defers'[NextEnv] = <<>>
         /\ \A e \in DOMAIN deferOwner' :
              deferOwner'[e] # 0 => /\ deferOwner'[e] \in DOMAIN deferOwner'
                                    /\ deferOwner'[deferOwner'[e]] = 0
<1>1. /\ deferOwner' \in Seq(Nat) /\ Len(deferOwner') = Len(deferOwner) + 1
      /\ \A e \in 1..Len(deferOwner) : deferOwner'[e] = deferOwner[e]
      /\ deferOwner'[Len(deferOwner) + 1] = owner
  BY AppendProperties DEF TypeInv, TypeOK, NewEnvironment
<1>2. /\ defers' \in Seq(Seq(Nat)) /\ Len(defers') = Len(defers) + 1
      /\ \A e \in 1..Len(defers) : defers'[e] = defers[e]
      /\ defers'[Len(defers) + 1] = <<>>
  <2>1. <<>> \in Seq(Nat)
    OBVIOUS
  <2>2. QED
    BY <2>1, AppendProperties DEF TypeInv, TypeOK, NewEnvironment
<1>3. Len(defers) = Len(deferOwner) /\ Len(deferOwner) \in Nat
  BY DEF TypeInv, TypeOK
<1>4. DOMAIN deferOwner = 1..Len(deferOwner)
      /\ DOMAIN deferOwner' = 1..Len(deferOwner)+1
  BY <1>1, LenProperties DEF TypeInv, TypeOK
<1>5. ASSUME NEW e \in DOMAIN deferOwner', deferOwner'[e] # 0
      PROVE  deferOwner'[e] \in DOMAIN deferOwner'
             /\ deferOwner'[deferOwner'[e]] = 0
  <2>1. CASE e \in DOMAIN deferOwner
    BY <1>1, <1>3, <1>4, <1>5, <2>1 DEF TypeInv, EnvInv
  <2>2. CASE e = Len(deferOwner) + 1
    BY <1>1, <1>3, <1>4, <1>5, <2>2
  <2>3. QED
    BY <1>3, <1>4, <2>1, <2>2
<1>6. NextEnv \in DOMAIN deferOwner' /\ Len(defers') = Len(deferOwner')
      /\ deferOwner'[NextEnv] = owner /\ defers'[NextEnv] = <<>>
  BY <1>1, <1>2, <1>3, <1>4 DEF NextEnv
<1>7. ASSUME NEW e \in DOMAIN deferOwner
      PROVE  /\ e \in DOMAIN deferOwner' /\ deferOwner'[e] = deferOwner[e]
             /\ defers'[e] = defers[e]
  <2>1. e \in 1..Len(deferOwner)
    BY <1>4
  <2>2. e \in DOMAIN deferOwner'
    BY <2>1, <1>3, <1>4
  <2>3. deferOwner'[e] = deferOwner[e]
    BY <2>1, <1>1
  <2>4. e \in 1..Len(defers)
    BY <2>1, <1>3
  <2>5. defers'[e] = defers[e]
    BY <2>4, <1>2
  <2>6. QED
    BY <2>2, <2>3, <2>5
<1>8. QED
  BY <1>1, <1>2, <1>5, <1>6, <1>7

LEMMA OwnerType ==
  ASSUME TypeInv, NEW e \in DOMAIN deferOwner
  PROVE  /\ Owner(e) \in Nat \ {0} /\ Owner(e) \in DOMAIN deferOwner
         /\ deferOwner[Owner(e)] = 0
         /\ Owner(e) \in DOMAIN defers /\ defers[Owner(e)] \in Seq(Nat)
BY DEF TypeInv, TypeOK, EnvInv, Owner

-----------------------------------------------------------------------------
(* Environments after a step that pushes, replaces or pops one item.       *)

LEMMA PushEnv ==
  ASSUME TypeInv, NEW D, DOMAIN deferOwner \subseteq D,
         NEW item \in Item, item.env \in D, Push(item)
  PROVE  \A p \in DOMAIN stack' : stack'[p].env \in D
<1>1. DOMAIN stack' = 1..Len(stack)+1 /\ DOMAIN stack = 1..Len(stack)
      /\ Len(stack) \in Nat
  BY PushType DEF TypeInv, TypeOK
<1>2. QED
  BY <1>1, PushType DEF TypeInv, EnvInv

LEMMA ReplaceEnv ==
  ASSUME TypeInv, stack # <<>>, NEW D, DOMAIN deferOwner \subseteq D,
         NEW item \in Item, item.env \in D, Replace(item)
  PROVE  \A p \in DOMAIN stack' : stack'[p].env \in D
<1>1. DOMAIN stack' = 1..Len(stack) /\ DOMAIN stack = 1..Len(stack)
      /\ Len(stack) \in Nat
  BY ReplaceType DEF TypeInv, TypeOK
<1>2. QED
  BY <1>1, ReplaceType DEF TypeInv, EnvInv

LEMMA PopEnv ==
  ASSUME TypeInv, stack # <<>>, stack' = Under
  PROVE  \A p \in DOMAIN stack' : stack'[p].env \in DOMAIN deferOwner
<1>1. DOMAIN stack' = 1..Len(stack)-1 /\ DOMAIN stack = 1..Len(stack)
      /\ Len(stack) \in Nat
  BY PopType DEF TypeInv, TypeOK
<1>2. QED
  BY <1>1, PopType DEF TypeInv, EnvInv

LEMMA SameEnvInv ==
  ASSUME TypeInv, deferOwner' = deferOwner, templates' = templates,
         \A p \in DOMAIN stack' : stack'[p].env \in DOMAIN deferOwner
  PROVE  EnvInv'
BY DEF TypeInv, EnvInv

LEMMA GrownEnvInv ==
  ASSUME TypeInv, NEW owner \in Nat,
         owner # 0 => owner \in DOMAIN deferOwner /\ deferOwner[owner] = 0,
         NewEnvironment(owner), templates' = templates,
         \A p \in DOMAIN stack' : stack'[p].env \in DOMAIN deferOwner \cup {NextEnv}
  PROVE  EnvInv'
BY NewEnvironmentType DEF TypeInv, EnvInv

LEMMA NextEnvType ==
  ASSUME TypeOK
  PROVE  NextEnv \in Nat
BY DEF TypeOK, NextEnv

-----------------------------------------------------------------------------
(* One lemma per action: it preserves types and environments.              *)

LEMMA TopEnv ==
  ASSUME TypeInv, stack # <<>>
  PROVE  Top.env \in DOMAIN deferOwner
BY TopType DEF TypeInv, EnvInv, Top

LEMMA InsideType ==
  ASSUME TypeInv, stack # <<>>, NEW kind \in Kinds
  PROVE  Inside(kind) \in Item /\ Inside(kind).env \in DOMAIN deferOwner
<1>1. Top.env \in Nat /\ Top.level \in Int
  BY TopType DEF TypeInv, Item
<1>2. QED
  BY <1>1, NewItemType, TopEnv DEF Inside, NewItem

LEMMA DeferStatementTypes ==
  ASSUME TypeInv, DeferStatement
  PROVE  TypeInv'
<1>1. stack # <<>>
  BY DEF DeferStatement, Running
<1> DEFINE owner == Owner(Top.env)
<1>2. owner \in DOMAIN defers /\ owner \in Nat /\ defers[owner] \in Seq(Nat)
  BY <1>1, TopEnv, OwnerType
<1>3. Len(regs) + 1 \in Nat /\ Append(defers[owner], Len(regs) + 1) \in Seq(Nat)
  BY <1>2, AppendProperties DEF TypeInv, TypeOK
<1>4. defers' \in Seq(Seq(Nat)) /\ Len(defers') = Len(defers)
  <2>1. defers' = [defers EXCEPT ![owner] = Append(@, Len(regs) + 1)]
    BY DEF DeferStatement
  <2>2. QED
    BY <2>1, <1>2, <1>3, ExceptSeq DEF TypeInv, TypeOK
<1>5. regs' \in Seq([owner : Nat, late : BOOLEAN, runs : Nat])
  <2>1. regs' = Append(regs, [owner |-> owner, late |-> owner \in drained,
                              runs |-> 0])
    BY DEF DeferStatement
  <2>2. [owner |-> owner, late |-> owner \in drained, runs |-> 0]
          \in [owner : Nat, late : BOOLEAN, runs : Nat]
    BY <1>2
  <2>3. QED
    BY <2>1, <2>2, AppendProperties DEF TypeInv, TypeOK
<1>6. QED
  BY <1>4, <1>5, SameEnvInv DEF DeferStatement, TypeInv, TypeOK, EnvInv

(* The frames of every other action: environments kept, or one created.    *)
LEMMA KeptTypes ==
  ASSUME TypeInv, SameEnvironments, templates' = templates, SameHistory,
         signal' \in Signal, contexts' \in Seq(Nat), stack' \in Seq(Item),
         \A p \in DOMAIN stack' : stack'[p].env \in DOMAIN deferOwner
  PROVE  TypeInv'
<1>1. deferOwner' = deferOwner /\ defers' = defers
      /\ regs' = regs /\ drained' = drained /\ left' = left
  BY DEF SameEnvironments, SameHistory
<1>2. EnvInv'
  BY <1>1, SameEnvInv
<1>3. QED
  BY <1>1, <1>2 DEF TypeInv, TypeOK

LEMMA GrownTypes ==
  ASSUME TypeInv, NEW owner \in Nat,
         owner # 0 => owner \in DOMAIN deferOwner /\ deferOwner[owner] = 0,
         NewEnvironment(owner), templates' = templates,
         regs' \in Seq([owner : Nat, late : BOOLEAN, runs : Nat]),
         drained' = drained, left' = left,
         signal' \in Signal, contexts' \in Seq(Nat), stack' \in Seq(Item),
         \A p \in DOMAIN stack' : stack'[p].env \in DOMAIN deferOwner \cup {NextEnv}
  PROVE  TypeInv'
<1>1. EnvInv'
  BY GrownEnvInv
<1>2. /\ deferOwner' \in Seq(Nat) /\ defers' \in Seq(Seq(Nat))
      /\ Len(defers') = Len(deferOwner')
  BY NewEnvironmentType
<1>3. QED
  BY <1>1, <1>2 DEF TypeInv, TypeOK

LEMMA OwnerArgument ==
  ASSUME TypeInv, NEW e \in DOMAIN deferOwner
  PROVE  /\ Owner(e) \in Nat
         /\ Owner(e) # 0 => Owner(e) \in DOMAIN deferOwner
                            /\ deferOwner[Owner(e)] = 0
BY OwnerType

LEMMA SignalTypes ==
  ASSUME TypeInv,
         \/ \E type \in AllErrors : RaiseError(type)
         \/ \E payload \in Errors \cup {None} : ReturnStatement(payload)
         \/ \E kind \in {"break", "continue"} : LoopControl(kind)
  PROVE  TypeInv'
<1>1. /\ UNCHANGED <<stack, contexts, templates>> /\ SameEnvironments
      /\ SameHistory /\ stack # <<>>
  BY DEF RaiseError, ReturnStatement, LoopControl, Running
<1>2. signal' \in Signal
  <2>1. CASE \E type \in AllErrors : RaiseError(type)
    BY <2>1, <1>1, FailType DEF RaiseError, TypeInv
  <2>2. CASE \E payload \in Errors \cup {None} : ReturnStatement(payload)
    BY <2>2, PlainType DEF ReturnStatement, Signal, SignalKinds, AllErrors, Plain
  <2>3. CASE \E kind \in {"break", "continue"} : LoopControl(kind)
    BY <2>3, PlainType DEF LoopControl, SignalKinds
  <2>4. QED
    BY <2>1, <2>2, <2>3
<1>3. QED
  BY <1>1, <1>2, KeptTypes DEF TypeInv, TypeOK, EnvInv

LEMMA EnterTypes ==
  ASSUME TypeInv,
         \/ EnterOperand
         \/ \E catches \in CatchClauses : EnterTry(catches)
         \/ EnterWhile
  PROVE  TypeInv'
<1>1. /\ UNCHANGED <<signal, contexts, templates>> /\ SameEnvironments
      /\ SameHistory /\ stack # <<>>
  BY DEF EnterOperand, EnterTry, EnterWhile, Running
<1>2. PICK item \in Item : item.env \in DOMAIN deferOwner /\ Push(item)
  <2>1. CASE EnterOperand
    BY <2>1, <1>1, InsideType DEF EnterOperand, Kinds
  <2>2. CASE \E catches \in CatchClauses : EnterTry(catches)
    <3>1. PICK catches \in CatchClauses : EnterTry(catches)
      BY <2>2
    <3>2. catches \in SUBSET AllErrors
      BY UnwindingAssumption
    <3> DEFINE item == [Inside("Try") EXCEPT !.types = catches]
    <3>3. Inside("Try") \in Item /\ Inside("Try").env \in DOMAIN deferOwner
      BY <1>1, InsideType DEF Kinds
    <3>4. item \in Item /\ item.env \in DOMAIN deferOwner
      BY <3>2, <3>3 DEF Item
    <3>5. QED
      BY <3>1, <3>4 DEF EnterTry
  <2>3. CASE EnterWhile
    BY <2>3, <1>1, InsideType DEF EnterWhile, Kinds
  <2>4. QED
    BY <2>1, <2>2, <2>3
<1>3. /\ stack' \in Seq(Item)
      /\ \A p \in DOMAIN stack' : stack'[p].env \in DOMAIN deferOwner
  BY <1>2, PushType, PushEnv DEF TypeInv
<1>4. QED
  BY <1>1, <1>3, KeptTypes DEF TypeInv, TypeOK

LEMMA EnterForTypes ==
  ASSUME TypeInv, EnterFor
  PROVE  TypeInv'
<1>1. /\ UNCHANGED <<signal, contexts, templates>> /\ SameHistory
      /\ stack # <<>> /\ NewEnvironment(Owner(Top.env))
  BY DEF EnterFor, Running, NewEnclosedEnvironment
<1> DEFINE item == [Inside("Loop") EXCEPT !.env = NextEnv, !.fresh = TRUE]
<1>2. Inside("Loop") \in Item
  BY <1>1, InsideType DEF Kinds
<1>3. item \in Item /\ item.env = NextEnv
  BY <1>2, NextEnvType DEF Item, TypeInv
<1>4. Push(item)
  BY DEF EnterFor
<1>5. /\ stack' \in Seq(Item)
      /\ \A p \in DOMAIN stack' :
           stack'[p].env \in DOMAIN deferOwner \cup {NextEnv}
  BY <1>3, <1>4, PushType, PushEnv DEF TypeInv
<1>6. QED
  BY <1>1, <1>5, TopEnv, OwnerArgument, GrownTypes
     DEF TypeInv, TypeOK, SameHistory

LEMMA CallItemType ==
  ASSUME TypeInv, stack # <<>>, NEW declared \in SUBSET Errors,
         NEW check \in ReturnChecks, NEW deferred \in BOOLEAN,
         NEW call, call = [NewItem("Call", NextEnv, Top.level + 1) EXCEPT
                    !.types = declared, !.check = check, !.deferred = deferred]
  PROVE  call \in Item /\ call.env = NextEnv
<1>1. Top.level + 1 \in Int
  BY TopType DEF TypeInv, Item
<1>2. NewItem("Call", NextEnv, Top.level + 1) \in Item
  BY <1>1, NewItemType, NextEnvType DEF TypeInv, Kinds, Lifetimes
<1>3. NewItem("Call", NextEnv, Top.level + 1).env = NextEnv
  BY DEF NewItem
<1>4. declared \in SUBSET AllErrors
  BY DEF AllErrors
<1>5. QED
  BY <1>2, <1>3, <1>4 DEF Item

LEMMA AppendContext ==
  ASSUME TypeInv
  PROVE  Append(contexts, NextEnv) \in Seq(Nat)
BY NextEnvType, AppendProperties DEF TypeInv, TypeOK

LEMMA CallFunctionTypes ==
  ASSUME TypeInv, NEW declared \in SUBSET Errors, NEW check \in ReturnChecks,
         CallFunction(declared, check)
  PROVE  TypeInv'
<1> DEFINE call == [NewItem("Call", NextEnv, Top.level + 1) EXCEPT
                      !.types = declared, !.check = check, !.deferred = FALSE]
<1>1. /\ stack # <<>> /\ UNCHANGED <<signal, templates>> /\ SameHistory
      /\ NewEnvironment(0) /\ contexts' = Append(contexts, NextEnv)
      /\ Push(call)
  BY DEF CallFunction, Running, Invoke, NewFunctionEnvironment
<1>2. call \in Item /\ call.env = NextEnv
  BY <1>1, CallItemType
<1>3. /\ stack' \in Seq(Item)
      /\ \A p \in DOMAIN stack' :
           stack'[p].env \in DOMAIN deferOwner \cup {NextEnv}
  BY <1>1, <1>2, PushType, PushEnv DEF TypeInv
<1>4. QED
  BY <1>1, <1>3, AppendContext, GrownTypes DEF TypeInv, TypeOK, SameHistory

LEMMA ImportModuleTypes ==
  ASSUME TypeInv, ImportModule
  PROVE  TypeInv'
<1> DEFINE item == NewItem("Program", NextEnv, Top.level + 1)
<1>1. /\ stack # <<>> /\ UNCHANGED <<signal, templates>> /\ SameHistory
      /\ NewEnvironment(0) /\ contexts' = Append(contexts, NextEnv)
      /\ Push(item)
  BY DEF ImportModule, Running, NewFunctionEnvironment
<1>2. Top.level + 1 \in Int
  BY <1>1, TopType DEF TypeInv, Item
<1>3. item \in Item /\ item.env = NextEnv
  <2>1. item \in Item
    BY <1>2, NewItemType, NextEnvType DEF TypeInv, Kinds, Lifetimes
  <2>2. QED
    BY <2>1 DEF NewItem
<1>4. /\ stack' \in Seq(Item)
      /\ \A p \in DOMAIN stack' :
           stack'[p].env \in DOMAIN deferOwner \cup {NextEnv}
  BY <1>1, <1>3, PushType, PushEnv DEF TypeInv
<1>5. QED
  BY <1>1, <1>4, AppendContext, GrownTypes DEF TypeInv, TypeOK, SameHistory

LEMMA TemplateLiteralTypes ==
  ASSUME TypeInv, TemplateLiteral
  PROVE  TypeInv'
<1>1. /\ UNCHANGED <<stack, signal, contexts>> /\ SameEnvironments
      /\ SameHistory /\ stack # <<>>
      /\ templates' = templates \cup
           {[env |-> Top.env, contexts |-> contexts, inLoop |-> InsideLoop]}
  BY DEF TemplateLiteral, Running
<1>2. Top.env \in DOMAIN deferOwner /\ Top.env \in Nat
  BY <1>1, TopEnv, TopType DEF TypeInv, Item
<1>3. InsideLoop \in BOOLEAN
  BY DEF InsideLoop
<1>4. templates' \subseteq [env : Nat, contexts : Seq(Nat), inLoop : BOOLEAN]
  BY <1>1, <1>2, <1>3 DEF TypeInv, TypeOK
<1>5. EnvInv'
  BY <1>1, <1>2 DEF TypeInv, EnvInv, SameEnvironments
<1>6. QED
  BY <1>1, <1>4, <1>5 DEF TypeInv, TypeOK, SameEnvironments, SameHistory

LEMMA EvalTemplateTypes ==
  ASSUME TypeInv, NEW t \in templates, EvalTemplate(t)
  PROVE  TypeInv'
<1> DEFINE item == [NewItem("Template", t.env, Top.level + 1) EXCEPT
                      !.saved = contexts, !.inLoop = t.inLoop]
<1>1. /\ stack # <<>> /\ UNCHANGED <<signal, templates>> /\ SameHistory
      /\ SameEnvironments /\ contexts' = t.contexts /\ Push(item)
  BY DEF EvalTemplate, Running
<1>2. Top.level + 1 \in Int
  BY <1>1, TopType DEF TypeInv, Item
<1>3. t.env \in DOMAIN deferOwner /\ t.env \in Nat /\ t.inLoop \in BOOLEAN
  BY DEF TypeInv, TypeOK, EnvInv
<1>4. NewItem("Template", t.env, Top.level + 1) \in Item
      /\ NewItem("Template", t.env, Top.level + 1).env = t.env
  <2>1. NewItem("Template", t.env, Top.level + 1) \in Item
    BY <1>2, <1>3, NewItemType DEF Kinds
  <2>2. QED
    BY <2>1 DEF NewItem
<1>5. item \in Item /\ item.env \in DOMAIN deferOwner
  BY <1>3, <1>4 DEF Item, TypeInv, TypeOK
<1>6. /\ stack' \in Seq(Item)
      /\ \A p \in DOMAIN stack' : stack'[p].env \in DOMAIN deferOwner
  BY <1>1, <1>5, PushType, PushEnv DEF TypeInv
<1>7. QED
  BY <1>1, <1>6, KeptTypes DEF TypeInv, TypeOK

-----------------------------------------------------------------------------
(* Signals arriving at blocks, loops and templates.                        *)

LEMMA LeaveTypes ==
  ASSUME TypeInv, stack # <<>>, NEW result \in Signal, Leave(result)
  PROVE  /\ signal' \in Signal /\ stack' \in Seq(Item)
         /\ \A p \in DOMAIN stack' : stack'[p].env \in DOMAIN deferOwner
BY PopType, PopEnv DEF Leave, TypeInv

LEMMA EscapesValueType ==
  ASSUME TypeInv, stack # <<>>
  PROVE  EscapesValue \in Signal
<1>1. RuntimeError \in AllErrors
  BY DEF AllErrors, RuntimeErrors
<1>2. QED
  BY <1>1, FailType DEF EscapesValue, TypeInv, TypeOK

LEMMA BlockTypes ==
  ASSUME TypeInv, EndBlock \/ SignalAtOperand \/ PassThrough \/ ExitLoop
  PROVE  TypeInv'
<1>1. /\ stack # <<>> /\ UNCHANGED <<contexts, templates>>
      /\ SameEnvironments /\ SameHistory
  BY DEF EndBlock, SignalAtOperand, PassThrough, ExitLoop, IterationEnds,
         Running, Arriving
<1>2. \E result \in Signal : Leave(result)
  <2>1. Run \in Signal /\ signal \in Signal /\ EscapesValue \in Signal
    BY <1>1, PlainType, EscapesValueType DEF Run, SignalKinds, TypeInv, TypeOK
  <2>2. QED
    BY <2>1 DEF EndBlock, SignalAtOperand, PassThrough, ExitLoop
<1>3. QED
  BY <1>1, <1>2, LeaveTypes, KeptTypes DEF TypeInv, TypeOK

LEMMA CatchErrorTypes ==
  ASSUME TypeInv, CatchError
  PROVE  TypeInv'
<1> DEFINE item == [Inside("Catch") EXCEPT !.env = NextEnv]
<1>1. /\ stack # <<>> /\ UNCHANGED <<contexts, templates>> /\ SameHistory
      /\ NewEnvironment(Owner(Top.env)) /\ Replace(item) /\ signal' = Run
  BY DEF CatchError, Arriving, NewEnclosedEnvironment
<1>2. Inside("Catch") \in Item
  BY <1>1, InsideType DEF Kinds
<1>3. item \in Item /\ item.env = NextEnv
  BY <1>2, NextEnvType DEF Item, TypeInv
<1>4. /\ stack' \in Seq(Item)
      /\ \A p \in DOMAIN stack' :
           stack'[p].env \in DOMAIN deferOwner \cup {NextEnv}
  BY <1>1, <1>3, ReplaceType, ReplaceEnv DEF TypeInv
<1>5. signal' \in Signal
  BY <1>1, PlainType DEF Run, SignalKinds
<1>6. QED
  BY <1>1, <1>4, <1>5, TopEnv, OwnerArgument, GrownTypes
     DEF TypeInv, TypeOK, SameHistory

LEMMA NextIterationTypes ==
  ASSUME TypeInv, NextIteration
  PROVE  TypeInv'
<1>1. /\ stack # <<>> /\ UNCHANGED <<contexts, templates>> /\ SameHistory
      /\ signal' = Run
  BY DEF NextIteration, IterationEnds, Running, Arriving
<1>2. signal' \in Signal
  BY <1>1, PlainType DEF Run, SignalKinds
<1>3. CASE Top.fresh
  <2> DEFINE item == [Top EXCEPT !.env = NextEnv]
  <2>1. item \in Item /\ item.env = NextEnv
    BY <1>1, TopType, NextEnvType DEF Item, TypeInv
  <2>2. Replace(item) /\ NewEnvironment(Owner(Top.env))
    BY <1>3 DEF NextIteration, NewEnclosedEnvironment
  <2>3. /\ stack' \in Seq(Item)
        /\ \A p \in DOMAIN stack' :
             stack'[p].env \in DOMAIN deferOwner \cup {NextEnv}
    BY <1>1, <2>1, <2>2, ReplaceType, ReplaceEnv DEF TypeInv
  <2>4. QED
    BY <1>1, <1>2, <2>2, <2>3, TopEnv, OwnerArgument, GrownTypes
       DEF TypeInv, TypeOK, SameHistory
<1>4. CASE ~Top.fresh
  <2>1. stack' = stack /\ SameEnvironments
    BY <1>4 DEF NextIteration
  <2>2. QED
    BY <1>1, <1>2, <2>1, KeptTypes DEF TypeInv, TypeOK, EnvInv
<1>5. QED
  BY <1>3, <1>4

LEMMA LeaveTemplateTypes ==
  ASSUME TypeInv, LeaveTemplate
  PROVE  TypeInv'
<1> DEFINE result == IF Running THEN Run ELSE EscapesValue
           caller == [fn |-> Current(contexts'), level |-> Top.level - 1]
<1>1. /\ stack # <<>> /\ templates' = templates /\ SameEnvironments
      /\ SameHistory /\ contexts' = Top.saved
      /\ Leave(AtCaller(result, caller))
  BY DEF LeaveTemplate, Running, Arriving
<1>2. contexts' \in Seq(Nat) /\ Top.level - 1 \in Int
  BY <1>1, TopType DEF Item, TypeInv
<1>3. caller \in TraceFrame
  BY <1>2, CurrentType DEF TraceFrame
<1>4. result \in Signal
  BY <1>1, PlainType, EscapesValueType DEF Run, SignalKinds
<1>5. QED
  BY <1>1, <1>2, <1>3, <1>4, AtCallerType, LeaveTypes, KeptTypes

-----------------------------------------------------------------------------
(* Leaving an invocation.                                                  *)

LEMMA TakeDefersTypes ==
  ASSUME TypeInv, TakeDefers
  PROVE  TypeInv'
<1> DEFINE owner == Owner(Top.env)
           item == [Top EXCEPT !.unwinding = TRUE, !.todo = defers[owner],
                               !.held = signal]
<1>1. /\ stack # <<>> /\ Replace(item) /\ signal' = Run
      /\ defers' = [defers EXCEPT ![owner] = <<>>]
      /\ drained' = drained \cup {owner}
      /\ UNCHANGED <<contexts, deferOwner, templates, regs, left>>
  BY DEF TakeDefers, Running, Arriving
<1>2. owner \in Nat /\ owner \in DOMAIN defers /\ defers[owner] \in Seq(Nat)
  BY <1>1, TopEnv, OwnerType
<1>3. item \in Item /\ item.env = Top.env
  BY <1>1, <1>2, TopType DEF Item, TypeInv, TypeOK
<1>4. /\ stack' \in Seq(Item)
      /\ \A p \in DOMAIN stack' : stack'[p].env \in DOMAIN deferOwner
  BY <1>1, <1>3, TopEnv, ReplaceType, ReplaceEnv DEF TypeInv
<1>5. defers' \in Seq(Seq(Nat)) /\ Len(defers') = Len(defers)
  <2>1. <<>> \in Seq(Nat)
    OBVIOUS
  <2>2. QED
    BY <1>1, <1>2, <2>1, ExceptSeq DEF TypeInv, TypeOK
<1>6. signal' \in Signal
  BY <1>1, PlainType DEF Run, SignalKinds
<1>7. EnvInv'
  BY <1>1, <1>4, SameEnvInv
<1>8. QED
  BY <1>1, <1>2, <1>4, <1>5, <1>6, <1>7 DEF TypeInv, TypeOK

Registration == [owner : Nat, late : BOOLEAN, runs : Nat]

LEMMA InvokeLastTypes ==
  ASSUME TypeInv, InvokeLast
  PROVE  /\ regs' \in Seq(Registration)
         /\ stack # <<>> /\ Top.todo # <<>>
         /\ Undrained(Top.todo) \in Seq(Nat)
         /\ LastDeferred(Top.todo) \in Nat
<1>1. stack # <<>> /\ Top.todo # <<>>
  BY DEF InvokeLast, Unwinding
<1>2. Top.todo \in Seq(Nat)
  BY <1>1, TopType DEF Item, TypeInv
<1> DEFINE k == LastDeferred(Top.todo)
<1>3. Undrained(Top.todo) \in Seq(Nat) /\ k \in Nat
  BY <1>1, <1>2, FrontType DEF Undrained, LastDeferred
<1>4. regs' = [regs EXCEPT ![k].runs = @ + 1]
  BY DEF InvokeLast
<1>5. regs \in Seq(Registration)
  BY DEF TypeInv, TypeOK, Registration
<1>6. regs' \in Seq(Registration)
  <2>1. CASE k \in 1..Len(regs)
    <3>1. regs[k] \in Registration
      BY <1>5, <2>1, ElementOfSeq
    <3>2. [regs[k] EXCEPT !.runs = @ + 1] \in Registration
      BY <3>1 DEF Registration
    <3>3. regs' = [regs EXCEPT ![k] = [regs[k] EXCEPT !.runs = @ + 1]]
      BY <1>4
    <3>4. QED
      BY <1>5, <2>1, <3>2, <3>3, ExceptSeq
  <2>2. CASE k \notin 1..Len(regs)
    <3>1. DOMAIN regs = 1..Len(regs) /\ regs = [i \in DOMAIN regs |-> regs[i]]
      BY <1>5, LenProperties
    <3>2. regs' = regs
      BY <1>4, <2>2, <3>1
    <3>3. QED
      BY <1>5, <3>2
  <2>3. QED
    BY <2>1, <2>2
<1>7. QED
  BY <1>1, <1>3, <1>6

LEMMA RunNativeDeferTypes ==
  ASSUME TypeInv, NEW outcome \in AllErrors \cup {None}, RunNativeDefer(outcome)
  PROVE  TypeInv'
<1> DEFINE failure == IF outcome = None THEN Top.failure ELSE Fail(outcome)
           item == [Top EXCEPT !.todo = Undrained(@),
                      !.failure = IF outcome = None THEN @ ELSE Fail(outcome)]
<1>1. /\ regs' \in Seq(Registration) /\ stack # <<>>
      /\ Undrained(Top.todo) \in Seq(Nat)
  BY InvokeLastTypes DEF RunNativeDefer
<1>2. /\ Replace(item) /\ UNCHANGED <<contexts, signal, templates, drained, left>>
      /\ deferOwner' = deferOwner /\ defers' = defers
  BY DEF RunNativeDefer, InvokeLast, SameEnvironments
<1>3. failure \in Signal
  BY <1>1, TopType, FailType DEF Item, TypeInv
<1>4. item \in Item /\ item.env = Top.env
  BY <1>1, <1>3, TopType DEF Item, TypeInv
<1>5. /\ stack' \in Seq(Item)
      /\ \A p \in DOMAIN stack' : stack'[p].env \in DOMAIN deferOwner
  BY <1>1, <1>2, <1>4, TopEnv, ReplaceType, ReplaceEnv DEF TypeInv
<1>6. EnvInv'
  BY <1>2, <1>5, SameEnvInv
<1>7. QED
  BY <1>1, <1>2, <1>5, <1>6 DEF TypeInv, TypeOK, Registration

(* The deferring item stays, with one call less to make, under the call.   *)
LEMMA RunSilverDeferShape ==
  ASSUME TypeInv, NEW declared \in SUBSET Errors, NEW check \in ReturnChecks,
         RunSilverDefer(declared, check)
  PROVE  /\ stack' \in Seq(Item) /\ Len(stack') = Len(stack) + 1
         /\ \A p \in 1..Len(stack)-1 : stack'[p] = stack[p]
         /\ stack'[Len(stack)] = [Top EXCEPT !.todo = Undrained(@)]
         /\ stack'[Len(stack) + 1] =
              [NewItem("Call", NextEnv, Top.level + 1) EXCEPT
                 !.types = declared, !.check = check, !.deferred = TRUE]
         /\ stack'[Len(stack)].env = Top.env
         /\ stack'[Len(stack) + 1].env = NextEnv
<1> DEFINE item == [Top EXCEPT !.todo = Undrained(@)]
           call == [NewItem("Call", NextEnv, Top.level + 1) EXCEPT
                      !.types = declared, !.check = check, !.deferred = TRUE]
<1>1. /\ stack # <<>> /\ Undrained(Top.todo) \in Seq(Nat)
      /\ stack' = Append(Append(Under, item), call)
  BY InvokeLastTypes DEF RunSilverDefer, Invoke
<1>2. item \in Item /\ call \in Item
  BY <1>1, TopType, CallItemType DEF Item, TypeInv
<1>2a. item.env = Top.env /\ call.env = NextEnv
  BY <1>1, TopType, CallItemType DEF Item, TypeInv
<1> HIDE DEF item, call
<1>3. /\ Under \in Seq(Item) /\ Len(Under) = Len(stack) - 1
      /\ \A p \in 1..Len(stack)-1 : Under[p] = stack[p]
      /\ Len(stack) \in Nat \ {0}
  BY <1>1, FrontType, EmptySeq DEF TypeInv, TypeOK, Under
<1> DEFINE kept == Append(Under, item)
<1>4. /\ kept \in Seq(Item) /\ Len(kept) = Len(stack)
      /\ \A p \in 1..Len(stack)-1 : kept[p] = stack[p]
      /\ kept[Len(stack)] = item
  BY <1>2, <1>3, AppendProperties
<1>5. stack' = Append(kept, call)
  BY <1>1
<1> HIDE DEF kept
<1>6. /\ stack' \in Seq(Item) /\ Len(stack') = Len(stack) + 1
      /\ \A p \in 1..Len(stack) : stack'[p] = kept[p]
      /\ stack'[Len(stack) + 1] = call
  BY <1>2, <1>3, <1>4, <1>5, AppendProperties
<1>7. QED
  <2>1. /\ stack' \in Seq(Item) /\ Len(stack') = Len(stack) + 1
        /\ \A p \in 1..Len(stack)-1 : stack'[p] = stack[p]
        /\ stack'[Len(stack)] = item /\ stack'[Len(stack) + 1] = call
    BY <1>3, <1>4, <1>6
  <2>2. QED
    BY <1>2a, <2>1 DEF item, call

LEMMA RunSilverDeferTypes ==
  ASSUME TypeInv, NEW declared \in SUBSET Errors, NEW check \in ReturnChecks,
         RunSilverDefer(declared, check)
  PROVE  TypeInv'
<1>1. /\ regs' \in Seq(Registration) /\ stack # <<>>
      /\ NewEnvironment(0) /\ contexts' = Append(contexts, NextEnv)
      /\ UNCHANGED <<signal, templates, drained, left>>
  BY InvokeLastTypes
     DEF RunSilverDefer, InvokeLast, Invoke, NewFunctionEnvironment
<1>2. ASSUME NEW p \in DOMAIN stack'
      PROVE  stack'[p].env \in DOMAIN deferOwner \cup {NextEnv}
  <2>1. DOMAIN stack' = 1..Len(stack)+1 /\ DOMAIN stack = 1..Len(stack)
        /\ Len(stack) \in Nat
    BY RunSilverDeferShape, LenProperties DEF TypeInv, TypeOK
  <2>2. CASE p \in 1..Len(stack)-1
    <3>1. stack'[p] = stack[p]
      BY <2>2, RunSilverDeferShape
    <3>2. p \in DOMAIN stack
      BY <2>1, <2>2
    <3>3. QED
      BY <3>1, <3>2 DEF TypeInv, EnvInv
  <2>3. CASE p = Len(stack)
    BY <2>3, <1>1, TopEnv, RunSilverDeferShape
  <2>4. CASE p = Len(stack) + 1
    BY <2>4, RunSilverDeferShape
  <2>5. QED
    BY <2>1, <2>2, <2>3, <2>4
<1>3. QED
  BY <1>1, <1>2, RunSilverDeferShape, AppendContext, GrownTypes
     DEF TypeInv, TypeOK, Registration

LEMMA UnwoundType ==
  ASSUME NEW item \in Item
  PROVE  Unwound(item) \in Signal
BY DEF Unwound, Item

LEMMA ResultsType ==
  ASSUME TypeInv, stack # <<>>
  PROVE  /\ CallResults(Top) \subseteq Signal
         /\ ModuleResults(Top) \subseteq Signal
<1>1. Top \in Item /\ Unwound(Top) \in Signal
  BY TopType, UnwoundType DEF TypeInv
<1>2. /\ Run \in Signal
      /\ \A type \in AllErrors : ErrorOf(type, <<>>) \in Signal
                                 /\ Fail(type) \in Signal
      /\ {RuntimeError, Fault} \subseteq AllErrors
  BY PlainType, FailType
     DEF Run, SignalKinds, ErrorOf, Signal, AllErrors, RuntimeErrors, TypeInv
<1>3. CallResults(Top) \subseteq Signal
  <2>1. Top.types \subseteq AllErrors
    BY <1>1 DEF Item
  <2>2. QED
    BY <1>1, <1>2, <2>1 DEF CallResults
<1>4. ModuleResults(Top) \subseteq Signal
  BY <1>1, <1>2 DEF ModuleResults
<1>5. QED
  BY <1>3, <1>4

LEMMA FinishTypes ==
  ASSUME TypeInv, NEW results \in SUBSET Signal, Finish(results)
  PROVE  TypeInv'
<1>1. /\ stack # <<>> /\ Len(stack) > 1 /\ contexts' = Front(contexts)
      /\ left' = left \cup {Top.env}
      /\ UNCHANGED <<templates, regs, drained, deferOwner, defers>>
  BY DEF Finish, Unwinding, PopContext, SameEnvironments
<1> DEFINE caller == [fn |-> Current(contexts'), level |-> Top.level - 1]
           below  == Last(Under)
<1>2. PICK result \in results :
        LET answer == AtCaller(result, caller)
        IN IF Top.deferred
             THEN /\ stack' = Append(Front(Under),
                        IF answer.kind = "error"
                          THEN [below EXCEPT !.failure = answer] ELSE below)
                  /\ signal' = Run
             ELSE Leave(answer)
  BY DEF Finish
<1> DEFINE answer == AtCaller(result, caller)
           item == IF answer.kind = "error"
                     THEN [below EXCEPT !.failure = answer] ELSE below
<1>3. Top \in Item /\ Top.env \in Nat /\ Top.level - 1 \in Int
      /\ contexts' \in Seq(Nat)
  <2>1. Top \in Item
    BY <1>1, TopType DEF TypeInv
  <2>2. contexts \in Seq(Nat)
    BY DEF TypeInv, TypeOK
  <2>3. contexts' \in Seq(Nat)
    BY <1>1, <2>2, FrontSeq
  <2>4. QED
    BY <2>1, <2>3 DEF Item
<1>4. caller \in TraceFrame
  BY <1>3, CurrentType DEF TraceFrame
<1>5. answer \in Signal
  BY <1>4, AtCallerType
<1>6. /\ Under \in Seq(Item) /\ Len(Under) = Len(stack) - 1
      /\ \A p \in 1..Len(stack)-1 : Under[p] = stack[p]
      /\ Len(stack) \in Nat
  <2>1. stack \in Seq(Item) /\ stack # <<>> /\ Len(stack) \in Nat
    BY <1>1 DEF TypeInv, TypeOK
  <2>2. QED
    BY <2>1, FrontType DEF Under
<1>7. Under # <<>> /\ Last(Under) = stack[Len(stack)-1]
  BY <1>1, <1>6 DEF Last
<1>8. /\ stack' \in Seq(Item) /\ signal' \in Signal
      /\ \A p \in DOMAIN stack' : stack'[p].env \in DOMAIN deferOwner
  <2>1. CASE ~Top.deferred
    <3>1. Leave(answer)
      BY <1>2, <2>1
    <3>2. QED
      BY <1>1, <1>5, <3>1, LeaveTypes
  <2>2. CASE Top.deferred
    <3>1. stack' = Append(Front(Under), item) /\ signal' = Run
      BY <1>2, <2>2
    <3>2. below \in Item /\ below.env \in DOMAIN deferOwner
      <4>1. below \in Item
        BY <1>6, <1>7, FrontType
      <4>2. Len(stack) - 1 \in DOMAIN stack
        BY <1>1, <1>6 DEF TypeInv, TypeOK
      <4>3. QED
        BY <1>7, <4>1, <4>2 DEF TypeInv, EnvInv
    <3>3. item \in Item /\ item.env \in DOMAIN deferOwner
      BY <1>5, <3>2 DEF Item
    <3> HIDE DEF item
    <3>4. /\ Front(Under) \in Seq(Item)
          /\ Len(Front(Under)) = Len(stack) - 2
          /\ \A p \in 1..Len(stack)-2 : Front(Under)[p] = stack[p]
      BY <1>1, <1>6, <1>7, FrontType
    <3>5. /\ stack' \in Seq(Item) /\ Len(stack') = Len(stack) - 1
          /\ \A p \in 1..Len(stack)-2 : stack'[p] = stack[p]
          /\ stack'[Len(stack)-1] = item
      BY <1>1, <1>6, <3>1, <3>3, <3>4, AppendProperties
    <3>6. DOMAIN stack' = 1..Len(stack)-1 /\ DOMAIN stack = 1..Len(stack)
      BY <1>6, <3>5, LenProperties DEF TypeInv, TypeOK
    <3>7. signal' \in Signal
      BY <3>1, PlainType DEF Run, SignalKinds
    <3>8. QED
      BY <1>6, <3>3, <3>5, <3>6, <3>7 DEF TypeInv, EnvInv
  <2>3. QED
    BY <2>1, <2>2
<1>9. EnvInv'
  BY <1>1, <1>8, SameEnvInv
<1>10. QED
  BY <1>1, <1>3, <1>8, <1>9 DEF TypeInv, TypeOK

LEMMA FinishScriptTypes ==
  ASSUME TypeInv, FinishScript
  PROVE  TypeInv'
<1>1. /\ stack # <<>> /\ stack' = <<>> /\ left' = left \cup {Top.env}
      /\ UNCHANGED <<contexts, templates, regs, drained, deferOwner, defers>>
      /\ signal' = [kind |-> "done",
                    type |-> IF Unwound(Top).kind = "error"
                               THEN Unwound(Top).type ELSE None,
                    frames |-> Unwound(Top).frames]
  BY DEF FinishScript, Unwinding, SameEnvironments
<1>2. Unwound(Top) \in Signal /\ Top.env \in Nat
  BY <1>1, TopType, UnwoundType DEF TypeInv, Item
<1>3. signal' \in Signal
  BY <1>1, <1>2 DEF Signal, SignalKinds
<1>4. stack' \in Seq(Item) /\ DOMAIN stack' = {}
  BY <1>1
<1>5. EnvInv'
  BY <1>1, <1>4, SameEnvInv
<1>6. QED
  BY <1>1, <1>2, <1>3, <1>4, <1>5 DEF TypeInv, TypeOK

-----------------------------------------------------------------------------
LEMMA InitTypes == Init => TypeInv
<1> SUFFICES ASSUME Init PROVE TypeInv
  OBVIOUS
<1>1. NewItem("Program", 1, 0) \in Item /\ NewItem("Program", 1, 0).env = 1
  <2>1. NewItem("Program", 1, 0) \in Item
    BY NewItemType DEF Kinds, Lifetimes
  <2>2. NewItem("Program", 1, 0).env = 1
    BY DEF NewItem
  <2>3. QED
    BY <2>1, <2>2
<1> DEFINE item == NewItem("Program", 1, 0)
<1> HIDE DEF item
<1>2. stack = <<item>> /\ item \in Item /\ item.env = 1
  BY <1>1 DEF Init, item
<1>3. signal \in Signal
  BY PlainType DEF Init, Run, SignalKinds
<1>4. defers \in Seq(Seq(Nat)) /\ Len(defers) = 1
  <2>1. <<>> \in Seq(Nat)
    OBVIOUS
  <2> DEFINE none == <<>>
  <2>2. defers = << none >>
    BY DEF Init
  <2> HIDE DEF none
  <2>3. none \in Seq(Nat)
    BY DEF none
  <2>4. QED
    BY <2>2, <2>3
<1>5. deferOwner = <<0>> /\ contexts = <<>> /\ templates = {} /\ regs = <<>>
      /\ drained = {} /\ left = {}
  BY DEF Init
<1>6. TypeOK
  BY <1>2, <1>3, <1>4, <1>5 DEF TypeOK
<1>7. EnvInv
  BY <1>2, <1>5 DEF EnvInv
<1>8. QED
  BY <1>6, <1>7 DEF TypeInv

LEMMA NextTypes == TypeInv /\ [Next]_vars => TypeInv'
<1> SUFFICES ASSUME TypeInv, [Next]_vars PROVE TypeInv'
  OBVIOUS
<1>1. CASE Statement
  BY <1>1, DeferStatementTypes, SignalTypes, EnterTypes, EnterForTypes,
     CallFunctionTypes, ImportModuleTypes, TemplateLiteralTypes,
     EvalTemplateTypes DEF Statement
<1>2. CASE Propagate
  BY <1>2, BlockTypes, CatchErrorTypes, NextIterationTypes, LeaveTemplateTypes
     DEF Propagate
<1>3. CASE Unwind
  <2>1. CASE FinishCall \/ FinishModule
    <3>1. stack # <<>>
      BY <2>1 DEF FinishCall, FinishModule, Unwinding
    <3>2. QED
      BY <2>1, <3>1, ResultsType, FinishTypes DEF FinishCall, FinishModule
  <2>2. QED
    BY <1>3, <2>1, TakeDefersTypes, RunNativeDeferTypes, RunSilverDeferTypes,
       FinishScriptTypes DEF Unwind
<1>4. CASE Finished \/ UNCHANGED vars
  <2>1. UNCHANGED vars
    BY <1>4 DEF Finished
  <2>2. QED
    BY <2>1 DEF vars, TypeInv, TypeOK, EnvInv
<1>5. QED
  BY <1>1, <1>2, <1>3, <1>4 DEF Next

(* Every variable of the evaluator keeps its type, for any program, error  *)
(* structs, handlers and bounds.                                           *)
THEOREM TypeCorrect == Spec => []TypeOK
<1>1. TypeInv => TypeOK
  BY DEF TypeInv
<1>2. QED
  BY <1>1, InitTypes, NextTypes, PTL DEF Spec

-----------------------------------------------------------------------------
(* The inductive invariant behind CleanupRunsOnce and UnwindsInReverse.    *)

Increasing(calls) ==
  \A i, j \in DOMAIN calls : i < j => calls[i] < calls[j]

(* Constructs that run their statements have taken no defers; those that   *)
(* unwind own the calls they still have to make.                           *)
ItemOK(item) ==
  /\ item.unwinding => item.kind \in Lifetimes
  /\ item.deferred => item.kind = "Call"
  /\ item.kind \in Lifetimes =>
       /\ deferOwner[item.env] = 0
       /\ item.env \notin left
       /\ item.unwinding <=> item.env \in drained
  /\ ~item.unwinding => item.todo = <<>>
  /\ Increasing(item.todo)
  /\ \A i \in DOMAIN item.todo :
       /\ item.todo[i] \in DOMAIN regs
       /\ regs[item.todo[i]].owner = item.env
       /\ ~regs[item.todo[i]].late
       /\ regs[item.todo[i]].runs = 0

ItemInv == \A p \in DOMAIN stack : ItemOK(stack[p])

(* An environment belongs to one invocation, deferred calls run above the  *)
(* invocation that makes them, and no signal reaches one that unwinds.     *)
PlaceInv ==
  /\ \A p, q \in DOMAIN stack :
       p # q /\ stack[p].kind \in Lifetimes /\ stack[q].kind \in Lifetimes
       => stack[p].env # stack[q].env
  /\ \A p \in DOMAIN stack :
       p > 1 => (stack[p].deferred <=> stack[p - 1].unwinding)
  /\ stack # <<>> /\ Top.unwinding => signal.kind = "run"

QueueOK(e) ==
  /\ Increasing(defers[e])
  /\ \A i \in DOMAIN defers[e] :
       /\ defers[e][i] \in DOMAIN regs
       /\ regs[defers[e][i]].owner = e
       /\ regs[defers[e][i]].late <=> e \in drained
       /\ regs[defers[e][i]].runs = 0

QueueInv == \A e \in DOMAIN defers : QueueOK(e)

(* A call that has not been made is queued by its owner or in the hands of *)
(* the invocation that is making them.                                     *)
Queued(d) == /\ regs[d].owner \notin drained
             /\ \E i \in DOMAIN defers[regs[d].owner] :
                  defers[regs[d].owner][i] = d
Taken(d) == \E p \in DOMAIN stack :
              /\ stack[p].kind \in Lifetimes
              /\ stack[p].env = regs[d].owner
              /\ \E i \in DOMAIN stack[p].todo : stack[p].todo[i] = d

RegOK(d) ==
  /\ regs[d].runs <= 1
  /\ regs[d].owner \in DOMAIN deferOwner
  /\ regs[d].late => regs[d].runs = 0
  /\ regs[d].runs = 0 /\ ~regs[d].late => Queued(d) \/ Taken(d)

RegInv == \A d \in DOMAIN regs : RegOK(d)

HistoryInv == drained \subseteq DOMAIN deferOwner /\ left \subseteq drained

CleanupInv == ItemInv /\ PlaceInv /\ QueueInv /\ RegInv /\ HistoryInv

-----------------------------------------------------------------------------
(* Steps that neither register nor take nor make deferred calls, and leave *)
(* no invocation: existing environments and invocations are as they were.  *)

EnvStep ==
  /\ \A e \in DOMAIN deferOwner :
       /\ e \in DOMAIN deferOwner'
       /\ deferOwner'[e] = deferOwner[e] /\ defers'[e] = defers[e]
  /\ \A e \in DOMAIN deferOwner' : e \notin DOMAIN deferOwner => defers'[e] = <<>>

Plainly(item) == /\ ~item.unwinding /\ ~item.deferred /\ item.todo = <<>>
                 /\ item.kind \in Lifetimes =>
                      /\ item.env \in DOMAIN deferOwner'
                      /\ item.env \notin DOMAIN deferOwner
                      /\ deferOwner'[item.env] = 0

Carried(p) ==
  /\ p \in DOMAIN stack
  /\ stack'[p].kind \in Lifetimes <=> stack[p].kind \in Lifetimes
  /\ stack[p].kind \in Lifetimes =>
       stack'[p].kind = stack[p].kind /\ stack'[p].env = stack[p].env
  /\ stack'[p].unwinding = stack[p].unwinding
  /\ stack'[p].deferred = stack[p].deferred
  /\ stack'[p].todo = stack[p].todo

Entered(p) ==
  /\ p = Len(stack) + 1
  /\ Plainly(stack'[p])
  /\ p > 1 => ~stack[p - 1].unwinding

CalmStep ==
  /\ SameHistory
  /\ EnvStep
  /\ \A p \in DOMAIN stack' : Carried(p) \/ Entered(p)
  /\ \A p \in DOMAIN stack : stack[p].kind \in Lifetimes => p \in DOMAIN stack'
  /\ stack' # <<>> /\ stack'[Len(stack')].unwinding => signal'.kind = "run"

LEMMA Domains ==
  ASSUME TypeInv
  PROVE  /\ DOMAIN stack = 1..Len(stack) /\ Len(stack) \in Nat
         /\ DOMAIN defers = DOMAIN deferOwner
         /\ DOMAIN deferOwner = 1..Len(deferOwner) /\ Len(deferOwner) \in Nat
         /\ DOMAIN regs = 1..Len(regs) /\ Len(regs) \in Nat
         /\ \A p \in DOMAIN stack : stack[p] \in Item
         /\ \A d \in DOMAIN regs : regs[d] \in Registration
         /\ stack # <<>> => Len(stack) \in DOMAIN stack
<1>1. /\ stack \in Seq(Item) /\ defers \in Seq(Seq(Nat))
      /\ deferOwner \in Seq(Nat) /\ Len(defers) = Len(deferOwner)
      /\ regs \in Seq(Registration)
  BY DEF TypeInv, TypeOK, Registration
<1>2. /\ DOMAIN stack = 1..Len(stack) /\ Len(stack) \in Nat
      /\ DOMAIN defers = DOMAIN deferOwner
      /\ DOMAIN deferOwner = 1..Len(deferOwner) /\ Len(deferOwner) \in Nat
      /\ DOMAIN regs = 1..Len(regs) /\ Len(regs) \in Nat
  BY <1>1
<1>3. \A p \in DOMAIN stack : stack[p] \in Item
  BY <1>1
<1>4. \A d \in DOMAIN regs : regs[d] \in Registration
  BY <1>1
<1>5. stack # <<>> => Len(stack) \in DOMAIN stack
  BY TopType DEF TypeInv
<1>6. QED
  BY <1>2, <1>3, <1>4, <1>5

LEMMA CalmItems ==
  ASSUME TypeInv, TypeInv', CleanupInv, CalmStep
  PROVE  ItemInv'
<1> SUFFICES ASSUME NEW p \in DOMAIN stack'
             PROVE  ItemOK(stack[p])'
  BY DEF ItemInv
<1>1. regs' = regs /\ drained' = drained /\ left' = left
  BY DEF CalmStep, SameHistory
<1>2. Carried(p) \/ Entered(p)
  BY DEF CalmStep
<1>3. CASE Carried(p)
  <2>1. ItemOK(stack[p]) /\ stack[p].env \in DOMAIN deferOwner
    BY <1>3 DEF Carried, CleanupInv, ItemInv, TypeInv, EnvInv
  <2>2. stack[p] \in Item /\ stack'[p] \in Item
    BY <1>3, Domains DEF Carried, TypeInv, TypeOK
  <2>3. stack[p].kind \in Lifetimes => deferOwner'[stack'[p].env] = 0
    BY <1>3, <2>1 DEF Carried, ItemOK, CalmStep, EnvStep
  <2>4. (stack[p].kind \in Lifetimes \/ stack'[p].todo = <<>>)
    BY <1>3, <2>1 DEF Carried, ItemOK
  <2>5. QED
    BY <1>1, <1>3, <2>1, <2>3, <2>4 DEF Carried, ItemOK, Increasing, Lifetimes
<1>4. CASE Entered(p)
  <2>1. Plainly(stack'[p])
    BY <1>4 DEF Entered
  <2>2. stack'[p].kind \in Lifetimes =>
          stack'[p].env \notin drained /\ stack'[p].env \notin left
    BY <2>1 DEF Plainly, CleanupInv, HistoryInv
  <2>3. QED
    BY <1>1, <2>1, <2>2 DEF Plainly, ItemOK, Increasing
<1>5. QED
  BY <1>2, <1>3, <1>4

LEMMA CalmPlaces ==
  ASSUME TypeInv, TypeInv', CleanupInv, CalmStep
  PROVE  PlaceInv'
<1>1. \A p \in DOMAIN stack' : Carried(p) \/ Entered(p)
  BY DEF CalmStep
<1>2. \A p \in DOMAIN stack : stack[p].env \in DOMAIN deferOwner
  BY DEF TypeInv, EnvInv
<1>3. ASSUME NEW p \in DOMAIN stack', NEW q \in DOMAIN stack', p # q,
             stack'[p].kind \in Lifetimes, stack'[q].kind \in Lifetimes
      PROVE  stack'[p].env # stack'[q].env
  <2>1. CASE Carried(p) /\ Carried(q)
    BY <1>3, <2>1 DEF Carried, CleanupInv, PlaceInv
  <2>2. CASE Carried(p) /\ Entered(q)
    BY <1>2, <1>3, <2>2 DEF Carried, Entered, Plainly
  <2>3. CASE Entered(p) /\ Carried(q)
    BY <1>2, <1>3, <2>3 DEF Carried, Entered, Plainly
  <2>4. CASE Entered(p) /\ Entered(q)
    BY <1>3, <2>4 DEF Entered
  <2>5. QED
    BY <1>1, <2>1, <2>2, <2>3, <2>4
<1>4. ASSUME NEW p \in DOMAIN stack', p > 1
      PROVE  stack'[p].deferred <=> stack'[p - 1].unwinding
  <2>1. p - 1 \in DOMAIN stack'
    BY <1>4 DEF TypeInv, TypeOK
  <2>2. p \in 1..Len(stack)+1
    BY <1>1, Domains DEF Carried, Entered
  <2>3. Carried(p - 1)
    BY <1>1, <2>1, <2>2, <1>4, Domains DEF Entered
  <2>4. CASE Carried(p)
    BY <1>4, <2>3, <2>4 DEF Carried, CleanupInv, PlaceInv
  <2>5. CASE Entered(p)
    BY <1>4, <2>3, <2>5 DEF Carried, Entered, Plainly
  <2>6. QED
    BY <1>1, <2>4, <2>5
<1>5. QED
  BY <1>3, <1>4 DEF PlaceInv, CalmStep, Top

LEMMA CalmQueues ==
  ASSUME TypeInv, TypeInv', CleanupInv, CalmStep
  PROVE  QueueInv'
<1> SUFFICES ASSUME NEW e \in DOMAIN defers'
             PROVE  QueueOK(e)'
  BY DEF QueueInv
<1>1. regs' = regs /\ drained' = drained
  BY DEF CalmStep, SameHistory
<1>2. e \in DOMAIN deferOwner'
  BY DEF TypeInv, TypeOK
<1>3. CASE e \in DOMAIN deferOwner
  <2>1. defers'[e] = defers[e] /\ QueueOK(e)
    BY <1>3, Domains DEF CalmStep, EnvStep, CleanupInv, QueueInv
  <2>2. QED
    BY <1>1, <2>1 DEF QueueOK, Increasing
<1>4. CASE e \notin DOMAIN deferOwner
  <2>1. defers'[e] = <<>>
    BY <1>2, <1>4 DEF CalmStep, EnvStep
  <2>2. QED
    BY <2>1 DEF QueueOK, Increasing
<1>5. QED
  BY <1>3, <1>4

LEMMA CalmRegs ==
  ASSUME TypeInv, TypeInv', CleanupInv, CalmStep
  PROVE  RegInv'
<1> SUFFICES ASSUME NEW d \in DOMAIN regs
             PROVE  RegOK(d)'
  BY DEF RegInv, CalmStep, SameHistory
<1>1. regs' = regs /\ drained' = drained
  BY DEF CalmStep, SameHistory
<1>2. RegOK(d) /\ regs[d].owner \in DOMAIN deferOwner
  BY DEF CleanupInv, RegInv, RegOK
<1>3. defers'[regs[d].owner] = defers[regs[d].owner]
      /\ regs[d].owner \in DOMAIN deferOwner'
  BY <1>2 DEF CalmStep, EnvStep
<1>4. Queued(d) => Queued(d)'
  BY <1>1, <1>3 DEF Queued
<1>5. Taken(d) => Taken(d)'
  <2>1. SUFFICES ASSUME NEW p \in DOMAIN stack, stack[p].kind \in Lifetimes,
                        stack[p].env = regs[d].owner,
                        \E i \in DOMAIN stack[p].todo : stack[p].todo[i] = d
                 PROVE  Taken(d)'
    BY DEF Taken
  <2>2. p \in DOMAIN stack' /\ (Carried(p) \/ Entered(p))
    BY <2>1 DEF CalmStep
  <2>3. Carried(p)
    BY <2>2, Domains DEF Entered
  <2>4. QED
    BY <1>1, <2>1, <2>2, <2>3 DEF Carried, Taken
<1>6. QED
  BY <1>1, <1>2, <1>3, <1>4, <1>5 DEF RegOK

LEMMA CalmCleanup ==
  ASSUME TypeInv, TypeInv', CleanupInv, CalmStep
  PROVE  CleanupInv'
<1>1. HistoryInv'
  BY DEF CalmStep, SameHistory, EnvStep, CleanupInv, HistoryInv
<1>2. QED
  BY <1>1, CalmItems, CalmPlaces, CalmQueues, CalmRegs DEF CleanupInv

-----------------------------------------------------------------------------
(* Which actions are calm.                                                 *)

LEMMA SameEnvStep ==
  ASSUME TypeInv, SameEnvironments
  PROVE  EnvStep
BY DEF EnvStep, SameEnvironments

LEMMA NewEnvStep ==
  ASSUME TypeInv, NEW owner \in Nat,
         owner # 0 => owner \in DOMAIN deferOwner /\ deferOwner[owner] = 0,
         NewEnvironment(owner)
  PROVE  /\ EnvStep
         /\ NextEnv \in DOMAIN deferOwner' /\ NextEnv \notin DOMAIN deferOwner
         /\ deferOwner'[NextEnv] = owner
<1>1. /\ NextEnv \in DOMAIN deferOwner' /\ NextEnv \notin DOMAIN deferOwner
      /\ deferOwner'[NextEnv] = owner /\ defers'[NextEnv] = <<>>
      /\ \A e \in DOMAIN deferOwner :
           /\ e \in DOMAIN deferOwner' /\ deferOwner'[e] = deferOwner[e]
           /\ defers'[e] = defers[e]
  BY NewEnvironmentType, Domains, SMTT(30) DEF NextEnv
<1>2. DOMAIN deferOwner' = DOMAIN deferOwner \cup {NextEnv}
  <2>1. Len(deferOwner') = Len(deferOwner) + 1 /\ deferOwner' \in Seq(Nat)
    BY AppendProperties DEF NewEnvironment, TypeInv, TypeOK
  <2>2. QED
    BY <2>1, Domains DEF NextEnv
<1>3. QED
  BY <1>1, <1>2 DEF EnvStep

LEMMA StillCalm ==
  ASSUME TypeInv, CleanupInv, SameHistory, EnvStep, stack' = stack,
         stack # <<>> => ~Top.unwinding
  PROVE  CalmStep
BY DEF CalmStep, Carried, Top

LEMMA PushCalm ==
  ASSUME TypeInv, CleanupInv, SameHistory, EnvStep,
         NEW item \in Item, Push(item), Plainly(item), ~Top.unwinding
  PROVE  CalmStep
<1>1. /\ Len(stack') = Len(stack) + 1 /\ stack' \in Seq(Item)
      /\ \A p \in DOMAIN stack : stack'[p] = stack[p]
      /\ stack'[Len(stack) + 1] = item
  BY PushType DEF TypeInv
<1>2. DOMAIN stack' = 1..Len(stack)+1 /\ DOMAIN stack = 1..Len(stack)
      /\ Len(stack) \in Nat
  BY <1>1, Domains
<1>3. ASSUME NEW p \in DOMAIN stack'
      PROVE  Carried(p) \/ Entered(p)
  <2>1. CASE p \in DOMAIN stack
    BY <1>1, <2>1 DEF Carried
  <2>2. CASE p = Len(stack) + 1
    BY <1>1, <1>2, <2>2 DEF Entered, Top
  <2>3. QED
    BY <1>2, <2>1, <2>2
<1>4. stack'[Len(stack')] = item
  BY <1>1
<1>5. QED
  BY <1>2, <1>3, <1>4 DEF CalmStep, Plainly

LEMMA ReplaceCalm ==
  ASSUME TypeInv, CleanupInv, SameHistory, EnvStep, stack # <<>>,
         NEW item \in Item, Replace(item),
         Top.kind \notin Lifetimes, item.kind \notin Lifetimes,
         ~item.unwinding, ~item.deferred, item.todo = <<>>
  PROVE  CalmStep
<1>1. /\ Len(stack') = Len(stack) /\ stack' \in Seq(Item)
      /\ \A p \in 1..Len(stack)-1 : stack'[p] = stack[p]
      /\ stack'[Len(stack)] = item
  BY ReplaceType DEF TypeInv
<1>2. DOMAIN stack' = 1..Len(stack) /\ DOMAIN stack = 1..Len(stack)
      /\ Len(stack) \in Nat /\ Len(stack) \in DOMAIN stack
  BY <1>1, Domains
<1>3. ItemOK(Top) /\ Top = stack[Len(stack)] /\ Top \in Item
  BY <1>2, TopType DEF Top, CleanupInv, ItemInv, TypeInv
<1>4. Top.unwinding = FALSE /\ Top.deferred = FALSE /\ Top.todo = <<>>
  BY <1>3 DEF ItemOK, Item, Lifetimes
<1>5. item.unwinding = FALSE /\ item.deferred = FALSE
  BY DEF Item
<1>6. ASSUME NEW p \in DOMAIN stack'
      PROVE  Carried(p)
  <2>1. CASE p \in 1..Len(stack)-1
    BY <1>1, <1>2, <2>1 DEF Carried
  <2>2. CASE p = Len(stack)
    BY <1>1, <1>2, <1>3, <1>4, <1>5, <2>2 DEF Carried
  <2>3. QED
    BY <1>2, <2>1, <2>2
<1>7. QED
  BY <1>1, <1>2, <1>6 DEF CalmStep

LEMMA PopCalm ==
  ASSUME TypeInv, CleanupInv, SameHistory, EnvStep, stack # <<>>,
         stack' = Under, Top.kind \notin Lifetimes
  PROVE  CalmStep
<1>1. /\ Len(stack') = Len(stack) - 1 /\ stack' \in Seq(Item)
      /\ \A p \in 1..Len(stack)-1 : stack'[p] = stack[p]
  BY PopType DEF TypeInv
<1>2. DOMAIN stack' = 1..Len(stack)-1 /\ DOMAIN stack = 1..Len(stack)
      /\ Len(stack) \in Nat /\ Len(stack) \in DOMAIN stack
  BY <1>1, Domains
<1>3. ItemOK(Top) /\ Top = stack[Len(stack)]
  BY <1>2 DEF Top, CleanupInv, ItemInv
<1>4. ~Top.deferred
  BY <1>3 DEF ItemOK, Lifetimes
<1>5. \A p \in DOMAIN stack' : Carried(p)
  BY <1>1, <1>2 DEF Carried
<1>6. \A p \in DOMAIN stack : stack[p].kind \in Lifetimes => p \in DOMAIN stack'
  BY <1>2, <1>3
<1>7. stack' # <<>> => ~stack'[Len(stack')].unwinding
  <2>1. SUFFICES ASSUME stack' # <<>>
                 PROVE  ~stack'[Len(stack')].unwinding
    OBVIOUS
  <2>2. Len(stack) - 1 \in DOMAIN stack' /\ Len(stack) > 1
    BY <1>1, <1>2, <2>1
  <2>3. stack[Len(stack)].deferred <=> stack[Len(stack) - 1].unwinding
    BY <1>2, <2>2 DEF CleanupInv, PlaceInv
  <2>4. QED
    BY <1>1, <1>2, <1>3, <1>4, <2>2, <2>3
<1>8. QED
  BY <1>5, <1>6, <1>7 DEF CalmStep

LEMMA SignalCalm ==
  ASSUME TypeInv, CleanupInv,
         \/ \E type \in AllErrors : RaiseError(type)
         \/ \E payload \in Errors \cup {None} : ReturnStatement(payload)
         \/ \E kind \in {"break", "continue"} : LoopControl(kind)
         \/ TemplateLiteral
  PROVE  CalmStep
<1>1. /\ stack' = stack /\ SameEnvironments /\ SameHistory /\ ~Top.unwinding
  BY DEF RaiseError, ReturnStatement, LoopControl, TemplateLiteral, Running
<1>2. QED
  BY <1>1, SameEnvStep, StillCalm

LEMMA InsidePlainly ==
  ASSUME TypeInv, stack # <<>>, NEW kind \in Kinds, kind \notin Lifetimes
  PROVE  /\ Inside(kind) \in Item /\ Inside(kind).kind = kind
         /\ ~Inside(kind).unwinding /\ ~Inside(kind).deferred
         /\ Inside(kind).todo = <<>>
BY InsideType DEF Inside, NewItem

LEMMA EnterCalm ==
  ASSUME TypeInv, CleanupInv,
         \/ EnterOperand
         \/ \E catches \in CatchClauses : EnterTry(catches)
         \/ EnterWhile
  PROVE  CalmStep
<1>1. /\ SameEnvironments /\ SameHistory /\ stack # <<>> /\ ~Top.unwinding
  BY DEF EnterOperand, EnterTry, EnterWhile, Running
<1>2. PICK item \in Item : Plainly(item) /\ Push(item)
  <2>1. CASE EnterOperand
    BY <2>1, <1>1, InsidePlainly DEF EnterOperand, Kinds, Lifetimes, Plainly
  <2>2. CASE \E catches \in CatchClauses : EnterTry(catches)
    <3>1. PICK catches \in CatchClauses : EnterTry(catches)
      BY <2>2
    <3>2. catches \in SUBSET AllErrors
      BY UnwindingAssumption
    <3> DEFINE item == [Inside("Try") EXCEPT !.types = catches]
    <3>3. /\ Inside("Try") \in Item /\ Inside("Try").kind = "Try"
          /\ ~Inside("Try").unwinding /\ ~Inside("Try").deferred
          /\ Inside("Try").todo = <<>>
      BY <1>1, InsidePlainly DEF Kinds, Lifetimes
    <3>4. item \in Item /\ Plainly(item)
      BY <3>2, <3>3 DEF Item, Plainly, Lifetimes
    <3>5. QED
      BY <3>1, <3>4 DEF EnterTry
  <2>3. CASE EnterWhile
    BY <2>3, <1>1, InsidePlainly DEF EnterWhile, Kinds, Lifetimes, Plainly
  <2>4. QED
    BY <2>1, <2>2, <2>3
<1>3. QED
  BY <1>1, <1>2, SameEnvStep, PushCalm

LEMMA EnterForCalm ==
  ASSUME TypeInv, CleanupInv, EnterFor
  PROVE  CalmStep
<1>1. /\ SameHistory /\ stack # <<>> /\ ~Top.unwinding
      /\ NewEnvironment(Owner(Top.env))
  BY DEF EnterFor, Running, NewEnclosedEnvironment
<1> DEFINE item == [Inside("Loop") EXCEPT !.env = NextEnv, !.fresh = TRUE]
<1>2. /\ Inside("Loop") \in Item /\ Inside("Loop").kind = "Loop"
      /\ ~Inside("Loop").unwinding /\ ~Inside("Loop").deferred
      /\ Inside("Loop").todo = <<>>
  BY <1>1, InsidePlainly DEF Kinds, Lifetimes
<1>3. item \in Item /\ Plainly(item)
  BY <1>2, NextEnvType DEF Item, Plainly, Lifetimes, TypeInv
<1>4. Push(item)
  BY DEF EnterFor
<1>5. EnvStep
  BY <1>1, TopEnv, OwnerArgument, NewEnvStep
<1>6. QED
  BY <1>1, <1>3, <1>4, <1>5, PushCalm

LEMMA CallFunctionCalm ==
  ASSUME TypeInv, CleanupInv, NEW declared \in SUBSET Errors,
         NEW check \in ReturnChecks, CallFunction(declared, check)
  PROVE  CalmStep
<1> DEFINE call == [NewItem("Call", NextEnv, Top.level + 1) EXCEPT
                      !.types = declared, !.check = check, !.deferred = FALSE]
<1>1. /\ stack # <<>> /\ ~Top.unwinding /\ SameHistory
      /\ NewEnvironment(0) /\ Push(call)
  BY DEF CallFunction, Running, Invoke, NewFunctionEnvironment
<1>2. call \in Item /\ call.env = NextEnv
  BY <1>1, CallItemType
<1>3. ~call.unwinding /\ ~call.deferred /\ call.todo = <<>>
  BY DEF NewItem
<1>4. EnvStep /\ NextEnv \in DOMAIN deferOwner'
      /\ NextEnv \notin DOMAIN deferOwner /\ deferOwner'[NextEnv] = 0
  BY <1>1, NewEnvStep
<1>5. Plainly(call)
  BY <1>2, <1>3, <1>4 DEF Plainly
<1>6. QED
  BY <1>1, <1>2, <1>4, <1>5, PushCalm

LEMMA ImportModuleCalm ==
  ASSUME TypeInv, CleanupInv, ImportModule
  PROVE  CalmStep
<1> DEFINE item == NewItem("Program", NextEnv, Top.level + 1)
<1>1. /\ stack # <<>> /\ ~Top.unwinding /\ SameHistory
      /\ NewEnvironment(0) /\ Push(item)
  BY DEF ImportModule, Running, NewFunctionEnvironment
<1>2. Top.level + 1 \in Int
  BY <1>1, TopType DEF TypeInv, Item
<1>3. item \in Item
  BY <1>2, NewItemType, NextEnvType DEF TypeInv, Kinds, Lifetimes
<1>4. ~item.unwinding /\ ~item.deferred /\ item.todo = <<>> /\ item.env = NextEnv
  BY DEF NewItem
<1>5. EnvStep /\ NextEnv \in DOMAIN deferOwner'
      /\ NextEnv \notin DOMAIN deferOwner /\ deferOwner'[NextEnv] = 0
  BY <1>1, NewEnvStep
<1>6. Plainly(item)
  BY <1>4, <1>5 DEF Plainly
<1>7. QED
  BY <1>1, <1>3, <1>5, <1>6, PushCalm

LEMMA EvalTemplateCalm ==
  ASSUME TypeInv, CleanupInv, NEW t \in templates, EvalTemplate(t)
  PROVE  CalmStep
<1> DEFINE plain == NewItem("Template", t.env, Top.level + 1)
           item == [plain EXCEPT !.saved = contexts, !.inLoop = t.inLoop]
<1>1. /\ stack # <<>> /\ ~Top.unwinding /\ SameHistory /\ SameEnvironments
      /\ Push(item)
  BY DEF EvalTemplate, Running
<1>2. Top.level + 1 \in Int
  BY <1>1, TopType DEF TypeInv, Item
<1>3. t.env \in Nat /\ t.inLoop \in BOOLEAN
  BY DEF TypeInv, TypeOK
<1>4. plain \in Item
  BY <1>2, <1>3, NewItemType DEF Kinds
<1>5. ~plain.unwinding /\ ~plain.deferred /\ plain.todo = <<>>
      /\ plain.kind = "Template"
  BY DEF NewItem
<1> HIDE DEF plain
<1>6. item \in Item /\ Plainly(item)
  BY <1>3, <1>4, <1>5 DEF Item, Plainly, Lifetimes, TypeInv, TypeOK
<1>7. QED
  BY <1>1, <1>6, SameEnvStep, PushCalm

LEMMA BlockCalm ==
  ASSUME TypeInv, CleanupInv,
         EndBlock \/ SignalAtOperand \/ PassThrough \/ ExitLoop \/ LeaveTemplate
  PROVE  CalmStep
<1>1. /\ SameEnvironments /\ SameHistory /\ stack # <<>> /\ stack' = Under
  BY DEF EndBlock, SignalAtOperand, PassThrough, ExitLoop, IterationEnds,
         LeaveTemplate, Leave, Running, Arriving
<1>2. Top.kind \notin Lifetimes
  BY DEF EndBlock, SignalAtOperand, PassThrough, ExitLoop, IterationEnds,
         LeaveTemplate, Lifetimes
<1>3. QED
  BY <1>1, <1>2, SameEnvStep, PopCalm

LEMMA CatchErrorCalm ==
  ASSUME TypeInv, CleanupInv, CatchError
  PROVE  CalmStep
<1> DEFINE item == [Inside("Catch") EXCEPT !.env = NextEnv]
<1>1. /\ stack # <<>> /\ SameHistory /\ NewEnvironment(Owner(Top.env))
      /\ Replace(item) /\ Top.kind = "Try"
  BY DEF CatchError, Arriving, NewEnclosedEnvironment
<1>2. /\ Inside("Catch") \in Item /\ Inside("Catch").kind = "Catch"
      /\ ~Inside("Catch").unwinding /\ ~Inside("Catch").deferred
      /\ Inside("Catch").todo = <<>>
  BY <1>1, InsidePlainly DEF Kinds, Lifetimes
<1>3. /\ item \in Item /\ item.kind = "Catch"
      /\ ~item.unwinding /\ ~item.deferred /\ item.todo = <<>>
  BY <1>2, NextEnvType DEF Item, TypeInv
<1>4. EnvStep
  BY <1>1, TopEnv, OwnerArgument, NewEnvStep
<1>5. QED
  BY <1>1, <1>3, <1>4, ReplaceCalm DEF Lifetimes

LEMMA NextIterationCalm ==
  ASSUME TypeInv, CleanupInv, NextIteration
  PROVE  CalmStep
<1>1. /\ stack # <<>> /\ SameHistory /\ Top.kind = "Loop"
  BY DEF NextIteration, IterationEnds, Running, Arriving
<1>2. ItemOK(Top) /\ Top \in Item
  BY <1>1, TopType, Domains DEF Top, CleanupInv, ItemInv, TypeInv
<1>3. ~Top.unwinding /\ ~Top.deferred /\ Top.todo = <<>>
  BY <1>1, <1>2 DEF ItemOK, Lifetimes
<1>4. CASE Top.fresh
  <2> DEFINE item == [Top EXCEPT !.env = NextEnv]
  <2>1. item \in Item /\ item.kind = "Loop"
        /\ ~item.unwinding /\ ~item.deferred /\ item.todo = <<>>
    BY <1>1, <1>2, <1>3, NextEnvType DEF Item, TypeInv
  <2>2. Replace(item) /\ NewEnvironment(Owner(Top.env))
    BY <1>4 DEF NextIteration, NewEnclosedEnvironment
  <2>3. EnvStep
    BY <1>1, <2>2, TopEnv, OwnerArgument, NewEnvStep
  <2>4. QED
    BY <1>1, <2>1, <2>2, <2>3, ReplaceCalm DEF Lifetimes
<1>5. CASE ~Top.fresh
  BY <1>1, <1>3, <1>5, SameEnvStep, StillCalm DEF NextIteration
<1>6. QED
  BY <1>4, <1>5

-----------------------------------------------------------------------------
(* Registering a deferred call.                                            *)

LEMMA DeferStatementCleanup ==
  ASSUME TypeInv, CleanupInv, DeferStatement
  PROVE  CleanupInv'
<1> DEFINE owner == Owner(Top.env)
           n == Len(regs) + 1
           r == [owner |-> owner, late |-> owner \in drained, runs |-> 0]
<1>1. /\ stack # <<>> /\ ~Top.unwinding
      /\ regs' = Append(regs, r)
      /\ defers' = [defers EXCEPT ![owner] = Append(@, n)]
      /\ UNCHANGED <<stack, signal, deferOwner, drained, left>>
  BY DEF DeferStatement, Running
<1>2. /\ owner \in DOMAIN deferOwner /\ owner \in DOMAIN defers /\ owner \in Nat
      /\ defers[owner] \in Seq(Nat)
  BY <1>1, TopEnv, OwnerType
<1>3. r \in Registration
  BY <1>2 DEF Registration
<1>3a. r.owner = owner /\ (r.late <=> owner \in drained) /\ r.runs = 0
  OBVIOUS
<1>4. /\ DOMAIN regs' = DOMAIN regs \cup {n} /\ n \notin DOMAIN regs
      /\ \A d \in DOMAIN regs : regs'[d] = regs[d] /\ d < n
      /\ regs'[n] = r
  <2>1. regs \in Seq(Registration)
    BY DEF TypeInv, TypeOK, Registration
  <2>2. /\ regs' \in Seq(Registration) /\ Len(regs') = Len(regs) + 1
        /\ \A d \in 1..Len(regs) : regs'[d] = regs[d]
        /\ regs'[Len(regs) + 1] = r
    BY <1>1, <1>3, <2>1, AppendProperties
  <2>3. DOMAIN regs' = 1..n /\ DOMAIN regs = 1..Len(regs) /\ Len(regs) \in Nat
    BY <2>1, <2>2
  <2>4. QED
    BY <2>2, <2>3
<1>5. /\ DOMAIN defers' = DOMAIN defers
      /\ \A e \in DOMAIN defers : e # owner => defers'[e] = defers[e]
      /\ defers'[owner] = Append(defers[owner], n)
  BY <1>1, <1>2
<1>6. /\ DOMAIN defers'[owner] = DOMAIN defers[owner] \cup {Len(defers[owner]) + 1}
      /\ \A i \in DOMAIN defers[owner] :
           defers'[owner][i] = defers[owner][i] /\ i < Len(defers[owner]) + 1
      /\ defers'[owner][Len(defers[owner]) + 1] = n
  <2>1. n \in Nat
    BY Domains
  <2>2. QED
    BY <1>2, <1>5, <2>1, AppendProperties
<1> HIDE DEF n, r, owner
<1>7. ItemInv'
  <2>1. SUFFICES ASSUME NEW p \in DOMAIN stack PROVE ItemOK(stack[p])'
    BY <1>1 DEF ItemInv
  <2>2. ItemOK(stack[p])
    BY DEF CleanupInv, ItemInv
  <2>3. QED
    BY <1>1, <1>4, <2>2 DEF ItemOK
<1>8. PlaceInv'
  BY <1>1 DEF CleanupInv, PlaceInv, Top
<1>9. QueueInv'
  <2>1. SUFFICES ASSUME NEW e \in DOMAIN defers PROVE QueueOK(e)'
    BY <1>5 DEF QueueInv
  <2>2. QueueOK(e)
    BY DEF CleanupInv, QueueInv
  <2>3. CASE e # owner
    BY <1>1, <1>4, <1>5, <2>2, <2>3 DEF QueueOK
  <2>4. CASE e = owner
    <3>1. \A i \in DOMAIN defers[owner] : defers[owner][i] \in DOMAIN regs
      BY <2>2, <2>4 DEF QueueOK
    <3>2. Increasing(defers'[owner])
      <4>1. SUFFICES ASSUME NEW i \in DOMAIN defers'[owner],
                            NEW j \in DOMAIN defers'[owner], i < j
                     PROVE  defers'[owner][i] < defers'[owner][j]
        BY DEF Increasing
      <4>2. i \in DOMAIN defers[owner]
        BY <1>2, <1>6, <4>1
      <4>3. CASE j \in DOMAIN defers[owner]
        BY <1>6, <2>2, <2>4, <4>1, <4>2, <4>3 DEF QueueOK, Increasing
      <4>4. CASE j = Len(defers[owner]) + 1
        BY <1>4, <1>6, <3>1, <4>2, <4>4
      <4>5. QED
        BY <1>6, <4>3, <4>4
    <3>3. ASSUME NEW i \in DOMAIN defers'[owner]
          PROVE  LET d == defers'[owner][i] IN
                   /\ d \in DOMAIN regs' /\ regs'[d].owner = owner
                   /\ regs'[d].late <=> owner \in drained
                   /\ regs'[d].runs = 0
      <4>1. CASE i \in DOMAIN defers[owner]
        BY <1>4, <1>6, <2>2, <2>4, <4>1 DEF QueueOK
      <4>2. CASE i = Len(defers[owner]) + 1
        BY <1>3a, <1>4, <1>6, <4>2
      <4>3. QED
        BY <1>6, <4>1, <4>2
    <3>4. QED
      BY <1>1, <2>4, <3>2, <3>3 DEF QueueOK
  <2>5. QED
    BY <2>3, <2>4
<1>10. RegInv'
  <2>1. SUFFICES ASSUME NEW d \in DOMAIN regs' PROVE RegOK(d)'
    BY DEF RegInv
  <2>2. CASE d \in DOMAIN regs
    <3>1. RegOK(d) /\ regs'[d] = regs[d]
      BY <1>4, <2>2 DEF CleanupInv, RegInv
    <3>2. Queued(d) => Queued(d)'
      BY <1>1, <1>5, <1>6, <3>1, Domains DEF Queued, RegOK
    <3>3. Taken(d) => Taken(d)'
      BY <1>1, <3>1 DEF Taken
    <3>4. QED
      BY <1>1, <3>1, <3>2, <3>3 DEF RegOK
  <2>3. CASE d = n
    <3>1. regs'[d].runs = 0 /\ regs'[d].owner = owner
          /\ (regs'[d].late <=> owner \in drained)
      BY <1>3a, <1>4, <2>3
    <3>2. owner \notin drained => Queued(d)'
      BY <1>1, <1>6, <2>3, <3>1 DEF Queued
    <3>3. QED
      BY <1>1, <1>2, <3>1, <3>2 DEF RegOK
  <2>4. QED
    BY <1>4, <2>2, <2>3
<1>11. HistoryInv'
  BY <1>1 DEF CleanupInv, HistoryInv
<1>12. QED
  BY <1>7, <1>8, <1>9, <1>10, <1>11 DEF CleanupInv

-----------------------------------------------------------------------------
(* Taking the deferred calls.                                              *)

LEMMA TakeDefersCleanup ==
  ASSUME TypeInv, CleanupInv, TakeDefers
  PROVE  CleanupInv'
<1> DEFINE env == Top.env
           item == [Top EXCEPT !.unwinding = TRUE, !.todo = defers[env],
                               !.held = signal]
<1>1. /\ stack # <<>> /\ Top.kind \in Lifetimes /\ ~Top.unwinding
  <2>1. stack # <<>> /\ Top.kind \in Lifetimes
    BY DEF TakeDefers, Running, Arriving
  <2>2. QED
    BY <2>1 DEF TakeDefers, Running, Arriving, CleanupInv, PlaceInv
<1>2. Top \in Item /\ ItemOK(Top) /\ Top = stack[Len(stack)]
  BY <1>1, TopType, Domains DEF Top, CleanupInv, ItemInv, TypeInv
<1>3. env \in DOMAIN deferOwner /\ deferOwner[env] = 0 /\ Owner(env) = env
      /\ env \notin drained /\ env \notin left
      /\ env \in DOMAIN defers /\ defers[env] \in Seq(Nat)
  BY <1>1, <1>2, TopEnv, OwnerType DEF ItemOK, Owner
<1>4. /\ Replace(item) /\ signal' = Run
      /\ defers' = [defers EXCEPT ![env] = <<>>]
      /\ drained' = drained \cup {env}
      /\ UNCHANGED <<deferOwner, regs, left>>
  BY <1>3 DEF TakeDefers
<1>5. /\ item \in Item /\ item.kind = Top.kind /\ item.env = env
      /\ item.unwinding = TRUE /\ item.deferred = Top.deferred
      /\ item.todo = defers[env]
  BY <1>2, <1>3 DEF Item, TypeInv, TypeOK
<1> HIDE DEF item
<1>6. /\ DOMAIN stack' = DOMAIN stack /\ Len(stack') = Len(stack)
      /\ DOMAIN stack = 1..Len(stack) /\ Len(stack) \in Nat
      /\ \A p \in DOMAIN stack : p # Len(stack) => stack'[p] = stack[p]
      /\ stack'[Len(stack)] = item
      /\ Len(stack) \in DOMAIN stack
  <2>1. /\ stack' \in Seq(Item) /\ Len(stack') = Len(stack)
        /\ \A p \in 1..Len(stack)-1 : stack'[p] = stack[p]
        /\ stack'[Len(stack)] = item
    BY <1>1, <1>4, <1>5, ReplaceType DEF TypeInv
  <2>2. QED
    BY <1>1, <2>1, Domains
<1>7. \A p \in DOMAIN stack : p # Len(stack) /\ stack[p].kind \in Lifetimes
                              => stack[p].env # env
  BY <1>1, <1>2, <1>6 DEF CleanupInv, PlaceInv
<1>8. /\ DOMAIN defers' = DOMAIN defers /\ defers'[env] = <<>>
      /\ \A e \in DOMAIN defers : e # env => defers'[e] = defers[e]
  BY <1>3, <1>4
<1>9. QueueOK(env)
  BY <1>3 DEF CleanupInv, QueueInv
<1> HIDE DEF env
<1>10. ItemInv'
  <2>1. SUFFICES ASSUME NEW p \in DOMAIN stack PROVE ItemOK(stack[p])'
    BY <1>6 DEF ItemInv
  <2>2. CASE p # Len(stack)
    <3>1. ItemOK(stack[p]) /\ stack'[p] = stack[p]
      BY <1>6, <2>2 DEF CleanupInv, ItemInv
    <3>2. QED
      BY <1>4, <1>7, <2>2, <3>1 DEF ItemOK
  <2>3. CASE p = Len(stack)
    <3>1. stack'[p] = item
      BY <1>6, <2>3
    <3>2. /\ item.unwinding => item.kind \in Lifetimes
          /\ item.deferred => item.kind = "Call"
          /\ deferOwner'[item.env] = 0 /\ item.env \notin left'
          /\ item.unwinding <=> item.env \in drained'
      BY <1>1, <1>2, <1>3, <1>4, <1>5 DEF ItemOK
    <3>3. Increasing(item.todo)
      BY <1>5, <1>9 DEF QueueOK
    <3>4. \A i \in DOMAIN item.todo :
            /\ item.todo[i] \in DOMAIN regs'
            /\ regs'[item.todo[i]].owner = item.env
            /\ ~regs'[item.todo[i]].late
            /\ regs'[item.todo[i]].runs = 0
      BY <1>3, <1>4, <1>5, <1>9 DEF QueueOK
    <3>5. QED
      BY <1>5, <3>1, <3>2, <3>3, <3>4 DEF ItemOK
  <2>4. QED
    BY <2>2, <2>3
<1>11. PlaceInv'
  <2>1. ASSUME NEW p \in DOMAIN stack
        PROVE  /\ stack'[p].kind = stack[p].kind /\ stack'[p].env = stack[p].env
               /\ stack'[p].deferred = stack[p].deferred
               /\ p # Len(stack) => stack'[p].unwinding = stack[p].unwinding
    BY <1>2, <1>5, <1>6 DEF env
  <2>2. \A p \in DOMAIN stack' :
          p > 1 => (stack'[p].deferred <=> stack'[p - 1].unwinding)
    BY <1>6, <2>1 DEF CleanupInv, PlaceInv
  <2>3. signal'.kind = "run"
    BY <1>4 DEF Run, Plain
  <2>4. QED
    BY <1>6, <2>1, <2>2, <2>3 DEF CleanupInv, PlaceInv
<1>12. QueueInv'
  <2>1. SUFFICES ASSUME NEW e \in DOMAIN defers PROVE QueueOK(e)'
    BY <1>8 DEF QueueInv
  <2>2. CASE e = env
    BY <1>8, <2>2 DEF QueueOK, Increasing
  <2>3. CASE e # env
    BY <1>4, <1>8, <2>3 DEF CleanupInv, QueueInv, QueueOK
  <2>4. QED
    BY <2>2, <2>3
<1>13. RegInv'
  <2>1. SUFFICES ASSUME NEW d \in DOMAIN regs PROVE RegOK(d)'
    BY <1>4 DEF RegInv
  <2>2. RegOK(d)
    BY DEF CleanupInv, RegInv
  <2>3. ASSUME Queued(d) PROVE Queued(d)' \/ Taken(d)'
    <3>1. CASE regs[d].owner = env
      <4>1. PICK i \in DOMAIN defers[env] : defers[env][i] = d
        BY <2>3, <3>1 DEF Queued
      <4>2. /\ stack'[Len(stack)].kind \in Lifetimes
            /\ stack'[Len(stack)].env = regs'[d].owner
            /\ stack'[Len(stack)].todo = defers[env]
        BY <1>1, <1>4, <1>5, <1>6, <3>1
      <4>3. QED
        BY <1>6, <4>1, <4>2 DEF Taken
    <3>2. CASE regs[d].owner # env
      BY <1>4, <1>8, <2>2, <2>3, <3>2, Domains DEF Queued, RegOK
    <3>3. QED
      BY <3>1, <3>2
  <2>4. ASSUME Taken(d) PROVE Taken(d)'
    <3>1. PICK p \in DOMAIN stack :
            /\ stack[p].kind \in Lifetimes /\ stack[p].env = regs[d].owner
            /\ \E i \in DOMAIN stack[p].todo : stack[p].todo[i] = d
      BY <2>4 DEF Taken
    <3>2. p # Len(stack)
      BY <1>1, <1>2, <3>1 DEF ItemOK
    <3>3. QED
      BY <1>4, <1>6, <3>1, <3>2 DEF Taken
  <2>5. QED
    BY <1>4, <2>2, <2>3, <2>4 DEF RegOK
<1>14. HistoryInv'
  BY <1>3, <1>4 DEF CleanupInv, HistoryInv
<1>15. QED
  BY <1>10, <1>11, <1>12, <1>13, <1>14 DEF CleanupInv

-----------------------------------------------------------------------------
(* Making the last taken call.                                             *)

(* What both kinds of deferred call do to the invocation that unwinds, and *)
(* what a Silver one adds above it.                                        *)
MakesLast ==
  /\ InvokeLast
  /\ EnvStep
  /\ \A p \in DOMAIN stack : p \in DOMAIN stack'
  /\ \A p \in DOMAIN stack : p # Len(stack) => stack'[p] = stack[p]
  /\ LET item == stack'[Len(stack)] IN
       /\ item.kind = Top.kind /\ item.env = Top.env
       /\ item.unwinding = Top.unwinding /\ item.deferred = Top.deferred
       /\ item.todo = Front(Top.todo)
  /\ \A p \in DOMAIN stack' : p \notin DOMAIN stack =>
       /\ p = Len(stack) + 1
       /\ LET call == stack'[p] IN
            /\ call.kind = "Call" /\ call.deferred /\ ~call.unwinding
            /\ call.todo = <<>>
            /\ call.env \in DOMAIN deferOwner'
            /\ call.env \notin DOMAIN deferOwner /\ deferOwner'[call.env] = 0
  /\ stack'[Len(stack')].unwinding => signal'.kind = "run"

LEMMA MadeLast ==
  ASSUME TypeInv, CleanupInv, InvokeLast
  PROVE  LET k == Last(Top.todo) IN
         /\ stack # <<>> /\ Top \in Item /\ ItemOK(Top)
         /\ Top = stack[Len(stack)] /\ Len(stack) \in DOMAIN stack
         /\ Top.unwinding /\ Top.kind \in Lifetimes /\ Top.env \in drained
         /\ k \in DOMAIN regs /\ regs[k].owner = Top.env
         /\ ~regs[k].late /\ regs[k].runs = 0
         /\ DOMAIN regs' = DOMAIN regs
         /\ \A d \in DOMAIN regs : d # k => regs'[d] = regs[d]
         /\ regs'[k].owner = regs[k].owner /\ regs'[k].late = regs[k].late
         /\ regs'[k].runs = 1
         /\ DOMAIN Front(Top.todo) \subseteq DOMAIN Top.todo
         /\ \A i \in DOMAIN Front(Top.todo) :
              Front(Top.todo)[i] = Top.todo[i] /\ Top.todo[i] # k
         /\ \A i \in DOMAIN Top.todo :
              Top.todo[i] # k => i \in DOMAIN Front(Top.todo)
<1> DEFINE k == Last(Top.todo)
<1>1. /\ stack # <<>> /\ Top.todo # <<>> /\ Top.unwinding
      /\ regs' = [regs EXCEPT ![k].runs = @ + 1]
  BY DEF InvokeLast, Unwinding, LastDeferred
<1>2. /\ Top \in Item /\ ItemOK(Top) /\ Top = stack[Len(stack)]
      /\ Len(stack) \in DOMAIN stack
  BY <1>1, TopType, Domains DEF Top, CleanupInv, ItemInv, TypeInv
<1>3. Top.kind \in Lifetimes /\ Top.env \in drained
  BY <1>1, <1>2 DEF ItemOK
<1>4. Top.todo \in Seq(Nat)
  BY <1>2 DEF Item
<1>5. /\ DOMAIN Top.todo = 1..Len(Top.todo) /\ Len(Top.todo) \in Nat \ {0}
      /\ DOMAIN Front(Top.todo) = 1..Len(Top.todo)-1
      /\ \A i \in 1..Len(Top.todo)-1 : Front(Top.todo)[i] = Top.todo[i]
      /\ k = Top.todo[Len(Top.todo)]
  <2>1. /\ Front(Top.todo) \in Seq(Nat)
        /\ Len(Front(Top.todo)) = Len(Top.todo) - 1
        /\ \A i \in 1..Len(Top.todo)-1 : Front(Top.todo)[i] = Top.todo[i]
    BY <1>1, <1>4, FrontType
  <2>2. DOMAIN Front(Top.todo) = 1..Len(Top.todo)-1
    BY <2>1, LenProperties
  <2>3. DOMAIN Top.todo = 1..Len(Top.todo) /\ Len(Top.todo) \in Nat \ {0}
    BY <1>1, <1>4, EmptySeq, LenProperties
  <2>4. QED
    BY <2>1, <2>2, <2>3 DEF Last
<1>6. /\ k \in DOMAIN regs /\ regs[k].owner = Top.env
      /\ ~regs[k].late /\ regs[k].runs = 0
  BY <1>2, <1>5 DEF ItemOK
<1>7. \A i \in 1..Len(Top.todo)-1 : Top.todo[i] # k
  <2>1. \A i \in DOMAIN Top.todo : Top.todo[i] \in Nat
    BY <1>4
  <2>2. ASSUME NEW i \in 1..Len(Top.todo)-1
        PROVE  Top.todo[i] # k
    <3>1. /\ i \in DOMAIN Top.todo /\ Len(Top.todo) \in DOMAIN Top.todo
          /\ i < Len(Top.todo)
      BY <1>5
    <3>2. Top.todo[i] < Top.todo[Len(Top.todo)]
      BY <1>2, <3>1 DEF ItemOK, Increasing
    <3>3. Top.todo[i] \in Nat /\ Top.todo[Len(Top.todo)] \in Nat
      BY <2>1, <3>1
    <3>4. QED
      BY <1>5, <3>2, <3>3
  <2>3. QED
    BY <2>2
<1>8. /\ DOMAIN regs' = DOMAIN regs
      /\ \A d \in DOMAIN regs : d # k => regs'[d] = regs[d]
  BY <1>1
<1>9. regs'[k].owner = regs[k].owner /\ regs'[k].late = regs[k].late
      /\ regs'[k].runs = 1
  <2>1. regs[k] \in Registration /\ regs'[k] = [regs[k] EXCEPT !.runs = @ + 1]
    BY <1>1, <1>6, Domains
  <2>2. QED
    BY <1>6, <2>1 DEF Registration
<1>10. QED
  BY <1>1, <1>2, <1>3, <1>5, <1>6, <1>7, <1>8, <1>9

LEMMA MakesLastCleanup ==
  ASSUME TypeInv, TypeInv', CleanupInv, MakesLast
  PROVE  CleanupInv'
<1> DEFINE k == Last(Top.todo)
           top == Len(stack)
<1>1. InvokeLast /\ EnvStep
  BY DEF MakesLast
<1>2. UNCHANGED <<signal, drained, left>>
  BY <1>1 DEF InvokeLast
<1>3. /\ stack # <<>> /\ Top \in Item /\ ItemOK(Top)
      /\ Top = stack[top] /\ top \in DOMAIN stack
      /\ Top.unwinding /\ Top.kind \in Lifetimes /\ Top.env \in drained
  BY <1>1, MadeLast
<1>4. /\ k \in DOMAIN regs /\ regs[k].owner = Top.env
      /\ ~regs[k].late /\ regs[k].runs = 0
      /\ DOMAIN regs' = DOMAIN regs
      /\ \A d \in DOMAIN regs : d # k => regs'[d] = regs[d]
      /\ regs'[k].owner = regs[k].owner /\ regs'[k].late = regs[k].late
      /\ regs'[k].runs = 1
  BY <1>1, MadeLast
<1>5. /\ DOMAIN Front(Top.todo) \subseteq DOMAIN Top.todo
      /\ \A i \in DOMAIN Front(Top.todo) :
           Front(Top.todo)[i] = Top.todo[i] /\ Top.todo[i] # k
      /\ \A i \in DOMAIN Top.todo :
           Top.todo[i] # k => i \in DOMAIN Front(Top.todo)
  BY <1>1, MadeLast
<1> HIDE DEF k
<1>6. \A p \in DOMAIN stack : ItemOK(stack[p])
      /\ stack[p].env \in DOMAIN deferOwner
  BY DEF CleanupInv, ItemInv, TypeInv, EnvInv
<1>7. /\ DOMAIN stack = 1..top /\ top \in Nat
      /\ DOMAIN stack' = 1..Len(stack') /\ Len(stack') \in Nat
  BY Domains DEF TypeInv, TypeOK
<1>8. \A p \in DOMAIN stack : p # top /\ stack[p].kind \in Lifetimes
                              => stack[p].env # Top.env
  BY <1>3 DEF CleanupInv, PlaceInv
<1>9. \A p \in DOMAIN stack : p # top => stack'[p] = stack[p]
  BY DEF MakesLast
<1>10. LET item == stack'[top] IN
         /\ item.kind = Top.kind /\ item.env = Top.env
         /\ item.unwinding = Top.unwinding /\ item.deferred = Top.deferred
         /\ item.todo = Front(Top.todo)
  BY DEF MakesLast
<1>11. ASSUME NEW p \in DOMAIN stack', p \notin DOMAIN stack
       PROVE  /\ p = top + 1
              /\ stack'[p].kind = "Call" /\ stack'[p].deferred
              /\ ~stack'[p].unwinding /\ stack'[p].todo = <<>>
              /\ stack'[p].env \in DOMAIN deferOwner'
              /\ stack'[p].env \notin DOMAIN deferOwner
              /\ deferOwner'[stack'[p].env] = 0
  BY <1>11 DEF MakesLast
<1>12. ItemInv'
  <2>1. SUFFICES ASSUME NEW p \in DOMAIN stack' PROVE ItemOK(stack[p])'
    BY DEF ItemInv
  <2>2. CASE p \in DOMAIN stack /\ p # top
    <3>1. ItemOK(stack[p]) /\ stack'[p] = stack[p]
      BY <1>6, <1>9, <2>2
    <3>2. stack[p].kind \in Lifetimes => deferOwner'[stack[p].env] = 0
      BY <1>1, <1>6, <2>2, <3>1 DEF EnvStep, ItemOK
    <3>3. \A i \in DOMAIN stack[p].todo : stack[p].todo[i] # k
      BY <1>4, <1>8, <2>2, <3>1 DEF ItemOK
    <3>4. QED
      BY <1>2, <1>4, <3>1, <3>2, <3>3 DEF ItemOK
  <2>3. CASE p = top
    <3> DEFINE item == stack'[top]
    <3>1. /\ item.kind = Top.kind /\ item.env = Top.env
          /\ item.unwinding = Top.unwinding /\ item.deferred = Top.deferred
          /\ item.todo = Front(Top.todo)
      BY <1>10
    <3>2. deferOwner'[Top.env] = 0
      BY <1>1, <1>3, <1>6 DEF EnvStep, ItemOK
    <3>3. Increasing(item.todo)
      BY <1>3, <1>5, <3>1 DEF ItemOK, Increasing
    <3>4. \A i \in DOMAIN item.todo :
            /\ item.todo[i] \in DOMAIN regs'
            /\ regs'[item.todo[i]].owner = item.env
            /\ ~regs'[item.todo[i]].late
            /\ regs'[item.todo[i]].runs = 0
      BY <1>3, <1>4, <1>5, <3>1 DEF ItemOK
    <3> HIDE DEF item
    <3>5. QED
      BY <2>3, <1>2, <1>3, <3>1, <3>2, <3>3, <3>4 DEF ItemOK, item
  <2>4. CASE p \notin DOMAIN stack
    <3>1. stack'[p].env \notin drained /\ stack'[p].env \notin left
      BY <1>11, <2>4 DEF CleanupInv, HistoryInv
    <3>2. QED
      BY <1>2, <1>11, <2>4, <3>1 DEF ItemOK, Increasing, Lifetimes
  <2>5. QED
    BY <2>2, <2>3, <2>4
<1>13. PlaceInv'
  <2>1. ASSUME NEW p \in DOMAIN stack
        PROVE  /\ stack'[p].kind = stack[p].kind /\ stack'[p].env = stack[p].env
               /\ stack'[p].deferred = stack[p].deferred
               /\ stack'[p].unwinding = stack[p].unwinding
    BY <1>3, <1>9, <1>10
  <2>2. ASSUME NEW p \in DOMAIN stack', NEW q \in DOMAIN stack', p # q,
               stack'[p].kind \in Lifetimes, stack'[q].kind \in Lifetimes
        PROVE  stack'[p].env # stack'[q].env
    <3>1. CASE p \in DOMAIN stack /\ q \in DOMAIN stack
      BY <2>1, <2>2, <3>1 DEF CleanupInv, PlaceInv
    <3>2. CASE p \in DOMAIN stack /\ q \notin DOMAIN stack
      BY <1>6, <1>11, <2>1, <3>2
    <3>3. CASE p \notin DOMAIN stack /\ q \in DOMAIN stack
      BY <1>6, <1>11, <2>1, <3>3
    <3>4. CASE p \notin DOMAIN stack /\ q \notin DOMAIN stack
      BY <1>11, <2>2, <3>4
    <3>5. QED
      BY <3>1, <3>2, <3>3, <3>4
  <2>3. ASSUME NEW p \in DOMAIN stack', p > 1
        PROVE  stack'[p].deferred <=> stack'[p - 1].unwinding
    <3>1. CASE p \in DOMAIN stack
      <4>1. p - 1 \in DOMAIN stack
        BY <1>7, <2>3, <3>1
      <4>2. QED
        BY <2>1, <2>3, <3>1, <4>1 DEF CleanupInv, PlaceInv
    <3>2. CASE p \notin DOMAIN stack
      <4>1. p - 1 = top
        BY <1>7, <1>11, <3>2
      <4>2. QED
        BY <1>3, <1>11, <2>1, <3>2, <4>1
    <3>3. QED
      BY <3>1, <3>2
  <2>4. stack'[Len(stack')].unwinding => signal'.kind = "run"
    BY DEF MakesLast
  <2>5. QED
    BY <2>2, <2>3, <2>4 DEF PlaceInv, Top
<1>14. QueueInv'
  <2>1. SUFFICES ASSUME NEW e \in DOMAIN defers' PROVE QueueOK(e)'
    BY DEF QueueInv
  <2>2. e \in DOMAIN deferOwner'
    BY DEF TypeInv, TypeOK
  <2>3. CASE e \in DOMAIN deferOwner
    <3>1. defers'[e] = defers[e] /\ QueueOK(e)
      BY <1>1, <2>3, Domains DEF EnvStep, CleanupInv, QueueInv
    <3>2. \A i \in DOMAIN defers[e] : defers[e][i] # k
      BY <1>3, <1>4, <3>1 DEF QueueOK
    <3>3. QED
      BY <1>2, <1>4, <3>1, <3>2 DEF QueueOK
  <2>4. CASE e \notin DOMAIN deferOwner
    <3>1. defers'[e] = <<>>
      BY <1>1, <2>2, <2>4 DEF EnvStep
    <3>2. QED
      BY <3>1 DEF QueueOK, Increasing
  <2>5. QED
    BY <2>3, <2>4
<1>15. RegInv'
  <2>1. SUFFICES ASSUME NEW d \in DOMAIN regs PROVE RegOK(d)'
    BY <1>4 DEF RegInv
  <2>2. RegOK(d) /\ regs[d].owner \in DOMAIN deferOwner
    BY DEF CleanupInv, RegInv, RegOK
  <2>3. regs[d].owner \in DOMAIN deferOwner'
        /\ defers'[regs[d].owner] = defers[regs[d].owner]
    BY <1>1, <2>2 DEF EnvStep
  <2>4. CASE d = k
    BY <1>4, <2>3, <2>4 DEF RegOK
  <2>5. CASE d # k
    <3>1. regs'[d] = regs[d]
      BY <1>4, <2>5
    <3>2. Queued(d) => Queued(d)'
      BY <1>2, <2>3, <3>1 DEF Queued
    <3>3. ASSUME Taken(d) PROVE Taken(d)'
      <4>1. PICK p \in DOMAIN stack :
              /\ stack[p].kind \in Lifetimes /\ stack[p].env = regs[d].owner
              /\ \E i \in DOMAIN stack[p].todo : stack[p].todo[i] = d
        BY <3>3 DEF Taken
      <4>2. p \in DOMAIN stack'
        BY DEF MakesLast
      <4>3. CASE p # top
        BY <1>9, <3>1, <4>1, <4>2, <4>3 DEF Taken
      <4>4. CASE p = top
        <5>1. PICK i \in DOMAIN Top.todo : Top.todo[i] = d
          BY <1>3, <4>1, <4>4
        <5>2. i \in DOMAIN Front(Top.todo) /\ Front(Top.todo)[i] = d
          BY <1>5, <2>5, <5>1
        <5>3. QED
          BY <1>3, <1>10, <3>1, <4>1, <4>2, <4>4, <5>2 DEF Taken
      <4>5. QED
        BY <4>3, <4>4
    <3>4. QED
      BY <2>2, <2>3, <3>1, <3>2, <3>3 DEF RegOK
  <2>6. QED
    BY <2>4, <2>5
<1>16. HistoryInv'
  BY <1>1, <1>2 DEF CleanupInv, HistoryInv, EnvStep
<1>17. QED
  BY <1>12, <1>13, <1>14, <1>15, <1>16 DEF CleanupInv

LEMMA RunNativeDeferCleanup ==
  ASSUME TypeInv, TypeInv', CleanupInv, NEW outcome \in AllErrors \cup {None},
         RunNativeDefer(outcome)
  PROVE  CleanupInv'
<1> DEFINE failure == IF outcome = None THEN Top.failure ELSE Fail(outcome)
           item == [Top EXCEPT !.todo = Undrained(@),
                      !.failure = IF outcome = None THEN @ ELSE Fail(outcome)]
<1>1. /\ InvokeLast /\ Replace(item) /\ SameEnvironments /\ signal' = signal
  BY DEF RunNativeDefer, InvokeLast
<1>2. stack # <<>> /\ Top \in Item /\ Top = stack[Len(stack)] /\ Top.unwinding
  BY <1>1, MadeLast
<1>3. failure \in Signal /\ Undrained(Top.todo) \in Seq(Nat)
  BY <1>1, <1>2, FailType, InvokeLastTypes DEF Item, TypeInv
<1>4. /\ item \in Item /\ item.kind = Top.kind /\ item.env = Top.env
      /\ item.unwinding = Top.unwinding /\ item.deferred = Top.deferred
      /\ item.todo = Front(Top.todo)
  BY <1>2, <1>3 DEF Item, Undrained
<1> HIDE DEF item
<1>5. /\ Len(stack') = Len(stack) /\ stack' \in Seq(Item)
      /\ \A p \in 1..Len(stack)-1 : stack'[p] = stack[p]
      /\ stack'[Len(stack)] = item
  BY <1>1, <1>2, <1>4, ReplaceType DEF TypeInv
<1>6. DOMAIN stack' = DOMAIN stack /\ DOMAIN stack = 1..Len(stack)
      /\ Len(stack) \in Nat
  BY <1>5, Domains
<1>7. signal'.kind = "run"
  BY <1>1 DEF InvokeLast, Unwinding
<1>8. MakesLast
  BY <1>1, <1>4, <1>5, <1>6, <1>7, SameEnvStep DEF MakesLast
<1>9. QED
  BY <1>8, MakesLastCleanup

LEMMA RunSilverDeferCleanup ==
  ASSUME TypeInv, TypeInv', CleanupInv, NEW declared \in SUBSET Errors,
         NEW check \in ReturnChecks, RunSilverDefer(declared, check)
  PROVE  CleanupInv'
<1> DEFINE call == [NewItem("Call", NextEnv, Top.level + 1) EXCEPT
                      !.types = declared, !.check = check, !.deferred = TRUE]
           item == [Top EXCEPT !.todo = Undrained(@)]
<1>1. /\ InvokeLast /\ NewEnvironment(0) /\ signal' = signal
  BY DEF RunSilverDefer, InvokeLast, Invoke, NewFunctionEnvironment
<1>2. stack # <<>> /\ Top \in Item /\ Top = stack[Len(stack)] /\ Top.unwinding
  BY <1>1, MadeLast
<1>3. /\ stack' \in Seq(Item) /\ Len(stack') = Len(stack) + 1
      /\ \A p \in 1..Len(stack)-1 : stack'[p] = stack[p]
      /\ stack'[Len(stack)] = item /\ stack'[Len(stack) + 1] = call
  BY RunSilverDeferShape
<1>4. /\ item.kind = Top.kind /\ item.env = Top.env
      /\ item.unwinding = Top.unwinding /\ item.deferred = Top.deferred
      /\ item.todo = Front(Top.todo)
  BY <1>2 DEF Item, Undrained
<1>5. call \in Item /\ call.env = NextEnv
  BY <1>2, CallItemType
<1>6. call.kind = "Call" /\ call.deferred /\ ~call.unwinding /\ call.todo = <<>>
  BY DEF NewItem
<1> HIDE DEF item, call
<1>7. DOMAIN stack' = 1..Len(stack)+1 /\ DOMAIN stack = 1..Len(stack)
      /\ Len(stack) \in Nat
  BY <1>3, Domains
<1>8. EnvStep /\ NextEnv \in DOMAIN deferOwner'
      /\ NextEnv \notin DOMAIN deferOwner /\ deferOwner'[NextEnv] = 0
  BY <1>1, NewEnvStep
<1>9. MakesLast
  <2>1. ASSUME NEW p \in DOMAIN stack', p \notin DOMAIN stack
        PROVE  p = Len(stack) + 1 /\ stack'[p] = call
    BY <1>3, <1>7, <2>1
  <2>2. signal'.kind = "run"
    BY <1>1 DEF InvokeLast, Unwinding
  <2>3. QED
    BY <1>1, <1>3, <1>4, <1>5, <1>6, <1>7, <1>8, <2>1, <2>2 DEF MakesLast
<1>10. QED
  BY <1>9, MakesLastCleanup

-----------------------------------------------------------------------------
(* Leaving the invocation once every taken call has been made.             *)

(* What the ways of leaving share: the invocation on top goes, and those   *)
(* below it keep everything but a failure handed to them.                  *)
LeavesTop ==
  /\ Unwinding /\ Exhausted
  /\ left' = left \cup {Top.env}
  /\ UNCHANGED <<deferOwner, defers, regs, drained>>
  /\ DOMAIN stack' = 1..Len(stack)-1
  /\ \A p \in DOMAIN stack' :
       /\ stack'[p].kind = stack[p].kind /\ stack'[p].env = stack[p].env
       /\ stack'[p].unwinding = stack[p].unwinding
       /\ stack'[p].deferred = stack[p].deferred
       /\ stack'[p].todo = stack[p].todo
  /\ stack' # <<>> /\ stack'[Len(stack')].unwinding => signal'.kind = "run"

LEMMA LeavesTopCleanup ==
  ASSUME TypeInv, CleanupInv, LeavesTop
  PROVE  CleanupInv'
<1>1. /\ stack # <<>> /\ Top.unwinding /\ Top.todo = <<>>
      /\ left' = left \cup {Top.env}
      /\ UNCHANGED <<deferOwner, defers, regs, drained>>
      /\ DOMAIN stack' = 1..Len(stack)-1
  BY DEF LeavesTop, Unwinding, Exhausted
<1>2. ASSUME NEW p \in DOMAIN stack'
      PROVE  /\ stack'[p].kind = stack[p].kind /\ stack'[p].env = stack[p].env
             /\ stack'[p].unwinding = stack[p].unwinding
             /\ stack'[p].deferred = stack[p].deferred
             /\ stack'[p].todo = stack[p].todo
  BY DEF LeavesTop
<1>3. /\ DOMAIN stack = 1..Len(stack) /\ Len(stack) \in Nat
      /\ Len(stack) \in DOMAIN stack
  BY <1>1, Domains
<1>4. ItemOK(Top) /\ Top = stack[Len(stack)]
  BY <1>3 DEF Top, CleanupInv, ItemInv
<1>5. Top.kind \in Lifetimes /\ Top.env \in drained
  BY <1>1, <1>4 DEF ItemOK
<1>6. ASSUME NEW p \in DOMAIN stack'
      PROVE  /\ p \in DOMAIN stack /\ p # Len(stack) /\ ItemOK(stack[p])
             /\ stack[p].kind \in Lifetimes => stack[p].env # Top.env
  <2>1. p \in DOMAIN stack /\ p # Len(stack)
    BY <1>1, <1>3
  <2>2. QED
    BY <1>3, <1>4, <1>5, <2>1 DEF CleanupInv, ItemInv, PlaceInv
<1>7. ItemInv'
  <2>1. SUFFICES ASSUME NEW p \in DOMAIN stack' PROVE ItemOK(stack[p])'
    BY DEF ItemInv
  <2>2. ItemOK(stack[p])
        /\ (stack[p].kind \in Lifetimes => stack[p].env # Top.env)
    BY <1>6
  <2>3. stack[p].kind \in Lifetimes => stack[p].env \notin left'
    BY <1>1, <2>2 DEF ItemOK
  <2>4. stack[p].kind \in Lifetimes \/ stack[p].todo = <<>>
    BY <2>2 DEF ItemOK
  <2>5. QED
    BY <1>1, <1>2, <2>2, <2>3, <2>4 DEF ItemOK
<1>8. PlaceInv'
  <2>1. ASSUME NEW p \in DOMAIN stack', p > 1
        PROVE  stack'[p].deferred <=> stack'[p - 1].unwinding
    <3>1. p - 1 \in DOMAIN stack' /\ p \in DOMAIN stack
      BY <1>1, <1>3, <2>1
    <3>2. QED
      BY <1>2, <2>1, <3>1 DEF CleanupInv, PlaceInv
  <2>2. \A p, q \in DOMAIN stack' :
          p # q /\ stack'[p].kind \in Lifetimes /\ stack'[q].kind \in Lifetimes
          => stack'[p].env # stack'[q].env
    BY <1>2, <1>6 DEF CleanupInv, PlaceInv
  <2>3. QED
    BY <2>1, <2>2 DEF PlaceInv, LeavesTop, Top
<1>9. QueueInv'
  BY <1>1 DEF CleanupInv, QueueInv, QueueOK
<1>10. RegInv'
  <2>1. SUFFICES ASSUME NEW d \in DOMAIN regs PROVE RegOK(d)'
    BY <1>1 DEF RegInv
  <2>2. RegOK(d)
    BY DEF CleanupInv, RegInv
  <2>3. Queued(d) => Queued(d)'
    BY <1>1 DEF Queued
  <2>4. ASSUME Taken(d) PROVE Taken(d)'
    <3>1. PICK p \in DOMAIN stack :
            /\ stack[p].kind \in Lifetimes /\ stack[p].env = regs[d].owner
            /\ \E i \in DOMAIN stack[p].todo : stack[p].todo[i] = d
      BY <2>4 DEF Taken
    <3>2. p \in DOMAIN stack'
      BY <1>1, <1>3, <1>4, <3>1
    <3>3. QED
      BY <1>1, <1>2, <3>1, <3>2 DEF Taken
  <2>5. QED
    BY <1>1, <2>2, <2>3, <2>4 DEF RegOK
<1>11. HistoryInv'
  BY <1>1, <1>5 DEF CleanupInv, HistoryInv
<1>12. QED
  BY <1>7, <1>8, <1>9, <1>10, <1>11 DEF CleanupInv

LEMMA FinishLeaves ==
  ASSUME TypeInv, CleanupInv, NEW results \in SUBSET Signal, Finish(results)
  PROVE  LeavesTop
<1>1. /\ stack # <<>> /\ Len(stack) > 1 /\ Unwinding /\ Exhausted
      /\ left' = left \cup {Top.env}
      /\ UNCHANGED <<deferOwner, defers, regs, drained>>
  BY DEF Finish, Unwinding, SameEnvironments
<1> DEFINE caller == [fn |-> Current(contexts'), level |-> Top.level - 1]
           below  == Last(Under)
<1>2. PICK result \in results :
        LET answer == AtCaller(result, caller)
        IN IF Top.deferred
             THEN /\ stack' = Append(Front(Under),
                        IF answer.kind = "error"
                          THEN [below EXCEPT !.failure = answer] ELSE below)
                  /\ signal' = Run
             ELSE Leave(answer)
  BY DEF Finish
<1> DEFINE answer == AtCaller(result, caller)
           item == IF answer.kind = "error"
                     THEN [below EXCEPT !.failure = answer] ELSE below
<1>3. /\ stack \in Seq(Item) /\ Len(stack) \in Nat
      /\ DOMAIN stack = 1..Len(stack) /\ Len(stack) \in DOMAIN stack
  BY <1>1, Domains DEF TypeInv, TypeOK
<1>4. /\ Under \in Seq(Item) /\ Len(Under) = Len(stack) - 1
      /\ \A p \in 1..Len(stack)-1 : Under[p] = stack[p]
  BY <1>1, <1>3, FrontType DEF Under
<1>5. Under # <<>> /\ Last(Under) = stack[Len(stack)-1] /\ Last(Under) \in Item
  BY <1>1, <1>3, <1>4, FrontType, SMTT(30) DEF Last
<1>6. CASE ~Top.deferred
  <2>1. stack' = Under
    BY <1>2, <1>6 DEF Leave
  <2>2. DOMAIN stack' = 1..Len(stack)-1
    BY <1>4, <2>1, LenProperties
  <2>3. Len(stack') = Len(stack) - 1 /\ Len(stack) - 1 \in 1..Len(stack)-1
    <3>1. Len(stack') = Len(stack) - 1
      BY <1>4, <2>1
    <3>2. Len(stack) - 1 \in 1..Len(stack)-1
      BY <1>1, <1>3
    <3>3. QED
      BY <3>1, <3>2
  <2>4. ~stack[Len(stack) - 1].unwinding
    BY <1>1, <1>3, <1>6 DEF CleanupInv, PlaceInv, Top
  <2>5. QED
    BY <1>1, <1>4, <2>1, <2>2, <2>3, <2>4 DEF LeavesTop
<1>7. CASE Top.deferred
  <2>1. stack' = Append(Front(Under), item) /\ signal' = Run
    BY <1>2, <1>7
  <2>2. /\ item.kind = below.kind /\ item.env = below.env
        /\ item.unwinding = below.unwinding /\ item.deferred = below.deferred
        /\ item.todo = below.todo
    BY <1>5 DEF Item
  <2> HIDE DEF item
  <2>3. /\ Front(Under) \in Seq(Item)
        /\ Len(Front(Under)) = Len(stack) - 2
        /\ \A p \in 1..Len(stack)-2 : Front(Under)[p] = stack[p]
    <3>1. /\ Front(Under) \in Seq(Item) /\ Len(Front(Under)) = Len(Under) - 1
          /\ \A p \in 1..Len(Under)-1 : Front(Under)[p] = Under[p]
      BY <1>4, <1>5, FrontType
    <3>2. /\ Len(Under) - 1 = Len(stack) - 2
          /\ 1..Len(stack)-2 \subseteq 1..Len(stack)-1
      BY <1>3, <1>4
    <3>3. QED
      BY <1>4, <3>1, <3>2
  <2> DEFINE rest == Front(Under)
  <2>4. /\ DOMAIN stack' = 1..Len(rest)+1
        /\ \A p \in 1..Len(rest) : stack'[p] = rest[p]
        /\ stack'[Len(rest) + 1] = item
    <3> HIDE DEF rest
    <3>1. rest \in Seq(Item) /\ stack' = Append(rest, item)
      BY <2>1, <2>3 DEF rest
    <3>2. QED
      BY <3>1
  <2>5. /\ DOMAIN stack' = 1..Len(stack)-1
        /\ \A p \in 1..Len(stack)-2 : stack'[p] = stack[p]
        /\ stack'[Len(stack)-1] = item
    BY <1>1, <1>3, <2>3, <2>4
  <2>6. below = stack[Len(stack)-1]
    BY <1>5
  <2>7. ASSUME NEW p \in DOMAIN stack'
        PROVE  /\ stack'[p].kind = stack[p].kind /\ stack'[p].env = stack[p].env
               /\ stack'[p].unwinding = stack[p].unwinding
               /\ stack'[p].deferred = stack[p].deferred
               /\ stack'[p].todo = stack[p].todo
    <3>1. CASE p \in 1..Len(stack)-2
      BY <2>5, <3>1
    <3>2. CASE p = Len(stack)-1
      BY <2>2, <2>5, <2>6, <3>2
    <3>3. QED
      BY <1>1, <1>3, <2>5, <3>1, <3>2
  <2>8. signal'.kind = "run"
    BY <2>1 DEF Run, Plain
  <2>9. QED
    BY <1>1, <2>5, <2>7, <2>8 DEF LeavesTop
<1>8. QED
  BY <1>6, <1>7

LEMMA FinishScriptLeaves ==
  ASSUME TypeInv, CleanupInv, FinishScript
  PROVE  LeavesTop
<1>1. /\ stack # <<>> /\ Len(stack) = 1 /\ Unwinding /\ Exhausted
      /\ left' = left \cup {Top.env} /\ stack' = <<>>
      /\ UNCHANGED <<deferOwner, defers, regs, drained>>
  BY DEF FinishScript, Unwinding, SameEnvironments
<1>2. DOMAIN stack' = {} /\ 1..Len(stack)-1 = {}
  BY <1>1
<1>3. QED
  BY <1>1, <1>2 DEF LeavesTop

-----------------------------------------------------------------------------
LEMMA InitCleanup == Init => CleanupInv
<1> SUFFICES ASSUME Init PROVE CleanupInv
  OBVIOUS
<1> DEFINE item == NewItem("Program", 1, 0)
<1>1. /\ stack = <<item>> /\ signal = Run /\ regs = <<>>
      /\ drained = {} /\ left = {} /\ deferOwner = <<0>> /\ defers = << <<>> >>
  BY DEF Init
<1>2. /\ item.kind = "Program" /\ item.env = 1 /\ item.unwinding = FALSE
      /\ item.deferred = FALSE /\ item.todo = <<>>
  BY DEF NewItem
<1> HIDE DEF item
<1>3. DOMAIN stack = {1} /\ stack[1] = item /\ Len(stack) = 1
  BY <1>1
<1>4. ItemInv
  BY <1>1, <1>2, <1>3 DEF ItemInv, ItemOK, Increasing, Lifetimes
<1>5. PlaceInv
  BY <1>1, <1>2, <1>3 DEF PlaceInv, Top
<1>6. QueueInv
  <2>1. DOMAIN defers = {1} /\ defers[1] = <<>>
    BY <1>1
  <2>2. QED
    BY <2>1 DEF QueueInv, QueueOK, Increasing
<1>7. RegInv
  BY <1>1 DEF RegInv
<1>8. HistoryInv
  BY <1>1 DEF HistoryInv
<1>9. QED
  BY <1>4, <1>5, <1>6, <1>7, <1>8 DEF CleanupInv

LEMMA NextCleanup ==
  ASSUME TypeInv, TypeInv', CleanupInv, [Next]_vars
  PROVE  CleanupInv'
<1>1. CASE Statement
  <2>1. CASE DeferStatement
    BY <2>1, DeferStatementCleanup
  <2>2. CASE Statement /\ ~DeferStatement
    <3>1. CalmStep
      BY <2>2, SignalCalm, EnterCalm, EnterForCalm, CallFunctionCalm,
         ImportModuleCalm, EvalTemplateCalm DEF Statement
    <3>2. QED
      BY <3>1, CalmCleanup
  <2>3. QED
    BY <1>1, <2>1, <2>2
<1>2. CASE Propagate
  <2>1. CalmStep
    BY <1>2, BlockCalm, CatchErrorCalm, NextIterationCalm DEF Propagate
  <2>2. QED
    BY <2>1, CalmCleanup
<1>3. CASE Unwind
  <2>1. CASE FinishCall \/ FinishModule
    <3>1. stack # <<>>
      BY <2>1 DEF FinishCall, FinishModule, Unwinding
    <3>2. LeavesTop
      BY <2>1, <3>1, ResultsType, FinishLeaves DEF FinishCall, FinishModule
    <3>3. QED
      BY <3>2, LeavesTopCleanup
  <2>2. CASE FinishScript
    BY <2>2, FinishScriptLeaves, LeavesTopCleanup
  <2>3. QED
    BY <1>3, <2>1, <2>2, TakeDefersCleanup, RunNativeDeferCleanup,
       RunSilverDeferCleanup DEF Unwind
<1>4. CASE Finished \/ UNCHANGED vars
  <2>1. UNCHANGED vars
    BY <1>4 DEF Finished
  <2>2. QED
    BY <2>1 DEF vars, CleanupInv, ItemInv, ItemOK, PlaceInv, QueueInv, QueueOK,
                RegInv, RegOK, Queued, Taken, HistoryInv, Top
<1>5. QED
  BY <1>1, <1>2, <1>3, <1>4 DEF Next

LEMMA CleanupInvariant == Spec => [](TypeInv /\ CleanupInv)
<1>1. Init => TypeInv /\ CleanupInv
  BY InitTypes, InitCleanup
<1>2. (TypeInv /\ CleanupInv) /\ [Next]_vars => (TypeInv /\ CleanupInv)'
  BY NextTypes, NextCleanup
<1>3. QED
  BY <1>1, <1>2, PTL DEF Spec

(* evaluator.runDefers makes every deferred call exactly once before its   *)
(* function, module or script has been left, whatever statements, errors,  *)
(* imports, templates and nested calls a program combines.                 *)
THEOREM CleanupCorrect == Spec => []CleanupRunsOnce
<1>1. TypeInv /\ CleanupInv => CleanupRunsOnce
  <2> SUFFICES ASSUME TypeInv, CleanupInv, NEW d \in DOMAIN regs
               PROVE  /\ regs[d].runs <= 1
                      /\ regs[d].owner \in left /\ ~regs[d].late
                         => regs[d].runs = 1
    BY DEF CleanupRunsOnce
  <2>1. RegOK(d) /\ regs[d] \in Registration
    BY Domains DEF CleanupInv, RegInv
  <2>2. regs[d].runs \in Nat
    BY <2>1 DEF Registration
  <2>3. SUFFICES ASSUME regs[d].owner \in left, ~regs[d].late
                 PROVE  regs[d].runs # 0
    BY <2>1, <2>2 DEF RegOK
  <2>4. ~Queued(d)
    BY <2>3 DEF Queued, CleanupInv, HistoryInv
  <2>5. ~Taken(d)
    BY <2>3 DEF Taken, CleanupInv, ItemInv, ItemOK
  <2>6. QED
    BY <2>1, <2>3, <2>4, <2>5 DEF RegOK
<1>2. QED
  BY <1>1, CleanupInvariant, PTL

(* runDefers makes the calls of one owner last-in-first-out.               *)
THEOREM ReverseOrder == Spec => UnwindsInReverse
<1> DEFINE ReverseStep ==
      \A d \in DOMAIN regs : \A later \in DOMAIN regs :
        /\ regs'[d].runs > regs[d].runs
        /\ later > d /\ regs[later].owner = regs[d].owner
        /\ ~regs[later].late
        => regs[later].runs = 1
<1>1. ASSUME TypeInv, CleanupInv, InvokeLast PROVE ReverseStep
  <2> DEFINE k == Last(Top.todo)
  <2> SUFFICES ASSUME NEW d \in DOMAIN regs, NEW later \in DOMAIN regs,
                      regs'[d].runs > regs[d].runs, later > d,
                      regs[later].owner = regs[d].owner, ~regs[later].late
               PROVE  regs[later].runs = 1
    OBVIOUS
  <2>1. \A e \in DOMAIN regs : regs[e].runs \in Nat /\ e \in Nat
    BY <1>1, Domains DEF Registration
  <2>2. d = k
    BY <1>1, <2>1, MadeLast
  <2>3. /\ regs[k].owner = Top.env /\ Top.env \in drained
        /\ ItemOK(Top) /\ Top \in Item /\ Top.kind \in Lifetimes
        /\ Top = stack[Len(stack)] /\ Len(stack) \in DOMAIN stack
        /\ \A i \in DOMAIN Top.todo :
             Top.todo[i] # k => i \in DOMAIN Front(Top.todo)
    BY <1>1, MadeLast
  <2>4. SUFFICES ASSUME regs[later].runs # 1 PROVE FALSE
    OBVIOUS
  <2>5. RegOK(later) /\ regs[later].runs = 0
    BY <1>1, <2>1, <2>4 DEF CleanupInv, RegInv, RegOK
  <2>6. Taken(later)
    BY <2>2, <2>3, <2>5 DEF RegOK, Queued
  <2>7. PICK p \in DOMAIN stack :
          /\ stack[p].kind \in Lifetimes /\ stack[p].env = regs[later].owner
          /\ \E i \in DOMAIN stack[p].todo : stack[p].todo[i] = later
    BY <2>6 DEF Taken
  <2>8. stack[p] = Top
    BY <1>1, <2>2, <2>3, <2>7 DEF CleanupInv, PlaceInv
  <2>9. PICK i \in DOMAIN Top.todo : Top.todo[i] = later
    BY <2>7, <2>8
  <2>10. /\ DOMAIN Top.todo = 1..Len(Top.todo) /\ Len(Top.todo) \in Nat
         /\ k = Top.todo[Len(Top.todo)]
    BY <2>3 DEF Item, Last
  <2>11. i = Len(Top.todo) \/ later < k
    BY <2>3, <2>9, <2>10 DEF ItemOK, Increasing
  <2>12. QED
    BY <2>1, <2>2, <2>9, <2>10, <2>11
<1>2. ASSUME TypeInv, CleanupInv, [Next]_vars, ~InvokeLast PROVE [ReverseStep]_vars
  <2>1. CASE DeferStatement
    <3>1. regs' = Append(regs, [owner |-> Owner(Top.env),
                                late |-> Owner(Top.env) \in drained, runs |-> 0])
      BY <2>1 DEF DeferStatement
    <3>2. \A d \in DOMAIN regs : regs'[d] = regs[d] /\ regs[d].runs \in Nat
      <4> DEFINE r == [owner |-> Owner(Top.env),
                       late |-> Owner(Top.env) \in drained, runs |-> 0]
      <4>1. regs \in Seq(Registration) /\ regs' = Append(regs, r)
        BY <1>2, <3>1 DEF TypeInv, TypeOK, Registration
      <4> HIDE DEF r
      <4>2. \A d \in DOMAIN regs : regs'[d] = regs[d]
        BY <4>1
      <4>3. \A d \in DOMAIN regs : regs[d].runs \in Nat
        BY <4>1, <1>2, Domains DEF Registration
      <4>4. QED
        BY <4>2, <4>3
    <3>3. QED
      BY <3>2
  <2>2. CASE ~DeferStatement
    <3>1. regs' = regs
      BY <1>2, <2>2 DEF Next, Statement, Propagate, Unwind, Finished, vars,
         RaiseError, ReturnStatement, LoopControl, EnterOperand, EnterTry,
         EnterWhile, EnterFor, CallFunction, ImportModule, TemplateLiteral,
         EvalTemplate, EndBlock, SignalAtOperand, CatchError, PassThrough,
         NextIteration, ExitLoop, LeaveTemplate, TakeDefers, RunNativeDefer,
         RunSilverDefer, FinishCall, FinishModule, Finish, FinishScript,
         SameHistory
    <3>2. \A d \in DOMAIN regs : regs[d].runs \in Nat
      BY <1>2, Domains DEF Registration
    <3>3. QED
      BY <3>1, <3>2
  <2>3. QED
    BY <2>1, <2>2
<1>3. TypeInv /\ CleanupInv /\ [Next]_vars => [ReverseStep]_vars
  BY <1>1, <1>2
<1>4. QED
  BY <1>3, CleanupInvariant, PTL DEF Spec, UnwindsInReverse

-----------------------------------------------------------------------------
(* Errors and contexts: the inductive invariant.                           *)

Deeper(kind) == IF kind \in Lifetimes \cup {"Template"} THEN 1 ELSE 0

\* The script is at the bottom, and the level of a construct counts the
\* calls, imports and templates below it.
LevelInv ==
  /\ stack # <<>> => stack[1].kind = "Program"
  /\ \A p \in DOMAIN stack :
       p > 1 => stack[p].level = stack[p - 1].level + Deeper(stack[p].kind)

\* An error is an instance of an error struct, with the chain of calls from
\* the construct at this level to its origin.
Sound(result, level) ==
  /\ CallChain(result, level)
  /\ result.kind = "error" => result.type # None

HeldInv ==
  \A p \in DOMAIN stack : /\ Sound(stack[p].held, stack[p].level)
                          /\ Sound(stack[p].failure, stack[p].level)

SoundHere(result, level, fn) ==
  /\ Sound(result, level)
  /\ result.kind = "error" => result.frames[1].fn = fn

SignalInv == stack # <<>> => SoundHere(signal, Top.level, Current(contexts))

ErrorInv == LevelInv /\ HeldInv /\ SignalInv

-----------------------------------------------------------------------------
(* The inductive invariant of the contexts.                                *)

\* The first n constructs of a stack: their invocations, and what it takes
\* for contexts to name them.
ActiveIn(s, from, to) == {p \in from..to : s[p].kind \in Lifetimes}

Lists(s, c, under, from, n) ==
  /\ Len(c) = Len(under) + Cardinality(ActiveIn(s, from, n))
  /\ \A i \in DOMAIN under : c[i] = under[i]
  /\ \A p \in ActiveIn(s, from, n) :
       c[Len(under) + Cardinality(ActiveIn(s, from, p))] = s[p].env

Captures(ts) == {t.contexts : t \in ts}

NamedFrom(s, ts, c, from, under, n) ==
  /\ IF s[from].kind = "Template" THEN under \in Captures(ts)
                                  ELSE from = 1 /\ under = <<>>
  /\ \A p \in from+1..n : s[p].kind # "Template"
  /\ Lists(s, c, under, from + 1, n)

Named(s, ts, c, n) ==
  \E from \in 1..n, under \in Seq(Nat) : NamedFrom(s, ts, c, from, under, n)

\* The contexts name the invocations of the whole stack, and those a template
\* has saved name the ones below it.
NamesInv ==
  /\ stack # <<>> => Named(stack, templates, contexts, Len(stack))
  /\ \A p \in DOMAIN stack : stack[p].kind = "Template" =>
       p > 1 /\ Named(stack, templates, stack[p].saved, p - 1)

\* What Named looks at.
Alike(s, s2, n) ==
  \A p \in 1..n :
    /\ s2[p].kind = "Template" <=> s[p].kind = "Template"
    /\ s2[p].kind \in Lifetimes <=> s[p].kind \in Lifetimes
    /\ s[p].kind \in Lifetimes => s2[p].env = s[p].env
    /\ s[p].kind = "Template" => s2[p].saved = s[p].saved

-----------------------------------------------------------------------------
(* Errors.                                                                 *)

LEMMA QuietSound ==
  ASSUME NEW result, result.kind # "error", NEW level, NEW fn
  PROVE  Sound(result, level) /\ SoundHere(result, level, fn)
BY DEF Sound, SoundHere, CallChain

LEMMA RunSound == \A level, fn : Sound(Run, level) /\ SoundHere(Run, level, fn)
BY QuietSound DEF Run, Plain

LEMMA ErrorStructs == \A type \in AllErrors : type # None
BY UnwindingAssumption

\* A failure here starts its traceback here.
LEMMA FailSound ==
  ASSUME TypeInv, stack # <<>>, NEW type \in AllErrors
  PROVE  /\ SoundHere(Fail(type), Top.level, Current(contexts))
         /\ Fail(type).kind = "error" /\ Fail(type).type = type
<1>1. /\ Fail(type).kind = "error" /\ Fail(type).type = type
      /\ Fail(type).frames = <<Here>>
  BY DEF Fail, ErrorOf
<1>2. Here.level = Top.level /\ Here.fn = Current(contexts)
  BY DEF Here
<1>3. Top.level \in Int
  BY TopType DEF TypeInv, Item
<1>4. CallChain(Fail(type), Top.level)
  <2>1. \A i \in DOMAIN <<Here>> : i = 1
    OBVIOUS
  <2>2. Top.level + 1 - 1 = Top.level
    BY <1>3
  <2>3. QED
    BY <1>1, <1>2, <2>1, <2>2 DEF CallChain
<1>5. QED
  BY <1>1, <1>2, <1>4, ErrorStructs DEF SoundHere, Sound

\* The caller's frame comes first; what has no traceback begins one there.
LEMMA AtCallerSound ==
  ASSUME NEW result \in Signal, NEW caller \in TraceFrame, NEW level \in Int,
         caller.level = level - 1,
         Sound(result, level) \/ (result.frames = <<>> /\ result.type # None)
  PROVE  /\ SoundHere(AtCaller(result, caller), level - 1, caller.fn)
         /\ AtCaller(result, caller).kind = result.kind
         /\ AtCaller(result, caller).type = result.type
<1> DEFINE answer == AtCaller(result, caller)
<1>1. CASE result.kind # "error"
  <2>1. answer = result
    BY <1>1 DEF AtCaller
  <2>2. QED
    BY <1>1, <2>1, QuietSound
<1>2. CASE result.kind = "error"
  <2>1. result.frames \in Seq(TraceFrame)
    BY DEF Signal
  <2>2. /\ answer.kind = "error" /\ answer.type = result.type
        /\ answer.frames = <<caller>> \o result.frames
    BY <1>2 DEF AtCaller, Signal
  <2> DEFINE n == Len(result.frames)
             new == <<caller>> \o result.frames
  <2>3. /\ new \in Seq(TraceFrame) /\ Len(new) = n + 1 /\ n \in Nat
        /\ new[1] = caller
        /\ \A i \in 2..n+1 : new[i] = result.frames[i - 1]
    BY <2>1
  <2>4. \A i \in 1..n : result.frames[i].level = level + i - 1
    BY <1>2, <2>1 DEF Sound, CallChain
  <2> HIDE DEF new, n
  <2>5. ASSUME NEW i \in 1..n+1
        PROVE  new[i].level = (level - 1) + i - 1
    <3>1. CASE i = 1
      BY <2>3, <3>1
    <3>2. CASE i \in 2..n+1
      <4>1. i - 1 \in 1..n
        BY <2>3, <3>2
      <4>2. result.frames[i - 1].level = level + (i - 1) - 1
        BY <2>4, <4>1
      <4>3. QED
        BY <2>3, <3>2, <4>2
    <3>3. QED
      BY <2>3, <3>1, <3>2
  <2>6. DOMAIN new = 1..n+1 /\ new # <<>>
    BY <2>3
  <2>7. CallChain(answer, level - 1)
    BY <2>2, <2>5, <2>6 DEF CallChain, new
  <2>8. result.type # None
    BY <1>2 DEF Sound
  <2>9. QED
    BY <1>2, <2>2, <2>3, <2>7, <2>8 DEF SoundHere, Sound, new
<1>3. QED
  BY <1>1, <1>2

-----------------------------------------------------------------------------
(* What each shape of step does to the stack.                              *)

LEMMA ErrorDomains ==
  ASSUME TypeInv, stack # <<>>
  PROVE  /\ DOMAIN stack = 1..Len(stack) /\ Len(stack) \in Nat \ {0}
         /\ Top = stack[Len(stack)] /\ Top \in Item
         /\ \A p \in DOMAIN stack : stack[p] \in Item
<1>1. stack \in Seq(Item)
  BY DEF TypeInv, TypeOK
<1>2. QED
  BY <1>1, EmptySeq, TopType DEF Top, TypeInv

\* The statements of the construct on top only change the signal.
LEMMA SameSound ==
  ASSUME TypeInv, ErrorInv, stack # <<>>, UNCHANGED <<stack, contexts>>,
         SoundHere(signal', Top.level, Current(contexts))
  PROVE  ErrorInv'
BY DEF ErrorInv, LevelInv, HeldInv, SignalInv, Top

Entering(item) ==
  /\ item.level = Top.level + Deeper(item.kind)
  /\ item.held = Run /\ item.failure = Run

LEMMA PushSound ==
  ASSUME TypeInv, ErrorInv, stack # <<>>, NEW item \in Item, Entering(item),
         Push(item), signal' = signal, signal.kind = "run"
  PROVE  ErrorInv'
<1>1. /\ stack' \in Seq(Item) /\ Len(stack') = Len(stack) + 1
      /\ \A p \in DOMAIN stack : stack'[p] = stack[p]
      /\ stack'[Len(stack) + 1] = item
  BY PushType DEF TypeInv
<1>2. DOMAIN stack' = 1..Len(stack)+1
  BY <1>1
<1>3. /\ DOMAIN stack = 1..Len(stack) /\ Len(stack) \in Nat \ {0}
      /\ Top = stack[Len(stack)]
  BY ErrorDomains
<1>4. LevelInv'
  <2>1. ASSUME NEW p \in DOMAIN stack', p > 1
        PROVE  stack'[p].level = stack'[p - 1].level + Deeper(stack'[p].kind)
    <3>1. CASE p \in DOMAIN stack
      <4>1. p - 1 \in DOMAIN stack
        BY <1>3, <2>1, <3>1
      <4>2. QED
        BY <1>1, <2>1, <3>1, <4>1 DEF ErrorInv, LevelInv
    <3>2. CASE p = Len(stack) + 1
      <4>1. p - 1 = Len(stack) /\ Len(stack) \in DOMAIN stack
        BY <1>3, <3>2
      <4>2. QED
        BY <1>1, <1>3, <3>2, <4>1 DEF Entering
    <3>3. QED
      BY <1>2, <1>3, <3>1, <3>2
  <2>2. stack'[1].kind = "Program"
    BY <1>1, <1>3 DEF ErrorInv, LevelInv
  <2>3. QED
    BY <2>1, <2>2 DEF LevelInv
<1>5. HeldInv'
  <2>1. Sound(item.held, item.level) /\ Sound(item.failure, item.level)
    BY RunSound DEF Entering
  <2>2. QED
    BY <1>1, <1>2, <1>3, <2>1 DEF ErrorInv, HeldInv
<1>6. SignalInv'
  BY QuietSound DEF SignalInv
<1>7. QED
  BY <1>4, <1>5, <1>6 DEF ErrorInv

\* The construct on top becomes another one of its level.
LEMMA ReplaceSound ==
  ASSUME TypeInv, ErrorInv, stack # <<>>, NEW item \in Item, Replace(item),
         item.level = Top.level, Deeper(item.kind) = Deeper(Top.kind),
         Len(stack) = 1 => item.kind = Top.kind,
         Sound(item.held, Top.level), Sound(item.failure, Top.level), signal'.kind = "run"
  PROVE  ErrorInv'
<1>1. /\ stack' \in Seq(Item) /\ Len(stack') = Len(stack)
      /\ \A p \in 1..Len(stack)-1 : stack'[p] = stack[p]
      /\ stack'[Len(stack)] = item
  BY ReplaceType DEF TypeInv
<1>2. /\ DOMAIN stack = 1..Len(stack) /\ Len(stack) \in Nat \ {0}
      /\ Top = stack[Len(stack)]
  BY ErrorDomains
<1>3. DOMAIN stack' = 1..Len(stack)
  BY <1>1
<1>4. LevelInv'
  <2>1. ASSUME NEW p \in DOMAIN stack', p > 1
        PROVE  stack'[p].level = stack'[p - 1].level + Deeper(stack'[p].kind)
    <3>1. /\ p \in DOMAIN stack /\ p - 1 \in 1..Len(stack)-1
          /\ stack[p].level = stack[p - 1].level + Deeper(stack[p].kind)
      BY <1>2, <1>3, <2>1 DEF ErrorInv, LevelInv
    <3>2. CASE p \in 1..Len(stack)-1
      BY <1>1, <3>1, <3>2
    <3>3. CASE p = Len(stack)
      BY <1>1, <1>2, <3>1, <3>3
    <3>4. QED
      BY <1>2, <1>3, <3>2, <3>3
  <2>2. stack'[1].kind = "Program"
    <3>1. CASE Len(stack) = 1
      BY <1>1, <1>2, <3>1 DEF ErrorInv, LevelInv
    <3>2. CASE Len(stack) # 1
      <4>1. 1 \in 1..Len(stack)-1
        BY <1>2, <3>2
      <4>2. QED
        BY <1>1, <4>1 DEF ErrorInv, LevelInv
    <3>3. QED
      BY <3>1, <3>2
  <2>3. QED
    BY <2>1, <2>2 DEF LevelInv
<1>5. HeldInv'
  <2>1. ASSUME NEW p \in DOMAIN stack'
        PROVE  /\ Sound(stack'[p].held, stack'[p].level)
               /\ Sound(stack'[p].failure, stack'[p].level)
    <3>1. CASE p \in 1..Len(stack)-1
      <4>1. p \in DOMAIN stack /\ stack'[p] = stack[p]
        BY <1>1, <1>2, <3>1
      <4>2. QED
        BY <4>1 DEF ErrorInv, HeldInv
    <3>2. CASE p = Len(stack)
      BY <1>1, <3>2
    <3>3. QED
      BY <1>2, <1>3, <3>1, <3>2
  <2>2. QED
    BY <2>1 DEF HeldInv
<1>6. SignalInv'
  BY QuietSound DEF SignalInv
<1>7. QED
  BY <1>4, <1>5, <1>6 DEF ErrorInv

\* What lies under the construct on top.
LEMMA Below ==
  ASSUME TypeInv, ErrorInv, stack # <<>>, Len(stack) > 1
  PROVE  /\ Under # <<>> /\ Last(Under) = stack[Len(stack) - 1] /\ Last(Under) \in Item
         /\ Top.level = Last(Under).level + Deeper(Top.kind)
<1>1. /\ DOMAIN stack = 1..Len(stack) /\ Len(stack) \in Nat \ {0}
      /\ Top = stack[Len(stack)]
  BY ErrorDomains
<1>2. /\ Under \in Seq(Item) /\ Len(Under) = Len(stack) - 1
      /\ \A p \in 1..Len(stack)-1 : Under[p] = stack[p]
  BY FrontType DEF TypeInv, TypeOK, Under
<1>3. Under # <<>> /\ Last(Under) = stack[Len(stack) - 1]
  BY <1>1, <1>2 DEF Last
<1>4. Last(Under) \in Item
  BY <1>2, <1>3, FrontType
<1>5. QED
  BY <1>1, <1>3, <1>4 DEF ErrorInv, LevelInv

\* The construct on top hands a result to the one below.
LEMMA LeaveSound ==
  ASSUME TypeInv, ErrorInv, stack # <<>>, NEW result, Leave(result),
         Len(stack) > 1 => SoundHere(result, Top.level - Deeper(Top.kind), Current(contexts'))
  PROVE  ErrorInv'
<1>1. /\ stack' \in Seq(Item) /\ Len(stack') = Len(stack) - 1 /\ signal' = result
      /\ \A p \in 1..Len(stack)-1 : stack'[p] = stack[p]
  BY PopType DEF Leave, TypeInv
<1>2. DOMAIN stack' = 1..Len(stack)-1
  BY <1>1
<1>3. /\ DOMAIN stack = 1..Len(stack) /\ Len(stack) \in Nat \ {0}
      /\ Top = stack[Len(stack)] /\ Top \in Item
  BY ErrorDomains
<1>4. LevelInv'
  <2>1. ASSUME NEW p \in DOMAIN stack', p > 1
        PROVE  stack'[p].level = stack'[p - 1].level + Deeper(stack'[p].kind)
    <3>1. p \in DOMAIN stack /\ p - 1 \in 1..Len(stack)-1
      BY <1>2, <1>3, <2>1
    <3>2. QED
      BY <1>1, <1>2, <2>1, <3>1 DEF ErrorInv, LevelInv
  <2>2. stack' # <<>> => stack'[1].kind = "Program"
    <3>1. stack' # <<>> => 1 \in 1..Len(stack)-1
      BY <1>1, <1>3, EmptySeq
    <3>2. QED
      BY <1>1, <3>1 DEF ErrorInv, LevelInv
  <2>3. QED
    BY <2>1, <2>2 DEF LevelInv
<1>5. HeldInv'
  <2>1. ASSUME NEW p \in DOMAIN stack' PROVE p \in DOMAIN stack /\ stack'[p] = stack[p]
    BY <1>1, <1>2, <1>3
  <2>2. QED
    BY <2>1 DEF ErrorInv, HeldInv
<1>6. SignalInv'
  <2>1. SUFFICES ASSUME stack' # <<>>
                 PROVE  SoundHere(signal', stack'[Len(stack')].level, Current(contexts'))
    BY DEF SignalInv, Top
  <2>2. Len(stack) > 1 /\ Len(stack) - 1 \in 1..Len(stack)-1
    BY <1>1, <1>3, <2>1, EmptySeq
  <2>3. stack'[Len(stack')] = Last(Under)
    BY <1>1, <2>2, Below
  <2>4. Last(Under).level = Top.level - Deeper(Top.kind)
    BY <1>3, <2>2, Below DEF Item, Deeper
  <2>5. QED
    BY <1>1, <2>2, <2>3, <2>4
<1>7. QED
  BY <1>4, <1>5, <1>6 DEF ErrorInv

-----------------------------------------------------------------------------
(* One lemma per kind of action: it preserves the invariant.               *)

LEMMA SignalSound ==
  ASSUME TypeInv, ErrorInv,
         \/ \E type \in AllErrors : RaiseError(type)
         \/ \E payload \in Errors \cup {None} : ReturnStatement(payload)
         \/ \E kind \in {"break", "continue"} : LoopControl(kind)
  PROVE  ErrorInv'
<1>1. stack # <<>> /\ UNCHANGED <<stack, contexts>>
  BY DEF RaiseError, ReturnStatement, LoopControl, Running
<1>2. SoundHere(signal', Top.level, Current(contexts))
  <2>1. CASE \E type \in AllErrors : RaiseError(type)
    BY <1>1, <2>1, FailSound DEF RaiseError
  <2>2. CASE \E payload \in Errors \cup {None} : ReturnStatement(payload)
    <3>1. signal'.kind = "return"
      BY <2>2 DEF ReturnStatement, Plain
    <3>2. QED
      BY <3>1, QuietSound
  <2>3. CASE \E kind \in {"break", "continue"} : LoopControl(kind)
    <3>1. signal'.kind # "error"
      BY <2>3 DEF LoopControl, Plain
    <3>2. QED
      BY <3>1, QuietSound
  <2>4. QED
    BY <2>1, <2>2, <2>3
<1>3. QED
  BY <1>1, <1>2, SameSound

\* Registering a deferred call or making a template raises nothing.
LEMMA QuietStatementSound ==
  ASSUME TypeInv, ErrorInv, DeferStatement \/ TemplateLiteral
  PROVE  ErrorInv'
<1>1. stack # <<>> /\ UNCHANGED <<stack, contexts, signal>>
  BY DEF DeferStatement, TemplateLiteral, Running
<1>2. SoundHere(signal', Top.level, Current(contexts))
  BY <1>1 DEF ErrorInv, SignalInv
<1>3. QED
  BY <1>1, <1>2, SameSound

LEMMA NewItemFields ==
  ASSUME NEW kind, NEW env, NEW level
  PROVE  LET item == NewItem(kind, env, level) IN
           /\ item.kind = kind /\ item.level = level
           /\ item.held = Run /\ item.failure = Run
BY DEF NewItem

LEMMA InsideEnters ==
  ASSUME TypeInv, stack # <<>>, NEW kind \in {"Operand", "Try", "Loop"}
  PROVE  Inside(kind) \in Item /\ Entering(Inside(kind))
<1>1. Inside(kind) \in Item
  BY InsideType DEF Kinds
<1>2. Top.level \in Int
  BY TopType DEF TypeInv, Item
<1>3. Deeper(kind) = 0
  BY DEF Deeper, Lifetimes
<1>4. QED
  BY <1>1, <1>2, <1>3, NewItemFields DEF Inside, Entering

\* Fields that say nothing about levels or errors make no difference.
LEMMA EntersAlike ==
  ASSUME NEW item, NEW other, Entering(item), other.kind = item.kind,
         other.level = item.level, other.held = item.held,
         other.failure = item.failure
  PROVE  Entering(other)
BY DEF Entering

\* Operands, tries and loops.
LEMMA EnterPushes ==
  ASSUME TypeInv,
         \/ EnterOperand
         \/ \E catches \in CatchClauses : EnterTry(catches)
         \/ EnterWhile \/ EnterFor
  PROVE  \E item \in Item : /\ Push(item) /\ Entering(item)
                            /\ item.kind \in {"Operand", "Try", "Loop"}
<1>1. stack # <<>>
  BY DEF EnterOperand, EnterTry, EnterWhile, EnterFor, Running
<1>2. \A kind \in {"Operand", "Try", "Loop"} :
        Inside(kind) \in Item /\ Entering(Inside(kind)) /\ Inside(kind).kind = kind
  BY <1>1, InsideEnters, NewItemFields DEF Inside
<1>3. CASE EnterOperand
  BY <1>2, <1>3 DEF EnterOperand
<1>4. CASE \E catches \in CatchClauses : EnterTry(catches)
  <2>1. PICK catches \in CatchClauses : EnterTry(catches)
    BY <1>4
  <2>2. catches \in SUBSET AllErrors
    BY UnwindingAssumption
  <2> DEFINE item == [Inside("Try") EXCEPT !.types = catches]
  <2>3. /\ item \in Item /\ item.kind = Inside("Try").kind
        /\ item.level = Inside("Try").level /\ item.held = Inside("Try").held
        /\ item.failure = Inside("Try").failure
    BY <1>2, <2>2 DEF Item
  <2>4. Push(item)
    BY <2>1 DEF EnterTry
  <2> HIDE DEF item
  <2>5. QED
    BY <1>2, <2>3, <2>4, EntersAlike
<1>5. CASE EnterWhile
  BY <1>2, <1>5 DEF EnterWhile
<1>6. CASE EnterFor
  <2> DEFINE item == [Inside("Loop") EXCEPT !.env = NextEnv, !.fresh = TRUE]
  <2>1. /\ item \in Item /\ item.kind = Inside("Loop").kind
        /\ item.level = Inside("Loop").level /\ item.held = Inside("Loop").held
        /\ item.failure = Inside("Loop").failure
    BY <1>2, NextEnvType DEF Item, TypeInv
  <2>2. Push(item)
    BY <1>6 DEF EnterFor
  <2> HIDE DEF item
  <2>3. QED
    BY <1>2, <2>1, <2>2, EntersAlike
<1>7. QED
  BY <1>3, <1>4, <1>5, <1>6

LEMMA EnterSound ==
  ASSUME TypeInv, ErrorInv,
         \/ EnterOperand
         \/ \E catches \in CatchClauses : EnterTry(catches)
         \/ EnterWhile \/ EnterFor
  PROVE  ErrorInv'
<1>1. stack # <<>> /\ signal' = signal /\ signal.kind = "run"
  BY DEF EnterOperand, EnterTry, EnterWhile, EnterFor, Running
<1>2. QED
  BY <1>1, EnterPushes, PushSound

LEMMA CallEnters ==
  ASSUME TypeInv, stack # <<>>, NEW declared \in SUBSET Errors,
         NEW check \in ReturnChecks, NEW deferred \in BOOLEAN,
         NEW call, call = [NewItem("Call", NextEnv, Top.level + 1) EXCEPT
                    !.types = declared, !.check = check, !.deferred = deferred]
  PROVE  call \in Item /\ Entering(call) /\ call.kind = "Call" /\ call.env = NextEnv
<1>1. call \in Item /\ call.env = NextEnv
  BY CallItemType
<1> DEFINE plain == NewItem("Call", NextEnv, Top.level + 1)
<1>2. /\ plain.kind = "Call" /\ plain.level = Top.level + 1
      /\ plain.held = Run /\ plain.failure = Run
  BY NewItemFields
<1>3. /\ call.kind = plain.kind /\ call.level = plain.level
      /\ call.held = plain.held /\ call.failure = plain.failure
  BY DEF NewItem
<1>4. Deeper("Call") = 1
  BY DEF Deeper, Lifetimes
<1> HIDE DEF plain
<1>5. QED
  BY <1>1, <1>2, <1>3, <1>4 DEF Entering

\* How contexts grow with the construct entered.
EntersContext(item) ==
  \/ item.kind \in {"Operand", "Try", "Loop"} /\ contexts' = contexts
  \/ item.kind \in Lifetimes /\ contexts' = Append(contexts, item.env)
  \/ /\ item.kind = "Template" /\ item.saved = contexts
     /\ contexts' \in Captures(templates)

\* Calls, imports and templates are one level further in.
LEMMA EnterDeeperPushes ==
  ASSUME TypeInv,
         \/ \E declared \in SUBSET Errors, check \in ReturnChecks :
              CallFunction(declared, check)
         \/ ImportModule
         \/ \E t \in templates : EvalTemplate(t)
  PROVE  \E item \in Item : Push(item) /\ Entering(item) /\ EntersContext(item)
<1>1. stack # <<>>
  BY DEF CallFunction, ImportModule, EvalTemplate, Running
<1>2. Top.level \in Int /\ Top.level + 1 \in Int
  BY <1>1, TopType DEF TypeInv, Item
<1>3. Deeper("Program") = 1 /\ Deeper("Template") = 1
  BY DEF Deeper, Lifetimes
<1>4. CASE \E declared \in SUBSET Errors, check \in ReturnChecks :
             CallFunction(declared, check)
  <2>1. PICK declared \in SUBSET Errors, check \in ReturnChecks :
          CallFunction(declared, check)
    BY <1>4
  <2> DEFINE call == [NewItem("Call", NextEnv, Top.level + 1) EXCEPT
                  !.types = declared, !.check = check, !.deferred = FALSE]
  <2>2. Push(call) /\ contexts' = Append(contexts, NextEnv)
    BY <2>1 DEF CallFunction, Invoke
  <2>3. call \in Item /\ Entering(call) /\ call.kind = "Call" /\ call.env = NextEnv
    BY <1>1, CallEnters
  <2> HIDE DEF call
  <2>4. QED
    BY <2>2, <2>3 DEF EntersContext, Lifetimes
<1>5. CASE ImportModule
  <2> DEFINE item == NewItem("Program", NextEnv, Top.level + 1)
  <2>1. Push(item) /\ contexts' = Append(contexts, NextEnv)
    BY <1>5 DEF ImportModule
  <2>2. item \in Item
    BY <1>2, NewItemType, NextEnvType DEF TypeInv, Kinds, Lifetimes
  <2>3. Entering(item) /\ item.kind = "Program"
    BY <1>3, NewItemFields DEF Entering
  <2>4. item.env = NextEnv
    BY DEF NewItem
  <2> HIDE DEF item
  <2>5. QED
    BY <2>1, <2>2, <2>3, <2>4 DEF EntersContext, Lifetimes
<1>6. CASE \E t \in templates : EvalTemplate(t)
  <2>1. PICK t \in templates : EvalTemplate(t)
    BY <1>6
  <2>2. t.env \in Nat /\ t.inLoop \in BOOLEAN /\ contexts \in Seq(Nat)
    BY DEF TypeInv, TypeOK
  <2> DEFINE plain == NewItem("Template", t.env, Top.level + 1)
             item == [plain EXCEPT !.saved = contexts, !.inLoop = t.inLoop]
  <2>3. Push(item) /\ contexts' = t.contexts
    BY <2>1 DEF EvalTemplate
  <2>4. plain \in Item /\ plain.kind = "Template"
    <3>1. plain \in Item
      BY <1>2, <2>2, NewItemType DEF Kinds
    <3>2. plain.kind = "Template"
      BY NewItemFields
    <3>3. QED
      BY <3>1, <3>2
  <2>5. Entering(plain)
    BY <1>3, NewItemFields DEF Entering
  <2> HIDE DEF plain
  <2>6. /\ item \in Item /\ item.kind = plain.kind /\ item.level = plain.level
        /\ item.held = plain.held /\ item.failure = plain.failure
        /\ item.saved = contexts
    BY <2>2, <2>4 DEF Item
  <2> HIDE DEF item
  <2>7. contexts' \in Captures(templates)
    BY <2>3 DEF Captures
  <2>8. QED
    BY <2>3, <2>4, <2>5, <2>6, <2>7, EntersAlike DEF EntersContext
<1>7. QED
  BY <1>4, <1>5, <1>6

LEMMA EnterDeeperSound ==
  ASSUME TypeInv, ErrorInv,
         \/ \E declared \in SUBSET Errors, check \in ReturnChecks :
              CallFunction(declared, check)
         \/ ImportModule
         \/ \E t \in templates : EvalTemplate(t)
  PROVE  ErrorInv'
<1>1. stack # <<>> /\ signal' = signal /\ signal.kind = "run"
  BY DEF CallFunction, ImportModule, EvalTemplate, Running
<1>2. QED
  BY <1>1, EnterDeeperPushes, PushSound

\* The value of an operand is an error or no statement control.
LEMMA EscapesSound ==
  ASSUME TypeInv, ErrorInv, stack # <<>>
  PROVE  /\ SoundHere(EscapesValue, Top.level, Current(contexts))
         /\ EscapesValue.kind = "error"
<1>1. RuntimeError \in AllErrors
  BY DEF AllErrors, RuntimeErrors
<1>2. QED
  BY <1>1, FailSound DEF EscapesValue, ErrorInv, SignalInv

LEMMA BlockSound ==
  ASSUME TypeInv, ErrorInv, EndBlock \/ SignalAtOperand \/ PassThrough \/ ExitLoop
  PROVE  ErrorInv'
<1>1. stack # <<>> /\ contexts' = contexts
  BY DEF EndBlock, SignalAtOperand, PassThrough, ExitLoop, IterationEnds,
         Running, Arriving
<1>2. Top.kind \in {"Operand", "Try", "Catch", "Loop"}
  BY DEF EndBlock, SignalAtOperand, PassThrough, ExitLoop, IterationEnds
<1>3. Deeper(Top.kind) = 0 /\ Top.level \in Int
  BY <1>1, <1>2, TopType DEF Deeper, Lifetimes, TypeInv, Item
<1>4. PICK result : Leave(result) /\ SoundHere(result, Top.level, Current(contexts))
  <2>1. /\ SoundHere(Run, Top.level, Current(contexts))
        /\ SoundHere(signal, Top.level, Current(contexts))
        /\ SoundHere(EscapesValue, Top.level, Current(contexts))
    BY <1>1, RunSound, EscapesSound DEF ErrorInv, SignalInv
  <2>2. Leave(Run) \/ Leave(signal) \/ Leave(EscapesValue)
    BY DEF EndBlock, SignalAtOperand, PassThrough, ExitLoop
  <2>3. QED
    BY <2>1, <2>2
<1>5. Top.level - Deeper(Top.kind) = Top.level
  BY <1>3
<1>6. QED
  BY <1>1, <1>4, <1>5, LeaveSound

LEMMA CatchErrorSound ==
  ASSUME TypeInv, ErrorInv, CatchError
  PROVE  ErrorInv'
<1> DEFINE item == [Inside("Catch") EXCEPT !.env = NextEnv]
<1>1. stack # <<>> /\ Replace(item) /\ signal' = Run /\ Top.kind = "Try"
  BY DEF CatchError, Arriving
<1>2. Inside("Catch") \in Item
  BY <1>1, InsideType DEF Kinds
<1>3. /\ item \in Item /\ item.kind = Inside("Catch").kind
      /\ item.level = Inside("Catch").level /\ item.held = Inside("Catch").held
      /\ item.failure = Inside("Catch").failure
  BY <1>2, NextEnvType DEF Item, TypeInv
<1>4. /\ Inside("Catch").kind = "Catch" /\ Inside("Catch").level = Top.level
      /\ Inside("Catch").held = Run /\ Inside("Catch").failure = Run
  BY NewItemFields DEF Inside
<1> HIDE DEF item
<1>5. Deeper("Catch") = Deeper("Try")
  BY DEF Deeper, Lifetimes
<1>6. Len(stack) # 1
  BY <1>1, ErrorDomains DEF ErrorInv, LevelInv
<1>7. signal'.kind = "run"
  BY <1>1 DEF Run, Plain
<1>8. QED
  BY <1>1, <1>3, <1>4, <1>5, <1>6, <1>7, RunSound, ReplaceSound

LEMMA NextIterationSound ==
  ASSUME TypeInv, ErrorInv, NextIteration
  PROVE  ErrorInv'
<1>1. stack # <<>> /\ contexts' = contexts /\ signal' = Run
  BY DEF NextIteration, IterationEnds, Running, Arriving
<1>2. Top \in Item /\ Len(stack) \in DOMAIN stack /\ Top = stack[Len(stack)]
  BY <1>1, ErrorDomains
<1>3. Sound(Top.held, Top.level) /\ Sound(Top.failure, Top.level)
  BY <1>2 DEF ErrorInv, HeldInv
<1>4. signal'.kind = "run"
  BY <1>1 DEF Run, Plain
<1>5. CASE Top.fresh
  <2> DEFINE item == [Top EXCEPT !.env = NextEnv]
  <2>1. Replace(item)
    BY <1>5 DEF NextIteration
  <2>2. /\ item \in Item /\ item.kind = Top.kind /\ item.level = Top.level
        /\ item.held = Top.held /\ item.failure = Top.failure
    BY <1>2, NextEnvType DEF Item, TypeInv
  <2> HIDE DEF item
  <2>3. QED
    BY <1>1, <1>3, <1>4, <2>1, <2>2, ReplaceSound
<1>6. CASE ~Top.fresh
  <2>1. stack' = stack
    BY <1>6 DEF NextIteration
  <2>2. QED
    BY <1>1, <2>1, RunSound, SameSound
<1>7. QED
  BY <1>5, <1>6

LEMMA LeaveTemplateSound ==
  ASSUME TypeInv, ErrorInv, LeaveTemplate
  PROVE  ErrorInv'
<1> DEFINE result == IF Running THEN Run ELSE EscapesValue
           caller == [fn |-> Current(contexts'), level |-> Top.level - 1]
<1>1. /\ stack # <<>> /\ Top.kind = "Template" /\ contexts' = Top.saved
      /\ Leave(AtCaller(result, caller))
  BY DEF LeaveTemplate, Running, Arriving
<1>2. Top.level \in Int /\ contexts' \in Seq(Nat)
  BY <1>1, TopType DEF TypeInv, Item
<1>3. /\ caller \in TraceFrame /\ caller.level = Top.level - 1
      /\ caller.fn = Current(contexts')
  BY <1>2, CurrentType DEF TraceFrame
<1>4. result \in Signal
  BY <1>1, PlainType, EscapesValueType DEF Run, SignalKinds
<1>5. Sound(result, Top.level)
  BY <1>1, RunSound, EscapesSound DEF SoundHere
<1>6. Deeper(Top.kind) = 1
  BY <1>1 DEF Deeper
<1> HIDE DEF result, caller
<1>7. SoundHere(AtCaller(result, caller), Top.level - 1, Current(contexts'))
  BY <1>2, <1>3, <1>4, <1>5, AtCallerSound
<1>8. QED
  BY <1>1, <1>6, <1>7, LeaveSound

LEMMA TopSound ==
  ASSUME TypeInv, ErrorInv, stack # <<>>
  PROVE  Sound(Top.held, Top.level) /\ Sound(Top.failure, Top.level)
BY ErrorDomains DEF ErrorInv, HeldInv

LEMMA TakeDefersSound ==
  ASSUME TypeInv, ErrorInv, TakeDefers
  PROVE  ErrorInv'
<1> DEFINE owner == Owner(Top.env)
           item == [Top EXCEPT !.unwinding = TRUE, !.todo = defers[owner],
                               !.held = signal]
<1>1. stack # <<>> /\ Replace(item) /\ signal' = Run
  BY DEF TakeDefers, Running, Arriving
<1>2. defers[owner] \in Seq(Nat) /\ Top \in Item
  BY <1>1, TopEnv, OwnerType, TopType DEF TypeInv
<1>3. /\ item \in Item /\ item.kind = Top.kind /\ item.level = Top.level
      /\ item.held = signal /\ item.failure = Top.failure
  BY <1>2 DEF Item, TypeInv, TypeOK
<1> HIDE DEF item
<1>4. Sound(signal, Top.level)
  BY <1>1 DEF ErrorInv, SignalInv, SoundHere
<1>5. signal'.kind = "run"
  BY <1>1 DEF Run, Plain
<1>6. QED
  BY <1>1, <1>3, <1>4, <1>5, TopSound, ReplaceSound

LEMMA RunNativeDeferSound ==
  ASSUME TypeInv, ErrorInv, NEW outcome \in AllErrors \cup {None},
         RunNativeDefer(outcome)
  PROVE  ErrorInv'
<1> DEFINE failure == IF outcome = None THEN Top.failure ELSE Fail(outcome)
           item == [Top EXCEPT !.todo = Undrained(@),
                      !.failure = IF outcome = None THEN @ ELSE Fail(outcome)]
<1>1. /\ stack # <<>> /\ Undrained(Top.todo) \in Seq(Nat)
      /\ Replace(item) /\ signal' = signal /\ signal.kind = "run"
  BY InvokeLastTypes DEF RunNativeDefer, InvokeLast, Unwinding
<1>2. failure \in Signal /\ Top \in Item
  BY <1>1, TopType, FailType DEF Item, TypeInv
<1>3. /\ item \in Item /\ item.kind = Top.kind /\ item.level = Top.level
      /\ item.held = Top.held /\ item.failure = failure
  BY <1>1, <1>2 DEF Item
<1> HIDE DEF item
<1>4. Sound(failure, Top.level)
  BY <1>1, TopSound, FailSound DEF SoundHere
<1>5. QED
  BY <1>1, <1>3, <1>4, TopSound, ReplaceSound

LEMMA RunSilverDeferSound ==
  ASSUME TypeInv, ErrorInv, NEW declared \in SUBSET Errors,
         NEW check \in ReturnChecks, RunSilverDefer(declared, check)
  PROVE  ErrorInv'
<1> DEFINE item == [Top EXCEPT !.todo = Undrained(@)]
           call == [NewItem("Call", NextEnv, Top.level + 1) EXCEPT
                      !.types = declared, !.check = check, !.deferred = TRUE]
           n == Len(stack)
<1>1. /\ stack # <<>> /\ Undrained(Top.todo) \in Seq(Nat)
      /\ signal' = signal /\ signal.kind = "run"
  BY InvokeLastTypes DEF RunSilverDefer, InvokeLast, Unwinding
<1>2. /\ stack' \in Seq(Item) /\ Len(stack') = n + 1
      /\ \A p \in 1..n-1 : stack'[p] = stack[p]
      /\ stack'[n] = item /\ stack'[n + 1] = call
  BY RunSilverDeferShape
<1>3. /\ DOMAIN stack = 1..n /\ n \in Nat \ {0}
      /\ Top = stack[n] /\ Top \in Item
  BY <1>1, ErrorDomains
<1>4. /\ item.kind = Top.kind /\ item.level = Top.level
      /\ item.held = Top.held /\ item.failure = Top.failure
  BY <1>1, <1>3 DEF Item
<1>5. call \in Item /\ Entering(call) /\ call.kind = "Call"
  BY <1>1, CallEnters
<1> HIDE DEF item, call, n
<1>6. DOMAIN stack' = 1..n+1
  BY <1>2, <1>3
<1>7. \A p \in 1..n : /\ stack'[p].kind = stack[p].kind
                      /\ stack'[p].level = stack[p].level
                      /\ stack'[p].held = stack[p].held
                      /\ stack'[p].failure = stack[p].failure
  BY <1>2, <1>3, <1>4
<1>8. LevelInv'
  <2>1. ASSUME NEW p \in DOMAIN stack', p > 1
        PROVE  stack'[p].level = stack'[p - 1].level + Deeper(stack'[p].kind)
    <3>1. CASE p \in 1..n
      <4>1. p - 1 \in 1..n
        BY <1>3, <2>1, <3>1
      <4>2. QED
        BY <1>3, <1>7, <2>1, <3>1, <4>1 DEF ErrorInv, LevelInv
    <3>2. CASE p = n + 1
      <4>1. p - 1 = n /\ n \in 1..n
        BY <1>3, <3>2
      <4>2. QED
        BY <1>2, <1>4, <1>5, <3>2, <4>1 DEF Entering
    <3>3. QED
      BY <1>3, <1>6, <3>1, <3>2
  <2>2. stack'[1].kind = "Program"
    BY <1>1, <1>3, <1>7 DEF ErrorInv, LevelInv
  <2>3. QED
    BY <2>1, <2>2 DEF LevelInv
<1>9. HeldInv'
  <2>1. Sound(call.held, call.level) /\ Sound(call.failure, call.level)
    BY <1>5, RunSound DEF Entering
  <2>2. QED
    BY <1>2, <1>3, <1>6, <1>7, <2>1 DEF ErrorInv, HeldInv
<1>10. SignalInv'
  BY <1>1, QuietSound DEF SignalInv
<1>11. QED
  BY <1>8, <1>9, <1>10 DEF ErrorInv

-----------------------------------------------------------------------------
(* Leaving an invocation.                                                  *)

\* What a call or module may answer has the traceback of this level, or none.
Answerable(result, level) ==
  Sound(result, level) \/ (result.frames = <<>> /\ result.type # None)

LEMMA NoTraceback ==
  ASSUME NEW type \in AllErrors, NEW level
  PROVE  Answerable(ErrorOf(type, <<>>), level)
BY ErrorStructs DEF ErrorOf, Answerable

LEMMA ResultsSound ==
  ASSUME TypeInv, ErrorInv, stack # <<>>
  PROVE  /\ \A result \in CallResults(Top) : Answerable(result, Top.level)
         /\ \A result \in ModuleResults(Top) : Answerable(result, Top.level)
<1>1. {RuntimeError, Fault} \subseteq AllErrors
  BY DEF AllErrors, RuntimeErrors
<1>2. Top \in Item /\ Top.types \subseteq AllErrors
  BY TopType DEF TypeInv, Item
<1>3. Answerable(Unwound(Top), Top.level)
  BY TopSound DEF Unwound, Answerable
<1>4. Answerable(Run, Top.level)
  BY RunSound DEF Answerable
<1>5. \A type \in AllErrors : Answerable(Fail(type), Top.level)
  BY FailSound DEF Answerable, SoundHere
<1>6. \A type \in AllErrors : Answerable(ErrorOf(type, <<>>), Top.level)
  BY NoTraceback
<1>7. ASSUME NEW result \in CallResults(Top)
      PROVE  Answerable(result, Top.level)
  <2>1. \/ result \in {Unwound(Top), Run}
        \/ \E type \in AllErrors : result \in {Fail(type), ErrorOf(type, <<>>)}
    BY <1>1, <1>2, <1>7 DEF CallResults
  <2>2. QED
    BY <1>3, <1>4, <1>5, <1>6, <2>1
<1>8. ASSUME NEW result \in ModuleResults(Top)
      PROVE  Answerable(result, Top.level)
  <2>1. result \in {Unwound(Top), Run, Fail(Fault)}
    BY <1>8 DEF ModuleResults
  <2>2. QED
    BY <1>1, <1>3, <1>4, <1>5, <2>1
<1>9. QED
  BY <1>7, <1>8

\* The answer of the invocation on top, to its caller or to the runDefers
\* loop below it.
Answered(result) ==
  LET caller == [fn |-> Current(contexts'), level |-> Top.level - 1]
      answer == AtCaller(result, caller)
      below  == Last(Under)
  IN IF Top.deferred
       THEN /\ stack' = Append(Front(Under),
                  IF answer.kind = "error"
                    THEN [below EXCEPT !.failure = answer] ELSE below)
            /\ signal' = Run
       ELSE Leave(answer)

LEMMA FinishAnswers ==
  ASSUME NEW results, Finish(results)
  PROVE  /\ Unwinding /\ Exhausted /\ Len(stack) > 1
         /\ contexts' = Front(contexts)
         /\ \E result \in results : Answered(result)
BY DEF Finish, PopContext, Answered

LEMMA AnswerSound ==
  ASSUME TypeInv, stack # <<>>, contexts' = Front(contexts),
         NEW result \in Signal, Answerable(result, Top.level), NEW caller,
         caller = [fn |-> Current(contexts'), level |-> Top.level - 1]
  PROVE  /\ SoundHere(AtCaller(result, caller), Top.level - 1, Current(contexts'))
         /\ AtCaller(result, caller) \in Signal
         /\ AtCaller(result, caller).kind = result.kind
         /\ AtCaller(result, caller).type = result.type
<1>1. Top.level \in Int /\ contexts' \in Seq(Nat)
  BY TopType, FrontSeq DEF TypeInv, TypeOK, Item
<1>2. /\ caller \in TraceFrame /\ caller.level = Top.level - 1
      /\ caller.fn = Current(contexts')
  BY <1>1, CurrentType DEF TraceFrame
<1>3. QED
  BY <1>1, <1>2, AtCallerSound, AtCallerType DEF Answerable

\* The stack when the call on top answers the runDefers loop below it.
LEMMA AppendedBelow ==
  ASSUME TypeInv, ErrorInv, stack # <<>>, Len(stack) > 1,
         NEW item \in Item, stack' = Append(Front(Under), item)
  PROVE  /\ DOMAIN stack' = 1..Len(stack)-1 /\ Len(stack') = Len(stack) - 1
         /\ \A p \in 1..Len(stack)-2 : stack'[p] = stack[p]
         /\ stack'[Len(stack) - 1] = item
         /\ Last(Under) = stack[Len(stack) - 1]
<1> DEFINE n == Len(stack)
           rest == Front(Under)
<1>1. DOMAIN stack = 1..n /\ n \in Nat \ {0} /\ n > 1
  BY ErrorDomains
<1>2. /\ Under \in Seq(Item) /\ Len(Under) = n - 1 /\ Under # <<>>
      /\ \A p \in 1..n-1 : Under[p] = stack[p]
      /\ Last(Under) = stack[n - 1]
  BY <1>1, FrontType, Below DEF TypeInv, TypeOK, Under
<1>3. /\ rest \in Seq(Item) /\ Len(rest) = n - 2
      /\ \A p \in 1..n-2 : rest[p] = stack[p]
  <2>1. /\ rest \in Seq(Item) /\ Len(rest) = Len(Under) - 1
        /\ \A p \in 1..Len(Under)-1 : rest[p] = Under[p]
    BY <1>2, FrontType
  <2>2. Len(Under) - 1 = n - 2 /\ 1..n-2 \subseteq 1..n-1
    BY <1>1, <1>2
  <2>3. QED
    BY <1>2, <2>1, <2>2
<1>4. stack' = Append(rest, item)
  OBVIOUS
<1> HIDE DEF n, rest
<1>5. /\ DOMAIN stack' = 1..n-1 /\ stack'[n - 1] = item /\ Len(stack') = n - 1
      /\ \A p \in 1..n-2 : stack'[p] = stack[p]
  BY <1>1, <1>3, <1>4
<1>6. QED
  BY <1>2, <1>5 DEF n

LEMMA DeferredAnswerSound ==
  ASSUME TypeInv, ErrorInv, stack # <<>>, Len(stack) > 1,
         NEW item \in Item, stack' = Append(Front(Under), item), signal' = Run,
         item.kind = Last(Under).kind, item.level = Last(Under).level,
         item.held = Last(Under).held,
         Sound(item.failure, Last(Under).level)
  PROVE  ErrorInv'
<1> DEFINE n == Len(stack)
<1>1. DOMAIN stack = 1..n /\ n \in Nat \ {0} /\ n > 1
  BY ErrorDomains
<1>2. /\ DOMAIN stack' = 1..n-1 /\ stack'[n - 1] = item
      /\ \A p \in 1..n-2 : stack'[p] = stack[p]
      /\ Last(Under) = stack[n - 1]
  BY AppendedBelow
<1> HIDE DEF n
<1>3. \A p \in 1..n-1 : p \in 1..n-2 \/ p = n - 1
  BY <1>1
<1>4. \A p \in 1..n-1 : /\ p \in DOMAIN stack
                        /\ stack'[p].kind = stack[p].kind
                        /\ stack'[p].level = stack[p].level
                        /\ stack'[p].held = stack[p].held
  BY <1>1, <1>2, <1>3
<1>5. LevelInv'
  <2>1. ASSUME NEW p \in DOMAIN stack', p > 1
        PROVE  stack'[p].level = stack'[p - 1].level + Deeper(stack'[p].kind)
    <3>1. p \in 1..n-1 /\ p - 1 \in 1..n-1
      BY <1>1, <1>2, <2>1
    <3>2. QED
      BY <1>4, <2>1, <3>1 DEF ErrorInv, LevelInv
  <2>2. stack'[1].kind = "Program"
    <3>1. 1 \in 1..n-1
      BY <1>1
    <3>2. QED
      BY <1>4, <3>1 DEF ErrorInv, LevelInv
  <2>3. QED
    BY <2>1, <2>2 DEF LevelInv
<1>6. HeldInv'
  <2>1. ASSUME NEW p \in 1..n-1
        PROVE  Sound(stack'[p].failure, stack'[p].level)
    <3>1. CASE p \in 1..n-2
      <4>1. p \in DOMAIN stack /\ stack'[p] = stack[p]
        BY <1>2, <1>4, <2>1, <3>1
      <4>2. QED
        BY <4>1 DEF ErrorInv, HeldInv
    <3>2. CASE p = n - 1
      <4>1. stack'[p] = item
        BY <1>2, <3>2
      <4>2. Sound(item.failure, item.level)
        OBVIOUS
      <4>3. QED
        BY <4>1, <4>2
    <3>3. QED
      BY <1>3, <2>1, <3>1, <3>2
  <2>2. QED
    BY <1>2, <1>4, <2>1 DEF ErrorInv, HeldInv
<1>7. SignalInv'
  BY RunSound DEF SignalInv
<1>8. QED
  BY <1>5, <1>6, <1>7 DEF ErrorInv

LEMMA FinishSound ==
  ASSUME TypeInv, ErrorInv, NEW results \in SUBSET Signal, Finish(results),
         Top.kind \in Lifetimes,
         \A result \in results : Answerable(result, Top.level)
  PROVE  ErrorInv'
<1>1. /\ stack # <<>> /\ Len(stack) > 1 /\ contexts' = Front(contexts)
  BY FinishAnswers DEF Unwinding
<1>2. PICK result \in results : Answered(result)
  BY FinishAnswers
<1> DEFINE caller == [fn |-> Current(contexts'), level |-> Top.level - 1]
           answer == AtCaller(result, caller)
<1>3. /\ SoundHere(answer, Top.level - 1, Current(contexts'))
      /\ answer \in Signal
  BY <1>1, <1>2, AnswerSound
<1>4. Deeper(Top.kind) = 1
  BY DEF Deeper
<1>5. CASE ~Top.deferred
  <2>1. Leave(answer)
    BY <1>2, <1>5 DEF Answered
  <2> HIDE DEF answer
  <2>2. QED
    BY <1>1, <1>3, <1>4, <2>1, LeaveSound
<1>6. CASE Top.deferred
  <2> DEFINE below == Last(Under)
             item == IF answer.kind = "error"
                       THEN [below EXCEPT !.failure = answer] ELSE below
  <2>1. stack' = Append(Front(Under), item) /\ signal' = Run
    BY <1>2, <1>6 DEF Answered
  <2>2. /\ below \in Item /\ below = stack[Len(stack) - 1]
        /\ Top.level = below.level + 1
    BY <1>1, <1>4, Below
  <2>3. below.level = Top.level - 1
    BY <2>2 DEF Item
  <2>4. Sound(below.failure, below.level)
    <3>1. Len(stack) - 1 \in DOMAIN stack
      BY <1>1, ErrorDomains
    <3>2. QED
      BY <2>2, <3>1 DEF ErrorInv, HeldInv
  <2> HIDE DEF answer, below
  <2>5. /\ item \in Item /\ item.kind = below.kind /\ item.level = below.level
        /\ item.held = below.held
        /\ item.failure = IF answer.kind = "error" THEN answer ELSE below.failure
    BY <1>3, <2>2 DEF Item
  <2>6. Sound(item.failure, below.level)
    BY <1>3, <2>3, <2>4, <2>5 DEF SoundHere
  <2> HIDE DEF item
  <2>7. QED
    BY <1>1, <2>1, <2>5, <2>6, DeferredAnswerSound DEF below
<1>7. QED
  BY <1>5, <1>6

LEMMA FinishScriptSound ==
  ASSUME FinishScript
  PROVE  ErrorInv'
<1>1. stack' = <<>>
  BY DEF FinishScript
<1>2. QED
  BY <1>1 DEF ErrorInv, LevelInv, HeldInv, SignalInv

-----------------------------------------------------------------------------
LEMMA InitErrors == Init => ErrorInv
<1> SUFFICES ASSUME Init PROVE ErrorInv
  OBVIOUS
<1> DEFINE item == NewItem("Program", 1, 0)
<1>1. stack = <<item>> /\ signal = Run
  BY DEF Init
<1>2. item.kind = "Program" /\ item.held = Run /\ item.failure = Run
  BY NewItemFields
<1> HIDE DEF item
<1>3. DOMAIN stack = {1} /\ stack[1] = item
  BY <1>1
<1>4. QED
  BY <1>1, <1>2, <1>3, RunSound DEF ErrorInv, LevelInv, HeldInv, SignalInv

LEMMA NextErrors ==
  ASSUME TypeInv, ErrorInv, [Next]_vars
  PROVE  ErrorInv'
<1>1. CASE Statement
  BY <1>1, SignalSound, QuietStatementSound, EnterSound, EnterDeeperSound
     DEF Statement
<1>2. CASE Propagate
  BY <1>2, BlockSound, CatchErrorSound, NextIterationSound, LeaveTemplateSound
     DEF Propagate
<1>3. CASE Unwind
  <2>1. CASE FinishCall
    <3>1. stack # <<>> /\ Top.kind \in Lifetimes /\ Finish(CallResults(Top))
      BY <2>1 DEF FinishCall, Unwinding, Lifetimes
    <3>2. QED
      BY <3>1, ResultsType, ResultsSound, FinishSound
  <2>2. CASE FinishModule
    <3>1. stack # <<>> /\ Top.kind \in Lifetimes /\ Finish(ModuleResults(Top))
      BY <2>2 DEF FinishModule, Unwinding, Lifetimes
    <3>2. QED
      BY <3>1, ResultsType, ResultsSound, FinishSound
  <2>3. QED
    BY <1>3, <2>1, <2>2, TakeDefersSound, RunNativeDeferSound,
       RunSilverDeferSound, FinishScriptSound DEF Unwind
<1>4. CASE Finished \/ UNCHANGED vars
  <2>1. UNCHANGED vars
    BY <1>4 DEF Finished
  <2>2. QED
    BY <2>1 DEF vars, ErrorInv, LevelInv, HeldInv, SignalInv, Top
<1>5. QED
  BY <1>1, <1>2, <1>3, <1>4 DEF Next

LEMMA ErrorInvariant == Spec => [](TypeInv /\ CleanupInv /\ ErrorInv)
<1>1. Spec => []ErrorInv
  <2>1. Init => ErrorInv
    BY InitErrors
  <2>2. TypeInv /\ ErrorInv /\ [Next]_vars => ErrorInv'
    BY NextErrors
  <2>3. QED
    BY <2>1, <2>2, CleanupInvariant, PTL DEF Spec
<1>2. QED
  BY <1>1, CleanupInvariant, PTL

(* The traceback prependCallerFrame builds is the chain of calls from the   *)
(* construct an error has reached down to its origin, one frame per call,   *)
(* import and eval(), however many functions, loops, handlers and deferred  *)
(* calls it has come through.                                               *)
THEOREM TracebacksCorrect == Spec => []TracebackIsCallChain
<1>1. ErrorInv => TracebackIsCallChain
  BY DEF ErrorInv, HeldInv, SignalInv, Sound, SoundHere, TracebackIsCallChain
<1>2. QED
  BY <1>1, ErrorInvariant, PTL

-----------------------------------------------------------------------------
(* What is handed over when an invocation is left.                         *)

\* Only finishing takes an invocation that unwinds off the stack.
LEMMA OnlyFinishingLeaves ==
  ASSUME TypeInv, CleanupInv, [Next]_vars, stack # <<>>, Top.unwinding,
         Len(stack') < Len(stack)
  PROVE  FinishCall \/ FinishModule \/ FinishScript
<1>1. Len(stack) \in Nat
  BY ErrorDomains
<1>2. ~Running /\ signal.kind = "run"
  BY DEF Running, CleanupInv, PlaceInv
<1>4. ~Arriving({"return", "break", "continue", "error"})
      /\ ~Arriving({"error"}) /\ ~Arriving({"continue"}) /\ ~Arriving({"break"})
  BY <1>2 DEF Arriving
<1>5. ~Statement
  BY <1>2 DEF Statement, DeferStatement, RaiseError, ReturnStatement, LoopControl,
         EnterOperand, EnterTry, EnterWhile, EnterFor, CallFunction,
         ImportModule, TemplateLiteral, EvalTemplate
<1>6. ~Propagate /\ ~TakeDefers
  BY <1>2, <1>4 DEF Propagate, EndBlock, SignalAtOperand, CatchError, PassThrough,
         NextIteration, ExitLoop, IterationEnds, LeaveTemplate, TakeDefers
<1>7. ~\E outcome \in AllErrors \cup {None} : RunNativeDefer(outcome)
  <2>1. SUFFICES ASSUME NEW outcome \in AllErrors \cup {None},
                        RunNativeDefer(outcome)
                 PROVE  Len(stack') = Len(stack)
    BY <1>1
  <2> DEFINE failure == IF outcome = None THEN Top.failure ELSE Fail(outcome)
             item == [Top EXCEPT !.todo = Undrained(@),
                        !.failure = IF outcome = None THEN @ ELSE Fail(outcome)]
  <2>2. Replace(item) /\ Undrained(Top.todo) \in Seq(Nat)
    BY <2>1, InvokeLastTypes DEF RunNativeDefer
  <2>3. failure \in Signal /\ Top \in Item
    BY TopType, FailType DEF Item, TypeInv
  <2>4. item \in Item
    BY <2>2, <2>3 DEF Item
  <2> HIDE DEF item
  <2>5. QED
    BY <2>2, <2>4, ReplaceType DEF TypeInv
<1>8. ~\E declared \in SUBSET Errors, check \in ReturnChecks :
         RunSilverDefer(declared, check)
  <2>1. SUFFICES ASSUME NEW declared \in SUBSET Errors, NEW check \in ReturnChecks,
                        RunSilverDefer(declared, check)
                 PROVE  FALSE
    OBVIOUS
  <2>2. Len(stack') = Len(stack) + 1
    BY <2>1, RunSilverDeferShape
  <2>3. QED
    BY <1>1, <2>2
<1>9. ~Finished /\ ~UNCHANGED vars
  BY <1>1 DEF Finished, vars
<1>10. QED
  BY <1>5, <1>6, <1>7, <1>8, <1>9 DEF Next, Unwind

\* What becomes of an answer: an error reaches the caller, or replaces the
\* failure of the runDefers loop that made the call.
LEMMA AnswerArrives ==
  ASSUME TypeInv, ErrorInv, stack # <<>>, Len(stack) > 1,
         contexts' = Front(contexts), NEW result \in Signal,
         Answerable(result, Top.level), Answered(result)
  PROVE  /\ stack' # <<>>
         /\ result.kind = "error" =>
              Answer.kind = "error" /\ Answer.type = result.type
         /\ Answer.kind = "error" =>
              \/ result.kind = "error" /\ Answer.type = result.type
              \/ Top.deferred /\ Answer = Last(Under).failure
<1> DEFINE caller == [fn |-> Current(contexts'), level |-> Top.level - 1]
           answer == AtCaller(result, caller)
           below  == Last(Under)
           item   == IF answer.kind = "error"
                       THEN [below EXCEPT !.failure = answer] ELSE below
<1>1. answer.kind = result.kind /\ answer.type = result.type /\ answer \in Signal
  BY AnswerSound
<1>2. /\ Under \in Seq(Item) /\ Under # <<>> /\ below \in Item
  BY TopType, Below DEF TypeInv
<1> HIDE DEF answer
<1>3. CASE ~Top.deferred
  <2>1. stack' = Under /\ signal' = answer
    BY <1>3 DEF Answered, Leave, answer
  <2>2. Answer = answer
    BY <1>3, <2>1 DEF Answer
  <2>3. QED
    BY <1>1, <1>2, <2>1, <2>2
<1>4. CASE Top.deferred
  <2>1. stack' = Append(Front(Under), item)
    BY <1>4 DEF Answered, answer
  <2>2. Answer = stack'[Len(stack')].failure
    BY <1>4 DEF Answer
  <2>3. /\ item \in Item
        /\ item.failure = IF answer.kind = "error" THEN answer ELSE below.failure
    BY <1>1, <1>2 DEF Item
  <2> HIDE DEF item, below
  <2>4. stack' # <<>> /\ stack'[Len(stack')] = item
    <3> DEFINE rest == Front(Under)
    <3>1. rest \in Seq(Item)
      BY <1>2, FrontSeq
    <3>2. stack' = Append(rest, item)
      BY <2>1
    <3> HIDE DEF rest
    <3>3. /\ Len(Append(rest, item)) = Len(rest) + 1 /\ Len(rest) \in Nat
          /\ Append(rest, item)[Len(rest) + 1] = item
      BY <2>3, <3>1
    <3>4. QED
      BY <3>2, <3>3
  <2>5. QED
    BY <1>1, <1>4, <2>2, <2>3, <2>4 DEF below
<1>5. QED
  BY <1>3, <1>4

\* applyUserFunction's result check.
LEMMA CallErrors ==
  ASSUME NEW call, NEW result \in CallResults(call)
  PROVE  /\ result.kind = "error" => result.type \in RuntimeErrors \cup call.types
         /\ Unwound(call).kind = "error" => result.kind = "error"
<1>1. /\ Run.kind # "error"
      /\ \A type, frames : /\ ErrorOf(type, frames).kind = "error"
                           /\ ErrorOf(type, frames).type = type
      /\ \A type : Fail(type).kind = "error" /\ Fail(type).type = type
  BY DEF Run, Plain, ErrorOf, Fail
<1>2. {RuntimeError, Fault} \subseteq RuntimeErrors
  BY DEF RuntimeErrors
<1>3. CASE Unwound(call).kind = "error"
  <2>1. result = IF Unwound(call).type \in RuntimeErrors \cup call.types
                   THEN Unwound(call) ELSE ErrorOf(RuntimeError, <<>>)
    BY <1>3 DEF CallResults
  <2>2. QED
    BY <1>1, <1>2, <1>3, <2>1
<1>4. CASE Unwound(call).kind # "error"
  <2> DEFINE payload == IF Unwound(call).kind = "return"
                          THEN Unwound(call).type ELSE None
  <2>1. \/ result = Run
        \/ result = Fail(payload) /\ payload \in call.types
        \/ result = ErrorOf(Fault, <<>>)
    BY <1>4 DEF CallResults
  <2> HIDE DEF payload
  <2>2. QED
    BY <1>1, <1>2, <1>4, <2>1
<1>5. QED
  BY <1>3, <1>4

(* The error applyUserFunction lets out of a function is a runtime error or *)
(* one of the function's declared error structs, also when a deferred call  *)
(* has replaced the failure of the body.                                    *)
THEOREM ErrorsDeclared == Spec => OnlyDeclaredErrorsEscape
<1> DEFINE Escape ==
      /\ Crossing /\ Answer.kind = "error"
      /\ Top.deferred => Answer # Last(Under).failure
      => Answer.type \in RuntimeErrors \cup Top.types
<1>1. ASSUME TypeInv, CleanupInv, ErrorInv, [Next]_vars PROVE Escape
  <2>1. SUFFICES ASSUME Crossing, Answer.kind = "error",
                        Top.deferred => Answer # Last(Under).failure
                 PROVE  Answer.type \in RuntimeErrors \cup Top.types
    OBVIOUS
  <2>2. /\ stack # <<>> /\ Top.kind = "Call" /\ Top.unwinding
        /\ Len(stack') < Len(stack)
    BY <2>1 DEF Crossing
  <2>3. FinishCall \/ FinishModule \/ FinishScript
    BY <1>1, <2>2, OnlyFinishingLeaves
  <2>4. ~FinishModule
    BY <2>2 DEF FinishModule
  <2>5. ~FinishScript
    BY <1>1, <2>2, ErrorDomains DEF FinishScript, ErrorInv, LevelInv
  <2>6. Finish(CallResults(Top))
    BY <2>3, <2>4, <2>5 DEF FinishCall
  <2>7. /\ Len(stack) > 1 /\ contexts' = Front(contexts)
        /\ \E result \in CallResults(Top) : Answered(result)
    BY <2>6, FinishAnswers
  <2>8. PICK result \in CallResults(Top) : Answered(result)
    BY <2>7
  <2>9. result \in Signal /\ Answerable(result, Top.level)
    BY <1>1, <2>2, ResultsType, ResultsSound
  <2>10. result.kind = "error" /\ Answer.type = result.type
    BY <1>1, <2>1, <2>2, <2>7, <2>8, <2>9, AnswerArrives
  <2>11. QED
    BY <2>10, CallErrors
<1>2. TypeInv /\ CleanupInv /\ ErrorInv /\ [Next]_vars => [Escape]_vars
  BY <1>1
<1>3. QED
  BY <1>2, ErrorInvariant, PTL DEF Spec, OnlyDeclaredErrorsEscape

(* Whatever the body of a function, module or script returned, an error of *)
(* its own or of one of its deferred calls is not lost when it is left.     *)
THEOREM FailuresKept == Spec => FailuresSurviveUnwinding
<1> DEFINE Kept ==
      /\ stack # <<>> /\ Top.unwinding /\ Len(stack') < Len(stack)
      /\ "error" \in {Top.held.kind, Top.failure.kind}
      => IF stack' = <<>> THEN signal'.type # None
                          ELSE Answer.kind = "error"
<1>1. ASSUME TypeInv, CleanupInv, ErrorInv, [Next]_vars PROVE Kept
  <2>1. SUFFICES ASSUME stack # <<>>, Top.unwinding, Len(stack') < Len(stack),
                        "error" \in {Top.held.kind, Top.failure.kind}
                 PROVE  IF stack' = <<>> THEN signal'.type # None
                                         ELSE Answer.kind = "error"
    OBVIOUS
  <2>2. Unwound(Top).kind = "error"
    BY <2>1 DEF Unwound
  <2>3. CASE FinishScript
    <3>1. stack' = <<>> /\ signal'.type = Unwound(Top).type
      BY <2>2, <2>3 DEF FinishScript
    <3>2. Unwound(Top).type # None
      BY <1>1, <2>1, <2>2, TopSound DEF Unwound, Sound
    <3>3. QED
      BY <3>1, <3>2
  <2>4. ASSUME NEW results \in SUBSET Signal, Finish(results),
               \A result \in results :
                 Answerable(result, Top.level) /\ result.kind = "error"
        PROVE  stack' # <<>> /\ Answer.kind = "error"
    <3>1. /\ Len(stack) > 1 /\ contexts' = Front(contexts)
          /\ \E result \in results : Answered(result)
      BY <2>4, FinishAnswers
    <3>2. PICK result \in results : Answered(result)
      BY <3>1
    <3>3. QED
      BY <1>1, <2>1, <2>4, <3>1, <3>2, AnswerArrives
  <2>5. CASE FinishCall
    BY <1>1, <2>1, <2>2, <2>4, <2>5, ResultsType, ResultsSound, CallErrors
       DEF FinishCall
  <2>6. CASE FinishModule
    <3>1. ModuleResults(Top) = {Unwound(Top)}
      BY <2>2 DEF ModuleResults
    <3>2. QED
      BY <1>1, <2>1, <2>2, <2>4, <2>6, <3>1, ResultsType, ResultsSound
         DEF FinishModule
  <2>7. QED
    BY <1>1, <2>1, <2>3, <2>5, <2>6, OnlyFinishingLeaves
<1>2. TypeInv /\ CleanupInv /\ ErrorInv /\ [Next]_vars => [Kept]_vars
  BY <1>1
<1>3. QED
  BY <1>2, ErrorInvariant, PTL DEF Spec, FailuresSurviveUnwinding

-----------------------------------------------------------------------------
(* The contexts of an evaluator and the invocations in progress.           *)

LEMMA ActiveFinite ==
  ASSUME NEW s, NEW from \in Nat, NEW to \in Nat
  PROVE  /\ IsFiniteSet(ActiveIn(s, from, to))
         /\ Cardinality(ActiveIn(s, from, to)) \in Nat
<1>1. IsFiniteSet(from..to)
  BY FS_Interval
<1>2. ActiveIn(s, from, to) \in SUBSET (from..to)
  BY DEF ActiveIn
<1>3. QED
  BY <1>1, <1>2, FS_Subset, FS_CardinalityType

\* The place of an invocation in the list.
LEMMA PlaceInList ==
  ASSUME NEW s, NEW from \in Nat, NEW to \in Nat, NEW p \in ActiveIn(s, from, to)
  PROVE  /\ p \in Nat
         /\ Cardinality(ActiveIn(s, from, p)) \in 1..Cardinality(ActiveIn(s, from, to))
<1>1. p \in from..to /\ p \in Nat /\ p \in from..p
  BY DEF ActiveIn
<1>2. /\ ActiveIn(s, from, p) \in SUBSET ActiveIn(s, from, to)
      /\ p \in ActiveIn(s, from, p)
  BY <1>1 DEF ActiveIn
<1>3. /\ Cardinality(ActiveIn(s, from, p)) <= Cardinality(ActiveIn(s, from, to))
      /\ Cardinality(ActiveIn(s, from, p)) # 0
  BY <1>1, <1>2, ActiveFinite, FS_Subset, FS_EmptySet
<1>4. QED
  BY <1>1, <1>3, ActiveFinite

LEMMA ActiveNext ==
  ASSUME NEW s, NEW from \in Nat, NEW n \in Nat, from <= n + 1
  PROVE  /\ s[n + 1].kind \notin Lifetimes =>
              ActiveIn(s, from, n + 1) = ActiveIn(s, from, n)
         /\ s[n + 1].kind \in Lifetimes =>
              /\ ActiveIn(s, from, n + 1) = ActiveIn(s, from, n) \cup {n + 1}
              /\ Cardinality(ActiveIn(s, from, n + 1)) =
                   Cardinality(ActiveIn(s, from, n)) + 1
<1>1. from..n+1 = (from..n) \cup {n + 1} /\ n + 1 \notin from..n
  OBVIOUS
<1>2. CASE s[n + 1].kind \notin Lifetimes
  BY <1>1, <1>2 DEF ActiveIn
<1>3. CASE s[n + 1].kind \in Lifetimes
  <2>1. ActiveIn(s, from, n + 1) = ActiveIn(s, from, n) \cup {n + 1}
        /\ n + 1 \notin ActiveIn(s, from, n)
    BY <1>1, <1>3 DEF ActiveIn
  <2>2. QED
    BY <1>3, <2>1, ActiveFinite, FS_AddElement
<1>4. QED
  BY <1>2, <1>3

LEMMA NamedKept ==
  ASSUME NEW s, NEW s2, NEW ts, NEW ts2, NEW c, NEW n \in Nat,
         Alike(s, s2, n), ts \subseteq ts2, Named(s, ts, c, n)
  PROVE  Named(s2, ts2, c, n)
<1>1. PICK from \in 1..n, under \in Seq(Nat) : NamedFrom(s, ts, c, from, under, n)
  BY DEF Named
<1>2. Captures(ts) \subseteq Captures(ts2)
  BY DEF Captures
<1>3. \A p \in 1..n : ActiveIn(s2, from + 1, p) = ActiveIn(s, from + 1, p)
  BY DEF ActiveIn, Alike
<1>4. n \in 1..n
  BY <1>1
<1>5. \A p \in ActiveIn(s, from + 1, n) : p \in 1..n /\ s2[p].env = s[p].env
  BY DEF ActiveIn, Alike
<1>6. Lists(s2, c, under, from + 1, n)
  BY <1>1, <1>3, <1>4, <1>5 DEF NamedFrom, Lists
<1>7. /\ s2[from].kind = "Template" <=> s[from].kind = "Template"
      /\ \A p \in from+1..n : s2[p].kind # "Template"
  <2>1. \A p \in from+1..n : p \in 1..n
    OBVIOUS
  <2>2. QED
    BY <1>1, <2>1 DEF NamedFrom, Alike
<1>8. NamedFrom(s2, ts2, c, from, under, n)
  BY <1>1, <1>2, <1>6, <1>7 DEF NamedFrom
<1>9. QED
  BY <1>8 DEF Named

\* Blocks, loops and operands are not named.
LEMMA NamedPlain ==
  ASSUME NEW s, NEW ts, NEW c, NEW n \in Nat \ {0},
         s[n + 1].kind \notin Lifetimes \cup {"Template"}
  PROVE  Named(s, ts, c, n) <=> Named(s, ts, c, n + 1)
<1>1. ASSUME NEW from \in 1..n, NEW under \in Seq(Nat)
      PROVE  NamedFrom(s, ts, c, from, under, n)
               <=> NamedFrom(s, ts, c, from, under, n + 1)
  <2>1. ActiveIn(s, from + 1, n + 1) = ActiveIn(s, from + 1, n)
    BY ActiveNext
  <2>2. from+1..n+1 = (from+1..n) \cup {n + 1}
    OBVIOUS
  <2>3. QED
    BY <2>1, <2>2 DEF NamedFrom, Lists
<1>2. \A under \in Seq(Nat) : ~NamedFrom(s, ts, c, n + 1, under, n + 1)
  BY DEF NamedFrom
<1>3. 1..n+1 = (1..n) \cup {n + 1}
  OBVIOUS
<1>4. QED
  BY <1>1, <1>2, <1>3 DEF Named

LEMMA NamedEntered ==
  ASSUME NEW s, NEW ts, NEW c \in Seq(Nat), NEW n \in Nat \ {0},
         s[n + 1].kind \in Lifetimes, s[n + 1].env \in Nat, Named(s, ts, c, n)
  PROVE  Named(s, ts, Append(c, s[n + 1].env), n + 1)
<1> DEFINE e == s[n + 1].env
           d == Append(c, e)
<1>1. PICK from \in 1..n, under \in Seq(Nat) : NamedFrom(s, ts, c, from, under, n)
  BY DEF Named
<1> DEFINE before == ActiveIn(s, from + 1, n)
<1>2. /\ Len(d) = Len(c) + 1 /\ d[Len(c) + 1] = e
      /\ \A i \in 1..Len(c) : d[i] = c[i]
      /\ Len(c) \in Nat /\ Len(under) \in Nat /\ DOMAIN under = 1..Len(under)
  BY AppendProperties
<1>3. /\ ActiveIn(s, from + 1, n + 1) = before \cup {n + 1}
      /\ Cardinality(ActiveIn(s, from + 1, n + 1)) = Cardinality(before) + 1
      /\ Cardinality(before) \in Nat
  <2>1. PICK first \in Nat : first = from + 1 /\ first <= n + 1 /\ n \in Nat
    OBVIOUS
  <2>2. /\ ActiveIn(s, first, n + 1) = ActiveIn(s, first, n) \cup {n + 1}
        /\ Cardinality(ActiveIn(s, first, n + 1)) =
             Cardinality(ActiveIn(s, first, n)) + 1
    BY <2>1, ActiveNext
  <2>3. Cardinality(ActiveIn(s, first, n)) \in Nat
    BY <2>1, ActiveFinite
  <2>4. QED
    BY <2>1, <2>2, <2>3
<1>4. /\ Len(c) = Len(under) + Cardinality(before)
      /\ \A i \in DOMAIN under : c[i] = under[i]
      /\ \A p \in before :
           c[Len(under) + Cardinality(ActiveIn(s, from + 1, p))] = s[p].env
  BY <1>1 DEF NamedFrom, Lists
<1> HIDE DEF d, e
<1>5. \A i \in DOMAIN under : d[i] = under[i]
  BY <1>2, <1>3, <1>4
<1>6. ASSUME NEW p \in before
      PROVE  d[Len(under) + Cardinality(ActiveIn(s, from + 1, p))] = s[p].env
  <2>1. Cardinality(ActiveIn(s, from + 1, p)) \in 1..Cardinality(before)
    BY PlaceInList
  <2>2. PICK k \in 1..Cardinality(before) : k = Cardinality(ActiveIn(s, from + 1, p))
    BY <2>1
  <2>3. Len(under) + k \in 1..Len(c)
    BY <1>2, <1>3, <1>4
  <2>4. c[Len(under) + k] = s[p].env
    BY <1>4, <2>2
  <2>5. QED
    BY <1>2, <2>2, <2>3, <2>4
<1>7. d[Len(under) + Cardinality(ActiveIn(s, from + 1, n + 1))] = s[n + 1].env
  BY <1>2, <1>3, <1>4 DEF e
<1>8. Len(d) = Len(under) + Cardinality(ActiveIn(s, from + 1, n + 1))
  BY <1>2, <1>3, <1>4
<1>9. Lists(s, d, under, from + 1, n + 1)
  BY <1>3, <1>5, <1>6, <1>7, <1>8 DEF Lists
<1>10. /\ \A p \in from+1..n+1 : s[p].kind # "Template"
       /\ IF s[from].kind = "Template" THEN under \in Captures(ts)
                                       ELSE from = 1 /\ under = <<>>
  <2>1. \A p \in from+1..n+1 : p \in from+1..n \/ p = n + 1
    OBVIOUS
  <2>2. s[n + 1].kind # "Template"
    BY DEF Lifetimes
  <2>3. QED
    BY <1>1, <2>1, <2>2 DEF NamedFrom
<1>11. NamedFrom(s, ts, d, from, under, n + 1) /\ from \in 1..n+1
  BY <1>9, <1>10 DEF NamedFrom
<1>12. QED
  BY <1>11 DEF Named, d, e

LEMMA NamedLeft ==
  ASSUME NEW s, NEW ts, NEW c \in Seq(Nat), NEW n \in Nat \ {0},
         s[n + 1].kind \in Lifetimes, Named(s, ts, c, n + 1)
  PROVE  Named(s, ts, Front(c), n)
<1> DEFINE d == Front(c)
<1>1. PICK from \in 1..n+1, under \in Seq(Nat) :
        NamedFrom(s, ts, c, from, under, n + 1)
  BY DEF Named
<1>2. from \in 1..n
  <2>1. from # n + 1
    BY <1>1 DEF NamedFrom, Lifetimes
  <2>2. QED
    BY <2>1
<1> DEFINE before == ActiveIn(s, from + 1, n)
<1>3. /\ ActiveIn(s, from + 1, n + 1) = before \cup {n + 1}
      /\ Cardinality(ActiveIn(s, from + 1, n + 1)) = Cardinality(before) + 1
      /\ Cardinality(before) \in Nat
  <2>1. PICK first \in Nat : first = from + 1 /\ first <= n + 1 /\ n \in Nat
    BY <1>2
  <2>2. /\ ActiveIn(s, first, n + 1) = ActiveIn(s, first, n) \cup {n + 1}
        /\ Cardinality(ActiveIn(s, first, n + 1)) =
             Cardinality(ActiveIn(s, first, n)) + 1
    BY <2>1, ActiveNext
  <2>3. Cardinality(ActiveIn(s, first, n)) \in Nat
    BY <2>1, ActiveFinite
  <2>4. QED
    BY <2>1, <2>2, <2>3
<1>4. /\ Len(c) = Len(under) + Cardinality(ActiveIn(s, from + 1, n + 1))
      /\ \A i \in DOMAIN under : c[i] = under[i]
      /\ \A p \in ActiveIn(s, from + 1, n + 1) :
           c[Len(under) + Cardinality(ActiveIn(s, from + 1, p))] = s[p].env
  BY <1>1 DEF NamedFrom, Lists
<1>5. Len(under) \in Nat /\ DOMAIN under = 1..Len(under) /\ Len(c) \in Nat
  OBVIOUS
<1>6. /\ Len(d) = Len(c) - 1 /\ \A i \in 1..Len(c)-1 : d[i] = c[i]
  <2>1. c # <<>>
    BY <1>3, <1>4, <1>5
  <2>2. QED
    BY <2>1, FrontType
<1> HIDE DEF d
<1>7. \A i \in DOMAIN under : d[i] = under[i]
  BY <1>3, <1>4, <1>5, <1>6
<1>8. ASSUME NEW p \in before
      PROVE  d[Len(under) + Cardinality(ActiveIn(s, from + 1, p))] = s[p].env
  <2>1. Cardinality(ActiveIn(s, from + 1, p)) \in 1..Cardinality(before)
    BY PlaceInList
  <2>2. PICK k \in 1..Cardinality(before) : k = Cardinality(ActiveIn(s, from + 1, p))
    BY <2>1
  <2>3. Len(under) + k \in 1..Len(c)-1
    BY <1>3, <1>4, <1>5
  <2>4. c[Len(under) + k] = s[p].env
    BY <1>3, <1>4, <2>2
  <2>5. QED
    BY <1>6, <2>2, <2>3, <2>4
<1>9. Len(d) = Len(under) + Cardinality(before)
  BY <1>3, <1>4, <1>5, <1>6
<1>10. Lists(s, d, under, from + 1, n)
  BY <1>7, <1>8, <1>9 DEF Lists
<1>11. /\ \A p \in from+1..n : s[p].kind # "Template"
       /\ IF s[from].kind = "Template" THEN under \in Captures(ts)
                                       ELSE from = 1 /\ under = <<>>
  BY <1>1 DEF NamedFrom
<1>12. NamedFrom(s, ts, d, from, under, n)
  BY <1>10, <1>11 DEF NamedFrom
<1>13. QED
  BY <1>2, <1>12 DEF Named, d

\* Nothing is named right above the script or a template.
LEMMA NamedStart ==
  ASSUME NEW s, NEW ts, NEW c \in Seq(Nat), NEW n \in Nat \ {0},
         IF s[n].kind = "Template" THEN c \in Captures(ts) ELSE n = 1 /\ c = <<>>
  PROVE  Named(s, ts, c, n)
<1>1. n+1..n = {}
  OBVIOUS
<1>2. ActiveIn(s, n + 1, n) = {} /\ Cardinality(ActiveIn(s, n + 1, n)) = 0
  BY <1>1, FS_EmptySet DEF ActiveIn
<1>3. Len(c) + 0 = Len(c)
  OBVIOUS
<1>4. NamedFrom(s, ts, c, n, c, n)
  BY <1>1, <1>2, <1>3 DEF NamedFrom, Lists
<1>5. n \in 1..n
  OBVIOUS
<1>6. QED
  BY <1>4, <1>5 DEF Named
-----------------------------------------------------------------------------
(* Steps on the stack and the contexts.                                    *)

LEMMA AlikeBelow ==
  ASSUME NEW s, NEW s2, NEW n \in Nat, NEW m \in Nat, m <= n, Alike(s, s2, n)
  PROVE  Alike(s, s2, m)
<1>1. 1..m \subseteq 1..n
  OBVIOUS
<1>2. QED
  BY <1>1 DEF Alike

LEMMA AlikeSame ==
  ASSUME NEW s, NEW s2, NEW n \in Nat, \A p \in 1..n : s2[p] = s[p]
  PROVE  Alike(s, s2, n)
BY DEF Alike

\* What templates further down have saved.
LEMMA SavedKept ==
  ASSUME TypeInv, NamesInv, stack # <<>>, templates \subseteq templates',
         NEW n \in Nat, n <= Len(stack), Alike(stack, stack', n),
         NEW p \in 1..n, stack'[p].kind = "Template"
  PROVE  p > 1 /\ Named(stack', templates', stack'[p].saved, p - 1)
<1>1. p \in DOMAIN stack
  BY ErrorDomains
<1>2. stack[p].kind = "Template" /\ stack'[p].saved = stack[p].saved
  BY DEF Alike
<1>3. p > 1 /\ Named(stack, templates, stack[p].saved, p - 1)
  BY <1>1, <1>2 DEF NamesInv
<1>4. PICK m \in Nat : m = p - 1 /\ m <= n
  BY <1>3
<1>5. Alike(stack, stack', m)
  BY <1>4, AlikeBelow
<1>6. Named(stack', templates', stack[p].saved, m)
  BY <1>3, <1>4, <1>5, NamedKept
<1>7. QED
  BY <1>2, <1>3, <1>4, <1>6

LEMMA StillNamed ==
  ASSUME TypeInv, NamesInv, stack # <<>>, DOMAIN stack' = 1..Len(stack),
         Len(stack') = Len(stack), Alike(stack, stack', Len(stack)),
         contexts' = contexts, templates \subseteq templates'
  PROVE  NamesInv'
<1>1. PICK n \in Nat : n = Len(stack)
  BY ErrorDomains
<1>2. Named(stack', templates', contexts', n)
  <2>1. Named(stack, templates, contexts, n)
    BY <1>1 DEF NamesInv
  <2>2. QED
    BY <1>1, <2>1, NamedKept
<1>3. \A p \in DOMAIN stack' : stack'[p].kind = "Template" =>
        p > 1 /\ Named(stack', templates', stack'[p].saved, p - 1)
  BY <1>1, SavedKept
<1>4. QED
  BY <1>1, <1>2, <1>3 DEF NamesInv

LEMMA EnterNamed ==
  ASSUME TypeInv, NamesInv, stack # <<>>, NEW item \in Item,
         DOMAIN stack' = 1..Len(stack)+1, Len(stack') = Len(stack) + 1,
         Alike(stack, stack', Len(stack)), stack'[Len(stack) + 1] = item,
         EntersContext(item), templates' = templates
  PROVE  NamesInv'
<1>1. PICK n \in Nat \ {0} : n = Len(stack)
  BY ErrorDomains
<1>2. contexts \in Seq(Nat) /\ item.env \in Nat
  BY DEF TypeInv, TypeOK, Item
<1>3. Named(stack', templates', contexts, n)
  <2>1. Named(stack, templates, contexts, n)
    BY <1>1 DEF NamesInv
  <2>2. QED
    BY <1>1, <2>1, NamedKept
<1>4. stack'[n + 1] = item
  BY <1>1
<1>5. Named(stack', templates', contexts', n + 1)
  <2>1. CASE item.kind \in {"Operand", "Try", "Loop"} /\ contexts' = contexts
    <3>1. stack'[n + 1].kind \notin Lifetimes \cup {"Template"}
      BY <1>4, <2>1 DEF Lifetimes
    <3>2. Named(stack', templates', contexts, n + 1)
      BY <1>3, <3>1, NamedPlain
    <3>3. QED
      BY <2>1, <3>2
  <2>2. CASE item.kind \in Lifetimes /\ contexts' = Append(contexts, item.env)
    BY <1>2, <1>3, <1>4, <2>2, NamedEntered
  <2>3. CASE item.kind = "Template" /\ contexts' \in Captures(templates)
    <3>1. contexts' \in Seq(Nat)
      BY <2>3 DEF Captures, TypeInv, TypeOK
    <3>2. n + 1 \in Nat \ {0}
      OBVIOUS
    <3>3. QED
      BY <1>4, <2>3, <3>1, <3>2, NamedStart
  <2>4. QED
    BY <2>1, <2>2, <2>3 DEF EntersContext
<1>6. ASSUME NEW p \in DOMAIN stack', stack'[p].kind = "Template"
      PROVE  p > 1 /\ Named(stack', templates', stack'[p].saved, p - 1)
  <2>1. CASE p \in 1..n
    BY <1>1, <1>6, <2>1, SavedKept
  <2>2. CASE p = n + 1
    <3>1. stack'[p].saved = contexts
      BY <1>4, <1>6, <2>2 DEF EntersContext, Lifetimes
    <3>2. p > 1 /\ p - 1 = n
      BY <2>2
    <3>3. QED
      BY <1>3, <3>1, <3>2
  <2>3. QED
    BY <1>1, <1>6, <2>1, <2>2
<1>7. QED
  BY <1>1, <1>5, <1>6 DEF NamesInv

\* How contexts shrink with the construct left.
LeavesContext ==
  \/ Top.kind \notin Lifetimes \cup {"Template"} /\ contexts' = contexts
  \/ Top.kind \in Lifetimes /\ contexts' = Front(contexts)
  \/ Top.kind = "Template" /\ contexts' = Top.saved

LEMMA LeaveNamed ==
  ASSUME TypeInv, NamesInv, stack # <<>>, Len(stack) > 1,
         DOMAIN stack' = 1..Len(stack)-1, Len(stack') = Len(stack) - 1,
         Alike(stack, stack', Len(stack) - 1), LeavesContext,
         templates' = templates
  PROVE  NamesInv'
<1>1. PICK n \in Nat \ {0} : n = Len(stack) - 1 /\ n + 1 = Len(stack)
  BY ErrorDomains
<1>2. /\ Top = stack[n + 1] /\ n + 1 \in DOMAIN stack /\ contexts \in Seq(Nat)
      /\ Named(stack, templates, contexts, n + 1)
  BY <1>1, ErrorDomains DEF NamesInv, TypeInv, TypeOK
<1>3. Named(stack, templates, contexts', n)
  <2>1. CASE Top.kind \notin Lifetimes \cup {"Template"} /\ contexts' = contexts
    BY <1>2, <2>1, NamedPlain
  <2>2. CASE Top.kind \in Lifetimes /\ contexts' = Front(contexts)
    BY <1>2, <2>2, NamedLeft
  <2>3. CASE Top.kind = "Template" /\ contexts' = Top.saved
    <3>1. PICK m \in Nat : m = n + 1 /\ m - 1 = n
      OBVIOUS
    <3>2. m \in DOMAIN stack /\ stack[m].kind = "Template" /\ stack[m] = Top
      BY <1>2, <2>3, <3>1
    <3>3. Named(stack, templates, stack[m].saved, m - 1)
      BY <3>2 DEF NamesInv
    <3>4. QED
      BY <2>3, <3>1, <3>2, <3>3
  <2>4. QED
    BY <2>1, <2>2, <2>3 DEF LeavesContext
<1>4. Alike(stack, stack', n)
  BY <1>1
<1>5. Named(stack', templates', contexts', n)
  BY <1>3, <1>4, NamedKept
<1>6. \A p \in DOMAIN stack' : stack'[p].kind = "Template" =>
        p > 1 /\ Named(stack', templates', stack'[p].saved, p - 1)
  BY <1>1, <1>4, SavedKept
<1>7. QED
  BY <1>1, <1>5, <1>6 DEF NamesInv

\* The statements of the construct on top leave the stack as it is.
LEMMA SameNamed ==
  ASSUME TypeInv, NamesInv, stack # <<>>, stack' = stack, contexts' = contexts,
         templates \subseteq templates'
  PROVE  NamesInv'
<1>1. DOMAIN stack' = 1..Len(stack) /\ Len(stack') = Len(stack)
  BY ErrorDomains
<1>2. Alike(stack, stack', Len(stack))
  BY ErrorDomains, AlikeSame
<1>3. QED
  BY <1>1, <1>2, StillNamed

LEMMA PushNamed ==
  ASSUME TypeInv, NamesInv, stack # <<>>, NEW item \in Item, Push(item),
         EntersContext(item), templates' = templates
  PROVE  NamesInv'
<1>1. /\ stack' \in Seq(Item) /\ Len(stack') = Len(stack) + 1
      /\ \A p \in DOMAIN stack : stack'[p] = stack[p]
      /\ stack'[Len(stack) + 1] = item
  BY PushType DEF TypeInv
<1>2. DOMAIN stack = 1..Len(stack) /\ Len(stack) \in Nat
  BY ErrorDomains
<1>3. DOMAIN stack' = 1..Len(stack)+1
  BY <1>1
<1>4. Alike(stack, stack', Len(stack))
  BY <1>1, <1>2, AlikeSame
<1>5. QED
  BY <1>1, <1>3, <1>4, EnterNamed

LEMMA ReplaceNamed ==
  ASSUME TypeInv, NamesInv, stack # <<>>, NEW item \in Item, Replace(item),
         \/ item.kind = Top.kind /\ item.env = Top.env /\ item.saved = Top.saved
         \/ /\ Top.kind \notin Lifetimes \cup {"Template"}
            /\ item.kind \notin Lifetimes \cup {"Template"},
         contexts' = contexts, templates' = templates
  PROVE  NamesInv'
<1>1. /\ stack' \in Seq(Item) /\ Len(stack') = Len(stack)
      /\ \A p \in 1..Len(stack)-1 : stack'[p] = stack[p]
      /\ stack'[Len(stack)] = item
  BY ReplaceType DEF TypeInv
<1>2. Top = stack[Len(stack)] /\ Len(stack) \in Nat \ {0}
  BY ErrorDomains
<1>3. DOMAIN stack' = 1..Len(stack)
  BY <1>1
<1>4. \A p \in 1..Len(stack) : p \in 1..Len(stack)-1 \/ p = Len(stack)
  BY <1>2
<1>5. Alike(stack, stack', Len(stack))
  BY <1>1, <1>2, <1>4 DEF Alike
<1>6. QED
  BY <1>1, <1>3, <1>5, StillNamed

LEMMA PopNamed ==
  ASSUME TypeInv, NamesInv, stack # <<>>, Len(stack) > 1, stack' = Under,
         LeavesContext, templates' = templates
  PROVE  NamesInv'
<1>1. /\ stack' \in Seq(Item) /\ Len(stack') = Len(stack) - 1
      /\ \A p \in 1..Len(stack)-1 : stack'[p] = stack[p]
  BY FrontType DEF Under, TypeInv, TypeOK
<1>2. Len(stack) - 1 \in Nat
  BY ErrorDomains
<1>3. DOMAIN stack' = 1..Len(stack)-1
  BY <1>1
<1>4. Alike(stack, stack', Len(stack) - 1)
  BY <1>1, <1>2, AlikeSame
<1>5. QED
  BY <1>1, <1>3, <1>4, LeaveNamed
-----------------------------------------------------------------------------
(* One lemma per kind of action: the contexts stay named.                  *)

LEMMA StatementNames ==
  ASSUME TypeInv, NamesInv,
         \/ \E type \in AllErrors : RaiseError(type)
         \/ \E payload \in Errors \cup {None} : ReturnStatement(payload)
         \/ \E kind \in {"break", "continue"} : LoopControl(kind)
         \/ DeferStatement \/ TemplateLiteral
  PROVE  NamesInv'
<1>1. /\ stack # <<>> /\ stack' = stack /\ contexts' = contexts
      /\ templates \subseteq templates'
  BY DEF RaiseError, ReturnStatement, LoopControl, DeferStatement,
         TemplateLiteral, Running
<1>2. QED
  BY <1>1, SameNamed

LEMMA EnterNames ==
  ASSUME TypeInv, NamesInv,
         \/ EnterOperand
         \/ \E catches \in CatchClauses : EnterTry(catches)
         \/ EnterWhile \/ EnterFor
  PROVE  NamesInv'
<1>1. stack # <<>> /\ contexts' = contexts /\ templates' = templates
  BY DEF EnterOperand, EnterTry, EnterWhile, EnterFor, Running
<1>2. PICK item \in Item : Push(item) /\ item.kind \in {"Operand", "Try", "Loop"}
  BY EnterPushes
<1>3. QED
  BY <1>1, <1>2, PushNamed DEF EntersContext

LEMMA EnterDeeperNames ==
  ASSUME TypeInv, NamesInv,
         \/ \E declared \in SUBSET Errors, check \in ReturnChecks :
              CallFunction(declared, check)
         \/ ImportModule
         \/ \E t \in templates : EvalTemplate(t)
  PROVE  NamesInv'
<1>1. stack # <<>> /\ templates' = templates
  BY DEF CallFunction, ImportModule, EvalTemplate, Running
<1>2. PICK item \in Item : Push(item) /\ EntersContext(item)
  BY EnterDeeperPushes
<1>3. QED
  BY <1>1, <1>2, PushNamed

\* Blocks, operands and loops never are the script at the bottom.
LEMMA NotTheScript ==
  ASSUME TypeInv, ErrorInv, stack # <<>>, Top.kind # "Program"
  PROVE  Len(stack) > 1
<1>1. /\ Len(stack) \in Nat \ {0} /\ Top = stack[Len(stack)]
      /\ stack[1].kind = "Program"
  BY ErrorDomains DEF ErrorInv, LevelInv
<1>2. QED
  BY <1>1

LEMMA BlockNames ==
  ASSUME TypeInv, ErrorInv, NamesInv,
         EndBlock \/ SignalAtOperand \/ PassThrough \/ ExitLoop
  PROVE  NamesInv'
<1>1. /\ stack # <<>> /\ contexts' = contexts /\ templates' = templates
      /\ stack' = Under
  BY DEF EndBlock, SignalAtOperand, PassThrough, ExitLoop, IterationEnds,
         Running, Arriving, Leave
<1>2. Top.kind \in {"Operand", "Try", "Catch", "Loop"}
  BY DEF EndBlock, SignalAtOperand, PassThrough, ExitLoop, IterationEnds
<1>3. LeavesContext
  BY <1>1, <1>2 DEF LeavesContext, Lifetimes
<1>4. QED
  BY <1>1, <1>2, <1>3, NotTheScript, PopNamed

LEMMA CatchErrorNames ==
  ASSUME TypeInv, NamesInv, CatchError
  PROVE  NamesInv'
<1> DEFINE item == [Inside("Catch") EXCEPT !.env = NextEnv]
<1>1. /\ stack # <<>> /\ Replace(item) /\ Top.kind = "Try"
      /\ contexts' = contexts /\ templates' = templates
  BY DEF CatchError, Arriving
<1>2. Inside("Catch") \in Item /\ Inside("Catch").kind = "Catch"
  BY <1>1, InsideType, NewItemFields DEF Kinds, Inside
<1>3. item \in Item /\ item.kind = "Catch"
  BY <1>2, NextEnvType DEF Item, TypeInv
<1> HIDE DEF item
<1>4. {"Try", "Catch"} \cap (Lifetimes \cup {"Template"}) = {}
  BY DEF Lifetimes
<1>5. QED
  BY <1>1, <1>3, <1>4, ReplaceNamed

\* Only a for loop has an environment per iteration.
LEMMA NextIterationNames ==
  ASSUME TypeInv, NamesInv, NextIteration
  PROVE  NamesInv'
<1>1. /\ stack # <<>> /\ Top.kind = "Loop"
      /\ contexts' = contexts /\ templates' = templates
  BY DEF NextIteration, IterationEnds, Running, Arriving
<1>2. CASE Top.fresh
  <2> DEFINE item == [Top EXCEPT !.env = NextEnv]
  <2>1. Replace(item)
    BY <1>2 DEF NextIteration
  <2>2. item \in Item /\ item.kind = "Loop"
    BY <1>1, ErrorDomains, NextEnvType DEF Item, TypeInv
  <2> HIDE DEF item
  <2>3. "Loop" \notin Lifetimes \cup {"Template"}
    BY DEF Lifetimes
  <2>4. QED
    BY <1>1, <2>1, <2>2, <2>3, ReplaceNamed
<1>3. CASE ~Top.fresh
  <2>1. stack' = stack
    BY <1>3 DEF NextIteration
  <2>2. QED
    BY <1>1, <2>1, SameNamed
<1>4. QED
  BY <1>2, <1>3

LEMMA LeaveTemplateNames ==
  ASSUME TypeInv, ErrorInv, NamesInv, LeaveTemplate
  PROVE  NamesInv'
<1>1. /\ stack # <<>> /\ Top.kind = "Template" /\ contexts' = Top.saved
      /\ stack' = Under /\ templates' = templates
  BY DEF LeaveTemplate, Running, Arriving, Leave
<1>2. LeavesContext
  BY <1>1 DEF LeavesContext
<1>3. QED
  BY <1>1, <1>2, NotTheScript, PopNamed

LEMMA TakeDefersNames ==
  ASSUME TypeInv, NamesInv, TakeDefers
  PROVE  NamesInv'
<1> DEFINE owner == Owner(Top.env)
           item == [Top EXCEPT !.unwinding = TRUE, !.todo = defers[owner],
                               !.held = signal]
<1>1. /\ stack # <<>> /\ Replace(item)
      /\ contexts' = contexts /\ templates' = templates
  BY DEF TakeDefers, Running, Arriving
<1>2. defers[owner] \in Seq(Nat) /\ Top \in Item
  BY <1>1, TopEnv, OwnerType, TopType DEF TypeInv
<1>3. /\ item \in Item /\ item.kind = Top.kind /\ item.env = Top.env
      /\ item.saved = Top.saved
  BY <1>2 DEF Item, TypeInv, TypeOK
<1> HIDE DEF item
<1>4. QED
  BY <1>1, <1>3, ReplaceNamed

LEMMA RunNativeDeferNames ==
  ASSUME TypeInv, NamesInv, NEW outcome \in AllErrors \cup {None},
         RunNativeDefer(outcome)
  PROVE  NamesInv'
<1> DEFINE failure == IF outcome = None THEN Top.failure ELSE Fail(outcome)
           item == [Top EXCEPT !.todo = Undrained(@),
                      !.failure = IF outcome = None THEN @ ELSE Fail(outcome)]
<1>1. /\ stack # <<>> /\ Undrained(Top.todo) \in Seq(Nat) /\ Replace(item)
      /\ contexts' = contexts /\ templates' = templates
  BY InvokeLastTypes DEF RunNativeDefer, InvokeLast, Unwinding
<1>2. failure \in Signal /\ Top \in Item
  BY <1>1, TopType, FailType DEF Item, TypeInv
<1>3. /\ item \in Item /\ item.kind = Top.kind /\ item.env = Top.env
      /\ item.saved = Top.saved
  BY <1>1, <1>2 DEF Item
<1> HIDE DEF item
<1>4. QED
  BY <1>1, <1>3, ReplaceNamed

LEMMA RunSilverDeferNames ==
  ASSUME TypeInv, NamesInv, NEW declared \in SUBSET Errors,
         NEW check \in ReturnChecks, RunSilverDefer(declared, check)
  PROVE  NamesInv'
<1> DEFINE item == [Top EXCEPT !.todo = Undrained(@)]
           call == [NewItem("Call", NextEnv, Top.level + 1) EXCEPT
                      !.types = declared, !.check = check, !.deferred = TRUE]
           n == Len(stack)
<1>1. /\ stack # <<>> /\ Undrained(Top.todo) \in Seq(Nat)
      /\ contexts' = Append(contexts, NextEnv) /\ templates' = templates
  BY InvokeLastTypes DEF RunSilverDefer, InvokeLast, Unwinding, Invoke
<1>2. /\ stack' \in Seq(Item) /\ Len(stack') = n + 1
      /\ \A p \in 1..n-1 : stack'[p] = stack[p]
      /\ stack'[n] = item /\ stack'[n + 1] = call
  BY RunSilverDeferShape
<1>3. /\ DOMAIN stack = 1..n /\ n \in Nat \ {0}
      /\ Top = stack[n] /\ Top \in Item
  BY <1>1, ErrorDomains
<1>4. /\ item.kind = Top.kind /\ item.env = Top.env /\ item.saved = Top.saved
  BY <1>1, <1>3 DEF Item
<1>5. call \in Item /\ call.kind = "Call" /\ call.env = NextEnv
  BY <1>1, CallEnters
<1> HIDE DEF item, call, n
<1>6. DOMAIN stack' = 1..n+1
  BY <1>2, <1>3
<1>7. \A p \in 1..n : p \in 1..n-1 \/ p = n
  BY <1>3
<1>8. Alike(stack, stack', n)
  BY <1>2, <1>3, <1>4, <1>7 DEF Alike
<1>9. EntersContext(call)
  BY <1>1, <1>5 DEF EntersContext, Lifetimes
<1>10. QED
  BY <1>1, <1>2, <1>5, <1>6, <1>8, <1>9, EnterNamed DEF n

LEMMA FinishNames ==
  ASSUME TypeInv, ErrorInv, NamesInv, NEW results \in SUBSET Signal,
         Finish(results), Top.kind \in Lifetimes,
         \A result \in results : Answerable(result, Top.level)
  PROVE  NamesInv'
<1>1. /\ stack # <<>> /\ Len(stack) > 1 /\ contexts' = Front(contexts)
      /\ templates' = templates
  BY FinishAnswers DEF Unwinding, Finish
<1>2. LeavesContext
  BY <1>1 DEF LeavesContext
<1>3. PICK result \in results : Answered(result)
  BY FinishAnswers
<1> DEFINE caller == [fn |-> Current(contexts'), level |-> Top.level - 1]
           answer == AtCaller(result, caller)
<1>4. answer \in Signal
  BY <1>1, <1>3, AnswerSound
<1>5. CASE ~Top.deferred
  <2>1. stack' = Under
    BY <1>3, <1>5 DEF Answered, Leave
  <2>2. QED
    BY <1>1, <1>2, <2>1, PopNamed
<1>6. CASE Top.deferred
  <2> DEFINE below == Last(Under)
             item == IF answer.kind = "error"
                       THEN [below EXCEPT !.failure = answer] ELSE below
  <2>1. stack' = Append(Front(Under), item)
    BY <1>3, <1>6 DEF Answered
  <2>2. below \in Item
    BY <1>1, Below
  <2> HIDE DEF answer, below
  <2>3. /\ item \in Item /\ item.kind = below.kind /\ item.env = below.env
        /\ item.saved = below.saved
    BY <1>4, <2>2 DEF Item
  <2> HIDE DEF item
  <2>4. PICK n \in Nat : n = Len(stack) - 1
    <3>1. Len(stack) \in Nat
      BY <1>1, ErrorDomains
    <3>2. Len(stack) - 1 \in Nat
      BY <1>1, <3>1
    <3>3. QED
      BY <3>2
  <2>5. /\ DOMAIN stack' = 1..n /\ Len(stack') = n
        /\ \A p \in 1..Len(stack)-2 : stack'[p] = stack[p]
        /\ stack'[n] = item /\ below = stack[n]
    BY <1>1, <2>1, <2>3, <2>4, AppendedBelow DEF below
  <2>6. \A p \in 1..n : p \in 1..Len(stack)-2 \/ p = n
    BY <1>1, <2>4, ErrorDomains
  <2>7. Alike(stack, stack', n)
    BY <2>3, <2>5, <2>6 DEF Alike
  <2>8. QED
    BY <1>1, <1>2, <2>4, <2>5, <2>7, LeaveNamed
<1>7. QED
  BY <1>5, <1>6

LEMMA FinishScriptNames ==
  ASSUME FinishScript
  PROVE  NamesInv'
<1>1. stack' = <<>>
  BY DEF FinishScript
<1>2. QED
  BY <1>1 DEF NamesInv

-----------------------------------------------------------------------------
LEMMA InitNames == Init => NamesInv
<1> SUFFICES ASSUME Init PROVE NamesInv
  OBVIOUS
<1> DEFINE item == NewItem("Program", 1, 0)
<1>1. stack = <<item>> /\ contexts = <<>> /\ item.kind = "Program"
  BY NewItemFields DEF Init
<1> HIDE DEF item
<1>2. /\ DOMAIN stack = {1} /\ stack[1].kind = "Program" /\ Len(stack) = 1
      /\ contexts = <<>> /\ contexts \in Seq(Nat)
  BY <1>1
<1>3. Named(stack, templates, contexts, 1)
  <2>1. stack[1].kind # "Template"
    BY <1>2
  <2>2. PICK n \in Nat \ {0} : n = 1
    OBVIOUS
  <2>3. Named(stack, templates, contexts, n)
    BY <1>2, <2>1, <2>2, NamedStart
  <2>4. QED
    BY <2>2, <2>3
<1>4. QED
  BY <1>2, <1>3 DEF NamesInv

LEMMA NextNames ==
  ASSUME TypeInv, ErrorInv, NamesInv, [Next]_vars
  PROVE  NamesInv'
<1>1. CASE Statement
  BY <1>1, StatementNames, EnterNames, EnterDeeperNames DEF Statement
<1>2. CASE Propagate
  BY <1>2, BlockNames, CatchErrorNames, NextIterationNames, LeaveTemplateNames
     DEF Propagate
<1>3. CASE Unwind
  <2>1. CASE FinishCall
    <3>1. stack # <<>> /\ Top.kind \in Lifetimes /\ Finish(CallResults(Top))
      BY <2>1 DEF FinishCall, Unwinding, Lifetimes
    <3>2. QED
      BY <3>1, ResultsType, ResultsSound, FinishNames
  <2>2. CASE FinishModule
    <3>1. stack # <<>> /\ Top.kind \in Lifetimes /\ Finish(ModuleResults(Top))
      BY <2>2 DEF FinishModule, Unwinding, Lifetimes
    <3>2. QED
      BY <3>1, ResultsType, ResultsSound, FinishNames
  <2>3. QED
    BY <1>3, <2>1, <2>2, TakeDefersNames, RunNativeDeferNames,
       RunSilverDeferNames, FinishScriptNames DEF Unwind
<1>4. CASE Finished \/ UNCHANGED vars
  <2>1. UNCHANGED vars
    BY <1>4 DEF Finished
  <2>2. QED
    BY <2>1 DEF vars, NamesInv
<1>5. QED
  BY <1>1, <1>2, <1>3, <1>4 DEF Next

\* The innermost template is the mark, and the list above it is the contexts.
LEMMA NamesMatch ==
  ASSUME TypeInv, LevelInv, NamesInv
  PROVE  ContextsMatchActivations
<1> SUFFICES ASSUME stack # <<>> PROVE ContextsMatchActivations
  BY DEF ContextsMatchActivations
<1>1. PICK n \in Nat \ {0} : n = Len(stack) /\ DOMAIN stack = 1..n
  BY ErrorDomains
<1>2. PICK from \in 1..n, under \in Seq(Nat) :
        NamedFrom(stack, templates, contexts, from, under, n)
  BY <1>1 DEF NamesInv, Named
<1>3. \A first, last : ActiveBetween(first, last) = ActiveIn(stack, first, last)
  BY DEF ActiveBetween, ActiveIn
<1>4. /\ Len(contexts) = Len(under) + Cardinality(ActiveBetween(from + 1, n))
      /\ \A i \in DOMAIN under : contexts[i] = under[i]
      /\ \A p \in ActiveBetween(from + 1, n) :
           contexts[Len(under) + Cardinality(ActiveBetween(from + 1, p))]
             = stack[p].env
  BY <1>2, <1>3 DEF NamedFrom, Lists
<1> DEFINE marks == {p \in DOMAIN stack : stack[p].kind = "Template"}
           mark  == IF marks = {} THEN 1
                    ELSE CHOOSE p \in marks : \A q \in marks : q <= p
<1>5. \A q \in marks : q <= from
  <2>1. \A q \in 1..n : q <= from \/ q \in from+1..n
    OBVIOUS
  <2>2. QED
    BY <1>1, <1>2, <2>1 DEF NamedFrom
<1>6. /\ mark = from
      /\ under \in IF marks = {} THEN {<<>>} ELSE {t.contexts : t \in templates}
  <2>1. CASE stack[from].kind = "Template"
    <3>1. from \in marks /\ from \in Nat /\ marks \subseteq Nat
      BY <1>1, <1>2, <2>1
    <3>2. \A p \in marks : (\A q \in marks : q <= p) => p = from
      BY <1>5, <3>1
    <3>3. mark = from
      <4> HIDE DEF marks
      <4>1. QED
        BY <1>5, <3>1, <3>2
    <3>4. under \in {t.contexts : t \in templates}
      BY <1>2, <2>1 DEF NamedFrom, Captures
    <3>5. QED
      BY <3>1, <3>3, <3>4
  <2>2. CASE stack[from].kind # "Template"
    <3>1. from = 1 /\ under = <<>>
      BY <1>2, <2>2 DEF NamedFrom
    <3>2. marks = {}
      <4>1. \A q \in marks : q = 1
        BY <1>1, <1>5, <3>1
      <4>2. QED
        BY <2>2, <3>1, <4>1
    <3>3. QED
      BY <3>1, <3>2
  <2>3. QED
    BY <2>1, <2>2
<1>7. QED
  BY <1>1, <1>4, <1>6, ZenonT(60) DEF ContextsMatchActivations

(* The contexts an evaluator forks for a template and pops when a call, an  *)
(* import or a deferred call ends always name the invocations in progress   *)
(* above the innermost template, in their order, on top of the contexts the *)
(* template captured.                                                       *)
THEOREM ContextsCorrect == Spec => []ContextsMatchActivations
<1>1. Spec => []NamesInv
  <2>1. Init => NamesInv
    BY InitNames
  <2>2. TypeInv /\ CleanupInv /\ ErrorInv /\ NamesInv /\ [Next]_vars => NamesInv'
    BY NextNames
  <2>3. QED
    BY <2>1, <2>2, ErrorInvariant, PTL DEF Spec
<1>2. TypeInv /\ ErrorInv /\ NamesInv => ContextsMatchActivations
  BY NamesMatch DEF ErrorInv
<1>3. QED
  BY <1>1, <1>2, ErrorInvariant, PTL
=============================================================================
