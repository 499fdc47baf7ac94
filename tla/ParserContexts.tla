---------------------------- MODULE ParserContexts ----------------------------
(***************************************************************************)
(* The recursive descent of the parser (parser/*.go) as a stack of the     *)
(* constructs it is inside of, with the three pieces of context it keeps   *)
(* beside the Go stack: whether a brace would open a body instead of a     *)
(* struct literal, how many loops surround a break, and how many blocks    *)
(* surround an export.  Tokens are what the next step needs them to be: a  *)
(* construct ends after any number of tokens, well formed or not.          *)
(***************************************************************************)
EXTENDS Naturals, Sequences

CONSTANT MaxNesting     \* how deep constructs are nested

VARIABLES
    open,               \* the constructs being parsed, the innermost last
    stopAtBlockBrace,
    loopDepth,
    blockDepth,
    exportSeen,
    rejected            \* what the statement just parsed reported

contexts == <<stopAtBlockBrace, loopDepth, blockDepth>>
parserVars == <<open, contexts, exportSeen, rejected>>

\* A construct remembers the contexts its Go function saved.
Construct(kind) == [kind |-> kind, stop |-> stopAtBlockBrace, loops |-> loopDepth]

Inside(kinds) == open # <<>> /\ open[Len(open)].kind \in kinds
Innermost == open[Len(open)]
Outer == SubSeq(open, 1, Len(open) - 1)

\* Heads of if and switch restore what they found when the whole construct
\* ends, heads of loops before the body.
Heads == {"if_condition", "switch_value", "loop_head"}
\* blockDepth counts what parseBlockStatement parses, and no clause of a switch.
CountedBlocks == {"if_body", "loop_body", "function_body", "plain_block"}
StatementLists == CountedBlocks \cup {"clause"}
AtStatement == open = <<>> \/ Inside(StatementLists)
InExpression == ~Inside({"switch", "else", "alternative"})

Push(construct) == Len(open) < MaxNesting /\ open' = Append(open, construct)
Become(kind) == open' = Append(Outer, [Innermost EXCEPT !.kind = kind])

-----------------------------------------------------------------------------
(* Expressions.  The context of a head forbids struct literals.            *)

\* An if or a switch begins in any expression, a loop is a statement.
ParseHead(kind) ==
    /\ kind = "loop_head" => AtStatement
    /\ InExpression
    /\ Push(Construct(kind))
    /\ stopAtBlockBrace' = TRUE
    /\ UNCHANGED <<loopDepth, blockDepth, exportSeen>> /\ rejected' = {}

\* parseNestedExpression: between parentheses or brackets, in an argument
\* list, in an interpolation, or between the braces after a struct type, which
\* an operand before a brace is unless a head is being parsed.
ParseNestedExpression(kind) ==
    /\ kind = "struct_literal" => ~stopAtBlockBrace
    /\ InExpression
    /\ Push(Construct(kind))
    /\ stopAtBlockBrace' = FALSE
    /\ UNCHANGED <<loopDepth, blockDepth, exportSeen>> /\ rejected' = {}

\* Keys and values of a map are no nested expressions.
ParseMapLiteral ==
    /\ InExpression
    /\ Push(Construct("map"))
    /\ UNCHANGED <<contexts, exportSeen>> /\ rejected' = {}

ParseFunctionLiteralInLoop ==
    /\ InExpression
    /\ Push(Construct("function_body"))
    /\ blockDepth' = blockDepth + 1
    /\ UNCHANGED <<loopDepth, stopAtBlockBrace, exportSeen>> /\ rejected' = {}

\* A body of its own: it starts outside of every loop.
ParseFunctionLiteral ==
    /\ InExpression
    /\ Push(Construct("function_body"))
    /\ loopDepth' = 0
    /\ blockDepth' = blockDepth + 1
    /\ UNCHANGED <<stopAtBlockBrace, exportSeen>> /\ rejected' = {}

\* The body of a try or of one of its catch clauses.
ParseTryBlock ==
    /\ InExpression
    /\ Push(Construct("plain_block"))
    /\ blockDepth' = blockDepth + 1
    /\ UNCHANGED <<stopAtBlockBrace, loopDepth, exportSeen>> /\ rejected' = {}

-----------------------------------------------------------------------------
(* From the head to the body.                                              *)

ParseIfBody ==
    /\ Inside({"if_condition", "else"})
    /\ Become("if_body")
    /\ stopAtBlockBrace' = FALSE
    /\ blockDepth' = blockDepth + 1
    /\ UNCHANGED <<loopDepth, exportSeen>> /\ rejected' = {}

\* The body ends and else follows.
ParseElse ==
    /\ Inside({"if_body"})
    /\ Become("else")
    /\ blockDepth' = blockDepth - 1
    /\ UNCHANGED <<stopAtBlockBrace, loopDepth, exportSeen>> /\ rejected' = {}

\* parseIfExpression calls itself for else if, and both restore at the end.
ParseElseIf ==
    /\ Inside({"else"})
    /\ Len(open) < MaxNesting
    /\ open' = Append(Outer, [Innermost EXCEPT !.kind = "alternative"]) \o <<Construct("if_condition")>>
    /\ stopAtBlockBrace' = TRUE
    /\ UNCHANGED <<loopDepth, blockDepth, exportSeen>> /\ rejected' = {}

ParseLoopBody ==
    /\ Inside({"loop_head"})
    /\ Become("loop_body")
    /\ stopAtBlockBrace' = Innermost.stop
    /\ loopDepth' = loopDepth + 1
    /\ blockDepth' = blockDepth + 1
    /\ UNCHANGED exportSeen /\ rejected' = {}

ParseSwitchBody ==
    /\ Inside({"switch_value"})
    /\ Become("switch")
    /\ stopAtBlockBrace' = FALSE
    /\ UNCHANGED <<loopDepth, blockDepth, exportSeen>> /\ rejected' = {}

\* The value of a case, or the body of default.
ParseClause ==
    /\ Inside({"switch"})
    /\ \E kind \in {"case_value", "clause"} : Push(Construct(kind))
    /\ UNCHANGED <<contexts, exportSeen>> /\ rejected' = {}

ParseSwitchClauseBody ==
    /\ Inside({"case_value"})
    /\ Become("clause")
    /\ UNCHANGED <<contexts, exportSeen>> /\ rejected' = {}

-----------------------------------------------------------------------------
(* Leaving a construct, at its end or because a token is missing: a head   *)
(* that no body follows, a clause that no brace ends.                      *)

RestoresAfterBody ==
    {"nested", "struct_literal", "if_body", "else", "alternative", "switch", "loop_head"}
Restores ==
    {"nested", "struct_literal", "if_condition", "if_body", "else", "alternative",
     "switch_value", "switch", "loop_head"}

LeaveConstruct ==
    /\ open # <<>>
    /\ open' = Outer
    /\ stopAtBlockBrace' = IF Innermost.kind \in Restores THEN Innermost.stop ELSE stopAtBlockBrace
    /\ loopDepth' = CASE Innermost.kind = "loop_body" -> loopDepth - 1
                      [] Innermost.kind = "function_body" -> Innermost.loops
                      [] OTHER -> loopDepth
    /\ blockDepth' = IF Innermost.kind \in CountedBlocks THEN blockDepth - 1 ELSE blockDepth
    /\ UNCHANGED exportSeen /\ rejected' = {}

-----------------------------------------------------------------------------
(* Statements that the context decides about.                              *)

ParseBreakOrContinue ==
    /\ AtStatement
    /\ rejected' = IF loopDepth = 0 THEN {"loop control"} ELSE {}
    /\ UNCHANGED <<open, contexts, exportSeen>>

ParseExportStatement ==
    /\ AtStatement
    /\ rejected' = (IF blockDepth # 0 THEN {"nested export"} ELSE {})
                       \cup (IF exportSeen THEN {"second export"} ELSE {})
    /\ exportSeen' = TRUE
    /\ UNCHANGED <<open, contexts>>

ParserIdle ==
    /\ open = <<>> /\ stopAtBlockBrace = FALSE /\ loopDepth = 0 /\ blockDepth = 0
    /\ exportSeen = FALSE /\ rejected = {}

ParserNext ==
    \/ \E kind \in Heads : ParseHead(kind)
    \/ \E kind \in {"nested", "struct_literal"} : ParseNestedExpression(kind)
    \/ ParseMapLiteral
    \/ ParseFunctionLiteral \/ ParseTryBlock
    \/ ParseIfBody \/ ParseElse \/ ParseElseIf \/ ParseLoopBody
    \/ ParseSwitchBody \/ ParseClause \/ ParseSwitchClauseBody
    \/ LeaveConstruct \/ ParseBreakOrContinue \/ ParseExportStatement

ParserSpec == ParserIdle /\ [][ParserNext]_parserVars

-----------------------------------------------------------------------------
Positions(kinds) == {i \in DOMAIN open : open[i].kind \in kinds}
Latest(positions) == CHOOSE i \in positions : \A j \in positions : j <= i
AfterLast(kinds) ==
    IF Positions(kinds) = {} THEN DOMAIN open ELSE {i \in DOMAIN open : i > Latest(Positions(kinds))}

InLoop == Positions({"loop_body"}) \cap AfterLast({"function_body"}) # {}

\* Break and continue are accepted exactly inside the body of a loop of the
\* same function, whatever heads, delimiters, handlers and broken constructs
\* were parsed before them (statements.go: "rejects it outside a lexical loop
\* body"; function.go: "A closure declared inside a loop cannot break or
\* continue that outer loop"), on which Unwinding builds.  An export is refused
\* in every counted block, and only where statements are nested: of an export
\* that only clauses of switches surround this says nothing.
StatementsFindTheirContext ==
    [][/\ ParseBreakOrContinue => (rejected' = {} <=> InLoop)
       /\ ParseExportStatement =>
              /\ Positions(CountedBlocks) # {} => "nested export" \in rejected'
              /\ "nested export" \in rejected' => Positions(StatementLists) # {}]_parserVars

\* An export is refused wherever statements are nested (statements.go: "export
\* is only valid at the top level"; docs/language_guide/modules.md: "not valid
\* inside a function or another block").
ExportsAreTopLevel ==
    [][ParseExportStatement =>
           ("nested export" \in rejected' <=> Positions(StatementLists) # {})]_parserVars

\* A brace after an operand opens a body exactly while a head is being parsed
\* and no delimiter, body or clause inside of it has lifted the restriction
\* (expressions.go: "nested delimiters temporarily lift that restriction").
\* The bodies of functions, loops and handlers do not lift it.
BracesFindTheirContext ==
    LET deciding ==
            Positions(Heads \cup {"nested", "struct_literal", "if_body", "else", "alternative", "switch"})
    IN stopAtBlockBrace <=> deciding # {} /\ open[Latest(deciding)].kind \in Heads
=============================================================================
