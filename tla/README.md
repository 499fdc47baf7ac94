# Silver: a verification project

Silver is a small language with a tree-walking interpreter written in Go (`src/`). This directory holds TLA+ modules
that model the interpreter's control, TLC configurations that check them on small instances, and TLAPS proofs of the
results that matter most for every instance.

## The system

One interpreter session evaluates one program at a time on one goroutine. Most of the hard behaviour is not
parallelism but *interleaving through the call stack*: every `Eval` may run user code, which may import, defer, fail,
change the binding, member or collection the outer `Eval` is about to use, evaluate a template that captured another
invocation, or set the environment variable imports are resolved with. Real concurrency exists in two places. The
native handles of files and sockets carry mutexes, because an embedding program may run several evaluators that share
them; and everything that talks to the host (the tree of files, the terminal, the other end of a socket) meets a world
that changes by itself.

| Component | State | Operations | Talks to | Hard behaviour | What makes it correct |
|---|---|---|---|---|---|
| Scope unwinding (`evaluator/callables.go`, `statements.go`, `program.go`, `try.go`, `loops.go`, `template_string.go`, `traceback.go`) | Go call stack, result object, `contexts`, defers of environments | calls, imports, loops, handlers, operands, defers | environments, module store | a defer that fails, a template that outlives its invocation, signals crossing boundaries | cleanup once and in reverse; failures survive; only declared errors escape; traceback is the call chain |
| Environments and bindings (`object/environment.go`, `contract.go`, `evaluator/identifiers.go`) | names, captured contracts, outer links, defer owners | let, assign, member and index assignment | every evaluator | target resolved before the value is evaluated | no value stored against its contract or into a stale target |
| Contracts and calls (`evaluator/types.go`, `callables.go`, `object/type.go`) | arguments bound so far | match value, compare signatures, bind and destructure arguments, check results | calls, bindings | callable variance, fields that fill later parameters | what a slot admits can be called through it |
| Module store and package runtime (`evaluator/modules.go`, `module_store.go`, `package_runtime.go`) | `entries`, prepared packages, installed operators | import, prepare, install, publish | index, parser, unwinding | cycles, failure at any depth, retry, edits during a session | evaluated once, published whole, cycles noticed |
| Package index (`packages/`) | snapshot of SILVER_PATH, owners of files | refresh, resolve, discover, validate | module store, system library | path changed by running code, namesakes | one owner per file, internal files stay internal |
| Operator grammar (`parser/operators.go`, `lexer/operators.go`) | spellings with positions | discover, define, match longest | package runtime, parser | discovery without grammar must agree with parsing | one declaration per scope, order independence |
| Parser, lexer, AST (`parser/`, `lexer/`, `ast/`) | token cursor, `stopAtBlockBrace`, `loopDepth`, `blockDepth`, lexer modes | parse | grammar | contexts across broken constructs, precedence | a statement or brace means what its construct says |
| Scalars and constant folding (`evaluator/int.go`, `bool.go`, `expressions.go`, `folding.go`) | none | operators, fold | parser, evaluators | short circuits, 64-bit wrap | folding agrees with evaluation |
| Structs and enums (`evaluator/struct*.go`, `enum.go`, `identifiers.go`) | definitions, instances | declare, construct, look up, assign, bind methods | contracts, bindings | half-finished declarations, embedded owners | fields honour their contracts, methods get receivers they accept |
| Arrays and maps (`object/`, `evaluator/index.go`, `stdlib/arrays.go`) | slices and maps shared by name | index, mutate, iterate | bindings, collections | aliasing, loops over what changes | loops stay inside, contents are those of sequences |
| Native collections (`stdlib/collections.go`, `defaultmap.go`) | deque, stack, default map instances | push, pop, rotate, insert, get | heap | bounds, re-entrant factories | bound never exceeded, one value per key |
| Paths and filesystem (`stdlib/silver/path`, `stdlib/io_filesystem.go`) | none; the tree is the host's | compute, change, create, remove, link, traverse | host, other processes | directories that change under a traversal, links in circles | path arithmetic consistent, traversals exact and finite |
| Files and sockets (`stdlib/io.go`, `networking.go`) | closed flags, offsets, kernel queues | open, read, write, accept, close | host, other evaluators | close racing a blocked read | released once, closed handles stay closed, close frees who waits |
| Standard input and terminal (`stdlib/io.go`, `terminal.go`, `repl/repl.go`) | read-ahead buffers, saved mode | read a line, a key, a report; raw and normal mode | host | three readers of one input, reads that fail in raw mode | bytes in order, mode restored, reads end |
| System, time, random, regex, math, strings | environment variables | wrappers | host | - | - |
| Silver packages (`stdlib/silver`) | cookie jar, test counters | written in Silver | evaluator | - | - |
| REPL and command line (`repl/`, `main.go`, `args.go`) | one environment for the session | submit, run file | evaluator | a failed submission leaves its effects | - |

`PROJECT.json` lists the same components with their files and what is modelled of each, and every hazard at its line.

## Plan

The order of the plan is that of importance. What is *done* is described in the section of its module.

1. `Unwinding` - how scopes are entered and left. *Done*; its type invariant and all its properties are proved.
2. `ModuleLoading`, which implements the abstract `ModuleCache`. *Done* for files on disk; embedded packages and
   `DiscoverFor`'s nested directories are left. All its properties, the refinement included, are proved.
3. `Bindings`, which implements the abstract `LexicalCells`. *Done* for names without templates. Proved:
   `BindingsConform` and the refinement, for all programs of the model.
4. `Collections`, which implements the abstract `BoundedSequences`, and `DefaultMaps`. *Done*. All their
   properties are proved: `LoopsStayInside`, the refinement, `ReadsAgree` and the two action properties of `DefaultMaps`.
5. `Paths` (operators) and `FileTrees`. *Done* for the separator `/`; everything but `CallsEnd` is proved.
6. `Objects` - struct fields, promotion, member assignment, bound methods, half-finished declarations. *Done*; all its
   properties are proved.
7. `HandleCalls`, `Connections`, `Files` and their composition `NativeHandles`, which implements the abstract
   `SharedHandles`. *Done*; everything but `BlockedCallsEnd`, the refinement included, is proved.
8. `Console` - one input read by the REPL, `io.stdin` and the terminal package. *Done*; everything but
   `EndOfInputEndsReads` is proved.
9. `ParserContexts`, `Expressions` and `CallContracts`, composed with `DefaultMaps` by `Language`. *Done*; all their
   properties are proved, those of calls through slots where null results are spelled in one way and, of
   `SlotCallsBind`, for what is called without a receiver.
10. Left: templates in `Bindings`; operator discovery over tokens with the longest match and template modes of the lexer;
    manifest validation and discovery beside a script; `range`; writing to the output streams.

Modules meant for proofs declare no RECURSIVE operator; where the code recurses they define functions that look at
smaller arguments, and where it loops they fold (`Folded`). `ParserContexts` and `DefaultMaps` have specifications of
their own, `ParserSpec` and `MapsSpec`, about which their theorems are; `PartsKeepTheirSpecifications` proves that
`Language` keeps both.

There is one passing run for each question, and components that share no state may share a run: `collections` chooses
at the start which kind of program it follows, `program` which part of the language (the four of `Language`, or
`Objects`), and `session` whether modules are imported or input is read. What is not chosen rests, so a behaviour of
such a run is one of the chosen part's own specification, which is what the theorems are about; `MCProgram` and
`MCSession` say so in a variable `part`. `ModuleLoading` needs two runs, because what two files do
under edits needs other bounds than three files that import each other.

## Unwinding

*Correspondence.* `stack` is the Go call stack reduced to the constructs that treat results differently: `Program`
(`evalProgram`), `Call` (`applyUserFunction`), `Template` (an interpolation run by `eval`), `Loop`, `Try`, `Catch` and
`Operand` (`evalValue`). `signal` is the object the innermost `Eval` returned; `run` means the construct on top is
executing its body. An error is a type and its frames; a frame is the invocation that made it and its call depth.
`deferOwner` and `defers` are fields of `object.Environment`; `contexts` is `Evaluator.contexts`, with the
environment of an invocation in the place of its name. `templates` are the template values a program holds, each with
what its closure captured. `regs`, `drained` and `left` are history.

A body that runs may take any statement at any moment, so the model covers every program text. A step that is atomic
in the model (binding arguments and pushing an invocation, taking the defers, checking a result) runs no user code in
the interpreter. Argument evaluation is an `Operand`. `LoopControl` may be taken only where the parser's `loopDepth`
accepts the statement: that the parser gets this right is `StatementsFindTheirContext` of `ParserContexts`.

*Properties.* `CleanupRunsOnce`, `UnwindsInReverse`, `OnlyDeclaredErrorsEscape`, `FailuresSurviveUnwinding`,
`TracebackIsCallChain`, `ContextsMatchActivations`, each stated beside its definition. `TypeOK` is in no configuration,
because `TypeCorrect` proves it.

*Runs.* `calls`: four constructs deep with two defer statements, where a template in the program takes the room of one
construct. Depth 4 lets a script call a function that defers a function that calls another or opens a loop, an operand
or a handler inside it; two defers are enough to see an order, and a failing one before or after a succeeding one. Three
constructs and a template are enough for a template captured by a finished call, or in a loop, to be evaluated in
another invocation. One application error with handlers for it and for one runtime error distinguish declared,
undeclared, caught and uncaught. The bound on environments (`RoomForEnv`) keeps room for the handler of every open
`try`, so no run stops because of a bound in the middle of an unwinding.

*No fairness, no liveness.* A Silver program may loop for ever, and nothing in the interpreter stops it, so the
specification states no fairness and no liveness property would be justified.

## ModuleLoading and ModuleCache

*Correspondence.* `index` is `packages.Index` (the snapshot Refresh made for one text of SILVER_PATH, plus the
manifests `DiscoverFor` found beside scripts), `packageState` is the `packageState` of the manifests of that snapshot
(keys are manifest pointers, so a new snapshot starts unprepared and the old states are unreachable), `grammar` and
`infix` are the two halves of an `operatorScope`, `entries` is `moduleStore.entries` with `Loading` for a nil entry.
A `stack` item is a file being evaluated, by an import or by the host. A run number stands for the module object that
the run produces. `failure` is the error that reaches the file on top; the failure of a preparation is one object kept
by its package, and `Deliver` writes its frames back there.

`Prepare` is one step because no Silver code runs during it and all bytes are read before parsing. Files, manifests and
SILVER_PATH may change between any two steps. A running file may import anything, install its operator, fail, catch the
failure of an import, or end. Abstractions: a file declares at most one operator, operators at top level only;
manifests do not change their lists; a request is a package name and a file name; deferred imports during the unwinding
of a failed file, embedded `core:` packages and the sticky package identity of a host environment are left out.

*The abstract specification.* `ModuleCache` says what importing promises: loads nest, no file is loaded while it is
being loaded, a module is published at most once under a new identity and keeps it, a failed load publishes nothing,
imports answer only with published modules. `LoadsAsPromised` maps `published` to the non-nil entries, `active` to the
imports on the call stack (what is above the script at its bottom) and `seen` to the answers, and says that every
behaviour of `ModuleLoading` is one of `ModuleCache`.

*Properties.* `LoadingMatchesStack` (with `TypeOK` as a conjunct), `OperatorMatchesGrammar`, `ProgramsMatchGrammar`,
`InternalStaysInternal` and the refinement.

*Promised nowhere and modelled.* `Refresh` is keyed by the text of SILVER_PATH alone (`packages/index.go:44`), so a
failed load of the index is remembered after the manifest is repaired. A declaration that an edit moved to another line
clashes with its own old position when the package is prepared again (`package_runtime.go:81`). No property speaks of
either.

*Runs.* Packages `lib` (files `api`, exported, and `util`, internal) and `app` (file `main`). `session` with `part =
"packages"`: nothing changes and four files run, so that a script, two files of one package and a file of another nest,
form cycles of length one to three and are retried. `edits`: two files run and the world changes twice, which is what a
re-registration of an edited package takes; both packages are called `lib`, declarations move within a file and between
files, parse or not, appear and vanish, and the order of SILVER_PATH changes. `MaxTrace` only bounds the frames that
the shared preparation failure gathers. `edits` also checks that nothing deadlocks.

## Bindings and LexicalCells

*Correspondence.* A scope is an `object.Environment`; `enclosing` gives for each one the chain that `outer` links, and
`bindings` joins its maps `store` and `types`. Numbers grow inward along a chain, so the nearest binding of a name is
the one in the largest scope that has it. `stack` holds the bodies being executed (`program`, `call`, `iteration`,
`catch`, `block`, `try`) and the statements that wait for a value (`let`, `infer` for `:=`, `assign`), each with what it
resolved when it began. `target` is history: `evalAssignment` keeps the contract it found and not the place; it becomes 0
when a declaration overtakes the assignment (`Overtake`), which is when a block or an inner value of the same scope
declares the name while the assignment waits. `strayed` is history, too: the cells in which such an assignment has
stored its value, until they are declared or properly assigned again. `result`
is the value that a call or block has just produced. Values are literals, struct definitions, instances, aliases and
closures; a contract is a runtime type or one nominal definition, as in `object.Contract`. A value may be anything an
expression can produce where it stands, a `Fault` may end any statement, and unwinding is one step because only
deferred calls, which `Unwinding` models, run before the handler. Templates are left out: an interpolation executes in the
scope that the template captured, so that a block inside one could declare names there while an assignment of an
inner scope waits.

*The abstract specification.* `LexicalCells` knows cells and promises. A declaration or assignment names its cell and
contract before the value is computed and stores into that cell under that contract, or stores nothing. A declaration
(`Declare`, and `Keep` of a declaration) turns the promises of assignments it hides into `Void`; only the value of a
void promise may land elsewhere (`Stray`). `KeepsPromises` maps `cells` to `bindings` and `promises` to `stack`: what each
waiting statement has promised, and nothing for a body.

*Runs.* `bindings`: a variable and a closure that assigns to it exist, one built-in type (`Error`) can be shadowed and
redeclared. Three statements, calls or blocks begun, three scopes and four nested bodies and statements allow an
assignment inside a call inside an initializer, with a handler, a loop iteration or a block in between.
Blocks may declare anything, the variables that the statements around them are about included. `BindingsConform`
says what holds of all cells that are not in `strayed`, and includes `TypeOK`. `redeclared`, on the same instance, checks
`AssignmentsAreChecked`, which promises the same of all cells as the docs do, and TLC finds the assignment that stores
against a contract (see *Divergences*).
A program ends, so deadlock is not checked. What a typed array contains is checked when it crosses a contract and not
when it is changed through an alias (`types.go:107`); the docs promise nothing else, and contracts here are of names.

## Collections and BoundedSequences

*Correspondence.* An array is its Go slice: `slots` is the backing, `length` the part in use; its capacity is
`Len(slots)`. No two arrays share a backing, because every function that makes an array makes its slots. An operation
on a slice yields the set of slices that may result: `append` may choose any capacity for a new backing. A result that
has `moved` leaves its old slots to the loops that walk them; a loop on `stack` has the array while it is on the
array's backing and a copy of the slots, which nobody can reach any more, afterwards. A handle is a Deque or Stack:
`field` is its `values`, `captured` the array in its methods' closures (0 for an instance made with the constructor,
which has none), `max` the hidden maximum. Functions go by `field`, methods and `set_item` by `captured`. A waiting
index assignment holds what it resolved. Elements are classes of `objectsEqual`; those of `Unequal` are NaN. `crashed`
is a Go runtime error, which no code recovers. Reading operations change nothing and are left out, as are sort,
shuffle, and a struct that embeds a Deque.

*The abstract specification.* `BoundedSequences` has sequences and bounds; `ImplementsSequences` maps `contents` to the
slots in use and `bounds` to the handles' maxima. It holds while arrays inside handles stay there; in programs that
construct handles and assign `values` (`direct`), a bound is what the methods remember and not what `values` holds, and
only `LoopsStayInside` (with `TypeOK` as a conjunct) is claimed.

*Runs.* `program` is chosen at the start from the constant `Programs` and never changes: it says what a program uses and
how far it is followed. `collections` follows three kinds. `Flat`: two collections and no loop, backings of up to three
slots, all amounts and positions on both sides of every boundary, two elements of which one is unequal to itself.
`Nested`, twice: backings of two slots, one loop or index assignment open while every operation runs, in programs that
leave the arrays of handles alone and in those that do not. `shrunk` needs no handle (`WithoutHandles`) and shows the
index assignment whose value shrinks the array. The interpreter may crash, so deadlock is not checked.

## DefaultMaps

A part of `Language`, checked by the run `program`. `maps` are the `object.Map`s, `field` is the one `values` holds,
the first is the one `set_item` captured. `reads` are the activations of `get_item` that wait for `self.factory()`;
what runs meanwhile is any program. `known` is history. The bounds of the run are two keys, two factories inside each
other, and the fields may be assigned at any moment. A factory leaves the key it works on alone (`Reentrant`), and once
`values` was assigned the program stores through it and no longer through the handle (`Mixed`); what happens otherwise
is described below.

## Paths and FileTrees

*Correspondence.* `Paths` holds the functions of `path.slv` that compute texts. A text is the sequence of pieces
between its separators and a piece the sequence of segments between its dots, so that cleaning, names and suffixes are
operations on sequences; an operation that may refuse yields a set of at most one text. `Folded` is a loop over a
sequence. In `FileTrees`, `here` is the `path` of the Path a program works with, `tree` what the kernel keeps, and
`job` the call in progress: between two system calls of `touch` and `mkdir`, or a traversal with one frame for each
activation of `_rglob_visit`, `_glob_segments` or `_walk_visit`. A walk is the search for every name: how its rows
divide the names into directories and files is left out. Each system call is one step, as the kernel makes it, and so
is `os.MkdirAll`. Between them other processes create, remove and move. A lookup is where it stands (`Position`: the
location reached, the pieces left, the links followed), what can be said there (`Verdict`) and how it goes on
(`Onward`). `Descendants`, the reference for traversals, descends through directories and links for at most `Deepest`
names: with each name the lookup goes deeper or follows one link more, and both are limited. The lookup and the system
calls are modelled after POSIX from the way `io_filesystem.go` uses them (`os.Rename` refuses to replace directories).
Left out: drives, contents, modes and times, permissions, queries that only read, and patterns with a separator.

*Properties.* `FieldsDescribePath`, `JoinsKeepPlace` (against `Leads`, which walks a text without cleaning it),
`SuccessIsVisible`, `TraversalsAreExact` (with `TypeOK` as a conjunct), `CallsEnd`. Of `rename`, `SuccessIsVisible`
promises the target only if the target does not lead through what is moved (`Aside`): the kernel renames "a" to
"a/../b", and then "a/../b" leads nowhere.

*Fairness.* `CallsEnd` assumes weak fairness of `Finishes`, the steps of a call that has begun: an interpreter inside a
native or Silver library function runs no other code and goes on by itself, and the system calls return. Nothing is
assumed of the program or of other processes, except that the bound lets these change the tree twice: a traversal of a
tree that grows for ever need not end.

*Runs.* `paths`: two names, of which one has a suffix, at depth two. The trees are one directory, nested directories
with a dangling link, and a link back to the root from inside a directory, so that a traversal runs into the limit on
links (two). One call, two changes by others: a directory can vanish and come back, or move into the one being read.
Texts cover absolute and relative ones, "." and ".." in front, inside and behind, empty pieces, a trailing separator
and "~"; computed texts grow to three pieces. A program ends, so deadlock is not checked.

## Objects

*Correspondence.* `definitions` are the `object.Struct` and `object.Enum` definitions in order of declaration, `named`
says which one a type name resolves to now, `instances` are the `object.StructInstance`s, and `pending` holds the member
assignments whose value is being computed, each with the instance that was found to own the field.
`EvalStructType` publishes first and then resolves the field types one by one; the first failure ends the
declaration, the name stays, and the fields that were not reached have no contract. `ResolveField` prefers a direct
field and then goes through embedded instances in order; its answer is an owner, `Missing`, or `Endless` when
the recursion would not return: `Lookups` computes it by depth, and a lookup that is deeper than there are instances
meets one again and goes round for ever. `EvalMember` binds a method to the owner, `StructCallable` (operators and index
methods) to the instance in the expression. What an expression may yield is any instance, enum member, suitable function
or member read from an instance. Left out: which package may use an operator field, destructuring, hashing.

*Properties.* `FieldsConform`, `LookupsEnd` (for instances of definitions whose declarations succeeded: among any
of them is one that embeds none of them, which says that no circle leads through them), `ReceiversFit`.

*Run.* `program` with `part = "objects"`: two struct names of which one may also be an enum and may embed the other,
itself through it, or a name nothing declares; three definitions, three instances and one waiting assignment allow a
name to be declared again between finding an owner and storing, and an instance to contain itself. A program may end,
so deadlock is not checked.

## NativeHandles, Connections, Files, HandleCalls and SharedHandles

*Correspondence.* A native state (`nativeConnection`, `nativeListener`, `nativeFile`) has the flag `closed`; `call` says
what each evaluator (`Tasks`) is doing with one. Sockets test the flag under the mutex and use the socket outside it, so
`Check` and the operation are two steps, and so are `TakeSocketFlag` and `CloseSocket`. A file keeps its mutex for the
whole operation (`LockFile`), which consists of several system calls: the offset goes back, a write truncates, bytes go
one at a time. Sizes are checked before the flag: a negative size fails as a language error on a closed handle, too.
The net package and the kernel are external: a stream delivers in order and holds at most `Room`, a datagram may be
lost, closing a listener refuses the ends nobody accepted, and any system call may fail.

*The abstract specification.* `SharedHandles` knows four lives of a handle (`absent`, `open`, `taken`, `released`)
and whether a call that is on its way may still succeed. `HandlesAsPromised` maps the flag and the socket to the life,
and the calls to their chances: a resource is released by one call, no call that began after it was taken succeeds, and
none succeeds after the release. It includes `TypeOK`.

*Properties.* `HandlesAsPromised`, `BlockedCallsEnd`, `ReadsAreWhole`.

*Fairness.* Weak fairness of each task's `Works` (Go runs every goroutine that can run, and a system call that can
return returns) and strong fairness of `LockFile` (a `sync.Mutex` hands itself to a waiter that has waited long).
Nothing is assumed of the program, of the peer or of failures: a read nobody answers waits for ever unless somebody
closes the handle.

*Run.* `handles`: two evaluators, so that one can wait or stand between flag and socket while the other does anything.
The handles of one behaviour are a listener with both ends of one stream, a UDP socket with a file, or two handles
of one file (`Mixes`). Room for one item and writes of two make a writer block, buffers of -1, 0 and 1 are the
boundaries, and a file has two pieces, so that a read or a write can be caught half way. No behaviour deadlocks.

## Console

*Correspondence.* `kernel` holds the bytes nobody has read, `buffers` what the `bufio.Reader` of the REPL and the one of
`io.stdin` read ahead, `reading` the read in progress with what it has got, `device` the mode of the terminal and
`rawState` what `raw_mode` saved. In the REPL all readers share one buffer, which hides the device, so that the terminal
package changes no mode there; in a file run `io.stdin` has its own and the terminal package reads the device.
`Restores` is the deferred restore of `temporaryRawLocked`, whose failure the code ignores (`spoiled`). `delivered` is
history. The kernel is external: a cooked terminal hands out lines, a raw one or a pipe bytes. Drawing, sizes and
output are left out.

*Properties.* `InputInOrder` (with `ConsoleTyped` as a conjunct), `RawModeFollowsState`, `EndOfInputEndsReads`.

*Fairness.* Weak fairness of `ReadStep`: the program is sequential, a read that can take a byte or return does so. Nobody
has to type, call, end the input or fail.

*Run.* `session` with `part = "console"`: four bytes arrive, enough for a two-byte character cut by the end of the
input, a report of two bytes, and a line before either (three in a file run whose program mixes both packages, of which
`InputInOrder` promises nothing: `MixedArrivals`); reports are cut after three bytes instead of 64. The session stops
by itself, so deadlock is not checked.

## Language: ParserContexts, Expressions and CallContracts

With `DefaultMaps` four parts that share no state, started one at a time by `Language`: a parser or a map moves only
where no expression and no call was chosen, and while the other rests.

`ParserContexts`. `open` is the recursion of the parser reduced to the constructs that save, change or restore
`stopAtBlockBrace`, `loopDepth` or `blockDepth`; a construct carries what its Go function saved. It may end at any moment,
well formed or broken, so the model covers every token sequence. `BracesFindTheirContext` and
`StatementsFindTheirContext` compare the flags with the constructs that are open. Of exports the latter says that they are
refused in the blocks that the parser counts (`CountedBlocks`, what `parseBlockStatement` parses) and only where some list
of statements is open; a clause of a switch is such a list and is not counted, and `ExportsAreTopLevel`, what the docs
say of exports, fails for it in the run `clause_exports` (see *Divergences*). Nesting is bounded by five, room for
a function in a head in a loop in an alternative of another construct.

`Expressions`. `source` is a sequence of operand and operator tokens. `calls` is the Go stack of `parseExpression`: the
operator whose right operand each call parses, the left operand its caller holds, and the precedence it was given.
`operand` is what the innermost call has parsed so far. A node of a tree is named by the position of the token it was
made from, so a tree is a root and a function on positions, and folding and evaluation are functions on positions that
follow the tree downwards. Errors keep their kind. `Half` is half the number of integers (2^63 in Go): in the run
integers have four bits (`Half = 8`) and wrap, so that every wrap, the quotient of the least integer by -1 and all powers
occur; the one variable is the least integer. A float is one opaque value: a comparison with one is undetermined on both
sides. `TreesFollowPrecedence`, `FoldingKeepsMeaning` and `ArithmeticWraps` hold of all expressions of up to two chosen
operators with operands of every kind, of four operands that show how operators group, and of all pairs of integers.

`CallContracts`. Contracts, assignability of signatures, and one call: bound argument by argument, with fields of an
instance offered to later parameters, run, and its result checked. Functions have one slot signature or are called
directly. A method read from an instance (`BoundMethod`) is admitted by the signature of its function, receiver
included, and called with the receiver in front. `Contracts` holds what signatures are made of, `Nesting` how deep each
one is nested, so that `ContractAssignable` and `Accepted` are functions that look at components only; `CallValues`
holds the values. `SlotCallsBind` and `SlotResultsFit` say what assignability is for: whatever a slot admits binds the
arguments the slot lets callers pass, whole and in order, and returns and raises what the slot announces.
`SlotCallsBind` says it of functions and built-ins; `EveryCallableBinds` says it of bound methods as well, for which it
is false and no run asks it (see *Divergences*). `SlotResultsFit` is about all three. `ArgumentsAreUsed` is about
destructuring. Signatures of up to three parameters over primitives, two structs, signatures and arrays, also of
signatures, show every kind of contract at every position.

The parts end, so deadlock is not checked. `program` is the run of all four, with `part = "language"`. In its
signatures a null result is never written where others omit it (`SpellingsAgree`); `null_results` has both spellings
and shows that `SlotCallsBind` fails then (see *Divergences*).

## Divergences

The violation run `shrunk` is recorded under `findings`: the value of an index assignment may shrink the array whose
index was checked before, and the store then stops the interpreter with a Go runtime error instead of an IndexError
(`identifiers.go:103`; `docs/language_guide/errors.md:126`).

The violation run `null_results` is recorded there, too. An omitted result satisfies `null` and `null` satisfies `any`,
but an omitted result does not satisfy `any` (`types.go:237`), so assignability does not compose: a variable whose
parameter is `call() null` admits a function whose parameter is `call() any`, and a caller who passes it a function
with an omitted result, as the variable's signature allows, gets a TypeError when the argument is bound. The proof of
`SlotCallsBind` met it: the step from slot to function and from argument to slot would not compose.

The violation run `redeclared`: an assignment whose value declares its target in a block of the same scope is checked
against the contract of the old binding (`identifiers.go:12`) and stores into the new one, whose contract it may break
(`identifiers.go:24`; `docs/language_guide/types.md:195`).

The violation run `clause_exports`: an `export` in a clause of a `switch` at top level is accepted, because
`parseSwitchClauseBody` does not raise `blockDepth` (`parser/expressions.go:275`), and then ignored
(`evaluator/modules.go:160`), so that everything stays public (`docs/language_guide/modules.md:156`).

Others were met while modelling and have no run. Three are states the models reach:

- A slot admits a bound method by its whole signature (`types.go:127`, `identifiers.go:150`), and the call puts the
  receiver in front of the arguments (`callables.go:18`). So a slot of type `call(self: Counter, amount: int) int` admits
  `counter.increment` and then fails on the arguments it asks for, while the slot `call(amount: int) int`, through which
  the method could be called, refuses it. `EveryCallableBinds`, which puts the comment at `types.go:172` ("must accept
  everything the expected signature permits callers to pass") in terms of calls, is violated by such calls in the
  instance of `program`.
- A file that fails after it installed its operator can be imported again, because its entry is cleared for that
  (`module_store.go:20`), but the operator stays and the second run fails at its own declaration (`evaluator.go:448`).
- The remembered failure of a preparation is one object, to which every import that meets it prepends its frames, so the
  second import reports the first one's as well (`package_runtime.go:64`; `object/error.go:133`).

The rest:

- A `defer` in a loop or handler inside the interpolation of a template, evaluated after the call that created the
  template was left, is registered with an owner whose list has been drained and never runs
  (`object/environment.go:172`; docs say deferred calls run when their function returns).
- A `for` statement over an array that its body clears binds the cleared slots (`stdlib/collections.go`, Go's nil).
- A Deque, Stack or DefaultMap whose `values` field is assigned keeps storing into the collection its methods captured:
  `mapping[key] = value` is then not found by `get_item` (`stdlib/defaultmap.go:73`). `DefaultMaps` shows it with
  `Mixed = TRUE`.
- A factory that stores the key it makes a value for is overruled by its own result (`Reentrant = TRUE`), and a value
  the first factory would not return can be stored and then fails every read (`stdlib/defaultmap.go:59`).
- `Path.match`, `rglob` with a separator in the pattern never matches, because `_match_at` gives up at every separator,
  and `rglob("a/b")` on the path `.` fails outright, because nothing is relative to `.` (`path.slv:560`, `path.slv:710`).
- `with_name("/")` answers the parent, and `with_stem("..")` moves up (`path.slv:821`).
- `unlink()` removes empty directories and `rmdir()` removes files, both being `os.Remove`; `rename()` replaces as
  `replace()` does; `mkdir(False, True)` succeeds on a file (`docs/stdlib/path.md` says otherwise of the first three).
- An operator or index method that a struct has through an embedded instance receives the outer instance, which its
  function may refuse; called as a member it receives the embedded one (`struct_operators.go:56`;
  `docs/language_guide/objects.md:83`). `ReceiversFit` is about methods of the instance itself.
- A declaration that fails at an embedded field leaves that field without a contract, so that an instance may be stored
  in itself and a lookup never returns (`object/struct.go`, `ResolveField`). `LookupsEnd` covers definitions that were
  declared whole.
- A function, loop, handler or map literal inside a condition does not lift the restriction on braces: `P{1}` is no
  struct literal there (`parser/expressions.go:160`).
- Registering `&`, `|` or `!` as operators makes the lexer read `&&`, `||` and `!=` as two tokens
  (`lexer/operators.go`), and discovery, which joins token fragments, may read spellings that end in `=` otherwise than
  the parser does (`parser/operators.go:99`).
- The least 64-bit integer cannot be written, because `-` is applied to a literal that does not fit.
- In a file run that uses `io.stdin` and the terminal package, keys typed ahead may stay in the buffer of `io.stdin`. A
  typed-ahead `R` ends the report of `cursor_save` and leaves the real report in the input. When restoring the
  terminal fails it stays raw, and nobody is told (`terminal.go:230`).

## Proofs

| Theorem | Module | States |
|---|---|---|
| `TypeCorrect` | `Unwinding_proofs` | `Spec => []TypeOK` |
| `CleanupCorrect` | `Unwinding_proofs` | `Spec => []CleanupRunsOnce` |
| `ReverseOrder` | `Unwinding_proofs` | `Spec => UnwindsInReverse` |
| `TracebacksCorrect` | `Unwinding_proofs` | `Spec => []TracebackIsCallChain` |
| `ErrorsDeclared` | `Unwinding_proofs` | `Spec => OnlyDeclaredErrorsEscape` |
| `FailuresKept` | `Unwinding_proofs` | `Spec => FailuresSurviveUnwinding` |
| `ContextsCorrect` | `Unwinding_proofs` | `Spec => []ContextsMatchActivations` |
| `BindingsIsInvariant` | `Bindings_proofs` | `Spec => []BindingsInv` |
| `BindingsCorrect` | `Bindings_proofs` | `Spec => []BindingsConform` |
| `PromisesCorrect` | `Bindings_proofs` | `Spec => KeepsPromises`, the refinement of `LexicalCells` |
| `DefaultMapTypes` | `Language_proofs` | `MapsSpec => []MapsTyped` |
| `StoredValuesAreRead` | `Language_proofs` | `~Reentrant /\ ~Mixed`: `MapsSpec => []ReadsAgree` |
| `DefaultMadeOnce` | `Language_proofs` | `~Reentrant /\ ~Mixed`: `MapsSpec => DefaultsAreMadeOnce` |
| `FailedFactoryStoresNothing` | `Language_proofs` | `~Reentrant /\ ~Mixed`: `MapsSpec => FailuresStoreNothing` |
| `LoopsCorrect` | `Collections_proofs` | `Spec => []LoopsStayInside`, which has `TypeOK` as a conjunct |
| `SequencesPromised` | `Collections_proofs` | `Spec => ImplementsSequences`: the refinement of `BoundedSequences` |
| `HandlesTyped` | `NativeHandles_proofs` | `Spec => []TypeOK` |
| `PromiseKept` | `NativeHandles_proofs` | `Spec => HandlesAsPromised`: the refinement of `SharedHandles` |
| `ReadsReturnTheLastWrite` | `NativeHandles_proofs` | `Spec => ReadsAreWhole` |
| `OrderIsInvariant` | `TreesAndConsole_proofs` | `ConsoleSpec => []OrderInv`, which has `ConsoleTyped` as a conjunct |
| `InputCorrect` | `TreesAndConsole_proofs` | `ConsoleSpec => []InputInOrder` |
| `ModeCorrect` | `TreesAndConsole_proofs` | `ConsoleSpec => []RawModeFollowsState` |
| `PathsStayClean` | `TreesAndConsole_proofs` | `Spec => []PathInv` |
| `PathsDescribed` | `TreesAndConsole_proofs` | `Spec => []FieldsDescribePath` |
| `PlacesKept` | `TreesAndConsole_proofs` | `Spec => []JoinsKeepPlace` |
| `CallsSucceed` | `TreesAndConsole_proofs` | `Spec => []SuccessIsVisible` |
| `TraversalsCorrect` | `TreesAndConsole_proofs` | `Spec => []TraversalsAreExact` |
| `ContextsAgree` | `Language_proofs` | `ParserSpec => []ContextInv` |
| `MarksCorrect` | `ModuleLoading_proofs` | `Spec => []LoadingMatchesStack`, which has `TypeOK` as a conjunct |
| `OperatorsCorrect` | `ModuleLoading_proofs` | `Spec => []OperatorMatchesGrammar` |
| `ProgramsCorrect` | `ModuleLoading_proofs` | `Spec => []ProgramsMatchGrammar` |
| `InternalFilesCorrect` | `ModuleLoading_proofs` | `Spec => []InternalStaysInternal` |
| `ImportsAsPromised` | `ModuleLoading_proofs` | `Spec => LoadsAsPromised`: the refinement of `ModuleCache` |
| `BracesCorrect` | `Language_proofs` | `ParserSpec => []BracesFindTheirContext` |
| `StatementsCorrect` | `Language_proofs` | `ParserSpec => StatementsFindTheirContext` |
| `ObjectsIsInvariant` | `Objects_proofs` | `ObjectsSpec => []ObjectsInv`, which has `ObjectsTyped` as a conjunct |
| `FieldsCorrect` | `Objects_proofs` | `ObjectsSpec => []FieldsConform` |
| `EndsCorrect` | `Objects_proofs` | `ObjectsSpec => []LookupsEnd` |
| `ReceiversCorrect` | `Objects_proofs` | `ObjectsSpec => []ReceiversFit` |
| `PartsKeepTheirSpecifications` | `Language_proofs` | `LanguageSpec => ParserSpec /\ MapsSpec` |
| `TreesCorrect` | `Language_proofs` | `LanguageSpec => []TreesFollowPrecedence` |
| `FoldingCorrect` | `Language_proofs` | `LanguageSpec => []FoldingKeepsMeaning` |
| `ArithmeticCorrect` | `Language_proofs` | `LanguageSpec => []ArithmeticWraps` |
| `SlotCallsCorrect` | `Language_proofs` | `SpellingsAgree`: `LanguageSpec => []SlotCallsBind` |
| `SlotResultsCorrect` | `Language_proofs` | `SpellingsAgree`: `LanguageSpec => []SlotResultsFit` |
| `ArgumentsCorrect` | `Language_proofs` | `LanguageSpec => []ArgumentsAreUsed` |

They hold for every value of the constants that the named assumptions admit: every set of errors, handlers, keys and
values, any number of evaluators and handles in any mix, inputs and nesting of every length, and every bound. The
bounds are guards, so a theorem for every bound is a theorem about programs of every size. The assumptions say that
things of different kinds are different (`None` is no error, handle, mode or position; a listener is no connection, a
file no socket), that sizes are numbers, in `UnwindingAssumption` that handlers catch error types, and in
`ObjectsAssumption` that the fields of a declaration have different names, which `evalStructType` refuses otherwise.
`SegmentsAssumption` says that nothing may stand between two dots, and `TextsAssumption` that texts are made of pieces.
`TreesAssumption` says that a program starts in a tree: every location but the root is in a directory, and no name is
empty, "." or "..". The theorems about `Bindings` assume of what a script has bound beforehand that it is typed and
honours its contracts. The last three theorems about `DefaultMaps` also assume that factories leave the key they work
on alone and that the program does not store with `set_item` after it replaced `values` (without either the properties
fail: see the divergences above). Those about `Language` assume of a source that operands and infix operators
alternate, with prefix operators before operands, and that its literals have no sign (`SourcesAssumption`, what the
parser accepts as one expression of this kind), that a package declares no operator of the language itself
(`CustomAssumption`), and that integers have at least two bits (`HalfAssumption`); of contracts and values that their
components are contracts and values and are nested less deep (`ContractsAssumption`, `CallsAssumption`), as all finite
ones are. `SpellingsAgree` is a hypothesis of two theorems and not an assumption: some result among `any`, `null` and
an omitted one is used by no signature. The instance of `program` satisfies it, and without it the first of these
properties is false. `SlotCallsBind` itself exempts bound methods, for which it is false; the other of the two covers
them. The hypothesis concerns contracts only, so the functions, slots and arguments stay arbitrary.

*Cleanup.* `CleanupRunsOnce` is not inductive: nothing in it says that a call cannot be waiting in two places.
`CleanupInv` adds that. Every registration that has not run waits in exactly one place, its owner's list or the `todo`
of the one item that unwinds its owner (`PlaceInv`, `QueueInv`); lists are in order of registration; invocations on the
stack have distinct environments that own themselves, and the scopes above belong to the owner of an invocation
(`ItemInv`); a list of a drained owner holds late registrations only, and an owner that was left is drained and no
longer on the stack (`RegInv`, `HistoryInv`). `TakeDefers` moves a list, `InvokeLast` removes the last waiting call and
counts its run, and leaving needs an empty `todo`; the proof has one lemma per action and the two theorems follow from
the invariant.

*Errors.* That a traceback is the chain of calls depends on what the levels of constructs mean, which the property does
not say. `ErrorInv` adds that the script is at the bottom and that each construct is as deep as the one below it, one
deeper if it is a call, an import or a template (`LevelInv`), and that an error held anywhere has a struct besides its
chain (`HeldInv`, `SignalInv`), without which `FailuresSurviveUnwinding` could not tell a failed script from one that
ended. The lemmas are about the shapes steps have (push, replace, leave, answer the defers below), and each action has
one of these shapes. The two action properties follow from what `Finish` may answer, since only it and `FinishScript` take
an unwinding construct off the stack (`OnlyFinishingLeaves`).

*Contexts.* `ContextsMatchActivations` speaks of the constructs above the innermost template; when that template is left,
the contexts it has saved must be right for the next one. `NamesInv` says it of the contexts and of every list that a
template on the stack has saved. Whether a list names the invocations up to some height (`Named`) depends only on
kinds, environments and saved lists up to there, so one lemma covers all steps that change other fields, one the
steps that enter and one those that leave a construct. The invocations between two heights are counted, not collected, in
the property as in the proof, because a filtered sequence is beyond the provers.

*Bindings.* An assignment is checked against the contract it found and stores into the binding that is nearest when the
value is there. `BindingsInv` therefore says of every waiting assignment that the binding it found is still the nearest
one of its name and still has that contract (`Settled`), whatever the closures, handlers and blocks in between have
bound, unless it was overtaken, when all that is left is that some binding of the name is in its own scope (`Found`). A
declaration in an inner scope cannot disturb it, because an assignment sees only scopes that are no larger than its
own; none is made further out, because scopes grow inward along the stack (`StackInv`); and one in its own scope
overtakes it (`OvertakenFound`). A cell that strayed is the only one whose contract `EnvInv` says nothing of, and it
leaves `strayed` when it is declared or assigned by a statement that found it.
`RoomInv` reserves a scope for every handler, so unwinding can always open it. An action lemma proves both that the
invariant is kept and that the step is a `Make`, `Keep`, `Stray`, `Declare` or `Bind` of `LexicalCells`.

*Collections.* `LoopsStayInside` needs to know that what waits on the stack names arrays and handles that exist
(`References`). Every operation yields slices that fit (`Fits`): the backing keeps its length or, if the content moved,
the old backing does, so a loop that walks it stays inside. The refinement is about what a slice shows. Each operation
on slices has a lemma that gives its content as an operation on sequences: shifting in place is dropping the first
element, an append into spare capacity and one into a new backing are the same, and the remainder of Go, which has the
sign of the dividend, turns a collection as far as the modulus does. Elements that are added one at a time and evicted
one at a time leave what adding them at once and cutting does (`NewestAgain`, `ForemostAgain`, `OneByOneFacts`). To
apply those lemmas, `Kept` says that in programs that leave `values` alone (`~direct`) a handle's methods and its field
have one array, that array is in no other handle and within the maximum, and a Stack has none (`Owned`). Beginning to
evaluate, looping and crashing change nothing that `BoundedSequences` sees. An action lemma proves both that `Kept` is
kept and that the step is promised.

*Default maps.* `ReadsAgree` is not inductive either: a returning factory stores under its key, and only a key that is
still absent can be given a value without contradicting what is known. `Waiting` adds that keys being made are absent
and distinct; it holds because a program of this kind does not touch them. The three theorems follow from
`TypeOK /\ ReadsAgree /\ Waiting`.

*Handles.* `HandleInv` is about calls in progress (`Known`): one that has passed the check of the flag is on a handle
that existed, a late one never gets that far, one that closes finds the flag set. A file has one user
(`FileMutex`) and its flag changes only while nobody else uses it; a socket with a clear flag is open; the connections
in a listener's queue belong to nobody, wait once, and are open while the listener is (`WaitsIn`, `WaitingOnce`), which
is what `accept` needs to hand out a live one. For the refinement every step of a task is mapped to a step of
`SharedHandles` or a stutter, and the closing of a listener, which refuses several connections at once, to the release of
the one handle that was closed, because the ends in its queue are still `absent`. `WholeInv` follows a read or a write of
a file that has one handle piece by piece.

*Console.* `OrderInv` strengthens `InputInOrder` by numbering the bytes that were read ahead and those that the kernel
has, and by saying that the session fills one buffer only (`OneBuffer`) and reads only what it offers. `ModeInv`
strengthens `RawModeFollowsState` by what a read will restore: nothing while `raw_mode` is on, and the mode of the
session otherwise.

*Paths.* `PathInv` says that the path is what cleaning builds from a reduced stack of components (`IsClean`): no empty
piece, no ".", and ".." only in front of a relative path. The property does not say how the path was computed; the
invariant does, and each method that answers a path is shown to end in a cleaning. Cleaning, joining and walking a text
are loops. A loop over a concatenation is one loop after the other (`FoldedTwice`), so components of a joined text are
those of its parts, and a clean base is the state in which the loop over the rest begins; that the lexical ".." may pop
what it does, and that a text leads where its cleaned form does (`CleanLeads`), are invariants of that loop, followed
by induction on the sequence (`LongerAndLonger`, whose hypothesis is a set that is closed under `Append`). The
ancestors are a recursive function on numbers; it is shown to be the sequence of shorter and shorter prefixes, and so
to end where the code's loop ends.

*Trees.* `SuccessIsVisible` compares two lookups in two trees, the one the system call made and one in the tree it
left, and links may lead both through the place that changed. A lookup is recursive: it ends because each turn follows
one link more of a limited number, or leaves fewer pieces (`OnwardFacts`), so a function satisfies its definition and
what is true of a position whenever it is true of the next one is true of all. Three facts about lookups carry the
theorem. What is found stays where it is when the tree grows (`FoundIsKept`); a lookup that ended at a vacant place
finds what is put there, also if it now follows links in the last place and what was put there is none
(`VacantIsFilled`); what was found at a place that is removed is not found again (`GoneIsNotFound`), since otherwise it
would have been found there with the place restored. A rename is a removal and a growth: the tree without what is moved
and what is replaced (`PrunedTree`) grows to the tree after it (`MovedTree`), and `Aside` says that the target leads to
its vacant place in the former. `VisibleInv` adds that `tree` is a tree and `here` clean, and that what ends as a
traversal began as one. `os.MkdirAll` is recursive too, over parents; they get shorter until "/" or ".", which exist in
every tree (`ParentIsLower`, `RootExists`).

*Traversals.* `TraversalsAreExact` compares what a traversal collected with sets of texts that were computed from whole
trees, some of which are gone; it says nothing of a traversal that is half way. `SearchInv` does, in terms of names: a
place below the base is the sequence of names that leads there (a way), and a way and its text determine each other,
because the base is clean and the names are plain (`TextsOfWays`). The frames are those of the directories on one way,
and the name by which the traversal went on is no longer to be visited in its frame (`OnTrail`). `ToCome` says of each
way whether it is still ahead: some frame on it has the next name to visit, or has not been read. `Account` then
divides what is to be found: what was found is not ahead, so nothing is found twice; what matched all the time and is
not ahead was found; what is to be visited in a directory that was read matched at some time, so what is found did.
Reading a directory keeps this because `always` lies within what the present tree has: a name that the listing lacks is
at no place that matched all the time. Leaving a directory keeps it because all that was below has been visited, or the
way was refused, and then nothing there matched in the tree of that moment (`Gathers`, `Deepens`). A traversal whose
tree has not changed meets directories only (`Leading`), so it fails only for its base. What the reference finds is
every way that matches and whose directories are found (`DescendantsAre`, `SoughtIs`): a lookup of a longer text is the
lookup of its beginning continued (`OnwardLong`), and since the limit on links ends each lookup, no way is longer than
`Deepest`. `Names` must be distinct, as the names in a directory are, and the bounds `Depth`, `MaxOps` and `MaxChanges`
are numbers.

*Module loading.* `LoadingInv` has four parts beside the types. `StackInv`: the script is at the bottom, everything above
it is an import, every item is the run that the history says it is, and its importer was allowed to see it (which
`InternalStaysInternal` needs when the import ends). `StoreInv`: an entry is `Loading` exactly for the files above the
script, each there once, and a published entry is a run of its own file; so two modules never get one identity, and
what an import publishes is new to `ModuleCache`. `GrammarInv`: the trees of ready packages and of running files were
parsed under spellings that the grammar has, at their positions. It is kept because a grammar only grows (`Grows`):
discovery reads no further than the first spelling that is known elsewhere (`DeclaringFacts`), so what it adds
contradicts nothing (`DiscoveredFacts`). That `ResolveFrom` takes the first manifest of a name needs the least member of
a set of indexes, which `LeastOf` derives from the well-foundedness of strict inclusion between finite sets.

*Parser.* The properties compare the current flags with all open constructs; leaving a construct brings back what it
saved. `ContextInv` therefore says the same of every saved value and the constructs outside of it, and links the saved
depths of neighbours, because a loop adds one to a depth that a function has set to zero.

*Objects.* `FieldsConform` alone does not survive a declaration: values refer to definitions and to other instances.
`ObjectsInv` adds that a definition captures only itself and earlier ones, that in a whole definition an embedded field
has a nominal contract of a struct (`DefinitionInv`), that the values of an instance refer to instances and definitions
that exist (`InstanceInv`), and that the owner a waiting assignment found still has its field (`PendingInv`); a
publication disturbs none of it because definitions and captured contracts never change. A lookup ends because
definitions decrease along embedding: a whole definition embeds earlier ones or itself, and one that embeds itself has
no instances, for its first would have needed another. `Lookups` is a recursive function on depths; that it satisfies
its own equation is shown by a least depth at which it does not (`LeastOf`), since induction cannot be cited.

*Functions that look at smaller arguments.* Assignability, acceptance, folding, evaluation and the reference
definitions of `Expressions` are recursive functions, and nothing may be concluded from such a definition before it is
known that a function satisfies it. `RecursionHasSolution` shows it once: if `step` computes `f[x]` from the values of
`f` at arguments of smaller measure, some `f` is `step[f]`, because the functions that are right below `n` agree there,
and one that is right everywhere is put together from them. It needs no induction rule: `MeasureInduction` follows from
the least measure at which a set is left. Each recursive function has a lemma `...IsDefined` that instantiates it, with
the nesting of contracts, the place in the evaluation order of a tree, or a number as the measure.

*Expressions.* `ParseInv` says of a stack of open calls what `TreesFollowPrecedence` says of a finished tree. The
tokens read so far are divided, from left to right, between the left operands that the calls hold, their operators, and
the operand of the innermost call (`CallsInv`, `OperandInv`); each part is a whole tree already grouped by precedence
(`NodesInv`); and what is at the end of a held operand binds at least as tightly as the operator that took it, while
everything an inner call will accept binds more tightly than that. `ReturnExpression` then joins two such trees at
their operator (`ReturnedNode`), and the tree of the last call is the line (`ParseProgramMakesTree`). `ExprInv` adds
that later phases hold that tree, folded or not. Folding is followed down the tree by strong induction on the measure
of positions: the value of each folded node is that of the node (`FoldedKeepsValue`), since an operation that fails is
left where it stands. `ArithmeticWraps` is about congruence modulo `2 * Half`: sums, differences and products respect
it, each residue has one representable member, and squaring with halved exponents keeps the product of the base
(`SquaringKeepsProduct`), so wrapping after every step and wrapping once agree (`ExactValue`).

*Calls.* `CallInv` describes the parameters bound so far: each by an argument taken already, of its contract, no whole
argument binds two, whole ones are in order, and the parameters before the first gap are filled (`WholePlaces`,
`FieldsPlace`). Through a slot nothing is destructured, because whatever the slot's contract accepts the parameter
accepts (`SlotTakes`); for that assignability must compose (`ContractsCompose`, in both directions at once, because
parameters reverse it), and acceptance must widen along it (`TakersAccept`). Both are proved by induction on the
nesting of contracts, and both need `SpellingsAgree` at one place, the results of signatures (`ReturnsCompose`).

`Language_proofs` holds the proofs about the four parts of `Language`, `TreesAndConsole_proofs` those about the two
components that meet the operating system; the other modules of proofs are about one component each.

Every invariant was checked by TLC before it was proved, except for `SearchInv`, which quantifies over all sequences of
names: there TLC checked `TraversalsAreExact`. The proofs corrected the model in several respects. A `CASE` of TLA+
whose guards overlap may choose either branch, and where the Go code has a chain of `if`s (`Console`, `NativeHandles`,
`Expressions`, `CallContracts`) the definitions are now chains of `IF`. `NoneIsNoPosition` was missing from
`ModuleLoading`: a spelling could have been recorded at a position that reads as unknown; `NoneIsNoCell` and
`PreludesAssumption` were missing from `Bindings`, `ObjectsAssumption` from `Objects`, and the assumptions of
`Expressions` and `CallContracts` altogether. `SlotCallsBind` was believed of all signatures, because the run had no
signature with a null result written out; the proof showed that it is false there. `SuccessIsVisible` promised the
target of every `rename`, because in the run no target led through what was moved; the run now has one that does.
`TreesAssumption` was missing. Some definitions were put into a form that can be reasoned about, with the same meaning:
`ContextsMatchActivations` counts instead of filtering, `LookupsEnd` needs no transitive closure, `OneByOne` of
`Collections` is a recursive function, and the parser of `Expressions` takes its steps one by one with its calls on a
stack, where a recursive operator computed the tree at once, and `Paths`, `FileTrees`, `Expressions` and
`CallContracts` have folds and recursive functions where they had recursive operators.

`TypeCorrect`, `DefaultMapTypes` and `HandlesTyped` prove the type invariants of their modules, which no run repeats on
its own.

Only model-checked: `CallsEnd`, `BlockedCallsEnd` and `EndOfInputEndsReads`, because
liveness is out of the prover's reach. All other properties of the passing runs are proved.

## Not modelled

The lexer, which works on characters; operator discovery over tokens; AST construction beyond expressions; the registry
of native libraries; wrappers of the Go library (time, random, regex, math, strings, system); the Silver packages other
than `path`; validation and YAML of manifests, embedded packages, `DiscoverFor`; rendering of values and diagnostics;
writing to the output streams; strings and floats as operands; hash keys of maps; paths on Windows. A host that
evaluates several programs in one environment after defers of the first were taken is not part of `Unwinding`, which
starts one script. `PROJECT.json` gives the reason for each component that is modelled in part.
