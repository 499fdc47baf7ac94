---------------------------- MODULE ModuleLoading ----------------------------
(***************************************************************************)
(* How one interpreter session finds, parses, evaluates and caches files:  *)
(* the package index read from SILVER_PATH, the preparation that parses    *)
(* all members of a package with one operator grammar, the module store,   *)
(* and the operators a running module installs.                            *)
(*                                                                         *)
(* Files, manifests and SILVER_PATH change between any two steps: an       *)
(* editor writes the first two, a Silver program may set the third.  A     *)
(* running file may import, install its operator, fail or end at any       *)
(* moment, and a try expression may catch the failure of an import.        *)
(***************************************************************************)
EXTENDS Integers, Sequences, FiniteSets, SequencesExt

CONSTANTS
  Packages,      \* package manifests, by the path that identifies them
  Files,         \* source files the manifests list
  Symbols,       \* operator spellings
  Members,       \* Manifest.Members(): files, in manifest order
  Exports,       \* the members other packages may import
  Name,          \* the package name a manifest declares
  Declared,      \* the name a file has inside its package
  Contents,      \* what each file may hold
  SearchPaths,   \* values of SILVER_PATH, as sequences of manifests
  None,          \* nothing: no operator, no package, no failure, not loaded
  Loading,       \* the nil entry that marks a load in progress
  MaxRuns,       \* bound: files evaluated in a session
  MaxChanges,    \* bound: changes of files, manifests and SILVER_PATH
  MaxTrace       \* bound: frames of a preparation failure

(* A file declares at most one operator, at some offset, and uses some.    *)
Content == [status   : {"ok", "broken", "missing"},
            operator : Symbols \cup {None},
            offset   : Nat,
            uses     : SUBSET Symbols]

MembersOf(p) == Range(Members[p])

ASSUME LoadingAssumption ==
  /\ None \notin Packages \cup Files \cup Symbols \cup Nat
  /\ Loading \notin Nat \cup {None}
  /\ Members \in [Packages -> Seq(Files)]
  /\ \A p \in Packages : IsInjective(Members[p])
  /\ \A p, q \in Packages : p # q => MembersOf(p) \cap MembersOf(q) = {}
  /\ Files = UNION {MembersOf(p) : p \in Packages}
  /\ Exports \in [Packages -> SUBSET Files]
  /\ \A p \in Packages : Exports[p] \subseteq MembersOf(p)
  /\ \A p \in Packages : \A m, n \in MembersOf(p) :
       Declared[m] = Declared[n] => m = n
  /\ Contents \in [Files -> SUBSET Content]
  /\ SearchPaths \subseteq Seq(Packages)
  /\ MaxRuns \in Nat /\ MaxChanges \in Nat /\ MaxTrace \in Nat

(* An unknown spelling is told from a known one. *)
ASSUME NoneIsNoPosition == None \notin [file : Files, offset : Nat]

VARIABLES
  disk,        \* the contents of the files
  present,     \* the manifests that exist
  searchPath,  \* SILVER_PATH
  changes,     \* changes of these three so far
  index,       \* packages.Index: the snapshot of a search path
  packageState,\* packageStateSet: what each manifest of the snapshot parsed to
  grammar,     \* operatorScope.registry: spellings known, by package
  infix,       \* operatorScope.infix: which run installed each operator
  entries,     \* moduleStore.entries: the run that made each module
  stack,       \* the files being evaluated, innermost last
  failure,     \* the error reaching the file on top of the stack
  runs,        \* history: every evaluation of a file so far
  answered     \* history: the importing package and module of every import

environment == <<disk, present, searchPath, changes>>
scopes == <<grammar, infix>>
history == <<runs, answered>>
vars == <<environment, index, packageState, scopes, entries, stack, failure,
          history>>

Scopes == Packages \cup {None}
Requests == [package : Range(Name), module : Range(Declared)]
Top == stack[Len(stack)]
Idle == stack = <<>> /\ failure = None
Running == stack # <<>> /\ failure = None
PackageOf(m) == CHOOSE p \in Packages : m \in MembersOf(p)

-----------------------------------------------------------------------------
(* The package index.                                                      *)

(* ReadManifest requires the manifest and every file it lists to exist. *)
Readable(p) ==
  p \in present /\ \A m \in MembersOf(p) : disk[m].status # "missing"

(* A failed load is remembered like a successful one. *)
ReadIndex(path) ==
  IF \A i \in DOMAIN path : Readable(path[i])
    THEN [path |-> path, entries |-> path, found |-> {}, failed |-> FALSE]
    ELSE [path |-> path, entries |-> <<>>, found |-> {}, failed |-> TRUE]

Unprepared == [status |-> "unprepared",
               programs |-> [m \in Files |-> None], frames |-> <<>>]

(* Refresh: a no-op while the text of the search path is unchanged.  A new *)
(* snapshot has new manifest instances, so none of them is prepared yet.   *)
Outdated == index.path # searchPath
Index == IF Outdated THEN ReadIndex(searchPath) ELSE index
PackageStates ==
  IF Outdated THEN [p \in Packages |-> Unprepared] ELSE packageState

(* ResolveFrom: the first manifest of that name owns the whole namespace;  *)
(* members are visible from the same package, exports from anywhere.       *)
Owners(request) ==
  {i \in DOMAIN Index.entries : Name[Index.entries[i]] = request.package}
Owner(request) ==
  Index.entries[CHOOSE i \in Owners(request) :
                  \A j \in Owners(request) : i <= j]
VisibleToNamesakes(p, importer) ==
  IF importer # None /\ Name[p] = Name[importer] THEN MembersOf(p)
                                                 ELSE Exports[p]
Visible(p, importer) == IF p = importer THEN MembersOf(p) ELSE Exports[p]

(* The one file a request names, if its manifest is still there. *)
Resolve(request, importer) ==
  IF Owners(request) = {} THEN {}
  ELSE LET p == Owner(request)
       IN {m \in Visible(p, importer) :
             Declared[m] = request.module /\ p \in present}

-----------------------------------------------------------------------------
(* Preparation of a package: discovery of all spellings, then parsing.     *)

Position(m) == [file |-> m, offset |-> disk[m].offset]

(* InfixRegistry.define: a spelling known at another position. *)
ClashesInSnapshot(p, i) ==
  LET symbol == disk[Members[p][i]].operator
  IN /\ symbol # None
     /\ \E j \in 1 .. (i - 1) : disk[Members[p][j]].operator = symbol
ClashesWithPast(p, i) ==
  LET m == Members[p][i]
  IN /\ disk[m].operator # None
     /\ grammar[p][disk[m].operator] \notin {None, Position(m)}
Clashes(p, i) ==
  LET m == Members[p][i]
      symbol == disk[m].operator
  IN /\ symbol # None
     /\ \/ grammar[p][symbol] \notin {None, Position(m)}
        \/ \E j \in 1 .. (i - 1) : disk[Members[p][j]].operator = symbol

(* Members are read in order until one is missing or clashes. *)
Reached(p) ==
  {i \in DOMAIN Members[p] :
     \A j \in 1 .. i : disk[Members[p][j]].status # "missing" /\ ~Clashes(p, j)}

Declaring(p, symbol) ==
  {m \in {Members[p][i] : i \in Reached(p)} : disk[m].operator = symbol}

(* What discovery leaves in the package's registry, also when it stops. *)
Discovered(p) ==
  [symbol \in Symbols |->
     IF Declaring(p, symbol) = {} THEN grammar[p][symbol]
     ELSE Position(CHOOSE m \in Declaring(p, symbol) : TRUE)]

Known(spellings) == {symbol \in Symbols : spellings[symbol] # None}

Parses(m, spellings) ==
  disk[m].status = "ok" /\ disk[m].uses \subseteq Known(spellings)

(* The attempt is remembered for this manifest instance, failure included. *)
Prepare(p) ==
  IF /\ Reached(p) = DOMAIN Members[p]
     /\ \A m \in MembersOf(p) : Parses(m, Discovered(p))
    THEN [status |-> "ready", frames |-> <<>>,
          programs |-> [m \in Files |->
                          IF m \in MembersOf(p) THEN disk[m] ELSE None]]
    ELSE [Unprepared EXCEPT !.status = "failed"]

IsPrepared(p) == PackageStates[p].status # "unprepared"
Prepared(p) == IF IsPrepared(p) THEN PackageStates[p] ELSE Prepare(p)
Spellings(p) == IF IsPrepared(p) THEN grammar[p] ELSE Discovered(p)

ExtendGrammar(p) == grammar' = [grammar EXCEPT ![p] = Spellings(p)]
KeepPrepared(p) == packageState' = [PackageStates EXCEPT ![p] = Prepared(p)]

-----------------------------------------------------------------------------
(* Errors.  A preparation failure is one object, kept by its package and   *)
(* shared by every import that meets it; others are made afresh.           *)

Failure(p, frames) == [shared |-> p, frames |-> frames]
FreshFailure == Failure(None, <<Top.run>>)

(* SetOrigin at the import for an error without frames, prependCallerFrame *)
(* for one that has some: either way the importing run comes first.        *)
TracedFrom(run, error) == [error EXCEPT !.frames = <<run>> \o @]

(* The frames of a shared error are the frames its package keeps. *)
Deliver(error, states) ==
  /\ failure' = error
  /\ packageState' =
       IF error.shared = None THEN states
       ELSE [states EXCEPT ![error.shared].frames = error.frames]

-----------------------------------------------------------------------------
Init ==
  /\ disk \in {d \in [Files -> UNION Range(Contents)] :
                 \A m \in Files : d[m] \in Contents[m]}
  /\ present = Packages
  /\ searchPath \in SearchPaths
  /\ changes = 0
  /\ index = [path |-> None, entries |-> <<>>, found |-> {}, failed |-> FALSE]
  /\ packageState = [p \in Packages |-> Unprepared]
  /\ grammar = [p \in Scopes |-> [symbol \in Symbols |-> None]]
  /\ infix = [p \in Scopes |-> [symbol \in Symbols |-> 0]]
  /\ entries = [m \in Files |-> None]
  /\ stack = <<>>
  /\ failure = None
  /\ runs = <<>>
  /\ answered = {}

-----------------------------------------------------------------------------
(* The world around the interpreter.                                       *)

WorldChange ==
  /\ changes < MaxChanges
  /\ changes' = changes + 1
  /\ UNCHANGED <<index, packageState, scopes, entries, stack, failure, history>>

EditFile(m, content) ==
  /\ WorldChange
  /\ content \in Contents[m] \ {disk[m]}
  /\ disk' = [disk EXCEPT ![m] = content]
  /\ UNCHANGED <<present, searchPath>>

MoveManifest(p) ==
  /\ WorldChange
  /\ present' = IF p \in present THEN present \ {p} ELSE present \cup {p}
  /\ UNCHANGED <<disk, searchPath>>

SetSearchPath(path) ==
  /\ WorldChange
  /\ path # searchPath
  /\ searchPath' = path
  /\ UNCHANGED <<disk, present>>

-----------------------------------------------------------------------------
(* Files start to be evaluated.                                            *)

Start(m, p, program, imported) ==
  /\ Len(runs) < MaxRuns
  /\ runs' = Append(runs, [file |-> m, imported |-> imported])
  /\ stack' = Append(stack, [file |-> m, package |-> p, run |-> Len(runs) + 1,
                             imported |-> imported, program |-> program])

(* Source text of the host itself: a submission to the REPL. *)
Submit ==
  /\ Idle
  /\ Start(None, None, None, FALSE)
  /\ UNCHANGED <<environment, index, packageState, scopes, entries, failure,
                 answered>>

(* EvalFile: DiscoverFor finds the manifest that owns the file, in the     *)
(* snapshot or else beside the file; a directory without one makes the     *)
(* file standalone.                                                        *)
Indexed(p) == p \in Range(Index.entries) \cup Index.found
Discoverable(p) == ~Index.failed /\ (Indexed(p) \/ Readable(p))
Unpackaged(p) == ~Index.failed /\ ~Indexed(p) /\ p \notin present

EvalRefused(m) ==
  /\ Idle
  /\ ~Discoverable(PackageOf(m)) /\ ~Unpackaged(PackageOf(m))
  /\ index' = Index /\ packageState' = PackageStates
  /\ UNCHANGED <<environment, scopes, entries, stack, failure, history>>

(* All members are prepared; the file runs in the caller's environment,    *)
(* bypassing the module store.                                             *)
EvalFile(m) ==
  LET p == PackageOf(m)
      found == IF p \in Range(Index.entries) THEN {} ELSE {p}
  IN /\ Idle
     /\ Discoverable(p)
     /\ index' = [Index EXCEPT !.found = @ \cup found]
     /\ KeepPrepared(p)
     /\ ExtendGrammar(p)
     /\ IF Prepared(p).status = "ready"
          THEN Start(m, p, Prepared(p).programs[m], FALSE)
          ELSE UNCHANGED <<stack, runs>>
     /\ UNCHANGED <<environment, infix, entries, failure, answered>>

(* A standalone file extends the session's own grammar as it is parsed, so *)
(* a syntax error may come before or after its declaration.                *)
EvalUnpackaged(m) ==
  LET symbol == disk[m].operator
      defined == [s \in Symbols |->
                    IF s = symbol /\ grammar[None][s] = None
                      THEN Position(m) ELSE grammar[None][s]]
      clashes == symbol # None /\ defined[symbol] # Position(m)
  IN /\ Idle
     /\ Unpackaged(PackageOf(m))
     /\ disk[m].status # "missing"
     /\ index' = Index /\ packageState' = PackageStates
     /\ IF ~clashes /\ Parses(m, defined)
          THEN /\ grammar' = [grammar EXCEPT ![None] = defined]
               /\ Start(m, None, disk[m], FALSE)
          ELSE /\ grammar' \in {grammar, [grammar EXCEPT ![None] = defined]}
               /\ UNCHANGED <<stack, runs>>
     /\ UNCHANGED <<environment, infix, entries, failure, answered>>

(* importModule finds nothing to load. *)
ImportUnresolved(request) ==
  /\ Running
  /\ Index.failed \/ Resolve(request, Top.package) = {}
  /\ index' = Index
  /\ Deliver(FreshFailure, PackageStates)
  /\ UNCHANGED <<environment, scopes, entries, stack, history>>

(* The store has the module, or is loading it: load does not evaluate.     *)
Import(request, m) ==
  /\ Running
  /\ ~Index.failed
  /\ m \in Resolve(request, Top.package)
  /\ index' = Index

IsLoaded(m) == entries[m] \notin {None, Loading}
ImportPresent(request, m) ==
  /\ Import(request, m)
  /\ entries[m] # None
  /\ answered' = answered \cup {<<Top.package, m>>}
  /\ packageState' = PackageStates
  /\ UNCHANGED <<environment, scopes, entries, stack, failure, runs>>
ImportLoaded(request, m) ==
  /\ Import(request, m)
  /\ IsLoaded(m)
  /\ answered' = answered \cup {<<Top.package, m>>}
  /\ packageState' = PackageStates
  /\ UNCHANGED <<environment, scopes, entries, stack, failure, runs>>

ImportCircularClearing(request, m) ==
  /\ Import(request, m)
  /\ entries[m] = Loading
  /\ entries' = [entries EXCEPT ![m] = None]
  /\ Deliver(FreshFailure, PackageStates)
  /\ UNCHANGED <<environment, scopes, stack, history>>
ImportCircular(request, m) ==
  /\ Import(request, m)
  /\ entries[m] = Loading
  /\ Deliver(FreshFailure, PackageStates)
  /\ UNCHANGED <<environment, scopes, entries, stack, history>>

(* The package does not parse, now or when it was first prepared; the      *)
(* store's entry is gone again when load returns.                          *)
ImportUnprepared(request, m) ==
  LET p == PackageOf(m)
      error == TracedFrom(Top.run, Failure(p, Prepared(p).frames))
  IN /\ Import(request, m)
     /\ entries[m] = None
     /\ Prepared(p).status = "failed"
     /\ Len(error.frames) <= MaxTrace
     /\ ExtendGrammar(p)
     /\ Deliver(error, [PackageStates EXCEPT ![p] = Prepared(p)])
     /\ UNCHANGED <<environment, infix, entries, stack, history>>

ImportFile(request, m) ==
  LET p == PackageOf(m)
  IN /\ Import(request, m)
     /\ entries[m] = None
     /\ Prepared(p).status = "ready"
     /\ entries' = [entries EXCEPT ![m] = Loading]
     /\ KeepPrepared(p)
     /\ ExtendGrammar(p)
     /\ Start(m, p, Prepared(p).programs[m], TRUE)
     /\ UNCHANGED <<environment, infix, failure, answered>>

-----------------------------------------------------------------------------
(* A file runs, fails, is left.                                            *)

HasOperator == Running /\ Top.program # None /\ Top.program.operator # None

(* registerInfix, in the operator scope of the file's package. *)
InstallOperator ==
  /\ HasOperator
  /\ LET symbol == Top.program.operator IN
       /\ infix[Top.package][symbol] = 0
       /\ infix' = [infix EXCEPT ![Top.package][symbol] = Top.run]
  /\ UNCHANGED <<environment, index, packageState, grammar, entries, stack,
                 failure, history>>

(* Any runtime failure of this file: a fault, an operator that is already  *)
(* defined, a failing deferred call, an undefined export.                  *)
RaiseError ==
  /\ Running
  /\ failure' = FreshFailure
  /\ UNCHANGED <<environment, index, packageState, scopes, entries, stack,
                 history>>

CatchError ==
  /\ stack # <<>>
  /\ failure # None
  /\ failure' = None
  /\ UNCHANGED <<environment, index, packageState, scopes, entries, stack,
                 history>>

(* load's deferred cleanup, then the import that started this file. *)
ClearedEntries ==
  IF Top.imported /\ entries[Top.file] = Loading
    THEN [entries EXCEPT ![Top.file] = None] ELSE entries

FailFile ==
  /\ stack # <<>>
  /\ failure # None
  /\ entries' = ClearedEntries
  /\ stack' = Front(stack)
  /\ IF stack' = <<>>
       THEN failure' = None /\ UNCHANGED packageState
       ELSE LET error == TracedFrom(Last(stack').run, failure) IN
              /\ Len(error.frames) <= MaxTrace
              /\ Deliver(error, packageState)
  /\ UNCHANGED <<environment, index, scopes, history>>

Published == [entries EXCEPT ![Top.file] = Top.run]

FinishModule ==
  /\ Running
  /\ Top.imported
  /\ entries' = Published
  /\ stack' = Front(stack)
  /\ answered' = answered \cup {<<Last(stack').package, Top.file>>}
  /\ UNCHANGED <<environment, index, packageState, scopes, failure, runs>>

FinishScript ==
  /\ Running
  /\ ~Top.imported
  /\ stack' = Front(stack)
  /\ UNCHANGED <<environment, index, packageState, scopes, entries, failure,
                 history>>

SessionOver == Idle /\ UNCHANGED vars

-----------------------------------------------------------------------------
World ==
  \/ \E m \in Files : \E content \in Contents[m] : EditFile(m, content)
  \/ \E p \in Packages : MoveManifest(p)
  \/ \E path \in SearchPaths : SetSearchPath(path)

Host ==
  \/ Submit
  \/ \E m \in Files : EvalFile(m) \/ EvalUnpackaged(m) \/ EvalRefused(m)
  \/ SessionOver

ImportStep ==
  \E request \in Requests :
    \/ ImportUnresolved(request)
    \/ \E m \in Files :
         \/ ImportLoaded(request, m) \/ ImportCircular(request, m)
         \/ ImportUnprepared(request, m) \/ ImportFile(request, m)

File == InstallOperator \/ RaiseError \/ CatchError \/ FailFile
          \/ FinishModule \/ FinishScript

Next == World \/ Host \/ ImportStep \/ File

Spec == Init /\ [][Next]_vars

-----------------------------------------------------------------------------
(* Properties.                                                             *)

(* Every variable has its type. *)
TypeOK ==
  /\ disk \in [Files -> Content]
  /\ present \subseteq Packages
  /\ searchPath \in SearchPaths
  /\ changes \in Nat
  /\ index \in [path : SearchPaths \cup {None}, entries : Seq(Packages),
                found : SUBSET Packages, failed : BOOLEAN]
  /\ packageState \in
       [Packages -> [status : {"unprepared", "ready", "failed"},
                     programs : [Files -> Content \cup {None}],
                     frames : Seq(Nat)]]
  /\ grammar \in
       [Scopes -> [Symbols -> [file : Files, offset : Nat] \cup {None}]]
  /\ infix \in [Scopes -> [Symbols -> Nat]]
  /\ entries \in [Files -> Nat \cup {None, Loading}]
  /\ stack \in Seq([file : Files \cup {None}, package : Scopes, run : Nat,
                    imported : BOOLEAN, program : Content \cup {None}])
  /\ failure \in [shared : Scopes, frames : Seq(Nat)] \cup {None}
  /\ runs \in Seq([file : Files \cup {None}, imported : BOOLEAN])
  /\ answered \subseteq Scopes \X Files

(* The store says a load is in progress exactly for the files the call     *)
(* stack is importing, each of them once: a cycle is always noticed and a  *)
(* failed load is always cleared, however deep it failed.                  *)
ImportedAt(i, m) == stack[i].imported /\ stack[i].file = m
LoadingMatchesStack ==
  /\ TypeOK
  /\ \A m \in Files :
       LET loads == {i \in DOMAIN stack : ImportedAt(i, m)}
       IN Cardinality(loads) = IF entries[m] = Loading THEN 1 ELSE 0

(* An operator is installed only in the scope of the package whose grammar *)
(* knows its spelling, by a run of the file that the grammar says declares *)
(* it, also after files were edited and the package registered again.      *)
OperatorMatchesGrammar ==
  \A p \in Scopes, symbol \in Symbols :
    infix[p][symbol] # 0 =>
      /\ grammar[p][symbol] # None
      /\ grammar[p][symbol].file = runs[infix[p][symbol]].file

(* A package's grammar outlives its snapshots: every syntax tree that an   *)
(* import can still evaluate was parsed under the spellings it has now.    *)
ProgramsMatchGrammar ==
  \A p \in Packages : packageState[p].status = "ready" =>
    \A m \in MembersOf(p) :
      LET program == packageState[p].programs[m] IN
        /\ program.uses \subseteq Known(grammar[p])
        /\ program.operator # None =>
             grammar[p][program.operator] =
               [file |-> m, offset |-> program.offset]

(* Internal members are handed only to code of their own package, also     *)
(* when another registered package has the same name.                      *)
InternalStaysInternal ==
  \A importer \in Scopes, m \in Files : <<importer, m>> \in answered =>
    importer = PackageOf(m) \/ m \in Exports[PackageOf(m)]

(* Importing keeps its promises: see ModuleCache.  A script runs only at   *)
(* the bottom of the stack, so the files above it are the imports.         *)
Cache == INSTANCE ModuleCache
  WITH Modules <- Files,
       published <- [m \in Files |-> IF IsLoaded(m) THEN entries[m] ELSE None],
       active <- [i \in 1 .. Len(stack) - 1 |-> stack[i + 1].file],
       seen <- {m \in Files : \E p \in Scopes : <<p, m>> \in answered}
LoadsAsPromised == Cache!CacheSpec

=============================================================================
