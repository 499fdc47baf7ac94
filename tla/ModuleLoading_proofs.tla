------------------------- MODULE ModuleLoading_proofs -------------------------
(***************************************************************************)
(* Proofs about ModuleLoading, for every value of its constants: its type  *)
(* invariant, that the store's marks of loads in progress are those of the *)
(* call stack, that installed operators and cached syntax trees agree with *)
(* the grammar, that internal files stay in their package, and that        *)
(* importing implements ModuleCache.                                       *)
(***************************************************************************)
EXTENDS ModuleLoading, FiniteSetTheorems, SequenceTheorems, TLAPS

-----------------------------------------------------------------------------
Spelling == [file : Files, offset : Nat]
PackageState == [status : {"unprepared", "ready", "failed"},
                 programs : [Files -> Content \cup {None}],
                 frames : Seq(Nat)]
IndexState == [path : SearchPaths \cup {None}, entries : Seq(Packages),
               found : SUBSET Packages, failed : BOOLEAN]
Item == [file : Files \cup {None}, package : Scopes, run : Nat,
         imported : BOOLEAN, program : Content \cup {None}]
Run == [file : Files \cup {None}, imported : BOOLEAN]
Error == [shared : Scopes, frames : Seq(Nat)]

(* Where the stack stands: the script is at the bottom and imports are     *)
(* above it, every item is the run that the history says it is, and each   *)
(* importer was allowed to see what it imports.                            *)
StackInv ==
  \A i \in DOMAIN stack :
    /\ stack[i].imported <=> i > 1
    /\ stack[i].run \in DOMAIN runs
    /\ runs[stack[i].run].file = stack[i].file
    /\ stack[i].program # None => stack[i].file \in Files
    /\ i > 1 =>
         LET m == stack[i].file
             importer == stack[i - 1].package
         IN /\ m \in Files
            /\ importer = PackageOf(m) \/ m \in Exports[PackageOf(m)]

(* The store marks exactly the files being imported, each imported once,   *)
(* and a published module is a run of its own file.                        *)
StoreInv ==
  /\ \A i, j \in DOMAIN stack :
       i > 1 /\ j > 1 /\ stack[i].file = stack[j].file => i = j
  /\ \A m \in Files :
       entries[m] = Loading <=> \E i \in DOMAIN stack : i > 1 /\ stack[i].file = m
  /\ \A m \in Files :
       IsLoaded(m) => entries[m] \in DOMAIN runs /\ runs[entries[m]].file = m

(* Syntax trees of ready packages and of running files, and installed      *)
(* operators, are those of the grammar.                                    *)
Ready(state, p, spellings) ==
  state.status = "ready" =>
    \A m \in MembersOf(p) :
      LET program == state.programs[m] IN
        /\ program \in Content
        /\ program.uses \subseteq Known(spellings)
        /\ program.operator # None =>
             spellings[program.operator] = [file |-> m, offset |-> program.offset]

DeclaredIn(item, spellings) ==
  item.program # None /\ item.program.operator # None =>
    spellings[item.program.operator] =
      [file |-> item.file, offset |-> item.program.offset]

GrammarInv ==
  /\ \A p \in Packages : Ready(packageState[p], p, grammar[p])
  /\ \A i \in DOMAIN stack : DeclaredIn(stack[i], grammar[stack[i].package])
  /\ \A p \in Scopes, symbol \in Symbols :
       infix[p][symbol] # 0 =>
         /\ infix[p][symbol] \in DOMAIN runs
         /\ grammar[p][symbol] # None
         /\ grammar[p][symbol].file = runs[infix[p][symbol]].file

LoadingInv ==
  TypeOK /\ StackInv /\ StoreInv /\ GrammarInv /\ InternalStaysInternal

-----------------------------------------------------------------------------
(* Stacks: an item is pushed, the last one is popped.                      *)
LEMMA PushType ==
  ASSUME NEW S, NEW s \in Seq(S), NEW e \in S
  PROVE  /\ Append(s, e) \in Seq(S)
         /\ Len(Append(s, e)) = Len(s) + 1
         /\ DOMAIN Append(s, e) = 1 .. Len(s) + 1
         /\ \A i \in 1 .. Len(s) : Append(s, e)[i] = s[i]
         /\ Append(s, e)[Len(s) + 1] = e
BY AppendProperties

LEMMA PopType ==
  ASSUME NEW S, NEW s \in Seq(S), s # <<>>
  PROVE  /\ Front(s) \in Seq(S)
         /\ Len(Front(s)) = Len(s) - 1
         /\ DOMAIN Front(s) = 1 .. Len(s) - 1
         /\ \A i \in 1 .. Len(s) - 1 : Front(s)[i] = s[i]
         /\ Front(s) # <<>> => Len(s) - 1 \in 1 .. Len(s) /\ Last(Front(s)) = s[Len(s) - 1]
<1>1. Len(s) \in Nat \ {0} /\ \A i \in 1..Len(s) : s[i] \in S
  BY EmptySeq, ElementOfSeq
<1>2. \A i \in 1..Len(s)-1 : s[i] \in S
  BY <1>1
<1>3. Len(s)-1 \in Int /\ 1 \in Int
  BY <1>1
<1>4. /\ SubSeq(s, 1, Len(s)-1) \in Seq(S)
      /\ Len(SubSeq(s, 1, Len(s)-1)) =
           IF 1 <= Len(s)-1 THEN (Len(s)-1) - 1 + 1 ELSE 0
      /\ \A i \in 1..((Len(s)-1) - 1 + 1) :
           SubSeq(s, 1, Len(s)-1)[i] = s[1 + i - 1]
  BY <1>2, <1>3, SubSeqProperties
<1>5. Len(SubSeq(s, 1, Len(s)-1)) = Len(s) - 1
  <2>1. \A n \in Nat \ {0} : (IF 1 <= n - 1 THEN (n - 1) - 1 + 1 ELSE 0) = n - 1
    OBVIOUS
  <2>2. QED
    BY <1>1, <1>4, <2>1
<1>6. ASSUME NEW i \in 1..Len(s)-1
      PROVE  SubSeq(s, 1, Len(s)-1)[i] = s[i]
  <2>1. i \in 1..((Len(s)-1) - 1 + 1) /\ 1 + i - 1 = i
    BY <1>1
  <2>2. QED
    BY <2>1, <1>4
<1>7. DOMAIN SubSeq(s, 1, Len(s)-1) = 1 .. Len(s) - 1
  BY <1>4, <1>5, LenProperties
<1>8. ASSUME SubSeq(s, 1, Len(s)-1) # <<>>
      PROVE  /\ Len(s) - 1 \in 1 .. Len(s)
             /\ Last(SubSeq(s, 1, Len(s)-1)) = s[Len(s) - 1]
  <2>1. Len(SubSeq(s, 1, Len(s)-1)) # 0
    BY <1>4, <1>8, EmptySeq
  <2>2. Len(s) - 1 # 0
    BY <2>1, <1>5
  <2>3. Len(s) - 1 \in 1 .. Len(s) - 1 /\ Len(s) - 1 \in 1 .. Len(s)
    <3>1. \A n \in Nat \ {0} : n - 1 # 0 => n - 1 \in 1 .. n - 1 /\ n - 1 \in 1 .. n
      OBVIOUS
    <3>2. QED
      BY <3>1, <2>2, <1>1
  <2>4. QED
    BY <2>3, <1>5, <1>6 DEF Last
<1>9. QED
  BY <1>4, <1>5, <1>6, <1>7, <1>8 DEF Front

-----------------------------------------------------------------------------
(* Packages and their files.                                               *)
LEMMA MemberFacts ==
  ASSUME NEW p \in Packages
  PROVE  /\ MembersOf(p) \subseteq Files
         /\ \A m \in MembersOf(p) : PackageOf(m) = p
         /\ Exports[p] \subseteq MembersOf(p)
         /\ \A i \in DOMAIN Members[p] : Members[p][i] \in MembersOf(p)
         /\ DOMAIN Members[p] = 1 .. Len(Members[p]) /\ Len(Members[p]) \in Nat
         /\ \A m \in MembersOf(p) : \E i \in DOMAIN Members[p] : Members[p][i] = m
<1>1. Members[p] \in Seq(Files)
  BY LoadingAssumption
<1>2. MembersOf(p) \subseteq Files
  BY LoadingAssumption
<1>3. ASSUME NEW m \in MembersOf(p) PROVE PackageOf(m) = p
  BY LoadingAssumption DEF PackageOf
<1>4. \A m : m \in MembersOf(p) <=> \E i \in DOMAIN Members[p] : Members[p][i] = m
  BY DEF MembersOf, Range
<1>5. QED
  BY <1>1, <1>2, <1>3, <1>4, LoadingAssumption

LEMMA PackageOfFile ==
  ASSUME NEW m \in Files
  PROVE  PackageOf(m) \in Packages /\ m \in MembersOf(PackageOf(m))
<1>1. PICK p \in Packages : m \in MembersOf(p)
  BY LoadingAssumption
<1>2. QED
  BY <1>1 DEF PackageOf

(* A nonempty set of naturals has a least member: the intervals up to its  *)
(* members are finite sets, and strict inclusion of those is well founded. *)
LEMMA LeastOf ==
  ASSUME NEW T \in SUBSET Nat, T # {}
  PROVE  \E i \in T : \A j \in T : i <= j
<1> DEFINE Spans == {1..n : n \in T}
           R == StrictSubsetOrdering(Nat)
<1>1. IsWellFoundedOn(R, FiniteSubsetsOf(Nat))
  BY FS_StrictSubsetOrderingWellFounded
<1>2. ASSUME NEW n \in Nat PROVE 1..n \in FiniteSubsetsOf(Nat)
  BY FS_Interval DEF FiniteSubsetsOf
<1>3. Spans # {} /\ Spans \subseteq FiniteSubsetsOf(Nat)
  BY <1>2
<1>4. PICK x \in Spans : \A y \in Spans : ~(<<y, x>> \in R)
  <2> HIDE DEF Spans, R
  <2> QED
    BY <1>1, <1>3, WFMin
<1>5. PICK i \in T : x = 1..i
  BY <1>4
<1>6. ASSUME NEW j \in T, j < i PROVE FALSE
  <2>1. 1..j \in SUBSET Nat /\ 1..i \in SUBSET Nat /\ 1..j \subseteq 1..i
    BY <1>6
  <2>2. i \in 1..i /\ i \notin 1..j
    BY <1>6
  <2>3. <<1..j, 1..i>> \in R
    BY <2>1, <2>2 DEF StrictSubsetOrdering
  <2>4. QED
    BY <2>3, <1>4, <1>5
<1>7. QED
  BY <1>6

(* The snapshot an operation works on, and what it knows of its packages. *)
LEMMA IndexType ==
  ASSUME TypeOK
  PROVE  Index \in IndexState /\ PackageStates \in [Packages -> PackageState]
<1> USE DEF TypeOK
<1>1. index \in IndexState /\ packageState \in [Packages -> PackageState]
  BY DEF IndexState, PackageState
<1>2. ReadIndex(searchPath) \in IndexState
  <2>1. searchPath \in Seq(Packages) /\ <<>> \in Seq(Packages)
    BY LoadingAssumption, EmptySeq
  <2>2. QED
    BY <2>1 DEF ReadIndex, IndexState
<1>3. Unprepared \in PackageState
  <2>1. <<>> \in Seq(Nat)
    BY EmptySeq
  <2>2. [m \in Files |-> None] \in [Files -> Content \cup {None}]
    OBVIOUS
  <2>3. QED
    BY <2>1, <2>2 DEF Unprepared, PackageState
<1>4. QED
  BY <1>1, <1>2, <1>3 DEF Index, PackageStates

LEMMA Visibility ==
  ASSUME TypeOK, NEW request \in Requests, NEW importer \in Scopes,
         NEW m \in Resolve(request, importer)
  PROVE  /\ m \in Files
         /\ importer = PackageOf(m) \/ m \in Exports[PackageOf(m)]
<1> DEFINE entriesNow == Index.entries
<1>1. entriesNow \in Seq(Packages)
  BY IndexType DEF IndexState
<1>2. Owners(request) # {} /\ Owners(request) \subseteq DOMAIN entriesNow
  BY DEF Resolve, Owners
<1>3. \E i \in Owners(request) : \A j \in Owners(request) : i <= j
  <2>1. Owners(request) \subseteq Nat
    BY <1>1, <1>2
  <2>2. QED
    BY <2>1, <1>2, LeastOf
<1>4. Owner(request) \in Packages
  BY <1>1, <1>2, <1>3 DEF Owner
<1>5. m \in Visible(Owner(request), importer)
  BY DEF Resolve
<1>6. QED
  BY <1>4, <1>5, MemberFacts DEF Visible

-----------------------------------------------------------------------------
(* Preparing a package: what is discovered, parsed and remembered.         *)
LEMMA PositionType ==
  ASSUME TypeOK, NEW m \in Files
  PROVE  /\ disk[m] \in Content
         /\ Position(m) \in Spelling
         /\ Position(m).file = m
         /\ Position(m) # None
<1>1. disk[m] \in Content
  BY DEF TypeOK
<1>2. Position(m) \in Spelling
  BY <1>1 DEF Position, Spelling, Content
<1>3. QED
  BY <1>1, <1>2, NoneIsNoPosition DEF Position, Spelling

LEMMA GrammarType ==
  ASSUME TypeOK, NEW p \in Scopes
  PROVE  grammar[p] \in [Symbols -> Spelling \cup {None}]
BY DEF TypeOK, Spelling

LEMMA DeclaringFacts ==
  ASSUME TypeOK, NEW p \in Packages, NEW symbol \in Symbols,
         NEW m \in Declaring(p, symbol)
  PROVE  /\ m \in MembersOf(p)
         /\ disk[m].operator = symbol
         /\ grammar[p][symbol] \in {None, Position(m)}
         /\ \A n \in Declaring(p, symbol) : n = m
<1>1. \A n \in Declaring(p, symbol) :
        \E i \in DOMAIN Members[p] : /\ i \in Reached(p)
                                     /\ Members[p][i] = n
                                     /\ disk[n].operator = symbol
  BY DEF Declaring, Reached
<1>2. PICK i \in DOMAIN Members[p] :
        i \in Reached(p) /\ Members[p][i] = m /\ disk[m].operator = symbol
  BY <1>1
<1>3. symbol # None
  BY LoadingAssumption
<1>4. i \in 1 .. i /\ i \in Nat
  BY <1>2, MemberFacts
<1>5. ~Clashes(p, i)
  BY <1>2, <1>4 DEF Reached
<1>6. grammar[p][symbol] \in {None, Position(m)}
  BY <1>2, <1>3, <1>5 DEF Clashes
<1>7. ASSUME NEW n \in Declaring(p, symbol) PROVE n = m
  <2>1. PICK j \in DOMAIN Members[p] :
          j \in Reached(p) /\ Members[p][j] = n /\ disk[n].operator = symbol
    BY <1>1
  <2>2. j \in 1 .. j /\ j \in Nat /\ j >= 1 /\ i >= 1
    BY <2>1, <1>2, MemberFacts
  <2>3. ~Clashes(p, j)
    BY <2>1, <2>2 DEF Reached
  <2>4. ~(i \in 1 .. (j - 1))
    BY <1>2, <1>3, <2>1, <2>3 DEF Clashes
  <2>5. ~(j \in 1 .. (i - 1))
    BY <1>2, <1>3, <1>5, <2>1 DEF Clashes
  <2>6. i = j
    BY <2>2, <2>4, <2>5, <1>4
  <2>7. QED
    BY <1>2, <2>1, <2>6
<1>8. QED
  BY <1>2, <1>6, <1>7, MemberFacts

LEMMA DiscoveredFacts ==
  ASSUME TypeOK, NEW p \in Packages
  PROVE  /\ Discovered(p) \in [Symbols -> Spelling \cup {None}]
         /\ \A symbol \in Symbols :
              grammar[p][symbol] # None =>
                Discovered(p)[symbol] = grammar[p][symbol]
         /\ \A symbol \in Symbols : \A m \in Declaring(p, symbol) :
              Discovered(p)[symbol] = Position(m)
<1>1. ASSUME NEW symbol \in Symbols, NEW m \in Declaring(p, symbol)
      PROVE  /\ Discovered(p)[symbol] = Position(m)
             /\ grammar[p][symbol] \in {None, Position(m)}
             /\ Position(m) \in Spelling
  <2>1. (CHOOSE n \in Declaring(p, symbol) : TRUE) = m
    BY DeclaringFacts
  <2>2. Discovered(p)[symbol] = Position(m)
    BY <2>1 DEF Discovered
  <2>3. m \in Files
    BY DeclaringFacts, MemberFacts
  <2>4. QED
    BY <2>2, <2>3, DeclaringFacts, PositionType
<1>2. ASSUME NEW symbol \in Symbols, Declaring(p, symbol) = {}
      PROVE  Discovered(p)[symbol] = grammar[p][symbol]
  BY <1>2 DEF Discovered
<1>3. Discovered(p) = [symbol \in Symbols |-> Discovered(p)[symbol]]
  BY DEF Discovered
<1>4. ASSUME NEW symbol \in Symbols
      PROVE  /\ Discovered(p)[symbol] \in Spelling \cup {None}
             /\ grammar[p][symbol] # None =>
                  Discovered(p)[symbol] = grammar[p][symbol]
  <2>1. grammar[p][symbol] \in Spelling \cup {None}
    BY GrammarType DEF Scopes
  <2>2. CASE Declaring(p, symbol) = {}
    BY <2>1, <2>2, <1>2
  <2>3. CASE Declaring(p, symbol) # {}
    BY <2>3, <1>1
  <2>4. QED
    BY <2>2, <2>3
<1>5. QED
  BY <1>1, <1>3, <1>4

LEMMA PrepareFacts ==
  ASSUME TypeOK, NEW p \in Packages
  PROVE  /\ Prepare(p) \in PackageState
         /\ Ready(Prepare(p), p, Discovered(p))
<1>1. <<>> \in Seq(Nat) /\ disk \in [Files -> Content]
  BY EmptySeq DEF TypeOK
<1>2. [m \in Files |-> IF m \in MembersOf(p) THEN disk[m] ELSE None]
        \in [Files -> Content \cup {None}]
  BY <1>1
<1>3. [Unprepared EXCEPT !.status = "failed"] \in PackageState
  <2>1. [m \in Files |-> None] \in [Files -> Content \cup {None}]
    OBVIOUS
  <2>2. QED
    BY <1>1, <2>1 DEF Unprepared, PackageState
<1>4. Prepare(p) \in PackageState
  BY <1>1, <1>2, <1>3 DEF Prepare, PackageState
<1>5. ASSUME Prepare(p).status = "ready", NEW m \in MembersOf(p)
      PROVE  LET program == Prepare(p).programs[m] IN
               /\ program \in Content
               /\ program.uses \subseteq Known(Discovered(p))
               /\ program.operator # None =>
                    Discovered(p)[program.operator] =
                      [file |-> m, offset |-> program.offset]
  <2>1. [Unprepared EXCEPT !.status = "failed"].status # "ready"
    BY DEF Unprepared
  <2>2. /\ Reached(p) = DOMAIN Members[p]
        /\ \A n \in MembersOf(p) : Parses(n, Discovered(p))
    BY <1>5, <2>1 DEF Prepare
  <2>3. m \in Files
    BY MemberFacts
  <2>4. Prepare(p).programs[m] = disk[m]
    BY <2>2, <2>3 DEF Prepare
  <2>5. disk[m] \in Content /\ disk[m].uses \subseteq Known(Discovered(p))
    BY <2>2, <2>3, <1>1 DEF Parses
  <2>6. ASSUME disk[m].operator # None
        PROVE  Discovered(p)[disk[m].operator] = Position(m)
    <3>1. disk[m].operator \in Symbols
      BY <2>5, <2>6 DEF Content
    <3>2. m \in Declaring(p, disk[m].operator)
      BY <2>2, MemberFacts DEF Declaring
    <3>3. QED
      BY <3>1, <3>2, DiscoveredFacts
  <2>7. QED
    BY <2>4, <2>5, <2>6 DEF Position
<1>6. QED
  BY <1>4, <1>5 DEF Ready

(* Whether it was prepared before or is now. *)
LEMMA PreparedFacts ==
  ASSUME TypeOK, NEW p \in Packages
  PROVE  /\ Prepared(p) \in PackageState
         /\ Spellings(p) \in [Symbols -> Spelling \cup {None}]
         /\ \A symbol \in Symbols :
              grammar[p][symbol] # None =>
                Spellings(p)[symbol] = grammar[p][symbol]
<1>1. grammar[p] \in [Symbols -> Spelling \cup {None}]
  BY GrammarType DEF Scopes
<1>2. QED
  BY <1>1, IndexType, DiscoveredFacts, PrepareFacts DEF Prepared, Spellings

-----------------------------------------------------------------------------
(* Types, conjunct by conjunct.                                            *)
LEMMA Types ==
  TypeOK <=>
    /\ disk \in [Files -> Content] /\ present \subseteq Packages
    /\ searchPath \in SearchPaths /\ changes \in Nat
    /\ index \in IndexState
    /\ packageState \in [Packages -> PackageState]
    /\ grammar \in [Scopes -> [Symbols -> Spelling \cup {None}]]
    /\ infix \in [Scopes -> [Symbols -> Nat]]
    /\ entries \in [Files -> Nat \cup {None, Loading}]
    /\ stack \in Seq(Item)
    /\ failure \in Error \cup {None}
    /\ runs \in Seq(Run)
    /\ answered \subseteq Scopes \X Files
BY DEF TypeOK, IndexState, PackageState, Spelling, Item, Error, Run

LEMMA StackFacts ==
  ASSUME TypeOK
  PROVE  /\ stack \in Seq(Item) /\ runs \in Seq(Run)
         /\ Len(stack) \in Nat /\ DOMAIN stack = 1 .. Len(stack)
         /\ Len(runs) \in Nat /\ DOMAIN runs = 1 .. Len(runs)
         /\ \A i \in DOMAIN stack : stack[i] \in Item
         /\ stack = <<>> <=> Len(stack) = 0
         /\ stack # <<>> => /\ Len(stack) \in DOMAIN stack /\ Len(stack) >= 1
                            /\ Top = stack[Len(stack)] /\ Top \in Item
<1>1. stack \in Seq(Item) /\ runs \in Seq(Run)
  BY Types
<1>2. /\ Len(stack) \in Nat /\ DOMAIN stack = 1 .. Len(stack)
      /\ Len(runs) \in Nat /\ DOMAIN runs = 1 .. Len(runs)
  BY <1>1, LenProperties
<1>3. \A i \in DOMAIN stack : stack[i] \in Item
  BY <1>1, <1>2, ElementOfSeq
<1>4. stack = <<>> <=> Len(stack) = 0
  BY <1>1, EmptySeq
<1>5. stack # <<>> => Len(stack) \in DOMAIN stack /\ Len(stack) >= 1
  BY <1>2, <1>4
<1>6. QED
  BY <1>1, <1>2, <1>3, <1>4, <1>5 DEF Top

(* What a file starting to be evaluated changes. *)
LEMMA StartFacts ==
  ASSUME TypeOK, NEW m \in Files \cup {None}, NEW p \in Scopes,
         NEW program \in Content \cup {None}, NEW imported \in BOOLEAN,
         Start(m, p, program, imported)
  PROVE  LET n == Len(stack) + 1
             r == Len(runs) + 1
         IN /\ stack' \in Seq(Item) /\ runs' \in Seq(Run)
            /\ DOMAIN stack' = 1 .. n /\ DOMAIN runs' = 1 .. r
            /\ \A i \in 1 .. Len(stack) : stack'[i] = stack[i]
            /\ \A i \in 1 .. Len(runs) : runs'[i] = runs[i]
            /\ runs'[r].file = m
            /\ stack'[n].file = m /\ stack'[n].package = p
            /\ stack'[n].run = r /\ stack'[n].imported = imported
            /\ stack'[n].program = program
<1> DEFINE item == [file |-> m, package |-> p, run |-> Len(runs) + 1,
                    imported |-> imported, program |-> program]
           run == [file |-> m, imported |-> imported]
<1>1. stack \in Seq(Item) /\ runs \in Seq(Run) /\ Len(runs) + 1 \in Nat
  BY StackFacts
<1>2. item \in Item /\ run \in Run
  BY <1>1 DEF Item, Run
<1>3. stack' = Append(stack, item) /\ runs' = Append(runs, run)
  BY DEF Start
<1>4. /\ stack' \in Seq(Item) /\ DOMAIN stack' = 1 .. Len(stack) + 1
      /\ \A i \in 1 .. Len(stack) : stack'[i] = stack[i]
      /\ stack'[Len(stack) + 1] = item
  <2> HIDE DEF item
  <2> QED
    BY <1>1, <1>2, <1>3, PushType
<1>5. /\ runs' \in Seq(Run) /\ DOMAIN runs' = 1 .. Len(runs) + 1
      /\ \A i \in 1 .. Len(runs) : runs'[i] = runs[i]
      /\ runs'[Len(runs) + 1] = run
  <2> HIDE DEF run
  <2> QED
    BY <1>1, <1>2, <1>3, PushType
<1>6. QED
  BY <1>4, <1>5

-----------------------------------------------------------------------------
(* The grammar only grows.                                                 *)
Grows(old, new) ==
  \A symbol \in Symbols : old[symbol] # None => new[symbol] = old[symbol]

LEMMA ReadyKept ==
  ASSUME NEW p \in Packages, NEW state, NEW old, NEW new,
         Ready(state, p, old), Grows(old, new)
  PROVE  Ready(state, p, new)
<1> SUFFICES ASSUME state.status = "ready", NEW m \in MembersOf(p)
             PROVE  LET program == state.programs[m] IN
                      /\ program \in Content
                      /\ program.uses \subseteq Known(new)
                      /\ program.operator # None =>
                           new[program.operator] =
                             [file |-> m, offset |-> program.offset]
  BY DEF Ready
<1>1. PICK program : program = state.programs[m]
  OBVIOUS
<1>2. /\ program \in Content
      /\ program.uses \subseteq Known(old)
      /\ program.operator # None =>
           old[program.operator] = [file |-> m, offset |-> program.offset]
  BY <1>1 DEF Ready
<1>3. Known(old) \subseteq Known(new)
  BY DEF Known, Grows
<1>4. ASSUME program.operator # None
      PROVE  new[program.operator] = [file |-> m, offset |-> program.offset]
  <2>1. program.operator \in Symbols /\ program.offset \in Nat /\ m \in Files
    BY <1>2, <1>4, MemberFacts DEF Content
  <2>2. [file |-> m, offset |-> program.offset] # None
    BY <2>1, NoneIsNoPosition
  <2>3. QED
    BY <1>2, <1>4, <2>1, <2>2 DEF Grows
<1>5. QED
  BY <1>1, <1>2, <1>3, <1>4

LEMMA DeclaredKept ==
  ASSUME NEW item \in Item, item.program # None => item.file \in Files,
         NEW old, NEW new, DeclaredIn(item, old), Grows(old, new)
  PROVE  DeclaredIn(item, new)
<1> SUFFICES ASSUME item.program # None, item.program.operator # None
             PROVE  new[item.program.operator] =
                      [file |-> item.file, offset |-> item.program.offset]
  BY DEF DeclaredIn
<1>1. item.program \in Content /\ item.file \in Files
  BY DEF Item
<1>2. item.program.operator \in Symbols /\ item.program.offset \in Nat
  BY <1>1 DEF Content
<1>3. [file |-> item.file, offset |-> item.program.offset] # None
  BY <1>1, <1>2, NoneIsNoPosition
<1>4. QED
  BY <1>2, <1>3 DEF DeclaredIn, Grows

(* A step that extends the grammar, keeps the operators installed and the  *)
(* history, and whose new items and prepared packages fit.                 *)
LEMMA GrammarStep ==
  ASSUME LoadingInv,
         \A p \in Scopes : Grows(grammar[p], grammar'[p]),
         \A p \in Packages : Ready(packageState'[p], p, grammar'[p]),
         \A i \in DOMAIN stack' :
           \/ i \in DOMAIN stack /\ stack'[i] = stack[i]
           \/ DeclaredIn(stack'[i], grammar'[stack'[i].package]),
         infix' = infix,
         \A r \in DOMAIN runs : r \in DOMAIN runs' /\ runs'[r] = runs[r]
  PROVE  GrammarInv'
<1> USE DEF LoadingInv
<1>1. ASSUME NEW i \in DOMAIN stack'
      PROVE  DeclaredIn(stack'[i], grammar'[stack'[i].package])
  <2>1. CASE i \in DOMAIN stack /\ stack'[i] = stack[i]
    <3>1. PICK item : item = stack[i]
      OBVIOUS
    <3>2. item \in Item /\ (item.program # None => item.file \in Files)
      BY <2>1, <3>1, StackFacts DEF StackInv
    <3>3. item.package \in Scopes
      BY <3>2 DEF Item
    <3>4. DeclaredIn(item, grammar[item.package])
      BY <2>1, <3>1 DEF GrammarInv
    <3>5. DeclaredIn(item, grammar'[item.package])
      BY <3>2, <3>3, <3>4, DeclaredKept
    <3>6. QED
      BY <2>1, <3>1, <3>5
  <2>2. QED
    BY <2>1
<1>2. ASSUME NEW p \in Scopes, NEW symbol \in Symbols, infix'[p][symbol] # 0
      PROVE  /\ infix'[p][symbol] \in DOMAIN runs'
             /\ grammar'[p][symbol] # None
             /\ grammar'[p][symbol].file = runs'[infix'[p][symbol]].file
  <2>1. /\ infix[p][symbol] \in DOMAIN runs
        /\ grammar[p][symbol] # None
        /\ grammar[p][symbol].file = runs[infix[p][symbol]].file
    BY <1>2 DEF GrammarInv
  <2>2. grammar'[p][symbol] = grammar[p][symbol]
    BY <2>1 DEF Grows
  <2>3. QED
    BY <2>1, <2>2
<1>3. QED
  BY <1>1, <1>2 DEF GrammarInv

-----------------------------------------------------------------------------
(* Parts of a step.                                                        *)
LEMMA PackagesReady ==
  ASSUME LoadingInv, NEW p \in Packages
  PROVE  /\ Ready(PackageStates[p], p, grammar[p])
         /\ Ready(Prepared(p), p, Spellings(p))
         /\ Grows(grammar[p], Spellings(p))
<1> USE DEF LoadingInv
<1>1. Ready(packageState[p], p, grammar[p])
  BY DEF GrammarInv
<1>2. Ready(Unprepared, p, grammar[p])
  BY DEF Ready, Unprepared
<1>3. Ready(PackageStates[p], p, grammar[p])
  BY <1>1, <1>2 DEF PackageStates
<1>4. Ready(Prepared(p), p, Spellings(p))
  BY <1>3, PrepareFacts DEF Prepared, Spellings
<1>5. QED
  BY <1>3, <1>4, PreparedFacts DEF Grows

LEMMA DeliverFacts ==
  ASSUME NEW states \in [Packages -> PackageState], NEW error \in Error,
         Deliver(error, states)
  PROVE  /\ failure' \in Error
         /\ packageState' \in [Packages -> PackageState]
         /\ \A p \in Packages : \A spellings :
              Ready(states[p], p, spellings) => Ready(packageState'[p], p, spellings)
<1>1. error.frames \in Seq(Nat) /\ error.shared \in Scopes
  BY DEF Error
<1>2. ASSUME NEW p \in Packages
      PROVE  [states[p] EXCEPT !.frames = error.frames] \in PackageState
  BY <1>1 DEF PackageState
<1>3. packageState' \in [Packages -> PackageState]
  <2>1. CASE error.shared = None
    BY <2>1 DEF Deliver
  <2>2. CASE error.shared # None
    <3>1. error.shared \in Packages
      BY <1>1, <2>2 DEF Scopes
    <3>2. packageState' =
            [states EXCEPT ![error.shared] = [@ EXCEPT !.frames = error.frames]]
      BY <2>2 DEF Deliver
    <3>3. QED
      BY <3>1, <3>2, <1>2
  <2>3. QED
    BY <2>1, <2>2
<1>4. ASSUME NEW p \in Packages
      PROVE  /\ packageState'[p].status = states[p].status
             /\ packageState'[p].programs = states[p].programs
  <2>1. PICK state \in PackageState : state = states[p]
    OBVIOUS
  <2>2. CASE error.shared = None \/ error.shared # p
    BY <2>2 DEF Deliver
  <2>3. CASE error.shared # None /\ error.shared = p
    <3>1. packageState'[p] = [state EXCEPT !.frames = error.frames]
      BY <2>1, <2>3 DEF Deliver
    <3>2. QED
      BY <2>1, <3>1 DEF PackageState
  <2>4. QED
    BY <2>2, <2>3
<1>5. QED
  BY <1>3, <1>4 DEF Ready, Deliver

LEMMA FreshError ==
  ASSUME TypeOK, stack # <<>>
  PROVE  FreshFailure \in Error
<1>1. Top.run \in Nat
  BY StackFacts DEF Item
<1>2. <<Top.run>> \in Seq(Nat)
  BY <1>1
<1>3. QED
  BY <1>2 DEF FreshFailure, Failure, Error, Scopes

LEMMA TracedType ==
  ASSUME NEW run \in Nat, NEW error \in Error
  PROVE  TracedFrom(run, error) \in Error
<1>1. <<run>> \in Seq(Nat) /\ error.frames \in Seq(Nat)
  BY DEF Error
<1>2. <<run>> \o error.frames \in Seq(Nat)
  BY <1>1, ConcatProperties
<1>3. TracedFrom(run, error) = [error EXCEPT !.frames = <<run>> \o error.frames]
  BY DEF TracedFrom
<1>4. QED
  BY <1>2, <1>3 DEF Error

LEMMA ExtendFacts ==
  ASSUME LoadingInv, NEW p \in Packages, ExtendGrammar(p)
  PROVE  /\ grammar' \in [Scopes -> [Symbols -> Spelling \cup {None}]]
         /\ \A q \in Scopes : Grows(grammar[q], grammar'[q])
         /\ LET states == [PackageStates EXCEPT ![p] = Prepared(p)] IN
              /\ states \in [Packages -> PackageState]
              /\ \A q \in Packages : Ready(states[q], q, grammar'[q])
         /\ Ready(Prepared(p), p, grammar'[p])
<1> USE DEF LoadingInv
<1>1. grammar \in [Scopes -> [Symbols -> Spelling \cup {None}]]
  BY Types
<1>2. p \in Scopes /\ Spellings(p) \in [Symbols -> Spelling \cup {None}]
  BY PreparedFacts DEF Scopes
<1>3. /\ grammar' \in [Scopes -> [Symbols -> Spelling \cup {None}]]
      /\ grammar'[p] = Spellings(p)
      /\ \A q \in Scopes : q # p => grammar'[q] = grammar[q]
  BY <1>1, <1>2 DEF ExtendGrammar
<1>4. \A q \in Scopes : Grows(grammar[q], grammar'[q])
  BY <1>3, PackagesReady DEF Grows
<1>5. PICK states : states = [PackageStates EXCEPT ![p] = Prepared(p)]
  OBVIOUS
<1>6. /\ states \in [Packages -> PackageState]
      /\ states[p] = Prepared(p)
      /\ \A q \in Packages : q # p => states[q] = PackageStates[q]
  BY <1>5, IndexType, PreparedFacts
<1>7. \A q \in Packages : Ready(states[q], q, grammar'[q])
  BY <1>3, <1>6, PackagesReady DEF Scopes
<1>8. QED
  BY <1>3, <1>4, <1>5, <1>6, <1>7

(* Steps that leave the stack, the history and the store as they are. *)
LEMMA QuietStep ==
  ASSUME LoadingInv, TypeOK', stack' = stack, runs' = runs, entries' = entries,
         infix' = infix, answered' = answered,
         \A p \in Scopes : Grows(grammar[p], grammar'[p]),
         \A p \in Packages : Ready(packageState'[p], p, grammar'[p])
  PROVE  LoadingInv'
<1> USE DEF LoadingInv
<1>1. StackInv'
  BY DEF StackInv
<1>2. StoreInv'
  BY DEF StoreInv, IsLoaded
<1>3. GrammarInv'
  BY GrammarStep
<1>4. InternalStaysInternal'
  BY DEF InternalStaysInternal
<1>5. QED
  BY <1>1, <1>2, <1>3, <1>4

-----------------------------------------------------------------------------
(* The world around the interpreter.                                       *)
LEMMA WorldStep == ASSUME LoadingInv, World PROVE LoadingInv'
<1> USE DEF LoadingInv
<1>1. /\ UNCHANGED <<index, packageState, grammar, infix, entries, stack,
                     failure, runs, answered>>
      /\ changes' = changes + 1
  BY DEF World, EditFile, MoveManifest, SetSearchPath, WorldChange, scopes, history
<1>2. disk' \in [Files -> Content]
  <2>1. disk \in [Files -> Content] /\ \A m \in Files : Contents[m] \subseteq Content
    BY Types, LoadingAssumption
  <2>2. QED
    BY <2>1 DEF World, EditFile, MoveManifest, SetSearchPath
<1>3. present' \subseteq Packages
  BY Types DEF World, EditFile, MoveManifest, SetSearchPath
<1>4. searchPath' \in SearchPaths
  BY Types DEF World, EditFile, MoveManifest, SetSearchPath
<1>5. TypeOK'
  BY <1>1, <1>2, <1>3, <1>4 DEF TypeOK
<1>6. \A p \in Packages : Ready(packageState'[p], p, grammar'[p])
  BY <1>1 DEF GrammarInv
<1>7. QED
  BY <1>1, <1>5, <1>6, QuietStep DEF Grows

LEMMA EvalRefusedStep ==
  ASSUME LoadingInv, NEW m \in Files, EvalRefused(m)
  PROVE  LoadingInv'
<1> USE DEF LoadingInv
<1>1. /\ UNCHANGED <<disk, present, searchPath, changes, grammar, infix,
                     entries, stack, failure, runs, answered>>
      /\ index' = Index /\ packageState' = PackageStates
  BY DEF EvalRefused, environment, scopes, history
<1>2. TypeOK'
  BY <1>1, IndexType DEF TypeOK, IndexState, PackageState
<1>3. \A p \in Packages : Ready(packageState'[p], p, grammar'[p])
  BY <1>1, PackagesReady
<1>4. QED
  BY <1>1, <1>2, <1>3, QuietStep DEF Grows

LEMMA ImportFailureStep ==
  ASSUME LoadingInv, NEW request \in Requests,
         ImportUnresolved(request) \/ \E m \in Files : ImportCircular(request, m)
  PROVE  LoadingInv'
<1> USE DEF LoadingInv
<1>1. /\ UNCHANGED <<disk, present, searchPath, changes, grammar, infix,
                     entries, stack, runs, answered>>
      /\ index' = Index /\ Deliver(FreshFailure, PackageStates)
      /\ stack # <<>>
  BY DEF ImportUnresolved, ImportCircular, Import, Running, environment, scopes,
         history
<1>2. FreshFailure \in Error
  BY <1>1, FreshError
<1>3. PICK error \in Error : error = FreshFailure /\ Deliver(error, PackageStates)
  BY <1>1, <1>2
<1>4. PICK states \in [Packages -> PackageState] : states = PackageStates
  BY IndexType
<1>5. /\ failure' \in Error
      /\ packageState' \in [Packages -> PackageState]
      /\ \A p \in Packages : Ready(packageState'[p], p, grammar[p])
  BY <1>3, <1>4, DeliverFacts, PackagesReady
<1>6. TypeOK'
  BY <1>1, <1>5, IndexType DEF TypeOK, IndexState, PackageState, Error
<1>7. QED
  BY <1>1, <1>5, <1>6, QuietStep DEF Grows

LEMMA ImportUnpreparedStep ==
  ASSUME LoadingInv, NEW request \in Requests, NEW m \in Files,
         ImportUnprepared(request, m)
  PROVE  LoadingInv'
<1> USE DEF LoadingInv
<1>1. PICK p : p = PackageOf(m)
  OBVIOUS
<1>2. p \in Packages
  BY <1>1, PackageOfFile
<1>3. PICK error :
        /\ error = TracedFrom(Top.run, Failure(p, Prepared(p).frames))
        /\ Deliver(error, [PackageStates EXCEPT ![p] = Prepared(p)])
  BY <1>1 DEF ImportUnprepared
<1>4. /\ UNCHANGED <<disk, present, searchPath, changes, infix,
                     entries, stack, runs, answered>>
      /\ index' = Index /\ ExtendGrammar(p)
      /\ stack # <<>>
  BY <1>1 DEF ImportUnprepared, Import, Running, environment, history
<1>5. error \in Error
  <2>1. Top.run \in Nat
    BY <1>4, StackFacts DEF Item
  <2>2. Failure(p, Prepared(p).frames) \in Error
    BY <1>2, PreparedFacts DEF Failure, Error, PackageState, Scopes
  <2>3. QED
    BY <1>3, <2>1, <2>2, TracedType
<1>6. PICK states \in [Packages -> PackageState] :
        /\ states = [PackageStates EXCEPT ![p] = Prepared(p)]
        /\ \A q \in Packages : Ready(states[q], q, grammar'[q])
  BY <1>2, <1>4, ExtendFacts
<1>7. /\ failure' \in Error
      /\ packageState' \in [Packages -> PackageState]
      /\ \A q \in Packages : Ready(packageState'[q], q, grammar'[q])
  BY <1>3, <1>5, <1>6, DeliverFacts
<1>8. TypeOK'
  BY <1>2, <1>4, <1>7, IndexType, ExtendFacts
     DEF TypeOK, IndexState, PackageState, Error, Spelling
<1>9. QED
  BY <1>2, <1>4, <1>7, <1>8, QuietStep, ExtendFacts

LEMMA ErrorStep ==
  ASSUME LoadingInv, RaiseError \/ CatchError PROVE LoadingInv'
<1> USE DEF LoadingInv
<1>1. UNCHANGED <<disk, present, searchPath, changes, index, packageState,
                  grammar, infix, entries, stack, runs, answered>>
  BY DEF RaiseError, CatchError, environment, scopes, history
<1>2. failure' \in Error \cup {None}
  BY FreshError DEF RaiseError, CatchError, Running
<1>3. TypeOK'
  BY <1>1, <1>2 DEF TypeOK, Error
<1>4. \A p \in Packages : Ready(packageState'[p], p, grammar'[p])
  BY <1>1 DEF GrammarInv
<1>5. QED
  BY <1>1, <1>3, <1>4, QuietStep DEF Grows

-----------------------------------------------------------------------------
(* Files start to be evaluated.                                            *)

(* A script starts on an empty stack. *)
LEMMA ScriptStep ==
  ASSUME LoadingInv, TypeOK', stack = <<>>,
         NEW m \in Files \cup {None}, NEW q \in Scopes,
         NEW program \in Content \cup {None},
         program # None => m \in Files,
         program # None /\ program.operator # None =>
           grammar'[q][program.operator] = [file |-> m, offset |-> program.offset],
         Start(m, q, program, FALSE), entries' = entries,
         infix' = infix, answered' = answered,
         \A p \in Scopes : Grows(grammar[p], grammar'[p]),
         \A p \in Packages : Ready(packageState'[p], p, grammar'[p])
  PROVE  LoadingInv'
<1> USE DEF LoadingInv
<1>1. Len(stack) = 0 /\ DOMAIN runs = 1 .. Len(runs) /\ Len(runs) \in Nat
  BY StackFacts
<1>2. /\ DOMAIN stack' = 1 .. 1 /\ DOMAIN runs' = 1 .. Len(runs) + 1
      /\ \A i \in 1 .. Len(runs) : runs'[i] = runs[i]
      /\ runs'[Len(runs) + 1].file = m
      /\ stack'[1].file = m /\ stack'[1].package = q
      /\ stack'[1].run = Len(runs) + 1 /\ stack'[1].imported = FALSE
      /\ stack'[1].program = program
  <2>1. Len(stack) + 1 = 1
    BY <1>1
  <2>2. FALSE \in BOOLEAN
    OBVIOUS
  <2>3. /\ DOMAIN stack' = 1 .. Len(stack) + 1 /\ DOMAIN runs' = 1 .. Len(runs) + 1
        /\ \A i \in 1 .. Len(runs) : runs'[i] = runs[i]
        /\ runs'[Len(runs) + 1].file = m
        /\ stack'[Len(stack) + 1].file = m /\ stack'[Len(stack) + 1].package = q
        /\ stack'[Len(stack) + 1].run = Len(runs) + 1
        /\ stack'[Len(stack) + 1].imported = FALSE
        /\ stack'[Len(stack) + 1].program = program
    BY <2>2, StartFacts
  <2>4. QED
    BY <2>1, <2>3
<1>3. \A i \in DOMAIN stack' : i = 1
  BY <1>2
<1>4. \A r \in DOMAIN runs : r \in DOMAIN runs' /\ runs'[r] = runs[r]
  BY <1>1, <1>2
<1>5. Len(runs) + 1 \in DOMAIN runs'
  BY <1>1, <1>2
<1>6. StackInv'
  BY <1>2, <1>3, <1>5 DEF StackInv
<1>7. StoreInv'
  <2>1. \A i \in DOMAIN stack : FALSE
    BY <1>1, StackFacts
  <2>2. \A f \in Files : entries[f] # Loading
    BY <2>1 DEF StoreInv
  <2>3. \A f \in Files : IsLoaded(f)' <=> IsLoaded(f)
    BY DEF IsLoaded
  <2>4. \A f \in Files :
          IsLoaded(f)' => entries'[f] \in DOMAIN runs' /\ runs'[entries'[f]].file = f
    BY <2>3, <1>4 DEF StoreInv
  <2>5. QED
    BY <2>2, <2>4, <1>3 DEF StoreInv
<1>8. GrammarInv'
  <2>1. DeclaredIn(stack'[1], grammar'[stack'[1].package])
    BY <1>2 DEF DeclaredIn
  <2>2. QED
    BY <2>1, <1>3, <1>4, GrammarStep
<1>9. InternalStaysInternal'
  BY DEF InternalStaysInternal
<1>10. QED
  BY <1>6, <1>7, <1>8, <1>9

LEMMA SubmitStep == ASSUME LoadingInv, Submit PROVE LoadingInv'
<1> USE DEF LoadingInv
<1>1. /\ UNCHANGED <<disk, present, searchPath, changes, index, packageState,
                     grammar, infix, entries, failure, answered>>
      /\ stack = <<>> /\ Start(None, None, None, FALSE)
  BY DEF Submit, Idle, environment, scopes
<1>2. None \in Scopes
  BY DEF Scopes
<1>3. stack' \in Seq(Item) /\ runs' \in Seq(Run)
  BY <1>1, <1>2, StartFacts
<1>4. TypeOK'
  BY <1>1, <1>3 DEF TypeOK, Item, Run
<1>5. \A p \in Packages : Ready(packageState'[p], p, grammar'[p])
  BY <1>1 DEF GrammarInv
<1>6. QED
  BY <1>1, <1>2, <1>4, <1>5, ScriptStep DEF Grows

LEMMA EvalFileStep ==
  ASSUME LoadingInv, NEW m \in Files, EvalFile(m)
  PROVE  LoadingInv'
<1> USE DEF LoadingInv
<1>1. PICK p : p = PackageOf(m)
  OBVIOUS
<1>2. p \in Packages /\ m \in MembersOf(p) /\ p \in Scopes
  BY <1>1, PackageOfFile DEF Scopes
<1>3. /\ UNCHANGED <<disk, present, searchPath, changes, infix, entries,
                     failure, answered>>
      /\ stack = <<>> /\ KeepPrepared(p) /\ ExtendGrammar(p)
      /\ \/ index' = [Index EXCEPT !.found = @ \cup {}]
         \/ index' = [Index EXCEPT !.found = @ \cup {p}]
      /\ IF Prepared(p).status = "ready"
           THEN Start(m, p, Prepared(p).programs[m], FALSE)
           ELSE UNCHANGED <<stack, runs>>
  BY <1>1 DEF EvalFile, Idle, environment
<1>4. index' \in IndexState
  BY <1>2, <1>3, IndexType DEF IndexState
<1>5. /\ grammar' \in [Scopes -> [Symbols -> Spelling \cup {None}]]
      /\ \A q \in Scopes : Grows(grammar[q], grammar'[q])
      /\ packageState' \in [Packages -> PackageState]
      /\ \A q \in Packages : Ready(packageState'[q], q, grammar'[q])
      /\ Ready(Prepared(p), p, grammar'[p])
  BY <1>2, <1>3, ExtendFacts DEF KeepPrepared
<1>6. CASE Prepared(p).status = "ready"
  <2>1. PICK program : program = Prepared(p).programs[m]
    OBVIOUS
  <2>2. /\ program \in Content
        /\ program.operator # None =>
             grammar'[p][program.operator] = [file |-> m, offset |-> program.offset]
    BY <2>1, <1>2, <1>5, <1>6 DEF Ready
  <2>3. Start(m, p, program, FALSE)
    BY <2>1, <1>3, <1>6
  <2>4. stack' \in Seq(Item) /\ runs' \in Seq(Run)
    BY <2>2, <2>3, <1>2, StartFacts
  <2>5. TypeOK'
    BY <1>3, <1>4, <1>5, <2>4
       DEF TypeOK, IndexState, PackageState, Spelling, Item, Run
  <2>6. QED
    BY <1>2, <1>3, <1>5, <2>2, <2>3, <2>5, ScriptStep
<1>7. CASE Prepared(p).status # "ready"
  <2>1. UNCHANGED <<stack, runs>>
    BY <1>3, <1>7
  <2>2. TypeOK'
    BY <1>3, <1>4, <1>5, <2>1
       DEF TypeOK, IndexState, PackageState, Spelling
  <2>3. QED
    BY <1>3, <1>5, <2>1, <2>2, QuietStep
<1>8. QED
  BY <1>6, <1>7

LEMMA EvalUnpackagedStep ==
  ASSUME LoadingInv, NEW m \in Files, EvalUnpackaged(m)
  PROVE  LoadingInv'
<1> USE DEF LoadingInv
<1>1. PICK defined :
        defined = [s \in Symbols |->
                     IF s = disk[m].operator /\ grammar[None][s] = None
                       THEN Position(m) ELSE grammar[None][s]]
  OBVIOUS
<1>2. PICK new : new = [grammar EXCEPT ![None] = defined]
  OBVIOUS
<1>3. /\ UNCHANGED <<disk, present, searchPath, changes, infix, entries,
                     failure, answered>>
      /\ stack = <<>> /\ index' = Index /\ packageState' = PackageStates
      /\ \/ /\ grammar' = new
            /\ disk[m].operator # None =>
                 defined[disk[m].operator] = Position(m)
            /\ Start(m, None, disk[m], FALSE)
         \/ grammar' \in {grammar, new} /\ UNCHANGED <<stack, runs>>
  BY <1>1, <1>2 DEF EvalUnpackaged, Idle, environment
<1>4. /\ grammar \in [Scopes -> [Symbols -> Spelling \cup {None}]]
      /\ None \in Scopes
  BY Types DEF Scopes
<1>5. /\ defined \in [Symbols -> Spelling \cup {None}]
      /\ Grows(grammar[None], defined)
  BY <1>1, <1>4, PositionType DEF Grows
<1>6. /\ new \in [Scopes -> [Symbols -> Spelling \cup {None}]]
      /\ new[None] = defined
      /\ \A q \in Scopes : q # None => new[q] = grammar[q]
  BY <1>2, <1>4, <1>5
<1>7. \A q \in Scopes : Grows(grammar[q], grammar'[q])
  BY <1>3, <1>5, <1>6 DEF Grows
<1>8. grammar' \in [Scopes -> [Symbols -> Spelling \cup {None}]]
  BY <1>3, <1>4, <1>6
<1>9. \A q \in Packages : Ready(packageState'[q], q, grammar'[q])
  <2>1. ASSUME NEW q \in Packages PROVE Ready(packageState'[q], q, grammar'[q])
    <3>1. PICK state : state = PackageStates[q]
      OBVIOUS
    <3>2. Ready(state, q, grammar[q]) /\ Grows(grammar[q], grammar'[q])
      BY <3>1, <1>7, PackagesReady DEF Scopes
    <3>3. Ready(state, q, grammar'[q])
      BY <3>2, ReadyKept
    <3>4. QED
      BY <3>1, <3>3, <1>3
  <2>2. QED
    BY <2>1
<1>10. CASE /\ grammar' = new
            /\ disk[m].operator # None =>
                 defined[disk[m].operator] = Position(m)
            /\ Start(m, None, disk[m], FALSE)
  <2>1. disk[m] \in Content
    BY PositionType
  <2>2. stack' \in Seq(Item) /\ runs' \in Seq(Run)
    BY <2>1, <1>4, <1>10, StartFacts
  <2>3. TypeOK'
    BY <1>3, <1>8, <2>2, IndexType
       DEF TypeOK, IndexState, PackageState, Spelling, Item, Run
  <2>4. disk[m].operator # None =>
          grammar'[None][disk[m].operator] = [file |-> m, offset |-> disk[m].offset]
    BY <1>6, <1>10 DEF Position
  <2>5. PICK program \in Content : program = disk[m]
    BY <2>1
  <2>6. QED
    BY <1>3, <1>4, <1>7, <1>9, <1>10, <2>3, <2>4, <2>5, ScriptStep
<1>11. CASE UNCHANGED <<stack, runs>>
  <2>1. TypeOK'
    BY <1>3, <1>8, <1>11, IndexType
       DEF TypeOK, IndexState, PackageState, Spelling
  <2>2. QED
    BY <1>3, <1>7, <1>9, <1>11, <2>1, QuietStep
<1>12. QED
  BY <1>3, <1>10, <1>11

(* The store answers with what it has. *)
LEMMA ImportLoadedStep ==
  ASSUME LoadingInv, NEW request \in Requests, NEW m \in Files,
         ImportLoaded(request, m)
  PROVE  LoadingInv'
<1> USE DEF LoadingInv
<1>1. /\ UNCHANGED <<disk, present, searchPath, changes, grammar, infix,
                     entries, stack, failure, runs>>
      /\ index' = Index /\ packageState' = PackageStates
      /\ stack # <<>> /\ m \in Resolve(request, Top.package)
      /\ answered' = answered \cup {<<Top.package, m>>}
  BY DEF ImportLoaded, Import, Running, environment, scopes
<1>2. PICK importer \in Scopes : importer = Top.package
  BY <1>1, StackFacts DEF Item
<1>3. importer = PackageOf(m) \/ m \in Exports[PackageOf(m)]
  BY <1>1, <1>2, Visibility
<1>4. TypeOK'
  BY <1>1, <1>2, IndexType DEF TypeOK, IndexState, PackageState
<1>5. InternalStaysInternal'
  BY <1>1, <1>2, <1>3 DEF InternalStaysInternal
<1>6. StackInv'
  BY <1>1 DEF StackInv
<1>7. StoreInv'
  BY <1>1 DEF StoreInv, IsLoaded
<1>8. GrammarInv'
  BY <1>1, PackagesReady, GrammarStep DEF Grows
<1>9. QED
  BY <1>4, <1>5, <1>6, <1>7, <1>8

LEMMA ImportFileStep ==
  ASSUME LoadingInv, NEW request \in Requests, NEW m \in Files,
         ImportFile(request, m)
  PROVE  LoadingInv'
<1> USE DEF LoadingInv
<1>1. PICK p : p = PackageOf(m)
  OBVIOUS
<1>2. p \in Packages /\ m \in MembersOf(p) /\ p \in Scopes
  BY <1>1, PackageOfFile DEF Scopes
<1>3. /\ UNCHANGED <<disk, present, searchPath, changes, infix, failure, answered>>
      /\ index' = Index /\ KeepPrepared(p) /\ ExtendGrammar(p)
      /\ stack # <<>> /\ m \in Resolve(request, Top.package)
      /\ entries[m] = None /\ entries' = [entries EXCEPT ![m] = Loading]
      /\ Prepared(p).status = "ready"
      /\ Start(m, p, Prepared(p).programs[m], TRUE)
  BY <1>1 DEF ImportFile, Import, Running, environment
<1>4. PICK importer \in Scopes : importer = Top.package
  BY <1>3, StackFacts DEF Item
<1>5. importer = p \/ m \in Exports[p]
  BY <1>1, <1>3, <1>4, Visibility
<1>6. /\ grammar' \in [Scopes -> [Symbols -> Spelling \cup {None}]]
      /\ \A q \in Scopes : Grows(grammar[q], grammar'[q])
      /\ packageState' \in [Packages -> PackageState]
      /\ \A q \in Packages : Ready(packageState'[q], q, grammar'[q])
      /\ Ready(Prepared(p), p, grammar'[p])
  BY <1>2, <1>3, ExtendFacts DEF KeepPrepared
<1>7. PICK program \in Content :
        /\ program = Prepared(p).programs[m]
        /\ program.operator # None =>
             grammar'[p][program.operator] = [file |-> m, offset |-> program.offset]
  BY <1>2, <1>3, <1>6 DEF Ready
<1>8. PICK n, r : n = Len(stack) + 1 /\ r = Len(runs) + 1
  OBVIOUS
<1>9. /\ n \in Nat /\ n > 1 /\ r \in Nat /\ r >= 1
      /\ DOMAIN stack = 1 .. n - 1 /\ DOMAIN runs = 1 .. r - 1
      /\ n - 1 \in DOMAIN stack /\ Top = stack[n - 1]
  <2>1. /\ Len(stack) \in Nat /\ Len(stack) >= 1 /\ Len(runs) \in Nat
        /\ DOMAIN stack = 1 .. Len(stack) /\ DOMAIN runs = 1 .. Len(runs)
        /\ Len(stack) \in DOMAIN stack /\ Top = stack[Len(stack)]
    BY <1>3, StackFacts
  <2>2. Len(stack) = n - 1 /\ Len(runs) = r - 1
    BY <1>8, <2>1
  <2>3. QED
    BY <1>8, <2>1, <2>2
<1>10. /\ stack' \in Seq(Item) /\ runs' \in Seq(Run)
       /\ DOMAIN stack' = 1 .. n /\ DOMAIN runs' = 1 .. r
       /\ \A i \in 1 .. n - 1 : stack'[i] = stack[i]
       /\ \A i \in 1 .. r - 1 : runs'[i] = runs[i]
       /\ runs'[r].file = m
       /\ stack'[n].file = m /\ stack'[n].package = p
       /\ stack'[n].run = r /\ stack'[n].imported = TRUE
       /\ stack'[n].program = program
  <2>1. Start(m, p, program, TRUE) /\ TRUE \in BOOLEAN
    BY <1>3, <1>7
  <2>2. Len(stack) = n - 1 /\ Len(runs) = r - 1
    BY <1>8, StackFacts
  <2>3. /\ stack' \in Seq(Item) /\ runs' \in Seq(Run)
        /\ DOMAIN stack' = 1 .. Len(stack) + 1 /\ DOMAIN runs' = 1 .. Len(runs) + 1
        /\ \A i \in 1 .. Len(stack) : stack'[i] = stack[i]
        /\ \A i \in 1 .. Len(runs) : runs'[i] = runs[i]
        /\ runs'[Len(runs) + 1].file = m
        /\ stack'[Len(stack) + 1].file = m /\ stack'[Len(stack) + 1].package = p
        /\ stack'[Len(stack) + 1].run = Len(runs) + 1
        /\ stack'[Len(stack) + 1].imported = TRUE
        /\ stack'[Len(stack) + 1].program = program
    BY <2>1, <1>2, StartFacts
  <2>4. QED
    BY <1>8, <2>2, <2>3
<1>11. TypeOK'
  <2>1. entries' \in [Files -> Nat \cup {None, Loading}]
    BY <1>3, Types
  <2>2. QED
    BY <1>3, <1>6, <1>10, <2>1, IndexType
       DEF TypeOK, IndexState, PackageState, Spelling, Item, Run
<1>12. \A i \in DOMAIN stack' : i \in DOMAIN stack \/ i = n
  BY <1>9, <1>10
<1>13. \A k \in DOMAIN runs : k \in DOMAIN runs' /\ runs'[k] = runs[k]
  BY <1>9, <1>10
<1>14. \A i \in DOMAIN stack : i \in DOMAIN stack' /\ stack'[i] = stack[i] /\ i # n
  BY <1>9, <1>10
<1>15. n \in DOMAIN stack' /\ r \in DOMAIN runs'
  BY <1>9, <1>10
<1>16. StackInv'
  <2>1. ASSUME NEW i \in DOMAIN stack
        PROVE  /\ stack'[i].imported <=> i > 1
               /\ stack'[i].run \in DOMAIN runs'
               /\ runs'[stack'[i].run].file = stack'[i].file
               /\ stack'[i].program # None => stack'[i].file \in Files
               /\ i > 1 =>
                    LET f == stack'[i].file
                        from == stack'[i - 1].package
                    IN /\ f \in Files
                       /\ from = PackageOf(f) \/ f \in Exports[PackageOf(f)]
    <3>1. i > 1 => i - 1 \in DOMAIN stack
      BY <1>9
    <3>2. QED
      BY <3>1, <1>13, <1>14 DEF StackInv
  <2>2. stack'[n - 1].package = importer
    BY <1>4, <1>9, <1>14
  <2>3. QED
    BY <2>1, <2>2, <1>1, <1>5, <1>9, <1>10, <1>12, <1>15 DEF StackInv
<1>17. StoreInv'
  <2>1. entries \in [Files -> Nat \cup {None, Loading}] /\ Loading # None
    BY Types, LoadingAssumption
  <2>2. /\ entries'[m] = Loading
        /\ \A f \in Files : f # m => entries'[f] = entries[f]
    BY <1>3, <2>1
  <2>3. ASSUME NEW i \in DOMAIN stack, i > 1 PROVE stack[i].file # m
    <3>1. entries[m] # Loading
      BY <1>3, <2>1
    <3>2. QED
      BY <2>3, <3>1 DEF StoreInv
  <2>4. ASSUME NEW i \in DOMAIN stack', NEW j \in DOMAIN stack',
               i > 1, j > 1, stack'[i].file = stack'[j].file
        PROVE  i = j
    <3>1. CASE i \in DOMAIN stack /\ j \in DOMAIN stack
      BY <2>4, <3>1, <1>14 DEF StoreInv
    <3>2. CASE i \in DOMAIN stack /\ j = n
      BY <2>3, <2>4, <3>2, <1>10, <1>14
    <3>3. CASE i = n /\ j \in DOMAIN stack
      BY <2>3, <2>4, <3>3, <1>10, <1>14
    <3>4. QED
      BY <3>1, <3>2, <3>3, <1>12
  <2>5. ASSUME NEW f \in Files
        PROVE  entries'[f] = Loading <=>
                 \E i \in DOMAIN stack' : i > 1 /\ stack'[i].file = f
    <3>1. CASE f = m
      BY <3>1, <2>2, <1>9, <1>10, <1>15
    <3>2. CASE f # m
      BY <3>2, <2>2, <1>10, <1>12, <1>14 DEF StoreInv
    <3>3. QED
      BY <3>1, <3>2
  <2>6. ASSUME NEW f \in Files, IsLoaded(f)'
        PROVE  entries'[f] \in DOMAIN runs' /\ runs'[entries'[f]].file = f
    <3>1. f # m /\ IsLoaded(f)
      BY <2>2, <2>6 DEF IsLoaded
    <3>2. QED
      BY <3>1, <2>2, <1>13 DEF StoreInv
  <2>7. QED
    BY <2>4, <2>5, <2>6 DEF StoreInv
<1>18. GrammarInv'
  <2>1. DeclaredIn(stack'[n], grammar'[stack'[n].package])
    BY <1>7, <1>10 DEF DeclaredIn
  <2>2. QED
    BY <2>1, <1>3, <1>6, <1>12, <1>13, <1>14, GrammarStep
<1>19. InternalStaysInternal'
  BY <1>3 DEF InternalStaysInternal
<1>20. QED
  BY <1>11, <1>16, <1>17, <1>18, <1>19

-----------------------------------------------------------------------------
(* A file runs and is left.                                                *)
LEMMA InstallOperatorStep ==
  ASSUME LoadingInv, InstallOperator PROVE LoadingInv'
<1> USE DEF LoadingInv
<1>1. PICK top \in Item : /\ top = Top /\ stack # <<>> /\ Len(stack) \in DOMAIN stack
                          /\ top = stack[Len(stack)]
                          /\ top.program # None /\ top.program.operator # None
                          /\ infix' = [infix EXCEPT
                               ![top.package][top.program.operator] = top.run]
  BY StackFacts DEF InstallOperator, HasOperator, Running
<1>2. UNCHANGED <<disk, present, searchPath, changes, index, packageState,
                  grammar, entries, stack, failure, runs, answered>>
  BY DEF InstallOperator, environment, history
<1>3. top.program \in Content /\ top.package \in Scopes /\ top.run \in Nat
  BY <1>1 DEF Item
<1>4. PICK program \in Content : program = top.program
  BY <1>3
<1>5. PICK symbol \in Symbols : symbol = program.operator
  BY <1>1, <1>4 DEF Content
<1>6. /\ top.run \in DOMAIN runs /\ runs[top.run].file = top.file
      /\ top.file \in Files
  BY <1>1 DEF StackInv
<1>7. grammar[top.package][symbol] = [file |-> top.file, offset |-> program.offset]
  BY <1>1, <1>4, <1>5 DEF GrammarInv, DeclaredIn
<1>8. [file |-> top.file, offset |-> program.offset] \in Spelling
  BY <1>6 DEF Spelling, Content
<1>9. infix \in [Scopes -> [Symbols -> Nat]]
  BY Types
<1>10. /\ infix' \in [Scopes -> [Symbols -> Nat]]
       /\ infix'[top.package][symbol] = top.run
       /\ \A p \in Scopes, s \in Symbols :
            infix'[p][s] = infix[p][s] \/ (p = top.package /\ s = symbol)
  BY <1>1, <1>3, <1>4, <1>5, <1>9
<1>11. TypeOK'
  BY <1>2, <1>10 DEF TypeOK
<1>12. StackInv' /\ StoreInv' /\ InternalStaysInternal'
  BY <1>2 DEF StackInv, StoreInv, IsLoaded, InternalStaysInternal
<1>13. GrammarInv'
  <2>1. ASSUME NEW p \in Scopes, NEW s \in Symbols, infix'[p][s] # 0
        PROVE  /\ infix'[p][s] \in DOMAIN runs
               /\ grammar[p][s] # None
               /\ grammar[p][s].file = runs[infix'[p][s]].file
    <3>1. CASE infix'[p][s] = infix[p][s]
      BY <2>1, <3>1 DEF GrammarInv
    <3>2. CASE p = top.package /\ s = symbol
      BY <3>2, <1>6, <1>7, <1>8, <1>10, NoneIsNoPosition DEF Spelling
    <3>3. QED
      BY <3>1, <3>2, <1>10
  <2>2. QED
    BY <2>1, <1>2 DEF GrammarInv
<1>14. QED
  BY <1>11, <1>12, <1>13

(* What leaving a file changes. *)
LEMMA PopFacts ==
  ASSUME TypeOK, stack # <<>>, stack' = Front(stack)
  PROVE  \E n \in Nat \ {0} :
           /\ n = Len(stack) /\ DOMAIN stack = 1 .. n
           /\ Top = stack[n] /\ stack[n] \in Item
           /\ stack' \in Seq(Item) /\ DOMAIN stack' = 1 .. n - 1
           /\ \A i \in 1 .. n - 1 : stack'[i] = stack[i]
           /\ stack' # <<>> <=> n > 1
           /\ n > 1 => Last(stack') = stack[n - 1] /\ n - 1 \in DOMAIN stack
<1>1. PICK n \in Nat \ {0} : n = Len(stack)
  BY StackFacts
<1>2. DOMAIN stack = 1 .. n /\ Top = stack[n] /\ stack[n] \in Item
  BY <1>1, StackFacts
<1>3. /\ stack' \in Seq(Item) /\ Len(stack') = n - 1 /\ DOMAIN stack' = 1 .. n - 1
      /\ \A i \in 1 .. n - 1 : stack'[i] = stack[i]
      /\ stack' # <<>> => Last(stack') = stack[n - 1]
  BY <1>1, StackFacts, PopType
<1>4. stack' # <<>> <=> n > 1
  <2>1. stack' = <<>> <=> Len(stack') = 0
    BY <1>3, EmptySeq
  <2>2. QED
    BY <2>1, <1>3
<1>5. n > 1 => n - 1 \in DOMAIN stack
  BY <1>2
<1>6. QED
  BY <1>1, <1>2, <1>3, <1>4, <1>5

(* The invariants of what stays, when the entry of the file left behind is *)
(* no longer a load in progress.                                           *)
LEMMA PopStep ==
  ASSUME LoadingInv, TypeOK', stack # <<>>, stack' = Front(stack), runs' = runs,
         grammar' = grammar, infix' = infix,
         \A p \in Packages : Ready(packageState'[p], p, grammar[p]),
         \A f \in Files : entries'[f] = entries[f] \/ (Top.imported /\ f = Top.file),
         Top.imported =>
           entries'[Top.file] # Loading /\ entries'[Top.file] \in {None, Top.run}
  PROVE  StackInv' /\ StoreInv' /\ GrammarInv'
<1> USE DEF LoadingInv
<1>1. PICK n \in Nat \ {0} :
        /\ n = Len(stack) /\ DOMAIN stack = 1 .. n
        /\ Top = stack[n] /\ DOMAIN stack' = 1 .. n - 1
        /\ \A i \in 1 .. n - 1 : stack'[i] = stack[i]
  BY PopFacts
<1>2. \A i \in DOMAIN stack' : i \in DOMAIN stack /\ stack'[i] = stack[i] /\ i # n
  BY <1>1
<1>3. \A i \in DOMAIN stack : i \in DOMAIN stack' \/ i = n
  BY <1>1
<1>4. n \in DOMAIN stack /\ (Top.imported <=> n > 1)
  BY <1>1 DEF StackInv
<1>5. StackInv'
  <2>1. \A i \in DOMAIN stack' : i > 1 => i - 1 \in DOMAIN stack'
    BY <1>1
  <2>2. QED
    BY <2>1, <1>2 DEF StackInv
<1>6. \A i, j \in DOMAIN stack' :
        i > 1 /\ j > 1 /\ stack'[i].file = stack'[j].file => i = j
  BY <1>2 DEF StoreInv
<1>7. ASSUME NEW f \in Files
      PROVE  entries'[f] = Loading <=>
               \E i \in DOMAIN stack' : i > 1 /\ stack'[i].file = f
  <2>1. CASE Top.imported /\ f = Top.file
    <3>1. n > 1 /\ stack[n].file = f /\ entries'[f] # Loading
      BY <2>1, <1>1, <1>4
    <3>2. \A i \in DOMAIN stack' : i > 1 => stack'[i].file # f
      BY <3>1, <1>2, <1>4 DEF StoreInv
    <3>3. QED
      BY <3>1, <3>2
  <2>2. CASE ~(Top.imported /\ f = Top.file)
    <3>1. entries'[f] = entries[f] /\ ~(n > 1 /\ stack[n].file = f)
      BY <2>2, <1>1, <1>4
    <3>2. QED
      BY <3>1, <1>2, <1>3 DEF StoreInv
  <2>3. QED
    BY <2>1, <2>2
<1>8. ASSUME NEW f \in Files, IsLoaded(f)'
      PROVE  entries'[f] \in DOMAIN runs' /\ runs'[entries'[f]].file = f
  <2>1. CASE entries'[f] = entries[f]
    <3>1. IsLoaded(f)
      BY <1>8, <2>1 DEF IsLoaded
    <3>2. QED
      BY <2>1, <3>1 DEF StoreInv
  <2>2. CASE Top.imported /\ f = Top.file
    <3>1. entries'[f] # None
      BY <1>8 DEF IsLoaded
    <3>2. entries'[f] = stack[n].run /\ stack[n].file = f
      BY <3>1, <2>2, <1>1
    <3>3. QED
      BY <3>2, <1>4 DEF StackInv
  <2>3. QED
    BY <2>1, <2>2
<1>9. StoreInv'
  BY <1>6, <1>7, <1>8 DEF StoreInv
<1>10. GrammarInv'
  BY <1>2, GrammarStep DEF Grows
<1>11. QED
  BY <1>5, <1>9, <1>10

LEMMA FailFileStep == ASSUME LoadingInv, FailFile PROVE LoadingInv'
<1> USE DEF LoadingInv
<1>1. /\ UNCHANGED <<disk, present, searchPath, changes, index, grammar, infix,
                     runs, answered>>
      /\ stack # <<>> /\ failure # None /\ failure \in Error
      /\ stack' = Front(stack) /\ entries' = ClearedEntries
  BY Types DEF FailFile, environment, scopes, history
<1>2. PICK n \in Nat \ {0} :
        /\ n = Len(stack) /\ DOMAIN stack = 1 .. n
        /\ Top = stack[n] /\ stack[n] \in Item
        /\ stack' \in Seq(Item)
        /\ stack' # <<>> <=> n > 1
        /\ n > 1 => Last(stack') = stack[n - 1] /\ n - 1 \in DOMAIN stack
  BY <1>1, PopFacts
<1>3. /\ failure' \in Error \cup {None}
      /\ packageState' \in [Packages -> PackageState]
      /\ \A p \in Packages : Ready(packageState'[p], p, grammar[p])
  <2>1. packageState \in [Packages -> PackageState]
    BY Types
  <2>2. CASE stack' = <<>>
    BY <2>1, <2>2 DEF FailFile, GrammarInv
  <2>3. CASE stack' # <<>>
    <3>1. Last(stack').run \in Nat
      BY <2>3, <1>2, StackFacts DEF Item
    <3>2. PICK error : /\ error = TracedFrom(Last(stack').run, failure)
                       /\ Deliver(error, packageState)
      BY <2>3 DEF FailFile
    <3>3. error \in Error
      BY <3>1, <3>2, <1>1, TracedType
    <3>4. PICK states \in [Packages -> PackageState] : states = packageState
      BY <2>1
    <3>5. \A p \in Packages : Ready(states[p], p, grammar[p])
      BY <3>4 DEF GrammarInv
    <3>6. QED
      BY <3>2, <3>3, <3>4, <3>5, DeliverFacts
  <2>4. QED
    BY <2>2, <2>3
<1>4. entries \in [Files -> Nat \cup {None, Loading}] /\ Loading # None
  BY Types, LoadingAssumption
<1>5. Top.imported => Top.file \in Files /\ entries[Top.file] = Loading
  BY <1>2 DEF StackInv, StoreInv
<1>6. /\ entries' \in [Files -> Nat \cup {None, Loading}]
      /\ \A f \in Files : entries'[f] = entries[f] \/ (Top.imported /\ f = Top.file)
      /\ Top.imported => entries'[Top.file] = None
  BY <1>1, <1>4, <1>5 DEF ClearedEntries
<1>7. TypeOK'
  BY <1>1, <1>2, <1>3, <1>6 DEF TypeOK, PackageState, Error, Item
<1>8. StackInv' /\ StoreInv' /\ GrammarInv'
  BY <1>1, <1>3, <1>4, <1>6, <1>7, PopStep
<1>9. QED
  BY <1>1, <1>7, <1>8 DEF InternalStaysInternal

LEMMA FinishModuleStep == ASSUME LoadingInv, FinishModule PROVE LoadingInv'
<1> USE DEF LoadingInv
<1>1. /\ UNCHANGED <<disk, present, searchPath, changes, index, packageState,
                     grammar, infix, failure, runs>>
      /\ stack # <<>> /\ Top.imported /\ stack' = Front(stack)
      /\ entries' = [entries EXCEPT ![Top.file] = Top.run]
      /\ answered' = answered \cup {<<Last(stack').package, Top.file>>}
  BY DEF FinishModule, Running, Published, environment, scopes
<1>2. PICK n \in Nat \ {0} :
        /\ DOMAIN stack = 1 .. n /\ Top = stack[n] /\ stack[n] \in Item
        /\ stack' \in Seq(Item)
        /\ n > 1 => Last(stack') = stack[n - 1] /\ n - 1 \in DOMAIN stack
  BY <1>1, PopFacts
<1>3. PICK m \in Files, importer \in Scopes :
        /\ n > 1 /\ m = Top.file /\ importer = Last(stack').package
        /\ importer = PackageOf(m) \/ m \in Exports[PackageOf(m)]
  <2>1. n \in DOMAIN stack /\ n > 1
    BY <1>1, <1>2 DEF StackInv
  <2>2. stack[n - 1].package \in Scopes
    BY <2>1, <1>2, StackFacts DEF Item
  <2>3. QED
    BY <2>1, <2>2, <1>2 DEF StackInv
<1>4. entries \in [Files -> Nat \cup {None, Loading}] /\ Top.run \in Nat
  BY <1>2, Types DEF Item
<1>5. /\ entries' \in [Files -> Nat \cup {None, Loading}]
      /\ \A f \in Files : entries'[f] = entries[f] \/ f = Top.file
      /\ entries'[Top.file] = Top.run /\ Top.run # Loading
  BY <1>1, <1>3, <1>4, LoadingAssumption
<1>6. TypeOK'
  BY <1>1, <1>2, <1>3, <1>5 DEF TypeOK, Item
<1>7. StackInv' /\ StoreInv' /\ GrammarInv'
  BY <1>1, <1>5, <1>6, PopStep DEF GrammarInv
<1>8. InternalStaysInternal'
  BY <1>1, <1>3 DEF InternalStaysInternal
<1>9. QED
  BY <1>6, <1>7, <1>8

LEMMA FinishScriptStep == ASSUME LoadingInv, FinishScript PROVE LoadingInv'
<1> USE DEF LoadingInv
<1>1. /\ UNCHANGED <<disk, present, searchPath, changes, index, packageState,
                     grammar, infix, entries, failure, runs, answered>>
      /\ stack # <<>> /\ ~Top.imported /\ stack' = Front(stack)
  BY DEF FinishScript, Running, environment, scopes, history
<1>2. stack' \in Seq(Item)
  BY <1>1, PopFacts
<1>3. TypeOK'
  BY <1>1, <1>2 DEF TypeOK, Item
<1>4. StackInv' /\ StoreInv' /\ GrammarInv'
  BY <1>1, <1>3, PopStep DEF GrammarInv
<1>5. QED
  BY <1>1, <1>3, <1>4 DEF InternalStaysInternal

LEMMA StutterStep == ASSUME LoadingInv, UNCHANGED vars PROVE LoadingInv'
<1> USE DEF LoadingInv
<1>1. UNCHANGED <<disk, present, searchPath, changes, index, packageState,
                  grammar, infix, entries, stack, failure, runs, answered>>
  BY DEF vars, environment, scopes, history
<1>2. TypeOK'
  BY <1>1 DEF TypeOK
<1>3. \A p \in Packages : Ready(packageState'[p], p, grammar'[p])
  BY <1>1 DEF GrammarInv
<1>4. QED
  BY <1>1, <1>2, <1>3, QuietStep DEF Grows

-----------------------------------------------------------------------------
LEMMA LoadingInit == ASSUME Init PROVE LoadingInv
<1> USE DEF Init
<1>1. <<>> \in Seq(Nat) /\ <<>> \in Seq(Packages) /\ <<>> \in Seq(Item)
      /\ <<>> \in Seq(Run) /\ DOMAIN stack = {} /\ Len(stack) = 0
  BY EmptySeq, LenProperties
<1>2. disk \in [Files -> Content]
  BY LoadingAssumption
<1>3. index \in IndexState
  BY <1>1 DEF IndexState
<1>4. packageState \in [Packages -> PackageState]
  <2>1. [m \in Files |-> None] \in [Files -> Content \cup {None}]
    OBVIOUS
  <2>2. Unprepared \in PackageState
    BY <1>1, <2>1 DEF Unprepared, PackageState
  <2>3. QED
    BY <2>2
<1>5. TypeOK
  BY <1>1, <1>2, <1>3, <1>4, Types
<1>6. StackInv
  BY <1>1 DEF StackInv
<1>7. StoreInv
  <2>1. Loading # None
    BY LoadingAssumption
  <2>2. QED
    BY <2>1, <1>1 DEF StoreInv, IsLoaded
<1>8. GrammarInv
  BY <1>1 DEF GrammarInv, Ready, Unprepared
<1>9. InternalStaysInternal
  BY DEF InternalStaysInternal
<1>10. QED
  BY <1>5, <1>6, <1>7, <1>8, <1>9 DEF LoadingInv

LEMMA LoadingNext == ASSUME LoadingInv, [Next]_vars PROVE LoadingInv'
<1>1. CASE World
  BY <1>1, WorldStep
<1>2. CASE Host
  BY <1>2, SubmitStep, EvalFileStep, EvalUnpackagedStep, EvalRefusedStep,
     StutterStep DEF Host, SessionOver
<1>3. CASE ImportStep
  BY <1>3, ImportFailureStep, ImportLoadedStep, ImportUnpreparedStep,
     ImportFileStep DEF ImportStep
<1>4. CASE File
  BY <1>4, InstallOperatorStep, ErrorStep, FailFileStep, FinishModuleStep,
     FinishScriptStep DEF File
<1>5. QED
  BY <1>1, <1>2, <1>3, <1>4, StutterStep DEF Next

(* Every reachable state satisfies the inductive invariant. *)
THEOREM LoadingIsInvariant == Spec => []LoadingInv
BY LoadingInit, LoadingNext, PTL DEF Spec

LEMMA MarksCounted == ASSUME LoadingInv PROVE LoadingMatchesStack
<1> USE DEF LoadingInv
<1>1. ASSUME NEW m \in Files
      PROVE  Cardinality({i \in DOMAIN stack : ImportedAt(i, m)}) =
               IF entries[m] = Loading THEN 1 ELSE 0
  <2>1. PICK loads : loads = {i \in DOMAIN stack : ImportedAt(i, m)}
    OBVIOUS
  <2>2. loads = {i \in DOMAIN stack : i > 1 /\ stack[i].file = m}
    BY <2>1 DEF StackInv, ImportedAt
  <2>3. CASE entries[m] = Loading
    <3>1. PICK i \in loads : TRUE
      BY <2>2, <2>3 DEF StoreInv
    <3>2. loads = {i}
      BY <2>2, <3>1 DEF StoreInv
    <3>3. QED
      BY <2>1, <2>3, <3>2, FS_Singleton
  <2>4. CASE entries[m] # Loading
    <3>1. loads = {}
      BY <2>2, <2>4 DEF StoreInv
    <3>2. QED
      BY <2>1, <2>4, <3>1, FS_EmptySet
  <2>5. QED
    BY <2>3, <2>4
<1>2. QED
  BY <1>1 DEF LoadingMatchesStack

(* The store marks as being loaded exactly the files that the call stack   *)
(* is importing, each of them once, so that every cycle is noticed and     *)
(* every failed load is cleared (moduleStore.load).                        *)
THEOREM MarksCorrect == Spec => []LoadingMatchesStack
BY LoadingIsInvariant, MarksCounted, PTL

(* Every installed operator was installed by a run of the file that the    *)
(* grammar of its package says declares it (registerInfix), whatever was   *)
(* edited and registered again since.                                      *)
THEOREM OperatorsCorrect == Spec => []OperatorMatchesGrammar
<1>1. LoadingInv => OperatorMatchesGrammar
  BY DEF LoadingInv, GrammarInv, OperatorMatchesGrammar
<1>2. QED
  BY <1>1, LoadingIsInvariant, PTL

(* Every syntax tree that an import can still evaluate was parsed under    *)
(* the spellings its package's grammar has now (prepareManifest).          *)
THEOREM ProgramsCorrect == Spec => []ProgramsMatchGrammar
<1>1. LoadingInv => ProgramsMatchGrammar
  BY DEF LoadingInv, GrammarInv, Ready, ProgramsMatchGrammar
<1>2. QED
  BY <1>1, LoadingIsInvariant, PTL

(* Files that a manifest does not export reach only code of their own      *)
(* package (Index.ResolveFrom), namesakes of the package included.         *)
THEOREM InternalFilesCorrect == Spec => []InternalStaysInternal
<1>1. LoadingInv => InternalStaysInternal
  BY DEF LoadingInv
<1>2. QED
  BY <1>1, LoadingIsInvariant, PTL

-----------------------------------------------------------------------------
(* Importing implements ModuleCache: the state it promises about.          *)
PublishedNow == [m \in Files |-> IF IsLoaded(m) THEN entries[m] ELSE None]
ActiveOf(items) == [i \in 1 .. Len(items) - 1 |-> items[i + 1].file]
ActiveNow == ActiveOf(stack)
SeenNow == {m \in Files : \E p \in Scopes : <<p, m>> \in answered}

LEMMA ActiveFacts ==
  ASSUME NEW items \in Seq(Item),
         \A i \in DOMAIN items : i > 1 => items[i].file \in Files
  PROVE  /\ ActiveOf(items) \in Seq(Files)
         /\ DOMAIN ActiveOf(items) = 1 .. Len(items) - 1
         /\ items # <<>> => Len(ActiveOf(items)) = Len(items) - 1
         /\ Len(items) < 2 => ActiveOf(items) = <<>>
         /\ \A i \in 1 .. Len(items) - 1 : ActiveOf(items)[i] = items[i + 1].file
<1>1. /\ Len(items) \in Nat /\ DOMAIN items = 1 .. Len(items)
      /\ items = <<>> <=> Len(items) = 0
  BY LenProperties, EmptySeq
<1>2. ASSUME NEW i \in 1 .. Len(items) - 1 PROVE items[i + 1].file \in Files
  <2>1. i + 1 \in DOMAIN items /\ i + 1 > 1
    BY <1>1
  <2>2. QED
    BY <2>1
<1>3. PICK n \in Nat : /\ 1 .. Len(items) - 1 = 1 .. n
                       /\ items # <<>> => n = Len(items) - 1
                       /\ Len(items) < 2 => n = 0
  <2>1. CASE items = <<>>
    <3>1. 1 .. Len(items) - 1 = 1 .. 0 /\ 0 \in Nat
      BY <2>1, <1>1
    <3>2. QED
      BY <3>1, <2>1
  <2>2. CASE items # <<>>
    <3>1. Len(items) - 1 \in Nat
      BY <2>2, <1>1
    <3>2. Len(items) < 2 => Len(items) - 1 = 0
      BY <3>1, <1>1
    <3>3. QED
      BY <3>1, <3>2
  <2>3. QED
    BY <2>1, <2>2
<1>4. ActiveOf(items) \in [1 .. n -> Files]
  BY <1>2, <1>3 DEF ActiveOf
<1>5. ActiveOf(items) \in Seq(Files) /\ Len(ActiveOf(items)) = n
  BY <1>4, LenProperties
<1>6. n = 0 => ActiveOf(items) = <<>>
  BY <1>5, EmptySeq
<1>7. QED
  BY <1>3, <1>5, <1>6 DEF ActiveOf

LEMMA SameSequence ==
  ASSUME NEW s \in Seq(Files), NEW t \in Seq(Files), Len(s) = Len(t),
         \A i \in 1 .. Len(s) : s[i] = t[i]
  PROVE  s = t
BY SeqEqual

(* One step of importing, as the cache sees it. *)
Quiet == UNCHANGED <<PublishedNow, ActiveNow, SeenNow>>

LEMMA Unseen ==
  ASSUME stack' = stack, entries' = entries, answered' = answered
  PROVE  Quiet
BY DEF Quiet, PublishedNow, ActiveNow, ActiveOf, SeenNow, IsLoaded

LEMMA QuietActions ==
  ASSUME \/ World \/ InstallOperator \/ RaiseError \/ CatchError \/ UNCHANGED vars
         \/ \E m \in Files : EvalRefused(m)
         \/ \E request \in Requests :
              \/ ImportUnresolved(request)
              \/ \E m \in Files : \/ ImportCircular(request, m)
                                  \/ ImportUnprepared(request, m)
  PROVE  Quiet
BY Unseen DEF World, EditFile, MoveManifest, SetSearchPath, WorldChange,
   InstallOperator, RaiseError, CatchError, vars, EvalRefused,
   ImportUnresolved, ImportCircular, ImportUnprepared, history

(* Scripts start and end below every import. *)
LEMMA ScriptsUnseen ==
  ASSUME LoadingInv, LoadingInv',
         \/ Submit \/ FinishScript
         \/ \E m \in Files : EvalFile(m) \/ EvalUnpackaged(m)
  PROVE  Quiet
<1>1. entries' = entries /\ answered' = answered
  BY DEF Submit, FinishScript, EvalFile, EvalUnpackaged, history
<1>2. Len(stack) < 2 /\ Len(stack)' < 2
  <2>1. CASE FinishScript
    <3>1. stack # <<>> /\ ~Top.imported /\ stack' = Front(stack)
      BY <2>1 DEF FinishScript, Running
    <3>2. PICK n \in Nat \ {0} :
            /\ n = Len(stack) /\ DOMAIN stack = 1 .. n /\ Top = stack[n]
            /\ stack' # <<>> <=> n > 1
      BY <3>1, PopFacts DEF LoadingInv
    <3>3. n = 1
      BY <3>1, <3>2 DEF LoadingInv, StackInv
    <3>4. stack' = <<>>
      BY <3>2, <3>3
    <3>5. Len(stack)' = 0
      BY <3>4, EmptySeq
    <3>6. QED
      BY <3>2, <3>3, <3>5
  <2>2. CASE Submit \/ \E m \in Files : EvalFile(m) \/ EvalUnpackaged(m)
    <3>1. stack = <<>>
      BY <2>2 DEF Submit, EvalFile, EvalUnpackaged, Idle
    <3>2. Len(stack) = 0
      BY <3>1, EmptySeq
    <3>3. stack' = stack \/ \E item : stack' = Append(<<>>, item)
      BY <2>2, <3>1 DEF Submit, EvalFile, EvalUnpackaged, Start
    <3>4. ASSUME NEW item, stack' = Append(<<>>, item) PROVE Len(stack)' = 1
      <4>1. <<>> \in Seq({item}) /\ Len(<<>>) = 0
        BY EmptySeq
      <4>2. Len(stack') = Len(<<>>) + 1
        BY <4>1, <3>4, AppendProperties
      <4>3. QED
        BY <4>1, <4>2
    <3>5. QED
      BY <3>2, <3>3, <3>4
  <2>3. QED
    BY <2>1, <2>2
<1>3. /\ stack \in Seq(Item) /\ stack' \in Seq(Item)
      /\ \A i \in DOMAIN stack : i > 1 => stack[i].file \in Files
      /\ \A i \in DOMAIN stack' : i > 1 => stack'[i].file \in Files
  BY Types DEF LoadingInv, StackInv, TypeOK, Item
<1>4. ActiveOf(stack) = <<>> /\ ActiveOf(stack') = <<>>
  BY <1>2, <1>3, ActiveFacts
<1>5. QED
  BY <1>1, <1>4 DEF Quiet, PublishedNow, ActiveNow, SeenNow, IsLoaded

LEMMA StackFiles ==
  ASSUME LoadingInv
  PROVE  /\ stack \in Seq(Item)
         /\ \A i \in DOMAIN stack : i > 1 => stack[i].file \in Files
BY Types DEF LoadingInv, StackInv

(* An import starts a file that no import is evaluating. *)
LEMMA ImportBegins ==
  ASSUME LoadingInv, LoadingInv', NEW request \in Requests, NEW m \in Files,
         ImportFile(request, m)
  PROVE  Cache!Begin(m)
<1>1. /\ entries[m] = None /\ entries' = [entries EXCEPT ![m] = Loading]
      /\ answered' = answered /\ stack # <<>>
      /\ PackageOf(m) \in Scopes
      /\ Prepared(PackageOf(m)).status = "ready"
      /\ Start(m, PackageOf(m), Prepared(PackageOf(m)).programs[m], TRUE)
  BY PackageOfFile DEF ImportFile, Import, Running, Scopes
<1>2. Prepared(PackageOf(m)).programs[m] \in Content
  BY <1>1, PackagesReady, PackageOfFile DEF Ready
<1>3. PICK n \in Nat : n = Len(stack) /\ n >= 1 /\ DOMAIN stack = 1 .. n
  BY <1>1, StackFacts DEF LoadingInv
<1>4. /\ DOMAIN stack' = 1 .. n + 1 /\ stack' \in Seq(Item)
      /\ \A i \in 1 .. n : stack'[i] = stack[i]
      /\ stack'[n + 1].file = m
  <2>1. TRUE \in BOOLEAN
    OBVIOUS
  <2>2. /\ DOMAIN stack' = 1 .. Len(stack) + 1 /\ stack' \in Seq(Item)
        /\ \A i \in 1 .. Len(stack) : stack'[i] = stack[i]
        /\ stack'[Len(stack) + 1].file = m
    BY <2>1, <1>1, <1>2, StartFacts DEF LoadingInv
  <2>3. QED
    BY <2>2, <1>3
<1>5. \A i \in DOMAIN stack' : i > 1 => stack'[i].file \in Files
  BY DEF LoadingInv, StackInv
<1>6. PICK s, t : s = ActiveOf(stack) /\ t = ActiveOf(stack')
  OBVIOUS
<1>7. Len(stack') = n + 1
  BY <1>3, <1>4, LenProperties
<1>8. /\ s \in Seq(Files) /\ Len(s) = n - 1 /\ DOMAIN s = 1 .. n - 1
      /\ \A i \in 1 .. n - 1 : s[i] = stack[i + 1].file
  BY <1>1, <1>3, <1>6, StackFiles, ActiveFacts
<1>9. /\ t \in Seq(Files) /\ Len(t) = n
      /\ \A i \in 1 .. n : t[i] = stack'[i + 1].file
  <2>1. stack' # <<>> /\ (n + 1) - 1 = n
    BY <1>3, <1>7, EmptySeq
  <2>2. /\ t \in Seq(Files) /\ Len(t) = Len(stack') - 1
        /\ \A i \in 1 .. Len(stack') - 1 : t[i] = stack'[i + 1].file
    BY <2>1, <1>4, <1>5, <1>6, ActiveFacts
  <2>3. QED
    BY <2>1, <2>2, <1>7
<1>10. t = Append(s, m)
  <2>1. PICK u : u = Append(s, m)
    OBVIOUS
  <2>2. /\ u \in Seq(Files) /\ Len(u) = n
        /\ \A i \in 1 .. n - 1 : u[i] = s[i]
        /\ u[n] = m
    <3>1. /\ Append(s, m) \in Seq(Files) /\ Len(Append(s, m)) = Len(s) + 1
          /\ \A i \in 1 .. Len(s) : Append(s, m)[i] = s[i]
          /\ Append(s, m)[Len(s) + 1] = m
      BY <1>8, PushType
    <3>2. Len(s) + 1 = n
      BY <1>3, <1>8
    <3>3. QED
      BY <2>1, <3>1, <3>2, <1>8
  <2>3. ASSUME NEW i \in 1 .. n PROVE t[i] = u[i]
    <3>1. CASE i = n
      BY <3>1, <1>4, <1>9, <2>2
    <3>2. CASE i # n
      <4>1. i \in 1 .. n - 1 /\ i + 1 \in 1 .. n
        BY <3>2, <1>3
      <4>2. QED
        BY <4>1, <1>4, <1>8, <1>9, <2>2
    <3>3. QED
      BY <3>1, <3>2
  <2>4. QED
    BY <2>1, <2>2, <2>3, <1>9, SameSequence
<1>11. m \notin Range(s)
  <2>1. entries[m] # Loading
    BY <1>1, LoadingAssumption
  <2>2. ASSUME NEW i \in 1 .. n - 1 PROVE s[i] # m
    <3>1. i + 1 \in DOMAIN stack /\ i + 1 > 1
      BY <1>3
    <3>2. QED
      BY <3>1, <2>1, <1>8 DEF LoadingInv, StoreInv
  <2>3. QED
    BY <2>2, <1>8 DEF Range
<1>12. entries \in [Files -> Nat \cup {None, Loading}]
  BY Types DEF LoadingInv
<1>13. /\ PublishedNow[m] = None
       /\ PublishedNow' = PublishedNow
  <2>1. \A f \in Files : f # m => entries'[f] = entries[f]
    BY <1>1, <1>12
  <2>2. entries'[m] = Loading
    BY <1>1, <1>12
  <2>3. QED
    BY <2>1, <2>2, <1>1 DEF PublishedNow, IsLoaded
<1>14. QED
  BY <1>1, <1>6, <1>10, <1>11, <1>13
     DEF Cache!Begin, Cache!Range, Range, PublishedNow, ActiveOf, SeenNow

(* An import is answered with a module that is there. *)
LEMMA ImportAnswers ==
  ASSUME LoadingInv, NEW request \in Requests, NEW m \in Files,
         ImportLoaded(request, m)
  PROVE  Cache!Answer(m)
<1>1. /\ entries' = entries /\ stack' = stack /\ IsLoaded(m) /\ stack # <<>>
      /\ answered' = answered \cup {<<Top.package, m>>}
  BY DEF ImportLoaded, Import, Running
<1>2. PICK importer \in Scopes : importer = Top.package
  BY <1>1, StackFacts DEF LoadingInv, Item
<1>3. SeenNow' = SeenNow \cup {m}
  BY <1>1, <1>2 DEF SeenNow
<1>4. PublishedNow' = PublishedNow /\ PublishedNow[m] # None
  BY <1>1 DEF PublishedNow, IsLoaded
<1>5. QED
  BY <1>1, <1>3, <1>4
     DEF Cache!Answer, PublishedNow, SeenNow

(* What leaving an imported file takes from the loads in progress. *)
LEMMA ImportEnds ==
  ASSUME LoadingInv, LoadingInv', stack # <<>>, Top.imported, stack' = Front(stack)
  PROVE  /\ ActiveOf(stack) # <<>>
         /\ ActiveOf(stack') = Front(ActiveOf(stack))
         /\ Last(ActiveOf(stack)) = Top.file
<1>1. PICK n \in Nat \ {0} :
        /\ n = Len(stack) /\ DOMAIN stack = 1 .. n /\ Top = stack[n]
        /\ stack' \in Seq(Item) /\ DOMAIN stack' = 1 .. n - 1
        /\ \A i \in 1 .. n - 1 : stack'[i] = stack[i]
        /\ stack' # <<>> <=> n > 1
  BY PopFacts DEF LoadingInv
<1>2. n > 1
  BY <1>1 DEF LoadingInv, StackInv
<1>3. PICK k \in Nat : k = n - 1 /\ n = k + 1 /\ k >= 1
  BY <1>2
<1>4. PICK s, t : s = ActiveOf(stack) /\ t = ActiveOf(stack')
  OBVIOUS
<1>5. /\ s \in Seq(Files) /\ Len(s) = k
      /\ \A i \in 1 .. k : s[i] = stack[i + 1].file
  BY <1>1, <1>3, <1>4, StackFiles, ActiveFacts
<1>6. Len(stack') = k /\ stack' # <<>>
  BY <1>1, <1>2, <1>3, LenProperties
<1>7. \A i \in DOMAIN stack' : i > 1 => stack'[i].file \in Files
  BY DEF LoadingInv, StackInv
<1>8. /\ t \in Seq(Files) /\ Len(t) = k - 1
      /\ \A i \in 1 .. k - 1 : t[i] = stack'[i + 1].file
  BY <1>1, <1>4, <1>6, <1>7, ActiveFacts
<1>9. s # <<>>
  BY <1>3, <1>5, EmptySeq
<1>10. /\ Front(s) \in Seq(Files) /\ Len(Front(s)) = k - 1
       /\ \A i \in 1 .. k - 1 : Front(s)[i] = s[i]
  BY <1>5, <1>9, PopType
<1>11. ASSUME NEW i \in 1 .. k - 1 PROVE t[i] = Front(s)[i]
  <2>1. i \in 1 .. k /\ i + 1 \in 1 .. n - 1
    BY <1>3
  <2>2. QED
    BY <2>1, <1>1, <1>5, <1>8, <1>10, ZenonT(60)
<1>12. t = Front(s)
  BY <1>8, <1>10, <1>11, SameSequence
<1>13. Last(s) = Top.file
  BY <1>1, <1>3, <1>5 DEF Last
<1>14. QED
  BY <1>4, <1>9, <1>12, <1>13

(* A file that ends is published under the run that evaluated it, which no *)
(* other module is.                                                        *)
LEMMA ModulePublished ==
  ASSUME LoadingInv, LoadingInv', FinishModule
  PROVE  Cache!Publish
<1>1. /\ stack # <<>> /\ Top.imported /\ stack' = Front(stack)
      /\ entries' = [entries EXCEPT ![Top.file] = Top.run]
      /\ answered' = answered \cup {<<Last(stack').package, Top.file>>}
  BY DEF FinishModule, Running, Published
<1>2. PICK n \in Nat \ {0} :
        /\ DOMAIN stack = 1 .. n /\ Top = stack[n] /\ stack[n] \in Item
        /\ n > 1 => Last(stack') = stack[n - 1] /\ n - 1 \in DOMAIN stack
  BY <1>1, PopFacts DEF LoadingInv
<1>3. n > 1 /\ n \in DOMAIN stack
  BY <1>1, <1>2 DEF LoadingInv, StackInv
<1>4. PICK m \in Files, r \in Nat :
        /\ m = Top.file /\ r = Top.run /\ runs[r].file = m
        /\ entries[m] = Loading
  BY <1>2, <1>3 DEF LoadingInv, StackInv, StoreInv, Item
<1>5. Last(stack').package \in Scopes
  BY <1>2, <1>3, StackFacts DEF LoadingInv, Item
<1>6. entries \in [Files -> Nat \cup {None, Loading}]
  BY Types DEF LoadingInv
<1>7. r # None /\ r # Loading /\ None # Loading
  BY LoadingAssumption
<1>8. /\ entries'[m] = r
      /\ \A f \in Files : f # m => entries'[f] = entries[f]
  BY <1>1, <1>4, <1>6
<1>9. \A f \in Files : IsLoaded(f) => entries[f] # r
  <2>1. ASSUME NEW f \in Files, IsLoaded(f), entries[f] = r PROVE FALSE
    <3>1. f = m
      BY <2>1, <1>4 DEF LoadingInv, StoreInv
    <3>2. QED
      BY <3>1, <2>1, <1>4 DEF IsLoaded
  <2>2. QED
    BY <2>1
<1>10. r \notin {None} \cup {PublishedNow[f] : f \in Files}
  <2>1. \A f \in Files : PublishedNow[f] # r
    BY <1>7, <1>9 DEF PublishedNow
  <2>2. QED
    BY <2>1, <1>7
<1>11. PublishedNow'[m] = r /\ PublishedNow' = [PublishedNow EXCEPT ![m] = r]
  <2>1. \A f \in Files :
          (IF IsLoaded(f)' THEN entries'[f] ELSE None) =
            IF f = m THEN r ELSE PublishedNow[f]
    BY <1>7, <1>8 DEF PublishedNow, IsLoaded
  <2>2. PublishedNow' = [f \in Files |-> IF f = m THEN r ELSE PublishedNow[f]]
    BY <2>1 DEF PublishedNow
  <2>3. PublishedNow = [f \in Files |-> PublishedNow[f]]
    BY DEF PublishedNow
  <2>4. QED
    BY <2>2, <2>3
<1>12. SeenNow' = SeenNow \cup {m}
  BY <1>1, <1>4, <1>5 DEF SeenNow
<1>13. /\ ActiveOf(stack) # <<>> /\ ActiveOf(stack') = Front(ActiveOf(stack))
       /\ Last(ActiveOf(stack)) = m
  BY <1>1, <1>4, ImportEnds
<1>14. QED
  BY <1>10, <1>11, <1>12, <1>13
     DEF Cache!Publish, Cache!Front, Front, Cache!Last, Last, PublishedNow,
         ActiveOf, SeenNow

(* A file that fails leaves its module unloaded. *)
LEMMA ModuleAbandoned ==
  ASSUME LoadingInv, LoadingInv', FailFile
  PROVE  Cache!Abandon \/ Quiet
<1>1. /\ stack # <<>> /\ stack' = Front(stack) /\ entries' = ClearedEntries
      /\ answered' = answered
  BY DEF FailFile, history
<1>2. PICK n \in Nat \ {0} :
        /\ n = Len(stack) /\ DOMAIN stack = 1 .. n /\ Top = stack[n]
        /\ stack' # <<>> <=> n > 1
  BY <1>1, PopFacts DEF LoadingInv
<1>3. n \in DOMAIN stack /\ (Top.imported <=> n > 1)
  BY <1>2 DEF LoadingInv, StackInv
<1>4. entries \in [Files -> Nat \cup {None, Loading}]
  BY Types DEF LoadingInv
<1>5. PublishedNow' = PublishedNow
  <2>1. \A f \in Files : entries'[f] = entries[f] \/
                         (entries[f] = Loading /\ entries'[f] = None)
    BY <1>1, <1>4 DEF ClearedEntries
  <2>2. QED
    BY <2>1 DEF PublishedNow, IsLoaded
<1>6. SeenNow' = SeenNow
  BY <1>1 DEF SeenNow
<1>7. CASE Top.imported
  <2>1. ActiveOf(stack) # <<>> /\ ActiveOf(stack') = Front(ActiveOf(stack))
    BY <1>1, <1>7, ImportEnds
  <2>2. QED
    BY <2>1, <1>5, <1>6
       DEF Cache!Abandon, Cache!Front, Front, PublishedNow, ActiveOf, SeenNow
<1>8. CASE ~Top.imported
  <2>1. Len(stack) = 1 /\ stack' = <<>>
    BY <1>2, <1>3, <1>8
  <2>2. /\ stack \in Seq(Item) /\ stack' \in Seq(Item) /\ Len(stack') = 0
        /\ \A i \in DOMAIN stack' : i > 1 => stack'[i].file \in Files
    BY <2>1, StackFiles, EmptySeq DEF LoadingInv, StackInv
  <2>3. ActiveOf(stack) = <<>> /\ ActiveOf(stack') = <<>>
    BY <2>1, <2>2, StackFiles, ActiveFacts
  <2>4. QED
    BY <2>3, <1>5, <1>6 DEF Quiet, ActiveNow
<1>9. QED
  BY <1>7, <1>8

LEMMA CacheStep ==
  ASSUME LoadingInv, LoadingInv', [Next]_vars
  PROVE  Cache!CacheNext \/ Quiet
<1>1. CASE World \/ UNCHANGED vars \/ SessionOver
  BY <1>1, QuietActions DEF SessionOver
<1>2. CASE Host
  BY <1>2, QuietActions, ScriptsUnseen DEF Host, SessionOver
<1>3. CASE ImportStep
  <2>1. PICK request \in Requests :
          \/ ImportUnresolved(request)
          \/ \E m \in Files :
               \/ ImportLoaded(request, m) \/ ImportCircular(request, m)
               \/ ImportUnprepared(request, m) \/ ImportFile(request, m)
    BY <1>3 DEF ImportStep
  <2>2. QED
    BY <2>1, QuietActions, ImportAnswers, ImportBegins DEF Cache!CacheNext
<1>4. CASE File
  BY <1>4, QuietActions, ScriptsUnseen, ModulePublished, ModuleAbandoned
     DEF File, Cache!CacheNext
<1>5. QED
  BY <1>1, <1>2, <1>3, <1>4 DEF Next

(* The module store keeps what importing promises (ModuleCache): imports   *)
(* nest, no module is loaded while it is being loaded, each is published   *)
(* at most once and keeps its identity, and only published modules are     *)
(* handed out.                                                             *)
THEOREM ImportsAsPromised == Spec => LoadsAsPromised
<1>1. Init => Cache!CacheInit
  <2>1. ASSUME Init PROVE Cache!CacheInit
    <3>1. LoadingInv /\ stack = <<>> /\ Len(stack) = 0
      BY <2>1, LoadingInit, EmptySeq DEF Init
    <3>2. ActiveOf(stack) = <<>>
      <4>1. PICK items : items = stack
        OBVIOUS
      <4>2. /\ items \in Seq(Item) /\ Len(items) < 2
            /\ \A i \in DOMAIN items : i > 1 => items[i].file \in Files
        BY <3>1, <4>1, StackFiles
      <4>3. QED
        BY <4>1, <4>2, ActiveFacts
    <3>3. QED
      BY <2>1, <3>2 DEF Init, Cache!CacheInit, ActiveOf, IsLoaded
  <2>2. QED
    BY <2>1
<1>2. LoadingInv /\ LoadingInv' /\ [Next]_vars =>
        [Cache!CacheNext]_(Cache!cacheVars)
  <2>1. Quiet => UNCHANGED Cache!cacheVars
    BY DEF Quiet, Cache!cacheVars, PublishedNow, ActiveNow, ActiveOf, SeenNow
  <2>2. QED
    BY <2>1, CacheStep
<1>3. QED
  BY <1>1, <1>2, LoadingIsInvariant, PTL
     DEF Spec, LoadsAsPromised, Cache!CacheSpec
=============================================================================
