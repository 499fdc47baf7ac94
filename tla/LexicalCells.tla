---------------------------- MODULE LexicalCells ----------------------------
(***************************************************************************)
(* What bindings promise (docs/language_guide/types.md, "Variables"): a    *)
(* declaration or an assignment names its cell and the contract it is held *)
(* to before its value is computed, and what it stores when the value is   *)
(* there goes into that very cell and honours that contract.  Only the     *)
(* promise of an assignment can become void, when what it assigns to is    *)
(* declared again.  A value that never arrives changes nothing.  Promises  *)
(* nest like the evaluations they wait for.                                *)
(***************************************************************************)
EXTENDS Sequences, SequencesExt

CONSTANTS
  Places,          \* where a name can be bound
  Contracts,       \* what a cell may be held to; None: anything
  Values,          \* what a cell may hold
  None,            \* no contract, or nothing bound
  Conforms(_, _),  \* whether a value honours a contract
  Hides(_, _)      \* whether what is declared at a place hides another place

VARIABLES
  cells,     \* what is bound at each place
  promises   \* what each evaluation in progress has promised, innermost last

cellVars == <<cells, promises>>

Kinds == {"let", "infer", "assign"}
Promise == [kind : Kinds, at : Places, contract : Contracts \cup {None}]
NoPromise == [kind |-> "none"]     \* a body, which waits for no value
Void == [kind |-> "void"]          \* an assignment that was overtaken
Bound(place) == cells[place] # None

Honoured(cell) == cell = None \/ Conforms(cell.contract, cell.value)

CellsInit ==
  promises = <<NoPromise>> /\ \A place \in Places : Honoured(cells[place])

(* An assignment is held to the contract of the cell it found. *)
Make ==
  /\ \E new \in Promise :
       /\ promises' = Append(promises, new)
       /\ new.kind = "assign" =>
            Bound(new.at) /\ new.contract = cells[new.at].contract
  /\ UNCHANGED cells

(* What happens to promises when `place` is declared: none that it hides   *)
(* and that waits to assign is left.                                       *)
Overtakes(place, before, after) ==
  /\ DOMAIN after = DOMAIN before
  /\ \A i \in DOMAIN before :
       \/ after[i] = before[i] /\ (before[i].kind = "assign" => before[i].at # place)
       \/ after[i] = Void /\ before[i].kind = "assign" /\ Hides(place, before[i].at)

Keep ==
  /\ promises # <<>>
  /\ LET made == Last(promises)
         cell == cells'[made.at]
     IN /\ made \notin {NoPromise, Void}
        /\ cells' = [cells EXCEPT ![made.at] = cell]
        /\ cell # None
        /\ Honoured(cell)
        /\ made.kind # "infer" => cell.contract = made.contract
        /\ IF made.kind = "assign" THEN promises' = Front(promises)
           ELSE Overtakes(made.at, Front(promises), promises')

(* The value of an overtaken assignment is stored under a contract that it *)
(* was not held to.                                                        *)
Stray ==
  /\ promises # <<>> /\ Last(promises) = Void
  /\ promises' = Front(promises)
  /\ \E place \in Places :
       /\ Bound(place)
       /\ cells' = [cells EXCEPT ![place].value = cells'[place].value]

(* Evaluations end or fail with all those inside them; a body may begin.   *)
Nests ==
  \E kept \in 0 .. Len(promises) :
    LET outer == SubSeq(promises, 1, kept)
    IN promises' = outer \/ promises' = Append(outer, NoPromise)

(* A type name is declared at once.                                        *)
Declare ==
  \E place \in Places :
    /\ Overtakes(place, promises, promises')
    /\ cells' = [cells EXCEPT ![place] = cells'[place]]
    /\ cells'[place] # None
    /\ Honoured(cells'[place])

(* Parameters, loop variables and caught errors are bound to new names.  A *)
(* failure drops the promises of the evaluations it ends.                  *)
Bind ==
  /\ Nests
  /\ \/ UNCHANGED cells
     \/ \E place \in Places :
          /\ ~Bound(place)
          /\ cells' = [cells EXCEPT ![place] = cells'[place]]
          /\ cells'[place] # None
          /\ Honoured(cells'[place])

CellsNext == Make \/ Keep \/ Stray \/ Declare \/ Bind
CellsSpec == CellsInit /\ [][CellsNext]_cellVars
=============================================================================
