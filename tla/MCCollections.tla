--------------------------- MODULE MCCollections ---------------------------
(* Model-checking instances of Collections.                                 *)
EXTENDS Collections

(* Both sides of every boundary of sequences of up to three elements, every  *)
(* method and function, no loops.                                            *)
Flat == [values |-> {1, 2}, bounds |-> {0, 2}, offsets |-> {-4, -3, -1, 0, 2, 3, 4}, direct |-> FALSE,
         maxHandles |-> 2, maxCapacity |-> 3, maxNesting |-> 0]

(* Operations inside a loop body or the value of an index assignment, by     *)
(* programs that leave the arrays of handles alone and by those that do not. *)
Nested(touches) ==
  [values |-> {1}, bounds |-> {1}, offsets |-> {0, 1}, direct |-> touches,
   maxHandles |-> 1, maxCapacity |-> 2, maxNesting |-> 1]

AllPrograms == {Flat, Nested(FALSE), Nested(TRUE)}
WithoutHandles == {[Nested(FALSE) EXCEPT !.maxHandles = 0]}
=============================================================================
