----------------------------- MODULE MCBindings -----------------------------
(* Model-checking instance of Bindings: a built-in type that the script     *)
(* redeclares as a type, or has shadowed with a function.                   *)
EXTENDS Bindings

TypeAnnotations == {"int", "Error", None}
Closures == {<<"x", "Error">>, <<"Error", None>>}

(* The script begins, or has bound a variable, with or without a contract,  *)
(* and a function that can assign to it.                                    *)
Variable(contract) == Cell(Literal("int"), contract)
Closure == Cell(Function(1, "Error", None), None)
Begun ==
  {Empty} \cup
  {[n \in Names |-> IF n = "Error" THEN Closure ELSE Variable(contract)] :
     contract \in {None, Runtime("int")}}
=============================================================================
