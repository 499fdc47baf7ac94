---------------------------- MODULE MCUnwinding ----------------------------
(* Model-checking instance of Unwinding.                                    *)
EXTENDS Unwinding

CONSTANT NotFound

(* One application error; handlers for it and for one runtime error.        *)
AppErrors == {NotFound}
OneOfEach == {{NotFound}, {RuntimeError}}
=============================================================================
