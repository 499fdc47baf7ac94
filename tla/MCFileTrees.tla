----------------------------- MODULE MCFileTrees -----------------------------
EXTENDS FileTrees

A == <<"a">>
AX == <<"a", "x">>

MCNames == <<A, AX>>

(* Directories inside each other and a link to a file that is not there    *)
(* yet; a link back to the root.                                           *)
Base == (<<>> :> Directory) @@ (<<A>> :> Directory)
MCTrees == {
  Base,
  Base @@ (<<A, A>> :> Directory) @@ (<<AX>> :> LinkTo(<<A, AX>>)),
  Base @@ (<<A, AX>> :> LinkTo(<<DotDot>>)) @@ (<<AX>> :> File)}

MCTexts ==
  {EmptyText, <<A>>, <<Empty, A, AX>>, <<Dot, A, DotDot, AX>>, <<DotDot, Empty>>, <<<<"~">>>>}
MCOperands == {<<A>>, <<AX>>, <<Empty, A, AX>>, Current}
MCHome == <<Empty, A>>
MCSuffixings == {<<>>, <<"x">>, <<"y">>}
MCPatterns == {{A}, {A, AX}}
=============================================================================
