--------------------------- MODULE MCPendingList ---------------------------
(***************************************************************************)
(* Two generating functions: "f" opens a residual function of its own and  *)
(* inserts its first block in the pending list; "g" is unfolded and runs   *)
(* its first block at once.  Both memoize a at point 1; at point 2, f      *)
(* memoizes b and g nothing, so that restoring leaves other locals alone.  *)
(***************************************************************************)
EXTENDS PendingList, TLC

CONSTANTS f, g, a, b, v0, v1

MCFuns    == {f, g}
MCPoints  == {1, 2}
MCObjs    == {a, b}
MCVals    == {v0, v1}
MCMemoSet == (f :> (1 :> {a} @@ 2 :> {b})) @@ (g :> (1 :> {a} @@ 2 :> {}))
MCFirst   == f :> 1 @@ g :> 0
MCUnfold  == f :> FALSE @@ g :> TRUE
============================================================================
