------------------------------ MODULE MCTables ------------------------------
(***************************************************************************)
(* Three containers in one run: the pools of residual functions            *)
(* (FunShare), the shared copies (MemHash) and the balanced trees          *)
(* (YGTree).  The first state says which of them is used; the others rest  *)
(* in their first state.                                                   *)
(*   FunShare: a global number g, a global pointer p to a heap cell h or   *)
(*   to the parameter of the outer activation, and two generating          *)
(*   functions: "f" reads g and p and writes p and h, "d" is under dynamic *)
(*   control and only reads.                                               *)
(*   MemHash: blocks of three sizes, the smallest of which is not shared,  *)
(*   the others with one hash value (as sizes that differ by 65535 have).  *)
(*   YGTree: the numbers 1..5, two to a leaf.                              *)
(***************************************************************************)
EXTENDS FunShare, MemHash, TLC

CONSTANTS f, d, g, p, h, a1, a2, null, n0, n1

MCFuns     == {f, d}
MCGlobals  == <<p, g>>
MCHeap     == {h}
MCPar      == <<a1, a2>>
MCValsOf   == [o \in {g, h, a1} |-> {n0, n1}] @@ (a2 :> {n0}) @@ (p :> {null, h, a1})
MCReadSet  == (f :> {p, g, f}) @@ (d :> {p, h, f, d})
MCWriteSet == (f :> {p, h, f}) @@ (d :> {d})
MCDynFuns  == {d}

VARIABLES which, tree, answer

MCBlocks == {<<1, 1>>, <<2, 1>>, <<2, 2>>, <<2, 3>>, <<3, 1>>, <<3, 2>>}
MCAddress == 1 .. 3
MCHash(n) == IF n > 1 THEN 0 ELSE 1
MCOthers == {{}, {1}, {2, 3}, {1, 4, 5}, {2, 3, 4, 5}}

Y == INSTANCE YGTree WITH LeafSize <- 2, Data <- 1 .. 5, Others <- MCOthers

TablesInit == which \in {"functions", "copies", "trees"} /\ Init /\ MHInit /\ Y!Init

ygtree  == <<tree, answer>>

Functions_ == which = "functions" /\ Next /\ UNCHANGED <<which, memhash, ygtree>>
Copies     == which = "copies" /\ MHNext /\ UNCHANGED <<which, vars, ygtree>>
Trees      == which = "trees" /\ Y!Next /\ UNCHANGED <<which, vars, memhash>>

TablesSpec == TablesInit /\ [][Functions_ \/ Copies \/ Trees]_<<which, vars, memhash, ygtree>>

\* The states that differ: what a tree has answered does not influence what follows.
View == <<which, vars, memhash, tree>>

\* A container behaves as the set of its elements (SortedSets), and every operation
\* leaves the tree well-formed.  (The other two do not touch it.)
ImplementsSets ==
  /\ Y!Abstract!Init /\ [][which = "trees" => Y!Abstract!Next]_(Y!Abstract!vars)
  /\ [](which = "trees" => Y!WellFormed)
=============================================================================
