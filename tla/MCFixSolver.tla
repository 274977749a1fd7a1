---------------------------- MODULE MCFixSolver -----------------------------
(***************************************************************************)
(* A small analysis for the solver: cells hold names of constraints.       *)
(*   in:  cell c contains e                                                *)
(*   sub: cell c contains what cell d contains                             *)
(*   run: every constraint in cell d is imposed                            *)
(* "run" stands for calls through function pointers, which create their    *)
(* constraints as the functions they may call turn up.  "in" always says   *)
(* that it has changed its cell, as many data-flow constraints do.         *)
(***************************************************************************)
EXTENDS FixSolver, TLC

CONSTANTS a, b, late

MCCell   == {a, b}
MCElem   == {late, "x"}
In(c, e)  == [op |-> "in", c |-> c, e |-> e]
Sub(c, d) == [op |-> "sub", c |-> c, d |-> d]
Run(d)    == [op |-> "run", d |-> d]
MCVertex == {In(c, e) : c \in MCCell, e \in MCElem}
              \cup {Sub(a, b), Sub(b, a), Run(a), Run(b)}
MCBottom == [c \in MCCell |-> {}]
MCStarts == {S \in SUBSET MCVertex : Cardinality(S) <= 4}

MCUpdate(v, s) ==
  CASE v.op = "in"  -> [s EXCEPT ![v.c] = @ \cup {v.e}]
    [] v.op = "sub" -> [s EXCEPT ![v.c] = @ \cup s[v.d]]
    [] v.op = "run" -> s
MCReads(v, s) == IF v.op = "in" THEN {} ELSE {v.d}
MCHooks(v) == IF v.op = "run" THEN {v.d} ELSE {}
MCSpawn(v, s) == IF v.op = "run" /\ late \in s[v.d] THEN {Sub(a, b), In(b, "x")} ELSE {}
MCReports(v, s) ==
  IF v.op = "in" THEN {v.c} ELSE {c \in MCCell : s[c] # MCUpdate(v, s)[c]}

ASSUME MonotoneAssumption == Monotone(State)
============================================================================
