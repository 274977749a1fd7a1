----------------------------- MODULE SortedSets -----------------------------
(***************************************************************************)
(* What the sorted containers promise (Pset.h, Nset.h): a set of numbered  *)
(* things, and an answer to each operation on it.                          *)
(***************************************************************************)
EXTENDS Integers, FiniteSets, SequencesExt, FiniteSetsExt

CONSTANT Data

VARIABLES
  set,     \* the elements
  answer   \* the last operation: <<name, argument, what it returned>>

vars == <<set, answer>>

Init == set = {} /\ answer = <<"clear", {}, TRUE>>

Answer(op, arg, result) == answer' = <<op, arg, result>>

Insert(d) == set' = set \cup {d} /\ Answer("insert", d, d \in set)
Erase(d) == d \in set /\ set' = set \ {d} /\ Answer("erase", d, TRUE)
Find(d) == set' = set /\ Answer("find", d, d \in set)
Union(S) == set' = set \cup S /\ Answer("union", S, S \subseteq set)
Intersect(S) == set' = set \cap S /\ Answer("intersect", S, set \subseteq S)
Minus(S) == set' = set \ S /\ Answer("minus", S, set \cap S = {})
Clear == set' = {} /\ Answer("clear", {}, TRUE)

Next ==
  \/ \E d \in Data : Insert(d) \/ Erase(d) \/ Find(d)
  \/ \E S \in SUBSET Data : Union(S) \/ Intersect(S) \/ Minus(S)
  \/ Clear

Spec == Init /\ [][Next]_vars
=============================================================================
