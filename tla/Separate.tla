------------------------------ MODULE Separate ------------------------------
(***************************************************************************)
(* The separation of structures (analyzer/separate.cc).                    *)
(*                                                                         *)
(* In the subject program a structure has one definition and many          *)
(* instances: the types of objects, pointers and so on that mention it.    *)
(* The binding-time analysis treats each instance by itself.  In the       *)
(* generated program the instances of one definition must agree, so        *)
(* definitions are duplicated: first by the binding times that are found   *)
(* within the instance itself, then, until nothing changes, by the         *)
(* definitions of the structures found there, its parts.                   *)
(*                                                                         *)
(* Instances have numbers: their order in the lists, which never changes.  *)
(***************************************************************************)
EXTENDS Naturals, FiniteSets, SequencesExt, FiniteSetsExt

CONSTANTS
  Count,      \* the number of structure types: they are 1 .. Count
  Programs    \* records of functions on the structure types:
              \*   original: the definition in the program
              \*   parts: a sequence of structure types
              \*   dynamic, inner: the binding times of the type itself, and
              \*   of all between it and its parts

Instances == 1 .. Count

ASSUME ProgramAssumption ==
  /\ Count \in Nat
  /\ \A P \in Programs : \A i, j \in Instances :
       /\ P.parts[i] \in Seq(Instances)
       /\ P.original[i] = P.original[j] =>
            /\ Len(P.parts[i]) = Len(P.parts[j])
            /\ \A k \in DOMAIN P.parts[i] :
                 P.original[P.parts[i][k]] = P.original[P.parts[j][k]]

VARIABLES
  program,
  def,        \* def[i]: the node, with its definition, that i belongs to
  canonical,  \* canonical[n]: the definitions of the parts of proper instances
  succ,       \* succ[n]: the nodes to wake when n has been split
  waiting     \* nodes that are to be solved

vars == <<program, def, canonical, succ, waiting>>

parts   == program.parts
Of(n)   == {i \in Instances : def[i] = n}
Nodes   == DOMAIN canonical

PartDefs(d, i) == [k \in DOMAIN parts[i] |-> d[parts[i][k]]]

----------------------------------------------------------------------------
\* local_match.
Local(P, i) ==
  <<P.original[i], P.dynamic[i], P.inner[i],
    [k \in DOMAIN P.parts[i] |-> P.dynamic[P.parts[i][k]]]>>

\* make_nodes: the first instance left leads a new node, and takes along those
\* that match it.
Leader(P, i) == Min({j \in Instances : Local(P, j) = Local(P, i)})

FirstNode(P, i) == Cardinality({j \in 1 .. Leader(P, i) : Leader(P, j) = j})

\* Separate, up to the solver.
Init ==
  /\ program \in Programs
  /\ def = [i \in Instances |-> FirstNode(program, i)]
  /\ canonical = [n \in 1 .. Max(Range(def)) |-> PartDefs(def, Min(Of(n)))]
  /\ succ = [n \in Nodes |-> {m \in Nodes : n \in Range(canonical[m])}]
  /\ waiting = {n \in Nodes : Cardinality(Of(n)) > 1}

\* match: the loop is run once for each part, but the iterators stay put.
Match(d, i, ds) == \A k \in DOMAIN parts[i] : d[parts[i][1]] = ds[1]

Proper(n, ds) == {i \in Of(n) : Match(def, i, ds)}

\* normalize: if no instance is proper any more, the first one is made so.
Normal(n) ==
  IF Proper(n, canonical[n]) # {} THEN canonical[n] ELSE PartDefs(def, Min(Of(n)))

\* Variant with a defect: a new definition does not depend on its parts.
Hooked_not(s, n, ds) == s

\* setcanonical: n is woken when the definition of one of its parts is split.
Hooked(s, n, ds) == [m \in DOMAIN s |-> IF m \in Range(ds) THEN s[m] \cup {n} ELSE s[m]]

\* SepNode::solve: the instances after the first proper one are looked at one
\* by one, and may have parts that have just been moved.
Moving(n, new) ==
  LET ds    == Normal(n)
      first == Min(Proper(n, ds))
      Move(d, i) ==
        IF i \in Of(n) /\ (i < first \/ (i > first /\ ~ Match(d, i, ds)))
        THEN [d EXCEPT ![i] = new] ELSE d
  IN  FoldLeft(Move, def, [i \in Instances |-> i])

\* Variants with a defect: only the new node is looked at again, or all
\* dependent nodes are each time.
Woken_new(n, new, split)    == IF split THEN {new} ELSE {}
Woken_always(n, new, split) == (IF split THEN {new} ELSE {}) \cup succ'[n]

Woken(n, new, split) == IF split THEN {new} \cup succ'[n] ELSE {}

Solve(n) ==
  LET new   == Len(canonical) + 1
      moved == {i \in Instances : def'[i] = new}
      same  == [canonical EXCEPT ![n] = Normal(n)]
      hooks == IF Normal(n) = canonical[n] THEN succ ELSE Hooked(succ, n, Normal(n))
  IN  /\ def' = Moving(n, new)
      /\ IF moved = {}
         THEN canonical' = same /\ succ' = hooks
         ELSE /\ canonical' = Append(same, PartDefs(def', Min(moved)))
              /\ succ' = Hooked(Append(hooks, {}), new, canonical'[new])
      /\ waiting' = (waiting \ {n}) \cup Woken(n, new, moved # {})

\* FixpointSolver: the order of the work list is left open.
Next ==
  /\ \E n \in waiting : Solve(n)
  /\ UNCHANGED program

Spec == Init /\ [][Next]_vars /\ WF_vars(Next)

----------------------------------------------------------------------------
(***************************************************************************)
(* Properties.                                                             *)
(***************************************************************************)
TypeOK ==
  /\ def \in [Instances -> Nodes]
  /\ \A n \in Nodes : Of(n) # {}
  /\ succ \in [Nodes -> SUBSET Nodes]
  /\ waiting \subseteq Nodes

\* Structures unfolded n times: the binding times an instance shows.  Those
\* that differ at all do so within Count - 1 times.
Unfolded[n \in 0 .. Count] ==
  IF n = 0 THEN [i \in Instances |-> Local(program, i)]
  ELSE LET u == Unfolded[n - 1]
       IN  [i \in Instances |-> <<u[i], [k \in DOMAIN parts[i] |-> u[parts[i][k]]]>>]

\* "All instances of each C_UserDef have the exact same binding-time
\* properties" (analyses.h), however deep one looks.
SameBindingTimes ==
  waiting = {} =>
    LET u == [i \in Instances |-> Unfolded[Count - 1][i]]
    IN  \A i, j \in Instances : def[i] = def[j] => u[i] = u[j]

\* The separation ends, also when structures are recursive.
Ends == <>(waiting = {})
=============================================================================
