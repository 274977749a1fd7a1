-------------------------- MODULE FixSolverProofs ---------------------------
(***************************************************************************)
(* Proofs about the fixpoint solver, for every analysis that keeps its     *)
(* assumptions: when the work list is empty all constraints hold, and what *)
(* has been computed is below every solution.                              *)
(***************************************************************************)
EXTENDS FixSolver, TLAPS

IInv == TypeOK /\ DirtyCoversUnsolved

\* The initial state has its type, and everything is on the work list.
LEMMA InitInvariant == Init => IInv
<1> SUFFICES ASSUME Init
             PROVE  IInv
  OBVIOUS
<1>1. known \subseteq Vertex /\ dirty = known /\ val \in State
  BY TypeAssumption DEF Init, Empty
<1>2. deps \subseteq Cell \X known
  BY <1>1, TypeAssumption DEF Init, Hooked
<1> QED
  BY <1>1, <1>2 DEF Init, IInv, TypeOK, DirtyCoversUnsolved

\* A step keeps the types.
LEMMA StepType ==
  ASSUME TypeOK, NEW v \in Vertex, Solve(v)
  PROVE  TypeOK'
<1>1. Update(v, val) \in State /\ Reads(v, val) \subseteq Cell
        /\ Spawn(v, val) \subseteq Vertex /\ Reports(v, val) \subseteq Cell
  BY TypeAssumption DEF TypeOK
<1>2. val' \in State /\ clock' \in Nat /\ stamp' \in [Vertex -> Nat]
  BY <1>1 DEF Solve, TypeOK
<1>3. known' \subseteq Vertex /\ known \subseteq known'
  BY <1>1 DEF Solve, TypeOK, Adopted
<1>4. deps' \subseteq Cell \X known'
  <2>1. Hooked(Spawn(v, val)) \subseteq Cell \X known'
    BY <1>1, <1>2, TypeAssumption DEF Hooked, Solve, Adopted, TypeOK
  <2>2. deps \cup (Reads(v, val) \X {v}) \subseteq Cell \X known'
    BY <1>1, <1>3 DEF Solve, TypeOK
  <2> QED
    BY <2>1, <2>2 DEF Solve, Recorded
<1>5. dirty' \subseteq known'
  <2>1. Dependent(deps', Reports(v, val)) \subseteq known'
    BY <1>4 DEF Dependent
  <2> QED
    BY <2>1, <1>3 DEF Solve, TypeOK, Woken, Adopted
<1>6. start' \in Starts /\ start' \subseteq known'
  BY DEF Solve, TypeOK, Adopted
<1> QED
  BY <1>2, <1>3, <1>4, <1>5, <1>6 DEF TypeOK

\* A constraint that is not woken has read nothing that changes.
LEMMA NotWokenNotChanged ==
  ASSUME TypeOK, NEW v \in Vertex, Solve(v), NEW w \in Vertex, w \notin dirty',
         Reads(w, val) \X {w} \subseteq deps'
  PROVE  Same(val, val', Reads(w, val))
<1> SUFFICES ASSUME NEW c \in Reads(w, val), val[c] # val'[c]
             PROVE  FALSE
  BY DEF Same
<1>1. c \in Cell
  BY TypeAssumption DEF TypeOK
<1>2. c \in Reports(v, val)
  BY <1>1, ReportsAssumption DEF Solve, Changed, TypeOK
<1>3. <<c, w>> \in deps'
  OBVIOUS
<1>4. w \in Woken(v)
  BY <1>2, <1>3 DEF Woken, Dependent
<1> QED
  BY <1>4 DEF Solve

\* A step leaves every constraint that is not on the work list solved.
LEMMA StepCovers ==
  ASSUME IInv, NEW v \in Vertex, Solve(v)
  PROVE  DirtyCoversUnsolved'
<1> USE DEF IInv
<1> SUFFICES ASSUME NEW w \in known' \ dirty'
             PROVE  /\ Solved(w, val', known')
                    /\ Reads(w, val') \X {w} \subseteq deps'
  BY DEF DirtyCoversUnsolved
<1>1. w \in Vertex /\ val' = Update(v, val) /\ val \in State
  BY StepType DEF TypeOK, Solve
<1>2. w \in known /\ (w = v \/ w \notin dirty)
  BY DEF Solve, Adopted, Woken
<1>3. /\ Reads(w, val) \X {w} \subseteq deps'
      /\ Update(w, val) = val \/ w = v
      /\ Spawn(w, val) \subseteq known'
  <2>1. CASE w = v
    BY <2>1 DEF Solve, Recorded, Adopted
  <2>2. CASE w # v
    BY <2>2, <1>2 DEF Solve, Recorded, Adopted, DirtyCoversUnsolved, Solved
  <2> QED
    BY <2>1, <2>2
<1>4. Same(val, Update(v, val), Reads(w, val))
  BY <1>1, <1>3, NotWokenNotChanged
<1>5. /\ Reads(w, val') = Reads(w, val)
      /\ Spawn(w, val') = Spawn(w, val)
      /\ Update(w, val') = val'
  BY <1>1, <1>3, <1>4, UnaffectedAssumption
<1> QED
  BY <1>3, <1>5 DEF Solved

\* Every step keeps the inductive invariant.
LEMMA StepInvariant == IInv /\ [Next]_vars => IInv'
<1> SUFFICES ASSUME IInv, [Next]_vars
             PROVE  IInv'
  OBVIOUS
<1>1. CASE UNCHANGED vars
  BY <1>1 DEF vars, IInv, TypeOK, DirtyCoversUnsolved, Solved
<1>2. ASSUME NEW v \in Vertex, Solve(v)
      PROVE  IInv'
  BY <1>2, StepType, StepCovers DEF IInv
<1> QED
  BY <1>1, <1>2 DEF Next

LEMMA Invariant == Spec => []IInv
BY InitInvariant, StepInvariant, PTL DEF Spec

\* The state of the solver keeps its type; what is on the work list, and what
\* depends on a cell, was given to the solver.
THEOREM TypeCorrect == Spec => []TypeOK
<1>1. IInv => TypeOK
  BY DEF IInv
<1> QED
  BY <1>1, Invariant, PTL

\* fixiter.cc: when solve() returns, every constraint that was given to the
\* solver, from the start or by another constraint, holds.
THEOREM ResultIsSolution == Spec => []AtRestSolved
<1>1. IInv => AtRestSolved
  BY DEF IInv, AtRestSolved, DirtyCoversUnsolved, Solution
<1> QED
  BY <1>1, Invariant, PTL

----------------------------------------------------------------------------
\* A solution stays above the cells when a constraint is solved.
LEMMA StepLeast ==
  ASSUME Monotone(State), IInv, LeastSolution, NEW v \in Vertex, Solve(v)
  PROVE  LeastSolution'
<1> SUFFICES ASSUME NEW s \in State, NEW K \in SUBSET Vertex,
                    start' \subseteq K, Below(Bottom, s), Solution(s, K)
             PROVE  known' \subseteq K /\ Below(val', s)
  BY DEF LeastSolution
<1>1. known \subseteq K /\ Below(val, s)
  BY DEF LeastSolution, Solve
<1>2. v \in K /\ val \in State
  BY <1>1 DEF IInv, TypeOK, Solve
<1>3. Update(v, s) = s /\ Spawn(v, s) \subseteq K
  BY <1>2 DEF Solution, Solved
<1>4. Spawn(v, val) \subseteq Spawn(v, s) /\ Below(Update(v, val), Update(v, s))
  BY <1>1, <1>2 DEF Monotone
<1> QED
  BY <1>1, <1>3, <1>4 DEF Solve, Adopted

\* Whatever the order in which constraints are solved, the result is below
\* every solution: with ResultIsSolution, it is the least one.
THEOREM ResultIsLeast == Monotone(State) => (Spec => []LeastSolution)
<1> SUFFICES ASSUME Monotone(State)
             PROVE  Spec => []LeastSolution
  OBVIOUS
<1>1. Init => LeastSolution
  BY DEF Init, LeastSolution, Empty
<1>2. IInv /\ LeastSolution /\ [Next]_vars => LeastSolution'
  <2> SUFFICES ASSUME IInv, LeastSolution, [Next]_vars
               PROVE  LeastSolution'
    OBVIOUS
  <2>1. CASE UNCHANGED vars
    BY <2>1 DEF vars, LeastSolution
  <2>2. ASSUME NEW v \in Vertex, Solve(v)
        PROVE  LeastSolution'
    BY <2>2, StepLeast
  <2> QED
    BY <2>1, <2>2 DEF Next
<1> QED
  BY <1>1, <1>2, Invariant, PTL DEF Spec
=============================================================================
