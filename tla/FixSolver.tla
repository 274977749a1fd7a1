----------------------------- MODULE FixSolver ------------------------------
(***************************************************************************)
(* The fixpoint solver of analyzer/fixiter.cc, which runs the points-to,   *)
(* call graph and data-flow analyses.                                      *)
(*                                                                         *)
(* A vertex is a constraint.  Solving it may change some cells (the sets   *)
(* that make up the result), may create further constraints, and puts the  *)
(* constraints that depend on what has changed back on the work list.      *)
(* Dependencies are recorded on the fly, when a constraint reads a cell.   *)
(* The work list is sorted by time stamps: the constraint that was updated *)
(* longest ago is next; those never solved have the stamp 0.               *)
(*                                                                         *)
(* What a constraint does is left open (Update, Reads, Spawn); an analysis *)
(* that keeps the assumptions below inherits what is proved here.          *)
(***************************************************************************)
EXTENDS Naturals, FiniteSets

CONSTANTS
  Vertex,         \* constraints
  Cell,           \* the sets the analysis computes
  Elem,           \* what they contain
  Bottom,         \* their contents at first
  Starts,         \* the possible sets of constraints to start from
  Update(_, _),   \* Update(v, s): the cells after solving v in state s
  Hooks(_),       \* Hooks(v): cells v depends on from the moment it is made
  Reads(_, _),    \* Reads(v, s): the cells v reads to do so
  Spawn(_, _),    \* Spawn(v, s): the constraints it creates
  Reports(_, _)   \* Reports(v, s): the cells it says it has changed

State == [Cell -> SUBSET Elem]

ASSUME TypeAssumption ==
  /\ Bottom \in State
  /\ Starts \subseteq SUBSET Vertex
  /\ \A v \in Vertex : \A s \in State :
       /\ Update(v, s) \in State
       /\ Hooks(v) \subseteq Cell
       /\ Reads(v, s) \subseteq Cell
       /\ Spawn(v, s) \subseteq Vertex
       /\ Reports(v, s) \subseteq Cell

VARIABLES
  val,     \* the contents of the cells
  known,   \* constraints that were ever given to the solver (owner # NULL)
  dirty,   \* constraints on the work list (not is_ajour)
  stamp,   \* when a constraint was last taken from the work list
  clock,
  deps,    \* <<c, v>>: v is to be solved again when c changes
  start    \* the constraints the solver was started with

vars == <<val, known, dirty, stamp, clock, deps, start>>

\* Variant with a defect: the cells start full.
Empty_full == [c \in Cell |-> Elem]
Empty == Bottom

Hooked(V) == UNION {Hooks(v) \X {v} : v \in V}

Init ==
  /\ start \in Starts
  /\ known = start
  /\ dirty = start
  /\ val = Empty
  /\ stamp = [v \in Vertex |-> 0]
  /\ clock = 0
  /\ deps = Hooked(start)

\* Variant with a defect: ties are not allowed for.
LeastRecent_strict(v) == \A w \in dirty \ {v} : stamp[v] < stamp[w]
LeastRecent(v) == \A w \in dirty : stamp[v] <= stamp[w]

Changed(s, t) == {c \in Cell : s[c] # t[c]}

Dependent(D, C) == {v \in Vertex : \E c \in C : <<c, v>> \in D}

Recorded(v) == deps \cup Hooked(Spawn(v, val)) \cup (Reads(v, val) \X {v})

\* Variant with a defect: the owner of a new constraint is not set.
Adopted_not(v) == known
Adopted(v) == known \cup Spawn(v, val)

\* Variant with a defect: a constraint that was solved once never goes back.
Woken_once(v) == {w \in Spawn(v, val) \ known : stamp[w] = 0}

\* The constraints that go back on the work list, and those that are new to
\* it.  operator += does nothing to a vertex that is on the list already.
Woken(v) == Dependent(deps', Reports(v, val)) \cup (Spawn(v, val) \ known)

Solve(v) ==
  /\ v \in dirty
  /\ LeastRecent(v)
  /\ val' = Update(v, val)
  /\ deps' = Recorded(v)
  /\ known' = Adopted(v)
  /\ dirty' = (dirty \ {v}) \cup Woken(v)
  /\ clock' = clock + 1
  /\ stamp' = [stamp EXCEPT ![v] = clock']
  /\ UNCHANGED start

Next == \E v \in Vertex : Solve(v)

Spec == Init /\ [][Next]_vars

\* solve() is a loop that runs until the work list is empty.
FairSpec == Spec /\ WF_vars(Next)

----------------------------------------------------------------------------
Below(s, t) == \A c \in Cell : s[c] \subseteq t[c]

Solved(v, s, K) == Update(v, s) = s /\ Spawn(v, s) \subseteq K

\* A state in which a set of constraints is solved and complete.
Solution(s, K) == \A v \in K : Solved(v, s, K)

\* Every variable has its type; what is on the work list has an owner.
TypeOK ==
  /\ val \in State
  /\ known \subseteq Vertex
  /\ dirty \subseteq known
  /\ stamp \in [Vertex -> Nat]
  /\ clock \in Nat
  /\ deps \subseteq Cell \X known
  /\ start \in Starts /\ start \subseteq known

\* When FixpointSolver::solve returns, every constraint that was given to it
\* holds, the ones created on the way included.
AtRestSolved == dirty = {} => Solution(val, known)

\* Nothing is in the result, and no constraint was created, that some
\* solution can do without.
LeastSolution ==
  \A s \in State : \A K \in SUBSET Vertex :
    start \subseteq K /\ Below(Bottom, s) /\ Solution(s, K)
      => known \subseteq K /\ Below(val, s)

\* What keeps the result correct meanwhile: a constraint that is not on the
\* work list holds, and will be told of any change in what it has read.
DirtyCoversUnsolved ==
  \A v \in known \ dirty :
    /\ Solved(v, val, known)
    /\ Reads(v, val) \X {v} \subseteq deps

\* FixpointSolver::solve returns.
Terminates == <>(dirty = {})

----------------------------------------------------------------------------
(***************************************************************************)
(* What the analyses have to guarantee for the result to be correct: if    *)
(* nothing that a constraint has read has changed, there is nothing new to *)
(* be done for it.                                                         *)
(***************************************************************************)
Same(s, t, C) == \A c \in C : s[c] = t[c]

ASSUME UnaffectedAssumption ==
  \A v, w \in Vertex : \A s \in State :
    Same(s, Update(w, s), Reads(v, s)) =>
      /\ Reads(v, Update(w, s)) = Reads(v, s)
      /\ Spawn(v, Update(w, s)) = Spawn(v, s)
      /\ Update(v, s) = s \/ v = w => Update(v, Update(w, s)) = Update(w, s)

\* What has changed is reported; some constraints always report a change.
ASSUME ReportsAssumption ==
  \A v \in Vertex : \A s \in State : Changed(s, Update(v, s)) \subseteq Reports(v, s)

\* More in the cells never makes a constraint give less.  Without this the
\* result is correct, but need not be the least one.
Monotone(S) ==
  \A v \in Vertex : \A s, t \in S :
    Below(s, t) => /\ Spawn(v, s) \subseteq Spawn(v, t)
                   /\ Below(Update(v, s), Update(v, t))
============================================================================
