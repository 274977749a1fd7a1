------------------------------- MODULE Locals -------------------------------
(***************************************************************************)
(* The call graph (analyzer/transpred.cc) and the truly local objects of   *)
(* each function (analyzer/closures.cc), followed by a run of the program  *)
(* they were found for.                                                    *)
(*                                                                         *)
(* A recursive function has several activations, each with its own         *)
(* instances of the local variables.  The later phases speak of a          *)
(* variable by its declaration only: a pointer to a truly local object is  *)
(* lifted to the name of the variable, an assignment to one is no side     *)
(* effect that anybody else sees.  So whatever the program does, a         *)
(* function may never come across another activation's instance of an      *)
(* object that is truly local to it.                                       *)
(*                                                                         *)
(* The pointers of the program are any that the points-to analysis allows. *)
(***************************************************************************)
EXTENDS Naturals, FiniteSets, SequencesExt

CONSTANTS
  Funs,      \* functions
  Gen,       \* the generator: it calls the functions, nobody calls it
  Objs,      \* declarations of objects: variables and their members
  Owner,     \* Owner[d]: the function d belongs to, Global or External
  Global, External,
  Params,    \* declarations that are parameters
  Members,   \* Members[d]: the declarations d consists of
  Arrays,    \* the arrays: one member, many objects
  Programs,  \* pairs of a call graph, a function from Funs to sets of functions,
             \* and a points-to relation, a function from Objs to sets of Objs
  MaxDepth   \* bound on the number of activations

ASSUME FiniteAssumption == IsFiniteSet(Funs) /\ IsFiniteSet(Objs) /\ MaxDepth \in Nat \ {0}

\* Locals belong to one function, other declarations to none, and members to
\* the owner of the whole.
ASSUME OwnerAssumption ==
  /\ Gen \notin Funs /\ {Global, External} \cap (Funs \cup {Gen}) = {}
  /\ Members \in [Objs -> SUBSET Objs] /\ Arrays \subseteq Objs
  /\ \A d \in Objs : \A c \in Members[d] : Owner[c] = Owner[d]

ASSUME ProgramsAssumption ==
  Programs \subseteq [Funs -> SUBSET Funs] \X [Objs -> SUBSET Objs]

Roots       == {d \in Objs : \A c \in Objs : d \notin Members[c]}
TopLevel(f) == {d \in Roots : Owner[d] = f}

\* Elements of arrays: there are many of each.  (No arrays of structures.)
Elements == UNION {Members[c] : c \in Arrays}

\* An object is an instance of a declaration: of a local variable there is one
\* in the activation of each level, of an element of an array there are two.
Instances(d, l) ==
  IF l = 0 <=> Owner[d] \notin Funs \cup {Gen}
  THEN {<<d, l, k>> : k \in IF d \in Elements THEN {1, 2} ELSE {1}}
  ELSE {}

VARIABLES
  phase,     \* "calls", "locals", "run"
  calls, pt, \* the program
  preds,     \* CGresult::preds: the functions that call a function
  waiting,   \* PredConstraints that are to be solved
  truly,     \* PAresult::TrulyLocals
  unique,    \* declarations of just one object
  stack,     \* the activations
  store      \* what every object points to: a set of at most one object

program == <<calls, pt>>
vars    == <<phase, program, preds, waiting, truly, unique, stack, store>>

\* The least subset of D that contains From and with d the set next[d].
Least(D, next, From) ==
  LET Grow[S \in SUBSET D] ==
        LET more == (UNION {next[d] : d \in S}) \ S
        IN  IF more = {} THEN S ELSE Grow[S \cup more]
  IN  Grow[From]

----------------------------------------------------------------------------
(***************************************************************************)
(* The call graph.                                                         *)
(***************************************************************************)

\* DepthFirstTraverseCalls: the direct callers; a constraint per function.
Callers(f) == {g \in Funs : f \in calls[g]}

Init ==
  /\ phase = "calls"
  /\ \E P \in Programs : calls = P[1] /\ pt = P[2]
  /\ preds = [f \in Funs |-> Callers(f)]
  /\ waiting = Funs
  /\ truly = [f \in Funs \cup {Gen} |-> {}]
  /\ unique = {}
  /\ stack = <<>> /\ store = <<>>

Grown(f) == [g \in Funs |-> IF g \in calls[f] THEN preds[g] \cup preds[f] ELSE preds[g]]

\* Variants with a defect: a constraint that has run is done, or never is.
Woken_done(f)  == {}

\* PredConstraint::solve says whether any set has grown: then all wake up.
Woken(f) == IF Grown(f) # preds THEN calls[f] ELSE {}

\* The order of the work list is left open.
SolveCalls ==
  /\ phase = "calls"
  /\ \E f \in waiting :
       /\ preds' = Grown(f)
       /\ waiting' = (waiting \ {f}) \cup Woken(f)
  /\ UNCHANGED <<phase, program, truly, unique, stack, store>>

CallsDone ==
  /\ phase = "calls" /\ waiting = {}
  /\ phase' = "locals"
  /\ UNCHANGED <<program, preds, waiting, truly, unique, stack, store>>

----------------------------------------------------------------------------
(***************************************************************************)
(* Truly local objects.                                                    *)
(***************************************************************************)
Parts(S, exclude) == Least(Objs, [d \in Objs |-> Members[d] \ exclude], S \ exclude)

\* Variant with a defect: the parts of an object are left out.
Reachable_whole(S, exclude) == Least(Objs, [d \in Objs |-> pt[d] \ exclude], S \ exclude)

\* takeClosure with include.
Reachable(S, exclude) ==
  Least(Objs, [d \in Objs |-> (Members[d] \cup pt[d]) \ exclude], S \ exclude)

\* takeClosure without include: what is pointed to, from the objects S or
\* parts of them.
PointedTo(S, exclude) ==
  Reachable(UNION {pt[d] : d \in Parts(S, exclude)}, exclude)

GlobalClosure == Reachable(TopLevel(Global), {}) \cup PointedTo(TopLevel(External), {})

\* Variant with a defect: only direct recursion is recursion.
Recursive_direct(f) == f \in Funs /\ f \in calls[f]

Recursive(f) == f \in Funs /\ f \in preds[f]

ParamClosure(f) == PointedTo(TopLevel(f) \cap Params, GlobalClosure)

\* makeLocals: an object that is left out is left out with its parts.
LocalsOf(f) ==
  Parts(TopLevel(f), IF Recursive(f) THEN GlobalClosure \cup ParamClosure(f) ELSE {})

\* Variant with a defect: the array counts as many objects, not its elements.
InArray_whole(d) == d \in Arrays

InArray(d) == \E c \in Arrays : d \in Parts(Members[c], {})

\* collectUniqueObjects goes into structures, not into arrays.
GlobalUnique == {d \in Parts(TopLevel(Global), {}) : ~ InArray(d)}

TrulyLocal ==
  /\ phase = "locals"
  /\ truly' = [f \in Funs \cup {Gen} |-> LocalsOf(f)]
  /\ unique' = {d \in UNION Range(truly') : ~ InArray(d)} \cup GlobalUnique
  /\ phase' = "run"
  /\ stack' = <<Gen>>
  /\ store' = [o \in UNION {Instances(d, l) : d \in Objs, l \in 0 .. MaxDepth} |-> {}]
  /\ UNCHANGED <<program, preds, waiting>>

----------------------------------------------------------------------------
(***************************************************************************)
(* The program.                                                            *)
(***************************************************************************)
Decl(o)  == o[1]
Level(o) == o[2]

Depth == Len(stack)

\* Objects in scope: known by name.
InScope ==
  (UNION {Instances(d, 0) : d \in TopLevel(Global) \cup TopLevel(External)}) \cup
  UNION {Instances(d, Depth) : d \in TopLevel(Last(stack))}

\* From an object the program gets to where it points, to its parts, and to
\* the other elements of an array; from a member not to the structure.
NextTo(o) ==
  store[o] \cup UNION {Instances(d, Level(o)) : d \in Members[Decl(o)] \cup {Decl(o)}}

InReach == Least(DOMAIN store, [o \in DOMAIN store |-> NextTo(o)], InScope)

Allowed(o, p) == Decl(p) \in pt[Decl(o)]

Assign ==
  /\ phase = "run"
  /\ LET reach == InReach
     IN  \E o, p \in reach :
           /\ Allowed(o, p)
           /\ store' = [store EXCEPT ![o] = {p}]
  /\ UNCHANGED <<phase, program, preds, waiting, truly, unique, stack>>

\* Every parameter of the new activation gets a pointer, or none.
Call ==
  /\ phase = "run" /\ Depth < MaxDepth
  /\ \E f \in (IF Last(stack) = Gen THEN Funs ELSE calls[Last(stack)]) :
     LET formals == UNION {Instances(d, Depth + 1) : d \in TopLevel(f) \cap Params}
         actuals == {{}} \cup {{p} : p \in InReach}
     IN \E arg \in [formals -> actuals] :
          /\ \A o \in formals : \A p \in arg[o] : Allowed(o, p)
          /\ stack' = Append(stack, f)
          /\ store' = [o \in DOMAIN store |-> IF o \in formals THEN arg[o] ELSE store[o]]
  /\ UNCHANGED <<phase, program, preds, waiting, truly, unique>>

\* The activation ends, and with it its objects: pointers to them are not
\* used any more.  The caller may assign the result to an object.
Return ==
  /\ phase = "run" /\ Depth > 1
  /\ LET alive(S) == {p \in S : Level(p) < Depth}
         reach == alive(InReach)
         kept == [o \in DOMAIN store |-> IF Level(o) < Depth THEN alive(store[o]) ELSE {}]
     IN \/ store' = kept
        \/ \E o \in alive(DOMAIN store), p \in reach :
             /\ Allowed(o, p)
             /\ Level(o) # 0 => Level(o) = Depth - 1 /\ Owner[Decl(o)] = stack[Depth - 1]
             /\ store' = [kept EXCEPT ![o] = {p}]
  /\ stack' = Front(stack)
  /\ UNCHANGED <<phase, program, preds, waiting, truly, unique>>

Run == Assign \/ Call \/ Return

Next == SolveCalls \/ CallsDone \/ TrulyLocal \/ Run

\* The analysis is one thread; the program need not go on.
Spec == Init /\ [][Next]_vars /\ WF_vars(SolveCalls \/ CallsDone \/ TrulyLocal)

----------------------------------------------------------------------------
(***************************************************************************)
(* Properties.                                                             *)
(***************************************************************************)
TypeOK ==
  /\ preds \in [Funs -> SUBSET Funs]
  /\ waiting \subseteq Funs
  /\ truly \in [Funs \cup {Gen} -> SUBSET Objs] /\ unique \subseteq Objs
  /\ phase = "run" => /\ Depth \in 1 .. MaxDepth
                      /\ \A o \in DOMAIN store : Cardinality(store[o]) <= 1

\* mkCallGraph, "the set of functions that (perhaps transitively) call" a
\* function, and nothing else: what the solver has found, caller by caller, is
\* what comes of following the calls from each function on.
CallersAreFound ==
  phase = "locals" =>
    \A f, g \in Funs : g \in preds[f] <=> f \in Least(Funs, calls, calls[g])

\* "The set of local variables and parameters that cannot be aliased to
\* earlier recursive instances of the function": whatever object of a truly
\* local declaration a function gets hold of, it is its own.
TrulyLocalsAreOwn ==
  phase = "run" =>
    \A o \in InReach : Decl(o) \in truly[Last(stack)] => Level(o) = Depth

\* The declarations said to represent a single object do so, in each function
\* that may come across it.
UniqueIsSingle ==
  phase = "run" =>
    LET reach == InReach
    IN  \A o, p \in reach : Decl(o) = Decl(p) /\ Decl(o) \in unique => o = p

\* What the data-flow analysis and the generating extensions rely on: the callers of a
\* function are known, and so is which of its objects are its own and single.
LocalsAreOwn == CallersAreFound /\ TrulyLocalsAreOwn /\ UniqueIsSingle

=============================================================================
