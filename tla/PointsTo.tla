------------------------------ MODULE PointsTo ------------------------------
(***************************************************************************)
(* The points-to analysis (analyzer/pa.cc), followed by a run of the       *)
(* program it was made for.                                                *)
(*                                                                         *)
(* Each expression and each declaration has a set of declarations it may   *)
(* point to.  The statements of the program give rise to constraints       *)
(* between these sets, and so do calls, as the functions that may be       *)
(* called turn up.  The fixpoint solver (FixSolver) runs the constraints   *)
(* until nothing changes; then all are fired once more, to check that the  *)
(* recorded dependencies were right.                                       *)
(*                                                                         *)
(* The program then runs, its statements in any order: the analysis does   *)
(* not look at control flow.  External functions are left out.             *)
(*                                                                         *)
(* An expression is a sequence that starts with a declaration, whose       *)
(* address it is, followed by "*" for each dereference and the name of a   *)
(* member for each selection.                                              *)
(***************************************************************************)
EXTENDS Naturals, FiniteSets, SequencesExt

CONSTANTS
  Objs,      \* declarations of variables, members and heap objects
  Funs,      \* functions
  Members,   \* Members[d]: the members of d, a function from their names
  Param,     \* Param[f]: the parameter of f
  Stmts,     \* statements, by which the programs are made up
  Programs,  \* sets of statements
  Null

Decls == Objs \cup Funs
Names == UNION {DOMAIN Members[d] : d \in Decls}

ASSUME DeclsAssumption ==
  /\ IsFiniteSet(Decls) /\ Null \notin Decls /\ "*" \notin Names
  /\ \A d \in Decls : \A m \in DOMAIN Members[d] : Members[d][m] \in Decls
  /\ Param \in [Funs -> Objs]

Top(st) == CASE st.op \in {"assign", "copy"} -> {st.lhs, st.rhs}
             [] st.op = "call"              -> {st.lhs, st.fun, st.arg}
             [] st.op = "alloc"             -> {st.lhs}
             [] st.op = "return"            -> {st.rhs}

Exprs ==
  {<<d>> : d \in Decls} \cup
  UNION {Prefixes(e) \ {<<>>} : e \in UNION {Top(st) : st \in Stmts}}

\* The sets: one of every expression, and one of every declaration.
Cells == Exprs \cup Decls

IsExpr(e) == e \in Seq(Decls \cup Names \cup {"*"}) /\ e # <<>> /\ e[1] \in Decls

\* A structure that is copied is the target of a pointer (addAssignConstraint).
ASSUME StmtsAssumption ==
  /\ IsFiniteSet(Stmts) /\ Programs \subseteq SUBSET Stmts
  /\ \A e \in Exprs : e \notin Decls
  /\ \A st \in Stmts :
       /\ st.op \in {"assign", "copy", "alloc", "call", "return"}
       /\ \A e \in Top(st) : IsExpr(e)
       /\ st.op = "copy" => Len(st.rhs) > 1
       /\ st.op = "alloc" => st.obj \in Objs
       /\ st.op = "return" => st.in \in Funs

----------------------------------------------------------------------------
(***************************************************************************)
(* Constraints.  Each reads the set r; what else it reads and what it      *)
(* changes depends on what is found there.                                 *)
(*   assign:  *t = s     for pointers         subset: t includes s         *)
(*   copy:    *t = *s    for structures       deref:  t is *s              *)
(*   call:    t = (the functions in s)(arg)   member: t is &(s->m)         *)
(***************************************************************************)
Assign(t, s)    == [con |-> "assign", t |-> t, s |-> s]
Copy(t, s)      == [con |-> "copy", t |-> t, s |-> s]
Subset(t, s)    == [con |-> "subset", t |-> t, s |-> s]
DerefCon(t, s)  == [con |-> "deref", t |-> t, s |-> s]
Member(t, s, m) == [con |-> "member", t |-> t, s |-> s, m |-> m]
CallCon(t, s, arg) == [con |-> "call", t |-> t, s |-> s, arg |-> arg]

\* paExpr: an address is known, other expressions get a constraint.
ExprCon(e) ==
  IF Last(e) = "*" THEN DerefCon(e, Front(e)) ELSE Member(e, Front(e), Last(e))

\* paStmt and paJump.
StmtCon(st) ==
  CASE st.op = "assign" -> Assign(st.lhs, st.rhs)
    [] st.op = "copy"   -> Copy(st.lhs, Front(st.rhs))
    [] st.op = "call"   -> CallCon(st.lhs, st.fun, st.arg)
    [] st.op = "alloc"  -> Assign(st.lhs, <<st.obj>>)
    [] st.op = "return" -> Subset(st.in, st.rhs)

ConOf(st) ==
  {StmtCon(st)} \cup
  {ExprCon(e) : e \in {x \in UNION {Prefixes(y) : y \in Top(st)} : Len(x) > 1}}

\* What a call to f adds: the result and the argument are assigned.
CallsTo(v, f) == {Assign(v.t, f), Assign(<<Param[f]>>, v.arg)}

AllCons ==
  LET written == UNION {ConOf(st) : st \in Stmts}
  IN  written \cup UNION {CallsTo(v, f) : v \in {w \in written : w.con = "call"}, f \in Funs}

\* PAEnv::singleton and PA_Set: the address of a declaration points to it.
Empty == [c \in Cells |-> IF c \notin Decls /\ Len(c) = 1 THEN {c[1]} ELSE {}]

\* insertMany: all from one set to another.
InsertMany(s, to, from) == [s EXCEPT ![to] = @ \cup s[from]]

\* Variant with a defect: a structure is assigned like a scalar.
Transfers_whole(t, s) == {<<t, s>>}

\* assignmentTransfer: the pairs of members, or the two objects themselves.
\* (Members of members are left out.)
Shared(t, s) == DOMAIN Members[t] \cap DOMAIN Members[s]

Transfers(t, s) ==
  IF DOMAIN Members[t] = {} THEN {<<t, s>>}
  ELSE {<<Members[t][m], Members[s][m]>> : m \in Shared(t, s)}

Pairs(v, s) == UNION {Transfers(d, e) : d \in s[v.t], e \in s[v.s]}

\* The order in which a set is gone through is fixed but left open.
InAll(s, S) ==
  LET After[T \in SUBSET S] ==
        IF T = {} THEN s
        ELSE LET p == CHOOSE p \in T : TRUE IN InsertMany(After[T \ {p}], p[1], p[2])
  IN  After[S]

\* getMember.  (The types of the program see to it that there is one.)
MembersOf(S, m) == {Members[d][m] : d \in {c \in S : m \in DOMAIN Members[c]}}

Update(v, s) ==
  CASE v.con = "assign" -> InAll(s, {<<d, v.s>> : d \in s[v.t]})
    [] v.con = "copy"   -> InAll(s, Pairs(v, s))
    [] v.con = "subset" -> InsertMany(s, v.t, v.s)
    [] v.con = "deref"  -> InAll(s, {<<v.t, d>> : d \in s[v.s]})
    [] v.con = "member" -> [s EXCEPT ![v.t] = @ \cup MembersOf(s[v.s], v.m)]
    [] v.con = "call"   -> s

\* depend_on in the constructors, and in insertMany.
Hooks(v) ==
  CASE v.con = "assign" -> {v.t}
    [] v.con = "copy"   -> {v.t, v.s}
    [] v.con = "subset" -> {}
    [] v.con \in {"deref", "member", "call"} -> {v.s}

\* Variant with a defect: a dereference does not depend on the objects found.
Inserted_forgets(v, s) ==
  IF v.con \in {"assign", "subset"} THEN {v.s}
  ELSE IF v.con = "copy" THEN {p[2] : p \in Pairs(v, s)} ELSE {}

Inserted(v, s) ==
  CASE v.con = "assign" -> IF s[v.t] = {} THEN {} ELSE {v.s}
    [] v.con = "copy"   -> {p[2] : p \in Pairs(v, s)}
    [] v.con = "subset" -> {v.s}
    [] v.con = "deref"  -> s[v.s]
    [] v.con \in {"member", "call"} -> {}

Reads(v, s) == Hooks(v) \cup Inserted(v, s)

\* Variant with a defect: only the argument is handed over.
Spawn_argument(v, s) ==
  IF v.con = "call" THEN {Assign(<<Param[f]>>, v.arg) : f \in s[v.s] \cap Funs} ELSE {}

\* CallConstraint::solve: constraints for functions not seen before (cache).
Spawn(v, s) == IF v.con = "call" THEN UNION {CallsTo(v, f) : f \in s[v.s] \cap Funs} ELSE {}

Changed(v, s) == LET new == Update(v, s) IN {c \in Cells : s[c] # new[c]}

----------------------------------------------------------------------------
VARIABLES
  program,   \* its statements
  phase,     \* "solve", "run"
  val, known, worklist, stamp, clock, deps,   \* the analysis: see FixSolver
  start,
  store,     \* what every variable holds
  called     \* <<st, f>>: the call st has called f

solver == <<val, known, worklist, stamp, clock, deps, start>>
memory == <<store, called>>
vars   == <<program, phase, solver, memory>>

\* Variant with a defect: an entry is put before older ones.
Insert_newest(list, v, st) ==
  InsertAt(list, Cardinality({i \in DOMAIN list : st[list[i]] > st[v]}) + 1, v)

\* The work list is sorted by stamps; among equals the last one comes first.
Insert(list, v, st) ==
  LET k == Cardinality({i \in DOMAIN list : st[list[i]] < st[v]})
  IN  InsertAt(list, k + 1, v)

Push(list, S, st) ==
  LET With[T \in SUBSET S] ==
        IF T = {} THEN list
        ELSE LET v == CHOOSE v \in T : TRUE IN Insert(With[T \ {v}], v, st)
  IN  With[S]

Hooked(S) == UNION {Hooks(v) \X {v} : v \in S}

Init ==
  /\ program \in Programs
  /\ phase = "solve"
  /\ start = UNION {ConOf(st) : st \in program}
  /\ known = start
  /\ val = Empty
  /\ stamp = [v \in AllCons |-> 0]
  /\ clock = 0
  /\ worklist = Push(<<>>, start, stamp)
  /\ deps = Hooked(start)
  /\ store = [d \in Decls |-> Null]
  /\ called = {}

\* FixpointSolver::solve, PAconstraint::Solve.
Solve ==
  /\ phase = "solve" /\ worklist # <<>>
  /\ LET v     == Head(worklist)
         fresh == Spawn(v, val) \ known
     IN  /\ val' = Update(v, val)
         /\ known' = known \cup fresh
         /\ deps' = deps \cup Hooked(fresh) \cup (Inserted(v, val) \X {v})
         /\ clock' = clock + 1
         /\ stamp' = [stamp EXCEPT ![v] = clock']
         /\ LET woken == {w \in known' : \E c \in Changed(v, val) : <<c, w>> \in deps'}
                waits == ToSet(Tail(worklist))
            IN  worklist' = Push(Push(Tail(worklist), fresh, stamp'), woken \ (waits \cup fresh), stamp')
  /\ UNCHANGED <<program, phase, start, memory>>

\* pointsToAnalysis: at the end all constraints are fired once more, with the
\* effect of Solve but for the stamps.  If that puts one on the work list, a
\* warning is given and the solver goes on, but may create no constraints.
Disagrees(v) == Changed(v, val) # {} \/ ~ (Spawn(v, val) \subseteq known)

Check ==
  /\ phase = "solve" /\ worklist = <<>>
  /\ \A v \in known : ~ Disagrees(v)
  /\ phase' = "run"
  /\ UNCHANGED <<program, solver, memory>>

----------------------------------------------------------------------------
(***************************************************************************)
(* The program.                                                            *)
(***************************************************************************)
Eval(e) ==
  LET Value[n \in 1 .. Len(e)] ==
        IF n = 1 THEN e[1]
        ELSE LET o == Value[n - 1]
             IN  IF o = Null THEN Null
                 ELSE IF e[n] = "*" THEN store[o]
                 ELSE IF e[n] \in DOMAIN Members[o] THEN Members[o][e[n]] ELSE Null
  IN  Value[Len(e)]

Put(lhs, v) == Eval(lhs) # Null /\ store' = [store EXCEPT ![Eval(lhs)] = v]

Execute(st) ==
  CASE st.op = "assign" -> Put(st.lhs, Eval(st.rhs)) /\ UNCHANGED called
    [] st.op = "copy" ->
         LET to == Eval(st.lhs)  from == Eval(Front(st.rhs))
             both == Shared(to, from)
             name(d) == CHOOSE m \in both : d = Members[to][m]
         IN  /\ to # Null /\ from # Null
             /\ store' = [d \in Decls |->
                  IF d \in {Members[to][m] : m \in both} THEN store[Members[from][name(d)]]
                  ELSE store[d]]
             /\ UNCHANGED called
    [] st.op = "alloc" -> Put(st.lhs, st.obj) /\ UNCHANGED called
    [] st.op = "call" ->
         /\ Eval(st.lhs) # Null /\ Eval(st.fun) \in Funs
         /\ store' = [store EXCEPT ![Param[Eval(st.fun)]] = Eval(st.arg)]
         /\ called' = called \cup {<<st, Eval(st.fun)>>}
    [] st.op = "return" ->
         \E c \in called : c[2] = st.in /\ Put(c[1].lhs, Eval(st.rhs)) /\ UNCHANGED called

Run ==
  /\ phase = "run"
  /\ \E st \in program : Execute(st)
  /\ UNCHANGED <<program, phase, solver>>

Next == Solve \/ Check \/ Run

Spec == Init /\ [][Next]_vars

\* The analysis is one thread; the program need not go on.
FairSpec == Spec /\ WF_vars(Solve) /\ WF_vars(Check)

----------------------------------------------------------------------------
(***************************************************************************)
(* Properties.                                                             *)
(***************************************************************************)
FS == INSTANCE FixSolver WITH
        Vertex <- AllCons, Cell <- Cells, Elem <- Decls, Bottom <- Empty,
        Starts <- {UNION {ConOf(st) : st \in P} : P \in Programs},
        Reports <- Changed, dirty <- ToSet(worklist)

\* Every variable has its type; the work list has no duplicates and is sorted.
TypeOK ==
  /\ val \in [Cells -> SUBSET Decls]
  /\ known \subseteq AllCons /\ deps \subseteq Cells \X known
  /\ ToSet(worklist) \subseteq known
  /\ IsInjective(worklist)
  /\ \A i \in 1 .. Len(worklist) - 1 : stamp[worklist[i]] <= stamp[worklist[i + 1]]
  /\ store \in [Decls -> Decls \cup {Null}]

\* The warning "PA constraint dependencies not correct: iterating again" is
\* never given.
DependenciesCorrect == worklist = <<>> => \A v \in known : ~ Disagrees(v)

\* The analysis is correct: in every run of the program, a variable points
\* to nothing, or to one of the declarations the analysis says.
PointersAreFound ==
  phase = "run" => \A d \in Decls : store[d] # Null => store[d] \in val[d]

\* The same of all expressions in the program, whose sets are what the other
\* analyses use: the objects an assignment may change and the functions a
\* call may call are known.
ExpressionsAreCovered ==
  phase = "run" =>
    \A st \in program : \A e \in Top(st) : Eval(e) # Null => Eval(e) \in val[e]

\* A function is entered only where the analysis has a constraint for it.
CallsAreKnown ==
  \A c \in called : \A v \in CallsTo(StmtCon(c[1]), c[2]) : v \in known

\* The analysis is correct for every program, and is what the later analyses
\* rely on: in every run a pointer points to what the analysis says, and so
\* for every expression and every call; the warning that the dependencies
\* were wrong is never given.
AnalysisCovers ==
  PointersAreFound /\ ExpressionsAreCovered /\ CallsAreKnown /\ DependenciesCorrect

\* The constraints of pa.cc, run by the solver of fixiter.cc, are an instance
\* of FixSolver.
ImplementsSolver == FS!Spec
=============================================================================
