------------------------------ MODULE DataFlow ------------------------------
(***************************************************************************)
(* The data-flow analyses (analyzer/dataflow.cc): what a block, statement  *)
(* or function definitely writes (Wdef), may write (Wmay) and what is in   *)
(* use before it (Use).  The sets are the solution of constraints, three   *)
(* solvers are run one after the other.  The generating extension uses     *)
(* them as memoization sets: what is not in the set of a block is not      *)
(* restored when the block is resumed (PendingList), what is not in the    *)
(* sets of a function is not compared when it is shared (FunShare).        *)
(*                                                                         *)
(* The analyses rest on the points-to analysis and on the truly local and  *)
(* unique objects found by Locals, which this module extends: a program    *)
(* with code is analysed once they are known, and then executed.           *)
(*                                                                         *)
(* An expression is a sequence that starts with a declaration, whose       *)
(* address it is, followed by "*" for each dereference and a name for each *)
(* selection of a member or element.  Of operators there are only the      *)
(* operands: what is evaluated is a set of expressions.                    *)
(***************************************************************************)
EXTENDS Locals

CONSTANTS
  Ext,       \* external functions
  ExtReads,  \* ExtReads[f], ExtWrites[f]: what they may get hold of
  ExtWrites,
  Select,    \* Select[d]: the parts of d by their names
  Codes(_),  \* Codes(P): bodies for the functions of the program P
  NoCode,    \* one of them: the program has no bodies, and is not analysed
  Rest       \* all there is besides Objs

ASSUME SelectAssumption == \A d \in Objs : Members[d] = Range(Select[d])
ASSUME RestAssumption   == Rest \notin Objs
ASSUME NamesAssumption  == "*" \notin Objs /\ Ext \cap (Funs \cup {Gen}) = {}
ASSUME ExtAssumption    == \A f \in Ext : ExtReads[f] \cup ExtWrites[f] \subseteq Objs

\* Every declaration is a variable or part of one, and no part of itself.
ASSUME WholeAssumption  ==
  \A d \in Objs : d \notin Parts(Members[d], {}) /\ \E r \in Roots : d \in Parts({r}, {})

VARIABLES
  code,      \* the blocks of every function
  sets,      \* the sets, by what they are and what they belong to
  cons,      \* the constraints of the solver that is at work
  dirty,     \* its work list
  stamp,     \* when each of them was solved last
  at,        \* the place of each activation
  watch      \* what is seen of the run from some block on

flow   == <<sets, cons, dirty, stamp>>
run    == <<at, watch>>
locals == <<program, preds, waiting, truly, unique>>

----------------------------------------------------------------------------
(***************************************************************************)
(* Sets.  InvPset stores a set or its complement in a universe that is     *)
(* left open; a complement is a set here that contains Rest.               *)
(***************************************************************************)
Everything == Objs \cup {Rest}

\* collectSubObjects
SubObjects(S) == Parts(S, {})

\* The points-to sets of expressions, which pa.cc has already found.
PTin(rel, e) ==
  LET To[n \in 1 .. Len(e)] ==
        IF n = 1 THEN {e[1]}
        ELSE IF e[n] = "*" THEN UNION {rel[d] : d \in To[n - 1]}
        ELSE {Select[d][e[n]] : d \in {c \in To[n - 1] : e[n] \in DOMAIN Select[c]}}
  IN  To[Len(e)]

PT(e) == PTin(pt, e)

\* A pair of declarations, and the parts of them that have the same names.
SameNames ==
  [p \in Objs \X Objs |-> {<<Select[p[1]][k], Select[p[2]][k]>> :
                              k \in DOMAIN Select[p[1]] \cap DOMAIN Select[p[2]]}]

Alike == [p \in Objs \X Objs |-> Least(Objs \X Objs, SameNames, {p})]

\* What l designates may get the value of e: a pointer, which has no parts, or
\* a structure.
Covers(rel, l, e) ==
  \A d \in PTin(rel, l) :
    /\ PTin(rel, e) \subseteq rel[d]
    /\ IF Last(e) # "*" THEN Members[d] = {}
       ELSE \A c \in PTin(rel, Front(e)) : \A p \in Alike[<<d, c>>] : rel[p[2]] \subseteq rel[p[1]]

\* What a dereference reads, it uses with all its parts.
DFexpr(E) ==
  UNION {UNION {SubObjects(PT(SubSeq(e, 1, n - 1))) : n \in {k \in DOMAIN e : e[k] = "*"}} : e \in E}

\* Variant with a defect: a declaration may stand for several objects.
One_single(S) == IF Cardinality(S) = 1 THEN S ELSE {}

One(S) == IF Cardinality(S) = 1 THEN S \cap unique ELSE {}

----------------------------------------------------------------------------
(***************************************************************************)
(* Nodes are <<f, b, i>>: statement i of block b of function f, the jump   *)
(* if there are less statements, the block if i is 0, and the function if  *)
(* b is 0.                                                                 *)
(***************************************************************************)
Stmts(f, b) == code[f][b].stmts
Jump(f, b)  == code[f][b].jump

FunNodes   == {<<f, 0, 0>> : f \in DOMAIN code}
BlockNodes == UNION {{<<f, b, 0>> : b \in DOMAIN code[f]} : f \in DOMAIN code}
StmtNodes  == UNION {{<<n[1], n[2], i>> : i \in DOMAIN Stmts(n[1], n[2])} : n \in BlockNodes}
JumpNodes  == {<<n[1], n[2], Len(Stmts(n[1], n[2])) + 1>> : n \in BlockNodes}

StmtAt(n) == Stmts(n[1], n[2])[n[3]]
CallNodes == {n \in StmtNodes : StmtAt(n).op = "call"}

Target(s)    == IF s.lhs = <<>> THEN {} ELSE {s.lhs}
FunsOf(s)    == IF s.op = "call" THEN s.funs ELSE {}
ExtFuns(s)   == FunsOf(s) \cap Ext
FunDfs(s)    == FunsOf(s) \ Ext

\* Variant with a defect: the arguments of calls are left out.
Evaluated_fun(s) == CASE s.op = "assign" -> s.rhs
                      [] s.op = "call"   -> s.fun
                      [] s.op = "alloc"  -> s.size
                      [] OTHER           -> {}

\* What a statement evaluates besides its target.  The argument of free() is
\* not looked at.
Evaluated(s) == CASE s.op = "assign" -> s.rhs
                  [] s.op = "call"   -> s.fun \cup s.arg
                  [] s.op = "alloc"  -> s.size
                  [] OTHER           -> {}

Kills(s) == UNION {SubObjects(One(PT(e))) : e \in Target(s)}

\* Expressions in f: the names it knows are its own and the global ones.
IsExpr(e, f) ==
  e # <<>> /\ e \in Seq(Range(e)) /\ e[1] \in TopLevel(f) \cup TopLevel(Global) \cup TopLevel(External)

IsStmt(s, f, P) ==
  /\ \A e \in Target(s) \cup Evaluated(s) : IsExpr(e, f)
  /\ CASE s.op = "assign" -> s.lhs # <<>> /\ \A e \in s.rhs : Covers(P[2], s.lhs, e)
       [] s.op = "call"   -> /\ FunDfs(s) \subseteq Funs /\ (f # Gen => FunDfs(s) \subseteq P[1][f])
                             /\ \A g \in FunDfs(s), e \in s.arg :
                                  \A d \in TopLevel(g) \cap Params : Covers(P[2], <<d>>, e)
       [] s.op = "alloc"  -> /\ s.lhs # <<>> /\ \A d \in PTin(P[2], s.lhs) : s.obj \in P[2][d] /\ Members[d] = {}
                             /\ s.obj \in Objs /\ Owner[s.obj] \notin Funs \cup {Gen, Global, External}
       [] OTHER           -> s.op \in {"free", "sequence"} /\ s.lhs = <<>>

IsBlock(b, f, P, blocks) ==
  /\ b.stmts \in Seq(Range(b.stmts)) /\ \A s \in Range(b.stmts) : IsStmt(s, f, P)
  /\ \A e \in b.jump.rhs : IsExpr(e, f)
  /\ b.jump.to \subseteq blocks /\ (b.jump.op = "return" <=> b.jump.to = {})

\* What a call of g returns goes to its target.
Returned(P, c, s) ==
  \A g \in FunDfs(s), e \in Target(s) : \A b \in Range(c[g]) :
    b.jump.op = "return" => \A r \in b.jump.rhs : Covers(P[2], e, r)

\* Bodies are those of a program that has been checked, and the points-to
\* relation and the call graph are right for them.
IsCode(c, P) ==
  /\ DOMAIN c = Funs \cup {Gen}
  /\ \A f \in DOMAIN c : c[f] # <<>> /\ c[f] \in Seq(Range(c[f]))
  /\ \A f \in DOMAIN c : \A b \in Range(c[f]) : /\ IsBlock(b, f, P, DOMAIN c[f])
                                                  /\ \A s \in Range(b.stmts) : Returned(P, c, s)

ASSUME CodesAssumption == \A P \in Programs : \A c \in Codes(P) \ {NoCode} : IsCode(c, P)

\* Initial values (DFfun, DFstmt, DFjump).
Start ==
  [x \in ({"Wdef", "Wmay", "Use"} \X (FunNodes \cup BlockNodes \cup StmtNodes \cup JumpNodes))
         \cup ({"called"} \X CallNodes) \cup ({"after"} \X StmtNodes) |->
     LET node == x[2]
         st == StmtAt(node)
         isStmt == node \in StmtNodes
         jump == Jump(node[1], node[2])
     IN  CASE x[1] = "called" -> Everything
           [] x[1] = "after"  -> {}
           [] x[1] = "Wdef"   -> IF node \in StmtNodes \ CallNodes THEN Kills(st)
                                 ELSE IF node \in JumpNodes /\ jump.op = "return" THEN {}
                                 ELSE Everything
           [] x[1] = "Wmay"   -> IF isStmt THEN (UNION {SubObjects(PT(e)) : e \in Target(st)})
                                                \cup UNION {ExtWrites[g] : g \in ExtFuns(st)}
                                 ELSE {}
           [] x[1] = "Use"    -> IF isStmt THEN DFexpr(Target(st) \cup Evaluated(st))
                                                \cup UNION {ExtReads[g] : g \in ExtFuns(st)}
                                 ELSE IF node \in JumpNodes THEN DFexpr(jump.rhs)
                                 ELSE {}]

----------------------------------------------------------------------------
(***************************************************************************)
(* Constraints on the set x: the union of ys and w; the union of ys less w *)
(* (Include); superset of ys; subset of ys and w.                          *)
(***************************************************************************)
Con(x, form, ys, w) == [x |-> x, form |-> form, ys |-> ys, with |-> w]

Of(kind, nodes) == {kind} \X nodes

\* Variant with a defect: the jump, and what it leads to, is left out.
Within_stmts(n) == {m \in StmtNodes : m[1] = n[1] /\ m[2] = n[2]}

Within(n)  == {m \in StmtNodes \cup JumpNodes : m[1] = n[1] /\ m[2] = n[2]}
Following(n)   == <<n[1], n[2], n[3] + 1>>
Body(n)    == <<n[1], 1, 0>>
Targets(n) == {<<n[1], b, 0>> : b \in Jump(n[1], n[2]).to}
Called(n)  == {<<g, 0, 0>> : g \in FunDfs(StmtAt(n))}

WdefCons ==
  {Con(<<"Wdef", n>>, "include", {<<"Wdef", Body(n)>>}, truly[n[1]]) : n \in FunNodes} \cup
  {Con(<<"Wdef", n>>, "union", Of("Wdef", Within(n)), {}) : n \in BlockNodes} \cup
  {Con(<<"Wdef", n>>, "union", {<<"called", n>>}, Kills(StmtAt(n))) : n \in CallNodes} \cup
  {Con(<<"called", n>>, "subset", Of("Wdef", Called(n)),
       IF ExtFuns(StmtAt(n)) = {} THEN Everything ELSE {}) : n \in CallNodes} \cup
  {Con(<<"Wdef", n>>, "subset", Of("Wdef", Targets(n)), Everything) :
     n \in {m \in JumpNodes : Targets(m) # {}}}

WmayCons ==
  {Con(<<"Wmay", n>>, "include", {<<"Wmay", Body(n)>>}, truly[n[1]]) : n \in FunNodes} \cup
  {Con(<<"Wmay", n>>, "superset", Of("Wmay", Within(n)), {}) : n \in BlockNodes} \cup
  {Con(<<"Wmay", n>>, "superset", Of("Wmay", Called(n)), {}) : n \in CallNodes} \cup
  {Con(<<"Wmay", n>>, "superset", Of("Wmay", Targets(n)), {}) :
     n \in {m \in JumpNodes : Targets(m) # {}}}

\* The sets Wdef are known by now.
UseCons ==
  {Con(<<"Use", n>>, "superset", {<<"Use", Body(n)>>}, {}) : n \in FunNodes} \cup
  {Con(<<"Use", n>>, "superset", {<<"Use", Following(n)>>}, {}) : n \in BlockNodes} \cup
  {Con(<<"after", n>>, "include", {<<"Use", Following(n)>>}, sets[<<"Wdef", n>>]) : n \in StmtNodes} \cup
  {Con(<<"Use", n>>, "superset", {<<"after", n>>} \cup
       (IF n \in CallNodes THEN Of("Use", Called(n)) ELSE {}), {}) : n \in StmtNodes} \cup
  {Con(<<"Use", n>>, "superset", Of("Use", Targets(n)), {}) :
     n \in {m \in JumpNodes : Targets(m) # {}}}

All(S) == UNION {sets[y] : y \in S}

Solved(v) ==
  CASE v.form = "union"    -> All(v.ys) \cup v.with
    [] v.form = "include"  -> All(v.ys) \ v.with
    [] v.form = "superset" -> sets[v.x] \cup All(v.ys)
    [] v.form = "subset"   -> {d \in sets[v.x] \cap v.with : \A y \in v.ys : d \in sets[y]}

\* The constraint solved longest ago; which of several new ones, is left open
\* in so far as it is the same one every time.
First(S) == CHOOSE v \in S : \A u \in S : stamp[v] <= stamp[u]

Begin(S) == /\ cons' = S /\ dirty' = S
            /\ stamp' = [v \in S |-> 0]

Analyse ==
  /\ phase = "run" /\ code # NoCode
  /\ phase' = "Wdef"
  /\ sets' = Start
  /\ Begin(WdefCons)
  /\ UNCHANGED <<locals, stack, store, code, run>>

\* "union" and "include" say that there is a change every time.
SolveFlow ==
  /\ phase \in {"Wdef", "Wmay", "Use"} /\ dirty # {}
  /\ LET con == First(dirty)
         changed == con.form \in {"union", "include"} \/ Solved(con) # sets[con.x]
         woken == IF changed THEN {u \in cons : con.x \in u.ys} ELSE {}
     IN  /\ sets' = [sets EXCEPT ![con.x] = Solved(con)]
         /\ dirty' = (dirty \ {con}) \cup woken
         /\ stamp' = [stamp EXCEPT ![con] = 1 + Max(Range(stamp))]
  /\ UNCHANGED <<phase, locals, stack, store, code, cons, run>>

NextSolver ==
  /\ dirty = {}
  /\ \/ phase = "Wdef" /\ phase' = "Wmay" /\ Begin(WmayCons)
     \/ phase = "Wmay" /\ phase' = "Use" /\ Begin(UseCons)
  /\ UNCHANGED <<locals, stack, store, code, sets, run>>

----------------------------------------------------------------------------
(***************************************************************************)
(* Execution.  Objects are instances of declarations, as in Locals; what   *)
(* is no pointer has no value.                                             *)
(***************************************************************************)
Here(d, l) == Instances(d, IF Owner[d] \in Funs \cup {Gen} THEN l ELSE 0)
Whole(o)   == {o} \cup UNION {Instances(d, Level(o)) : d \in Parts(Members[Decl(o)], {})}

\* The objects an expression goes through; the last dereference only takes
\* what is found there.
Places(e) == IF Last(e) = "*" THEN Len(e) - 1 ELSE Len(e)

OneStep(o, k) ==
  IF k = "*" THEN store[o]
  ELSE IF k \in DOMAIN Select[Decl(o)] THEN Instances(Select[Decl(o)][k], Level(o)) ELSE {}

Walks(e, l) ==
  LET To[n \in 1 .. Places(e)] ==
        IF n = 1 THEN {<<o>> : o \in Here(e[1], l)}
        ELSE UNION {{Append(w, o) : o \in OneStep(Last(w), e[n])} : w \in To[n - 1]}
  IN  To[Places(e)]

\* One walk for each of the expressions E, in the activation at level l; none
\* if a pointer is null.
Evals(E, l) ==
  {c \in [E -> UNION {Walks(e, l) : e \in E}] : \A e \in E : c[e] \in Walks(e, l)}

Reads(c) ==
  UNION {UNION {Whole(c[e][n - 1]) : n \in {k \in DOMAIN e : e[k] = "*"}} : e \in DOMAIN c}

Value(e, w) == IF Last(e) = "*" THEN store[Last(w)] ELSE {Last(w)}

\* What x, o or a part of it, gets when o gets the value of e: the parts of a
\* structure get those of the other.
Given(x, o, e, c) ==
  IF e = <<>> THEN {}
  ELSE IF x = o THEN Value(e, c[e])
  ELSE LET from == Last(c[e])
           parts == {y \in DOMAIN store : /\ <<Decl(x), Decl(y)>> \in Alike[<<Decl(o), Decl(from)>>]
                                         /\ Level(y) = Level(from) /\ y[3] = x[3]}
       IN  UNION {store[y] : y \in parts}

Written(To) == UNION {Whole(o) : o \in To}

\* The stores after each of the objects To has got the value of one of E, no
\* pointer if there are none.
Stored(To, E, c) ==
  {[x \in DOMAIN store |->
      IF x \in Written(To) THEN LET o == CHOOSE o \in To : x \in Whole(o) IN Given(x, o, from[o], c)
      ELSE store[x]] : from \in [To -> IF E = {} THEN {<<>>} ELSE E]}

\* What is seen from the time on when an activation, the one at level, enters
\* a block: what it and those it calls read before it is written, and what
\* they write, of the objects there are then.
Unwatched == [on |-> FALSE, level |-> 0, node |-> <<Gen, 0, 0>>, entry |-> FALSE,
              read |-> {}, written |-> {}, wrote |-> {}]

Observed(w, reads, writes) ==
  LET old(S) == {o \in S : Level(o) <= w.level}
  IN  IF ~ w.on THEN Unwatched
      ELSE [w EXCEPT !.read = @ \cup (old(reads) \ w.written),
                     !.written = @ \cup old(writes),
                     !.wrote = @ \cup {o \in writes : Level(o) < w.level}]

\* Only one block is watched at a time, any one.
Entering(w, level, node, entry) ==
  {w} \cup IF w.on THEN {}
           ELSE {[Unwatched EXCEPT !.on = TRUE, !.level = level, !.node = node, !.entry = entry]}

fun == Last(stack)
Now == Last(at)                  \* <<block, statement>>
stmt == Stmts(fun, Now[1])[Now[2]]

OnStmt(op) == phase = "exec" /\ Now[2] <= Len(Stmts(fun, Now[1])) /\ stmt.op = op
OnJump     == phase = "exec" /\ Now[2] > Len(Stmts(fun, Now[1]))

Moved(places) == [places EXCEPT ![Len(places)][2] = @ + 1]

Execute ==
  /\ phase = "Use" /\ dirty = {}
  /\ phase' = "exec"
  /\ at' = <<<<1, 1>>>>
  /\ UNCHANGED <<locals, stack, store, code, sets, cons, dirty, stamp, watch>>

ExecAssign ==
  /\ OnStmt("assign")
  /\ \E c \in Evals(Target(stmt) \cup stmt.rhs, Depth) : \E o \in Value(stmt.lhs, c[stmt.lhs]) :
       /\ store' \in Stored({o}, stmt.rhs, c)
       /\ watch' = Observed(watch, Reads(c), Whole(o))
  /\ at' = Moved(at)
  /\ UNCHANGED <<phase, locals, stack, code, flow>>

\* Objects that nothing points to: one of them may be allocated.
Fresh(d) == {p \in Instances(d, 0) : \A o \in DOMAIN store : store[o] \cap Whole(p) = {}}

\* What it holds is not defined, and so it is no pointer.
ExecAlloc ==
  /\ OnStmt("alloc")
  /\ \E c \in Evals(Target(stmt) \cup stmt.size, Depth) : \E o \in Value(stmt.lhs, c[stmt.lhs]) :
     \E p \in Fresh(stmt.obj) :
       /\ store' = [x \in DOMAIN store |-> IF x = o THEN {p} ELSE IF x \in Whole(p) THEN {} ELSE store[x]]
       /\ watch' = Observed(watch, Reads(c), {o})
  /\ at' = Moved(at)
  /\ UNCHANGED <<phase, locals, stack, code, flow>>

\* Nothing is done to data known early when they are freed, and a sequence
\* point does nothing either.
ExecFree ==
  /\ OnStmt("free") \/ OnStmt("sequence")
  /\ at' = Moved(at)
  /\ UNCHANGED <<phase, locals, stack, store, code, flow, watch>>

ExecCall ==
  /\ OnStmt("call") /\ Depth < MaxDepth
  /\ \E f \in FunDfs(stmt) : \E c \in Evals(stmt.fun \cup stmt.arg, Depth) :
       /\ store' \in Stored(UNION {Instances(d, Depth + 1) : d \in TopLevel(f) \cap Params}, stmt.arg, c)
       /\ stack' = Append(stack, f)
       /\ at' = Append(at, <<1, 1>>)
       /\ watch' \in Entering(Observed(watch, Reads(c), {}), Depth + 1, <<f, 1, 0>>, TRUE)
  /\ UNCHANGED <<phase, locals, code, flow>>

\* The object that takes the result of a call, if that is wanted.
Results(call, c) ==
  IF call.lhs = <<>> THEN {{}} ELSE {{o} : o \in Value(call.lhs, c[call.lhs])}

\* An external function reads and writes what it can get hold of.
ExecExternal ==
  /\ OnStmt("call")
  /\ \E f \in ExtFuns(stmt) : \E c \in Evals(stmt.fun \cup stmt.arg \cup Target(stmt), Depth) :
     \E R \in SUBSET UNION {Instances(d, 0) : d \in ExtReads[f]} :
     \E W \in SUBSET UNION {Instances(d, 0) : d \in ExtWrites[f]} :
     \E to \in Results(stmt, c) :
       /\ store' = [o \in DOMAIN store |-> IF o \in W \cup Written(to) THEN {} ELSE store[o]]
       /\ watch' = Observed(watch, Reads(c) \cup R, W \cup Written(to))
  /\ at' = Moved(at)
  /\ UNCHANGED <<phase, locals, stack, code, flow>>

ExecJump ==
  /\ OnJump /\ Jump(fun, Now[1]).op # "return"
  /\ \E c \in Evals(Jump(fun, Now[1]).rhs, Depth) : \E b \in Jump(fun, Now[1]).to :
       /\ at' = [at EXCEPT ![Depth] = <<b, 1>>]
       /\ watch' \in Entering(Observed(watch, Reads(c), {}), Depth, <<fun, b, 0>>, FALSE)
  /\ UNCHANGED <<phase, locals, stack, store, code, flow>>

\* The objects of the activation are gone, and no pointer to them is used.
ExecReturn ==
  /\ OnJump /\ Jump(fun, Now[1]).op = "return" /\ Depth > 1
  /\ LET call    == Stmts(stack[Depth - 1], at[Depth - 1][1])[at[Depth - 1][2]]
         alive(S) == {o \in S : Level(o) < Depth}
         kept(st) == [o \in DOMAIN st |-> IF Level(o) < Depth THEN alive(st[o]) ELSE {}]
     IN  \E c \in Evals(Jump(fun, Now[1]).rhs, Depth), d \in Evals(Target(call), Depth - 1) :
         \E to \in Results(call, d) :
         LET seen == Observed(watch, Reads(c), {})
         IN  /\ to = alive(to)
             /\ store' \in {kept(st) : st \in Stored(to, Jump(fun, Now[1]).rhs, c)}
             /\ watch' = IF seen.level = Depth THEN [seen EXCEPT !.on = FALSE]
                         ELSE Observed(seen, Reads(d), Written(to))
  /\ stack' = Front(stack)
  /\ at' = Moved(Front(at))
  /\ UNCHANGED <<phase, locals, code, flow>>

----------------------------------------------------------------------------
DFInit ==
  /\ Init
  /\ code \in Codes(<<calls, pt>>)
  /\ sets = <<>> /\ cons = {} /\ dirty = {} /\ stamp = <<>>
  /\ at = <<>> /\ watch = Unwatched

DFNext ==
  \/ /\ SolveCalls \/ CallsDone \/ TrulyLocal \/ (code = NoCode /\ Run)
     /\ UNCHANGED <<code, flow, run>>
  \/ Analyse \/ SolveFlow \/ NextSolver \/ Execute
  \/ ExecAssign \/ ExecAlloc \/ ExecFree \/ ExecCall \/ ExecExternal \/ ExecJump \/ ExecReturn

DFSpec == DFInit /\ [][DFNext]_<<vars, code, flow, run>>

----------------------------------------------------------------------------
(***************************************************************************)
(* Properties.                                                             *)
(***************************************************************************)
\* outerMostContainer
Outermost(d) == CHOOSE r \in Roots : d \in Parts({r}, {})

\* emit_memodata: the locals and parameters that are memoized with a block.
MemoSet(n) == {Outermost(d) : d \in sets[<<"Use", n>>] \cap Objs} \cap TopLevel(n[1])

\* A block that is resumed finds the values in the locals that it had before,
\* if they are memoized.  The others it may not read, nor may those it calls,
\* unless they have been written since.
ResumedReadsAreMemoized ==
  phase = "exec" /\ watch.level # 0 =>
    \A o \in watch.read : Level(o) = watch.level => Outermost(Decl(o)) \in MemoSet(watch.node)

\* "to avoid specialising a function with respect to data that it does not
\* use": what a call reads of the parameters and of other objects is in the
\* set by which it is decided whether the function may be shared.
CallReadsAreCompared ==
  phase = "exec" /\ watch.entry =>
    \A o \in watch.read : Decl(o) \in sets[<<"Use", <<watch.node[1], 0, 0>>>>]

\* What a call writes outside of its own locals, sharing it brings about, too.
CallWritesAreReplayed ==
  phase = "exec" /\ watch.entry =>
    \A o \in watch.wrote : Decl(o) \in sets[<<"Wmay", <<watch.node[1], 0, 0>>>>]

\* What is said to be overwritten is a variable that other activations cannot
\* get hold of, or no local variable.  (A structure that is truly local may
\* have members that are not.)
KillsAreOwn ==
  phase = "exec" =>
    \A n \in StmtNodes : \A d \in Kills(StmtAt(n)) : Owner[d] \in Funs \cup {Gen} => d \in truly[Owner[d]]

\* What a resumed block reads is in the set of what is memoized with it, because only what
\* is the activation's own is said to be overwritten.
MemoizationSuffices == KillsAreOwn /\ ResumedReadsAreMemoized

\* A call is shared for equal input only, and with the whole of its effect.
CallsAreCovered == CallReadsAreCompared /\ CallWritesAreReplayed
=============================================================================
