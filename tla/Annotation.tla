----------------------------- MODULE Annotation -----------------------------
(***************************************************************************)
(* The binding-time analysis (analyzer/bta.cc, btvars.cc): the binding-    *)
(* time variables of a program and the constraints between them.  A        *)
(* constraint is a pair <<a, b>>: b is dynamic if a is.  How they are      *)
(* solved is BindingTimes' matter; the least solution is what is           *)
(* reachable from D.                                                       *)
(*                                                                         *)
(* A type node is a record with its kind k and its binding-time variable   *)
(* id; next is what a pointer points to or an array consists of, mem the   *)
(* types of the members.  An expression has the place "at" in the program. *)
(***************************************************************************)
EXTENDS CoreC

D == <<"D">>

-----------------------------------------------------------------------------
(***************************************************************************)
(* What earlier phases know of the program: points-to sets and truly       *)
(* local objects (PointsTo and Locals model how they are found).  An       *)
(* abstract object is a variable and a way, with 0 for any array element.  *)
(***************************************************************************)
\* R: pairs of an object and an object it may point to.
RECURSIVE PT(_, _)
PT(e, R) ==
  CASE e[1] = "var"    -> {<<e[2], <<>>>>}
    [] e[1] = "member" -> {<<o[1], Append(o[2], e[3])>> : o \in PT(e[2], R)}
    [] e[1] = "array"  -> {<<o[1], Append(o[2], 0)>> : o \in PT(e[2], R)}
    [] e[1] = "arith"  -> PT(e[2], R)
    [] e[1] = "deref"  -> LET S == PT(e[2], R) IN {r[2] : r \in {q \in R : q[1] \in S}}
    [] OTHER -> {}

StatementsOf(P, f) == UNION {Range(P.blocks[f][b][1]) : b \in DOMAIN P.blocks[f]}
Returned(P, f) == {j \in {P.blocks[f][b][2] : b \in DOMAIN P.blocks[f]} : j[1] = "return"}

PointsBy(P, R, st) ==
  LET to(e) == PT(e, R)
  IN CASE st[1] = "assign" -> to(st[2]) \X to(st[3])
       [] st[1] = "call" /\ st[3][1] = "fun" ->
            UNION {{<<P.params[st[3][2]][i], <<>>>>} \X to(st[4][i]) : i \in DOMAIN st[4]}
            \cup (IF st[2] = <<>> THEN {} ELSE to(st[2]) \X UNION {to(j[2]) : j \in Returned(P, st[3][2])})
       [] st[1] = "alloc" -> to(st[2]) \X {<<st[4], <<0>>>>}
       [] OTHER -> {}

PointsInit(P) ==
  UNION {LET i == P.init[x] IN IF i[1] = "simple" THEN {<<x, <<>>>>} \X PT(i[2], {}) ELSE {} : x \in DOMAIN P.init}

RECURSIVE PointsFrom(_, _)
PointsFrom(P, R) ==
  LET new == R \cup UNION {PointsBy(P, R, st) : st \in UNION {StatementsOf(P, f) : f \in Functions(P)}}
  IN  IF new = R THEN R ELSE PointsFrom(P, new)

Callees(P, f) == {st[3][2] : st \in {s \in StatementsOf(P, f) : s[1] = "call" /\ s[3][1] = "fun"}}

\* The functions called from the set S, directly or not.
RECURSIVE CalledFrom(_, _)
CalledFrom(P, S) ==
  LET new == UNION {Callees(P, f) : f \in S} \ S
  IN  IF new = {} THEN S ELSE CalledFrom(P, S \cup new)

Recursive(P, f) == f \in CalledFrom(P, Callees(P, f))

\* The variables pointed to from the variables S, directly or not.
RECURSIVE Reached(_, _)
Reached(R, S) ==
  LET new == {r[2][1] : r \in {q \in R : q[1][1] \in S}} \ S
  IN  IF new = {} THEN S ELSE Reached(R, S \cup new)

\* The variables that are truly local to f.
TrulyLocals(P, R, f) ==
  IF ~Recursive(P, f) THEN LocalsOf(P, f)
  ELSE LET params == {r[2][1] : r \in {q \in R : q[1][1] \in Range(P.params[f])}}
       IN  LocalsOf(P, f) \ Reached(R, Globals(P) \cup params)

-----------------------------------------------------------------------------
(***************************************************************************)
(* Binding-time variables (btvars.cc).                                     *)
(***************************************************************************)
\* A type and the types it is made of; all instances of a structure share.
RECURSIVE Node(_, _, _)
Node(P, t, id) ==
  CASE t[1] \in {"int", "void"} -> [k |-> t[1], id |-> id]
    [] t[1] \in {"ptr", "arr"} -> [k |-> t[1], id |-> id, next |-> Node(P, Last(t), Append(id, 0))]
    [] t[1] = "struct" -> [k |-> "struct", id |-> <<"s", t[2]>>,
                           mem |-> [i \in DOMAIN P.structs[t[2]] |-> Node(P, P.structs[t[2]][i], <<"s", t[2], i>>)]]

VarType(P, x) == Node(P, P.types[x], <<"v", x>>)
RetType(P, f) == Node(P, P.ret[f], <<"r", f>>)
FunId(f)      == <<"f", f>>        \* "may be called speculatively"
BlockId(f, b) == <<"b", f, b>>     \* "is under dynamic control"
\* The whole type of an external function has one variable.
ExtId(g)   == <<"x", g>>
ExtType(g) == [k |-> "int", id |-> ExtId(g)]

Pointer(at, t) == [k |-> "ptr", id |-> at, next |-> t]

Place(f, b, i, n) == <<"e", f, b, i, n>>

\* The type of expression e.
RECURSIVE T(_, _, _)
T(P, e, at) ==
  CASE e[1] \in {"num", "not", "bin", "cmp"} -> [k |-> "int", id |-> at]
    [] e[1] = "null"   -> Node(P, e[2], at)
    [] e[1] = "var"    -> Pointer(at, VarType(P, e[2]))
    [] e[1] = "member" -> Pointer(at, T(P, e[2], Append(at, 1)).next.mem[e[3]])
    [] e[1] = "array"  -> Pointer(at, T(P, e[2], Append(at, 1)).next.next)
    [] e[1] = "arith"  -> Pointer(at, T(P, e[2], Append(at, 1)).next)
    [] e[1] = "deref"  -> T(P, e[2], Append(at, 1)).next
    [] e[1] = "fun"    -> [k |-> "fun", id |-> at]
    [] e[1] = "ext"    -> ExtType(e[2])
    [] e[1] = "void"   -> [k |-> "void", id |-> at]

-----------------------------------------------------------------------------
(***************************************************************************)
(* Constraints.                                                            *)
(***************************************************************************)
Dep(t, u)     == {<<t.id, u.id>>}
Both(a, b)    == {<<a, b>>, <<b, a>>}
MakeDynamic(t) == {<<D, t.id>>}

\* force_equal.
RECURSIVE Equal(_, _)
Equal(t, u) ==
  Both(t.id, u.id)
    \cup CASE t.k \in {"ptr", "arr"} -> Equal(t.next, u.next)
           [] t.k = "struct" -> UNION {Equal(t.mem[i], u.mem[i]) : i \in DOMAIN t.mem}
           [] OTHER -> {}

\* array_contents_type.
RECURSIVE ArrayContents(_)
ArrayContents(t) == IF t.k = "arr" THEN ArrayContents(t.next) ELSE t

\* gen_type_constraints.
RECURSIVE WellFormed(_)
WellFormed(t) ==
  CASE t.k \in {"ptr", "arr"} -> WellFormed(t.next) \cup Dep(t, t.next)
    [] t.k = "struct" -> UNION {WellFormed(t.mem[i]) \cup Dep(ArrayContents(t.mem[i]), t) : i \in DOMAIN t.mem}
    [] OTHER -> {}

\* faithful: all of the type has one binding time, that of the variable nexus.
RECURSIVE Faithful(_, _)
Faithful(t, nexus) ==
  {<<nexus, t.id>>}
    \cup CASE t.k \in {"ptr", "arr"} -> Faithful(t.next, nexus)
           [] t.k = "struct" -> {<<t.id, nexus>>} \cup UNION {Faithful(t.mem[i], nexus) : i \in DOMAIN t.mem}
           [] OTHER -> {<<t.id, nexus>>}

\* The program, its points-to relation and the truly local objects of each
\* function, as the constraint generator gets them.
Env(P) == LET R == PointsFrom(P, PointsInit(P))
          IN [P |-> P, R |-> R, local |-> [f \in Functions(P) |-> TrulyLocals(P, R, f)]]

\* The object is an element of an array of known size.
IsElement(P, o) ==
  /\ o[2] # <<>>
  /\ LET t == TypeAt(P, P.types[o[1]], Front(o[2])) IN t[1] = "arr" /\ t[2] # 0

\* all_in_scope: the objects can be mentioned by name in f.
InScope(env, f, S, finishing) ==
  \A o \in S :
    /\ ~finishing => ~IsElement(env.P, o)
    /\ o[1] \in env.local[f] \/ env.P.owner[o[1]] \in {"global", "heap"}

\* Variant with a defect: what is pointed to is lifted from anywhere.
LiftInto_anywhere(env, f, t, S, u) ==
  IF t.k = "int" /\ u.k = "int" THEN Dep(t, u)
  ELSE IF t.k = "void" THEN {}
  ELSE IF t.k = "ptr" THEN Dep(t, u) \cup Equal(t.next, u.next)
  ELSE Equal(t, u)

\* lift_into.
LiftInto(env, f, t, S, u) ==
  IF t.k = "int" /\ u.k = "int" THEN Dep(t, u)
  ELSE IF t.k = "void" THEN {}
  ELSE IF t.k = "ptr" /\ InScope(env, f, S, FALSE) THEN Dep(t, u) \cup Equal(t.next, u.next)
  ELSE Equal(t, u)

Points(env, e) == PT(e, env.R)

\* gen_expr_constraints.
RECURSIVE OfExpr(_, _, _, _)
OfExpr(env, f, e, at) ==
  LET t      == T(env.P, e, at)
      Sub(i) == OfExpr(env, f, e[i + 1], Append(at, i))
      A(i)   == T(env.P, e[i + 1], Append(at, i))
      Operands(i, j) == \* of binary operators, after the operator itself
        OfExpr(env, f, e[3], Append(at, i)) \cup OfExpr(env, f, e[4], Append(at, j))
      L == T(env.P, e[3], Append(at, 1))
      N == T(env.P, e[4], Append(at, 2))
      Scope(x, finishing) == InScope(env, f, Points(env, x), finishing)
  IN CASE e[1] \in {"num", "ext", "void"} -> {}
       [] e[1] = "null" -> WellFormed(t)
       [] e[1] = "fun"  -> {}
       [] e[1] = "var"  -> Dep(t, t.next)
       [] e[1] = "not"  -> Dep(A(1), t) \cup Sub(1)
       [] e[1] = "bin"  -> Dep(L, t) \cup Dep(N, t) \cup Operands(1, 2)
       [] e[1] = "cmp"  ->
            LET finishing == e[2] = "=="
            IN Equal(L.next, N.next) \cup Dep(L, t) \cup Dep(N, t) \cup Operands(1, 2)
               \cup (IF Scope(e[3], finishing) THEN {} ELSE Dep(t, L))
               \cup (IF Scope(e[4], finishing) THEN {} ELSE Dep(t, N))
       [] e[1] = "arith"  -> Dep(t, t.next) \cup Both(t.id, A(1).id) \cup Dep(A(2), t) \cup Sub(1) \cup Sub(2)
       [] e[1] = "member" -> Dep(t, t.next) \cup Dep(A(1), t) \cup Sub(1)
                             \cup (IF Scope(e[2], TRUE) THEN {} ELSE Dep(t, A(1)))
       [] e[1] = "array"  -> Dep(t, t.next) \cup Both(t.id, A(1).next.id) \cup Sub(1)
                             \cup (IF Scope(e[2], TRUE) THEN {} ELSE Dep(A(1).next, A(1)))
       [] e[1] = "deref"  -> Sub(1) \cup (IF Scope(e[2], TRUE) THEN {} ELSE Dep(t, A(1)))

\* gen_init_constraints, for the initializer i of an object of type t.  The
\* "function" that all_in_scope is given is the variable, and of a variable
\* there is no set of truly local objects: a constant initializer only.
RECURSIVE OfInit(_, _, _, _)
OfInit(env, i, t, at) ==
  IF i[1] = "simple"
  THEN LET u == T(env.P, i[2], at)
       IN  OfExpr(env, "none", i[2], at) \cup LiftInto(env, "none", u, Points(env, i[2]), t)
  ELSE UNION {LET u == IF i[2] = "arr" THEN t.next ELSE t.mem[k]
              IN  OfInit(env, i[3][k], u, Append(at, k))
                  \cup IF i[2] = "arr" THEN {} ELSE Dep(ArrayContents(u), u) : k \in DOMAIN i[3]}

\* gen_decl_constraints for variables: Residual are those the user says are.
OfVariable(env, x) ==
  LET P == env.P
      t == VarType(P, x)
  IN  WellFormed(t)
      \cup (IF x \in P.residual THEN Faithful(t, <<"n", x>>) \cup MakeDynamic(t) ELSE {})
      \cup (IF x \in DOMAIN P.init THEN OfInit(env, P.init[x], t, <<"i", x>>) ELSE {})

\* An external function with side effects is called by the residual program.
Stateful == {"print"}
OfExternals == {<<D, ExtId(g)>> : g \in Stateful}

\* Variant with a defect: dynamic control inside the function is forgotten.
Control_function(f, b, id) == {<<FunId(f), id>>}

\* What is done in block b of f is dynamic if the block is under dynamic
\* control or the function may be called speculatively.
Control(f, b, id) == {<<FunId(f), id>>, <<BlockId(f, b), id>>}

OfCall(env, f, b, st, at, to) ==
  LET P == env.P
      g == st[3][2]
      Arg(k) == <<at[1], at[2], at[3], at[4], 2 + k>>
      A(k)   == T(P, st[4][k], Arg(k))
  IN  UNION {OfExpr(env, f, st[4][k], Arg(k)) : k \in DOMAIN st[4]}
      \cup IF st[3][1] = "fun"
           THEN Control(f, b, FunId(g))
                \cup UNION {LiftInto(env, f, A(k), Points(env, st[4][k]), VarType(P, P.params[g][k])) : k \in DOMAIN st[4]}
                \cup IF st[2] = <<>> THEN {}
                     ELSE LiftInto(env, f, RetType(P, g), UNION {Points(env, j[2]) : j \in Returned(P, g)}, to)
           ELSE UNION {LiftInto(env, f, A(k), Points(env, st[4][k]), ExtType(g)) : k \in DOMAIN st[4]}
                \cup (IF st[2] = <<>> THEN {} ELSE Equal(ExtType(g), to))
                \cup (IF g \in Stateful THEN Control(f, b, ExtId(g)) ELSE {})

\* The pseudoarray of a heap allocation: its size is an expression.
OfAlloc(env, f, b, st, at, to) ==
  LET h == VarType(env.P, st[4])
      size == <<at[1], at[2], at[3], at[4], 2>>
  IN  OfExpr(env, f, st[3], size) \cup Dep(T(env.P, st[3], size), h) \cup WellFormed(h)
      \cup Equal(to.next, h.next) \cup Both(h.id, to.id) \cup Control(f, b, h.id)

OfFree(env, f, st, at) ==
  OfExpr(env, f, st[2], at)
    \cup UNION {Dep(T(env.P, st[2], at), VarType(env.P, o[1])) :
                  o \in {q \in Points(env, st[2]) : q[2] = <<0>> /\ env.P.types[q[1]][1] = "arr"}}

\* gen_stmt_constraints: the target first.
OfTarget(env, f, b, e, at) ==
  LET t == T(env.P, e, at)
      S == Points(env, e)
  IN  OfExpr(env, f, e, at)
      \cup (IF InScope(env, f, S, TRUE) THEN {} ELSE Dep(t.next, t))
      \cup (IF \A o \in S : o[1] \in env.local[f] THEN {} ELSE Control(f, b, t.next.id))

OfStatement(env, f, b, i) ==
  LET st == env.P.blocks[f][b][1][i]
      at == Place(f, b, i, 1)
      v  == Place(f, b, i, 2)
      target == IF st[1] # "free" /\ st[2] # <<>> THEN OfTarget(env, f, b, st[2], at) ELSE {}
      to == T(env.P, st[2], at).next
  IN  target
      \cup CASE st[1] = "assign" -> OfExpr(env, f, st[3], v) \cup LiftInto(env, f, T(env.P, st[3], v), Points(env, st[3]), to)
             [] st[1] = "call"   -> OfCall(env, f, b, st, at, to)
             [] st[1] = "alloc"  -> OfAlloc(env, f, b, st, at, to)
             [] st[1] = "free"   -> OfFree(env, f, st, at)

\* gen_jump_constraints.
OfJump(env, f, b) ==
  LET j  == env.P.blocks[f][b][2]
      at == Place(f, b, 0, 1)
      t  == T(env.P, j[2], at)
  IN CASE j[1] = "if" -> OfExpr(env, f, j[2], at)
                         \cup UNION {{<<t.id, BlockId(f, c)>>, <<BlockId(f, b), BlockId(f, c)>>} : c \in {j[3], j[4]}}
       [] j[1] = "goto" -> {<<BlockId(f, b), BlockId(f, j[2])>>}
       [] j[1] = "return" -> OfExpr(env, f, j[2], at)
                             \cup LiftInto(env, f, t, Points(env, j[2]), RetType(env.P, f))
                             \cup {<<BlockId(f, b), RetType(env.P, f).id>>}

OfFunction(env, f) ==
  WellFormed(RetType(env.P, f))
    \cup UNION {OfJump(env, f, b) \cup UNION {OfStatement(env, f, b, i) : i \in DOMAIN env.P.blocks[f][b][1]} :
                  b \in DOMAIN env.P.blocks[f]}

Constraints(P) ==
  LET env == Env(P)
  IN  UNION {OfVariable(env, x) : x \in {y \in DOMAIN P.types : P.owner[y] # "heap"}}
      \cup UNION {OfFunction(env, f) : f \in Functions(P)} \cup OfExternals

\* The least solution: what C makes dynamic if S is.
RECURSIVE Closure(_, _)
Closure(C, S) ==
  LET new == {c[2] : c \in {d \in C : d[1] \in S}} \ S
  IN  IF new = {} THEN S ELSE Closure(C, S \cup new)

DynamicOf(P) == Closure(Constraints(P), {D})
=============================================================================
