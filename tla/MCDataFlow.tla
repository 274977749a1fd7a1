----------------------------- MODULE MCDataFlow -----------------------------
(***************************************************************************)
(* Functions f, g and h, which may call each other and themselves, and a   *)
(* generator.  f has a parameter p, a pointer x and a structure s with one *)
(* member m; g has a parameter q and an array a of elements e; u and v are *)
(* global, w belongs to external functions, and n stands for the objects   *)
(* that are allocated.                                                     *)
(*                                                                         *)
(* Programs without bodies: every call graph without pointers, and every   *)
(* call graph of f and g with every points-to relation of up to MaxPairs   *)
(* of the Pairs.  Programs with bodies: f has three blocks, g has one.  In  *)
(* a program of its own f is given a pointer to a member of the structure  *)
(* of another activation, and overwrites its own structure.                *)
(*                                                                         *)
(* The text by which the generating extension learns what to memoize       *)
(* (MemoText) is the other part of the run: the first state says which of  *)
(* the two is looked at, and the variables of the other one are empty.     *)
(***************************************************************************)
EXTENDS DataFlow, MemoText, TLC

CONSTANTS f, g, h, gen, p, x, s, m, q, a, e, u, v, w, hp, n, ext,
  global, external, heap, MaxPairs,
  OnlyStructure   \* is there just that one program?

MCFuns    == {f, g, h}
MCObjs    == {p, x, s, m, q, a, e, u, v, w, hp, n}
MCOwner   == [d \in MCObjs |-> CASE d \in {p, x, s, m} -> f
                                 [] d \in {q, a, e} -> g
                                 [] d \in {u, v} -> global
                                 [] d \in {hp, n} -> heap
                                 [] OTHER -> external]
MCParams  == {p, q}
MCSelect  == [d \in MCObjs |-> CASE d = s -> ("m" :> m) [] d = a -> ("[]" :> e)
                                  [] d = hp -> ("[]" :> n) [] OTHER -> <<>>]
MCMembers == [d \in MCObjs |-> Range(MCSelect[d])]
MCArrays  == {a, hp}

Pairs == {<<v, x>>, <<w, x>>, <<p, x>>, <<q, x>>, <<p, m>>, <<q, s>>, <<m, x>>,
          <<x, p>>, <<v, m>>, <<p, e>>, <<x, e>>}

PointsTo(P) == [d \in MCObjs |-> {t \in MCObjs : <<d, t>> \in P}]

Bodiless ==
  {<<calling, PointsTo({})>> : calling \in [MCFuns -> SUBSET MCFuns]} \cup
  {<<calling @@ (h :> {}), PointsTo(P)>> :
     calling \in [{f, g} -> SUBSET {f, g}],
     P \in {Q \in SUBSET Pairs : Cardinality(Q) <= MaxPairs}}

----------------------------------------------------------------------------
Assigns(to, E)      == [op |-> "assign", lhs |-> to, rhs |-> E]
Calls(to, F, E)     == [op |-> "call", lhs |-> to, fun |-> {}, funs |-> F, arg |-> E]
Allocates(to, E)    == [op |-> "alloc", lhs |-> to, size |-> E, obj |-> n]
Frees(E)            == [op |-> "free", lhs |-> <<>>, rhs |-> E]
Sequences           == [op |-> "sequence", lhs |-> <<>>]
Goto(b)             == [op |-> "goto", rhs |-> {}, to |-> {b}]
If(E, b, c)         == [op |-> "if", rhs |-> E, to |-> {b, c}]
Returns(E)          == [op |-> "return", rhs |-> E, to |-> {}]
Does(st, j)         == [stmts |-> st, jump |-> j]

InFirst  == {Assigns(<<x>>, {<<p, "*">>}),         \* x = p
             Assigns(<<x>>, {<<p>>}),              \* x = &p
             Assigns(<<v>>, {<<x>>}),              \* v = &x
             Assigns(<<s, "m">>, {<<p, "*">>}),    \* s.m = p
             Allocates(<<x>>, {<<p, "*">>}),       \* x = malloc(p)
             Calls(<<x>>, {g}, {<<x>>})}           \* x = g(&x)
InSecond == {Assigns(<<p, "*">>, {<<x, "*">>}),    \* *p = x
             Calls(<<>>, {f, g}, {<<x, "*">>}),    \* (f or g)(x)
             Calls(<<x>>, {f}, {<<s, "m">>}),      \* x = f(&s.m)
             Calls(<<x>>, {ext}, {})}              \* x = ext()
\* With the jump of the first block.
InThird  == {<<Goto(2), Assigns(<<u>>, {<<x, "*">>})>>,                        \* u = x
             <<If({<<x, "*">>}, 2, 3), Assigns(<<x>>, {<<s, "m", "*">>})>>}   \* x = s.m
InG      == {Assigns(<<q, "*">>, {<<v, "*">>}),    \* *q = v
             Assigns(<<a, "[]">>, {<<q, "*">>}),   \* a[i] = q
             Calls(<<q>>, {f}, {<<q, "*">>})}      \* q = f(q)

BodiesOf(first, second, third, ing) ==
  f :> <<Does(<<first>>, third[1]), Does(<<second[1]>>, second[2]),
         Does(<<third[2]>>, Returns({<<x, "*">>}))>> @@
  g :> <<Does(<<ing, Assigns(<<v>>, {<<a, "[]", "*">>})>>, Returns({<<q, "*">>}))>> @@
  h :> <<Does(<<>>, Returns({}))>> @@
  gen :> <<Does(<<Assigns(<<v>>, {<<u>>}), Frees({<<v, "*">>}), Sequences,
                  Calls(<<>>, {f}, {<<u>>})>>, Returns({}))>>

MCBodies ==
  {BodiesOf(first, second, third, ing) :
     first \in InFirst, second \in InSecond \X {Goto(3), Goto(1)}, third \in InThird, ing \in InG} \cup
  {BodiesOf(Assigns(<<s>>, {<<p, "*", "*">>}),                 \* s = *p
            <<Calls(<<x>>, {f}, {<<s>>}), Goto(3)>>,           \* x = f(&s)
            third, ing) : third \in InThird, ing \in InG}

\* f(p) { if (..) s = ext(); else { s.m = &x; g(&s.m); } }
\* g(q) { f(*q); v = **q; }
StructureBodies ==
  {f :> <<Does(<<>>, If({}, 2, 3)), Does(<<Calls(<<s>>, {ext}, {})>>, Returns({})),
          Does(<<Assigns(<<s, "m">>, {<<x>>}), Calls(<<>>, {g}, {<<s, "m">>})>>, Returns({}))>> @@
   g :> <<Does(<<Calls(<<>>, {f}, {<<q, "*">>}), Assigns(<<v>>, {<<q, "*", "*">>})>>, Returns({}))>> @@
   h :> <<Does(<<>>, Returns({}))>> @@
   gen :> <<Does(<<Calls(<<>>, {f}, {<<u>>})>>, Returns({}))>>}

Bare      == IF OnlyStructure THEN {} ELSE Bodiless
AllBodies == IF OnlyStructure THEN StructureBodies ELSE MCBodies

StmtsOf(c, k) == UNION {Range(c[k][b].stmts) : b \in DOMAIN c[k]}
ResultsOf(c, k) == UNION {c[k][b].jump.rhs : b \in DOMAIN c[k]}

\* The calls and the least points-to relation of a program, its statements in
\* any order, as pa.cc finds them.
CallsOf(c) == [k \in MCFuns |->
  UNION {IF st.op = "call" THEN st.funs \cap MCFuns ELSE {} : st \in StmtsOf(c, k)}]

\* <<l, E>>: what l designates gets the value of one of E.
AssignmentsOf(c) ==
  UNION {UNION {CASE st.op = "assign" -> {<<st.lhs, st.rhs>>}
                  [] st.op = "alloc" -> {<<st.lhs, {<<st.obj>>}>>}
                  [] st.op = "call" ->
                       UNION {{<<<<d>>, st.arg>> : d \in {i \in MCParams : MCOwner[i] = k2}}
                              \cup (IF st.lhs = <<>> THEN {} ELSE {<<st.lhs, ResultsOf(c, k2)>>}) :
                                k2 \in st.funs \cap MCFuns}
                  [] OTHER -> {} : st \in StmtsOf(c, k)} : k \in DOMAIN c}

LeastRelation(asg, alike) ==
  LET Grow[P \in SUBSET (MCObjs \X MCObjs)] ==
        LET rel  == PointsTo(P)
            Part(l, y) == IF Last(y) # "*" THEN {}
                          ELSE UNION {alike[c] : c \in PTin(rel, l) \X PTin(rel, Front(y))}
            To(l, y) == PTin(rel, l) \X PTin(rel, y) \cup UNION {{c[1]} \X rel[c[2]] : c \in Part(l, y)}
            more == UNION {UNION {To(k[1], y) : y \in k[2]} : k \in asg} \ P
        IN  IF more = {} THEN P ELSE Grow[P \cup more]
  IN  PointsTo(Grow[{}])

ProgramOf(c, alike) == <<CallsOf(c), LeastRelation(AssignmentsOf(c), alike)>>

MCCoded    == LET alike == Alike IN {<<ProgramOf(c, alike), c>> : c \in AllBodies}
MCPrograms == Bare \cup {k[1] : k \in MCCoded}

MCNoCode == <<>>
MCCodes(P) ==
  IF P \in Bare THEN {MCNoCode} ELSE {k[2] : k \in {c \in MCCoded : c[1] = P}}

MCExt       == {ext}
MCExtReads  == [k \in {ext} |-> {v, w}]
MCExtWrites == [k \in {ext} |-> {w}]

----------------------------------------------------------------------------
VARIABLE which

\* Positions where another digit begins in octal notation or in base 255.
Edges == (1 .. 9) \cup (63 .. 65) \cup (254 .. 257) \cup (509 .. 512) \cup {765, 766}

MCPositionSets == {S \in SUBSET Edges : Cardinality(S) <= 2} \cup {Edges}
MCIdSets == UNION {{count} \X ({S \in SUBSET (0 .. count - 1) : Cardinality(S) <= 2}
                               \cup {0 .. count - 1}) : count \in {1, 7, 8, 9, 16, 17}}

LocalsInit ==
  \/ /\ which = "program" /\ DFInit
     /\ set = "" /\ step = "" /\ literal = "" /\ cursor = "" /\ restored = ""
  \/ /\ which = "text" /\ TextInit
     /\ phase = "" /\ calls = "" /\ pt = "" /\ preds = "" /\ waiting = "" /\ truly = ""
     /\ unique = "" /\ stack = "" /\ store = "" /\ code = "" /\ sets = "" /\ cons = ""
     /\ dirty = "" /\ stamp = "" /\ at = "" /\ watch = ""

Program == which = "program" /\ DFNext /\ UNCHANGED <<which, memotext>>
Text    == which = "text" /\ TextNext /\ UNCHANGED <<which, vars, code, flow, run>>

LocalsSpec == LocalsInit /\ [][Program \/ Text]_<<which, vars, code, flow, run, memotext>>
=============================================================================
