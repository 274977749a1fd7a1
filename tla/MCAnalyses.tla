----------------------------- MODULE MCAnalyses -----------------------------
(***************************************************************************)
(* Three analyses in one run: points-to (PointsTo), the solver of binding- *)
(* time constraints (BindingTimes), and whole programs from binding-time   *)
(* analysis to residual program (Congruence).  The first state says        *)
(* which; the variables of the others are empty, and PointsTo has an empty *)
(* program.                                                                *)
(*   PointsTo: numbers a and h (on the heap), pointers p and q to numbers, *)
(*   a pointer pp to such pointers, structures s and t with one such       *)
(*   pointer each, a pointer sp to structures, a function f from pointers  *)
(*   to pointers and a pointer fp to functions, called va, vh and so on.   *)
(*   Programs of up to MaxStmts statements.                                *)
(*   BindingTimes: three list types l1, l2, l3: structures of a number n1, *)
(*   n2, n3 and a pointer p1, p2, p3 to the next one.  The pointer and the *)
(*   number of the third are faithful: they share a variable.              *)
(*   Congruence: a library of functions, and mains that combine a few      *)
(*   statements under static and dynamic tests.                            *)
(***************************************************************************)
EXTENDS PointsTo, BindingTimes, Integers, FiniteSetsExt, TLC

CONSTANTS
  va, vh, vp, vq, vpp, vs, vt, vsm, vtm, vsp, vf, vx, vfp,  \* declarations of the programs for PointsTo
  MaxStmts, MaxRequests                                    \* bounds: statements and requests of a program

VARIABLES
  which,
  coProgram, coPhase, dynamic, input, generated, outputs

co == <<coProgram, coPhase, dynamic, input, generated, outputs>>

----------------------------------------------------------------------------
MCObjs    == {va, vh, vp, vq, vpp, vs, vt, vsm, vtm, vsp, vx, vfp}
MCMembers == [o \in MCObjs \cup {vf} |->
              CASE o = vs -> [m |-> vsm] [] o = vt -> [m |-> vtm] [] OTHER -> <<>>]
Asg(l, r) == [op |-> "assign", lhs |-> l, rhs |-> r]
MCStmts ==
  {Asg(<<vp>>, <<va>>),                    \* p = &a
   Asg(<<vpp>>, <<vp>>),                   \* pp = &p
   Asg(<<vpp>>, <<vq>>),                   \* pp = &q
   Asg(<<vpp, "*">>, <<vq, "*">>),         \* *pp = q
   Asg(<<vq>>, <<vpp, "*", "*">>),         \* q = *pp
   Asg(<<vsp>>, <<vs>>),                   \* sp = &s
   Asg(<<vsp, "*", "m">>, <<vp, "*">>),    \* sp->m = p
   Asg(<<vq>>, <<vt, "m", "*">>),          \* q = t.m
   Asg(<<vfp>>, <<vf>>),                   \* fp = &f
   [op |-> "copy", lhs |-> <<vt>>, rhs |-> <<vsp, "*", "*">>],  \* t = *sp
   [op |-> "alloc", lhs |-> <<vp>>, obj |-> vh],                \* p = alloc(h)
   [op |-> "call", lhs |-> <<vq>>, fun |-> <<vfp, "*">>, arg |-> <<vp, "*">>],  \* q = fp(p)
   [op |-> "return", in |-> vf, rhs |-> <<vx, "*">>]}           \* return x, in f

MCFuns     == {vf}
MCParam    == [g \in {vf} |-> vx]
MCPaPrograms == {P \in SUBSET MCStmts : Cardinality(P) <= MaxStmts \/ P = MCStmts}

----------------------------------------------------------------------------
MCTypes == {"l1", "l2", "l3", "n1", "n2", "n3", "p1", "p2", "p3"}
MCSubTypes == [y \in MCTypes |->
              CASE y = "l1" -> <<"n1", "p1">> [] y = "l2" -> <<"n2", "p2">> [] y = "l3" -> <<"n3", "p3">>
                [] y = "p1" -> <<"l1">> [] y = "p2" -> <<"l2">> [] y = "p3" -> <<"l3">> [] OTHER -> <<>>]
MCBtVars == (MCTypes \cup {"dynamic"}) \ {"p3"}
MCVar    == [y \in MCTypes |-> IF y = "p3" THEN "n3" ELSE y]
Equate(l, r) == [op |-> "equal", s |-> l, t |-> r]
Follow(l, r) == [op |-> "dep", s |-> l, t |-> r]
MCRequests ==
  {Equate("l1", "l2"), Equate("p2", "p1"), Equate("p2", "p3"), Equate("l3", "l1"), Equate("n1", "n3"),
   Follow("n1", "l1"), Follow("l1", "n1"), Follow("l2", "p1"), Follow("p3", "l3"),
   [op |-> "dynamic", t |-> "n1"], [op |-> "dynamic", t |-> "p3"]}
MCRequestSets == {P \in SUBSET MCRequests : Cardinality(P) <= MaxRequests}
MCNoCause     == [op |-> "none"]

----------------------------------------------------------------------------
V(x) == <<"var", x>>
R(x) == <<"deref", <<"var", x>>>>
N(n) == <<"num", n>>
Index(a, i) == <<"arith", <<"array", V(a)>>, i>>
Field(x, k) == <<"member", V(x), k>>
At0(e) == <<"deref", e>>
Add(a, b) == <<"bin", "+", a, b>>
And(a, b) == <<"bin", "&&", a, b>>
Or(a, b) == <<"bin", "||", a, b>>
Less(a, b) == <<"bin", "<", a, b>>
Same(a, b) == <<"cmp", "==", a, b>>
Let(t, e) == <<"assign", t, e>>
Do(f, as) == <<"call", <<>>, <<"fun", f>>, as>>
Get(t, f, as) == <<"call", t, <<"fun", f>>, as>>
Show(e) == <<"call", <<>>, <<"ext", "print">>, <<e>>>>
IntT == <<"int">>
Void == <<"void">>
IntPtr == <<"ptr", IntT>>
NullP == <<"null", IntPtr>>
Done == <<"return", Void>>

\* The functions of the library.
If(e) == <<"if", e, 2, 3>>
End == << <<>>, Done>>
Put1(ss) == <<ss, <<"goto", 3>>>>
Blocks0 == [
  gen  |-> << << <<Do("main", <<R("gs"), R("gd")>>)>>, Done>> >>,
  inc  |-> << << <<Let(V("G"), Add(R("G"), R("inc_n")))>>, Done>> >>,
  get  |-> << << <<>>, <<"return", Add(R("G"), N(1))>> >> >>,
  set  |-> << << <<Let(R("set_q"), R("set_v"))>>, Done>> >>,
  pick |-> << << <<>>, If(R("pick_u"))>>, << <<>>, <<"return", N(1)>> >>, << <<>>, <<"return", N(2)>> >> >>,
  \* sets G and its result on two paths
  both |-> << << <<>>, If(R("both_u"))>>, << <<Let(V("G"), N(3)), Let(V("both_r"), N(4))>>, <<"goto", 4>> >>,
              << <<Let(V("G"), N(5)), Let(V("both_r"), N(6))>>, <<"goto", 4>> >>, << <<>>, <<"return", R("both_r")>> >> >>,
  \* one test inside another
  nest |-> << << <<>>, <<"if", R("nest_u"), 2, 5>> >>, << <<>>, <<"if", R("nest_v"), 3, 4>> >>, << <<Let(V("G"), N(3))>>, Done>>,
              << <<Let(V("G"), N(5))>>, Done>>, End>>,
  \* dynamic tests in front of what is done to a variable of the caller
  upd  |-> << << <<>>, If(R("upd_v"))>>, Put1(<<Let(R("upd_q"), R("upd_v"))>>), End>>,
  read |-> << << <<>>, If(R("read_v"))>>, << <<>>, <<"return", At0(R("read_q"))>> >>, << <<>>, <<"return", N(0)>> >> >>,
  mem  |-> << << <<>>, If(R("mem_v"))>>, Put1(<<Let(<<"member", R("mem_t"), 2>>, R("mem_v"))>>), End>>,
  elem |-> << << <<>>, If(R("elem_v"))>>, Put1(<<Let(<<"arith", <<"array", R("elem_b")>>, N(1)>>, R("elem_v"))>>), End>>,
  same |-> << << <<>>, If(R("same_v"))>>, << <<>>, <<"return", Same(R("same_q"), R("same_r"))>> >>, << <<>>, <<"return", N(2)>> >> >>,
  opt  |-> << << <<>>, If(R("opt_q"))>>, Put1(<<Let(R("opt_q"), R("opt_v"))>>), End>>,
  \* static effects and dynamic ones
  tick |-> << << <<Let(V("G"), Add(R("G"), N(1)))>>, If(R("tick_v"))>>, Put1(<<Let(Index("A", N(0)), R("tick_v"))>>), End>>,
  four |-> << << <<>>, If(R("four_v"))>>, Put1(<<Let(Index("A", N(0)), R("four_v"))>>), << <<>>, <<"return", N(4)>> >> >>,
  make |-> << << << <<"alloc", V("Q"), N(2), "h2", IntT>> >>, If(R("make_v"))>>, Put1(<<Let(R("Q"), R("make_v"))>>), End>>,
  \* a static loop with a dynamic test
  loop |-> << << <<>>, If(R("loop_n"))>>, << <<Let(V("loop_n"), Add(R("loop_n"), N(7)))>>, <<"if", R("loop_v"), 4, 1>> >>, End,
              << <<Let(V("G"), Add(R("G"), R("loop_v")))>>, <<"goto", 1>> >> >>,
  \* dynamic recursion, with the address of a local variable
  rec  |-> << << <<Let(V("rec_l"), R("rec_n"))>>, If(R("rec_n"))>>,
              << <<Do("rec", <<Add(R("rec_n"), N(7)), V("rec_l")>>), Let(R("rec_q"), Add(At0(R("rec_q")), R("rec_l")))>>, Done>>, End>>,
  \* static recursion
  pow  |-> << << <<>>, If(R("pow_n"))>>,
              << <<Get(V("pow_r"), "pow", <<Add(R("pow_n"), N(7)), R("pow_x")>>)>>, <<"return", <<"bin", "*", R("pow_r"), R("pow_x")>> >> >>,
              << <<>>, <<"return", N(1)>> >> >>,
  new  |-> << << << <<"alloc", V("new_p"), N(1), "h1", IntT>>, Let(R("new_p"), R("new_v"))>>, <<"return", R("new_p")>> >> >>]
Params0 == [gen |-> <<"gs", "gd">>, main |-> <<"s", "d">>, inc |-> <<"inc_n">>, get |-> <<>>, set |-> <<"set_q", "set_v">>,
  pick |-> <<"pick_u">>, both |-> <<"both_u">>, nest |-> <<"nest_u", "nest_v">>, upd |-> <<"upd_q", "upd_v">>,
  read |-> <<"read_q", "read_v">>, mem |-> <<"mem_t", "mem_v">>, elem |-> <<"elem_b", "elem_v">>, same |-> <<"same_q", "same_r", "same_v">>,
  opt |-> <<"opt_q", "opt_v">>, tick |-> <<"tick_v">>, four |-> <<"four_v">>, make |-> <<"make_v">>, loop |-> <<"loop_n", "loop_v">>,
  rec |-> <<"rec_n", "rec_q">>, pow |-> <<"pow_n", "pow_x">>, new |-> <<"new_v">>]
Ret0(f) == IF f \in {"get", "pick", "both", "read", "same", "four", "pow"} THEN IntT ELSE IF f = "new" THEN IntPtr ELSE Void
Locals0 == [gen |-> {}, main |-> {"x", "y", "p", "r", "b", "t"}, both |-> {"both_r"}, rec |-> {"rec_l"}, pow |-> {"pow_r"}, new |-> {"new_p"},
            global |-> {"G", "A", "Q"}, heap |-> {"h", "h1", "h2"}]

Own(f) == (IF f \in DOMAIN Params0 THEN Range(Params0[f]) ELSE {}) \cup (IF f \in DOMAIN Locals0 THEN Locals0[f] ELSE {})
Typed(x) ==
  CASE x \in {"p", "r", "Q", "set_q", "upd_q", "read_q", "same_q", "same_r", "opt_q", "rec_q", "new_p"} -> IntPtr
    [] x \in {"A", "b", "h", "h2"} -> <<"arr", 2, IntT>> [] x = "h1" -> <<"arr", 0, IntT>> [] x = "elem_b" -> <<"ptr", <<"arr", 2, IntT>>>>
    [] x = "t" -> <<"struct", "T">> [] x = "mem_t" -> <<"ptr", <<"struct", "T">>>> [] OTHER -> IntT

RECURSIVE Used(_)
Used(S) ==
  LET calls(f) == {st[3][2] : st \in {q \in UNION {Range(Blocks0[f][b][1]) : b \in DOMAIN Blocks0[f]} : q[1] = "call" /\ q[3][1] = "fun"}} \ {"main"}
      new == UNION {calls(f) : f \in S} \ S
  IN  IF new = {} THEN S ELSE Used(S \cup new)

\* A program around the blocks of main.
Program(blocks) ==
  LET calls == {st[3][2] : st \in {q \in UNION {Range(blocks[b][1]) : b \in DOMAIN blocks} : q[1] = "call" /\ q[3][1] = "fun"}}
      funs  == {"gen", "main"} \cup Used(calls)
      owner == [x \in UNION {Own(f) : f \in funs \cup {"global", "heap"}} |-> CHOOSE f \in funs \cup {"global", "heap"} : x \in Own(f)]
  IN [types |-> [x \in DOMAIN owner |-> Typed(x)], structs |-> [T |-> <<IntT, IntT>>], owner |-> owner,
      params |-> [f \in funs |-> Params0[f]], ret |-> [f \in funs |-> Ret0(f)],
      blocks |-> [f \in funs |-> IF f = "main" THEN blocks ELSE Blocks0[f]],
      init |-> [A |-> <<"braced", "arr", <<<<"simple", N(6)>>, <<"simple", N(7)>>>>>>],
      residual |-> {"gd"}]

Entry == <<Let(V("Q"), <<"array", V("A")>>), Let(V("x"), N(0)), Let(V("y"), N(0)), Let(V("p"), V("x")), Let(V("r"), NullP), Let(Index("b", N(0)), N(0)), Let(Index("b", N(1)), N(0)),
           Let(Field("t", 1), N(0)), Let(Field("t", 2), N(0))>>
Finish == <<Show(R("x")), Show(R("y")), Show(R("G")), Show(At0(R("p"))), Show(At0(Index("A", N(0)))), Show(At0(Index("A", N(1)))), Show(At0(R("Q"))),
           Show(At0(Index("b", N(1)))), Show(At0(Field("t", 1))), Show(At0(Field("t", 2)))>>

Simple == <<
  Let(V("x"), R("s")), Let(V("x"), R("d")), Let(V("y"), Add(R("x"), N(1))), Let(V("G"), R("x")), Let(V("p"), V("y")), Let(V("p"), V("G")),
  Let(R("p"), N(3)), Let(R("p"), R("d")), Let(Index("A", R("s")), R("d")), Let(Index("A", R("s")), N(2)), Let(V("y"), At0(Index("A", R("s")))),
  Let(V("p"), Index("A", R("s"))), Let(V("p"), Index("b", N(1))), Let(Index("b", R("s")), R("d")), Let(Index("A", Less(R("d"), N(1))), N(5)),
  Do("inc", <<R("s")>>), Do("inc", <<R("d")>>), Get(V("x"), "get", <<>>), Do("set", <<V("y"), R("d")>>), Do("set", <<V("y"), R("s")>>),
  Do("set", <<R("p"), N(1)>>), Get(V("y"), "pick", <<R("d")>>), Get(V("y"), "pick", <<R("s")>>), Get(V("x"), "both", <<R("s")>>),
  Get(V("x"), "both", <<R("d")>>), Do("rec", <<R("d"), V("y")>>), Do("rec", <<R("d"), V("G")>>), Get(V("y"), "pow", <<R("s"), R("d")>>),
  Get(V("p"), "new", <<R("s")>>), Get(V("p"), "new", <<R("d")>>), <<"alloc", V("p"), N(2), "h", IntT>>, Let(V("Q"), V("x")), Let(R("Q"), N(4)),
  Let(V("Q"), R("p")), Let(Field("t", 1), R("d")), Let(Field("t", 2), R("s")), Let(V("p"), Field("t", 2)), Let(V("p"), Field("t", 1)),
  <<"call", V("x"), <<"ext", "sq">>, <<R("s")>>>>, <<"call", V("y"), <<"ext", "sq">>, <<R("d")>>>>, Show(R("x")), Let(V("y"), Less(At0(R("Q")), N(1))),
  Do("upd", <<V("y"), R("d")>>), Do("upd", <<R("p"), R("d")>>), Get(V("x"), "read", <<V("y"), R("d")>>), Do("mem", <<V("t"), R("d")>>),
  Do("elem", <<V("b"), R("d")>>), Get(V("y"), "same", <<V("y"), R("Q"), R("d")>>), Do("nest", <<R("d"), R("s")>>), Do("opt", <<V("y"), R("d")>>),
  Let(V("r"), V("y")), Do("opt", <<R("r"), R("d")>>), Do("opt", <<R("Q"), N(1)>>), Do("tick", <<R("d")>>), Let(V("G"), N(0)), Get(V("x"), "four", <<R("d")>>), Do("make", <<R("d")>>),
  Do("loop", <<R("s"), R("d")>>), <<"alloc", V("Q"), Add(R("d"), N(1)), "h", IntT>>
>>
Tests == <<R("s"), R("d"), And(R("s"), R("d")), Or(R("d"), R("s")), And(R("d"), Less(R("x"), N(1))), Same(R("p"), V("x")), Less(At0(R("p")), R("d"))>>

S(i) == IF i = 0 THEN <<>> ELSE <<Simple[i]>>
\* One statement, a test with a statement in either branch, and one more.
Main(name) ==
  << <<Entry \o S(name[1]), <<"if", Tests[name[2]], 2, 3>> >>,
     <<S(name[3]), <<"goto", 4>> >>, <<S(name[4]), <<"goto", 4>> >>,
     <<S(name[5]) \o Finish, Done>> >>
Statement == 1 .. Len(Simple)
\* A third of the pairs of a statement and one under dynamic control, and some
\* of the programs with a statement at each place.
Couples == UNION {{<<i, 2, j, 0, 0>> : i, j \in {k \in Statement : k % 3 = c}} : c \in 0 .. 2}
Some  == {<<(k * 17) % 60, 1 + (k % 7), (k * 5 + k \div 7) % 60, (k * 11 + k \div 60) % 60, (k * 29 + k \div 5) % 60>> : k \in 1 .. 300}
MCPrograms == [n \in Couples \cup Some |-> Program(Main(n))]
MCStatics == {0, 1}
MCDynamics == {0, 1}

C == INSTANCE Congruence WITH
       Programs <- MCPrograms, Statics_ <- MCStatics, Dynamics <- MCDynamics,
       program <- coProgram, phase <- coPhase

----------------------------------------------------------------------------
IdlePa == program = {} /\ Init
IdleBt == btProgram = {} /\ BTInit
IdleCo ==
  /\ coProgram = "" /\ coPhase = "" /\ dynamic = "" /\ input = "" /\ generated = "" /\ outputs = ""

AnalysesInit ==
  \/ which = "pointsto" /\ Init /\ IdleBt /\ IdleCo
  \/ which = "bindingtimes" /\ BTInit /\ IdlePa /\ IdleCo
  \/ which = "congruence" /\ C!Init /\ IdlePa /\ IdleBt

PointsToStep     == which = "pointsto" /\ Next /\ UNCHANGED <<which, btvars, co>>
BindingTimesStep == which = "bindingtimes" /\ BTNext /\ UNCHANGED <<which, vars, co>>
CongruenceStep   == which = "congruence" /\ C!Next /\ UNCHANGED <<which, vars, btvars>>

all == <<which, vars, btvars, co>>
AnalysesSpec ==
  /\ AnalysesInit /\ [][PointsToStep \/ BindingTimesStep \/ CongruenceStep]_all
  /\ WF_all(BindingTimesStep)

\* The residual program does to every dynamic input what the program does to it
\* together with the static input it was generated for.
ResidualBehaves == which = "congruence" => C!ResidualBehaves

\* At whatever exit, what the caller of a generating function sees of the static state,
\* and the static value it is returned, is the same.
ExitsAgree == which = "congruence" => C!ExitsAgree
=============================================================================
