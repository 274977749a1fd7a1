---------------------------- MODULE MCRendering ----------------------------
EXTENDS Rendering

Id == {"a", "b", "c", "f", "g", "p", "s", "m", "n", "x", "l", "S", "E", "A", "B", "NULL", "free", "stdout", "L1", "L2", "L3"}
V(n) == <<"Var", n>>
K(n) == <<"Const", n>>
IntT == <<"base", {}, "int">>
ConstInt == <<"base", {"const"}, "int">>
Struct == <<"user", {}, "struct", "S">>
Ptr(t) == <<"ptr", {}, t>>
Arr(n, t) == <<"array", {}, n, t>>
Fun(ps, v, t) == <<"fun", {}, ps, v, t>>

(* Expressions: every operator over operands that are each built with one operator. *)
Operators == {"*", "+", "-", "<<", "<", "==", "&", "|", "&&", "||"}
LValue(e) == e[1] \in {"Var", "Array", "Dot"} \/ (e[1] = "Unary" /\ e[2] = "*")
Sound(e) ==
  CASE e[1] \in {"Assign", "Pre", "Post"} -> LValue(e[3])
    [] e[1] = "Unary" /\ e[2] = "&" -> LValue(e[3])
    [] OTHER -> TRUE
Build(L, R) ==
  {e \in UNION {{<<"Unary", o, r>> : o \in {"-", "*", "&", "!"}, r \in L},
                {<<o, "--", r>> : o \in {"Pre", "Post"}, r \in L},
                {<<"Binary", o, r, q>> : o \in Operators, r \in L, q \in R},
                {<<"Cond", r, q, K("1")>> : r \in L, q \in R} \union {<<"Cond", V("a"), r, q>> : r \in L, q \in R},
                {<<"Call", r, <<q>>>> : r \in L, q \in R} \union {<<"Call", V("f"), <<>>>>},
                {<<"Array", r, q>> : r \in L, q \in R}, {<<"Dot", r, "m">> : r \in L},
                {<<"Cast", t, r, s>> : t \in {IntT}, r \in L, s \in BOOLEAN}, {<<"ExprSize", r>> : r \in L},
                {<<"Comma", r, q>> : r \in L, q \in R}, {<<"Assign", "=", r, q>> : r \in L, q \in R}} :
     Sound(e) /\ ~Departs(e)}
One == Build({V("a")}, {K("1")})
Expressions == Build(One, One) \union {<<"TypeSize", Ptr(IntT)>>, <<"Binary", "*", <<"TypeSize", IntT>>, <<"Null">>>>}

CoreAtoms == {<<"C_Var", "a">>, <<"C_Cnst", "1">>, <<"C_FunAdr", "f">>, <<"C_Null">>}
CoreBuild(L, R) ==
  {e \in UNION {{<<o, r>> : o \in {"C_DeRef", "C_Array", "C_SizeofE"}, r \in L}, {<<"C_Member", r, "m">> : r \in L},
                {<<"C_Unary", o, r>> : o \in {"-", "!"}, r \in L}, {<<"C_Cast", ConstInt, r>> : r \in L},
                {<<"C_Binary", o, r, q>> : o \in {"*", "-", "<<", "==", "|"}, r \in L, q \in R},
                {<<"C_PtrArith", o, r, q>> : o \in {"+", "-"}, r \in L, q \in R}, {<<"C_PtrCmp", "<", r, q>> : r \in L, q \in R}} :
     ~CoreDeparts(e)}
CoreOne == CoreAtoms \union CoreBuild({<<"C_Var", "a">>, <<"C_Cnst", "1">>}, {<<"C_Cnst", "1">>})
CoreExpressions == CoreBuild(CoreOne, CoreOne) \union {<<"C_SizeofT", Ptr(Ptr(ConstInt))>>}

(* Types of objects, three derivations deep *)
Bases == {<<"base", cv, "int">> : cv \in {{}, {"const"}, {"const", "volatile"}}}
         \union {<<"base", {}, "unsigned short int">>, <<"abstract", {"volatile"}, "T">>, <<"user", {"const"}, "struct", "S">>}
Derived(ts) ==
  {<<"ptr", cv, t>> : cv \in {{}, {"const"}}, t \in ts}
  \union {Arr(n, t) : n \in {Nothing, K("2")}, t \in {t \in ts : t[1] # "fun" /\ (t[1] = "array" => t[3] # Nothing)}}
  \union {Fun(<<p>>, v, t) : p \in {IntT, Ptr(ConstInt)}, v \in BOOLEAN, t \in {t \in ts : t[1] \notin {"fun", "array"}}}
ObjectTypes == LET one == Derived(Bases) two == Derived(one)
         IN {t \in Bases \union one \union two \union Derived({u \in two : u[3] \in one /\ u[3][1] # "base"}) : t[1] # "fun"}
RECURSIVE Shown(_), CoreShown(_)
\* outcpgm.cc puts the qualifiers of a pointer in front of its star
Shown(t) ==
  CASE t[1] = "ptr" -> t[2] = {} /\ Shown(t[3])
    [] t[1] = "array" -> Shown(t[4])
    [] t[1] = "fun" -> Shown(t[5])
    [] OTHER -> TRUE
\* outcore.cc leaves out the ellipsis of a function type
CoreShown(t) ==
  CASE t[1] = "ptr" -> CoreShown(t[3])
    [] t[1] = "array" -> CoreShown(t[4])
    [] t[1] = "fun" -> ~t[4] /\ CoreShown(t[5])
    [] OTHER -> TRUE

(* Statements *)
Simple == {<<"Expr", V("a")>>, <<"Dummy">>, <<"Break">>, <<"Cont">>, <<"Goto", "l">>, <<"Return", Nothing>>,
           <<"Return", <<"Comma", V("a"), V("b")>>>>}
Nested(ss) ==
  UNION {{<<"Label", "l", s>> : s \in ss}, {<<"Case", K("1"), s>> : s \in ss}, {<<"Default", s>> : s \in ss},
         {<<"If", V("a"), s, t>> : s \in ss, t \in ss}, {<<"Switch", V("a"), s>> : s \in ss},
         {<<"While", V("a"), s>> : s \in ss}, {<<"Do", V("a"), s>> : s \in ss},
         {<<"For", e, Nothing, e, s>> : e \in {Nothing, <<"Assign", "=", V("a"), K("1")>>}, s \in ss},
         {<<"Compound", ds, <<s>>>> : ds \in {<<>>, << <<"Decl", "static", "x", IntT, <<"Elem", K("1")>>>> >>}, s \in ss}}
Statements == LET one == Nested({<<"Expr", V("a")>>, <<"Dummy">>}) IN Simple \union Nested(Simple) \union Nested(one)

(* Programs *)
Decl(storage, n, t, init) == <<"Decl", storage, n, t, init>>
Body == <<"Compound", <<Decl("", "x", IntT, Nothing)>>, << <<"Return", V("x")>> >>>>
Programs ==
  {<<Decl(storage, "x", t, Nothing)>> : storage \in {"", "static", "extern", "typedef"}, t \in {t \in ObjectTypes : Shown(t)}}
  \union {<< <<"Type", "struct", "S", Nothing>>, <<"Type", "union", "S", << <<"m", IntT, K("3")>>, <<"n", t, Nothing>> >>>>,
             <<"Type", "enum", "E", << <<"A", Nothing>>, <<"B", K("2")>> >>>>,
             Decl("extern", "stdout", Ptr(IntT), Nothing), Decl("", "x", Arr(Nothing, IntT), <<"List", << <<"Elem", K("1")>>, <<"List", << <<"Elem", K("2")>> >>>> >>>>),
             <<"FunDef", "", "f", Fun(<<t, IntT>>, FALSE, Ptr(Struct)), <<"p", "a">>, Body>>,
             <<"FunDef", "", "g", Fun(<<>>, TRUE, IntT), <<>>, Body>> >> : t \in {Ptr(Arr(K("2"), IntT)), Ptr(Ptr(Struct))}}

At_(e) == <<"C_DeRef", e>>
Blocks == << <<1, << <<"C_Assign", <<"C_Member", <<"C_Var", "s">>, "m">>, <<"C_Binary", "+", At_(<<"C_Var", "a">>), <<"C_Cnst", "1">>>>>>, <<"C_Sequence">>,
                     <<"C_Call", <<"C_PtrArith", "+", <<"C_Array", <<"C_Var", "b">>>>, <<"C_Cnst", "1">>>>,
                       At_(<<"C_Member", At_(<<"C_Var", "p">>), "m">>), <<At_(<<"C_Var", "a">>), <<"C_Var", "a">>>>>> >>, <<"C_If", At_(<<"C_Var", "a">>), 2, 3>>>>,
             <<2, << <<"C_Call", Nothing, <<"C_ExtFun", "g">>, <<>>>>, <<"C_Free", Nothing, At_(<<"C_Var", "p">>)>> >>, <<"C_Goto", 3>>>>,
             <<3, <<>>, <<"C_Return", At_(<<"C_Var", "a">>)>>>> >>
CorePrograms ==
  {<< <<"Var", storage, <<"x", t, Nothing>>>> >> : storage \in {"", "static", "extern"}, t \in {t \in ObjectTypes : CoreShown(t)}}
  \union {<< <<"Type", "enum", "E", << <<"A", Nothing>>, <<"B", <<"C_Cnst", "2">>>> >>>>,
             <<"Type", "struct", "S", << <<"m", t, Nothing>>, <<"n", ConstInt, Nothing>> >>>>,
             <<"Var", "static", <<"x", Arr(K("2"), IntT), <<"Braced", << <<"Simple", <<"C_Cnst", "1">>>>, <<"String", "str">> >>>>>>>>,
             <<"Fun", "f", << <<"a", t, Nothing>>, <<"p", <<"ptr", {"const"}, ConstInt>>, Nothing>> >>, v, r, << <<"s", Struct, Nothing>>, <<"b", Arr(K("2"), t), Nothing>> >>, Blocks>> >> :
           t \in {Ptr(Fun(<<IntT>>, FALSE, Ptr(IntT))), <<"ptr", {"volatile"}, ConstInt>>}, r \in {IntT, Ptr(Arr(K("2"), ConstInt))}, v \in BOOLEAN}

(* Specifiers: up to three names of types with a qualifier and a storage class among them *)
SpecifierLists ==
  {s \in UNION {[1..n -> BasicNames \union {"const", "static", "extern"}] : n \in 1..3} :
     IsInjective(s) /\ ToSet(s) \intersect BasicNames # {}}
  \union {<<"const", "long", "static", "double">>, <<"int", "volatile", "unsigned", "extern", "short">>}

MCCases ==
  {<<"expression", e>> : e \in Expressions} \union {<<"statement", s>> : s \in Statements}
  \union {<<"program", p>> : p \in Programs} \union {<<"core expression", e>> : e \in CoreExpressions}
  \union {<<"core program", p>> : p \in CorePrograms} \union {<<"specifiers", s>> : s \in SpecifierLists}
=============================================================================
