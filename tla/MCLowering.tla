----------------------------- MODULE MCLowering -----------------------------
EXTENDS Lowering

MCAddress == [x |-> 1, y |-> 2, p |-> 3, a |-> 4, g |-> 7, heap |-> 8, r |-> 9]
\* p points to the first of three consecutive objects a
MCCode == [f |-> 60, h |-> 61, malloc |-> 62, calloc |-> 63, free |-> 64]
Memory == (1 :> 0 @@ 2 :> 2 @@ 3 :> 4 @@ 4 :> 5 @@ 5 :> 0 @@ 6 :> 7 @@ 7 :> 1 @@ 8 :> 1 @@ 9 :> 0)
MCStarts == {Memory, [Memory EXCEPT ![1] = 2, ![2] = 0]}

Num(n) == <<"num", n>>
Var(x) == <<"var", x>>
Call(f, es) == <<"call", <<"fun", f>>, es>>
Bin(o, a, b) == <<"op", o, a, b>>
Asgn(a, b) == <<"asgn", a, b>>
Inc(e) == <<"post", "+", e>>
X == Var("x")
Y == Var("y")
P == Var("p")

Operands == {
  Num(0), X, Y, Inc(X), <<"pre", "-", Y>>, Asgn(X, Num(2)), <<"opasgn", "+", Y, Num(3)>>,
  Call("f", <<X>>), Call("h", <<>>), <<"deref", Inc(P)>>, Bin("<", X, Y), <<"not", Y>>,
  <<"comma", Inc(X), X>>, <<"cond", X, Inc(Y), Call("h", <<>>)>>, <<"index", P, Inc(X)>>}

\* what is made of one or two operands
Unary(e) == {<<"not", e>>, <<"not", <<"not", e>>>>, <<"neg", e>>, <<"pos", e>>, <<"cast", e>>, <<"cast", <<"cast", e>>>>,
             Asgn(Y, e), <<"opasgn", "+", Var("r"), e>>, Call("f", <<e>>), <<"sizeofE", e>>,
             Asgn(<<"deref", Inc(P)>>, e), Asgn(<<"index", P, Num(1)>>, e)}
Binary(a, b) == {Bin("+", a, b), Bin("<", a, b), <<"and", a, b>>, <<"or", a, b>>, <<"comma", a, b>>,
                 <<"not", <<"and", a, b>>>>, <<"cond", a, b, Num(4)>>}

Expressions ==
  UNION {Unary(e) : e \in Operands}
  \cup UNION {Binary(a, b) : a \in Operands, b \in Operands}

Expr1(e) == <<"expr", e>>
Block(ss) == <<"block", ss>>
Ret(e) == <<"return", e>>


\* Statements: jumps in and out of everything, empty bodies, loops of jumps
\* only, and tests and initializers with side effects.
S(e) == Expr1(e)
Set(n) == S(Asgn(Var("r"), Bin("+", Bin("*", Var("r"), Num(3)), Num(n))))
If(e, a, b) == <<"if", e, a, b>>
Skip == <<"skip">>
Break == <<"break">>
Continue == <<"continue">>
GoTo(l) == <<"goto", l>>
At1(l, s) == <<"label", l, s>>
Case(k, s) == <<"case", k, s>>
Default(s) == <<"default", s>>
Dec == <<"post", "-", Y>>
RetR == Ret(Var("r"))

Tests == {Dec, <<"and", Dec, Asgn(X, Num(1))>>, <<"or", Bin("<", Inc(X), Num(2)), Dec>>, <<"not", Bin("<", Inc(X), Y)>>,
          <<"comma", Inc(X), Dec>>, <<"cond", X, Num(0), Call("f", <<Dec>>)>>}
Bodies == {Skip, Set(1), Break, Block(<<If(X, Continue, Skip), Set(1)>>), Block(<<If(Inc(X), Break, Set(2)), Set(1)>>)}

Loops(e, b) == {<<"while", e, b>>, <<"do", e, b>>, <<"for", e, b, Inc(X), Asgn(X, Num(0))>>, <<"for", e, b, <<>>, <<>>>>}

Switches(e) == {
  <<"switch", e, Block(<<Case(0, Set(1)), Case(2, Block(<<Set(2), Break>>)), Default(Set(3)), Case(1, Case(3, Set(4)))>>)>>,
  <<"switch", e, Block(<<Set(9), Case(2, Skip)>>)>>,
  <<"switch", e, Case(1, <<"while", Dec, Block(<<Set(1), Case(2, Set(2)), If(Inc(X), Break, Skip)>>)>>)>>,
  <<"while", Dec, <<"switch", e, Block(<<Case(1, Continue), Default(Break), Case(0, Set(2))>>)>>>>,
  <<"switch", e, Skip>>, <<"switch", e, Default(Skip)>>}

Knots == {
  <<At1("a", GoTo("b")), At1("b", GoTo("a"))>>,
  <<GoTo("b"), At1("a", GoTo("b")), Set(1), At1("b", GoTo("a"))>>,
  <<If(X, GoTo("a"), Skip), Set(1), At1("a", Set(2)), RetR>>,
  <<At1("a", If(Dec, Block(<<Set(1), GoTo("a")>>), Skip)), RetR>>,
  <<GoTo("b"), At1("a", Set(1)), RetR, At1("b", If(Y, GoTo("a"), GoTo("a")))>>,
  <<<<"while", Dec, Block(<<If(X, GoTo("c"), Skip), S(Inc(X))>>)>>, At1("c", Skip), RetR>>,
  <<GoTo("c"), <<"while", Dec, At1("c", Block(<<Set(1), If(Inc(X), GoTo("d"), Skip)>>))>>, At1("d", RetR)>>,
  <<At1("a", Skip), At1("b", <<"for", <<>>, Skip, <<>>, <<>>>>)>>,
  <<<<"for", <<>>, If(Dec, Skip, Break), Inc(X), <<>>>>, RetR>>,
  <<At1("a", At1("b", Skip)), If(Dec, GoTo("a"), Skip), If(Dec, GoTo("b"), RetR)>>,
  <<GoTo("a"), At1("c", GoTo("d")), At1("b", GoTo("c")), At1("a", GoTo("b")), At1("d", Set(1)), RetR>>,
  <<GoTo("d"), At1("d", GoTo("c")), At1("c", If(Dec, GoTo("b"), GoTo("d"))), At1("b", RetR)>>}

Locals == {
  <<<<"decl", "x", e>>, <<"init", "a", 3>>, Set(1), <<"init", "y", 6>>, <<"decl", "r", Bin("+", e, Y)>>, RetR>> :
    e \in {Num(1), Y, Inc(Y), Call("f", <<Y>>)}}
  \cup {<<<<"while", Dec, Block(<<<<"init", "x", 1>>, S(Asgn(Var("r"), Bin("+", Var("r"), Inc(X))))>>)>>, RetR>>}

SizeofT == <<"sizeofT", 3>>
Sizes == {SizeofT, Bin("*", Num(5), SizeofT), Bin("*", SizeofT, X), Bin("*", Bin("*", Y, SizeofT), Bin("+", X, Num(2))),
          Bin("*", Num(2), <<"cast", Bin("*", Num(1), SizeofT)>>), Bin("*", SizeofT, SizeofT), Bin("+", SizeofT, Num(1)), Inc(Y)}
Allocs == {Call("malloc", <<e>>) : e \in Sizes} \cup {Call("calloc", <<a, b>>) : a \in {Num(2), SizeofT}, b \in Sizes}

MCPrograms ==
  {Ret(e) : e \in Expressions}
  \cup {S(e) : e \in UNION {Binary(a, b) : a \in Operands, b \in {Num(0), Inc(X), Call("h", <<>>), Asgn(Y, X)}}}
  \cup {Block(<<s, RetR>>) : s \in UNION {Loops(e, b) : e \in Tests, b \in Bodies}}
  \cup {Block(<<s, RetR>>) : s \in UNION {Switches(e) : e \in {X, Y, Inc(Y), Call("f", <<Dec>>), Bin("+", X, Y)}}}
  \cup {Block(<<If(e, Set(1), s), RetR>>) : e \in Tests, s \in {Skip, Set(2), <<"return">>}}
  \cup {Block(ss) : ss \in Knots \cup Locals}
  \cup {S(Asgn(X, e)) : e \in Allocs} \cup {S(<<"cast", e>>) : e \in Allocs}
  \cup {S(Call("free", <<e>>)) : e \in {P, <<"addr", X>>, <<"index", P, Inc(X)>>}}
  \cup {S(<<"void", e>>) : e \in {Inc(X), Asgn(X, Y), <<"and", X, Inc(Y)>>, <<"member", <<"deref", Inc(P)>>, 1>>}}
  \cup {S(Asgn(<<"member", <<"deref", <<"comma", Inc(P), P>>>>, 1>>, Inc(X)))}
  \cup {S(Call("f", <<e>>)) : e \in {<<"addr", <<"deref", Inc(P)>>>>, Bin("+", Call("h", <<>>), Call("h", <<>>))}}
  \cup {S(<<"call", e, <<Inc(X)>>>>) : e \in {<<"comma", Inc(Y), <<"fun", "f">>>>, <<"cond", Y, <<"fun", "f">>, <<"fun", "h">>>>}}
=============================================================================
