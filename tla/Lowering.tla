------------------------------ MODULE Lowering ------------------------------
(***************************************************************************)
(* The translation of a function body from C to Core C (c2core.cc).        *)
(* Expressions with side effects become statements; statements become a    *)
(* graph of atoms, and a depth-first search collects the atoms in basic    *)
(* blocks, which is where the predecessor counts of the atoms are used.    *)
(* An expression or statement of C is a tuple, see CSemantics.             *)
(*                                                                         *)
(* The translation of expressions and statements is a function of the      *)
(* text.  It yields the atoms it has made and the list of links it makes   *)
(* between them; the links are then made one by one, part by part of the   *)
(* text.  An atom is named by where in the text it was made.  Types are    *)
(* reduced to one that is narrow and all others.                           *)
(***************************************************************************)
EXTENDS CSemantics, SequencesExt

CONSTANTS
  Programs,    \* function bodies
  Starts,      \* the memories they start with: address |-> value
  Limit        \* jumps backwards that are executed, at most

VARIABLES
  program,     \* the body that is translated
  phase,       \* "link", "collect", "done"
  atom,        \* name |-> the atom
  first,       \* the atom where the function starts
  log,         \* the links still to be made
  next,        \* name |-> the next atom, or None
  count,       \* name |-> predecessor_count
  status,      \* of the GotoAtoms
  stack,       \* atoms that lead a block, and are to be collected
  started,     \* atoms that lead a block
  block,       \* atom that leads a block |-> the block
  placed       \* pairs <<atom, block>>: the atom was emitted into the block

vars == <<program, phase, atom, first, log, next, count, status, stack, started, block, placed>>

None == <<>>

(***************************************************************************)
(* Intervals: class Interval.  at is the set of their atoms, as a          *)
(* function, lk the links made so far; a link from None stands for the     *)
(* predecessor that an IfAtom adds to its branches.                        *)
(***************************************************************************)
Nothing == [b |-> None, e |-> None, at |-> <<>>, lk |-> <<>>]
Single(id, a) == [b |-> id, e |-> id, at |-> id :> a, lk |-> <<>>]
Stopping(id, a) == [Single(id, a) EXCEPT !.e = None]
To(id) == [Nothing EXCEPT !.b = id]

Then(I, J) ==
  [b |-> IF I.b = None THEN J.b ELSE I.b,
   e |-> IF I.b # None /\ J.b = None THEN I.e ELSE J.e,
   at |-> I.at @@ J.at,
   lk |-> I.lk \o J.lk \o (IF None \in {I.b, I.e, J.b} THEN <<>> ELSE <<<<I.e, J.b>>>>)]

Joined(Is) == FoldLeft(Then, Nothing, Is)
Forced(I, p) == IF I.b # None THEN I ELSE Single(<<p, 0, "f">>, <<"goto">>)

\* the name of a new atom, made for the expression at p with the code I
Fresh(I, p, kind) == <<p, Cardinality(DOMAIN I.at), kind>>
AddStmt(I, p, st) == Then(I, Single(Fresh(I, p, "s"), <<"stmt", st>>))
AddStmts(I, p, ss) == FoldLeft(LAMBDA J, st : AddStmt(J, p, st), I, ss)
\* make the links lk after those of I, and take over the atoms of Js
With(I, Js, lk) ==
  [I EXCEPT !.at = FoldLeft(LAMBDA f, J : f @@ J.at, @, Js),
            !.lk = FoldLeft(LAMBDA l, J : l \o J.lk, @, Js) \o lk]

(***************************************************************************)
(* The translation of an expression: struct ExprTrans.  s holds the        *)
(* statements to be executed after the expression (VALUE, PLACE), or the   *)
(* names of those that wait for their target (STATEMENTS); om is omega0.   *)
(* A statement is <<"assign", target, expr>>, <<"call", target, f, args>>, *)
(* <<"alloc", target, bytes of an element, length>> or <<"free", expr>>.   *)
(***************************************************************************)
Trans(p, tag, I, e, ss) == [p |-> p, tag |-> tag, I |-> I, e |-> e, s |-> ss, om |-> None, narrow |-> FALSE]

Dereference(r) == [r EXCEPT !.e = <<"deref", @>>, !.tag = "VALUE"]

SetLeft(r, e) ==
  [r EXCEPT !.I.at = [i \in DOMAIN @ |-> IF Contains(r.s, i) THEN [@[i] EXCEPT ![2][2] = e] ELSE @[i]],
            !.s = <<>>, !.tag = "IGNORED"]

Tempvar(r) ==
  LET t == <<"tmp", Fresh(r.I, r.p, "t")>>
  IN [SetLeft(r, t) EXCEPT !.e = t, !.tag = "PLACE"]

ZeroOne(r) ==
  LET z == Fresh(r.I, r.p, "0")
      o == Fresh(r.I, r.p, "1")
      g == Fresh(r.I, r.p, "g")
      assign(n) == <<"stmt", <<"assign", None, <<"num", n>>>>>>
  IN [r EXCEPT !.I = [With(@, <<Single(z, assign(0)), Single(o, assign(1)), Single(g, <<"goto">>)>>,
                           <<<<r.om, z>>, <<r.I.e, o>>, <<z, g>>, <<o, g>>>>) EXCEPT !.e = g],
               !.s = <<z, o>>, !.om = None, !.tag = "STATEMENTS", !.narrow = FALSE]

\* Variant with a defect: what is to be done after the expression is done before it.
AssgnGen_late(r) ==
  LET I == AddStmts(r.I, r.p, r.s)
      id == Fresh(I, r.p, "a")
  IN [r EXCEPT !.I = Then(I, Single(id, <<"stmt", <<"assign", None, r.e>>>>)),
               !.s = <<id>>, !.e = None, !.tag = "STATEMENTS"]

AssgnGen(r) ==
  LET id == Fresh(r.I, r.p, "a")
  IN [r EXCEPT !.I = AddStmts(Then(@, Single(id, <<"stmt", <<"assign", None, r.e>>>>)), r.p, r.s),
               !.s = <<id>>, !.e = None, !.tag = "STATEMENTS"]

\* t and f are the code for the two outcomes.
Branched(r, t, f) ==
  [r EXCEPT !.I = [Then(With(r.I, <<t, f>>, <<<<None, t.b>>, <<None, f.b>>>>),
                        Stopping(Fresh(r.I, r.p, "i"), <<"if", r.e, t.b, f.b>>)) EXCEPT !.e = t.e],
            !.om = f.e, !.s = <<>>, !.e = None, !.tag = "BOOL"]

IfGen(r) ==
  LET outcome(p) == Forced(AddStmts(Nothing, p, r.s), p)
  IN Branched(r, outcome(Append(r.p, 8)), outcome(Append(r.p, 9)))

Ignore(r) ==
  LET g == Fresh(r.I, r.p, "g")
  IN CASE r.tag \in {"VALUE", "PLACE"} -> [r EXCEPT !.I = AddStmts(@, r.p, r.s), !.s = <<>>, !.tag = "IGNORED"]
       [] r.tag = "BOOL" ->
            [r EXCEPT !.I = [With(@, <<Single(g, <<"goto">>)>>, <<<<r.I.e, g>>, <<r.om, g>>>>) EXCEPT !.e = g],
                      !.om = None, !.tag = "IGNORED"]
       [] OTHER -> [r EXCEPT !.tag = "IGNORED"]

\* where an assertion of the code fails, so that there is no translation
Failed(r, goal) == [r EXCEPT !.I = Then(@, Stopping(Fresh(@, r.p, "!"), <<"assert">>)), !.tag = goal,
                             !.om = Fresh(@.I, r.p, "!")]

RECURSIVE Coerce(_, _)
Coerce(r, goal) ==
  IF goal = "IGNORED" THEN Ignore(r)
  ELSE IF r.tag = goal \/ (r.tag = "VALUE" /\ goal = "PREVALUE" /\ r.s = <<>>) THEN r
  ELSE IF r.tag = "IGNORED" THEN Failed(r, goal)
  ELSE Coerce(CASE r.tag = "VALUE" /\ goal = "BOOL" -> IfGen(r)
                [] r.tag = "VALUE" /\ goal # "BOOL" -> AssgnGen(r)
                [] r.tag = "PLACE" -> Dereference(r)
                [] r.tag = "STATEMENTS" -> Tempvar(r)
                [] r.tag = "BOOL" -> ZeroOne(r), goal)

-----------------------------------------------------------------------------
(* Allocation functions: the size of an element and the other factors.     *)
RECURSIVE ExtractSizeof(_)
ExtractSizeof(e) ==
  CASE e[1] = "sizeof" -> <<e[2], <<>>>>
    [] e[1] = "cast" -> ExtractSizeof(e[2])
    [] e[1] = "op" /\ e[2] = "*" ->
         LET r == ExtractSizeof(e[4])
             l == ExtractSizeof(e[3])
         IN IF r # None THEN <<r[1], <<e[3]>> \o r[2]>>
            ELSE IF l # None THEN <<l[1], Append(l[2], e[4])>> ELSE None
    [] OTHER -> None

ConvertMalloc(p, arg) ==
  LET x == ExtractSizeof(arg)
      length == FoldLeft(LAMBDA l, f : <<"op", "*", l, f>>, Last(x[2]), Front(x[2]))
      st == <<"alloc", None, x[1], IF x[2] = <<>> THEN <<"num", 1>> ELSE length>>
      I == Single(<<p, 0, "m">>, <<"stmt", st>>)
  IN IF x = None THEN None ELSE Trans(p, "STATEMENTS", I, None, <<I.b>>)

ConvertFree(p, arg) == Trans(p, "IGNORED", Single(<<p, 0, "m">>, <<"stmt", <<"free", arg>>>>), None, <<>>)

Special(p, callee, args) ==
  CASE callee = <<"fun", "malloc">> /\ Len(args) = 1 -> ConvertMalloc(p, args[1])
    [] callee = <<"fun", "calloc">> /\ Len(args) = 2 -> ConvertMalloc(p, <<"op", "*", args[1], args[2]>>)
    [] callee = <<"fun", "free">> /\ Len(args) = 1 -> ConvertFree(p, args[1])
    [] OTHER -> None

PlainCall(p, callee, args) ==
  LET I == Single(<<p, 0, "c">>, <<"stmt", <<"call", None, callee, args>>>>)
  IN Trans(p, "STATEMENTS", I, None, <<I.b>>)

(* An expression equivalent to !e. *)
Inverted == [o \in {"<", ">", "<=", ">=", "==", "!="} |->
  CASE o = "<" -> ">=" [] o = ">" -> "<=" [] o = "<=" -> ">" [] o = ">=" -> "<" [] o = "==" -> "!=" [] OTHER -> "=="]

RECURSIVE ReduceBang(_, _)
ReduceBang(e, inBool) ==
  CASE e[1] = "not" /\ (inBool \/ e[2][1] = "not") -> e[2]
    [] e[1] = "op" /\ e[2] \in DOMAIN Inverted -> [e EXCEPT ![2] = Inverted[@]]
    [] e[1] = "op" /\ e[2] \in {"&&", "||"} ->
         <<"op", IF e[2] = "&&" THEN "||" ELSE "&&", ReduceBang(e[3], TRUE), ReduceBang(e[4], TRUE)>>
    [] OTHER -> <<"not", e>>

(***************************************************************************)
(* TransAssignment: the source, which is a list of statements, gets the    *)
(* target; unless the result is ignored it goes through a temporary        *)
(* variable, which is the value.                                           *)
(***************************************************************************)
Assigned(target, source) ==
  [target EXCEPT !.I = AddStmts(Then(@, SetLeft(source, target.e).I), target.p, target.s),
                 !.s = <<>>, !.tag = "IGNORED"]

AssignedThrough(target, saved) ==
  [target EXCEPT !.I = Then(@, SetLeft(AssgnGen(saved), target.e).I),
                 !.e = saved.e, !.tag = "VALUE", !.narrow = saved.narrow]

TransAssignment(target, source, ignore) ==
  IF ignore THEN Assigned(target, source) ELSE AssignedThrough(target, Dereference(Tempvar(source)))

TransPresideeffect(left, bop, r, ignore) ==
  TransAssignment(left, AssgnGen([r EXCEPT !.e = <<"op", bop, <<"deref", left.e>>, r.e>>, !.narrow = FALSE]), ignore)

One(p) == Trans(Append(p, 7), "VALUE", Nothing, <<"num", 1>>, <<>>)

Plain(r) == r.tag \in {"PLACE", "VALUE"} /\ r.s = <<>>
ConstantLogic(r1, r2) == Plain(r1) /\ Plain(r2) /\ r2.I.b = None

\* two values make one
Combined(a, b, e, tag) ==
  [a EXCEPT !.I = Then(@, b.I), !.e = e, !.s = @ \o b.s, !.tag = tag, !.narrow = FALSE]

ShortCircuit(isAnd, a, b, g) ==
  LET goon == IF isAnd THEN a.I.e ELSE a.om
      leave == IF isAnd THEN <<a.om, b.om>> ELSE <<a.I.e, b.I.e>>
  IN [a EXCEPT !.I = [With(@, <<b.I, Single(g, <<"goto">>)>>, <<<<goon, b.I.b>>, <<leave[1], g>>, <<leave[2], g>>>>)
                        EXCEPT !.e = IF isAnd THEN b.I.e ELSE g],
               !.om = IF isAnd THEN g ELSE b.om]

\* A and B are the code of the operands a and b
Conditional(c, a, A, b, B, g) ==
  [a EXCEPT !.I = [With(c.I, <<A, B, Single(g, <<"goto">>)>>, <<<<c.I.e, A.b>>, <<c.om, B.b>>, <<A.e, g>>, <<B.e, g>>>>)
                     EXCEPT !.e = g],
            !.s = @ \o b.s]

CondTrans(p, c, a, b) ==
  Conditional(c, a, Forced(a.I, Append(p, 5)), b, Forced(b.I, Append(p, 6)), <<p, 0, "g">>)

\* the kinds of expressions, of translated operands
ConstantTrans(t, p) == Trans(p, "VALUE", Nothing, t, <<>>)
VarTrans(t, p) == Trans(p, "PLACE", Nothing, t, <<>>)
SizeTrans(n, p) == Trans(p, "VALUE", Nothing, <<"sizeof", n>>, <<>>)

Called(p, callee, es, special) == IF special # None THEN special ELSE PlainCall(p, callee, es)

CallTrans(f, args, p) ==
  LET es == [i \in DOMAIN args |-> args[i].e]
  IN [Called(p, f.e, es, Special(p, f.e, es))
        EXCEPT !.I = Then(Joined([i \in DOMAIN args |-> args[i].I]), Then(f.I, @))]

IndexTrans(l, r) == Combined(l, r, <<"op", "+", l.e, r.e>>, "PLACE")
MemberTrans(l, k) == [l EXCEPT !.e = <<"member", @, k>>]
AddressTrans(r) == [r EXCEPT !.tag = "VALUE"]
DerefTrans(r) == [r EXCEPT !.tag = "PLACE"]
NegTrans(r) == [r EXCEPT !.e = <<"neg", @>>, !.narrow = FALSE]

NotTrans(r) ==
  IF r.tag = "BOOL" THEN [r EXCEPT !.I.e = r.om, !.om = r.I.e]
  ELSE [Coerce(r, "VALUE") EXCEPT !.e = ReduceBang(@, FALSE), !.narrow = FALSE]

PostTrans(r, o) ==
  [r EXCEPT !.s = Append(@, <<"assign", r.e, <<"op", o, <<"deref", r.e>>, <<"num", 1>>>>>>)]

Narrowed(r) == IF r.narrow THEN r ELSE [r EXCEPT !.e = <<"cast", @>>, !.narrow = TRUE]

CastTrans(r) == IF r.tag = "STATEMENTS" /\ r.narrow THEN r ELSE Narrowed(Coerce(r, "VALUE"))

BothValues(l, r, o) == Combined(l, r, <<"op", o, l.e, r.e>>, "VALUE")

LogicTrans(isAnd, l, r, p) ==
  IF ConstantLogic(l, r) THEN BothValues(Coerce(l, "VALUE"), Coerce(r, "VALUE"), IF isAnd THEN "&&" ELSE "||")
  ELSE ShortCircuit(isAnd, Coerce(l, "BOOL"), Coerce(r, "BOOL"), <<p, 0, "g">>)

CommaTrans(l, r) == [r EXCEPT !.I = Then(Ignore(l).I, @)]

(* Expr::trans.  ignore: the value is not needed. *)
RECURSIVE Expr(_, _, _)
Expr(t, p, ignore) ==
  LET sub(i)   == Expr(t[i], Append(p, i), FALSE)
      value(i) == Coerce(sub(i), "VALUE")
      stmts(i) == Coerce(sub(i), "STATEMENTS")
      args     == [i \in DOMAIN t[3] |-> Coerce(Expr(t[3][i], p \o <<3, i>>, FALSE), "PREVALUE")]
  IN [CASE t[1] \in {"num", "fun"} -> ConstantTrans(t, p)
        [] t[1] = "var" -> VarTrans(t, p)
        [] t[1] = "sizeofT" -> SizeTrans(t[2], p)
        [] t[1] = "sizeofE" -> SizeTrans(4, p)
        [] t[1] = "call" -> CallTrans(Coerce(sub(2), "PREVALUE"), args, p)
        [] t[1] = "index" -> IndexTrans(value(2), value(3))
        [] t[1] = "member" -> MemberTrans(Coerce(sub(2), "PLACE"), t[3])
        [] t[1] = "addr" -> AddressTrans(sub(2))
        [] t[1] = "deref" -> DerefTrans(value(2))
        [] t[1] = "pos" -> sub(2)
        [] t[1] = "not" -> NotTrans(sub(2))
        [] t[1] = "neg" -> NegTrans(value(2))
        [] t[1] = "cast" -> CastTrans(IF sub(2).tag = "BOOL" THEN ZeroOne(sub(2)) ELSE sub(2))
        [] t[1] = "void" -> Ignore(sub(2))
        [] t[1] = "op" -> BothValues(value(3), value(4), t[2])
        [] t[1] \in {"and", "or"} -> LogicTrans(t[1] = "and", sub(2), sub(3), p)
        [] t[1] = "asgn" -> TransAssignment(sub(2), stmts(3), ignore)
        [] t[1] = "opasgn" -> TransPresideeffect(sub(3), t[2], value(4), ignore)
        [] t[1] = "pre" -> TransPresideeffect(sub(3), t[2], One(p), ignore)
        [] t[1] = "post" -> PostTrans(sub(3), t[2])
        [] t[1] = "comma" -> CommaTrans(Expr(t[2], Append(p, 2), TRUE), Expr(t[3], Append(p, 3), ignore))
        [] t[1] = "cond" -> CondTrans(p, Coerce(sub(2), "BOOL"), stmts(3), stmts(4)) EXCEPT !.p = p]

-----------------------------------------------------------------------------
(***************************************************************************)
(* Statements: Stmt::trans.  env holds the targets of break, continue and  *)
(* return; sw is the SwitchEnv, which case and default labels change.  The *)
(* translation is the code and the SwitchEnv after it.                     *)
(***************************************************************************)
FullExpr(e, p, goal) == Coerce(Expr(e, p, goal = "IGNORED"), goal)
Label(l) == <<<<0>>, 0, l>>
Goto(id) == Single(id, <<"goto">>)
Stopper == <<<<0>>, 0, "return">>
Result(I, sw) == [I |-> I, sw |-> sw]

ReturnCode(r, p) == Then(r.I, Stopping(<<p, 0, "r">>, <<"return", r.e>>))

\* VarDecl::trans, for a local variable with one initial value
Declared(x, r, p) == AddStmts(AddStmt(r.I, p, <<"assign", <<"var", x>>, r.e>>), p, r.s)

\* LabelStmt, CaseStmt, DefaultStmt; I is the translated substatement
LabelCode(l, I) == Then(Goto(Label(l)), I)

CaseCode(k, I, p, sw) ==
  LET else == <<p, 0, "g">>
      test == [Stopping(<<p, 0, "i">>, <<"if", <<"op", "==", sw.expr, <<"num", k>>>>, I.b, else>>)
                 EXCEPT !.lk = <<<<None, I.b>>, <<None, else>>>>]
  IN Result(I, [sw EXCEPT !.chain = Then(@, [With(test, <<Goto(else)>>, <<>>) EXCEPT !.e = else])])

DefaultCode(I, sw) == Result(I, [sw EXCEPT !.def = I.b])

IfCode(c, A, B, end) ==
  [With(c.I, <<A, B, Goto(end)>>, <<<<c.I.e, A.b>>, <<c.om, B.b>>>>) EXCEPT !.e = end]

\* body is what is executed when the test c is true, up to the next test
LoopCode(c, body, end) ==
  With(With(c.I, <<Goto(end)>>, <<<<c.om, end>>>>), <<body>>, <<<<c.I.e, body.b>>>>)

WhileCode(c, body, end) ==
  [LoopCode(c, body, end) EXCEPT !.b = c.I.b, !.e = end]

DoCode(c, body, end) == [LoopCode(c, body, end) EXCEPT !.b = body.b, !.e = end]

\* the test of a for statement without a test
NoTest(p) ==
  LET never == <<p, 0, "never">>
      r == Trans(p, "BOOL", Forced(Nothing, p), None, <<>>)
  IN [r EXCEPT !.om = never, !.I.at = @ @@ (never :> <<"goto">>)]

ForCode(c, before, body, end) ==
  [With(LoopCode(c, body, end), <<before>>, <<>>) EXCEPT !.b = before.b, !.e = end]

SwitchCode(chain, body, def, end) ==
  LET inside == Then(body, Goto(end))
      tests == Then(chain, To(IF def = None THEN end ELSE def))
  IN [With(tests, <<inside, Goto(end)>>, <<>>) EXCEPT !.e = end]

RECURSIVE Stmt(_, _, _, _)

\* An if statement after its then part: yes
Else(s, p, env, c, yes) ==
  LET end == <<p, 0, "end">>
      whole(no) == Result(IfCode(c, Then(yes.I, To(end)), Then(no.I, To(end)), end), no.sw)
  IN whole(Stmt(s[4], Append(p, 4), env, yes.sw))

\* A loop with the test c; third is what is done before the next test.
Loop(s, p, env, sw, c, before, third) ==
  LET end == <<p, 0, "end">>
      body == Stmt(s[3], Append(p, 3), [env EXCEPT !.brk = end, !.cont = third.b], sw)
      whole(I) == CASE s[1] = "while" -> WhileCode(c, I, end)
                    [] s[1] = "do"    -> DoCode(c, I, end)
                    [] s[1] = "for"   -> ForCode(c, Then(before, To(c.I.b)), I, end)
  IN [body EXCEPT !.I = whole(Then(@, third))]

\* the effects of a for statement: the parts 5, before the first test, and 4, before every other one
ForEffect(s, p, i) == IF s[1] # "for" \/ s[i] = <<>> THEN Nothing ELSE FullExpr(s[i], Append(p, i), "IGNORED").I
Around(s, p, env, sw, c, effect) == Loop(s, p, env, sw, c, effect[5], Then(effect[4], To(c.I.b)))

\* if, while, do and for: c is the test.
Tested(s, p, env, sw, c) ==
  IF s[1] = "if" THEN Else(s, p, env, c, Stmt(s[3], Append(p, 3), env, sw))
  ELSE Around(s, p, env, sw, c, [i \in {4, 5} |-> ForEffect(s, p, i)])

\* A switch statement; e is the translated value.
Switched(s, p, env, sw, e) ==
  LET end == <<p, 0, "end">>
      whole(b) == Result(SwitchCode(b.sw.chain, b.I, b.sw.def, end), sw)
  IN whole(Stmt(s[3], Append(p, 3), [env EXCEPT !.brk = end], [expr |-> e.e, chain |-> e.I, def |-> None]))

\* A labelled statement: r is the translated substatement, I its code.
Labelled(s, p, r, I) ==
  CASE s[1] = "case"    -> CaseCode(s[2], I, p, r.sw)
    [] s[1] = "default" -> DefaultCode(I, r.sw)
    [] s[1] = "label"   -> Result(LabelCode(s[2], r.I), r.sw)

After(r, x) == Result(Then(r.I, x.I), x.sw)

\* The expression of a statement, translated for what the statement does with it.
HasExpr(s) ==
  s[1] = "decl" \/ (s[1] \in {"expr", "if", "while", "do", "for", "switch", "return"} /\ Len(s) > 1 /\ s[2] # <<>>)
Goal(s) ==
  CASE s[1] = "expr" -> "IGNORED"
    [] s[1] = "decl" -> "VALUE"
    [] s[1] \in {"switch", "return"} -> "PREVALUE"
    [] OTHER -> "BOOL"
ExprOf(s, p) ==
  IF ~HasExpr(s) THEN NoTest(Append(p, 2))
  ELSE FullExpr(s[IF s[1] = "decl" THEN 3 ELSE 2], IF s[1] = "decl" THEN p ELSE Append(p, 2), Goal(s))

\* A statement; e is its translated expression.
StmtCode(s, p, env, sw, e) ==
  LET sub(i) == Stmt(s[i], Append(p, i), env, sw)
      labelled(r, i) == Labelled(s, p, r, Forced(r.I, Append(p, i)))
  IN CASE s[1] = "expr" -> Result(IF HasExpr(s) THEN e.I ELSE Nothing, sw)
       [] s[1] = "skip" -> Result(Nothing, sw)
       [] s[1] = "decl" -> Result(Declared(s[2], e, p), sw)
       [] s[1] = "init" -> Result(Single(<<p, 0, "init">>, s), sw)
       [] s[1] = "block" ->
            FoldLeftDomain(LAMBDA r, i : After(r, Stmt(s[2][i], p \o <<2, i>>, env, r.sw)), Result(Nothing, sw), s[2])
       [] s[1] \in {"if", "while", "do", "for"} -> Tested(s, p, env, sw, e)
       [] s[1] = "switch" -> Switched(s, p, env, sw, e)
       [] s[1] = "default" -> labelled(sub(2), 2)
       [] s[1] \in {"case", "label"} -> labelled(sub(3), 3)
       [] s[1] = "goto" -> Result([Goto(Label(s[2])) EXCEPT !.e = None], sw)
       [] s[1] = "break" -> Result(To(env.brk), sw)
       [] s[1] = "continue" -> Result(To(env.cont), sw)
       [] s[1] = "return" -> Result(IF HasExpr(s) THEN ReturnCode(e, Append(p, 2)) ELSE To(env.ret), sw)

Stmt(s, p, env, sw) == StmtCode(s, p, env, sw, ExprOf(s, p))

Whole(I) == [I EXCEPT !.at = @ @@ (Stopper :> <<"stop">>)]

Function(body) ==
  Whole(Then(Stmt(body, <<1>>, [brk |-> None, cont |-> None, ret |-> Stopper],
                  [expr |-> None, chain |-> Nothing, def |-> None]).I, To(Stopper)))

-----------------------------------------------------------------------------
(* Links and predecessor counts. *)
IsGoto(a) == atom[a][1] = "goto"

\* AnyAtom::add_predecessor, GotoAtom::add_predecessor, on the counts and states [c, st]
RECURSIVE AddPredecessor(_, _, _)
AddPredecessor(x, a, nr) ==
  IF ~ IsGoto(a) \/ x.st[a] = "Unlinked" THEN [x EXCEPT !.c[a] = @ + nr]
  ELSE CASE x.st[a] = "Linking" -> [x EXCEPT !.st[a] = "PerpetualLoop"]
         [] x.st[a] = "Linked" -> AddPredecessor(x, next[a], nr)
         [] x.st[a] = "PerpetualLoop" -> x

\* Variant with a defect: the predecessors a GotoAtom had before it was linked are forgotten.
GotoLinked_forgets(a, b) ==
  LET x == AddPredecessor([c |-> count, st |-> [status EXCEPT ![a] = "Linking"]], b, 1)
  IN IF x.st[a] # "Linking" THEN [x EXCEPT !.c[a] = 2]
     ELSE [x EXCEPT !.c[a] = 0, !.st[a] = "Linked"]

\* GotoAtom::link
GotoLinked(a, b) ==
  LET x == AddPredecessor([c |-> count, st |-> [status EXCEPT ![a] = "Linking"]], b, count[a])
  IN IF x.st[a] # "Linking" THEN [x EXCEPT !.c[a] = 2]
     ELSE [x EXCEPT !.c[a] = 0, !.st[a] = "Linked"]

Link ==
  /\ phase = "link" /\ log # <<>>
  /\ LET a == Head(log)[1]
         b == Head(log)[2]
         x == IF a # None /\ IsGoto(a) THEN GotoLinked(a, b)
              ELSE AddPredecessor([c |-> count, st |-> status], b, 1)
     IN /\ next' = IF a = None THEN next ELSE [next EXCEPT ![a] = b]
        /\ count' = x.c
        /\ status' = x.st
  /\ log' = Tail(log)
  /\ UNCHANGED <<program, phase, atom, first, stack, started, block, placed>>

(* Collection: get_bb and collectAll. *)
RECURSIVE Leader(_, _)
Leader(c, a) == IF c[a] = 0 THEN Leader(c, next[a]) ELSE a

\* get_bb for the atoms as, in turn: [st, bb], the stack and the leaders known so far
GetBB(x, as) ==
  FoldLeft(LAMBDA y, a : IF a \in y.bb THEN y ELSE [st |-> Append(y.st, a), bb |-> y.bb \cup {a}], x, as)

StartCollecting ==
  /\ phase = "link" /\ log = <<>>
  /\ phase' = "collect"
  /\ LET x == AddPredecessor([c |-> count, st |-> status], first, 1)
         y == GetBB([st |-> stack, bb |-> started], <<Leader(x.c, first)>>)
     IN /\ count' = x.c
        /\ status' = x.st
        /\ stack' = y.st
        /\ started' = y.bb
        /\ first' = Leader(x.c, first)
  /\ UNCHANGED <<program, atom, log, next, block, placed>>

\* what is emitted into a block [init, code]
Emitted(bb, a) ==
  CASE atom[a][1] = "init" -> [bb EXCEPT !.init = Append(@, atom[a])]
    [] atom[a][1] = "stmt" ->
         IF atom[a][2][1] \in {"assign", "alloc"} /\ atom[a][2][2] = None THEN bb
         ELSE [bb EXCEPT !.code = Append(@, atom[a][2])]
    [] OTHER -> bb

BlockLeader(a, bb) == count[a] > 1 \/ (atom[a][1] = "init" /\ bb.code # <<>>)

\* the atoms of a block: [bb, at, last]
RECURSIVE Gathered(_, _, _)
Gathered(a, bb, at) ==
  LET b == Emitted(bb, a)
      n == next[a]
  IN IF n = None \/ BlockLeader(n, b) THEN [bb |-> b, at |-> at \cup {a}, last |-> a]
     ELSE Gathered(n, b, at \cup {a})

CollectBlock ==
  /\ phase = "collect" /\ stack # <<>>
  /\ LET a == Last(stack)
         g == Gathered(a, [init |-> <<>>, code |-> <<>>], {})
         n == next[g.last]
         x == atom[g.last]
         exits == IF n # None THEN <<Leader(count, n)>>
                  ELSE IF x[1] = "if" THEN <<Leader(count, x[3]), Leader(count, x[4])>> ELSE <<>>
         exit == IF n # None THEN <<"jump">> \o exits
                 ELSE IF x[1] = "if" THEN <<"if", x[2]>> \o exits ELSE x
         y == GetBB([st |-> Front(stack), bb |-> started], exits)
     IN /\ block' = block @@ (a :> [init |-> g.bb.init, code |-> g.bb.code, exit |-> exit])
        /\ stack' = y.st
        /\ started' = y.bb
        /\ placed' = placed \cup {<<b, a>> : b \in {c \in g.at : ~ IsGoto(c)}}
  /\ UNCHANGED <<program, phase, atom, first, log, next, count, status>>

Finish ==
  /\ phase = "collect" /\ stack = <<>>
  /\ phase' = "done"
  /\ UNCHANGED <<program, atom, first, log, next, count, status, stack, started, block, placed>>

\* The function has been translated to the interval I.
Start(I) ==
  /\ atom = I.at
  /\ first = I.b
  /\ log = I.lk
  /\ next = [a \in DOMAIN I.at |-> None]
  /\ count = [a \in DOMAIN I.at |-> 0]
  /\ status = [a \in {b \in DOMAIN I.at : I.at[b][1] = "goto"} |-> "Unlinked"]

Init ==
  /\ program \in Programs
  /\ phase = "link"
  /\ \E I \in {Function(program)} : Start(I)
  /\ stack = <<>>
  /\ started = {}
  /\ block = <<>>
  /\ placed = {}

Next == Link \/ StartCollecting \/ CollectBlock \/ Finish

Spec == Init /\ [][Next]_vars

-----------------------------------------------------------------------------
(* Execution of the blocks, to compare with what C does. *)
RECURSIVE Ev(_, _, _)
Ev(e, m, t) ==
  LET v(i) == Ev(e[i], m, t)
  IN CASE e[1] \in {"num", "sizeof"} -> e[2]
       [] e[1] = "fun" -> Code[e[2]]
       [] e[1] = "var" -> Address[e[2]]
       [] e[1] = "member" -> v(2) + e[3]
       [] e[1] = "deref" ->
            IF e[2][1] = "tmp" THEN IF e[2][2] \in DOMAIN t THEN t[e[2][2]] ELSE 0
            ELSE LET a == v(2) IN IF a \in DOMAIN m THEN m[a] ELSE 0
       [] e[1] = "not" -> IF v(2) = 0 THEN 1 ELSE 0
       [] e[1] = "neg" -> (-v(2)) % Modulus
       [] e[1] = "cast" -> v(2) % Int8
       [] e[1] = "op" /\ e[2] = "&&" -> IF v(3) = 0 \/ v(4) = 0 THEN 0 ELSE 1
       [] e[1] = "op" /\ e[2] = "||" -> IF v(3) = 0 /\ v(4) = 0 THEN 0 ELSE 1
       [] OTHER -> Op(e[2], v(3), v(4))

ExecStmt(x, st) ==
  LET v(e) == Ev(e, x.m, x.t)
      call == CASE st[1] = "call" -> Effect(v(st[3]), [i \in DOMAIN st[4] |-> v(st[4][i])], x.m)
                [] st[1] = "alloc" -> Effect(Code["malloc"], <<(st[3] * v(st[4])) % Modulus>>, x.m)
                [] st[1] = "free" -> Effect(Code["free"], <<v(st[2])>>, x.m)
                [] OTHER -> [v |-> v(st[3]), m |-> x.m]
      target == IF st[1] = "free" THEN None ELSE st[2]
  IN IF target = None THEN [x EXCEPT !.m = call.m]
     ELSE IF target[1] = "tmp" THEN [m |-> call.m, t |-> (target[2] :> call.v) @@ x.t]
     ELSE [x EXCEPT !.m = Apply(call.m, {<<v(target), call.v>>})]

RECURSIVE ExecBlock(_, _, _)
\* the block b is left with the value v
Leave(b, y, v, k) ==
  IF k = 0 THEN [o |-> Cut, m |-> y.m]
  ELSE CASE b.exit[1] \in {"jump", "if"} ->
              ExecBlock(IF b.exit[1] = "jump" THEN b.exit[2] ELSE IF v # 0 THEN b.exit[3] ELSE b.exit[4], y, k - 1)
         [] b.exit[1] = "return" -> [o |-> <<"return", v>>, m |-> y.m]
         [] b.exit[1] = "stop" -> [o |-> <<"return", 0>>, m |-> y.m]
Exit(b, y, k) == Leave(b, y, IF b.exit[1] \in {"if", "return"} THEN Ev(b.exit[2], y.m, y.t) ELSE 0, k)
ExecBlock(a, x, k) ==
  LET b == block[a]
      initialized == [x EXCEPT !.m = Apply(@, {<<Address[b.init[i][2]], b.init[i][3]>> : i \in DOMAIN b.init})]
  IN Exit(b, FoldLeft(ExecStmt, initialized, b.code), k)

-----------------------------------------------------------------------------
(* Properties *)
Allowed(C, r) == (\E c \in C : c.o \in {Undefined, Cut}) \/ r \in C

\* The Core C program does one of the things the C standard allows: operands
\* that have become statements are evaluated in an order that is allowed, side
\* effects take place between the right sequence points, conditions lead to the
\* same statements, and the size of an allocation is the one asked for
\* (Expr::trans, Stmt::trans and the coercions).
BehavesAsC ==
  phase = "done" => \A m \in Starts :
    Allowed(Behaviours(program, m, Limit), ExecBlock(first, [m |-> m, t |-> <<>>], 12 * Limit))

\* No statement is emitted into two blocks: whatever can be reached in two ways
\* leads a block of its own.  The counts of the atoms are right although
\* GotoAtoms pass theirs on, in whatever order they are linked
\* (GotoAtom::link, add_predecessor, block_leader).
PlacedOnce ==
  \A x, y \in placed : x[1] = y[1] => x[2] = y[2]
=============================================================================
