---------------------------- MODULE Conversions ----------------------------
(***************************************************************************)
(* What the conversions of the type checker are for.  An expression is     *)
(* checked (module Checker) and translated to Core C; Core C is printed as *)
(* C, so both the subject program and the residual one are executed by C's *)
(* rules, on small integers: the value of an arithmetic expression is kept *)
(* as twice the number, so that there are fractions.                       *)
(* Of the translation to Core C this module has the types and the          *)
(* assertions (corec.cc), and the temporaries, which have the type of the  *)
(* Core C expression they are initialized with.                            *)
(***************************************************************************)
EXTENDS Checker, Functions, TLC

CONSTANTS
  Parts,         \* what is checked
  Address,       \* x |-> where the variable is
  Memories       \* the memories to start with: address |-> value

VARIABLES
  part,          \* the part of the program
  phase,         \* "parsed", "checked", "declared", "translated", "rejected", "aborted"
  checked        \* the result of the check

vars == <<part, phase, checked, junk>>

(***************************************************************************)
(* Execution by C's rules (not part of C-Mix).                             *)
(***************************************************************************)
Bits(tag) ==
  CASE tag \in {"Char", "SChar", "UChar"} -> 3 [] tag \in {"Short", "UShort"} -> 4
    [] tag \in {"Int", "UInt"} -> 5 [] OTHER -> 6
Unsigned(tag) == tag \in {"UChar", "UShort", "UInt", "ULong"}

Underlying(t) ==
  CASE t[1] = "enum" -> "Int"
    [] t[1] = "abs" -> IF "i" \in t[2] THEN "ULong" ELSE "Double"
    [] OTHER -> t[2]

Promote(tag) == IF Rank(tag) < Rank("Int") THEN "Int" ELSE tag

Usual(t, u) ==
  LET a == Promote(t)
      b == Promote(u)
  IN IF Rank(a) > Rank(b) THEN a ELSE b

CDecay(t) == CASE t[1] = "array" -> Ptr(Target(t)) [] t[1] = "fun" -> Ptr(t) [] OTHER -> t

RECURSIVE CType(_)
CType(e) ==
  LET rv(x) == CDecay(CType(x)) IN
  CASE e[1] = "num" -> e[3]
    [] e[1] \in {"null", "cast", "sizeT"} -> IF e[1] = "sizeT" THEN SizeT ELSE e[2]
    [] e[1] = "sizeE" -> SizeT
    [] e[1] = "var" -> Variables[e[2]].type
    [] e[1] = "call" -> Target(rv(e[2]))[2][2]
    [] e[1] = "index" -> IF IsPtr(rv(e[2])) THEN Target(rv(e[2])) ELSE Target(rv(e[3]))
    [] e[1] = "dot" -> LET ms == Members(CType(e[2])) IN ms[CHOOSE i \in DOMAIN ms : ms[i].name = e[3]].type
    [] e[1] = "addr" -> Ptr(CType(e[2]))
    [] e[1] = "deref" -> Target(rv(e[2]))
    [] e[1] = "un" -> IF e[2] = "!" THEN IntT ELSE Base(Promote(Underlying(rv(e[3]))))
    [] e[1] = "step" -> CType(e[2])
    [] e[1] = "bin" ->
         LET t == rv(e[3])
             u == rv(e[4])
         IN CASE e[2] \in {"<", "==", "!=", "&&", "||"} -> IntT
              [] e[2] = "-" /\ IsPtr(t) /\ IsPtr(u) -> LongT
              [] e[2] \in {"+", "-"} /\ IsPtr(t) /\ ~IsPtr(u) -> t
              [] e[2] = "+" /\ IsPtr(u) -> u
              [] e[2] = "<<" -> Base(Promote(Underlying(t)))
              [] OTHER -> Base(Usual(Underlying(t), Underlying(u)))
    [] e[1] = "comma" -> rv(e[3])
    [] e[1] = "cond" ->
         LET t == rv(e[3])
             u == rv(e[4])
         IN IF IsArithmetic(t) /\ IsArithmetic(u) THEN Base(Usual(Underlying(t), Underlying(u)))
            ELSE IF IsPtr(t) THEN t ELSE u
    [] e[1] = "asgn" -> CType(e[3])

Magnitude(n) == IF n < 0 THEN -n ELSE n
Undefined == [ok |-> FALSE, v |-> 0, m |-> <<>>]
Value(v, m) == [ok |-> TRUE, v |-> v, m |-> m]

Wrap(n, tag) ==
  LET w == 2^Bits(tag)
  IN IF Unsigned(tag) THEN n % w ELSE ((n + w \div 2) % w) - w \div 2

Truncate(v) == IF v >= 0 THEN v \div 2 ELSE -((-v) \div 2)

Convert(v, t, u) ==
  CASE IsVoid(u) \/ (IsPtr(t) /\ IsPtr(u)) -> v
    [] IsPtr(u) /\ ~IsPtr(t) -> Truncate(v)
    [] ~IsPtr(u) /\ IsPtr(t) -> 2 * Wrap(v, Underlying(u))
    [] OTHER -> IF Underlying(u) \in {"Float", "Double"} THEN v ELSE 2 * Wrap(Truncate(v), Underlying(u))

\* the value of an operation on numbers of the same type
Compute(op, a, b, tag) ==
  LET real == tag \in {"Float", "Double"}
      n == CASE op = "+" -> a + b [] op = "-" -> a - b
             [] op = "*" -> IF real THEN (a * b) \div 2 ELSE 2 * ((a \div 2) * (b \div 2))
             [] op = "/" -> IF b = 0 THEN 0 ELSE IF real THEN (2 * a) \div b
                            ELSE 2 * (IF (a >= 0) = (b > 0) THEN Magnitude(a) \div Magnitude(b) ELSE -(Magnitude(a) \div Magnitude(b)))
             [] op = "%" -> IF b = 0 THEN 0 ELSE IF a >= 0 THEN a % Magnitude(b) ELSE -((-a) % Magnitude(b))
             [] op = "<" -> 2 * Flag(a < b) [] op = "==" -> 2 * Flag(a = b) [] op = "!=" -> 2 * Flag(a # b)
             [] op = "<<" -> IF b \in 0..2 * Bits(tag) THEN a * 2^(b \div 2) ELSE 0
      exact == CASE real -> op \notin {"*", "/"} \/ (op = "*" /\ (a * b) % 2 = 0) \/ (op = "/" /\ b # 0 /\ (2 * a) % Magnitude(b) = 0 /\ b > 0)
                 [] op \in {"/", "%"} /\ ~real -> b # 0
                 [] op = "<<" /\ ~real -> b >= 0 /\ b < 2 * Bits(tag) /\ a >= 0
                 [] OTHER -> TRUE
  IN IF op \in {"<", "==", "!="} THEN [ok |-> TRUE, n |-> n]
     ELSE IF real THEN [ok |-> exact, n |-> n]
     ELSE IF Unsigned(tag) THEN [ok |-> exact, n |-> 2 * Wrap(n \div 2, tag)]
     ELSE [ok |-> exact /\ Wrap(n \div 2, tag) = n \div 2, n |-> n]

RECURSIVE Size(_)
Size(t) ==
  CASE t[1] = "array" -> t[2][2] * Size(Target(t))
    [] t[1] = "struct" -> FoldFunction(LAMBDA a, b : a + b, 0, [i \in DOMAIN Members(t) |-> Size(Members(t)[i].type)])
    [] OTHER -> 1

Offset(t, m) ==
  LET i == CHOOSE i \in DOMAIN Members(t) : Members(t)[i].name = m
  IN IF t[1] = "union" THEN 0 ELSE FoldFunction(LAMBDA a, b : a + b, 0, [j \in 1..i-1 |-> Size(Members(t)[j].type)])

Then(r, F(_, _)) == IF r.ok THEN F(r.v, r.m) ELSE Undefined

Arith(op, a, t, b, u, m) ==
  LET tag == IF op = "<<" THEN Promote(Underlying(t)) ELSE Usual(Underlying(t), Underlying(u))
      r == Compute(op, Convert(a, t, Base(tag)), IF op = "<<" THEN b ELSE Convert(b, u, Base(tag)), tag)
  IN [ok |-> r.ok, v |-> r.n, m |-> m]

Apply(op, a, t, b, u, m) ==
  CASE op \in {"<", "==", "!="} /\ (IsPtr(t) \/ IsPtr(u)) ->
         LET v == IF IsPtr(t) THEN a ELSE Truncate(a)
             w == IF IsPtr(u) THEN b ELSE Truncate(b)
         IN Value(2 * Flag(CASE op = "<" -> v < w [] op = "==" -> v = w [] op = "!=" -> v # w), m)
    [] op = "-" /\ IsPtr(t) /\ IsPtr(u) -> Value(2 * (a - b), m)
    [] op \in {"+", "-"} /\ IsPtr(t) /\ ~IsPtr(u) -> Value(IF op = "+" THEN a + b \div 2 ELSE a - b \div 2, m)
    [] op = "+" /\ ~IsPtr(t) /\ IsPtr(u) -> Value(b + a \div 2, m)
    [] OTHER -> Arith(op, a, t, b, u, m)

(***************************************************************************)
(* The type of an expression in Core C (the constructors of C_Expr), of a  *)
(* checked expression as its value is translated.                          *)
(***************************************************************************)
RECURSIVE CoreType(_)
CoreType(e) ==
  CASE e[1] = "bin" ->
         (LET t == CoreType(e[3])
              u == CoreType(e[4])
          IN CASE CoreTag(t) = "Pointer" /\ CoreTag(u) # "Pointer" -> t
               [] CoreTag(t) = "FunPtr" \/ CoreTag(u) = "Pointer" -> IntT
               [] OTHER -> t)
    [] e[1] = "un" -> IF e[2] = "!" THEN IntT ELSE CoreType(e[3])
    [] e[1] = "cond" -> CoreType(e[3])
    [] e[1] = "comma" -> CoreType(e[3])
    [] e[1] = "asgn" -> IF e[2] = "" THEN CoreType(e[4]) ELSE CoreType(<<"bin", e[2], e[3], e[4]>>)
    [] e[1] \in {"sizeT", "sizeE"} -> Base("UInt")
    [] OTHER -> CDecay(CType(e))

\* how an expression is executed: by C's rules, or as its translation is, where
\* a value that is not ignored may be kept in a temporary (ExprTrans::Tempvar)
Inner(how) == IF how = "C" THEN "C" ELSE "kept"

Temporary(how, v, t, e) ==
  IF how = "kept" /\ CoreTag(CoreType(e)) \notin {"Abstract", "StructUnion"} THEN Convert(v, t, CoreType(e)) ELSE v

RECURSIVE Eval(_, _, _)
RECURSIVE Place(_, _, _)
Place(e, m, how) ==
  CASE e[1] = "var" -> Value(Address[e[2]], m)
    [] e[1] = "deref" -> Eval(e[2], m, how)
    [] e[1] = "index" -> Eval(<<"bin", "+", e[2], e[3]>>, m, how)
    [] e[1] = "dot" -> Then(Place(e[2], m, how), LAMBDA a, n : Value(a + Offset(CType(e[2]), e[3]), n))
    [] OTHER -> Undefined

Assignment(e, m, how) ==
  LET rv(x) == CDecay(CType(x))
      t == IF e[2] = "" THEN rv(e[4]) ELSE CType(<<"bin", e[2], e[3], e[4]>>)
  IN Then(Eval(e[4], m, Inner(how)), LAMBDA v, n :
       Then(Place(e[3], n, Inner(how)), LAMBDA a, k :
         IF a \notin DOMAIN k THEN Undefined
         ELSE LET w == IF e[2] = "" THEN Value(v, k) ELSE Apply(e[2], k[a], rv(e[3]), v, rv(e[4]), k)
                  kept == Temporary(how, w.v, t, e)
                  stored == Convert(kept, IF how = "kept" THEN CoreType(e) ELSE t, CType(e))
              IN IF w.ok THEN Value(IF how = "kept" THEN kept ELSE stored, [k EXCEPT ![a] = stored]) ELSE Undefined))

Eval(e, m, how) ==
  LET rv(x) == CDecay(CType(x))
      in == Inner(how)
  IN
  CASE e[1] = "num" -> Value(IF e[3][2] \in {"Float", "Double"} THEN e[2] ELSE 2 * e[2], m)
    [] e[1] = "null" -> Value(0, m)
    [] e[1] \in {"var", "deref", "index", "dot"} ->
         Then(Place(e, m, in), LAMBDA a, n :
           IF CType(e)[1] \in {"array", "fun"} THEN Value(a, n)
           ELSE IF a \in DOMAIN n THEN Value(n[a], n) ELSE Undefined)
    [] e[1] = "addr" -> Place(e[2], m, in)
    [] e[1] = "cast" -> Then(Eval(e[3], m, in), LAMBDA v, n : Value(Convert(v, rv(e[3]), e[2]), n))
    [] e[1] = "un" ->
         Then(Eval(e[3], m, in), LAMBDA v, n :
           CASE e[2] = "!" -> Value(2 * Flag(v = 0), n)
             [] e[2] = "+" -> Value(Convert(v, rv(e[3]), CType(e)), n)
             [] e[2] = "-" -> Arith("-", 0, IntT, v, rv(e[3]), n)
             [] e[2] = "~" -> Value(2 * Wrap(-(Convert(v, rv(e[3]), CType(e)) \div 2) - 1, Underlying(CType(e))), n))
    [] e[1] = "bin" /\ e[2] \in {"&&", "||"} ->
         Then(Eval(e[3], m, in), LAMBDA v, n :
           IF (v = 0) = (e[2] = "&&") THEN Value(2 * Flag(v # 0), n)
           ELSE Then(Eval(e[4], n, in), LAMBDA w, k : Value(2 * Flag(w # 0), k)))
    [] e[1] = "bin" /\ e[2] \notin {"&&", "||"} ->
         Then(Eval(e[3], m, in), LAMBDA v, n :
           Then(Eval(e[4], n, in), LAMBDA w, k : Apply(e[2], v, rv(e[3]), w, rv(e[4]), k)))
    [] e[1] = "comma" -> Then(Eval(e[2], m, IF how = "C" THEN "C" ELSE "ignored"), LAMBDA v, n : Eval(e[3], n, how))
    [] e[1] = "cond" ->
         Then(Eval(e[2], m, in), LAMBDA v, n :
           LET b == IF v # 0 THEN e[3] ELSE e[4]
           IN Then(Eval(b, n, how), LAMBDA w, k :
                IF how = "C" THEN Value(Convert(w, rv(b), CType(e)), k) ELSE Value(Temporary(how, w, rv(b), e), k)))
    [] e[1] \in {"asgn", "step"} ->
         Assignment(IF e[1] = "asgn" THEN e ELSE <<"asgn", "+", e[2], <<"num", 1, IntT>>>>, m, how)
    [] e[1] \in {"sizeT", "sizeE"} -> Value(2 * Size(IF e[1] = "sizeT" THEN e[2] ELSE CType(e[2])), m)
    [] e[1] = "call" ->
         IF e[3] = <<>> THEN Value(0, m)
         ELSE Then(Eval(e[3][1], m, in), LAMBDA v, n :
                LET t == Target(rv(e[2])) IN Value(Convert(v, rv(e[3][1]), t[2][1][1]), n))

(***************************************************************************)
(* The assertions the translation meets: those of the constructors of      *)
(* C_Expr, and ExprTrans::coerce.                                          *)
(***************************************************************************)
BinaryAsserts(op, t, u) ==
  CASE CoreTag(t) = "Pointer" -> IF CoreTag(u) = "Pointer" THEN op \in {"-", "<", "==", "!="} ELSE op \in {"+", "-"}
    [] CoreTag(t) = "FunPtr" -> CoreTag(u) = "FunPtr" /\ op \in {"==", "!="}
    [] OTHER -> CoreTag(u) # "Pointer"

Subexpressions(e) ==
  CASE e[1] \in {"num", "null", "var", "sizeT"} -> {}
    [] e[1] = "call" -> {e[2]} \cup {e[3][i] : i \in DOMAIN e[3]}
    [] e[1] \in {"addr", "deref", "step", "sizeE", "dot"} -> {e[2]}
    [] e[1] \in {"un", "cast"} -> {e[3]}
    [] e[1] \in {"index", "comma"} -> {e[2], e[3]}
    [] e[1] \in {"bin", "asgn"} -> {e[3], e[4]}
    [] e[1] = "cond" -> {e[2], e[3], e[4]}

RECURSIVE Asserted(_)
Asserted(e) ==
  /\ \A x \in Subexpressions(e) : Asserted(x)
  /\ CASE e[1] = "bin" -> e[2] \in {"&&", "||"} \/ BinaryAsserts(e[2], CoreType(e[3]), CoreType(e[4]))
       [] e[1] = "index" -> BinaryAsserts("+", CoreType(e[2]), CoreType(e[3]))
       [] e[1] = "asgn" -> e[2] = "" \/ BinaryAsserts(e[2], CoreType(e[3]), CoreType(e[4]))
       [] e[1] = "step" -> BinaryAsserts("+", CoreType(e[2]), IntT)
       [] e[1] = "cond" -> ~\E b \in {e[3], e[4]} : b[1] = "cast" /\ IsVoid(b[2])
       [] OTHER -> TRUE

(***************************************************************************)
(* Where C puts the elements of an initializer of type t: pairs of a path  *)
(* of members and an element (not part of C-Mix).                          *)
(***************************************************************************)
Below(k, places) == {<<<<k>> \o pl[1], pl[2]>> : pl \in places}
Width(t) == CASE t[1] = "array" -> t[2][2] [] t[1] = "struct" -> Len(Members(t)) [] OTHER -> 1
PartType(t, k) == IF t[1] = "array" THEN Target(t) ELSE Members(t)[k].type
IsText(i, t) == IsString(i) /\ t[1] = "array" /\ Target(t)[1] = "base"

RECURSIVE Placed(_, _)
RECURSIVE FillParts(_, _, _, _)
\* the first of the items is for an object of type t: [at, rest]
Fill(items, t) ==
  LET i == Head(items)
  IN IF i[1] = "list" THEN [at |-> Placed(i, t), rest |-> Tail(items)]
     ELSE IF IsText(i, t) \/ t[1] \notin {"array", "struct", "union"}
     THEN [at |-> {<<<<>>, i[2]>>}, rest |-> Tail(items)]
     ELSE FillParts(items, t, 1, {})
FillParts(items, t, k, at) ==
  IF items = <<>> \/ (t[1] = "array" /\ t[2][2] >= 0 /\ k > t[2][2]) \/ (t[1] # "array" /\ k > Width(t))
  THEN [at |-> at, rest |-> items]
  ELSE LET f == Fill(items, PartType(t, k)) IN FillParts(f.rest, t, k + 1, at \cup Below(k, f.at))
\* braces around the items of i, for an object of type t; <<0>> marks too many items
Placed(i, t) ==
  LET alone == i[1] = "list" /\ Len(i[2]) = 1
      f == IF i[1] = "elem" THEN Fill(<<i>>, t)
           ELSE IF alone /\ (IsText(i[2][1], t) \/ t[1] \notin {"array", "struct", "union"}) THEN Fill(i[2], t)
           ELSE FillParts(i[2], t, 1, {})
  IN f.at \cup (IF f.rest = <<>> THEN {} ELSE {<<<<0>>, <<>>>>})

\* the expression as it was written, without implicit casts
RECURSIVE Plain(_)
Plain(i) == IF i[1] = "list" THEN <<"list", [k \in DOMAIN i[2] |-> Plain(i[2][k])]>>
            ELSE <<"elem", IF i[2][1] = "cast" THEN i[2][3] ELSE i[2]>>

(***************************************************************************)
(* The parts of a program that the checker types one by one: an expression *)
(* that is a statement, a condition, a selector, a returned value, or a    *)
(* declaration with an initializer:                                        *)
(*   <<"expr", e>>, <<"test", e>>, <<"switch", e>>, <<"return", t, e>>,    *)
(*   <<"decl", t, initializer>>                                            *)
(***************************************************************************)
Init ==
  /\ part \in Parts
  /\ phase = "parsed"
  /\ checked = <<>>
  /\ junk \in {0, 1}

CheckAs(r, next) ==
  /\ checked' = r
  /\ phase' = IF r.err THEN "rejected" ELSE next
  /\ UNCHANGED <<part, junk>>

CheckExpr == phase = "parsed" /\ part[1] = "expr" /\ CheckAs(Full(part[2]), "checked")
CheckCondition == phase = "parsed" /\ part[1] = "test" /\ CheckAs(CheckTest(part[2]), "checked")
CheckSwitch == phase = "parsed" /\ part[1] = "switch" /\ CheckAs(CheckSelector(part[2]), "checked")
CheckReturn == phase = "parsed" /\ part[1] = "return" /\ CheckAs(CheckReturned(part[2], part[3]), "checked")
CheckVarDecl == phase = "parsed" /\ part[1] = "decl" /\ CheckAs(CheckDecl(part[2], part[3]), "declared")

Translate ==
  /\ phase = "checked"
  /\ phase' = IF Asserted(checked.e) THEN "translated" ELSE "aborted"
  /\ UNCHANGED <<part, checked, junk>>

Next == CheckExpr \/ CheckCondition \/ CheckSwitch \/ CheckReturn \/ CheckVarDecl \/ Translate

Spec == Init /\ [][Next]_vars

\* what is seen of a part: the memory it leaves, and the value that is tested or returned
Seen(p, e, r) ==
  CASE p[1] = "expr" -> <<r.ok, r.m>>
    [] p[1] = "test" -> <<r.ok, r.m, r.v # 0>>
    [] p[1] = "switch" -> <<r.ok, r.m, r.v>>
    [] p[1] = "return" -> <<r.ok, r.m, IF r.ok THEN Convert(r.v, CDecay(CType(e)), p[2]) ELSE 0>>
Observed(p, e, m, how) == Seen(p, e, Eval(e, m, how))

\* meant[1]: C defines what happens
SameAs(meant, seen) == meant[1] => seen = meant

\* The residual program computes what the subject program computes: an accepted part
\* of a program is translated without failing an assertion, and wherever C defines
\* what it does, its translation leaves the same memory, takes the same branch and
\* returns the same value.
ValuesSurvive ==
  /\ phase # "aborted"
  /\ phase = "translated" =>
       \A m \in Memories :
         SameAs(Observed(part, part[Len(part)], m, "C"),
                Observed(part, checked.e, m, IF part[1] = "expr" THEN "ignored" ELSE "kept"))

\* Braces put in or taken away by the checker leave every element of an initializer
\* where C puts it, as it was written, and an array gets the size C gives it.
InitializersKeepPlace ==
  phase = "declared" =>
    /\ LET meant == Placed(Plain(part[3]), part[2])
       IN <<<<0>>, <<>>>> \in meant \/ Placed(Plain(checked.i), checked.type) = meant
    /\ (IsString(part[3]) /\ part[2][2][2] = -1) => checked.type[2][2] = Len(part[3][2][2]) + 1
=============================================================================
