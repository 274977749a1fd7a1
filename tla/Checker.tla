------------------------------ MODULE Checker ------------------------------
(***************************************************************************)
(* The type checker (check.cc): it types expressions bottom up and makes   *)
(* conversions explicit that C makes implicitly.  Afterwards every         *)
(* expression has the type the translation to Core C (c2core.cc) relies    *)
(* on, and an operation whose operands have the same type is the same in   *)
(* the residual program.                                                   *)
(* An expression is a tuple:                                               *)
(*   <<"num", value, type>>, <<"null", type>>, <<"var", x>>,               *)
(*   <<"call", f, args>>, <<"index", e, e>>, <<"dot", e, member>>,         *)
(*   <<"addr", e>>, <<"deref", e>>, <<"un", op, e>>, <<"step", e>>,        *)
(*   <<"sizeT", type>>, <<"sizeE", e>>, <<"cast", type, e>>,               *)
(*   <<"bin", op, e, e>>, <<"comma", e, e>>, <<"cond", e, e, e>>,          *)
(*   <<"asgn", op, e, e>>                                                  *)
(* A checked one is a record with the rewritten expression e, its type ty, *)
(* rval (not an lvalue), const (a literal), known (the set of its value,   *)
(* or {}), and err (it was complained about).                              *)
(***************************************************************************)
EXTENDS Integers, Sequences, FiniteSets, SequencesExt

CONSTANT
  Variables    \* x |-> [type, known, enum]: known is the value of a simple initializer, or {}

VARIABLE junk  \* what knownValue holds, where nobody has set it

----------------------------------------------------------------------------
(***************************************************************************)
(* C's types as the front end keeps them (cpgm.h, cpgm.cc).  A type is a   *)
(* tuple <<kind, what, qualifiers>>:                                       *)
(*   <<"base", tag, q>>         one of Tags                                *)
(*   <<"abs", properties, q>>   a type of a library, known by properties   *)
(*   <<"ptr", type, q>>, <<"array", <<type, size>>, q>>                    *)
(*   <<"fun", <<parameters, result, varargs>>, q>>                         *)
(*   <<"struct", members, q>>, <<"union", members, q>>, <<"enum", name, q>>*)
(* where a member is a record [name, type].  A size is a number, or -1 if  *)
(* there is none; a set of qualifiers is a subset of {"const"}.            *)
(***************************************************************************)
Tags == <<"Void", "Char", "SChar", "UChar", "Short", "UShort", "Int", "UInt", "Long", "ULong", "Float", "Double">>
Rank(tag) == CHOOSE n \in DOMAIN Tags : Tags[n] = tag

Base(tag) == <<"base", tag, {}>>
Ptr(t) == <<"ptr", t, {}>>
Array(t, n) == <<"array", <<t, n>>, {}>>
Fun(params, ret, varargs) == <<"fun", <<params, ret, varargs>>, {}>>
Const(t) == [t EXCEPT ![3] = @ \cup {"const"}]

IntT == Base("Int")
LongT == Base("Long")
SizeT == <<"abs", {"i"}, {}>>

IsVoid(t) == t[1] = "base" /\ t[2] = "Void"
IsPtr(t) == t[1] = "ptr"
Target(t) == IF t[1] = "ptr" THEN t[2] ELSE t[2][1]
Members(t) == t[2]

RECURSIVE Qualifiers(_)
Qualifiers(t) == IF t[1] = "array" THEN Qualifiers(Target(t)) ELSE t[3]

RECURSIVE Equals(_, _)
\* operator==: qualifiers count below a pointer only
Equals(t, u) ==
  /\ t[1] = u[1]
  /\ CASE t[1] = "ptr" -> Target(t)[3] = Target(u)[3] /\ Equals(Target(t), Target(u))
       [] t[1] = "array" -> Equals(Target(t), Target(u))
       [] t[1] = "fun" ->
            /\ Equals(t[2][2], u[2][2])
            /\ \A i \in DOMAIN t[2][1] \cap DOMAIN u[2][1] : Equals(t[2][1][i], u[2][1][i])
            /\ Len(t[2][1]) > Len(u[2][1]) => u[2][3]
            /\ Len(t[2][1]) < Len(u[2][1]) => t[2][3]
       [] OTHER -> t[2] = u[2]

IsIntegral(t) ==
  CASE t[1] = "base" -> t[2] \notin {"Void", "Float", "Double"}
    [] t[1] = "abs" -> "i" \in t[2]
    [] OTHER -> t[1] = "enum"

IsArithmetic(t) ==
  CASE t[1] = "base" -> t[2] # "Void"
    [] t[1] = "abs" -> t[2] \cap {"a", "i"} # {}
    [] OTHER -> t[1] = "enum"

RECURSIVE IsObject(_)
IsObject(t) ==
  CASE t[1] = "base" -> t[2] # "Void"
    [] t[1] = "fun" -> FALSE
    [] t[1] = "array" -> t[2][2] # -1 /\ IsObject(Target(t))
    [] t[1] \in {"struct", "union"} -> Members(t) # <<>>
    [] OTHER -> TRUE

RECURSIVE IsModifiable(_)
IsModifiable(t) ==
  /\ "const" \notin t[3]
  /\ IsObject(t)
  /\ t[1] \in {"struct", "union"} => \A i \in DOMAIN Members(t) : IsModifiable(Members(t)[i].type)

IsObjPtr(t) == IsPtr(t) /\ IsObject(Target(t))

RECURSIVE AddQualifiers(_, _)
AddQualifiers(t, q) ==
  IF q \subseteq Qualifiers(t) THEN t
  ELSE IF t[1] = "array" THEN [t EXCEPT ![2][1] = AddQualifiers(@, q)]
  ELSE [t EXCEPT ![3] = @ \cup q]

(***************************************************************************)
(* Types of Core C (class C_Type): qualifiers are kept by the pointers to  *)
(* them, size_t is a primitive type, and pointers to functions differ from *)
(* other pointers.  CoreEqual is C_Type::equal.                            *)
(***************************************************************************)
CoreTag(t) ==
  CASE t[1] = "ptr" -> IF Target(t)[1] = "fun" THEN "FunPtr" ELSE "Pointer"
    [] t[1] = "array" -> "Array"
    [] t[1] = "fun" -> "Function"
    [] t[1] \in {"struct", "union"} -> "StructUnion"
    [] t[1] = "enum" -> "EnumType"
    [] t[1] = "base" -> IF t[2] = "Void" THEN "Abstract" ELSE "Primitive"
    [] t[1] = "abs" -> IF t[2] \cap {"i", "a"} = {} THEN "Abstract" ELSE "Primitive"

RECURSIVE CoreEqual(_, _)
CoreEqual(t, u) ==
  /\ CoreTag(t) = CoreTag(u)
  /\ CASE CoreTag(t) = "Pointer" -> Target(t)[3] = Target(u)[3] /\ CoreEqual(Target(t), Target(u))
       [] CoreTag(t) = "FunPtr" -> CoreEqual(Target(t), Target(u))
       [] CoreTag(t) = "Array" -> Target(t)[3] = Target(u)[3] /\ CoreEqual(Target(t), Target(u))
       [] CoreTag(t) = "Function" ->
            /\ \A i \in DOMAIN t[2][1] \cap DOMAIN u[2][1] : CoreEqual(t[2][1][i], u[2][1][i])
            /\ CoreEqual(t[2][2], u[2][2])
       [] OTHER -> t[1] = u[1] /\ t[2] = u[2]

----------------------------------------------------------------------------
(***************************************************************************)
(* Expressions.                                                            *)
(***************************************************************************)

Checked(e, t, err) == [e |-> e, ty |-> t, rval |-> TRUE, const |-> FALSE, known |-> {}, err |-> err]
LValue(r) == [r EXCEPT !.rval = FALSE]

\* force_type: an implicit cast becomes an explicit one
Force(t, r) == IF Equals(t, r.ty) THEN r ELSE [r EXCEPT !.e = <<"cast", t, @>>, !.ty = t, !.rval = TRUE, !.const = FALSE]

NullOf(r, t) == [r EXCEPT !.e = <<"null", t>>, !.ty = t, !.const = TRUE, !.known = {}]

\* assign_cvt, pointers: cases III and IV of the standard
PointersAssignable(t, u) ==
  /\ IsPtr(t) /\ IsPtr(u)
  /\ IsVoid(Target(t)) \/ IsVoid(Target(u)) \/ Equals(Target(t), Target(u))
  /\ Qualifiers(Target(u)) \subseteq Qualifiers(Target(t))

AssignCvt(t, r) ==
  IF \/ Equals(t, r.ty)
     \/ (IsArithmetic(t) /\ IsArithmetic(r.ty))
     \/ PointersAssignable(t, r.ty)
  THEN r
  ELSE IF IsPtr(t) /\ IsIntegral(r.ty) /\ r.const /\ r.known \subseteq {0}
  THEN NullOf(r, t)
  ELSE [r EXCEPT !.err = TRUE]

CheckedForce(t, r) == Force(t, AssignCvt(t, r))

BooleanOperand(r) ==
  CASE IsPtr(r.ty) -> [Checked(<<"bin", "!=", r.e, <<"null", r.ty>>>>, IntT, r.err) EXCEPT !.known = {}]
    [] r.ty[1] = "base" -> r
    [] OTHER -> CheckedForce(IntT, r)

DecayCheck(r) ==
  CASE r.ty[1] = "array" -> [r EXCEPT !.e = <<"cast", Ptr(Target(r.ty)), @>>, !.ty = Ptr(Target(r.ty)), !.rval = TRUE, !.const = FALSE]
    [] r.ty[1] = "fun" -> [r EXCEPT !.e = <<"cast", Ptr(r.ty), @>>, !.ty = Ptr(r.ty), !.rval = TRUE, !.const = FALSE]
    [] OTHER -> r

\* the usual arithmetic conversions, and those of the branches of a condition
ArithCvt(t0, u0) ==
  LET t == IF t0[1] = "enum" THEN IntT ELSE t0
      u == IF u0[1] = "enum" THEN IntT ELSE u0
  IN CASE t[1] = "abs" -> t
       [] t[1] # "abs" /\ u[1] = "abs" -> u
       [] "abs" \notin {t[1], u[1]} /\ Equals(t, u) -> t
       [] t[1] = "base" /\ u[1] = "base" /\ t[2] # u[2] -> IF Rank(t[2]) > Rank(u[2]) THEN t ELSE u
       [] IsPtr(t) /\ IsPtr(u) /\ ~Equals(t, u) ->
            (CASE Equals(Target(t), Target(u)) -> Ptr(AddQualifiers(Target(t), Qualifiers(Target(u))))
               [] ~Equals(Target(t), Target(u)) /\ IsVoid(Target(t)) -> u
               [] OTHER -> t)
       [] OTHER -> IF IsPtr(t) /\ IsPtr(u) THEN t ELSE IF IsIntegral(t) THEN u ELSE t

(***************************************************************************)
(* Expressions, after their operands were checked.                         *)
(***************************************************************************)
CheckNum(v, t) ==
  [Checked(<<"num", v, t>>, t, FALSE) EXCEPT !.const = TRUE,
     !.known = IF t[2] \in {"Int", "UInt", "Long", "ULong"} THEN {v} ELSE {}]

CheckVar(x) ==
  [Checked(<<"var", x>>, Variables[x].type, FALSE) EXCEPT !.rval = Variables[x].enum, !.known = Variables[x].known]

CheckCall(f, as) ==
  IF ~(IsPtr(f.ty) /\ Target(f.ty)[1] = "fun")
  THEN Checked(<<"call", f.e, [i \in DOMAIN as |-> as[i].e]>>, f.ty, TRUE)
  ELSE LET params == Target(f.ty)[2][1]
           varargs == Target(f.ty)[2][3]
           forced == [i \in DOMAIN as |-> IF i \in DOMAIN params THEN CheckedForce(params[i], as[i]) ELSE as[i]]
       IN Checked(<<"call", f.e, [i \in DOMAIN as |-> forced[i].e]>>, Target(f.ty)[2][2],
            \/ f.err
            \/ \E i \in DOMAIN as : forced[i].err
            \/ Len(as) < Len(params)
            \/ (~varargs /\ Len(as) > Len(params)))

\* Variant with a defect: i[p] keeps its order.
CheckIndex_asWritten(a, b) ==
  LET t == IF IsPtr(a.ty) THEN a.ty ELSE b.ty
  IN LValue(Checked(<<"index", a.e, b.e>>, IF IsPtr(t) THEN Target(t) ELSE IntT, a.err \/ b.err \/ ~IsObjPtr(t)))

CheckIndex(a, b) ==
  IF IsObjPtr(a.ty) /\ IsIntegral(b.ty) THEN LValue(Checked(<<"index", a.e, b.e>>, Target(a.ty), a.err \/ b.err))
  ELSE IF IsIntegral(a.ty) /\ IsObjPtr(b.ty) THEN LValue(Checked(<<"index", b.e, a.e>>, Target(b.ty), a.err \/ b.err))
  ELSE LValue(Checked(<<"index", a.e, b.e>>, IntT, TRUE))

CheckDot(a, m) ==
  IF a.ty[1] \in {"struct", "union"} /\ \E i \in DOMAIN Members(a.ty) : Members(a.ty)[i].name = m
  THEN LET i == CHOOSE i \in DOMAIN Members(a.ty) :
                  Members(a.ty)[i].name = m /\ \A j \in 1..i-1 : Members(a.ty)[j].name # m
       IN LValue(Checked(<<"dot", a.e, m>>, AddQualifiers(Members(a.ty)[i].type, Qualifiers(a.ty)), a.err))
  ELSE Checked(<<"dot", a.e, m>>, a.ty, TRUE)

CheckAddr(a) == Checked(<<"addr", a.e>>, Ptr(a.ty), a.err \/ (a.rval /\ a.ty[1] # "fun"))

CheckDeref(a) ==
  IF IsPtr(a.ty) THEN LValue(Checked(<<"deref", a.e>>, Target(a.ty), a.err))
  ELSE LValue(Checked(<<"deref", a.e>>, a.ty, TRUE))

\* what the constructor of UnaryExpr knows of the value; it is not told of later casts
KnownUnary(op, k) ==
  CASE op = "+" -> k
    [] op = "-" -> {-v : v \in k}
    [] op = "!" -> {IF v = 0 THEN 1 ELSE 0 : v \in k}
    [] op = "~" -> {}

Promoted(r) ==
  IF r.ty[1] = "abs" \/ (r.ty[1] = "base" /\ Rank(r.ty[2]) < Rank("Int")) THEN Force(IntT, r) ELSE r

CheckSign(op, a) ==
  LET legal == IsIntegral(a.ty) \/ (op # "~" /\ IsArithmetic(a.ty))
      b == IF legal THEN Promoted(a) ELSE a
  IN [Checked(<<"un", op, b.e>>, b.ty, a.err \/ ~legal) EXCEPT !.known = KnownUnary(op, a.known)]

CheckBang(a) ==
  LET b == BooleanOperand(a)
  IN [Checked(<<"un", "!", b.e>>, IntT, b.err) EXCEPT !.known = KnownUnary("!", a.known)]

\* PreExpr and PostExpr: it must be an lvalue that may be changed
CheckStep(a) ==
  Checked(<<"step", a.e>>, a.ty, a.err \/ a.rval \/ ~IsModifiable(a.ty) \/ ~(IsObjPtr(a.ty) \/ IsArithmetic(a.ty)))

CheckTypeSize(t) == Checked(<<"sizeT", t>>, SizeT, ~IsObject(t))
CheckExprSize(a) == Checked(<<"sizeE", a.e>>, SizeT, a.err \/ ~IsObject(a.ty))

\* check.cc:1231: a cast of an integer to a pointer stays only if its value
\* is not known and what is found in its place is not 0
CheckCast(t, a) ==
  LET cast == [Checked(<<"cast", t, a.e>>, t, a.err) EXCEPT !.known = a.known]
  IN CASE \/ Equals(t, a.ty)
          \/ IsVoid(t)
          \/ (IsArithmetic(t) /\ IsArithmetic(a.ty))
          \/ (IsPtr(t) /\ IsPtr(a.ty))
          \/ (IsPtr(a.ty) /\ IsIntegral(t)) -> cast
       [] ~Equals(t, a.ty) /\ IsPtr(t) /\ IsIntegral(a.ty) ->
            IF a.known = {} /\ junk # 0 THEN cast ELSE [cast EXCEPT !.e = <<"cast", t, <<"null", t>>>>]
       [] OTHER -> [cast EXCEPT !.err = TRUE]

(***************************************************************************)
(* BinaryExpr::check, one group of operators after the other.              *)
(***************************************************************************)
Flag(x) == IF x THEN 1 ELSE 0

Known2(op, a, b) ==
  CASE op = "*" -> {a * b} [] op = "+" -> {a + b} [] op = "-" -> {a - b}
    [] op = "/" -> IF b <= 0 \/ a < 0 THEN {} ELSE {a \div b}
    [] op = "%" -> IF b <= 0 \/ a < 0 THEN {} ELSE {a % b}
    [] op = "<<" -> IF b < 0 \/ a < 0 THEN {} ELSE {a * 2^b}
    [] op = "<" -> IF b < 0 \/ a < 0 THEN {} ELSE {Flag(a < b)}
    [] op = "==" -> {Flag(a = b)} [] op = "!=" -> {Flag(a # b)}
    [] op = "&&" -> {Flag(a # 0 /\ b # 0)} [] op = "||" -> {Flag(a # 0 \/ b # 0)}

KnownBinary(op, a, b) == UNION {Known2(op, v, w) : v \in a.known, w \in b.known}

Binary(op, a, b, t, illegal) ==
  Checked(<<"bin", op, a.e, b.e>>, t, a.err \/ b.err \/ illegal)

Arithmetic(op, a, b, legal) ==
  LET t == ArithCvt(a.ty, b.ty) IN Binary(op, Force(t, a), Force(t, b), t, ~legal)

CheckMul(op, a, b) == Arithmetic(op, a, b, IsArithmetic(a.ty) /\ IsArithmetic(b.ty))

CheckMod(op, a, b) == Arithmetic(op, a, b, IsIntegral(a.ty) /\ IsIntegral(b.ty))

\* AddOrSub
PointerStep(op, a, b) ==
  IF IsObjPtr(a.ty) /\ IsIntegral(b.ty) THEN Binary(op, a, b, a.ty, FALSE) ELSE CheckMul(op, a, b)

CheckAdd(a, b) ==
  IF IsIntegral(a.ty) /\ IsObjPtr(b.ty) THEN Binary("+", a, b, b.ty, FALSE) ELSE PointerStep("+", a, b)

CheckSub(a, b) ==
  IF IsPtr(a.ty) /\ IsPtr(b.ty)
  THEN Binary("-", a, b, LongT, ~(Equals(Target(a.ty), Target(b.ty)) /\ IsObject(Target(a.ty))))
  ELSE PointerStep("-", a, b)

CheckShift(op, a, b) == Binary(op, a, b, a.ty, ~(IsIntegral(a.ty) /\ IsIntegral(b.ty)))

CheckEq(op, a, b) ==
  LET t == ArithCvt(a.ty, b.ty) IN Binary(op, CheckedForce(t, a), CheckedForce(t, b), IntT, FALSE)

CheckLess(op, a, b) ==
  IF (IsArithmetic(a.ty) /\ IsArithmetic(b.ty)) \/ (IsPtr(a.ty) /\ IsPtr(b.ty))
  THEN CheckEq(op, a, b)
  ELSE Binary(op, a, b, IntT, TRUE)

CheckLogic(op, a, b) == Binary(op, BooleanOperand(a), BooleanOperand(b), IntT, FALSE)

CheckOperands(op, a, b) ==
  CASE op = "+" -> CheckAdd(a, b)
    [] op = "-" -> CheckSub(a, b)
    [] op \in {"*", "/"} -> CheckMul(op, a, b)
    [] op = "%" -> CheckMod(op, a, b)
    [] op = "<<" -> CheckShift(op, a, b)
    [] op = "<" -> CheckLess(op, a, b)
    [] op \in {"==", "!="} -> CheckEq(op, a, b)
    [] op \in {"&&", "||"} -> CheckLogic(op, a, b)
CheckBinary(op, a, b) == [CheckOperands(op, a, b) EXCEPT !.known = KnownBinary(op, a, b)]

CheckComma(a, b) == [Checked(<<"comma", a.e, b.e>>, b.ty, a.err \/ b.err) EXCEPT !.known = b.known]

CheckCond(c, a, b) ==
  LET t == ArithCvt(a.ty, b.ty)
      l == CheckedForce(t, a)
      r == CheckedForce(t, b)
      k == BooleanOperand(c)
  IN [Checked(<<"cond", k.e, l.e, r.e>>, t, k.err \/ l.err \/ r.err) EXCEPT
        !.known = IF c.known = {} THEN {} ELSE IF c.known = {0} THEN b.known ELSE a.known]

CheckAssign(op, a, b) ==
  LET number == IsArithmetic(a.ty) /\ IsArithmetic(b.ty)
      integer == IsIntegral(a.ty) /\ IsIntegral(b.ty)
      done(r, bad) == Checked(<<"asgn", op, a.e, r.e>>, a.ty, bad \/ a.err \/ r.err \/ a.rval \/ ~IsModifiable(a.ty))
  IN CASE op \in {"+", "-"} /\ IsObjPtr(a.ty) /\ IsIntegral(b.ty) -> done(b, FALSE)
       [] op \in {"+", "-", "*", "/", "%"} /\ ~(IsObjPtr(a.ty) /\ IsIntegral(b.ty) /\ op \in {"+", "-"}) ->
            IF number THEN done(Force(a.ty, b), FALSE) ELSE done(b, TRUE)
       [] op = "<<" -> done(b, ~integer)
       [] op = "" -> done(CheckedForce(a.ty, b), FALSE)

RECURSIVE Check(_)
Check(e) ==
  LET rv(x) == DecayCheck(Check(x)) IN
  CASE e[1] = "num" -> CheckNum(e[2], e[3])
    [] e[1] = "str" -> Checked(e, Array(Base("Char"), -1), FALSE)
    [] e[1] = "var" -> CheckVar(e[2])
    [] e[1] = "call" -> CheckCall(rv(e[2]), [i \in DOMAIN e[3] |-> rv(e[3][i])])
    [] e[1] = "index" -> CheckIndex(rv(e[2]), rv(e[3]))
    [] e[1] = "dot" -> CheckDot(rv(e[2]), e[3])
    [] e[1] = "addr" -> CheckAddr(Check(e[2]))
    [] e[1] = "deref" -> CheckDeref(rv(e[2]))
    [] e[1] = "un" -> IF e[2] = "!" THEN CheckBang(rv(e[3])) ELSE CheckSign(e[2], rv(e[3]))
    [] e[1] = "step" -> CheckStep(rv(e[2]))
    [] e[1] = "sizeT" -> CheckTypeSize(e[2])
    [] e[1] = "sizeE" -> CheckExprSize(Check(e[2]))
    [] e[1] = "cast" -> CheckCast(e[2], rv(e[3]))
    [] e[1] = "bin" -> CheckBinary(e[2], rv(e[3]), rv(e[4]))
    [] e[1] = "comma" -> CheckComma(rv(e[2]), rv(e[3]))
    [] e[1] = "cond" -> CheckCond(rv(e[2]), rv(e[3]), rv(e[4]))
    [] e[1] = "asgn" -> CheckAssign(e[2], rv(e[3]), rv(e[4]))

(***************************************************************************)
(* Statements.  What is said of the expressions of each: a condition, a    *)
(* selector, a value returned by a function with a result of type ret.     *)
(***************************************************************************)
Full(e) == DecayCheck(Check(e))
CheckTest(e) == BooleanOperand(Full(e))
Selector(r) == [r EXCEPT !.err = @ \/ ~IsIntegral(r.ty)]
CheckSelector(e) == Selector(Full(e))
CheckReturned(ret, e) == CheckedForce(ret, Full(e))

(***************************************************************************)
(* Initializers: <<"elem", expression>> or <<"list", items>>.  The checker *)
(* puts braces where C lets them be left out and takes away superfluous    *)
(* ones; where it cannot (the size of an array is not known to it), the    *)
(* list is "sloppy" and is left as it is.  A checked initializer is        *)
(* <<"elem", e, sloppy>> or <<"list", items, sloppy>>.  <<"str", parts>>   *)
(* is a literal, a sequence of spelled characters.                         *)
(***************************************************************************)
IsString(i) == i[1] = "elem" /\ i[2][1] = "str"

StringInitializer(i, t) ==
  /\ IsString(i)
  /\ t # <<>> => t[1] = "array" /\ Target(t)[1] = "base" /\ Target(t)[2] \in {"Char", "UChar"}

Null == <<>>
Split(res, rest, err) == [res |-> res, rest |-> rest, err |-> err]
NoSplit == Split(Null, <<>>, FALSE)

RECURSIVE SplitInit(_, _, _)
RECURSIVE SplitElements(_, _, _, _, _)

\* initializers from items for at most max elements of type t, after those done
SplitElements(items, t, max, done, err) ==
  IF items = <<>> \/ max = 0 THEN Split(<<"list", done, FALSE>>, items, err)
  ELSE LET r == SplitInit(items, t, FALSE)
       IN IF r.res = Null THEN NoSplit
          ELSE SplitElements(r.rest, t, max - 1, Append(done, r.res), err \/ r.err)

\* Variant with a defect: an array takes one item too few.
SplitArray_short(items, t, master) ==
  IF ~master /\ t[2][2] <= 0 THEN NoSplit
  ELSE SplitElements(items, Target(t), IF master THEN 2^16 ELSE t[2][2] - 1, <<>>, FALSE)

SplitArray(items, t, master) ==
  IF ~master /\ t[2][2] <= 0 THEN NoSplit
  ELSE SplitElements(items, Target(t), IF master THEN 2^16 ELSE t[2][2], <<>>, FALSE)

RECURSIVE SplitStruct(_, _, _, _)
SplitStruct(items, members, done, err) ==
  IF items = <<>> \/ members = <<>> THEN Split(<<"list", done, FALSE>>, items, err)
  ELSE LET r == SplitInit(items, Head(members).type, FALSE)
       IN IF r.res = Null THEN NoSplit
          ELSE SplitStruct(r.rest, Tail(members), Append(done, r.res), err \/ r.err)

SplitUnion(items, t) ==
  LET r == SplitInit(items, Head(Members(t)).type, FALSE)
  IN IF r.res = Null THEN NoSplit ELSE [r EXCEPT !.res = <<"list", <<@>>, FALSE>>]

Whole(items) ==
  LET i == Head(items)
  IN Split(<<i[1], i[2], i[1] = "list">>, Tail(items), i[1] = "list")

\* split_init_list: an initializer for type t from the first of the items;
\* in master mode the items were between braces that belong to t
SplitInit(items, t, master) ==
  IF ~master /\ Head(items)[1] = "list"
  THEN LET r == SplitInit(Head(items)[2], t, TRUE)
       IN IF r.res = Null THEN Split(<<"list", Head(items)[2], TRUE>>, Tail(items), FALSE)
          ELSE Split(r.res, Tail(items), r.err \/ r.rest # <<>>)
  ELSE IF t[1] = "array" THEN
         IF StringInitializer(Head(items), t) THEN Whole(items) ELSE SplitArray(items, t, master)
  ELSE IF t[1] = "struct" THEN SplitStruct(items, Members(t), <<>>, FALSE)
  ELSE IF t[1] = "union" THEN SplitUnion(items, t)
  ELSE Whole(items)

\* an element of an initializer, after its expression was checked
CheckElement(r, t) == IF t = <<>> THEN r ELSE CheckedForce(t, r)
Element(r) == [i |-> <<"elem", r.e, FALSE>>, err |-> r.err]
\* a list, after its items were checked
ListOf(rs, sloppy) ==
  [i |-> <<"list", [k \in DOMAIN rs |-> rs[k].i], sloppy>>, err |-> \E k \in DOMAIN rs : rs[k].err]

\* check_initializer; t is <<>> below a sloppy list.  The result has the errors
RECURSIVE CheckInit(_, _)
CheckInit(i, t) ==
  IF StringInitializer(i, t) THEN [i |-> <<"elem", i[2], TRUE>>, err |-> FALSE]
  ELSE IF i[1] = "elem" THEN Element(CheckElement(DecayCheck(Check(i[2])), t))
  ELSE LET sloppy == (Len(i) > 2 /\ i[3]) \/ t = <<>> \/ t[1] \notin {"array", "struct", "union"}
           of(k) == IF sloppy THEN <<>> ELSE IF t[1] = "array" THEN Target(t) ELSE Members(t)[k].type
       IN ListOf([k \in DOMAIN i[2] |-> CheckInit(i[2][k], of(k))], sloppy)

\* string_literal_length, of the characters between the quotes
Octal == {"0", "1", "2", "3", "4", "5", "6", "7"}
Hexadecimal == Octal \cup {"8", "9", "a", "f"}
Past(s, digits, max) ==
  LET n == CHOOSE n \in 0..Len(s) : (\A k \in 1..n : s[k] \in digits) /\ (n = max \/ n = Len(s) \/ s[n + 1] \notin digits)
  IN SubSeq(s, n + 1, Len(s))
RECURSIVE Characters(_)
Characters(s) ==
  IF s = <<>> THEN 0
  ELSE 1 + Characters(
    IF s[1] # "\\" THEN Tail(s)
    ELSE IF s[2] \in Octal THEN Past(Tail(Tail(s)), Octal, 2)
    ELSE IF s[2] = "x" THEN Past(Tail(Tail(s)), Hexadecimal, Len(s))
    ELSE Tail(Tail(s)))
StringLiteralLength(s) == Characters(s) + 1

\* the number of elements a checked initializer gives an array
Elements(i) ==
  IF i[1] = "list" /\ ~i[3] THEN Len(i[2])
  ELSE IF i[1] = "elem" /\ i[3] THEN StringLiteralLength(FoldLeft(LAMBDA a, b : a \o b, <<>>, i[2][2]))
  ELSE -1
Completed(t, i) == IF t[1] = "array" /\ t[2][2] = -1 THEN Array(Target(t), Elements(i)) ELSE t

\* VarDecl::check: the type is completed by the initializer; r is that
\* initializer after the check, split what it was split into before
WithType(r, split, t) == [i |-> r.i, type |-> t, err |-> r.err \/ split.err \/ ~IsObject(t)]
WithInitializer(r, split, t) == WithType(r, split, Completed(t, r.i))
CheckDeclSplit(split, t) == WithInitializer(CheckInit(split.res, t), split, t)
CheckDecl(t, init) ==
  CheckDeclSplit(IF init[1] = "list" THEN SplitInit(<<init>>, t, FALSE) ELSE Split(init, <<>>, FALSE), t)
=============================================================================
