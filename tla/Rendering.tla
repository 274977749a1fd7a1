----------------------------- MODULE Rendering -----------------------------
(***************************************************************************)
(* The two listings of a program: the C program as its front end holds it  *)
(* (outcpgm.cc) and its translation to Core C (outcore.cc), whose types    *)
(* come from c2core.cc.  Both put in parentheses, or leave them out, by    *)
(* precedence.  A case is printed and the text is read by the grammar of   *)
(* CSyntax.                                                                *)
(*                                                                         *)
(* A text is a sequence of pieces, " " being any white space.  Core types  *)
(* are <<"base", tag>>, <<"abstract", name>>, <<"user", key, tag>>,         *)
(* <<"ptr", qualifiers of the next type, type>>, <<"funptr", type>>,        *)
(* <<"array", qualifiers of the next type, size, type>> and                 *)
(* <<"fun", parameters, varargs, result>>.                                  *)
(***************************************************************************)
EXTENDS CSyntax

CONSTANTS Cases,         \* what is printed: a set of <<kind, tree>>
          WellKnown      \* names declared by the headers of well-known libraries

VARIABLES case,          \* the member of Cases at hand
          phase,         \* "tree", "text" or "read"
          text,          \* the tokens printed
          result         \* the tree read from them

vars == <<case, phase, text, result>>

(******************************* PIECES ***********************************)
\* what a scanner makes of two symbols without white space between them
Glued(a, b) == IF a = b /\ a \in {"-", "+", "&"} THEN <<a \o b>>
               ELSE IF a \in {"-", "+"} /\ b = a \o a THEN <<b, a>> ELSE <<a, b>>
Lexed(pieces) ==
  FoldLeft(LAMBDA tokens, i :
             CASE pieces[i] = " " -> tokens
               [] i > 1 /\ pieces[i] # " " /\ pieces[i - 1] # " " ->
                    Front(tokens) \o Glued(Last(tokens), pieces[i])
               [] OTHER -> Append(tokens, pieces[i]),
           <<>>, [i \in DOMAIN pieces |-> i])

\* OutputList: a separator between the elements; o_Null elements are left out
Separated(lists, separator) ==
  FoldLeft(LAMBDA all, l : IF l = <<>> THEN all ELSE IF all = <<>> THEN l ELSE all \o separator \o l, <<>>, lists)
\* ... and one after the last
Ended(lists, separator) == FoldLeft(LAMBDA all, l : IF l = <<>> THEN all ELSE all \o l \o separator, <<>>, lists)
Map(list, Op(_)) == [i \in DOMAIN list |-> Op(list[i])]
InParentheses(pieces, needed) == IF needed THEN <<"(">> \o pieces \o <<")">> ELSE pieces

BaseText(tag) ==
  CASE tag = "unsigned int" -> <<"unsigned", " ", "int">>
    [] tag = "short int" -> <<"short">>
    [] tag = "unsigned short int" -> <<"unsigned", " ", "short">>
    [] tag = "long int" -> <<"long">>
    [] tag = "unsigned long int" -> <<"unsigned", " ", "long">>
    [] tag = "signed char" -> <<"signed", " ", "char">>
    [] tag = "unsigned char" -> <<"unsigned", " ", "char">>
    [] tag = "long double" -> <<"long", " ", "double">>
    [] OTHER -> <<tag>>

\* BinaryExpr::precedence and binary2prec
BinaryPrecedence(op) == 5 + 2 * (CHOOSE level \in DOMAIN Levels : op \in Levels[level])

(**************************** C: TYPES ************************************)
ConstVol(cv) == (IF "volatile" \in cv THEN <<"volatile", " ">> ELSE <<>>)
                \o (IF "const" \in cv THEN <<"const", " ">> ELSE <<>>)
After(pieces, middle) == IF middle = <<>> THEN pieces ELSE pieces \o <<" ">> \o middle

RECURSIVE ExprText(_), TypeText(_, _, _), Precedence(_), StmtText(_), InitText(_)
BaseTypeText(t, middle) == After(ConstVol(t[2]) \o BaseText(t[3]), middle)
AbsTypeText(t, middle) == After(ConstVol(t[2]) \o <<t[3]>>, middle)
UserTypeText(t, middle) == After(ConstVol(t[2]) \o <<t[3], " ", t[4]>>, middle)
PtrTypeText(t, middle) == TypeText(t[3], ConstVol(t[2]) \o <<"*">> \o middle, TRUE)
ArrayTypeText(t, middle, precedence) ==
  TypeText(t[4], InParentheses(middle, precedence /\ middle # <<>>) \o <<"[">>
                 \o (IF t[3] = Nothing THEN <<>> ELSE ExprText(t[3])) \o <<"]">>, FALSE)
FunTypeText(t, middle, precedence) ==
  LET params == Map(t[3], LAMBDA p : TypeText(p, <<>>, FALSE))
      all == IF t[4] THEN Append(params, <<"...">>) ELSE params
  IN TypeText(t[5], InParentheses(middle, precedence) \o <<"(">> \o Separated(all, <<",">>) \o <<")">>, FALSE)
TypeText(t, middle, precedence) ==
  CASE t[1] = "base" -> BaseTypeText(t, middle)
    [] t[1] = "abstract" -> AbsTypeText(t, middle)
    [] t[1] = "user" -> UserTypeText(t, middle)
    [] t[1] = "ptr" -> PtrTypeText(t, middle)
    [] t[1] = "array" -> ArrayTypeText(t, middle, precedence)
    [] t[1] = "fun" -> FunTypeText(t, middle, precedence)

(************************** C: EXPRESSIONS ********************************)
Precedence(e) ==
  CASE e[1] \in {"Var", "Const", "TypeSize"} -> 31
    [] e[1] \in {"Null", "Call", "Array", "Dot", "Post"} -> 29
    [] e[1] = "Cast" -> IF e[4] THEN Precedence(e[3]) ELSE 27
    [] e[1] \in {"Pre", "ExprSize", "Unary"} -> 27
    [] e[1] = "Binary" -> BinaryPrecedence(e[2])
    [] e[1] = "Cond" -> 5
    [] e[1] = "Assign" -> 3
    [] e[1] = "Comma" -> 1

\* Variant with a defect: an operand of the precedence just below needs no parentheses
Par_lower(precedence, e) == InParentheses(ExprText(e), Precedence(e) < precedence - 2)
Par(precedence, e) == InParentheses(ExprText(e), Precedence(e) < precedence)

ArrayExprText(e) == Par(29, e[2]) \o <<"[">> \o ExprText(e[3]) \o <<"]">>
UnaryExprText(e) == <<e[2]>> \o Par(27, e[3])
PostExprText(e) == Par(29, e[3]) \o <<e[2]>>
PreExprText(e) == <<e[2]>> \o Par(27, e[3])
CondExprText(e) == ExprText(e[2]) \o <<" ", "?", " ">> \o ExprText(e[3]) \o <<" ", ":", " ">> \o ExprText(e[4])
CallExprText(e) == Par(29, e[2]) \o <<"(">> \o Separated(Map(e[3], ExprText), <<",", " ">>) \o <<")">>
DotExprText(e) == Par(29, e[2]) \o <<".", e[3]>>
TypeSizeText(e) == <<"sizeof", "(">> \o TypeText(e[2], <<>>, FALSE) \o <<")">>
ExprSizeText(e) == <<"sizeof", "(">> \o ExprText(e[2]) \o <<")">>
CastExprText(e) ==
  IF e[4] THEN ExprText(e[3]) ELSE <<"(">> \o TypeText(e[2], <<>>, FALSE) \o <<")">> \o Par(27, e[3])
CommaExprText(e) == Par(1, e[2]) \o <<",", " ">> \o Par(1, e[3])
AssignExprText(e) == Par(3, e[3]) \o <<" ", e[2], " ">> \o Par(3, e[4])
BinaryExprText(e) ==
  LET p == BinaryPrecedence(e[2]) IN Par(p, e[3]) \o <<" ", e[2], " ">> \o Par(p, e[4])
ExprText(e) ==
  CASE e[1] \in {"Var", "Const"} -> <<e[2]>>
    [] e[1] = "Null" -> <<"NULL">>
    [] e[1] = "Array" -> ArrayExprText(e)
    [] e[1] = "Unary" -> UnaryExprText(e)
    [] e[1] = "Post" -> PostExprText(e)
    [] e[1] = "Pre" -> PreExprText(e)
    [] e[1] = "Cond" -> CondExprText(e)
    [] e[1] = "Call" -> CallExprText(e)
    [] e[1] = "Dot" -> DotExprText(e)
    [] e[1] = "TypeSize" -> TypeSizeText(e)
    [] e[1] = "ExprSize" -> ExprSizeText(e)
    [] e[1] = "Cast" -> CastExprText(e)
    [] e[1] = "Comma" -> CommaExprText(e)
    [] e[1] = "Assign" -> AssignExprText(e)
    [] e[1] = "Binary" -> BinaryExprText(e)

(************************** C: DECLARATIONS *******************************)
InitText(i) ==
  IF i[1] = "Elem" THEN ExprText(i[2]) ELSE <<"{">> \o Separated(Map(i[2], InitText), <<",", " ">>) \o <<"}">>

\* <<"Decl", storage, name, type, initializer>>
ObjDeclText(d) == (IF d[2] = "" THEN <<>> ELSE <<d[2], " ">>) \o TypeText(d[4], <<d[3]>>, FALSE)
Omitted(d) == d[2] = "extern" /\ d[3] \in WellKnown
VarDeclText(d) ==
  IF Omitted(d) THEN <<>> ELSE ObjDeclText(d) \o (IF d[5] = Nothing THEN <<>> ELSE <<"=">> \o InitText(d[5]))

\* <<"FunDef", storage, name, type, names of the parameters, body>>
FunDefText(f) ==
  LET params == [i \in DOMAIN f[5] |-> TypeText(f[4][3][i], <<f[5][i]>>, FALSE)]
  IN TypeText(f[4][5], <<>>, FALSE) \o <<" ", f[3], "(">> \o Separated(params, <<",", " ">>) \o <<")", " ">>
     \o StmtText(f[6])

\* <<"Type", key, name, members>> with <<name, type, bit field size>> or <<name, value>>
MemberText(m) == TypeText(m[2], <<m[1]>>, FALSE) \o (IF m[3] = Nothing THEN <<>> ELSE <<":">> \o ExprText(m[3]))
StructDeclText(t) ==
  <<t[2], " ", t[3]>> \o (IF t[4] = Nothing THEN <<>>
                          ELSE <<" ", "{", " ">> \o Ended(Map(t[4], MemberText), <<";", " ">>) \o <<" ", "}">>)
  \o <<";">>
EnumDeclText(t) ==
  <<"enum", " ", t[3], " ", "{", " ">>
  \o Separated(Map(t[4], LAMBDA m : <<m[1]>> \o (IF m[2] = Nothing THEN <<>> ELSE <<"=">> \o ExprText(m[2]))),
               <<",", " ">>)
  \o <<" ", "}", ";">>

(************************** C: STATEMENTS *********************************)
CompoundText(s) ==
  <<"{", " ">> \o Ended(Map(s[2], LAMBDA d : VarDeclText(d) \o <<";">>) \o Map(s[3], StmtText), <<" ">>) \o <<" ", "}">>
IfText(s) == <<"if", "(">> \o ExprText(s[2]) \o <<")", " ">> \o StmtText(s[3]) \o <<" ", "else", " ">> \o StmtText(s[4])
SwitchText(s) == <<"switch", "(">> \o ExprText(s[2]) \o <<")", " ">> \o StmtText(s[3])
WhileText(s) == <<"while", "(">> \o ExprText(s[2]) \o <<")", " ">> \o StmtText(s[3])
DoText(s) == <<"do", " ">> \o StmtText(s[3]) \o <<"while", "(">> \o ExprText(s[2]) \o <<")", ";">>
OptionalText(e) == IF e = Nothing THEN <<>> ELSE ExprText(e)
ForText(s) ==
  <<"for", "(">> \o OptionalText(s[2]) \o <<";", " ">> \o OptionalText(s[3]) \o <<";", " ">> \o OptionalText(s[4])
  \o <<")", " ">> \o StmtText(s[5])
ReturnText(s) == <<"return">> \o (IF s[2] = Nothing THEN <<>> ELSE <<" ">> \o ExprText(s[2])) \o <<";">>
CaseText(s) == <<"case", " ">> \o ExprText(s[2]) \o <<":", " ">> \o StmtText(s[3])
StmtText(s) ==
  CASE s[1] = "Label" -> <<s[2], ":", " ">> \o StmtText(s[3])
    [] s[1] = "Case" -> CaseText(s)
    [] s[1] = "Default" -> <<"default", ":", " ">> \o StmtText(s[2])
    [] s[1] = "Compound" -> CompoundText(s)
    [] s[1] = "Expr" -> ExprText(s[2]) \o <<";">>
    [] s[1] = "If" -> IfText(s)
    [] s[1] = "Dummy" -> <<";">>
    [] s[1] = "Switch" -> SwitchText(s)
    [] s[1] = "While" -> WhileText(s)
    [] s[1] = "Do" -> DoText(s)
    [] s[1] = "For" -> ForText(s)
    [] s[1] = "Goto" -> <<"goto", " ", s[2], ";">>
    [] s[1] = "Break" -> <<"break", ";">>
    [] s[1] = "Cont" -> <<"continue", ";">>
    [] s[1] = "Return" -> ReturnText(s)

\* CProgram::output: types, then objects, then functions
TopLevelText(d) ==
  CASE d[1] = "Type" -> IF d[2] = "enum" THEN EnumDeclText(d) ELSE StructDeclText(d)
    [] d[1] = "Decl" -> IF Omitted(d) THEN <<>> ELSE VarDeclText(d) \o <<";">>
    [] d[1] = "FunDef" -> FunDefText(d)
ProgramText(program) == Ended(Map(program, TopLevelText), <<" ">>)

(***************************** CORE C: TYPES ******************************)
\* PtrType::trans, ArrayType::trans, ...: the qualifiers of an object stand with the pointer to it
RECURSIVE Trans(_), CoreTypeText(_, _, _), CoreText(_, _), CoreInitText(_)
TransPtr(t) == LET next == Trans(t[3])
               IN IF next[1] = "fun" THEN <<"funptr", next>> ELSE <<"ptr", t[3][2], next>>
TransArray(t) == <<"array", t[4][2], t[3], Trans(t[4])>>
TransFun(t) == <<"fun", Map(t[3], Trans), t[4], Trans(t[5])>>
Trans(t) ==
  CASE t[1] = "base" -> <<"base", t[3]>>
    [] t[1] = "abstract" -> <<"abstract", t[3]>>
    [] t[1] = "user" -> <<"user", t[3], t[4]>>
    [] t[1] = "ptr" -> TransPtr(t)
    [] t[1] = "array" -> TransArray(t)
    [] t[1] = "fun" -> TransFun(t)
\* VarDecl::trans and StructDecl::trans, of <<name, type, initializer>>: the qualifiers stand with the name
Object(d) == [name |-> d[1], type |-> Trans(d[2]), qualifiers |-> d[2][2], init |-> d[3]]

\* Variant with a defect: qualifiers are put behind the star
Qualified_behind(cv, pieces) ==
  IF cv = {} THEN pieces ELSE pieces \o <<" ">> \o (IF "const" \in cv THEN <<"const">> ELSE <<"volatile">>)
\* apply
Qualified(cv, pieces) == (IF "const" \in cv THEN <<"const", " ">> ELSE <<>>)
                         \o (IF "volatile" \in cv THEN <<"volatile", " ">> ELSE <<>>) \o pieces
CoreTypeText(t, middle, precedence) ==
  CASE t[1] = "base" -> After(BaseText(t[2]), middle)
    [] t[1] = "abstract" -> After(<<t[2]>>, middle)
    [] t[1] = "user" -> After(<<t[2], " ", t[3]>>, middle)
    [] t[1] = "ptr" -> CoreTypeText(t[3], Qualified(t[2], <<"*">> \o middle), TRUE)
    [] t[1] = "funptr" -> CoreTypeText(t[2], <<"*">> \o middle, TRUE)
    [] t[1] = "array" ->
         CoreTypeText(t[4], Qualified(t[2], InParentheses(middle, precedence /\ middle # <<>>) \o <<"[">>
                              \o (IF t[3] = Nothing THEN <<>> ELSE ExprText(t[3])) \o <<"]">>), FALSE)
    [] t[1] = "fun" ->
         CoreTypeText(t[4], InParentheses(middle, precedence /\ middle # <<>>) \o <<"(">>
                            \o Separated(Map(t[2], LAMBDA p : CoreTypeText(p, <<>>, FALSE)), <<",", " ">>)
                            \o <<")">>, FALSE)

(************************** CORE C: EXPRESSIONS ***************************)
Bracket(pieces, inner, outer) == InParentheses(pieces, outer > inner)

\* deref: the object whose address is e
RECURSIVE Deref(_, _)
Deref(e, prec) ==
  CASE e[1] = "C_Var" -> <<e[2]>>
    [] e[1] = "C_PtrArith" /\ e[2] = "+" ->
         Bracket(CoreText(e[3], 29) \o <<"[">> \o CoreText(e[4], 0) \o <<"]">>, 29, prec)
    [] e[1] = "C_Member" ->
         Bracket(IF e[2][1] = "C_DeRef" THEN CoreText(e[2], 29) \o <<"->", e[3]>>
                 ELSE Deref(e[2], 29) \o <<".", e[3]>>, 29, prec)
    [] OTHER -> Bracket(<<"*">> \o CoreText(e, 27), 27, prec)

CoreBinaryText(e, prec) ==
  LET p == BinaryPrecedence(e[2])
  IN Bracket(CoreText(e[3], p) \o <<" ", e[2], " ">> \o CoreText(e[4], p + 1), p, prec)
CoreText(e, prec) ==
  CASE e[1] \in {"C_Cnst", "C_EnumCnst", "C_ExtFun", "C_FunAdr"} -> <<e[2]>>
    [] e[1] = "C_Null" -> <<"NULL">>
    [] e[1] \in {"C_Var", "C_Member"} -> Bracket(<<"&">> \o Deref(e, 27), 27, prec)
    [] e[1] \in {"C_DeRef", "C_Array"} -> Deref(e[2], prec)
    [] e[1] = "C_Unary" -> Bracket(<<e[2]>> \o CoreText(e[3], 27), 27, prec)
    [] e[1] \in {"C_PtrArith", "C_PtrCmp", "C_Binary"} -> CoreBinaryText(e, prec)
    [] e[1] = "C_SizeofE" -> Bracket(<<"sizeof", " ">> \o CoreText(e[2], 27), 27, prec)
    [] e[1] = "C_SizeofT" -> Bracket(<<"sizeof", "(">> \o CoreTypeText(Trans(e[2]), <<>>, FALSE) \o <<")">>, 27, prec)
    [] e[1] = "C_Cast" ->
         Bracket(<<"(">> \o CoreTypeText(Trans(e[2]), <<>>, FALSE) \o <<")">> \o CoreText(e[3], 27), 27, prec)

(******************* CORE C: STATEMENTS AND DECLARATIONS ******************)
Label(n) == "L" \o ToString(n)
JumpText(j) ==
  CASE j[1] = "C_If" -> <<"if", " ", "(">> \o CoreText(j[2], 0) \o <<")", " ", "goto", " ", Label(j[3]), ";", " ",
                                                                     "else", " ", "goto", " ", Label(j[4])>>
    [] j[1] = "C_Goto" -> <<"goto", " ", Label(j[2])>>
    [] j[1] = "C_Return" -> <<"return">> \o (IF j[2] = Nothing THEN <<>> ELSE <<" ">> \o CoreText(j[2], 0))
CoreStmtText(s) ==
  (IF s[2] = Nothing THEN <<>> ELSE Deref(s[2], 4) \o <<" ", "=", " ">>)
  \o (CASE s[1] = "C_Assign" -> CoreText(s[3], 4)
        [] s[1] = "C_Call" -> CoreText(s[3], 30) \o <<"(">>
                              \o Separated(Map(s[4], LAMBDA a : CoreText(a, 2)), <<",", " ">>) \o <<")">>
        [] s[1] = "C_Free" -> <<"free", "(">> \o CoreText(s[3], 0) \o <<")">>)
  \o <<";">>
\* <<number, statements, jump>>; sequence points are not printed
BlockText(b) ==
  <<Label(b[1]), ":", " ">>
  \o Ended(Map(SelectSeq(b[2], LAMBDA s : s[1] # "C_Sequence"), CoreStmtText), <<" ">>)
  \o JumpText(b[3]) \o <<";", " ">>

CoreInitText(i) ==
  CASE i[1] = "Simple" -> CoreText(i[2], 2)
    [] i[1] = "String" -> <<i[2]>>
    [] i[1] = "Braced" -> <<"{", " ">> \o Separated(Map(i[2], CoreInitText), <<",", " ">>) \o <<"}">>
CoreDeclText(d) ==
  LET o == Object(d)
  IN CoreTypeText(o.type, Qualified(o.qualifiers, <<o.name>>), FALSE)
     \o (IF o.init = Nothing THEN <<>> ELSE <<" ", "=", " ">> \o CoreInitText(o.init))

\* <<"Fun", name, parameters, varargs, result, locals, blocks>>
CoreFunText(f) ==
  LET params == Map(f[3], CoreDeclText)
      head == <<f[2], "(">> \o Separated(IF f[4] THEN Append(params, <<"...">>) ELSE params, <<",", " ">>) \o <<")">>
  IN CoreTypeText(Trans(f[5]), head, FALSE) \o <<" ", "{", " ">> \o Ended(Map(f[6], CoreDeclText), <<";", " ">>)
     \o FlattenSeq(Map(f[7], BlockText)) \o <<" ", "}", " ">>

CoreEnumText(t) ==
  <<"enum", " ", t[3], " ", "{">>
  \o Separated(Map(t[4], LAMBDA m : <<m[1]>> \o (IF m[2] = Nothing THEN <<>> ELSE <<"=">> \o CoreText(m[2], 0))), <<",", " ">>)
  \o <<"}">>
CoreStructText(t) ==
  <<t[2], " ", t[3], " ", "{", " ">>
  \o Ended(Map(t[4], CoreDeclText), <<";", " ">>) \o <<" ", "}">>

\* Outcore::operator(): <<"Type", key, name, members>>, <<"Var", storage, declaration>> or <<"Fun", ...>>
CoreTopLevelText(d) ==
  CASE d[1] = "Type" -> (IF d[2] = "enum" THEN CoreEnumText(d) ELSE CoreStructText(d)) \o <<";">>
    [] d[1] = "Var" -> (IF d[2] = "" THEN <<>> ELSE <<d[2], " ">>) \o CoreDeclText(d[3]) \o <<";">>
    [] d[1] = "Fun" -> CoreFunText(d)
CoreProgramText(program) == Ended(Map(program, CoreTopLevelText), <<" ">>)

(***************************** MEANING ************************************)
\* What a Core C program says, as a C tree: the value of an expression, and the object at an address
RECURSIVE Value(_), Designated(_), Plain(_), PlainStmt(_), InitMeaning(_), Erased(_), Unqualified(_)
Designated(e) ==
  CASE e[1] = "C_Var" -> <<"Var", e[2]>>
    [] e[1] = "C_Member" -> <<"Dot", Designated(e[2]), e[3]>>
    [] OTHER -> <<"Unary", "*", Value(e)>>
Value(e) ==
  CASE e[1] \in {"C_Cnst", "C_EnumCnst"} -> <<"Const", e[2]>>
    [] e[1] \in {"C_ExtFun", "C_FunAdr"} -> <<"Var", e[2]>>
    [] e[1] = "C_Null" -> <<"Null">>
    [] e[1] \in {"C_Var", "C_Member"} -> <<"Unary", "&", Designated(e)>>
    [] e[1] \in {"C_DeRef", "C_Array"} -> Designated(e[2])
    [] e[1] = "C_Unary" -> <<"Unary", e[2], Value(e[3])>>
    [] e[1] \in {"C_PtrArith", "C_PtrCmp", "C_Binary"} -> <<"Binary", e[2], Value(e[3]), Value(e[4])>>
    [] e[1] = "C_SizeofE" -> <<"ExprSize", Value(e[2])>>
    [] e[1] = "C_SizeofT" -> <<"TypeSize", Unqualified(e[2])>>
    [] e[1] = "C_Cast" -> <<"Cast", Unqualified(e[2]), Value(e[3]), FALSE>>

\* qualifiers of values, that is of results, parameters and casts, mean nothing
Erased(t) ==
  CASE t[1] = "ptr" -> [t EXCEPT ![3] = Erased(@)]
    [] t[1] = "array" -> [t EXCEPT ![4] = Erased(@)]
    [] t[1] = "fun" -> <<"fun", {}, Map(t[3], Unqualified), t[4], Unqualified(t[5])>>
    [] OTHER -> t
Unqualified(t) == [Erased(t) EXCEPT ![2] = {}]

\* The form in which trees are compared: without casts that are not printed, and with a[i] as *(a + i)
Plain(e) ==
  CASE e[1] \in {"Var", "Const", "nothing", "TypeSize", "unreadable"} -> e
    [] e[1] = "Null" -> <<"Var", "NULL">>
    [] e[1] = "Array" -> <<"Unary", "*", <<"Binary", "+", Plain(e[2]), Plain(e[3])>>>>
    [] e[1] \in {"Unary", "Post", "Pre"} -> [e EXCEPT ![3] = Plain(@)]
    [] e[1] = "Cond" -> <<"Cond", Plain(e[2]), Plain(e[3]), Plain(e[4])>>
    [] e[1] = "Call" -> <<"Call", Plain(e[2]), Map(e[3], Plain)>>
    [] e[1] \in {"Dot", "ExprSize"} -> [e EXCEPT ![2] = Plain(@)]
    [] e[1] = "Cast" -> IF e[4] THEN Plain(e[3]) ELSE [e EXCEPT ![3] = Plain(@)]
    [] e[1] = "Comma" -> <<"Comma", Plain(e[2]), Plain(e[3])>>
    [] e[1] \in {"Assign", "Binary"} -> [e EXCEPT ![3] = Plain(@), ![4] = Plain(@)]
PlainInit(i) == IF i[1] = "Elem" THEN <<"Elem", Plain(i[2])>> ELSE i
PlainDecl(d) == IF d[1] = "Decl" THEN [d EXCEPT ![5] = PlainInit(@)] ELSE d
PlainStmt(s) ==
  CASE s[1] = "Compound" -> <<"Compound", Map(s[2], PlainDecl), Map(s[3], PlainStmt)>>
    [] s[1] \in {"Expr", "Return"} -> [s EXCEPT ![2] = Plain(@)]
    [] s[1] = "Label" -> [s EXCEPT ![3] = PlainStmt(@)]
    [] s[1] = "If" -> <<"If", Plain(s[2]), PlainStmt(s[3]), PlainStmt(s[4])>>
    [] OTHER -> s
PlainProgram(ds) == IF ds = <<"unreadable">> THEN ds ELSE Map(ds, LAMBDA d : IF d[1] = "FunDef" THEN [d EXCEPT ![6] = PlainStmt(@)] ELSE PlainDecl(d))

StmtMeaning(s) ==
  LET value == CASE s[1] = "C_Assign" -> Value(s[3])
                 [] s[1] = "C_Call" -> <<"Call", Value(s[3]), Map(s[4], Value)>>
                 [] s[1] = "C_Free" -> <<"Call", <<"Var", "free">>, <<Value(s[3])>>>>
  IN <<"Expr", IF s[2] = Nothing THEN value ELSE <<"Assign", "=", Designated(s[2]), value>>>>
JumpMeaning(j) ==
  CASE j[1] = "C_If" -> <<"If", Value(j[2]), <<"Goto", Label(j[3])>>, <<"Goto", Label(j[4])>>>>
    [] j[1] = "C_Goto" -> <<"Goto", Label(j[2])>>
    [] j[1] = "C_Return" -> <<"Return", IF j[2] = Nothing THEN Nothing ELSE Value(j[2])>>
BlockMeaning(b) ==
  LET stmts == Append(Map(SelectSeq(b[2], LAMBDA s : s[1] # "C_Sequence"), StmtMeaning), JumpMeaning(b[3]))
  IN [stmts EXCEPT ![1] = <<"Label", Label(b[1]), @>>]
InitMeaning(i) ==
  CASE i[1] = "Simple" -> <<"Elem", Value(i[2])>>
    [] i[1] = "String" -> <<"Elem", <<"Const", i[2]>>>>
    [] i[1] = "Braced" -> <<"List", Map(i[2], InitMeaning)>>
DeclMeaning(storage, d) ==
  <<"Decl", storage, d[1], Erased(d[2]), IF d[3] = Nothing THEN Nothing ELSE InitMeaning(d[3])>>
ProgramMeaning(program) ==
  LET meaning(d) ==
        CASE d[1] = "Type" ->
               IF d[2] = "enum"
               THEN [d EXCEPT ![4] = Map(@, LAMBDA m : <<m[1], IF m[2] = Nothing THEN Nothing ELSE Value(m[2])>>)]
               ELSE [d EXCEPT ![4] = Map(@, LAMBDA m : <<m[1], Erased(m[2]), Nothing>>)]
          [] d[1] = "Var" -> DeclMeaning(d[2], d[3])
          [] d[1] = "Fun" ->
               <<"FunDef", "", d[2], <<"fun", {}, Map(d[3], LAMBDA p : Erased(p[2])), d[4], Unqualified(d[5])>>,
                 Map(d[3], LAMBDA p : p[1]),
                 <<"Compound", Map(d[6], LAMBDA l : DeclMeaning("", l)), FlattenSeq(Map(d[7], BlockMeaning))>>>>
  IN Map(program, meaning)

(***************************** PRINT AND READ *****************************)
Pieces(c) ==
  CASE c[1] = "expression" -> ExprText(c[2])
    [] c[1] = "statement" -> StmtText(c[2])
    [] c[1] = "program" -> ProgramText(c[2])
    [] c[1] = "core expression" -> CoreText(c[2], 0)
    [] c[1] = "core program" -> CoreProgramText(c[2])
    [] c[1] = "specifiers" -> c[2]

Whole(s, r) == IF Failed(r) \/ r.next # Len(s) + 1 THEN <<"unreadable">> ELSE r.tree
Nonterminal(kind) ==
  CASE kind \in {"expression", "core expression"} -> "comma_expression"
    [] kind = "statement" -> "statement"
    [] kind \in {"program", "core program"} -> "translation_unit"
    [] kind = "specifiers" -> "declaration_specifiers"
Compared(kind, tree) ==
  CASE kind \in {"expression", "core expression"} -> Plain(tree)
    [] kind = "core program" -> PlainProgram(tree)
    [] OTHER -> tree
ReadAs(kind, s) == Compared(kind, Whole(s, Parse(Nonterminal(kind), s, 1)))

Init == /\ case \in Cases
        /\ phase = "tree"
        /\ text = <<>>
        /\ result = <<>>

PrintTree == /\ phase = "tree"
             /\ phase' = "text"
             /\ text' = Lexed(Pieces(case))
             /\ UNCHANGED <<case, result>>

Read == /\ phase = "text"
        /\ phase' = "read"
        /\ result' = ReadAs(case[1], text)
        /\ UNCHANGED <<case, text>>

Next == PrintTree \/ Read
Spec == Init /\ [][Next]_vars

(***************************** PROPERTIES *********************************)
(* Where the listings depart from the program they show.  The cases meet   *)
(* none of these at a node that Departs names.                             *)
Starts(e, symbol) ==
  \/ e[1] = "Unary" /\ e[2] = symbol
  \/ e[1] = "Pre" /\ e[2] = symbol \o symbol
Departs(e) ==
  CASE e[1] = "Binary" -> Precedence(e[4]) = Precedence(e)        \* a - (b - c) is printed a - b - c
    [] e[1] = "Comma" -> e[3][1] = "Comma"
    [] e[1] = "Cond" -> Precedence(e[2]) <= 5 \/ Precedence(e[4]) < 5    \* no operand gets parentheses
    [] e[1] = "Call" -> \E i \in DOMAIN e[3] : e[3][i][1] = "Comma"       \* f((a, b)) is printed f(a, b)
    [] e[1] = "Unary" -> e[2] \in {"-", "+", "&"} /\ Starts(e[3], e[2])   \* - -a is printed --a
    [] OTHER -> FALSE
CoreDeparts(e) ==
  CASE e[1] = "C_Unary" -> e[3][1] = "C_Unary" /\ e[2] = e[3][2] /\ e[2] = "-"
    [] e[1] = "C_SizeofE" -> e[2][1] = "C_Cast"                           \* sizeof (T)a
    [] OTHER -> FALSE

\* The listing of the C program says what the program says: read by the grammar, the text of
\* every expression, statement and program gives the tree it was printed from, without the casts
\* that the type checker added and the declarations that the headers make (outcpgm.cc against gram.y).
ListingReadsBack ==
  phase = "read" =>
    /\ case[1] = "expression" => result = Plain(case[2])
    /\ case[1] = "statement" => result = case[2]
    /\ case[1] = "program" => result = SelectSeq(case[2], LAMBDA d : d[1] # "Decl" \/ ~Omitted(d))

\* The listing of the Core C program is C with the meaning of the Core C program: every address and
\* every value in it is written as the C expression that denotes it, and every object has the type,
\* with its qualifiers, that it had in C before the translation (c2core.cc, outcore.cc against gram.y).
CoreListingMeans ==
  phase = "read" =>
    /\ case[1] = "core expression" => result = Plain(Value(case[2]))
    /\ case[1] = "core program" => result = PlainProgram(ProgramMeaning(case[2]))

\* The types of C and the ways to write them, in any order (ISO C90, 6.5.2)
TypesOfC ==
  ("void" :> {{"void"}}) @@ ("char" :> {{"char"}}) @@ ("signed char" :> {{"signed", "char"}})
  @@ ("unsigned char" :> {{"unsigned", "char"}})
  @@ ("short int" :> {{"short"}, {"signed", "short"}, {"short", "int"}, {"signed", "short", "int"}})
  @@ ("unsigned short int" :> {{"unsigned", "short"}, {"unsigned", "short", "int"}})
  @@ ("int" :> {{"int"}, {"signed"}, {"signed", "int"}})
  @@ ("unsigned int" :> {{"unsigned"}, {"unsigned", "int"}})
  @@ ("long int" :> {{"long"}, {"signed", "long"}, {"long", "int"}, {"signed", "long", "int"}})
  @@ ("unsigned long int" :> {{"unsigned", "long"}, {"unsigned", "long", "int"}})
  @@ ("float" :> {{"float"}}) @@ ("double" :> {{"double"}}) @@ ("long double" :> {{"long", "double"}})

\* Whatever their order, specifiers, qualifiers and a storage class name the type that C says they
\* name, and are rejected when C gives them no meaning; a repeated specifier is the exception, for
\* which the parser only warns (syntax.cc: combine, determine_type).
SpecifiersMean ==
  (phase = "read" /\ case[1] = "specifiers") =>
    LET words == ToSet(case[2])
        names == words \intersect BasicNames
        storage == words \intersect StorageClasses
        types == {tag \in DOMAIN TypesOfC : names \in TypesOfC[tag]}
        legal == types # {} /\ Cardinality(storage) <= 1
    IN IF legal
       THEN /\ ~Wrong(result)
            /\ TypeOf(result) = <<"base", words \intersect Qualifiers, CHOOSE tag \in types : TRUE>>
            /\ storage = {result.storage} \ {""}
       ELSE Wrong(result)
=============================================================================
