------------------------------ MODULE CSyntax ------------------------------
(***************************************************************************)
(* The grammar of the C front end (gram.y) with the types that syntax.cc   *)
(* makes of specifiers and declarators: what a sequence of tokens is read  *)
(* as.  The grammar is read by recursive descent; every operator stands    *)
(* for one nonterminal and yields [tree, next], the tree that the rule     *)
(* builds and the position after it, or Fail; Parse(n, s, i) reads the     *)
(* nonterminal named n at i.                                               *)
(*                                                                         *)
(* Trees are tuples that begin with the name of their class.  Types:       *)
(* <<"base", cv, tag>>, <<"abstract", cv, name>>, <<"user", cv, key, tag>>, *)
(* <<"ptr", cv, type>>, <<"array", {}, size, type>>,                        *)
(* <<"fun", {}, parameters, varargs, result>>, where cv is a set of         *)
(* qualifiers.                                                             *)
(***************************************************************************)
EXTENDS Integers, Sequences, SequencesExt, FiniteSetsExt, TLC

CONSTANTS Identifiers, Typenames, Literals   \* the words of the texts

Nothing == <<"nothing">>                 \* an absent expression, size or initializer
Fail == [tree |-> Nothing, next |-> 0]
Got(tree, next) == [tree |-> tree, next |-> next]
Failed(r) == r.next = 0
At(s, i) == IF i \in DOMAIN s THEN s[i] ELSE ""
Expect(s, r, token) == IF Failed(r) \/ At(s, r.next) # token THEN Fail ELSE Got(r.tree, r.next + 1)

(**************************** SPECIFIERS **********************************)
StorageClasses == {"typedef", "extern", "static", "auto", "register"}
Qualifiers == {"const", "volatile"}
Sizes == {"short", "long"}
Signs == {"signed", "unsigned"}
BaseNames == {"int", "char", "float", "double", "void"}
BasicNames == Sizes \union Signs \union BaseNames
Keys == {"struct", "union"}
StartsType(token) == token \in Qualifiers \union BasicNames \union Keys \union {"enum"} \union Typenames
StartsDeclaration(token) == StartsType(token) \/ token \in StorageClasses

\* a Parse_Type; `wrong' remembers that an error has been reported
NoSpecifiers == [storage |-> "", cv |-> {}, type |-> "", size |-> "", sign |-> "", user |-> Nothing, wrong |-> FALSE]
OfStorage(token) == [NoSpecifiers EXCEPT !.storage = token]
OfQualifier(token) == [NoSpecifiers EXCEPT !.cv = {token}]
OfBasic(token) ==
  CASE token \in Sizes -> [NoSpecifiers EXCEPT !.size = token]
    [] token \in Signs -> [NoSpecifiers EXCEPT !.sign = token]
    [] OTHER -> [NoSpecifiers EXCEPT !.type = token]

Either(a, b) == IF a = "" THEN b ELSE a
Clash(a, b) == a # "" /\ b # "" /\ a # b

\* Variant with a defect: a size already given is replaced by the next one
CombineSizes_last(a, b) == [size |-> Either(b, a), wrong |-> FALSE]
CombineSizes(a, b) ==
  [size |-> Either(a, b), wrong |-> a # "" /\ b # "" /\ ~(a = "long" /\ b = "long")]
Combine(a, b) ==
  LET sizes == CombineSizes(a.size, b.size)
  IN [storage |-> Either(a.storage, b.storage), cv |-> a.cv \union b.cv,
      type |-> Either(a.type, b.type), size |-> sizes.size,
      sign |-> Either(a.sign, b.sign), user |-> a.user,
      wrong |-> \/ a.wrong \/ sizes.wrong \/ Clash(a.type, b.type)
                \/ Clash(a.sign, b.sign) \/ Clash(a.storage, b.storage)]
\* Parse_GeneralType::combine: a struct, union, enum or named type with a qualifier or a storage class
CombineNamed(a, b) ==
  [a EXCEPT !.storage = Either(a.storage, b.storage), !.cv = @ \union b.cv,
            !.wrong = @ \/ Clash(a.storage, b.storage)]

\* determine_type: the base type, and whether an error is reported
Determine(p) ==
  LET sign == IF p.sign = "unsigned" THEN "unsigned " ELSE ""
  IN CASE p.type \in {"", "int"} ->
            [tag |-> sign \o (IF p.size = "" THEN "" ELSE p.size \o " ") \o "int", wrong |-> FALSE]
       [] p.type = "char" ->
            [tag |-> (IF p.sign = "" THEN "" ELSE p.sign \o " ") \o "char", wrong |-> p.size # ""]
       [] p.type \in {"float", "void"} -> [tag |-> p.type, wrong |-> p.size # "" \/ p.sign # ""]
       [] p.type = "double" ->
            [tag |-> IF p.size = "long" THEN "long double" ELSE "double", wrong |-> p.sign # "" \/ p.size = "short"]

TypeOf(p) ==
  IF p.user # Nothing THEN [p.user EXCEPT ![2] = @ \union p.cv] ELSE <<"base", p.cv, Determine(p).tag>>
Wrong(p) == p.wrong \/ (p.user = Nothing /\ Determine(p).wrong)

(**************************** DECLARATORS *********************************)
\* do_parameter_decay
Decay(type) ==
  CASE type[1] = "array" -> <<"ptr", {}, type[4]>>
    [] type[1] = "fun" -> <<"ptr", {}, type>>
    [] OTHER -> type

\* a Parse_Typemod applied to the type it modifies
Applied(type, mod) ==
  CASE mod[1] = "pointer" -> <<"ptr", mod[2], type>>
    [] mod[1] = "array" -> <<"array", {}, mod[2], type>>
    [] mod[1] = "function" -> <<"fun", {}, mod[2], mod[3], type>>
MakeType(p, mods) == FoldLeft(Applied, TypeOf(p), mods)

\* the parameters of a prototype: a single void stands for none
Listed(types, varargs) ==
  IF ~varargs /\ Len(types) = 1 /\ types[1][1] = "base" /\ types[1][3] = "void" THEN <<>>
  ELSE [i \in DOMAIN types |-> Decay(types[i])]

RECURSIVE Parse(_, _, _)

TypeQualifiers(s, i) ==
  LET n == CHOOSE n \in 0..Len(s) : /\ \A j \in 0..(n - 1) : At(s, i + j) \in Qualifiers
                                    /\ At(s, i + n) \notin Qualifiers
  IN Got({s[i + j] : j \in 0..(n - 1)}, i + n)

RECURSIVE ArrayPostfix(_, _, _), ParameterList(_, _, _)
\* array_postfix: later sizes are put in front of the earlier ones
ArrayPostfix(s, i, mods) ==
  IF At(s, i) # "[" THEN Got(mods, i)
  ELSE IF At(s, i + 1) = "]" THEN (IF mods = <<>> THEN ArrayPostfix(s, i + 2, << <<"array", Nothing>> >>) ELSE Fail)
  ELSE LET size == Expect(s, Parse("conditional_expression", s, i + 1), "]")
       IN IF Failed(size) THEN Fail ELSE ArrayPostfix(s, size.next, << <<"array", size.tree>> >> \o mods)

\* parameter_list with the optional ellipsis: the declarations, and whether there is an ellipsis
ParameterList(s, i, params) ==
  LET p == Parse("declaration_specifiers", s, i)
      d == Parse("declarator", s, p.next)
      all == Append(params, [name |-> d.tree.name, type |-> MakeType(p.tree, d.tree.mods)])
  IN IF ~StartsDeclaration(At(s, i)) \/ Failed(p) THEN Fail
     ELSE IF Failed(d) THEN Fail
     ELSE IF At(s, d.next) = ")" THEN Got(<<all, FALSE>>, d.next + 1)
     ELSE IF At(s, d.next) # "," THEN Fail
     ELSE IF At(s, d.next + 1) = "..." THEN Expect(s, Got(<<all, TRUE>>, d.next + 2), ")")
     ELSE ParameterList(s, d.next + 1, all)

TypePostfix(s, i) ==
  CASE At(s, i) = "[" -> ArrayPostfix(s, i, <<>>)
    [] At(s, i) = "(" /\ At(s, i + 1) = ")" -> Got(<< <<"function", <<>>, TRUE, <<>>>> >>, i + 2)
    [] At(s, i) = "(" /\ At(s, i + 1) # ")" ->
         LET l == ParameterList(s, i + 1, <<>>)
         IN IF Failed(l) THEN Fail
            ELSE LET types == [j \in DOMAIN l.tree[1] |-> l.tree[1][j].type]
                     listed == Listed(types, l.tree[2])
                 IN Got(<< <<"function", listed, l.tree[2],
                            IF listed = <<>> THEN <<>> ELSE [j \in DOMAIN listed |-> l.tree[1][j].name]>> >>, l.next)
    [] OTHER -> Got(<<>>, i)

\* A declarator with or without a name: its name and its list of modifiers.  Prefixes and
\* postfixes are put in front of the modifiers that the declarator has already.
PrependPrefix(mod, mods) == <<mod>> \o mods
Named(name, mods) == [name |-> name, mods |-> mods]

WithPostfix(s, r) ==
  IF Failed(r) THEN Fail
  ELSE LET post == TypePostfix(s, r.next)
       IN IF Failed(post) THEN Fail ELSE Got(Named(r.tree.name, post.tree \o r.tree.mods), post.next)

Declarator(s, i) ==
  CASE At(s, i) = "*" ->
         LET q == TypeQualifiers(s, i + 1)
             d == Parse("declarator", s, q.next)
         IN IF Failed(d) THEN Fail
            ELSE Got(Named(d.tree.name, PrependPrefix(<<"pointer", q.tree>>, d.tree.mods)), d.next)
    [] At(s, i) \in Identifiers -> WithPostfix(s, Got(Named(s[i], <<>>), i + 1))
    [] At(s, i) = "(" /\ At(s, i + 1) # ")" /\ ~StartsDeclaration(At(s, i + 1)) ->
         WithPostfix(s, Expect(s, Parse("declarator", s, i + 1), ")"))
    [] OTHER -> WithPostfix(s, Got(Named("", <<>>), i))

\* type_name
TypeName(s, i) ==
  LET p == Parse("declaration_specifiers", s, i)
  IN IF Failed(p) THEN Fail
     ELSE LET d == Parse("declarator", s, p.next)
          IN IF Failed(d) THEN Fail
             ELSE IF d.tree.name # "" \/ p.tree.storage # "" THEN Fail
             ELSE Got(MakeType(p.tree, d.tree.mods), d.next)

(**************************** EXPRESSIONS *********************************)
UnaryOperators == {"&", "*", "+", "-", "~", "!"}
AssignmentOperators == {"=", "*=", "/=", "%=", "+=", "-=", "<<=", ">>=", "&=", "^=", "|="}
\* from the operators that bind least to those that bind most
Levels == << {"||"}, {"&&"}, {"|"}, {"^"}, {"&"}, {"==", "!="}, {"<", ">", "<=", ">="},
             {"<<", ">>"}, {"+", "-"}, {"*", "/", "%"} >>

PrimaryExpression(s, i) ==
  CASE At(s, i) \in Identifiers -> Got(<<"Var", s[i]>>, i + 1)
    [] At(s, i) \in Literals -> Got(<<"Const", s[i]>>, i + 1)
    [] At(s, i) = "(" -> Expect(s, Parse("comma_expression", s, i + 1), ")")
    [] OTHER -> Fail

RECURSIVE ArgumentList(_, _, _), PostfixOf(_, _), LevelOf(_, _, _), CommaOf(_, _)
\* argument_expression_list and the closing parenthesis
ArgumentList(s, i, args) ==
  LET e == Parse("assignment_expression", s, i)
  IN IF Failed(e) THEN Fail
     ELSE IF At(s, e.next) = "," THEN ArgumentList(s, e.next + 1, Append(args, e.tree))
     ELSE Expect(s, Got(Append(args, e.tree), e.next), ")")

\* postfix_expression, of which r has been read
PostfixOf(s, r) ==
  IF Failed(r) THEN Fail
  ELSE LET e == r.tree
           i == r.next
           member(of) == IF At(s, i + 1) \in Identifiers \union Typenames
                         THEN PostfixOf(s, Got(<<"Dot", of, s[i + 1]>>, i + 2)) ELSE Fail
       IN CASE At(s, i) = "[" ->
                 LET index == Expect(s, Parse("comma_expression", s, i + 1), "]")
                 IN PostfixOf(s, Got(<<"Array", e, index.tree>>, index.next))
            [] At(s, i) = "(" ->
                 LET args == IF At(s, i + 1) = ")" THEN Got(<<>>, i + 2) ELSE ArgumentList(s, i + 1, <<>>)
                 IN PostfixOf(s, Got(<<"Call", e, args.tree>>, args.next))
            [] At(s, i) = "." -> member(e)
            [] At(s, i) = "->" -> member(<<"Unary", "*", e>>)
            [] At(s, i) \in {"++", "--"} -> PostfixOf(s, Got(<<"Post", s[i], e>>, i + 1))
            [] OTHER -> r

UnaryExpression(s, i) ==
  CASE At(s, i) \in {"++", "--"} ->
         LET e == Parse("unary_expression", s, i + 1) IN Got(<<"Pre", s[i], e.tree>>, e.next)
    [] At(s, i) \in UnaryOperators ->
         LET e == Parse("cast_expression", s, i + 1) IN Got(<<"Unary", s[i], e.tree>>, e.next)
    [] At(s, i) = "sizeof" /\ At(s, i + 1) = "(" /\ StartsType(At(s, i + 2)) ->
         LET t == Expect(s, Parse("type_name", s, i + 2), ")") IN Got(<<"TypeSize", t.tree>>, t.next)
    [] At(s, i) = "sizeof" /\ ~(At(s, i + 1) = "(" /\ StartsType(At(s, i + 2))) ->
         LET e == Parse("unary_expression", s, i + 1) IN Got(<<"ExprSize", e.tree>>, e.next)
    [] OTHER -> PostfixOf(s, PrimaryExpression(s, i))

CastExpression(s, i) ==
  IF At(s, i) = "(" /\ StartsType(At(s, i + 1))
  THEN LET t == Expect(s, Parse("type_name", s, i + 1), ")")
       IN IF Failed(t) THEN Fail
          ELSE LET e == Parse("cast_expression", s, t.next) IN Got(<<"Cast", t.tree, e.tree, FALSE>>, e.next)
  ELSE Parse("unary_expression", s, i)

\* multiplicative_expression ... logical_OR_expression, of which r has been read at this level
RECURSIVE Level(_, _, _)
LevelOf(s, r, level) ==
  IF Failed(r) \/ At(s, r.next) \notin Levels[level] THEN r
  ELSE LET e == Level(s, r.next + 1, level + 1)
       IN IF Failed(e) THEN Fail
          ELSE LevelOf(s, Got(<<"Binary", s[r.next], r.tree, e.tree>>, e.next), level)
Level(s, i, level) ==
  IF level > Len(Levels) THEN Parse("cast_expression", s, i) ELSE LevelOf(s, Level(s, i, level + 1), level)

Conditional(s, i) ==
  LET c == Level(s, i, 1)
  IN IF Failed(c) \/ At(s, c.next) # "?" THEN c
     ELSE LET t == Expect(s, Parse("comma_expression", s, c.next + 1), ":")
          IN IF Failed(t) THEN Fail
             ELSE LET e == Parse("conditional_expression", s, t.next) IN Got(<<"Cond", c.tree, t.tree, e.tree>>, e.next)

Assignment(s, i) ==
  LET u == Parse("unary_expression", s, i)
  IN IF ~Failed(u) /\ At(s, u.next) \in AssignmentOperators
     THEN LET e == Parse("assignment_expression", s, u.next + 1) IN Got(<<"Assign", s[u.next], u.tree, e.tree>>, e.next)
     ELSE Parse("conditional_expression", s, i)

\* comma_expression, of which r has been read
CommaOf(s, r) ==
  IF Failed(r) \/ At(s, r.next) # "," THEN r
  ELSE LET e == Parse("assignment_expression", s, r.next + 1) IN CommaOf(s, Got(<<"Comma", r.tree, e.tree>>, e.next))
CommaExpression(s, i) == CommaOf(s, Parse("assignment_expression", s, i))
CommaExpressionOpt(s, i, end) ==
  IF At(s, i) = end THEN Got(Nothing, i + 1) ELSE Expect(s, Parse("comma_expression", s, i), end)

(**************************** DECLARATIONS ********************************)
RECURSIVE InitializerList(_, _, _), EnumeratorList(_, _, _), DeclaringList(_, _, _, _), Members(_, _, _),
          ReadSpecifiers(_, _, _), Declarations(_, _, _)
Initializer(s, i) ==
  IF At(s, i) = "{" THEN InitializerList(s, i + 1, <<>>)
  ELSE LET e == Parse("assignment_expression", s, i) IN Got(<<"Elem", e.tree>>, e.next)
InitializerList(s, i, inits) ==
  LET e == Parse("initializer", s, i)
      all == Append(inits, e.tree)
  IN IF Failed(e) THEN Fail
     ELSE IF At(s, e.next) = "}" THEN Got(<<"List", all>>, e.next + 1)
     ELSE IF At(s, e.next) # "," THEN Fail
     ELSE IF At(s, e.next + 1) = "}" THEN Got(<<"List", all>>, e.next + 2)
     ELSE InitializerList(s, e.next + 1, all)
InitializerOpt(s, i) == IF At(s, i) = "=" THEN Parse("initializer", s, i + 1) ELSE Got(Nothing, i)

\* member_declaration_list: one declarator, with its bit field size
Members(s, i, members) ==
  IF At(s, i) = "}" THEN (IF members = <<>> THEN Fail ELSE Got(members, i + 1))
  ELSE LET p == Parse("declaration_specifiers", s, i)
           d == Parse("declarator", s, p.next)
           bits == IF At(s, d.next) = ":" THEN Parse("conditional_expression", s, d.next + 1) ELSE Got(Nothing, d.next)
       IN IF Failed(p) THEN Fail ELSE IF Failed(d) THEN Fail
          ELSE IF Failed(bits) \/ At(s, bits.next) # ";" THEN Fail
          ELSE Members(s, bits.next + 1,
                       Append(members, <<d.tree.name, MakeType(p.tree, d.tree.mods), bits.tree>>))

EnumeratorList(s, i, enumerators) ==
  IF At(s, i) \notin Identifiers THEN Fail
  ELSE LET value == IF At(s, i + 1) = "=" THEN Parse("conditional_expression", s, i + 2) ELSE Got(Nothing, i + 1)
           all == Append(enumerators, <<s[i], value.tree>>)
       IN IF Failed(value) THEN Fail
          ELSE IF At(s, value.next) = "," THEN EnumeratorList(s, value.next + 1, all)
          ELSE Expect(s, Got(all, value.next), "}")

\* aggregate_name and enum_name: the type, and what is between braces
Elaborated(s, i) ==
  LET name == At(s, i + 1)
      type == <<"user", {}, s[i], name>>
      body == CASE At(s, i + 2) # "{" -> Got(Nothing, i + 2)
                [] At(s, i + 2) = "{" /\ s[i] = "enum" -> EnumeratorList(s, i + 3, <<>>)
                [] OTHER -> Members(s, i + 3, <<>>)
  IN IF name \notin Identifiers \/ Failed(body) THEN Fail ELSE Got(<<type, body.tree>>, body.next)

\* declaration_specifier, type_specifier and declaration_qualifier_list
ReadSpecifiers(s, i, p) ==
  LET token == At(s, i)
      basic == p.user = Nothing
      typed == ~basic \/ p.type # "" \/ p.size # "" \/ p.sign # ""
  IN CASE token \in StorageClasses ->
            ReadSpecifiers(s, i + 1, IF basic THEN Combine(p, OfStorage(token)) ELSE CombineNamed(p, OfStorage(token)))
       [] token \in Qualifiers ->
            ReadSpecifiers(s, i + 1, IF basic THEN Combine(p, OfQualifier(token)) ELSE CombineNamed(p, OfQualifier(token)))
       [] token \in BasicNames /\ basic -> ReadSpecifiers(s, i + 1, Combine(p, OfBasic(token)))
       [] token \in Typenames /\ ~typed ->
            ReadSpecifiers(s, i + 1, CombineNamed([NoSpecifiers EXCEPT !.user = <<"abstract", {}, token>>], p))
       [] token \in Keys \union {"enum"} /\ ~typed ->
            LET name == Elaborated(s, i)
            IN IF Failed(name) THEN Fail
               ELSE ReadSpecifiers(s, name.next, CombineNamed([NoSpecifiers EXCEPT !.user = name.tree[1]], p))
       [] OTHER -> Got(p, i)

\* declaring_list, whose specifiers have been read
DeclaringList(s, i, p, declarations) ==
  LET d == Parse("declarator", s, i)
      init == InitializerOpt(s, d.next)
      all == Append(declarations, <<"Decl", p.storage, d.tree.name, MakeType(p, d.tree.mods), init.tree>>)
  IN IF Failed(d) THEN Fail
     ELSE IF d.tree.name = "" \/ Failed(init) THEN Fail
     ELSE IF At(s, init.next) = "," THEN DeclaringList(s, init.next + 1, p, all)
     ELSE Expect(s, Got(all, init.next), ";")

\* sue_type_specifier ';'
LoneStructure(s, i) ==
  LET name == Elaborated(s, i)
  IN IF Failed(name) THEN Fail
     ELSE Expect(s, Got(<< <<"Type", name.tree[1][3], name.tree[1][4], name.tree[2]>> >>, name.next), ";")

Declaration(s, i) ==
  LET lone == IF At(s, i) \in Keys \union {"enum"} THEN LoneStructure(s, i) ELSE Fail
      p == Parse("declaration_specifiers", s, i)
  IN IF ~StartsDeclaration(At(s, i)) THEN Fail
     ELSE IF ~Failed(lone) THEN lone
     ELSE IF Failed(p) THEN Fail
     ELSE IF Wrong(p.tree) THEN Fail
     ELSE DeclaringList(s, p.next, p.tree, <<>>)

Declarations(s, i, all) ==
  IF ~StartsDeclaration(At(s, i)) THEN Got(all, i)
  ELSE LET d == Parse("declaration", s, i) IN IF Failed(d) THEN Fail ELSE Declarations(s, d.next, all \o d.tree)

(**************************** STATEMENTS **********************************)
RECURSIVE StatementList(_, _, _), TranslationUnit(_, _, _)
StatementList(s, i, all) ==
  IF At(s, i) = "}" THEN Got(all, i + 1)
  ELSE LET t == Parse("statement", s, i) IN IF Failed(t) THEN Fail ELSE StatementList(s, t.next, Append(all, t.tree))

CompoundStatement(s, i) ==
  LET d == Declarations(s, i + 1, <<>>)
  IN IF At(s, i) # "{" \/ Failed(d) THEN Fail
     ELSE LET l == StatementList(s, d.next, <<>>) IN Got(<<"Compound", d.tree, l.tree>>, l.next)

ExpressionStatement(s, i) ==
  LET e == CommaExpressionOpt(s, i, ";")
  IN Got(IF e.tree = Nothing THEN <<"Dummy">> ELSE <<"Expr", e.tree>>, e.next)

\* a comma expression in parentheses, at i
Parenthesised(s, i) == IF At(s, i) = "(" THEN Expect(s, Parse("comma_expression", s, i + 1), ")") ELSE Fail

LabeledStatement(s, i) ==
  LET value == IF s[i] = "case" THEN Parse("conditional_expression", s, i + 1) ELSE Got(s[i], i + 1)
      body == IF Failed(value) \/ At(s, value.next) # ":" THEN Fail ELSE Parse("statement", s, value.next + 1)
  IN Got(CASE s[i] = "case" -> <<"Case", value.tree, body.tree>>
           [] s[i] = "default" -> <<"Default", body.tree>>
           [] OTHER -> <<"Label", s[i], body.tree>>, body.next)

SelectionStatement(s, i) ==
  LET e == Parenthesised(s, i + 1)
      body == IF Failed(e) THEN Fail ELSE Parse("statement", s, e.next)
      other == IF ~Failed(body) /\ At(s, body.next) = "else" THEN Parse("statement", s, body.next + 1)
               ELSE Got(<<"Dummy">>, body.next)
  IN IF s[i] = "switch" THEN Got(<<"Switch", e.tree, body.tree>>, body.next)
     ELSE Got(<<"If", e.tree, body.tree, other.tree>>, other.next)

WhileStatement(s, i) ==
  LET e == Parenthesised(s, i + 1)
      body == IF Failed(e) THEN Fail ELSE Parse("statement", s, e.next)
  IN Got(<<"While", e.tree, body.tree>>, body.next)
DoStatement(s, i) ==
  LET body == Expect(s, Parse("statement", s, i + 1), "while")
      e == IF Failed(body) THEN Fail ELSE Expect(s, Parenthesised(s, body.next), ";")
  IN Got(<<"Do", e.tree, body.tree>>, e.next)
ForStatement(s, i) ==
  LET e1 == IF At(s, i + 1) = "(" THEN CommaExpressionOpt(s, i + 2, ";") ELSE Fail
      e2 == IF Failed(e1) THEN Fail ELSE CommaExpressionOpt(s, e1.next, ";")
      e3 == IF Failed(e2) THEN Fail ELSE CommaExpressionOpt(s, e2.next, ")")
      body == IF Failed(e3) THEN Fail ELSE Parse("statement", s, e3.next)
  IN Got(<<"For", e1.tree, e2.tree, e3.tree, body.tree>>, body.next)

JumpStatement(s, i) ==
  CASE s[i] = "goto" -> Expect(s, Got(<<"Goto", At(s, i + 1)>>, i + 2), ";")
    [] s[i] = "continue" -> Expect(s, Got(<<"Cont">>, i + 1), ";")
    [] s[i] = "break" -> Expect(s, Got(<<"Break">>, i + 1), ";")
    [] s[i] = "return" -> LET e == CommaExpressionOpt(s, i + 1, ";") IN Got(<<"Return", e.tree>>, e.next)

Statement(s, i) ==
  LET token == At(s, i)
  IN CASE token \in {"case", "default"} \/ (token \in Identifiers /\ At(s, i + 1) = ":") -> LabeledStatement(s, i)
       [] token = "{" -> Parse("compound_statement", s, i)
       [] token \in {"if", "switch"} -> SelectionStatement(s, i)
       [] token = "while" -> WhileStatement(s, i)
       [] token = "do" -> DoStatement(s, i)
       [] token = "for" -> ForStatement(s, i)
       [] token \in {"goto", "continue", "break", "return"} -> JumpStatement(s, i)
       [] OTHER -> ExpressionStatement(s, i)

\* function_definition: the modifier that is applied last is the function's
FunctionDefinition(s, i) ==
  LET p == Parse("declaration_specifiers", s, i)
      d == Parse("declarator", s, p.next)
  IN IF Failed(p) THEN Fail ELSE IF Failed(d) THEN Fail
     ELSE IF At(s, d.next) # "{" \/ d.tree.mods = <<>> THEN Fail
     ELSE IF Last(d.tree.mods)[1] # "function" THEN Fail
     ELSE LET body == Parse("compound_statement", s, d.next)
          IN Got(<<"FunDef", p.tree.storage, d.tree.name, MakeType(p.tree, d.tree.mods),
                   Last(d.tree.mods)[4], body.tree>>, body.next)

TranslationUnit(s, i, all) ==
  IF i > Len(s) THEN Got(all, i)
  ELSE LET f == FunctionDefinition(s, i)
           d == Parse("declaration", s, i)
       IN IF ~Failed(f) THEN TranslationUnit(s, f.next, Append(all, f.tree))
          ELSE IF ~Failed(d) THEN TranslationUnit(s, d.next, all \o d.tree)
          ELSE Fail

Parse(n, s, i) ==
  CASE n = "declaration_specifiers" -> ReadSpecifiers(s, i, NoSpecifiers)
    [] n = "declarator" -> Declarator(s, i)
    [] n = "type_name" -> TypeName(s, i)
    [] n = "unary_expression" -> UnaryExpression(s, i)
    [] n = "cast_expression" -> CastExpression(s, i)
    [] n = "conditional_expression" -> Conditional(s, i)
    [] n = "assignment_expression" -> Assignment(s, i)
    [] n = "comma_expression" -> CommaExpression(s, i)
    [] n = "initializer" -> Initializer(s, i)
    [] n = "declaration" -> Declaration(s, i)
    [] n = "compound_statement" -> CompoundStatement(s, i)
    [] n = "statement" -> Statement(s, i)
    [] n = "translation_unit" -> TranslationUnit(s, i, <<>>)
=============================================================================
