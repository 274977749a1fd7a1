------------------------------ MODULE Linkage ------------------------------
(***************************************************************************)
(* Declarations in the C front end: gram.cc with its symbol tables         *)
(* (symboltable.h) and its stacks of lists (liststack.h), called from the  *)
(* declarations and blocks of gram.y, and what the translation to Core C   *)
(* takes from the result (c2core.cc).  The files of a program are read one *)
(* after the other; objects, functions, structs and enumerators with the   *)
(* same name become one thing, or not, as their scopes and linkages say.   *)
(*                                                                         *)
(* `parser' is the state of the code.  `program' is what the text means in *)
(* C: which entity every declaration is about, from C's own rules of scope *)
(* and linkage.                                                            *)
(*                                                                         *)
(* Types: <<"int">>, <<"void">>, <<"ptr", t>>, <<"array", size, t>>,       *)
(* <<"fun", parameters, varargs, result>>, <<"user", declaration>>.        *)
(***************************************************************************)
EXTENDS Integers, Sequences, SequencesExt, FiniteSetsExt, TLC

CONSTANTS Vocabulary,    \* the events a program is made of: a set of records
          Files,         \* number of files
          MaxLevel,
          KnownLimit,    \* the largest constant with a known value (0x7FFF)
          Deviations     \* the departures from C that programs may meet

VARIABLES words,         \* the member of Vocabulary that this program uses
          parser, program,
          phase          \* "open", "initializer" (one is to come) or "finished"

vars == <<words, parser, program, phase>>

NULL == 0
None == -1               \* no initializer; an array of unknown size; an enumerator without a value
Anonymous == "$"         \* stands for a name that is made up and so never looked up again
IntType == <<"int">>

(*************************** SYMBOL TABLES ********************************)
LookupAt(scopes, i, n) == IF n \in DOMAIN scopes[i] THEN scopes[i][n] ELSE NULL
LookupLocal(scopes, n) == LookupAt(scopes, Len(scopes), n)
LookupGlobal(scopes, n) == LookupAt(scopes, 1, n)
Lookup(scopes, n) ==
  LET levels == {i \in DOMAIN scopes : n \in DOMAIN scopes[i]}
  IN IF levels = {} THEN NULL ELSE scopes[Max(levels)][n]
Inserted(scopes, n, x) == [scopes EXCEPT ![Len(scopes)] = (n :> x) @@ @]
Level(P) == Len(P.names) - 1

InsertName(P, n, d) ==
  [P EXCEPT !.lastAdded = d, !.names = IF n = Anonymous THEN @ ELSE Inserted(@, n, d)]

EnterScope(P) ==
  [P EXCEPT !.names = Append(@, <<>>), !.usernames = Append(@, <<>>),
            !.objects = Append(@, <<>>), !.userstack = Append(@, <<>>)]
LeaveScope(P) ==
  [P EXCEPT !.names = Front(@), !.usernames = Front(@), !.objects = Front(@), !.userstack = Front(@)]

\* ListStack::push_back and push_back_global of a declaration
PushBack(P, d) == [P EXCEPT !.objects[Len(P.objects)] = Append(@, d)]
PushBackGlobal(P, d) == [P EXCEPT !.objects[1] = Append(@, d)]

\* clean_up_between_files
Restart(P) == [P EXCEPT !.names = << <<>> >>, !.usernames = << <<>> >>]

\* an error is reported or an assertion fails
Fail(P) == [P EXCEPT !.failed = TRUE]
FailIf(P, bad) == IF bad THEN Fail(P) ELSE P

(**************************** DECLARATIONS ********************************)
Decl(kind, name, linkage, type, varmode) ==
  [kind |-> kind, name |-> name, linkage |-> linkage, type |-> type, varmode |-> varmode,
   init |-> None, refer_to |-> NULL, stmts |-> FALSE, decls |-> {}]
VarDecl(name, type, linkage, varmode) == Decl("var", name, linkage, type, varmode)
FunDef(name, type, linkage, decls) ==
  [Decl("fun", name, linkage, type, "none") EXCEPT !.decls = decls]
New(P, decl) == [P EXCEPT !.heap = Append(@, decl)]
Newest(P) == Len(P.heap)

IsDefinition(d) == IF d.kind = "var" THEN d.init # None \/ d.varmode = "VarIntAuto" ELSE d.stmts

SetInitializer(P, d, value) ==
  IF P.heap[d].init # None \/ P.heap[d].kind = "fun" THEN Fail(P) ELSE [P EXCEPT !.heap[d].init = value]

RECURSIVE Root(_, _)
Root(heap, d) == IF heap[d].refer_to = NULL THEN d ELSE Root(heap, heap[d].refer_to)

Unspecified(t) == t[2] = <<>> /\ t[3]
IsFun(t) == t[1] = "fun"
\* the size of both of two arrays
ArraySize(a, b) == IF a = None THEN b ELSE a
\* constants whose value is not known are assumed equal, with a warning
EqualConstants(a, b) == a > KnownLimit \/ b > KnownLimit \/ a = b

(***************************************************************************)
(* unify_types: makes both types their composite type, and ties together   *)
(* the structs and enumerations they mention.  The result has the new      *)
(* parser and the new types.                                               *)
(***************************************************************************)
Unified(P, a, b) == [P |-> P, a |-> a, b |-> b, ok |-> TRUE]
Mismatch(P, a, b) == [Unified(P, a, b) EXCEPT !.ok = FALSE]

RECURSIVE Unify(_, _, _), UnifyAll(_, _, _), UnifyMembers(_, _, _, _)

Prefixed(u, rest) == [rest EXCEPT !.a = <<u.a>> \o @, !.b = <<u.b>> \o @]
UnifyRest(u, as, bs) ==
  IF ~u.ok THEN Mismatch(u.P, as, bs) ELSE Prefixed(u, UnifyAll(u.P, Tail(as), Tail(bs)))

UnifyAll(P, as, bs) ==
  IF as = <<>> THEN Unified(P, as, bs) ELSE UnifyRest(Unify(P, Head(as), Head(bs)), as, bs)

\* members i, i+1, ... of two structs; u is what the types of member i became
UnifyFrom(u, s1, s2, i) ==
  IF ~u.ok THEN Mismatch(u.P, <<>>, <<>>)
  ELSE UnifyMembers([u.P EXCEPT !.users[s1].members[i].type = u.a, !.users[s2].members[i].type = u.b], s1, s2, i + 1)

UnifyMembers(P, s1, s2, i) ==
  IF i > Len(P.users[s1].members) THEN Unified(P, <<>>, <<>>)
  ELSE LET m1 == P.users[s1].members[i]
           m2 == P.users[s2].members[i]
       IN IF (m1.bits = None) # (m2.bits = None) \/ ~EqualConstants(m1.bits, m2.bits) THEN Mismatch(P, <<>>, <<>>)
          ELSE UnifyFrom(Unify(P, m1.type, m2.type), s1, s2, i)

\* enumerator e2 is e1 in another file
UnifyEnumerator(P, e1, e2) ==
  LET a == P.heap[e1].init
      b == P.heap[e2].init
      tied == [P EXCEPT !.heap[e2].refer_to = e1]
  IN IF a = None THEN [tied EXCEPT !.heap[e1].init = b]
     ELSE IF b = None THEN [tied EXCEPT !.heap[e2].init = a]
     ELSE IF EqualConstants(a, b) THEN tied ELSE Fail(tied)

UnlessFailed(P) == IF P.failed THEN Mismatch(P, <<>>, <<>>) ELSE Unified(P, <<>>, <<>>)

UnifyEnums(P, s1, s2) ==
  LET e1 == P.users[s1].members
      e2 == P.users[s2].members
  IN IF Len(e1) # Len(e2) THEN Mismatch(P, <<>>, <<>>)
     ELSE UnlessFailed(FoldLeft(LAMBDA R, i : IF R.failed THEN R ELSE UnifyEnumerator(R, e1[i], e2[i]), P, [i \in DOMAIN e1 |-> i]))

\* Variant with a defect: the struct that is already on top stays there
OnTop_first(P, r1, r2) == r1
\* of two structs, the one on top is complete if one of them is
OnTop(P, r1, r2) == IF P.users[r1].tag # "enum" /\ P.users[r1].members = <<>> THEN r2 ELSE r1

\* group d2 is put below group d1
UnifyGroups(P, d1, d2) ==
  IF P.users[d1].tag = "enum" THEN UnifyEnums(P, d1, d2)
  ELSE IF <<>> \in {P.users[d1].members, P.users[d2].members} THEN Unified(P, <<>>, <<>>)
  ELSE IF Len(P.users[d1].members) # Len(P.users[d2].members) THEN Mismatch(P, <<>>, <<>>)
  ELSE UnifyMembers(P, d1, d2, 1)

\* two structs or two enumerations
UnifyUsers(P, u1, u2) ==
  LET r1 == Root(P.users, u1)
      r2 == Root(P.users, u2)
      d1 == OnTop(P, r1, r2)
      d2 == IF d1 = r1 THEN r2 ELSE r1
  IN IF r1 = r2 THEN Unified(P, <<>>, <<>>) ELSE UnifyGroups([P EXCEPT !.users[d2].refer_to = d1], d1, d2)

\* the parameter lists: an unspecified one takes the other one over
Parameters(u, a, b) == [u EXCEPT !.a = [a EXCEPT ![2] = u.a], !.b = [b EXCEPT ![2] = u.b]]
UnifyParameters(P, a, b) ==
  IF Unspecified(b) THEN Unified(P, [a EXCEPT ![2] = <<>>], [b EXCEPT ![2] = a[2], ![3] = a[3]])
  ELSE IF Unspecified(a) THEN Unified(P, [a EXCEPT ![2] = b[2], ![3] = b[3]], [b EXCEPT ![2] = <<>>])
  ELSE IF Len(a[2]) # Len(b[2]) \/ a[3] # b[3] THEN Mismatch(P, a, b)
  ELSE Parameters(UnifyAll(P, a[2], b[2]), a, b)

\* around the parts that have been unified
Pointers(u) == [u EXCEPT !.a = <<"ptr", u.a>>, !.b = <<"ptr", u.b>>]
ArrayTypes(u, a, b) == [u EXCEPT !.a = <<"array", ArraySize(a[2], b[2]), u.a>>, !.b = <<"array", ArraySize(b[2], a[2]), u.b>>]
Results(p, u) == [u EXCEPT !.a = [p.a EXCEPT ![4] = u.a], !.b = [p.b EXCEPT ![4] = u.b]]
UnifyResults(p, a, b) == IF ~p.ok THEN Mismatch(p.P, a, b) ELSE Results(p, Unify(p.P, a[4], b[4]))

Unify(P, a, b) ==
  IF a[1] # b[1] THEN Mismatch(P, a, b)
  ELSE CASE a[1] \in {"int", "void"} -> Unified(P, a, b)
         [] a[1] = "ptr"   -> Pointers(Unify(P, a[2], b[2]))
         [] a[1] = "array" -> IF None \notin {a[2], b[2]} /\ ~EqualConstants(a[2], b[2]) THEN Mismatch(P, a, b)
                              ELSE ArrayTypes(Unify(P, a[3], b[3]), a, b)
         [] a[1] = "fun"   -> UnifyResults(UnifyParameters(P, a, b), a, b)
         [] a[1] = "user"  -> IF P.users[a[2]].tag # P.users[b[2]].tag THEN Mismatch(P, a, b)
                              ELSE [UnifyUsers(P, a[2], b[2]) EXCEPT !.a = a, !.b = b]

(************************ STRUCTS AND ENUMERATIONS ************************)
NewUser(P, tag, name, members) ==
  LET u == Len(P.users) + 1
  IN [P EXCEPT !.users = Append(@, [tag |-> tag, members |-> members, refer_to |-> NULL]),
               !.userstack[Len(P.userstack)] = Append(@, <<u, name>>),
               !.usernames = Inserted(@, name, u)]

MakeOrReuseStruct(P, old, name) ==
  IF old # NULL /\ P.users[old].tag = "struct" THEN P
  ELSE NewUser(IF old = NULL THEN P ELSE Fail(P), "struct", name, <<>>)

\* "struct S;" and the head of "struct S { ... }": only the innermost scope counts
IntroduceStruct(P, name) == MakeOrReuseStruct(P, LookupLocal(P.usernames, name), name)
\* "struct S" in a type
FindStruct(P, name) == MakeOrReuseStruct(P, Lookup(P.usernames, name), name)

UpdateStruct(P, name, members) ==
  LET old == LookupLocal(P.usernames, name)
  IN IF P.users[old].members # <<>> THEN Fail(P) ELSE [P EXCEPT !.users[old].members = members]

FindEnum(P, name) ==
  LET old == Lookup(P.usernames, name)
  IN IF old = NULL \/ P.users[old].tag # "enum" THEN Fail(P) ELSE P

\* add_enumconst: a missing value is one more than that of the enumerator before, when that is known
EnumValue(P, consts, value) ==
  IF value # None THEN value
  ELSE IF consts = <<>> THEN 0
  ELSE LET last == P.heap[Last(consts)].init
       IN IF last # None /\ last <= KnownLimit THEN last + 1 ELSE None

AddEnumConst(P, consts, name, value) ==
  LET Q == New(P, [VarDecl(name, IntType, "NoLinkage", "VarEnum") EXCEPT !.init = EnumValue(P, consts, value)])
      old == LookupLocal(P.names, name)
      R == IF old # NULL /\ P.heap[old].linkage # "Typedef" THEN Fail(Q) ELSE Q
  IN InsertName(R, name, Newest(Q))

AddEnum(P, name, enumerators) ==
  LET first == Len(P.heap)
      Q == FoldLeft(LAMBDA R, e : AddEnumConst(R, [i \in 1..Len(R.heap) - first |-> first + i], e[1], e[2]), P, enumerators)
      R == IF LookupLocal(P.usernames, name) # NULL THEN Fail(Q) ELSE Q
  IN NewUser(R, "enum", name, [i \in DOMAIN enumerators |-> first + i])

(***************************** LINKING ************************************)
(* external_linker: one declaration of every external name is the main one *)
(* and the others refer to it, a definition to nothing.                    *)
(***************************************************************************)
\* Variant with a defect: a second definition is taken for a declaration
DefinedTwice_never(P, prev, isDefn) == FALSE
DefinedTwice(P, prev, isDefn) == isDefn /\ IsDefinition(P.heap[prev])

\* Variant with a defect: a definition does not take the place of a declaration
Swaps_never(isDefn) == FALSE
Swaps(isDefn) == isDefn

\* u: the types of the two declarations have been unified
Linked(u, name, top, below) ==
  FailIf([u.P EXCEPT !.externals[name] = top, !.heap[top].type = u.a, !.heap[below].type = u.b,
                     !.heap[below].refer_to = top], ~u.ok)

ExternalLinker(P, d, isDefn) ==
  LET name == P.heap[d].name
      prev == P.externals[name]
      top == IF Swaps(isDefn) THEN d ELSE prev
      below == IF Swaps(isDefn) THEN prev ELSE d
  IN IF name \notin DOMAIN P.externals THEN [P EXCEPT !.externals = (name :> d) @@ @]
     ELSE IF P.heap[prev].refer_to # NULL \/ P.heap[d].refer_to # NULL THEN Fail(P)
     ELSE IF DefinedTwice(P, prev, isDefn) THEN Fail(P)
     ELSE Linked(Unify(P, P.heap[top].type, P.heap[below].type), name, top, below)

\* Variant with a defect: an external declaration uses whatever it sees
KnownAtFileScope_any(P, name) == Lookup(P.names, name)
KnownAtFileScope(P, name) == LookupGlobal(P.names, name)

\* it is ex, which was declared before; u is what the types became
DeclaredAgain(P, d, ex, u, tentative) ==
  IF ~u.ok \/ (tentative /\ P.heap[ex].kind = "fun") THEN Fail(P)
  ELSE InsertName([u.P EXCEPT !.heap[ex].type = u.a,
                              !.heap[ex].varmode = IF tentative /\ @ = "VarExtDefault" THEN "VarIntAuto" ELSE @], d.name, ex)

\* a new function or variable with linkage
Added(P, d, linkage, varmode) ==
  IF IsFun(d.type) THEN New(P, FunDef(d.name, d.type, linkage, {})) ELSE New(P, VarDecl(d.name, d.type, linkage, varmode))
AddedFunction(P) == [P EXCEPT !.functions = Append(@, Newest(P))]

DeclaredExtern(P, d, tentative) ==
  ExternalLinker(InsertName(IF IsFun(d.type) THEN AddedFunction(P) ELSE PushBackGlobal(P, Newest(P)), d.name, Newest(P)),
                 Newest(P), tentative)

AddExtern(P, d, tentative) ==
  LET ex == KnownAtFileScope(P, d.name)
  IN IF ex # NULL THEN DeclaredAgain(P, d, ex, Unify(P, P.heap[ex].type, d.type), tentative)
     ELSE DeclaredExtern(Added(P, d, "External", IF tentative THEN "VarIntAuto" ELSE "VarExtDefault"), d, tentative)

DeclaredStatic(P, d) ==
  InsertName(IF IsFun(d.type) THEN AddedFunction(P) ELSE PushBack(P, Newest(P)), d.name, Newest(P))
AddStatic(P, d) == DeclaredStatic(Added(P, d, "Internal", "VarIntAuto"), d)

\* add_noclass, and the declaration of a typedef name
AddObject(P, d, linkage, varmode) ==
  LET Q == New(P, VarDecl(d.name, d.type, linkage, varmode))
  IN PushBack(InsertName(Q, d.name, Newest(Q)), Newest(Q))
AddNoclass(P, d) == AddObject(P, d, "NoLinkage", "VarIntAuto")

\* d: [name, type, storage]
AddDeclaration(P, d) ==
  LET old == LookupLocal(P.names, d.name)
      inner == Level(P) > 0
      fun == IsFun(d.type)
      Q == [P EXCEPT !.canInit = ~fun /\ d.storage # "typedef"]
      bad == inner /\ fun /\ d.storage # "extern"
  IN IF inner /\ old # NULL THEN Fail(P)
     ELSE CASE ~bad /\ d.storage = "static" -> AddStatic(Q, d)
            [] ~bad /\ d.storage = "typedef" -> IF old # NULL THEN Fail(Q) ELSE AddObject(Q, d, "Typedef", "VarMu")
            [] ~bad /\ inner /\ d.storage = "none" -> AddNoclass(Q, d)
            [] OTHER -> FailIf(AddExtern(Q, d, d.storage = "none" /\ ~fun), bad)

\* add_initializer, for the object that was declared last
AddInitializer(P) ==
  LET d == P.lastAdded
      Q == SetInitializer(P, d, 1)
  IN IF ~P.canInit THEN Fail(P)
     ELSE IF Q.failed \/ P.heap[d].refer_to = NULL THEN Q
     ELSE ExternalLinker([Q EXCEPT !.heap[d].refer_to = NULL], d, TRUE)

(**************************** PARAMETERS **********************************)
Decayed(t) == CASE t[1] = "array" -> <<"ptr", t[3]>> [] t[1] = "fun" -> <<"ptr", t>> [] OTHER -> t
Decay(P, ds) == FoldLeft(LAMBDA Q, d : [Q EXCEPT !.heap[d].type = Decayed(@)], P, ds)

\* leave_parameter_scope; the result has the parameters and the structs declared among them
LeaveParameterScope(P, varargs) ==
  LET params == Last(P.objects)
      lone == ~varargs /\ Len(params) = 1 /\ P.heap[params[1]].type = <<"void">>
      kept == IF lone THEN <<>> ELSE params
  IN [P |-> Decay(LeaveScope(P), kept), params |-> kept, usrdecls |-> Last(P.userstack), varargs |-> varargs]

\* leave_old_parameter_scope: the declared parameters in the order of the identifiers
LeaveOldParameterScope(P, identifiers) ==
  LET typed == Last(P.objects)
      Typed(i) == {t \in ToSet(typed) : P.heap[t].name = P.heap[i].name}
      result == [k \in DOMAIN identifiers |->
                   IF Typed(identifiers[k]) = {} THEN identifiers[k]
                   ELSE CHOOSE t \in Typed(identifiers[k]) : TRUE]
      Q == Decay(P, typed)
      R == IF ToSet(typed) \subseteq ToSet(result) THEN Q ELSE Fail(Q)
  IN [P |-> LeaveScope(R), params |-> result, usrdecls |-> Last(P.userstack), varargs |-> FALSE]

(***************************************************************************)
(* Types as they are written: "int", <<"ptr", s>>, <<"array", size, s>>,   *)
(* <<"struct", name>>, <<"enum", name>>, <<"fun">> for "()" and            *)
(* <<"fun", parameters, style>> for a list of [name, spec], of style       *)
(* "prototype", or "old": identifiers with declarations for the first      *)
(* ones.  ReadType is gettype with the typemods applied: the new parser,   *)
(* the type and, of a function, its parameters.                            *)
(***************************************************************************)
RECURSIVE ReadType(_, _)

DeclareParameter(t, name) == AddDeclaration(t.P, [name |-> name, type |-> t.type, storage |-> "none"])
ReadParameters(P, list) ==
  FoldLeft(LAMBDA R, p : DeclareParameter(ReadType(R, p.spec), p.name), EnterScope(P), list)

\* the declarations after the identifiers have been read
OldParameters(identifiers, list) ==
  LeaveOldParameterScope(ReadParameters(identifiers.P, SelectSeq(list, LAMBDA p : p.spec # <<"none">>)), identifiers.params)

ReadFunction(P, spec) ==
  LET implicit == [i \in DOMAIN spec[2] |-> [spec[2][i] EXCEPT !.spec = IntType]]
  IN IF Len(spec) = 1 THEN [P |-> P, params |-> <<>>, usrdecls |-> <<>>, varargs |-> TRUE]
     ELSE IF spec[3] = "old" THEN OldParameters(LeaveParameterScope(ReadParameters(P, implicit), FALSE), spec[2])
     ELSE LeaveParameterScope(ReadParameters(P, spec[2]), FALSE)

FunctionType(P, f) == <<"fun", [i \in DOMAIN f.params |-> P.heap[f.params[i]].type], f.varargs, IntType>>

WithFunctionType(f) == [P |-> f.P, type |-> FunctionType(f.P, f)]
WithStruct(P, name) == [P |-> P, type |-> <<"user", Lookup(P.usernames, name)>>]

ReadType(P, spec) ==
  CASE spec[1] \in {"int", "void"} -> [P |-> P, type |-> spec]
    [] spec[1] = "ptr" -> [ReadType(P, spec[2]) EXCEPT !.type = <<"ptr", @>>]
    [] spec[1] = "array" -> [ReadType(P, spec[3]) EXCEPT !.type = <<"array", spec[2], @>>]
    [] spec[1] = "struct" -> WithStruct(FindStruct(P, spec[2]), spec[2])
    [] spec[1] = "enum" -> WithStruct(FindEnum(P, spec[2]), spec[2])
    [] spec[1] = "fun" -> WithFunctionType(ReadFunction(P, spec))

\* a cast or a sizeof that mentions a function type: its parameter is declared and forgotten
CastToFunction(P) == LeaveParameterScope(AddDeclaration(EnterScope(P), [name |-> Anonymous, type |-> IntType, storage |-> "none"]), FALSE).P

(*********************** FUNCTION DEFINITIONS *****************************)
\* the declaration proto becomes the definition; u is what the types became
Promoted(P, proto) ==
  IF P.heap[proto].refer_to = NULL THEN P ELSE ExternalLinker([P EXCEPT !.heap[proto].refer_to = NULL], proto, TRUE)

UsePrototype(P, link, proto, u) ==
  IF ~u.ok \/ P.heap[proto].kind # "fun" \/ P.heap[proto].stmts THEN [P |-> Fail(P), found |-> FALSE]
  ELSE [P |-> [FailIf(Promoted([u.P EXCEPT !.heap[proto].type = u.a], proto),
                      link = "Internal" /\ P.heap[proto].linkage = "External") EXCEPT !.function = proto],
        found |-> TRUE]

FindPrototype(P, link, name, type) ==
  LET proto == Lookup(P.names, name)
  IN IF proto = NULL THEN [P |-> P, found |-> FALSE]
     ELSE UsePrototype(P, link, proto, Unify(P, type, P.heap[proto].type))

NewFunction(P, name, link) ==
  LET made == InsertName([AddedFunction(P) EXCEPT !.function = Newest(P)], name, Newest(P))
  IN IF link = "External" THEN ExternalLinker(made, Newest(P), TRUE) ELSE made

\* proto: the result of FindPrototype
Defined(proto, name, link, type, params) ==
  IF proto.found THEN [proto.P EXCEPT !.heap[proto.P.function].decls = {params}]
  ELSE NewFunction(New(proto.P, FunDef(name, type, link, {params})), name, link)

\* the parameters, and the structs declared among them, are visible in the body
OpenBody(P, f) ==
  FoldLeft(LAMBDA S, u : [S EXCEPT !.usernames = Inserted(@, u[2], u[1])],
           FoldLeft(LAMBDA S, p : InsertName(S, S.heap[p].name, p), EnterScope(P), f.params), f.usrdecls)

DefineFunction(f, name, link) ==
  LET type == FunctionType(f.P, [f EXCEPT !.varargs = @ /\ f.params # <<>>])
  IN OpenBody(Defined(FindPrototype(f.P, link, name, type), name, link, type, f.params), f)

BeginFunDef(P, name, storage, spec) ==
  DefineFunction(ReadFunction(P, spec), name, IF storage = "static" THEN "Internal" ELSE "External")

\* compound_statement1 hands the declarations of the block on
HandedOn(P) == [P EXCEPT !.blocks = @ \union {Last(P.objects)}, !.objects[Len(P.objects)] = <<>>]

EndFunDef(P) ==
  [LeaveScope(HandedOn([P EXCEPT !.heap[P.function].stmts = TRUE])) EXCEPT !.function = NULL, !.labels = <<>>]

\* an Indirection: the statement a label stands for, once it is known
Indirection(P, label) == IF label \in DOMAIN P.labels THEN P.labels[label] ELSE NULL
NewIndirection(P, label, stmt) ==
  [P EXCEPT !.indirections = Append(@, stmt), !.labels = (label :> Len(P.indirections) + 1) @@ @]
\* Variant with a defect: every goto has an Indirection of its own
AddGoto_fresh(P, label) == NewIndirection(P, label, NULL)
AddGoto(P, label) == IF Indirection(P, label) # NULL THEN P ELSE NewIndirection(P, label, NULL)
AddLabel(P, label, stmt) ==
  LET i == Indirection(P, label)
  IN IF i = NULL THEN NewIndirection(P, label, stmt)
     ELSE IF P.indirections[i] = NULL THEN [P EXCEPT !.indirections[i] = stmt]
     ELSE Fail(P)

(********************* WHAT THE TRANSLATION TAKES *************************)
Definitions(P) == ToSet(P.objects[1])    \* get_program
\* trans_globals1, and the variables of blocks and parameters of functions
Translated(P) ==
  LET Wanted(ds) == {d \in ds : P.heap[d].refer_to = NULL /\ P.heap[d].varmode # "VarMu"}
  IN Wanted(Definitions(P)) \union {f \in ToSet(P.functions) : P.heap[f].stmts /\ P.heap[f].refer_to = NULL}
     \union UNION {Wanted(ToSet(b)) : b \in P.blocks}
     \union UNION {UNION {ToSet(ds) : ds \in P.heap[f].decls} : f \in {g \in ToSet(P.functions) : P.heap[g].stmts}}
\* VarExpr::trans: what a mention of declaration d becomes
Mention(P, d) ==
  LET r == Root(P.heap, d)
  IN IF P.heap[r].kind = "fun" /\ ~P.heap[r].stmts THEN <<"ExtFun", P.heap[r].name>>
     ELSE IF r \in Translated(P) THEN <<"Decl", r>> ELSE <<"none">>
\* trans_usertypes: one declaration for every group
TranslatedUsers(P) == {u \in DOMAIN P.users : P.users[u].refer_to = NULL}

EmptyParser ==
  [heap |-> <<>>, names |-> << <<>> >>, lastAdded |-> NULL, canInit |-> FALSE, objects |-> << <<>> >>,
   functions |-> <<>>, externals |-> <<>>, users |-> <<>>, usernames |-> << <<>> >>, userstack |-> << <<>> >>,
   function |-> NULL, labels |-> <<>>, indirections |-> <<>>, blocks |-> {}, failed |-> FALSE]

(***************************************************************************)
(* The meaning of the text in C.  An entity is <<"external", name, 0>>,    *)
(* <<"internal", name, file>>, or <<"none" or "typedef", name, number>>    *)
(* for a name without linkage.  `facts' are the declarations so far, `seen'*)
(* what each visible name or tag stood for at every moment, on both sides. *)
(***************************************************************************)
Missing == <<"missing", "", 0>>
EmptyProgram ==
  [file |-> 1, events |-> 0, fresh |-> 1, scopes |-> << <<>> >>, tags |-> << <<>> >>, facts |-> <<>>,
   seen |-> {}, tagsSeen |-> {}, values |-> {}, open |-> 0, places |-> {}, jumps |-> {}]

CLookup(scopes, n) ==
  LET levels == {i \in DOMAIN scopes : n \in DOMAIN scopes[i]} IN IF levels = {} THEN Missing ELSE scopes[Max(levels)][n]
HasLinkage(e) == e[1] \in {"external", "internal"}
AtFileScope == Len(program.scopes) = 1

EntityFor(n, storage, fun) ==
  LET visible == CLookup(program.scopes, n)
      inherited == IF HasLinkage(visible) THEN visible ELSE <<"external", n, 0>>
  IN IF storage = "typedef" THEN <<"typedef", n, program.fresh>>
     ELSE IF storage = "extern" \/ fun THEN IF storage = "static" THEN <<"internal", n, program.file>> ELSE inherited
     ELSE IF ~AtFileScope THEN <<"none", n, program.fresh>>
     ELSE IF storage = "static" THEN <<"internal", n, program.file>> ELSE <<"external", n, 0>>

Bound(scopes, n, e) == [scopes EXCEPT ![Len(scopes)] = (n :> e) @@ @]
FactsAbout(e) == {i \in DOMAIN program.facts : program.facts[i].entity = e}

\* what the names and tags stand for now
Saw(P, C) ==
  [C EXCEPT !.seen = @ \union {[obj |-> Lookup(P.names, n), entity |-> CLookup(C.scopes, n)] : n \in words.names},
            !.tagsSeen = @ \union {[user |-> Lookup(P.usernames, n), entity |-> CLookup(C.tags, n)]  : n \in words.tags \union words.enumtags},
            !.events = @ + 1]

RECURSIVE TagsIn(_)
TagsIn(spec) ==
  CASE spec[1] = "struct" -> {spec[2]} [] spec[1] = "ptr" -> TagsIn(spec[2]) [] spec[1] = "array" -> TagsIn(spec[3])
    [] OTHER -> {}
\* tags are declared by their first use, in the innermost scope
WithTags(C, tags) ==
  FoldSet(LAMBDA s, D : IF CLookup(D.tags, s) # Missing THEN D
                        ELSE [D EXCEPT !.tags = Bound(@, s, <<"tag", s, D.fresh>>), !.fresh = @ + 1], C, tags)
\* in the scope of a struct's own declaration only that scope counts
WithOwnTag(C, s) ==
  IF s \in DOMAIN Last(C.tags) THEN C ELSE [C EXCEPT !.tags = Bound(@, s, <<"tag", s, C.fresh>>), !.fresh = @ + 1]

WithFact(C, e, obj, type, defines) ==
  [C EXCEPT !.fresh = @ + 1, !.scopes = Bound(@, e[2], e),
            !.facts = Append(@, [entity |-> e, obj |-> obj, type |-> type, defines |-> defines, file |-> C.file])]

Defines(d, fun) ==
  IF fun \/ d.storage = "typedef" THEN "no"
  ELSE IF d.init THEN "init" ELSE IF d.storage = "extern" THEN "no" ELSE "tentative"

\* the rules of C that no compiler need diagnose, and the shape of the events
Legal(d, e, type) ==
  LET here == Last(program.scopes)
      fun == IsFun(type)
      others == {program.facts[i] : i \in FactsAbout(e)}
  IN /\ d.name \in DOMAIN here => HasLinkage(e) /\ here[d.name] = e
     /\ \A i \in DOMAIN program.facts :
          LET f == program.facts[i]
          IN (HasLinkage(e) /\ HasLinkage(f.entity) /\ f.entity[2] = e[2] /\ f.file = program.file) => f.entity = e
     /\ \A f \in others : IsFun(f.type) = fun
     /\ d.init => ~fun /\ d.storage # "typedef" /\ (AtFileScope \/ d.storage # "extern")
                  /\ \A f \in others : f.defines = "init" => f.file # program.file
     /\ fun => d.storage # "typedef" /\ (AtFileScope \/ d.storage # "static")
     \* a struct of the program has one declaration in a file
     /\ \A f \in others : (type[1] = "ptr" /\ f.type[1] = "ptr" /\ f.file = program.file) => f.type = type

\* the departures from C that a declaration would meet in the parser
Departs(d, e, type) ==
  LET ex == LookupGlobal(parser.names, d.name)
      fun == IsFun(type)
      inner == ~AtFileScope
  IN {x \in {"tentative after declaration", "static again", "prototype in block", "extern again", "parameters moved", "typedef hidden"} :
        CASE x = "tentative after declaration" ->
               ~inner /\ ~fun /\ d.storage = "none" /\ ~d.init /\ ex # NULL
               /\ parser.heap[ex].refer_to # NULL /\ parser.heap[ex].varmode = "VarExtDefault"
          [] x = "static again" -> ~inner /\ d.storage = "static" /\ ex # NULL
          [] x = "prototype in block" -> inner /\ fun /\ d.storage = "none"
          [] x = "extern again" -> inner /\ d.name \in DOMAIN Last(program.scopes)
          [] x = "parameters moved" ->
               /\ fun
               /\ \E i \in FactsAbout(e) : Unspecified(program.facts[i].type) # Unspecified(type)
               /\ (d.storage # "body" /\ ex # NULL) => Unspecified(type)
          [] x = "typedef hidden" -> inner /\ d.storage = "extern" /\ ex # NULL /\ parser.heap[ex].linkage = "Typedef"}

(****************************** THE PARSER ********************************)
Ready == phase = "open" /\ ~parser.failed /\ program.events < words.events
Inside == parser.function # NULL

\* d has been read: its type t, the parser Q after it, its entity e
Declared(d, t, Q, e) ==
  /\ Legal(d, e, t.type)
  /\ Departs(d, e, t.type) \subseteq Deviations
  /\ parser' = Q
  /\ program' = Saw(Q, WithFact(WithTags(program, TagsIn(d.spec)), e, Lookup(Q.names, d.name), t.type, Defines(d, IsFun(t.type))))

\* a declarator with its specifiers: declaring_list
Declare ==
  /\ Ready
  /\ \E d \in words.declarations : \E t \in {ReadType(parser, d.spec)} :
       /\ d.spec[1] = "enum" => CLookup(program.tags, d.spec[2]) # Missing
       /\ Declared(d, t, AddDeclaration(t.P, [name |-> d.name, type |-> t.type, storage |-> d.storage]),
                   EntityFor(d.name, d.storage, IsFun(t.type)))
       /\ phase' = IF d.init THEN "initializer" ELSE phase
  /\ UNCHANGED words

\* an expression with a cast to a function type, in a statement or in an initializer
Cast ==
  /\ words.casts /\ ~parser.failed /\ program.events < words.events
  /\ phase = "initializer" => "cast in initializer" \in Deviations
  /\ phase = "open" => Inside
  /\ parser' = CastToFunction(parser)
  /\ program' = Saw(parser', program)
  /\ UNCHANGED <<words, phase>>

\* the end of the initializer
Initialize ==
  /\ phase = "initializer" /\ ~parser.failed
  /\ parser' = AddInitializer(parser)
  /\ phase' = "open"
  /\ UNCHANGED <<words, program>>

\* C's scope of the parameters with the names of list
WithParameters(C, list) ==
  LET number(n) == CHOOSE i \in DOMAIN list : list[i].name = n
  IN [C EXCEPT !.scopes = Append(@, [n \in {list[i].name : i \in DOMAIN list} |-> <<"none", n, C.fresh + number(n)>>]),
               !.tags = Append(@, <<>>), !.fresh = @ + Len(list) + 1, !.open = @ + 1]

\* d has been read: the parser Q, its type as it was written, its entity e
Begun(d, Q, type, e, list) ==
  /\ Legal([d EXCEPT !.init = FALSE], e, type)
  /\ Departs([d EXCEPT !.storage = "body"], e, type) \subseteq Deviations
  /\ parser' = Q
  /\ program' = Saw(Q, WithTags(WithParameters(WithFact(program, e, Q.function, type, "body"), list),
                               UNION {TagsIn(list[i].spec) : i \in DOMAIN list}))

BeginFunction ==
  /\ Ready /\ AtFileScope
  /\ \E d \in words.functions : \E f \in {ReadFunction(parser, d.spec)} :
       Begun(d, BeginFunDef(parser, d.name, d.storage, d.spec), FunctionType(f.P, [f EXCEPT !.varargs = FALSE]),
             EntityFor(d.name, d.storage, TRUE),
             IF Len(d.spec) = 1 THEN <<>> ELSE SelectSeq(d.spec[2], LAMBDA p : p.name # Anonymous))
  /\ UNCHANGED <<words, phase>>

Popped(C) == [C EXCEPT !.scopes = Front(@), !.tags = Front(@)]

EndFunction ==
  /\ phase = "open" /\ ~parser.failed /\ Inside /\ Level(parser) = 1
  /\ \A j \in program.jumps : j.function = program.open => \E p \in program.places : p.function = j.function /\ p.label = j.label
  /\ parser' = EndFunDef(parser)
  /\ program' = [Saw(parser', Popped(program)) EXCEPT !.events = program.events]
  /\ UNCHANGED <<words, phase>>

EnterBlock ==
  /\ Ready /\ words.blocks /\ Inside /\ Level(parser) < MaxLevel
  /\ parser' = EnterScope(parser)
  /\ program' = Saw(parser', [program EXCEPT !.scopes = Append(@, <<>>), !.tags = Append(@, <<>>)])
  /\ UNCHANGED <<words, phase>>

LeaveBlock ==
  /\ phase = "open" /\ ~parser.failed /\ Level(parser) > 1
  /\ parser' = LeaveScope(HandedOn(parser))
  /\ program' = [Saw(parser', Popped(program)) EXCEPT !.events = program.events]
  /\ UNCHANGED <<words, phase>>

\* "struct S;" and "struct S { members };"
DeclareStruct ==
  \E s \in words.tags :
    LET Q == IntroduceStruct(parser, s)
    IN /\ Ready
       /\ parser' = Q
       /\ program' = Saw(Q, WithOwnTag(program, s))
       /\ UNCHANGED <<words, phase>>

\* a member with the type t is read after those of R
WithMember(R, t, bits) == [P |-> t.P, members |-> Append(R.members, [type |-> t.type, bits |-> bits])]
ReadMembers(P, members) ==
  FoldLeft(LAMBDA R, m : WithMember(R, ReadType(R.P, m.spec), m.bits), [P |-> P, members |-> <<>>], members)

DefineStruct ==
  /\ Ready
  /\ \E s \in words.tags, members \in words.structs : \E opened \in {IntroduceStruct(parser, s)} :
       LET u == LookupLocal(opened.usernames, s)
       IN /\ opened.users[u].members = <<>>
          /\ opened.users[u].refer_to # NULL => "completed late" \in Deviations
          /\ \E Q \in {ReadMembers(opened, members)} : parser' = UpdateStruct(Q.P, s, Q.members)
          /\ program' = Saw(parser', WithOwnTag(program, s))
  /\ UNCHANGED <<words, phase>>

\* "enum E { ... };"; C gives an enumerator without a value one more than the one before
DefineEnum ==
  \E s \in words.enumtags, list \in words.enums :
    LET Q == AddEnum(parser, s, list)
        value == [i \in DOMAIN list |->
                    LET given == {j \in 1..i : list[j][2] # None}
                    IN IF given = {} THEN i - 1 ELSE list[Max(given)][2] + (i - Max(given))]
    IN /\ Ready /\ LookupLocal(parser.usernames, s) = NULL
       /\ \A i \in DOMAIN list : list[i][1] \notin DOMAIN Last(program.scopes)
       /\ parser' = Q
       /\ program' = Saw(Q, [program EXCEPT
            !.tags = Bound(@, s, <<"tag", s, program.fresh>>), !.fresh = @ + 1 + Len(list),
            !.scopes = FoldLeft(LAMBDA S, i : Bound(S, list[i][1], <<"enumerator", list[i][1], program.fresh + i>>), @, [i \in DOMAIN list |-> i]),
            !.values = @ \union {<<Len(parser.heap) + i, value[i]>> : i \in DOMAIN list}])
       /\ UNCHANGED <<words, phase>>

Label ==
  \E l \in words.labels :
    LET stmt == Cardinality(program.places) + 1
    IN /\ Ready /\ Inside
       /\ \A p \in program.places : p.function = program.open => p.label # l
       /\ parser' = AddLabel(parser, l, stmt)
       /\ program' = Saw(parser', [program EXCEPT !.places = @ \union {[function |-> program.open, label |-> l, stmt |-> stmt]}])
       /\ UNCHANGED <<words, phase>>

Goto ==
  \E l \in words.labels :
    LET Q == AddGoto(parser, l)
    IN /\ Ready /\ Inside
       /\ parser' = Q
       /\ program' = Saw(Q, [program EXCEPT !.jumps = @ \union {[function |-> program.open, label |-> l, target |-> Indirection(Q, l)]}])
       /\ UNCHANGED <<words, phase>>

\* the end of a file, which defines its static functions; after the last file the program is handed on
EndFile ==
  /\ phase = "open" /\ ~parser.failed /\ ~Inside
  /\ \A i \in DOMAIN program.facts :
       LET f == program.facts[i]
       IN f.entity[1] = "internal" /\ IsFun(f.type) => \E j \in FactsAbout(f.entity) : program.facts[j].defines = "body"
  /\ IF program.file < Files
     THEN /\ parser' = Restart(parser)
          /\ program' = [program EXCEPT !.file = @ + 1, !.scopes = << <<>> >>, !.tags = << <<>> >>]
          /\ phase' = "open"
     ELSE phase' = "finished" /\ UNCHANGED <<parser, program>>
  /\ UNCHANGED words

Init == words \in Vocabulary /\ parser = EmptyParser /\ program = EmptyProgram /\ phase = "open"
Next == \/ Declare \/ Cast \/ Initialize \/ BeginFunction \/ EndFunction \/ EnterBlock \/ LeaveBlock
        \/ DeclareStruct \/ DefineStruct \/ DefineEnum \/ Label \/ Goto \/ EndFile
Spec == Init /\ [][Next]_vars

(**************************** PROPERTIES **********************************)
RECURSIVE Compatible(_, _, _, _)
\* types of different declarations agree, structs by their members (ISO 6.1.2.6)
Compatible(P, a, b, assumed) ==
  a[1] = b[1] /\
  CASE a[1] \in {"int", "void"} -> TRUE
    [] a[1] = "ptr" -> Compatible(P, a[2], b[2], assumed)
    [] a[1] = "array" -> (a[2] = None \/ b[2] = None \/ EqualConstants(a[2], b[2])) /\ Compatible(P, a[3], b[3], assumed)
    [] a[1] = "fun" -> \/ Unspecified(a) \/ Unspecified(b)
                       \/ /\ a[3] = b[3] /\ Len(a[2]) = Len(b[2])
                          /\ \A i \in DOMAIN a[2] : Compatible(P, a[2][i], b[2][i], assumed)
    [] a[1] = "user" ->
         LET s == P.users[a[2]]
             t == P.users[b[2]]
         IN a[2] = b[2] \/ <<a[2], b[2]>> \in assumed \/
            /\ s.tag = t.tag
            /\ IF s.tag = "enum"
               THEN Len(s.members) = Len(t.members) /\ \A i \in DOMAIN s.members :
                      EqualConstants(P.heap[s.members[i]].init, P.heap[t.members[i]].init)
               ELSE s.members = <<>> \/ t.members = <<>> \/
                    /\ Len(s.members) = Len(t.members)
                    /\ \A i \in DOMAIN s.members :
                         /\ s.members[i].bits = t.members[i].bits
                         /\ Compatible(P, s.members[i].type, t.members[i].type, assumed \union {<<a[2], b[2]>>})

Conflict ==
  \E i, j \in DOMAIN program.facts :
    LET f == program.facts[i]
        g == program.facts[j]
    IN /\ i < j /\ f.entity = g.entity /\ HasLinkage(f.entity)
       /\ \/ ~Compatible(parser, f.type, g.type, {})
          \/ f.defines # "no" /\ g.defines # "no" /\ (f.file # g.file \/ f.defines = "body")

\* The declarations of a program are accepted (gram.cc reports no error and no
\* assertion of it fails) exactly if those of every external name agree, in
\* one file or in several, and at most one defines it.
OnlyConflictsAreRejected == phase = "open" => (parser.failed <=> Conflict)

\* Two mentions of a name (VarExpr::trans, by the refer_to pointers) become the
\* same variable or function of Core C exactly if scope and linkage make them
\* the same thing in C, in different blocks and files, and every visible
\* variable becomes one: its declaration was handed on with the right block.
OneObjectPerEntity ==
  ~parser.failed =>
    /\ \A p \in program.seen : (p.obj = NULL) <=> (p.entity = Missing)
    /\ phase = "finished" =>
         LET Variables_ == {p \in program.seen : p.entity[1] \in {"external", "internal", "none"}}
             meant == [p \in Variables_ |-> Mention(parser, p.obj)]
         IN \A p, q \in Variables_ : (meant[p] = meant[q]) <=> (p.entity = q.entity)
    /\ \A p, q \in program.seen : p.entity[1] \in {"typedef", "enumerator"} => ((p.obj = q.obj) <=> (p.entity = q.entity))

\* The declaration that stands for an external or internal name in the
\* translated program is the one that defines it, with its initializer or
\* body, if any file defines it, and defines nothing otherwise (gram.cc:858).
DefinitionIsMain ==
  ~parser.failed /\ phase # "initializer" =>
    \A i \in DOMAIN program.facts :
      LET e == program.facts[i].entity
          main == parser.heap[Root(parser.heap, program.facts[i].obj)]
          forms == {program.facts[j].defines : j \in FactsAbout(e)}
      IN HasLinkage(e) /\ ~(Inside /\ "body" \in forms) =>
         /\ IsDefinition(main) <=> (forms # {"no"})
         /\ (main.init # None) <=> ("init" \in forms)

RECURSIVE Knows(_, _)
Knows(a, b) ==
  CASE a[1] \in {"int", "void", "user"} -> TRUE
    [] a[1] = "ptr" -> Knows(a[2], b[2])
    [] a[1] = "array" -> (b[2] # None => a[2] # None) /\ Knows(a[3], b[3])
    [] a[1] = "fun" -> Unspecified(b) \/ (~Unspecified(a) /\ Len(a[2]) = Len(b[2]))
\* What any declaration says about the type of a thing is known from then on
\* where the thing is used: sizes of arrays, parameters of functions
\* (unify_types makes composite types), the members of a struct, whose complete
\* declaration is on top of its group, and the values of enumerators; and a
\* tag means the struct or enumeration that C's scopes say it means.
TypesAreComposite ==
  ~parser.failed =>
    /\ \A i \in DOMAIN program.facts : HasLinkage(program.facts[i].entity) =>
         Knows(parser.heap[program.facts[i].obj].type, program.facts[i].type)
    /\ \A u \in DOMAIN parser.users : parser.users[u].members # <<>> =>
         \E t \in TranslatedUsers(parser) : t = Root(parser.users, u) /\ parser.users[t].members # <<>>
    /\ \A v \in program.values :
         LET main == Root(parser.heap, v[1])
             known == parser.heap[main].init
             \* values that are not known may differ: there was a warning
             sure == \A w \in program.values : Root(parser.heap, w[1]) = main => w[2] = v[2]
         IN sure => (known = v[2] \/ (known = None /\ v[2] > KnownLimit))
    /\ \A p, q \in program.tagsSeen : (p.user = q.user) <=> (p.entity = q.entity)

\* A goto leads to the statement its label marks in the same function,
\* whether the label comes before it or after it (add_goto, add_Label).
GotosReachTheirLabel ==
  ~parser.failed /\ ~Inside =>
    \A j \in program.jumps : \E p \in program.places :
      p.function = j.function /\ p.label = j.label /\ parser.indirections[j.target] = p.stmt
=============================================================================
