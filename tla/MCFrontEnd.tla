----------------------------- MODULE MCFrontEnd -----------------------------
(***************************************************************************)
(* Three parts of the way from C to Core C in one run: scopes and linkage  *)
(* (Linkage), the type checker (Conversions) and the translation of        *)
(* function bodies (Lowering).  The first state says which; the others'    *)
(* variables are empty, and phase and program belong to the one that runs. *)
(***************************************************************************)
EXTENDS Conversions

CONSTANTS MaxLevel, KnownLimit, Limit  \* bounds, see Linkage and Lowering

VARIABLES
  which, words, parser, program,
  atom, first, log, next, count, status, stack, started, block, placed

linkage   == <<words, parser>>
lowering  == <<atom, first, log, next, count, status, stack, started, block, placed>>
checking  == <<part, checked, junk>>
all       == <<which, phase, program, linkage, lowering, checking>>

----------------------------------------------------------------------------
\* What is declared: see Linkage.
None      == -1
Anonymous == "$"
IntS == <<"int">>
Star(s) == <<"ptr", s>>
Of(n) == <<"array", n, IntS>>
S == <<"struct", "S">>
NoList == <<"fun">>
List(ps) == <<"fun", ps, "prototype">>
Old(ps) == <<"fun", ps, "old">>
VoidList == List(<<[name |-> Anonymous, spec |-> <<"void">>]>>)
Par(n, s) == [name |-> n, spec |-> s]
D(ns, storages, specs, inits) == [name : ns, storage : storages, spec : specs, init : inits]
Body(n) == D({n}, {"static"}, {VoidList}, {FALSE})

Nothing == [names |-> {}, declarations |-> {}, functions |-> {}, blocks |-> FALSE, casts |-> FALSE,
            events |-> 4, tags |-> {}, structs |-> {}, enumtags |-> {}, enums |-> {}, labels |-> {}]

Objects == [Nothing EXCEPT !.events = 5, !.names = {"x", "g"}, !.functions = Body("g"), !.blocks = TRUE, !.casts = TRUE,
  !.declarations = D({"x"}, {"none", "extern", "static"}, {IntS}, BOOLEAN) \union D({"x"}, {"typedef"}, {IntS}, {FALSE})]
Arrays == [Nothing EXCEPT !.names = {"x", "g"}, !.functions = Body("g"), !.blocks = TRUE,
  !.declarations = D({"x"}, {"none", "extern"}, {Of(None), Of(1), Of(2)}, {FALSE})]
Functions == [Nothing EXCEPT !.names = {"f", "p"}, !.blocks = TRUE,
  !.functions = D({"f"}, {"none", "static"}, {NoList, List(<<Par("p", IntS)>>), List(<<Par("p", Of(1))>>)}, {FALSE}),
  !.declarations = D({"f"}, {"none", "extern", "static"}, {NoList, VoidList, List(<<Par(Anonymous, IntS)>>)}, {FALSE})
                   \union D({"p"}, {"none", "static"}, {IntS}, {FALSE})]
OldFunctions == [Nothing EXCEPT !.names = {"f", "p", "q"},
  !.functions = D({"f"}, {"none"}, {Old(<<Par("p", s), Par("q", t)>>) : s, t \in {<<"none">>, IntS, Of(1)}}, {FALSE}),
  !.declarations = D({"f"}, {"extern"}, {List(<<Par("p", IntS), Par(Anonymous, s)>>) : s \in {IntS, Star(IntS)}}, {FALSE})]
Structs == [Nothing EXCEPT !.events = 5, !.names = {"x", "g"}, !.tags = {"S"}, !.blocks = TRUE,
  !.functions = D({"g"}, {"static"}, {List(<<Par("p", Star(S))>>)}, {FALSE}),
  !.structs = {<<[spec |-> IntS, bits |-> None]>>, <<[spec |-> Of(1), bits |-> None], [spec |-> Star(S), bits |-> None]>>,
               <<[spec |-> IntS, bits |-> 1], [spec |-> Star(S), bits |-> None]>>},
  !.declarations = D({"x"}, {"none", "extern"}, {Star(S)}, {FALSE})]
Enums == [Nothing EXCEPT !.names = {"x", "A", "B", "C"}, !.enumtags = {"E"},
  !.enums = {<<<<"A", a>>, <<"B", b>>, <<"C", None>>>> : a, b \in {None, 2, 9}} \union {<<<<"B", 1>>>>},
  !.declarations = D({"x"}, {"none", "extern"}, {<<"enum", "E">>}, {FALSE})]
Labels_ == [Nothing EXCEPT !.events = 6, !.names = {"g", "h"}, !.functions = Body("g") \union Body("h"), !.labels = {"l", "m"}, !.blocks = TRUE]

MCVocabulary == {Objects, Arrays, Functions, OldFunctions, Structs, Enums, Labels_}

LI == INSTANCE Linkage WITH Vocabulary <- MCVocabulary, Files <- 2, Deviations <- {}

LoweringData == INSTANCE MCLowering WITH
        Address <- <<>>, Code <- <<>>, Starts <- {}, Programs <- {}
LO == INSTANCE Lowering WITH
        Address <- LoweringData!MCAddress, Code <- LoweringData!MCCode,
        Starts <- LoweringData!MCStarts, Programs <- LoweringData!MCPrograms

----------------------------------------------------------------------------
\* What the checker is given.
FT == Fun(<<IntT>>, IntT, FALSE)
GT == Fun(<<>>, Base("Void"), FALSE)
CharT == Base("Char")
ST == <<"struct", <<[name |-> "h", type |-> IntT], [name |-> "k", type |-> Const(Base("Char"))]>>, {}>>

V(t) == [type |-> t, known |-> {}, enum |-> FALSE]
MCVariables == [
  c |-> V(Base("Char")), u |-> V(Base("UChar")), s |-> V(Base("Short")), w |-> V(Base("UShort")),
  i |-> [V(IntT) EXCEPT !.known = {1}], n |-> V(Base("UInt")), l |-> V(LongT), d |-> V(Base("Double")),
  e |-> V(<<"enum", "e", {}>>), k |-> [type |-> IntT, known |-> {0}, enum |-> TRUE],
  z |-> V(SizeT), t |-> V(<<"abs", {"a"}, {}>>),
  p |-> V(Ptr(IntT)), q |-> V(Ptr(Const(IntT))), v |-> V(Ptr(Base("Void"))), fp |-> V(Ptr(FT)), a |-> V(Array(IntT, 2)),
  r |-> V(LongT), x |-> V(Base("Double")), j |-> V(Base("Short")), o |-> V(Ptr(IntT)), y |-> V(ST), f |-> V(FT), g |-> V(GT)]
MCAddress == [c |-> 1, u |-> 2, s |-> 3, w |-> 4, i |-> 5, n |-> 6, l |-> 7, d |-> 8, e |-> 9, k |-> 10, z |-> 11, t |-> 12,
  p |-> 13, q |-> 14, v |-> 15, fp |-> 16, a |-> 17, r |-> 19, x |-> 20, j |-> 21, o |-> 22, y |-> 23, f |-> 30, g |-> 31]
M(c, u, s, w, i, n, l, d, e) ==
  <<2*c, 2*u, 2*s, 2*w, 2*i, 2*n, 2*l, d, 2*e, 0, 6, 3, 17, 18, 17, 30, 4, 6, 0, 0, 0, 0, 2, 2>>
MCMemories == {M(-1, 7, -2, 15, 3, 31, -1, 5, 1), M(2, 2, 2, 3, 2, 5, 9, 4, 0), M(3, 6, 7, 8, -9, 30, 20, -1, 2)}

X(n) == <<"var", n>>
N(n) == <<"num", n, IntT>>
Bin(o, a, b) == <<"bin", o, a, b>>
Set(y, e) == <<"asgn", "", X(y), e>>
Numbers == {"c", "u", "s", "w", "i", "n", "l", "d", "e", "z", "t"}
Operands == {X(n) : n \in Numbers \cup {"p", "q", "v", "fp", "a", "k", "f"}} \cup {N(0), N(2), <<"num", 1, LongT>>, <<"num", 5, Base("Double")>>}
Ops == {"+", "-", "*", "/", "%", "<<", "<", "==", "&&"}
\* the checker's common type is C's, up to promotions that do not matter
Agrees(t, u) ==
  (IsArithmetic(t) /\ IsArithmetic(u)) =>
    LET k == Underlying(ArithCvt(t, u))
    IN Promote(k) = Usual(Underlying(t), Underlying(u)) /\ (k \in {"UChar", "UShort"} => Equals(t, u))
Ty(e) == CDecay(CType(e))
Common(o, a, b) == o \notin {"<<", "&&"} => Agrees(Ty(a), Ty(b)) /\ ~(o = "+" /\ IsPtr(Ty(b))) /\ ~(o = "<" /\ {X("fp"), X("f")} \cap {a, b} # {})
Narrowing(o, a, b) == o \in {"+", "*", "/"} /\ ~IsPtr(Ty(a)) /\ IsArithmetic(Ty(b)) /\ ~(Agrees(Ty(a), Ty(b)) /\ Equals(ArithCvt(Ty(a), Ty(b)), Ty(a)))
Operations == {Bin(o, a, b) : o \in Ops, a \in Operands, b \in Operands}
Good == {x \in Operations : Common(x[2], x[3], x[4])}
Wide == {Bin(o, a, b) : o \in {"+", "/", "<"}, a \in {X("i"), X("n"), X("d"), N(2)}, b \in {X("i"), X("l"), X("k"), X("x")}}
Compounds == {<<"asgn", o, X(y), b>> : y \in Numbers \cup {"p", "o", "v", "fp"}, o \in {"", "+", "*", "/", "<<"}, b \in Operands}
Deep(x) == {
  <<"un", "-", x>>, <<"un", "+", x>>, <<"un", "!", x>>, <<"un", "~", x>>, <<"cond", x, X("i"), X("d")>>, <<"cond", X("c"), x, X("l")>>,
  <<"comma", Set("j", x), X("j")>>, Set("o", Bin("+", X("p"), x)), Bin("+", <<"asgn", "", X("j"), x>>, N(1)), <<"call", X("f"), <<x>>>>, <<"call", X("fp"), <<x, x>>>>,
  <<"index", X("a"), x>>, <<"index", x, X("p")>>, <<"cast", LongT, x>>, <<"cast", Base("UChar"), x>>, <<"cast", Ptr(IntT), x>>, <<"cast", Ptr(CharT), x>>,
  Bin("&&", x, X("p")), Bin("||", X("q"), x), Bin("==", X("p"), x), <<"sizeE", x>>}
Places == {X("i"), X("p"), X("a"), X("d"), X("f"), X("y"), <<"dot", X("y"), "h">>, <<"dot", X("y"), "k">>, <<"deref", X("p")>>, <<"deref", X("v")>>, <<"index", X("a"), N(1)>>, X("k"), N(1)}
Access == UNION {{<<"addr", x>>, <<"deref", <<"addr", x>>>>, <<"step", x>>, <<"asgn", "", x, N(3)>>, <<"asgn", "", x, X("p")>>, Set("v", <<"addr", x>>), Set("q", <<"addr", x>>),
  <<"sizeE", x>>, Set("r", <<"sizeE", x>>), <<"call", x, <<N(1)>>>>, Set("r", Bin("-", <<"addr", x>>, X("p")))} : x \in Places}
          \cup {<<"sizeT", ST>>, <<"sizeT", FT>>, <<"call", X("g"), <<>>>>, <<"cond", X("p"), <<"deref", X("fp")>>, X("f")>>}
Expressions ==
  {Set(y, x) : y \in {"r", "x"}, x \in Good}
  \cup {x \in Compounds : ~Narrowing(x[2], x[3], x[4])}
  \cup UNION {{x, Set("r", x), Set("x", x)} : x \in UNION {Deep(z) : z \in Wide \cup {X("i"), X("p"), X("e"), N(0)}}}
  \cup Access
Elem(n) == <<"elem", <<"num", n, IntT>>>>
L(s) == <<"list", s>>
Str(s) == <<"elem", <<"str", s>>>>
Text == <<<<"a">>, <<"\\", "0", "1", "7">>, <<"8">>, <<"\\", "x", "f", "0">>, <<"\\", "n">>>>
ABC == <<<<"a">>, <<"b">>>>
S2 == <<"struct", <<[name |-> "h", type |-> Array(IntT, 2)], [name |-> "k", type |-> IntT]>>, {}>>
S3 == <<"struct", <<[name |-> "h", type |-> Array(CharT, 3)], [name |-> "k", type |-> S2]>>, {}>>
U2 == <<"union", <<[name |-> "h", type |-> S2], [name |-> "k", type |-> IntT]>>, {}>>
InitTypes == {IntT, Array(IntT, 3), Array(IntT, -1), Array(Array(IntT, 2), 2), Array(Array(IntT, 2), -1), Array(Array(IntT, 0), 2), S2, Array(S2, 2), Array(S2, -1), S3,
  U2, Array(U2, 2), Array(CharT, 3), Array(CharT, -1), Array(Array(CharT, 3), -1), Array(Ptr(CharT), -1)}
Leaves == {Elem(1), Elem(2), Str(ABC)}
Level1 == Leaves \cup {L(s) : s \in {<<Elem(3)>>, <<Elem(4), Elem(5)>>, <<Str(ABC)>>, <<L(<<Elem(6)>>), Elem(7)>>}}
Number(s) == [k \in DOMAIN s |-> IF s[k] = Elem(1) THEN Elem(10 + k) ELSE s[k]]
Inits == {L(Number(s)) : s \in UNION {[1..n -> Level1] : n \in 1..3}} \cup {L(Number(s)) : s \in [1..5 -> {Elem(1), L(<<Elem(4), Elem(5)>>)}]}
         \cup {Str(Text), Str(<<>>), Elem(1)}

MCParts ==
  {<<"expr", e>> : e \in Expressions}
  \cup {<<s, x>> : s \in {"test", "switch"}, x \in Operands \cup Wide}
  \cup {<<"return", t, x>> : t \in {IntT, Base("UChar"), Base("Double"), Ptr(IntT), Ptr(Base("Void"))}, x \in Operands \cup Wide}
  \cup {<<"decl", t, i>> : t \in InitTypes, i \in Inits}

----------------------------------------------------------------------------
IdleLinkage   == words = "" /\ parser = ""
IdleLowering  ==
  /\ atom = "" /\ first = "" /\ log = "" /\ next = "" /\ count = "" /\ status = ""
  /\ stack = "" /\ started = "" /\ block = "" /\ placed = ""
IdleChecking  == part = "" /\ checked = "" /\ junk = ""

FrontEndInit ==
  \/ which = "linkage" /\ LI!Init /\ IdleLowering /\ IdleChecking
  \/ which = "checking" /\ Init /\ program = "" /\ IdleLinkage /\ IdleLowering
  \/ which = "lowering" /\ LO!Init /\ IdleLinkage /\ IdleChecking

Declaring == which = "linkage" /\ LI!Next /\ UNCHANGED <<which, lowering, checking>>
Checking  == which = "checking" /\ Next /\ UNCHANGED <<which, program, linkage, lowering>>
Lowering_ == which = "lowering" /\ LO!Next /\ UNCHANGED <<which, linkage, checking>>

FrontEndSpec == FrontEndInit /\ [][Declaring \/ Checking \/ Lowering_]_all

----------------------------------------------------------------------------
\* In every file and block a name means the object, function or type that C's rules of
\* scope and linkage say it means, and a goto leads to the statement its label marks.
NamesMeanTheirEntity == which = "linkage" => LI!OneObjectPerEntity /\ LI!GotosReachTheirLabel

\* The declaration that stands for a name in the translated program is the one that
\* defines it, with its initializer or body, and what any declaration says about the type
\* of a thing is known from then on.
DeclarationsAreComplete == which = "linkage" => LI!DefinitionIsMain /\ LI!TypesAreComposite

\* A program is rejected exactly when its declarations are in conflict.
OnlyConflictsAreRejected == which = "linkage" => LI!OnlyConflictsAreRejected

\* The Core C program does one of the things that C allows the function body to do, and
\* no statement is emitted into two blocks.
BehavesAsC == which = "lowering" => LO!BehavesAsC /\ LO!PlacedOnce
=============================================================================
