----------------------------- MODULE CSemantics -----------------------------
(***************************************************************************)
(* What the C standard lets a function body do: the reference that the     *)
(* translation to Core C is compared with.  Nothing here is code of the    *)
(* analyzer.                                                               *)
(*                                                                         *)
(* An expression is evaluated in steps, in any order the standard allows.  *)
(* The side effect of an assignment stays pending until a sequence point   *)
(* at the latest; to touch an object that has a side effect pending is     *)
(* undefined behaviour, and so is whatever the program does then.          *)
(*                                                                         *)
(* Expressions and statements are tuples that begin with their kind; an    *)
(* operand that has been evaluated is <<"val", v, P>> or <<"loc", a, P>>   *)
(* with its pending side effects P, a set of pairs <<address, value>>.     *)
(***************************************************************************)
EXTENDS Integers, Sequences, FiniteSets, TLC

CONSTANTS
  Address,     \* variable |-> its address
  Code         \* name of an external function |-> the value of a pointer to it

Modulus == 97    \* the numbers of the programs are small
Int8 == 4        \* and a narrow type holds the numbers below this

Op(o, a, b) ==
  CASE o = "+" -> (a + b) % Modulus [] o = "-" -> (a - b) % Modulus [] o = "*" -> (a * b) % Modulus
    [] o = "<" -> IF a < b THEN 1 ELSE 0     [] o = ">=" -> IF a >= b THEN 1 ELSE 0
    [] o = ">" -> IF a > b THEN 1 ELSE 0     [] o = "<=" -> IF a <= b THEN 1 ELSE 0
    [] o = "==" -> IF a = b THEN 1 ELSE 0    [] o = "!=" -> IF a # b THEN 1 ELSE 0

(***************************************************************************)
(* What a call of an external function does: the first two use and change  *)
(* the global variable "g" so that the order of calls shows; malloc and    *)
(* calloc count the bytes they were asked for.                             *)
(***************************************************************************)
Effect(f, args, m) ==
  LET g == Address["g"]
      heap == Address["heap"]
      a == IF args = <<>> THEN 0 ELSE args[1]
  IN CASE f = Code["f"] -> [v |-> (m[g] + a) % Modulus, m |-> [m EXCEPT ![g] = (3 * @ + a + 1) % Modulus]]
       [] f = Code["h"] -> [v |-> m[g], m |-> [m EXCEPT ![g] = (@ + 5) % Modulus]]
       [] f = Code["malloc"] -> [v |-> 1, m |-> [m EXCEPT ![heap] = (7 * @ + a) % Modulus]]
       [] f = Code["calloc"] -> [v |-> 1, m |-> [m EXCEPT ![heap] = (7 * @ + a * args[2]) % Modulus]]
       [] f = Code["free"] -> [v |-> 0, m |-> [m EXCEPT ![heap] = (3 * @ + a) % Modulus]]
       [] OTHER -> [v |-> 0, m |-> m]

-----------------------------------------------------------------------------
\* Expressions

RECURSIVE Prepared(_)
Prepared(t) ==
  CASE t[1] = "num" -> <<"val", t[2], {}>>
    [] t[1] = "fun" -> <<"val", Code[t[2]], {}>>
    [] t[1] = "sizeofT" -> <<"val", t[2], {}>>
    [] t[1] = "sizeofE" -> <<"val", 4, {}>>
    [] t[1] = "var" -> <<"loc", Address[t[2]], {}>>
    [] t[1] = "call" -> <<"call", Prepared(t[2]), [i \in DOMAIN t[3] |-> Prepared(t[3][i])]>>
    [] t[1] \in {"op", "opasgn"} -> <<t[1], t[2], Prepared(t[3]), Prepared(t[4])>>
    [] t[1] \in {"pre", "post"} -> <<t[1], t[2], Prepared(t[3])>>
    [] t[1] = "member" -> <<"member", Prepared(t[2]), t[3]>>
    [] OTHER -> [i \in DOMAIN t |-> IF i = 1 THEN t[1] ELSE Prepared(t[i])]

RECURSIVE Pending(_)
Pending(t) ==
  CASE t[1] \in {"val", "loc"} -> t[3]
    [] t[1] = "call" -> Pending(t[2]) \cup UNION {Pending(t[3][i]) : i \in DOMAIN t[3]}
    [] t[1] \in {"op", "opasgn"} -> Pending(t[3]) \cup Pending(t[4])
    [] t[1] \in {"pre", "post"} -> Pending(t[3])
    [] t[1] = "member" -> Pending(t[2])
    [] OTHER -> UNION {Pending(t[i]) : i \in 2 .. Len(t)}

RECURSIVE Without(_, _)
Without(t, x) ==
  CASE t[1] \in {"val", "loc"} -> <<t[1], t[2], t[3] \ {x}>>
    [] t[1] = "call" -> <<"call", Without(t[2], x), [i \in DOMAIN t[3] |-> Without(t[3][i], x)]>>
    [] t[1] \in {"op", "opasgn"} -> <<t[1], t[2], Without(t[3], x), Without(t[4], x)>>
    [] t[1] \in {"pre", "post"} -> <<t[1], t[2], Without(t[3], x)>>
    [] t[1] = "member" -> <<"member", Without(t[2], x), t[3]>>
    [] OTHER -> [i \in DOMAIN t |-> IF i = 1 THEN t[1] ELSE Without(t[i], x)]

RECURSIVE Calls(_)
Calls(t) ==
  CASE t[1] \in {"val", "loc"} -> FALSE
    [] t[1] = "call" -> TRUE
    [] t[1] \in {"op", "opasgn"} -> Calls(t[3]) \/ Calls(t[4])
    [] t[1] \in {"pre", "post"} -> Calls(t[3])
    [] t[1] = "member" -> Calls(t[2])
    [] OTHER -> \E i \in 2 .. Len(t) : Calls(t[i])

Apply(m, P) ==
  [a \in DOMAIN m |-> IF \E x \in P : x[1] = a THEN (CHOOSE x \in P : x[1] = a)[2] ELSE m[a]]

(* A step is the new expression, the new memory and the objects touched. *)
Became(t, m, touched) == {[t |-> t, m |-> m, touched |-> touched]}
At(t, i, steps) == {[s EXCEPT !.t = [t EXCEPT ![i] = s.t]] : s \in steps}
Done(t) == t[1] \in {"val", "loc"}

RECURSIVE Steps(_, _), ValueSteps(_, _)
ValueSteps(t, m) ==
  IF t[1] = "val" THEN {}
  ELSE IF t[1] = "loc"
  THEN Became(<<"val", IF t[2] \in DOMAIN m THEN m[t[2]] ELSE 0, t[3]>>, m, {t[2]})
  ELSE Steps(t, m)

PlaceSteps(t, m) == IF t[1] = "loc" THEN {} ELSE Steps(t, m)

Stored(l, v, P, m) == Became(<<"val", v, P \cup {<<l, v>>}>>, m, {l})

Steps(t, m) ==
  CASE t[1] = "op" ->
         IF t[3][1] = "val" /\ t[4][1] = "val"
         THEN Became(<<"val", Op(t[2], t[3][2], t[4][2]), t[3][3] \cup t[4][3]>>, m, {})
         ELSE At(t, 3, ValueSteps(t[3], m)) \cup At(t, 4, ValueSteps(t[4], m))
    [] t[1] = "call" ->
         LET inner == At(t, 2, ValueSteps(t[2], m))
                      \cup UNION {{[s EXCEPT !.t = <<"call", t[2], [t[3] EXCEPT ![i] = s.t]>>] :
                                      s \in ValueSteps(t[3][i], m)} : i \in DOMAIN t[3]}
             r == Effect(t[2][2], [i \in DOMAIN t[3] |-> t[3][i][2]], Apply(m, Pending(t)))
         IN IF inner # {} THEN inner ELSE Became(<<"val", r.v, {}>>, r.m, {})
    [] t[1] = "deref" ->
         IF t[2][1] = "val" THEN Became(<<"loc", t[2][2], t[2][3]>>, m, {}) ELSE At(t, 2, ValueSteps(t[2], m))
    [] t[1] = "addr" ->
         IF t[2][1] = "loc" THEN Became(<<"val", t[2][2], t[2][3]>>, m, {}) ELSE At(t, 2, PlaceSteps(t[2], m))
    [] t[1] = "member" ->
         IF t[2][1] = "loc" THEN Became(<<"loc", t[2][2] + t[3], t[2][3]>>, m, {}) ELSE At(t, 2, PlaceSteps(t[2], m))
    [] t[1] = "index" ->
         IF t[2][1] = "val" /\ t[3][1] = "val"
         THEN Became(<<"loc", t[2][2] + t[3][2], t[2][3] \cup t[3][3]>>, m, {})
         ELSE At(t, 2, ValueSteps(t[2], m)) \cup At(t, 3, ValueSteps(t[3], m))
    [] t[1] \in {"not", "neg", "pos", "cast"} ->
         IF t[2][1] # "val" THEN At(t, 2, ValueSteps(t[2], m))
         ELSE Became(<<"val", CASE t[1] = "not" -> IF t[2][2] = 0 THEN 1 ELSE 0
                                [] t[1] = "neg" -> (-t[2][2]) % Modulus
                                [] t[1] = "cast" -> t[2][2] % Int8
                                [] OTHER -> t[2][2], t[2][3]>>, m, {})
    [] t[1] = "void" -> IF Done(t[2]) THEN Became(t[2], m, {}) ELSE At(t, 2, Steps(t[2], m))
    [] t[1] = "asgn" ->
         IF t[2][1] = "loc" /\ t[3][1] = "val" THEN Stored(t[2][2], t[3][2], t[2][3] \cup t[3][3], m)
         ELSE At(t, 2, PlaceSteps(t[2], m)) \cup At(t, 3, ValueSteps(t[3], m))
    [] t[1] = "opasgn" ->
         IF t[3][1] = "loc" /\ t[4][1] = "val"
         THEN Stored(t[3][2], Op(t[2], IF t[3][2] \in DOMAIN m THEN m[t[3][2]] ELSE 0, t[4][2]), t[3][3] \cup t[4][3], m)
         ELSE At(t, 3, PlaceSteps(t[3], m)) \cup At(t, 4, ValueSteps(t[4], m))
    [] t[1] \in {"pre", "post"} ->
         IF t[3][1] = "loc"
         THEN LET old == IF t[3][2] \in DOMAIN m THEN m[t[3][2]] ELSE 0
                  new == Op(t[2], old, 1)
              IN Became(<<"val", IF t[1] = "pre" THEN new ELSE old, t[3][3] \cup {<<t[3][2], new>>}>>, m, {t[3][2]})
         ELSE At(t, 3, PlaceSteps(t[3], m))
    [] t[1] = "comma" ->
         IF Done(t[2]) THEN Became(t[3], Apply(m, t[2][3]), {}) ELSE At(t, 2, Steps(t[2], m))
    [] t[1] = "cond" ->
         IF t[2][1] = "val" THEN Became(IF t[2][2] # 0 THEN t[3] ELSE t[4], Apply(m, t[2][3]), {})
         ELSE At(t, 2, ValueSteps(t[2], m))
    [] t[1] \in {"and", "or"} ->
         IF t[2][1] # "val" THEN At(t, 2, ValueSteps(t[2], m))
         ELSE IF (t[2][2] # 0) = (t[1] = "and")
         THEN Became(<<"truth", t[3]>>, Apply(m, t[2][3]), {})
         ELSE Became(<<"val", IF t[1] = "or" THEN 1 ELSE 0, {}>>, Apply(m, t[2][3]), {})
    [] t[1] = "truth" ->
         IF t[2][1] = "val" THEN Became(<<"val", IF t[2][2] = 0 THEN 0 ELSE 1, t[2][3]>>, m, {})
         ELSE At(t, 2, ValueSteps(t[2], m))

(* The steps of a full expression, those that complete a side effect early *)
(* included.  They matter only for the functions still to be called.       *)
Undefined == <<"ub">>

Next1(c, wanted) ==
  IF c.t = Undefined \/ (wanted = "value" /\ c.t[1] = "val") \/ (wanted = "effect" /\ Done(c.t)) THEN {c}
  ELSE {[t |-> IF s.touched \cap {x[1] : x \in Pending(c.t)} # {}
                  \/ ~ s.touched \subseteq DOMAIN c.m
               THEN Undefined ELSE s.t, m |-> s.m] :
           s \in IF wanted = "value" THEN ValueSteps(c.t, c.m) ELSE Steps(c.t, c.m)}
       \cup {[t |-> Without(c.t, x), m |-> Apply(c.m, {x})] : x \in IF Calls(c.t) THEN Pending(c.t) ELSE {}}

RECURSIVE Reach(_, _)
Reach(C, wanted) ==
  LET N == UNION {Next1(c, wanted) : c \in C}
  IN IF N = C THEN C ELSE Reach(N, wanted)

(* The outcomes of a full expression: its value and the memory after it. *)
Outcomes(e, m, wanted) ==
  {IF c.t = Undefined THEN [v |-> <<>>, m |-> m]
   ELSE [v |-> <<c.t[2]>>, m |-> Apply(c.m, c.t[3])] :
      c \in Reach({[t |-> Prepared(e), m |-> m]}, wanted)}

-----------------------------------------------------------------------------
(***************************************************************************)
(* Statements.  A statement is run either from its beginning or in search  *)
(* of a label in it; it yields outcomes [o, m], where o says how control   *)
(* goes on.  k bounds the jumps backwards; a run that exceeds it is cut.   *)
(***************************************************************************)
Go == <<"go">>
Cut == <<"cut">>
Seek(l) == <<"seek", l>>
Seeking(o) == o[1] = "seek"

(* The outcomes of an expression statement; the continuations of a test.   *)
Effects(e, m) ==
  {IF c.v = <<>> THEN [o |-> Undefined, m |-> m] ELSE [o |-> Go, m |-> c.m] : c \in Outcomes(e, m, "effect")}

Test(e, m, yes(_), no(_)) ==
  UNION {IF c.v = <<>> THEN {[o |-> Undefined, m |-> m]}
         ELSE IF c.v[1] # 0 THEN yes(c.m) ELSE no(c.m) : c \in Outcomes(e, m, "value")}

(* A for statement is <<"for", test, body, third, first>>; any of the three *)
(* expressions may be absent, <<>>.                                        *)
Condition(s) == IF s[2] = <<>> THEN <<"num", 1>> ELSE s[2]

RECURSIVE Run(_, _, _, _), RunAll(_, _, _, _), Again(_, _, _)

(* What a loop does after an iteration with the outcomes R. *)
Again(s, R, k) ==
  UNION {CASE r.o \in {Go, <<"continue">>} ->
                IF k = 0 THEN {[o |-> Cut, m |-> r.m]}
                ELSE LET next(m) == Test(Condition(s), m, LAMBDA m2 : Again(s, Run(s[3], Go, m2, k - 1), k - 1),
                                         LAMBDA m2 : {[o |-> Go, m |-> m2]})
                     IN IF s[1] = "for" /\ s[4] # <<>>
                        THEN UNION {IF c.o = Undefined THEN {c} ELSE next(c.m) : c \in Effects(s[4], r.m)}
                        ELSE next(r.m)
           [] r.o = <<"break">> -> {[r EXCEPT !.o = Go]}
           [] OTHER -> {r} : r \in R}

RunAll(ss, o, m, k) ==
  IF ss = <<>> THEN {[o |-> o, m |-> m]}
  ELSE UNION {IF r.o = Go \/ Seeking(r.o) THEN RunAll(Tail(ss), r.o, r.m, k) ELSE {r} : r \in Run(Head(ss), o, m, k)}

Run(s, o, m, k) ==
  CASE s[1] = "expr" -> IF o = Go THEN Effects(s[2], m) ELSE {[o |-> o, m |-> m]}
    [] s[1] = "decl" ->
         IF Seeking(o) THEN {[o |-> o, m |-> m]} ELSE Effects(<<"asgn", <<"var", s[2]>>, s[3]>>, m)
    [] s[1] = "init" ->
         {[o |-> o, m |-> IF Seeking(o) THEN m ELSE Apply(m, {<<Address[s[2]], s[3]>>})]}
    [] s[1] = "skip" -> {[o |-> o, m |-> m]}
    [] s[1] = "block" -> RunAll(s[2], o, m, k)
    [] s[1] = "if" ->
         IF o = Go THEN Test(s[2], m, LAMBDA m2 : Run(s[3], Go, m2, k), LAMBDA m2 : Run(s[4], Go, m2, k))
         ELSE UNION {IF Seeking(r.o) THEN Run(s[4], o, m, k) ELSE {r} : r \in Run(s[3], o, m, k)}
    [] s[1] \in {"while", "for"} ->
         IF o = Go
         THEN UNION {IF c.o = Undefined THEN {c}
                     ELSE Test(Condition(s), c.m, LAMBDA m2 : Again(s, Run(s[3], Go, m2, k), k),
                               LAMBDA m2 : {[o |-> Go, m |-> m2]}) :
                       c \in IF s[1] = "for" /\ s[5] # <<>> THEN Effects(s[5], m) ELSE {[o |-> Go, m |-> m]}}
         ELSE Again(s, Run(s[3], o, m, k), k)
    [] s[1] = "do" -> Again(s, Run(s[3], o, m, k), k)
    [] s[1] = "switch" ->
         LET leave(R) == {IF r.o = <<"break">> THEN [r EXCEPT !.o = Go] ELSE r : r \in R}
             default(m2) == {IF Seeking(r.o) THEN [r EXCEPT !.o = Go] ELSE r : r \in Run(s[3], Seek(<<"default">>), m2, k)}
         IN IF o = Go
            THEN leave(UNION {IF c.v = <<>> THEN {[o |-> Undefined, m |-> m]}
                              ELSE UNION {IF Seeking(r.o) THEN default(c.m) ELSE {r} :
                                            r \in Run(s[3], Seek(<<"case", c.v[1]>>), c.m, k)}
                              : c \in Outcomes(s[2], m, "value")})
            ELSE IF o[2][1] # "label" THEN {[o |-> o, m |-> m]}
            ELSE leave(Run(s[3], o, m, k))
    [] s[1] = "case" -> Run(s[3], IF o = Seek(<<"case", s[2]>>) THEN Go ELSE o, m, k)
    [] s[1] = "default" -> Run(s[2], IF o = Seek(<<"default">>) THEN Go ELSE o, m, k)
    [] s[1] = "label" -> Run(s[3], IF o = Seek(<<"label", s[2]>>) THEN Go ELSE o, m, k)
    [] s[1] \in {"break", "continue", "goto"} -> {[o |-> IF Seeking(o) THEN o ELSE s, m |-> m]}
    [] s[1] = "return" ->
         IF Seeking(o) THEN {[o |-> o, m |-> m]}
         ELSE IF Len(s) = 1 THEN {[o |-> <<"return", 0>>, m |-> m]}
         ELSE {IF c.v = <<>> THEN [o |-> Undefined, m |-> m] ELSE [o |-> <<"return", c.v[1]>>, m |-> c.m] :
                 c \in Outcomes(s[2], m, "value")}

(* The body of a function; where it ends without a return, it returns 0.   *)
RECURSIVE Body(_, _, _, _)
Body(s, o, m, k) ==
  UNION {IF r.o[1] = "goto"
         THEN IF k = 0 THEN {[o |-> Cut, m |-> r.m]} ELSE Body(s, Seek(<<"label", r.o[2]>>), r.m, k - 1)
         ELSE {IF r.o = Go THEN [r EXCEPT !.o = <<"return", 0>>] ELSE r} : r \in Run(s, o, m, k)}

Behaviours(s, m, k) == Body(s, Go, m, k)
=============================================================================
