------------------------------- MODULE CoreC -------------------------------
(***************************************************************************)
(* Programs in Core C and what they do: the reference that a generating    *)
(* extension is compared with, in both of its roles, for the program it    *)
(* was made from and for the program it generates.                         *)
(*                                                                         *)
(* A program is a record                                                   *)
(*   types   variable |-> its type: <<"int">>, <<"ptr", t>>,             *)
(*           <<"arr", n, t>>, <<"struct", name>>; a heap object is an      *)
(*           array, whose size is 0 for a single object                    *)
(*   structs name |-> the types of its members                             *)
(*   owner   variable |-> its function, "global" or "heap"                 *)
(*   params, ret, blocks  by function                                      *)
(*   init    global variable |-> its initializer                           *)
(* Expressions, statements and jumps are tuples that begin with their      *)
(* kind; an expression that mentions an object stands for its address, and *)
(* "deref" reads.  Undefined behaviour has the value Bad.                  *)
(***************************************************************************)
EXTENDS Integers, SequencesExt, FiniteSetsExt

Modulus == 8
Fuel    == 60      \* bound on the blocks a program executes

Bad       == <<"bad">>
NullPtr   == <<"null">>
Num(n)    == <<"int", n % Modulus>>
Ptr(b, p) == <<"ptr", b, p>>      \* a base object and the way to a part of it
Truth(p)  == Num(IF p THEN 1 ELSE 0)

Functions(P)   == DOMAIN P.blocks
LocalsOf(P, f) == {x \in DOMAIN P.types : P.owner[x] = f}
Globals(P)     == LocalsOf(P, "global")

-----------------------------------------------------------------------------
(***************************************************************************)
(* Expressions.                                                            *)
(***************************************************************************)
Arithmetic(o, a, b) ==
  CASE o = "+" -> Num(a + b) [] o = "-" -> Num(a - b) [] o = "*" -> Num(a * b)
    [] o = "<" -> Truth(a < b) [] o = "==" -> Truth(a = b)

Step(a, i) ==
  IF a[1] = "ptr" /\ a[3] # <<>> /\ i[1] = "int"
  THEN Ptr(a[2], Append(Front(a[3]), Last(a[3]) + i[2]))
  ELSE Bad

Part(a, k) == IF a[1] = "ptr" THEN Ptr(a[2], Append(a[3], k)) ELSE Bad

Compare(o, a, b) ==
  IF Bad \in {a, b} THEN Bad
  ELSE IF o = "==" THEN Truth(a = b)
  ELSE IF a[1] = "ptr" /\ b[1] = "ptr" /\ a[2] = b[2] /\ a[3] # <<>> /\ b[3] # <<>>
  THEN Truth(Last(a[3]) < Last(b[3]))
  ELSE Bad

\* env: the variables in scope |-> their objects; s: address |-> value.
RECURSIVE Eval(_, _, _)
Eval(e, env, s) ==
  CASE e[1] = "num"  -> Num(e[2])
    [] e[1] \in {"null", "void"} -> NullPtr
    [] e[1] = "bad"  -> Bad
    [] e[1] = "var"  -> IF e[2] \in DOMAIN env THEN Ptr(env[e[2]], <<>>) ELSE Bad
    [] e[1] = "not"  -> LET a == Eval(e[2], env, s)
                        IN  IF a = Bad THEN Bad ELSE Truth(a \in {Num(0), NullPtr})
    [] e[1] = "bin" /\ e[2] \in {"&&", "||"} ->
         LET a == Eval(e[3], env, s)
         IN  IF a = Bad THEN Bad
             ELSE IF (a \in {Num(0), NullPtr}) = (e[2] = "&&") THEN Truth(e[2] = "||")
             ELSE LET b == Eval(e[4], env, s)
                  IN  IF b = Bad THEN Bad ELSE Truth(b \notin {Num(0), NullPtr})
    [] e[1] = "bin" /\ e[2] \notin {"&&", "||"} ->
         LET a == Eval(e[3], env, s)
             b == Eval(e[4], env, s)
         IN  IF a[1] = "int" /\ b[1] = "int" THEN Arithmetic(e[2], a[2], b[2]) ELSE Bad
    [] e[1] = "cmp"    -> Compare(e[2], Eval(e[3], env, s), Eval(e[4], env, s))
    [] e[1] = "arith"  -> Step(Eval(e[2], env, s), Eval(e[3], env, s))
    [] e[1] = "member" -> Part(Eval(e[2], env, s), e[3])
    [] e[1] = "array"  -> Part(Eval(e[2], env, s), 0)
    [] e[1] = "deref"  -> LET a == Eval(e[2], env, s)
                              at == <<a[2], a[3]>>
                          IN  IF a[1] = "ptr" /\ at \in DOMAIN s THEN s[at] ELSE Bad

-----------------------------------------------------------------------------
(***************************************************************************)
(* Objects.                                                                *)
(***************************************************************************)
\* The scalars of an object of type t, as the ways to them.
RECURSIVE Leaves(_, _)
Leaves(P, t) ==
  CASE t[1] \in {"int", "ptr"} -> {<<>>}
    [] t[1] = "arr"    -> {<<k>> \o w : k \in 0 .. t[2] - 1, w \in Leaves(P, t[3])}
    [] t[1] = "struct" -> UNION {{<<k>> \o w : w \in Leaves(P, P.structs[t[2]][k])} :
                                   k \in DOMAIN P.structs[t[2]]}

RECURSIVE TypeAt(_, _, _)
TypeAt(P, t, way) ==
  IF way = <<>> THEN t
  ELSE IF t[1] = "arr" THEN TypeAt(P, t[3], Tail(way))
  ELSE TypeAt(P, P.structs[t[2]][Head(way)], Tail(way))

Zero(t) == IF t[1] = "int" THEN Num(0) ELSE NullPtr

Zeros(P, base, t) ==
  [at \in {<<base, w>> : w \in Leaves(P, t)} |-> Zero(TypeAt(P, t, at[2]))]

\* The expression of initializer i for the scalar at the end of a way.
RECURSIVE InitAt(_, _)
InitAt(i, way) ==
  IF i[1] = "simple" THEN i[2]
  ELSE LET k == IF i[2] = "arr" THEN Head(way) + 1 ELSE Head(way)
       IN  InitAt(i[3][k], Tail(way))

GlobalEnv(P) == [x \in Globals(P) |-> <<x, 0>>]

\* The store that the program starts with.
Initial(P) ==
  [at \in UNION {{<<<<x, 0>>, w>> : w \in Leaves(P, P.types[x])} : x \in Globals(P)} |->
     LET x == at[1][1]
     IN  IF x \in DOMAIN P.init
         THEN Eval(InitAt(P.init[x], at[2]), GlobalEnv(P), <<>>)
         ELSE Zero(TypeAt(P, P.types[x], at[2]))]

-----------------------------------------------------------------------------
(***************************************************************************)
(* Execution.  The code C of a program, subject or residual: the names     *)
(* that are global, and by function its parameters, its local names, its   *)
(* first block and its blocks, each a sequence of statements and a jump.   *)
(* The machine: the store, the output, the number of objects and           *)
(* activations made, the fuel left, and the value returned last.           *)
(***************************************************************************)
Machine(store) == [s |-> store, out |-> <<>>, n |-> 0, fuel |-> Fuel, val |-> NullPtr]

Fails(m) == [m EXCEPT !.fuel = 0, !.out = Append(@, Bad)]

Assigned(m, a, v) ==
  IF a[1] # "ptr" \/ v = Bad THEN Fails(m)
  ELSE [m EXCEPT !.s = (<<a[2], a[3]>> :> v) @@ @]

\* print shows its argument; sq is a function without side effects.
External(m, f, v) ==
  IF v = Bad THEN Fails(m)
  ELSE IF f = "print" THEN [m EXCEPT !.out = Append(@, v), !.val = Num(0)]
  ELSE [m EXCEPT !.val = Num(v[2] * v[2] + 1)]

RECURSIVE Call(_, _, _, _), Block(_, _, _, _, _), Statements(_, _, _, _)

\* The objects of activation k of f end with it.
Ended(C, f, k, m) ==
  LET gone == {at \in DOMAIN m.s : at[1][2] = k /\ at[1][1] \in C.locals[f]}
  IN  [m EXCEPT !.s = [at \in DOMAIN @ \ gone |-> @[at]]]

Call(C, f, args, m) ==
  LET k    == m.n + 1
      own  == C.locals[f]
      pars == C.params[f]
      in   == [at \in {<<<<pars[i], k>>, <<>>>> : i \in DOMAIN pars} |->
                 args[CHOOSE i \in DOMAIN pars : pars[i] = at[1][1]]]
  IN  Ended(C, f, k, Block(C, f, [x \in own \cup C.globals |-> <<x, IF x \in own THEN k ELSE 0>>],
                           C.entry[f], [m EXCEPT !.n = k, !.s = in @@ @]))

\* The jump j after the statements of a block; v is its condition or result.
Transfer(C, f, env, j, v, m) ==
  IF m.fuel = 0 THEN m
  ELSE IF v = Bad THEN Fails(m)
  ELSE IF j[1] = "return" THEN [m EXCEPT !.val = v]
  ELSE Block(C, f, env, IF j[1] = "goto" THEN j[2] ELSE IF v \in {Num(0), NullPtr} THEN j[4] ELSE j[3], m)

Leave(C, f, env, j, m) ==
  Transfer(C, f, env, j, IF j[1] = "goto" THEN NullPtr ELSE Eval(j[2], env, m.s), m)

Block(C, f, env, b, m) ==
  IF m.fuel = 0 THEN m
  ELSE Leave(C, f, env, C.blocks[f][b][2], Statements(C, env, C.blocks[f][b][1], [m EXCEPT !.fuel = @ - 1]))

\* After a call: its value is assigned.
Finish(env, lhs, m) ==
  IF lhs = <<>> \/ m.fuel = 0 THEN m ELSE Assigned(m, Eval(lhs, env, m.s), m.val)

Invoke(C, env, st, args, m) ==
  IF Bad \in Range(args) THEN Fails(m)
  ELSE Finish(env, st[2], IF st[3][1] = "ext" THEN External(m, st[3][2], args[1]) ELSE Call(C, st[3][2], args, m))

Allocate(C, to, size, st, m) ==
  LET heap == <<st[4], m.n + 1>>
  IN  IF size[1] # "int" THEN Fails(m)
      ELSE Assigned([m EXCEPT !.n = @ + 1, !.s = Zeros(C, heap, <<"arr", size[2], st[5]>>) @@ @], to, Ptr(heap, <<0>>))

Freed(a, m) ==
  IF a = Bad THEN Fails(m) ELSE [m EXCEPT !.s = [at \in {d \in DOMAIN @ : d[1] # a[2]} |-> @[at]]]

Executed(C, env, st, m) ==
  LET V(e) == Eval(e, env, m.s)
  IN CASE st[1] = "assign" -> Assigned(m, V(st[2]), V(st[3]))
       [] st[1] = "call"   -> Invoke(C, env, st, [i \in DOMAIN st[4] |-> V(st[4][i])], m)
       [] st[1] = "alloc"  -> Allocate(C, V(st[2]), V(st[3]), st, m)
       [] st[1] = "free"   -> Freed(V(st[2]), m)

Statements(C, env, ss, m) ==
  IF ss = <<>> \/ m.fuel = 0 THEN m ELSE Statements(C, env, Tail(ss), Executed(C, env, Head(ss), m))

\* A program as code.
SubjectCode(P) ==
  [structs |-> P.structs, globals |-> Globals(P), params |-> P.params, entry |-> [f \in Functions(P) |-> 1],
   locals |-> [f \in Functions(P) |-> LocalsOf(P, f)], blocks |-> P.blocks]
=============================================================================
