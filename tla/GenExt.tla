------------------------------- MODULE GenExt -------------------------------
(***************************************************************************)
(* The generating extension that gg-code.cc, gg-expr.cc, gg-decl.cc and    *)
(* gg-struct.cc emit for an annotated program, as it runs: the static      *)
(* parts of the program are executed on the static store, for the dynamic  *)
(* parts residual code is made.                                            *)
(*                                                                         *)
(* A residual variable is named by the static address where its Code is    *)
(* kept: <<object, way>>, with the way through arrays that are indexed     *)
(* statically.  A piece of residual code with holes filled is an           *)
(* expression of CoreC.  Whenever a function or a block that was           *)
(* generated before is met with the same static state, it is shared; how   *)
(* the states are compared is MemHash's and FunShare's matter.             *)
(***************************************************************************)
EXTENDS Annotation

GenFuel == 120      \* bound on the blocks that are processed

\* bt: the dynamic variables.
IsDynamic(c, t) == t.id \in c.bt
Spectime(c, x) == ~IsDynamic(c, ArrayContents(VarType(c.P, x)))

-----------------------------------------------------------------------------
(***************************************************************************)
(* Names.                                                                  *)
(***************************************************************************)
\* The ways through arrays that are split: ForCascade.
RECURSIVE Splits(_, _, _)
Splits(c, t, shape) ==
  IF t.k = "arr" /\ ~IsDynamic(c, t)
  THEN {<<k>> \o w : k \in 0 .. shape[2] - 1, w \in Splits(c, t.next, shape[3])}
  ELSE {<<>>}

\* NameDynamicObject: the residual variables for object base of shape.
Names(c, base, shape) ==
  IF Spectime(c, base[1]) THEN {}
  ELSE {<<base, w>> : w \in Splits(c, VarType(c.P, base[1]), shape)}

\* The type of the part at the end of a way.
RECURSIVE NodeAt(_, _)
NodeAt(t, way) ==
  IF way = <<>> THEN t ELSE NodeAt(IF t.k = "struct" THEN t.mem[Head(way)] ELSE t.next, Tail(way))

\* The Code at a static address: a residual variable or a member of one.
RECURSIVE CodeAt(_, _, _, _, _)
CodeAt(c, e, t, base, way) ==
  IF way = <<>> THEN IF IsDynamic(c, t) THEN e ELSE <<"bad">>
  ELSE IF t.k = "arr" /\ ~IsDynamic(c, t)
  THEN CodeAt(c, <<e[1], <<base, Append(e[2][2], Head(way))>>>>, t.next, base, Tail(way))
  ELSE IF t.k = "struct"
  THEN FoldLeft(LAMBDA x, k : <<"member", x, k>>, IF IsDynamic(c, NodeAt(t, way)) THEN e ELSE <<"bad">>, way)
  ELSE <<"bad">>

Code(c, v) ==
  IF v[1] # "ptr" THEN <<"bad">>
  ELSE CodeAt(c, <<"var", <<v[2], <<>>>>>>, VarType(c.P, v[2][1]), v[2], v[3])

-----------------------------------------------------------------------------
(***************************************************************************)
(* Expressions: c is the program, its binding times, the environment of    *)
(* the function's activation and the static store.                         *)
(***************************************************************************)
Static(c, e, at) == ~IsDynamic(c, T(c.P, e, at))
Value(c, e)      == Eval(e, c.env, c.s)

\* ShouldLiftRval.
RECURSIVE ShouldLift(_)
ShouldLift(e) ==
  CASE e[1] \in {"null", "num", "ext", "fun", "var", "arith", "array", "member"} -> FALSE
    [] e[1] = "not" -> ShouldLift(e[2])
    [] e[1] = "bin" -> ShouldLift(e[3]) \/ ShouldLift(e[4])
    [] e[1] \in {"cmp", "deref"} -> TRUE

\* std_hole and fill_hole: the value of a static expression as residual code.
\* A pointer to static data cannot be lifted.
Lifted(c, t, v) ==
  IF v[1] = "int" THEN <<"num", v[2]>>
  ELSE IF t.k = "ptr" /\ IsDynamic(c, t.next) THEN Code(c, v)
  ELSE <<"bad">>

\* The operand of MayBeStaticNull's loop that decides.
RECURSIVE Origin(_, _)
Origin(e, at) ==
  IF e[1] \in {"array", "member", "arith"} THEN Origin(e[2], Append(at, 1)) ELSE <<e, at>>

\* The pointer may be null when the residual code is made, and is.
IsStaticNull(c, e, at) ==
  LET o == Origin(e, at)
  IN  /\ T(c.P, e, at).k = "ptr"
      /\ o[1][1] \notin {"fun", "var", "null"}
      /\ Static(c, o[1], o[2])
      /\ Value(c, o[1]) = NullPtr

\* Residual (EmitExpr) and Place (EmitDeref) with pgenMode off.
RECURSIVE Residual(_, _, _), Target(_, _, _)

Residual(c, e, at) ==
  LET S(i) == Append(at, i)
  IN IF IsStaticNull(c, e, at) THEN <<"null">>
     ELSE IF Static(c, e, at) /\ ShouldLift(e) THEN Lifted(c, T(c.P, e, at), Value(c, e))
     ELSE CASE e[1] \in {"null", "num", "ext", "void"} -> e
            [] e[1] \in {"var", "member"} -> Target(c, e, at)
            [] e[1] = "array" -> <<"array", Target(c, e[2], S(1))>>
            [] e[1] = "deref" -> <<"deref", Target(c, e[2], S(1))>>
            [] e[1] = "not" -> <<"not", Residual(c, e[2], S(1))>>
            [] e[1] = "arith" -> <<"arith", Residual(c, e[2], S(1)), Residual(c, e[3], S(2))>>
            [] e[1] \in {"bin", "cmp"} -> <<e[1], e[2], Residual(c, e[3], S(1)), Residual(c, e[4], S(2))>>

Target(c, e, at) ==
  IF Static(c, e, at) THEN Code(c, Value(c, e))
  ELSE CASE e[1] = "var" -> Code(c, Value(c, e))
         [] e[1] = "member" -> <<"member", Target(c, e[2], Append(at, 1)), e[3]>>
         [] OTHER -> Residual(c, e, at)

-----------------------------------------------------------------------------
(***************************************************************************)
(* The state of the generating extension: the static store, the residual   *)
(* block that is being made, the blocks and local names of the residual    *)
(* function, the pending list of the generating function, the residual     *)
(* functions, and the exits that every generating function has taken.      *)
(***************************************************************************)
Open(label) == [label |-> label, code |-> <<>>]

Start(store) ==
  [s |-> store, cur |-> Open(0), blocks |-> <<>>, locals |-> {}, pend |-> <<>>, met |-> {},
   funs |-> <<>>, memo |-> {}, n |-> 0, fuel |-> GenFuel, globals |-> {}, exits |-> {}, ret |-> NullPtr, ok |-> TRUE]

Failed(g)      == [g EXCEPT !.ok = FALSE, !.fuel = 0]
Emit(g, st)    == [g EXCEPT !.cur.code = Append(@, st)]
Close(g, jump) == [g EXCEPT !.blocks = (g.cur.label :> <<g.cur.code, jump>>) @@ @]
Put(g, a, v)   == IF a[1] # "ptr" \/ v = Bad THEN Failed(g)
                  ELSE [g EXCEPT !.s = (<<a[2], a[3]>> :> v) @@ @]

At(c, g) == [c EXCEPT !.s = g.s]

-----------------------------------------------------------------------------
(***************************************************************************)
(* Which functions are unfolded (share.cc) and which blocks are handled by *)
(* the pending list.                                                       *)
(***************************************************************************)
Blocks(P, f) == DOMAIN P.blocks[f]
DynamicIf(P, bt, f, b) ==
  LET j == P.blocks[f][b][2]
  IN  j[1] = "if" /\ T(P, j[2], Place(f, b, 0, 1)).id \in bt

\* findImpureSpectime: a static allocation, here or in a function called.
Allocates(P, bt, f) ==
  \E b \in Blocks(P, f) : \E i \in DOMAIN P.blocks[f][b][1] :
    LET st == P.blocks[f][b][1][i]
    IN  st[1] = "alloc" /\ T(P, st[2], Place(f, b, i, 1)).next.id \notin bt
Impure(P, bt, f) == \E g \in {f} \cup CalledFrom(P, Callees(P, f)) : Allocates(P, bt, g)

\* findStaticReturns.
StaticReturn(P, bt, f) == P.ret[f] # <<"void">> /\ RetType(P, f).id \notin bt

Assigns(P, bt, f) ==
  \E b \in Blocks(P, f) : \E i \in DOMAIN P.blocks[f][b][1] :
    LET st == P.blocks[f][b][1][i]
    IN  st[1] = "assign" /\ T(P, st[2], Place(f, b, i, 1)).next.id \in bt

\* anyCycles, a depth-first search: <<a cycle was found, Finished>>.
RECURSIVE AnyCycles(_, _, _, _, _)
AnyCycles(P, f, b, pending, finished) ==
  IF b \in finished THEN <<FALSE, finished>>
  ELSE IF b \in pending THEN <<TRUE, finished>>
  ELSE LET j == P.blocks[f][b][2]
           Go(x, fin) == AnyCycles(P, f, x, pending \cup {b}, fin)
           one == Go(IF j[1] = "goto" THEN j[2] ELSE j[3], finished)
           two == Go(j[4], one[2])
           end == IF j[1] = "return" THEN <<FALSE, finished>>
                  ELSE IF j[1] = "goto" \/ one[1] THEN one ELSE two
       IN  <<end[1], IF end[1] THEN end[2] ELSE end[2] \cup {b}>>

\* isInliningCandidate.
Small(P, bt, f) ==
  /\ \A b \in Blocks(P, f) : ~DynamicIf(P, bt, f, b)
  /\ Assigns(P, bt, f) => ~Recursive(P, f) /\ ~AnyCycles(P, f, 1, {}, {})[1]

Unfolded(P, bt, f) == Impure(P, bt, f) \/ StaticReturn(P, bt, f) \/ Small(P, bt, f)

\* StdFunGegen::StdFunGegen: the pendusers.
Pendusers(P, bt, f) ==
  LET ifs == {b \in Blocks(P, f) : DynamicIf(P, bt, f, b)}
  IN  {b \in ifs : BlockId(f, b) \in bt} \cup UNION {{P.blocks[f][b][2][3], P.blocks[f][b][2][4]} : b \in ifs}

-----------------------------------------------------------------------------
(***************************************************************************)
(* Statements.                                                             *)
(***************************************************************************)
\* cmixPendinsert: the label of block b in the static store there is now.
Inserted(g, b) ==
  LET old == {p \in g.met : p.b = b /\ p.s = g.s}
      new == [b |-> b, s |-> g.s, label |-> g.n + 1]
  IN  IF old # {} THEN <<g, (CHOOSE p \in old : TRUE).label>>
      ELSE <<[g EXCEPT !.n = @ + 1, !.met = @ \cup {new}, !.pend = Append(@, new)], new.label>>

\* What a function can see of the static store: globals and heap, and what
\* they and its parameters point to.
RECURSIVE SeenFrom(_, _)
SeenFrom(s, S) ==
  LET new == {s[at][2] : at \in {a \in DOMAIN s : a[1] \in S /\ s[a][1] = "ptr"}} \ S
  IN  IF new = {} THEN S ELSE SeenFrom(s, S \cup new)

Visible(P, s, args) ==
  LET roots == {at[1] : at \in {a \in DOMAIN s : P.owner[a[1][1]] \in {"global", "heap"}}}
               \cup {a[2] : a \in {v \in args : v[1] = "ptr"}}
      seen  == SeenFrom(s, roots)
  IN  [at \in {a \in DOMAIN s : a[1] \in seen} |-> s[at]]

\* And what is left of it when the activation k is gone.
Without(s, k) == [at \in {a \in DOMAIN s : a[1][2] # k} |-> s[at]]

\* After a call: g, where ret is a value, code, or <<"rcall", function, code>>,
\* and t is the type of what is returned.
Answered(c, g, st, at, t) ==
  LET dynamic == st[2] # <<>> /\ IsDynamic(c, T(c.P, st[2], at).next)
      code    == IF IsDynamic(c, t) THEN g.ret ELSE IF g.ret = NullPtr THEN <<"null">> ELSE Lifted(c, t, g.ret)
      target  == IF dynamic THEN Target(c, st[2], at) ELSE <<>>
      resides == g.ret[1] = "rcall" /\ (dynamic => IsDynamic(c, t))
  IN IF ~g.ok THEN Failed(g)
     ELSE IF st[2] # <<>> /\ ~dynamic THEN Put(g, Value(c, st[2]), g.ret)
     ELSE IF resides THEN Emit(g, <<"call", target, <<"fun", g.ret[2]>>, g.ret[3]>>)
     ELSE IF dynamic THEN Emit(g, <<"assign", target, code>>)
     ELSE g

RECURSIVE Generate(_, _, _, _), Pending(_, _), Goto(_, _, _), Run(_, _, _, _), Jump(_, _, _)

\* A call of a generating function: the arguments are values or code.
EmitCall(c, g, st, at) ==
  LET P == c.P
      f == st[3][2]
      Arg(i) == <<at[1], at[2], at[3], at[4], 2 + i>>
      ext == st[3][1] = "ext"
      DynArg(i) == IF ext THEN IsDynamic(c, ExtType(f)) ELSE IsDynamic(c, VarType(P, P.params[f][i]))
      args == [i \in DOMAIN st[4] |-> IF DynArg(i) THEN Residual(c, st[4][i], Arg(i)) ELSE Value(c, st[4][i])]
  IN IF ext /\ IsDynamic(c, ExtType(f))
     THEN Emit(g, <<"call", IF st[2] # <<>> /\ IsDynamic(c, T(P, st[2], at).next) THEN Target(c, st[2], at) ELSE <<>>, st[3], args>>)
     ELSE IF Bad \in Range(args) THEN Failed(g)
     ELSE IF ext THEN Answered(c, [g EXCEPT !.ret = External(Machine(<<>>), f, args[1]).val], st, at, ExtType(f))
     ELSE Answered(c, Generate(c, g, f, args), st, at, RetType(P, f))

\* The static part of a store.
Statics(c, store) ==
  [at \in {a \in DOMAIN store : ~IsDynamic(c, NodeAt(VarType(c.P, a[1][1]), a[2]))} |-> store[at]]

\* The three ways to allocate.
EmitAlloc(c, g, st, at) ==
  LET P    == c.P
      size == <<at[1], at[2], at[3], at[4], 2>>
      h    == VarType(P, st[4])
      n    == Value(c, st[3])
      base == <<st[4], g.n + 1>>
      shape == <<"arr", n[2], st[5]>>
      zero == Zeros(P, base, shape)
      made == [g EXCEPT !.n = @ + 1, !.s = Statics(c, zero) @@ @,
                         !.globals = @ \cup Names(c, base, shape)]
      first == Ptr(base, <<0>>)
      to   == T(P, st[2], at).next
  IN IF IsDynamic(c, h) THEN Emit(g, <<"alloc", Target(c, st[2], at), Residual(c, st[3], size), <<st[4]>>, st[5]>>)
     ELSE IF n[1] # "int" THEN Failed(g)
     ELSE IF ~IsDynamic(c, to) THEN Put(made, Value(c, st[2]), first)
     ELSE Emit(made, <<"assign", Target(c, st[2], at), Code(c, first)>>)

\* EmitStatement.
EmitStatement(c, g, st, b, i) ==
  LET at == Place(c.f, b, i, 1)
      v  == Place(c.f, b, i, 2)
  IN CASE st[1] = "assign" ->
            IF IsDynamic(c, T(c.P, st[2], at).next)
            THEN Emit(g, <<"assign", Target(c, st[2], at), Residual(c, st[3], v)>>)
            ELSE Put(g, Value(c, st[2]), Value(c, st[3]))
       [] st[1] = "call" -> EmitCall(c, g, st, at)
       [] st[1] = "alloc" -> EmitAlloc(c, g, st, at)
       [] st[1] = "free" ->
            IF Static(c, st[2], at) THEN g ELSE Emit(g, <<"free", Residual(c, st[2], at)>>)

\* EmitBasicBlock: statement i of block b and what comes after it.
Proceed(c, g, b, i) == IF g.ok THEN Run(c, g, b, i) ELSE g

Run(c, g, b, i) ==
  LET now == At(c, g)
      ss  == c.P.blocks[c.f][b][1]
  IN IF g.fuel = 0 THEN Failed(g)
     ELSE IF i > Len(ss) THEN Jump(now, [g EXCEPT !.fuel = @ - 1], b)
     ELSE Proceed(c, EmitStatement(now, g, ss[i], b, i), b, i + 1)

\* EmitGoto: through the pending list, or directly.
Jumped(p) == Close(p[1], <<"goto", p[2]>>)

Goto(c, g, b) == IF b \in c.pending THEN Jumped(Inserted(g, b)) ELSE Run(c, g, b, 1)

\* SplitIntoSDlists.
RECURSIVE Operands(_, _, _)
Operands(e, op, at) ==
  IF e[1] = "bin" /\ e[2] = op
  THEN Operands(e[3], op, Append(at, 1)) \o Operands(e[4], op, Append(at, 2))
  ELSE <<<<e, at>>>>

\* A dynamic condition: what is static in it is tested first.  The outcome is
\* "then", "else", "bad" or the residual condition.
RECURSIVE Condition(_, _, _)
Condition(c, e, at) ==
  LET op    == e[2]
      all   == Operands(e, op, at)
      slist == SelectSeq(all, LAMBDA x : Static(c, x[1], x[2]))
      dlist == SelectSeq(all, LAMBDA x : ~Static(c, x[1], x[2]))
      Decides(v) == (v \in {Num(0), NullPtr}) = (op = "&&")
      ends  == {i \in DOMAIN slist : LET v == Value(c, slist[i][1]) IN v = Bad \/ Decides(v)}
      rest  == FoldLeft(LAMBDA r, x : <<"bin", op, r, Residual(c, x[1], x[2])>>,
                        Residual(c, dlist[1][1], dlist[1][2]), Tail(dlist))
  IN IF e[1] # "bin" \/ op \notin {"&&", "||"} \/ slist = <<>> THEN <<"if", Residual(c, e, at)>>
     ELSE IF ends # {}
     THEN <<IF Value(c, slist[Min(ends)][1]) = Bad THEN "bad" ELSE IF op = "&&" THEN "else" ELSE "then">>
     ELSE IF Len(dlist) = 1 THEN Condition(c, dlist[1][1], dlist[1][2])
     ELSE <<"if", rest>>

\* The placeholder for the dynamic return value of an unfolded function.
ReturnCode(c) == <<<<"cmixSR", c.k>>, <<>>>>

\* An exit of the generating function: what its caller will see.
Exit(c, g) == [g EXCEPT !.exits = @ \cup {<<c.k, Without(g.s, c.k), IF c.retmode = "static" THEN g.ret ELSE NullPtr>>}]

Return(c, g, e, at) ==
  LET v    == Value(c, e)
      code == Residual(c, e, at)
      end  == IF c.pending = {} THEN g ELSE Close(g, <<"goto", c.end>>)
  IN IF c.f \notin c.unfold THEN Exit(c, Close(g, <<"return", IF c.retmode = "dynamic" THEN code ELSE <<"void">>>>))
     ELSE IF c.retmode = "static" THEN IF v = Bad THEN Failed(g) ELSE Exit(c, [end EXCEPT !.ret = v])
     ELSE IF c.retmode = "void" THEN Exit(c, end)
     ELSE IF c.pending = {} THEN Exit(c, [g EXCEPT !.ret = code])
     ELSE Exit(c, Close(Emit(g, <<"assign", <<"var", ReturnCode(c)>>, code>>), <<"goto", c.end>>))

\* A dynamic branch: both targets are pending.
Branch(g, cond, one, b) ==
  LET two == Inserted(one[1], b) IN Close(two[1], <<"if", cond, one[2], two[2]>>)

\* How a branch comes out; test is <<"if", condition>> when it is dynamic.
Outcome(c, e, at) ==
  LET v == Value(c, e)
  IN  IF ~Static(c, e, at) THEN Condition(c, e, at)
      ELSE IF v = Bad THEN <<"bad">> ELSE IF v \in {Num(0), NullPtr} THEN <<"else">> ELSE <<"then">>

Decided(c, g, j, test) ==
  CASE test[1] = "bad" -> Failed(g)
    [] test[1] = "if"  -> Branch(g, test[2], Inserted(g, j[3]), j[4])
    [] OTHER           -> Goto(c, g, IF test[1] = "then" THEN j[3] ELSE j[4])

\* EmitJump.
Jump(c, g, b) ==
  LET j  == c.P.blocks[c.f][b][2]
      at == Place(c.f, b, 0, 1)
  IN CASE j[1] = "goto"   -> Decided(c, g, <<"goto", <<>>, j[2], j[2]>>, <<"then">>)
       [] j[1] = "return" -> Return(c, g, j[2], at)
       [] j[1] = "if"     -> Decided(c, g, j, Outcome(c, j[2], at))

\* The pending loop.
Pending(c, g) ==
  IF g.pend = <<>> \/ ~g.ok THEN g
  ELSE LET p == Head(g.pend)
       IN  Pending(c, Run(c, [g EXCEPT !.s = p.s, !.cur = Open(p.label), !.pend = Tail(@)], p.b, 1))

\* StdFunGegen::emit: what the caller goes on with.  body and made are the
\* generating extension at the end of the function f, whose context is c.
Unfolds(c, g, body) ==
  IF ~body.ok THEN body
  ELSE [body EXCEPT !.s = Without(@, c.k), !.pend = g.pend, !.met = g.met,
          !.ret = IF c.retmode = "dynamic" /\ c.pending # {} THEN <<"deref", <<"var", ReturnCode(c)>>>> ELSE @,
          !.cur = IF c.pending = {} THEN @ ELSE Open(c.end)]

Called(h, name, args) == [h EXCEPT !.ret = <<"rcall", name, args>>]

Specializes(c, g, made, params, args) ==
  IF ~made.ok THEN made
  ELSE Called([made EXCEPT !.s = Without(@, c.k), !.cur = g.cur, !.blocks = g.blocks, !.locals = g.locals,
                 !.pend = g.pend, !.met = g.met,
                 !.funs = (c.k :> [params |-> params, locals |-> made.locals, blocks |-> made.blocks]) @@ @], c.k, args)

\* The blocks of f are generated, and those that become pending.
Body(c, g) == Pending(c, Goto(c, g, 1))

Local(c, x) == <<<<x, c.k>>, <<>>>>

\* The parameters of f: statics are the numbers of the static ones, dynpars
\* the dynamic ones and dynargs the code they are called with.
Enter(c, g, args, statics, dynpars, dynargs) ==
  LET P     == c.P
      pars  == P.params[c.f]
      store == [at \in {Local(c, pars[i]) : i \in statics} |-> args[CHOOSE i \in statics : pars[i] = at[1][1]]] @@ g.s
      names == UNION {Names(c, <<x, c.k>>, P.types[x]) : x \in LocalsOf(P, c.f)}
      into  == [g EXCEPT !.n = c.k, !.s = store, !.pend = <<>>, !.met = {}]
      key   == <<c.f, [i \in statics |-> args[i]], Visible(P, g.s, {args[i] : i \in statics})>>
      old   == {m \in g.memo : m[1] = key}
  IN IF c.f \in c.unfold   \* into the residual function that calls
     THEN Unfolds(c, g, Body(c,
            FoldLeft(LAMBDA h, i : Emit(h, <<"assign", <<"var", Local(c, dynpars[i])>>, dynargs[i]>>),
                     [into EXCEPT !.ret = NullPtr, !.locals = @ \cup names \cup {ReturnCode(c)}],
                     [i \in DOMAIN dynpars |-> i])))
     ELSE IF old # {} THEN Called(g, (CHOOSE m \in old : TRUE)[2], dynargs)
     ELSE Specializes(c, g,   \* a residual function of its own
            Body(c, [into EXCEPT !.cur = Open(0), !.blocks = <<>>, !.locals = names,
                       !.memo = IF FunId(c.f) \in c.bt THEN @ \cup {<<key, c.k>>} ELSE @]),
            [i \in DOMAIN dynpars |-> Local(c, dynpars[i])], dynargs)

\* The generating function of f is called.
Generate(c, g, f, args) ==
  LET P    == c.P
      pars == P.params[f]
      k    == g.n + 1
      Dyn(i) == IsDynamic(c, VarType(P, pars[i]))
      dyns   == SelectSeq([i \in DOMAIN pars |-> i], Dyn)
  IN Enter([c EXCEPT !.f = f, !.k = k, !.end = k, !.pending = Pendusers(P, c.bt, f),
              !.retmode = IF P.ret[f] = <<"void">> THEN "void" ELSE IF IsDynamic(c, RetType(P, f)) THEN "dynamic" ELSE "static",
              !.env = [x \in LocalsOf(P, f) \cup Globals(P) |-> <<x, IF P.owner[x] = f THEN k ELSE 0>>]],
           g, args, DOMAIN pars \ Range(dyns), [i \in DOMAIN dyns |-> pars[dyns[i]]], [i \in DOMAIN dyns |-> args[dyns[i]]])

-----------------------------------------------------------------------------
(***************************************************************************)
(* The whole: EntryPointGegen for the generator gen, and the residual      *)
(* program with its global variables and their initializers.               *)
(***************************************************************************)
Context(P, bt) ==
  [P |-> P, bt |-> bt, f |-> "gen", k |-> 0, end |-> 0, env |-> GlobalEnv(P), s |-> Statics([P |-> P, bt |-> bt], Initial(P)),
   pending |-> {}, retmode |-> "void", unfold |-> {f \in Functions(P) \ {"gen"} : Unfolded(P, bt, f)}]

\* args: for the parameters of gen, with the dynamic ones ignored.
Generated(P, bt, args) ==
  LET c == Context(P, bt)
      g == Start(c.s)
  IN  Generate(c, [g EXCEPT !.globals = UNION {Names(c, <<x, 0>>, P.types[x]) : x \in Globals(P)}], "gen", args)

ResidualCode(P, g) ==
  [structs |-> P.structs, globals |-> g.globals, params |-> [f \in DOMAIN g.funs |-> g.funs[f].params],
   entry |-> [f \in DOMAIN g.funs |-> 0], locals |-> [f \in DOMAIN g.funs |-> g.funs[f].locals \cup Range(g.funs[f].params)],
   blocks |-> [f \in DOMAIN g.funs |-> g.funs[f].blocks]]

\* The residual initializers (of constants, see Annotation!OfInit); what has
\* none is zero.
ResidualStore(P, g) ==
  LET Shape(n) == TypeAt(P, IF n[1][2] = 0 THEN P.types[n[1][1]] ELSE <<"arr", 0, P.types[n[1][1]][3]>>, n[2])
      Val(n, w) == LET x == n[1][1]
                   IN  IF x \in DOMAIN P.init THEN Eval(InitAt(P.init[x], n[2] \o w), <<>>, <<>>)
                       ELSE Zero(TypeAt(P, Shape(n), w))
  IN  [at \in UNION {{<<<<n, 0>>, w>> : w \in Leaves(P, Shape(n))} : n \in g.globals} |-> Val(at[1][1], at[2])]
=============================================================================
