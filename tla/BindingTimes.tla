---------------------------- MODULE BindingTimes ----------------------------
(***************************************************************************)
(* The solution of binding-time constraints (analyzer/btsolve.cc, and      *)
(* BTequalizer in analyzer/bta.cc).                                        *)
(*                                                                         *)
(* Constraints say that one variable is dynamic if another one is, that a  *)
(* variable is dynamic, or that two types have equal binding times, which  *)
(* goes for their components too.  Types may be recursive.  Afterwards the *)
(* property of being dynamic is spread through the graph.  Constraints     *)
(* are also explanations: each dynamic variable keeps those that made it   *)
(* dynamic, and from an error message the way is traced back.              *)
(***************************************************************************)
EXTENDS Naturals, FiniteSets, SequencesExt, Functions

CONSTANTS
  Types,
  SubTypes,  \* SubTypes[t]: the sequence of components of t
  BtVars,
  Var,       \* Var[t]: the variable of t, see btvars.cc; some types share one
  Dynamic,   \* BTenv::dynamic
  Requests,  \* constraints that the program may give rise to
  RequestSets,  \* sets of requests
  NoCause

\* The least subset of D that contains From and with d the set next[d].
Least(D, next, From) ==
  LET Grow[S \in SUBSET D] ==
        LET more == (UNION {next[d] : d \in S}) \ S
        IN  IF more = {} THEN S ELSE Grow[S \cup more]
  IN  Grow[From]

\* The types that a set of requests makes equal, and so in all components.
EqualTypes(P) ==
  Least(Types \X Types,
        [e \in Types \X Types |-> {<<SubTypes[e[1]][k], SubTypes[e[2]][k]>> :
                                    k \in DOMAIN SubTypes[e[1]] \cap DOMAIN SubTypes[e[2]]}],
        {<<r.s, r.t>> : r \in {q \in P : q.op = "equal"}})

ASSUME TypesAssumption ==
  /\ IsFiniteSet(Types) /\ SubTypes \in [Types -> Seq(Types)]
  /\ IsFiniteSet(BtVars) /\ Var \in [Types -> BtVars]
  /\ Dynamic \in BtVars \ {Var[t] : t \in Types}

\* Types are only made equal to types of the same form (assertions in unify).
ASSUME RequestsAssumption ==
  /\ NoCause \notin Requests /\ RequestSets \subseteq SUBSET Requests
  /\ \A r \in Requests : /\ r.op \in {"dynamic", "dep", "equal"} /\ r.t \in Types
                         /\ r.op # "dynamic" => r.s \in Types
  /\ \A P \in RequestSets : \A e \in EqualTypes(P) : Len(SubTypes[e[1]]) = Len(SubTypes[e[2]])

VARIABLES
  btProgram,   \* its requests
  btPhase,     \* "generate", "flood", "trace"
  todo,      \* requests not yet made
  unifying,  \* calls of unify in progress, the inner ones first
  unionfind, \* to the representative, or to the type itself
  waiting,   \* BTvariable::waiting: sequences of <<variable, cause>>
  causes,    \* BTvariable::causes: the same
  status,    \* "untouched", "pending", "dynamic"
  pending,   \* the queue of flood
  refcount,  \* BTcause::refcount
  trace      \* the variable Trace is at, and the cause it follows, or None

graph == <<waiting, causes, refcount>>
btvars  == <<btProgram, btPhase, todo, unifying, unionfind, graph, status, pending, trace>>

\* A cause is the request; it is created when that is made.
BTInit ==
  /\ btPhase = "generate"
  /\ btProgram \in RequestSets /\ todo = btProgram
  /\ unifying = <<>>
  /\ unionfind = [t \in Types |-> t]
  /\ waiting = [v \in BtVars |-> <<>>] /\ causes = waiting
  /\ status = [v \in BtVars |-> "untouched"]
  /\ pending = <<>>
  /\ refcount = [r \in Requests |-> 0]
  /\ trace = <<Dynamic, NoCause>>

----------------------------------------------------------------------------
(***************************************************************************)
(* Generation of constraints.                                              *)
(***************************************************************************)
\* BTvariable::influence: the variables in the domain of to influence the one it gives.
Influence(to, c) ==
  LET From == {v \in DOMAIN to : to[v] # v}
  IN  /\ waiting' = [v \in BtVars |-> IF v \in From THEN Append(waiting[v], <<to[v], c>>) ELSE waiting[v]]
      /\ refcount' = [refcount EXCEPT ![c] = @ + Cardinality(From)]
      /\ UNCHANGED causes

Arrow(v, w)  == [u \in {v} |-> w]
Arrows(v, w) == [u \in {v, w} |-> IF u = v THEN w ELSE v]

\* make_dynamic, add_dep_constraint, force_equal.
Request ==
  /\ btPhase = "generate" /\ unifying = <<>>
  /\ \E r \in todo :
       /\ todo' = todo \ {r}
       /\ CASE r.op = "dynamic" -> Influence(Arrow(Dynamic, Var[r.t]), r) /\ UNCHANGED unifying
            [] r.op = "dep" -> Influence(Arrow(Var[r.s], Var[r.t]), r) /\ UNCHANGED unifying
            [] r.op = "equal" -> unifying' = <<<<r.s, r.t, r>>>> /\ UNCHANGED graph
  /\ UNCHANGED <<btProgram, btPhase, unionfind, status, pending, trace>>

\* BTequalizer::Find: the top, and path compression.
Representative(uf, a) == LET Up[b \in Types] == IF uf[b] = b THEN b ELSE Up[uf[b]] IN Up[a]

Compressed(uf, a) ==
  LET Path[b \in Types] == IF uf[b] = b THEN {} ELSE {b} \cup Path[uf[b]]
  IN  [t \in Types |-> IF t \in Path[a] THEN Representative(uf, a) ELSE uf[t]]

\* Variant with a defect: only the types themselves are made equal.
Components_none(a, b, r) == <<>>

Components(a, b, r) == [k \in DOMAIN SubTypes[a] |-> <<SubTypes[a][k], SubTypes[b][k], r>>]

Joined(uf, a, b) == [uf EXCEPT ![Representative(uf, a)] = Representative(uf, b)]

\* BTequalizer::unify: nothing if a and b are, or soon will be, equal.
Unify ==
  /\ unifying # <<>>
  /\ LET a == Head(unifying)[1]  b == Head(unifying)[2]  r == Head(unifying)[3]
         uf == Compressed(Compressed(unionfind, a), b)
     IN  IF Representative(uf, a) = Representative(uf, b)
         THEN /\ unionfind' = uf
              /\ unifying' = Tail(unifying)
              /\ UNCHANGED graph
         ELSE /\ unionfind' = Joined(uf, a, b)
              /\ unifying' = Components(a, b, r) \o Tail(unifying)
              /\ Influence(Arrows(Var[a], Var[b]), r)
  /\ UNCHANGED <<btProgram, btPhase, todo, status, pending, trace>>

----------------------------------------------------------------------------
(***************************************************************************)
(* Solution.                                                               *)
(***************************************************************************)
\* BTenv::solve, BTvariable::flood.
Start ==
  /\ btPhase = "generate" /\ todo = {} /\ unifying = <<>>
  /\ btPhase' = "flood"
  /\ status' = [status EXCEPT ![Dynamic] = "pending"]
  /\ pending' = <<Dynamic>>
  /\ UNCHANGED <<btProgram, todo, unifying, unionfind, graph, trace>>

\* Variant with a defect: constraints on dynamic variables are kept as causes.
Explains_all(s) == TRUE

\* A variable that is dynamic already needs no further explanation, and the
\* reference to the cause is given up.
Explains(s) == s # "dynamic"

\* Variant with a defect: it is not.
Released_not(list, c, st) == {}

Released(list, c, st) == {i \in DOMAIN list : list[i][2] = c /\ ~ Explains(st[list[i][1]])}

\* Why w is dynamic: v is, by the causes that the list has for w.
Reasons(list, v, w) ==
  LET R[n \in 0 .. Len(list)] ==
        IF n = 0 THEN <<>>
        ELSE IF list[n][1] = w THEN Append(R[n - 1], <<v, list[n][2]>>) ELSE R[n - 1]
  IN  R[Len(list)]

Targets(list) == {list[i][1] : i \in DOMAIN list}

\* The queue, when the variables of the list that nothing has reached are put there once each.
Queued(queue, list, st) ==
  LET Q[n \in 0 .. Len(list)] ==
        IF n = 0 THEN queue
        ELSE LET w == list[n][1]
             IN  IF st[w] = "untouched" /\ w \notin ToSet(Q[n - 1]) THEN Append(Q[n - 1], w) ELSE Q[n - 1]
  IN  Q[Len(list)]

\* One round of the loop of flood, for the first pending variable.
Flood ==
  /\ btPhase = "flood" /\ pending # <<>>
  /\ LET v    == Head(pending)
         list == waiting[v]
         st   == [status EXCEPT ![v] = "dynamic"]
     IN  /\ status' = [w \in BtVars |-> IF st[w] = "untouched" /\ w \in Targets(list)
                                        THEN "pending" ELSE st[w]]
         /\ pending' = Queued(Tail(pending), list, st)
         /\ causes' = [w \in BtVars |->
              IF Explains(st[w]) THEN causes[w] \o Reasons(list, v, w) ELSE causes[w]]
         /\ refcount' = [c \in Requests |-> refcount[c] - Cardinality(Released(list, c, st))]
         /\ waiting' = [waiting EXCEPT ![v] = <<>>]
  /\ UNCHANGED <<btProgram, btPhase, todo, unifying, unionfind, trace>>

\* An error is reported for any dynamic variable: Trace starts there.
Report ==
  /\ btPhase = "flood" /\ pending = <<>>
  /\ btPhase' = "trace"
  /\ \E v \in BtVars : status[v] # "untouched" /\ trace' = <<v, NoCause>>
  /\ UNCHANGED <<btProgram, todo, unifying, unionfind, graph, status, pending>>

\* The first explanation of v by the cause c.
With(v, c) == {i \in DOMAIN causes[v] : causes[v][i][2] = c}
First(S)   == CHOOSE i \in S : \A j \in S : i <= j

\* BTresult::Trace takes the first cause of a variable, and goes on while the
\* next variable has the same one (collapse_cause_chain).
Trace ==
  /\ btPhase = "trace" /\ causes[trace[1]] # <<>>
  /\ LET v == trace[1]
         k == IF With(v, trace[2]) # {} THEN First(With(v, trace[2])) ELSE 1
     IN  trace' = causes[v][k]
  /\ UNCHANGED <<btProgram, btPhase, todo, unifying, unionfind, graph, status, pending>>

BTNext == Request \/ Unify \/ Start \/ Flood \/ Report \/ Trace

BTSpec == BTInit /\ [][BTNext]_btvars /\ WF_btvars(BTNext)

----------------------------------------------------------------------------
(***************************************************************************)
(* Properties.                                                             *)
(***************************************************************************)
BTTypeOK ==
  /\ unionfind \in [Types -> Types]
  /\ \A v \in BtVars : /\ waiting[v] \in Seq(BtVars \X Requests)
                       /\ causes[v] \in Seq(BtVars \X Requests)
  /\ status \in [BtVars -> {"untouched", "pending", "dynamic"}]
  /\ IsInjective(pending)
  /\ ToSet(pending) = {v \in BtVars : status[v] = "pending"}
  /\ refcount \in [Requests -> Nat]

\* What the requests P ask for: the first variable is not to be dynamic alone.
Asked(P) ==
  LET E == {<<Var[e[1]], Var[e[2]]>> : e \in EqualTypes(P)}
  IN  {<<Dynamic, Var[r.t]>> : r \in {q \in P : q.op = "dynamic"}} \cup
      {<<Var[r.s], Var[r.t]>> : r \in {q \in P : q.op = "dep"}} \cup
      E \cup {<<e[2], e[1]>> : e \in E}

DynamicIn(P) ==
  LET A == Asked(P)
  IN  Least(BtVars, [v \in BtVars |-> {e[2] : e \in {a \in A : a[1] = v}}], {Dynamic})

\* Dynamic is what has to be, and nothing else: the short cut that unify takes
\* loses nothing, in whatever order the requests come.
SolutionIsLeast ==
  btPhase # "generate" /\ pending = <<>> =>
    {v \in BtVars : status[v] # "untouched"} = DynamicIn(btProgram)

\* Each dynamic variable is explained by dynamic ones, with requests that ask
\* for it.
CausesAreReal ==
  \A v \in BtVars :
    /\ status[v] # "untouched" /\ v # Dynamic => causes[v] # <<>>
    /\ \A e \in ToSet(causes[v]) :
         status[e[1]] = "dynamic" /\ <<e[1], v>> \in Asked({e[2]})

\* A cause is in use as long as its reference count says so: remove_unused
\* deletes the others.
Uses(lists, c) == UNION {{v} \X {i \in DOMAIN lists[v] : lists[v][i][2] = c} : v \in BtVars}

RefcountsAreExact ==
  \A c \in Requests : refcount[c] = Cardinality(Uses(waiting, c)) + Cardinality(Uses(causes, c))

\* Each dynamic variable is explained by real causes, and the causes are kept exactly as
\* long as something refers to them.
CausesAreKept == CausesAreReal /\ RefcountsAreExact

\* A trace, from whatever variable, comes to the end: to what was dynamic from
\* the beginning.
TraceEnds == btPhase = "trace" ~> (btPhase = "trace" /\ trace[1] = Dynamic)
=============================================================================
