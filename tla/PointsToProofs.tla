--------------------------- MODULE PointsToProofs ---------------------------
(***************************************************************************)
(* Proofs about the points-to analysis, for all programs: the constraints  *)
(* run by pa.cc are an instance of the fixpoint solver, and the result     *)
(* covers every run of the program.                                        *)
(*                                                                         *)
(* The argument.  Update gives at least what flows through a constraint    *)
(* (Flows), and changes nothing when everything has flowed; this makes it  *)
(* keep the assumptions of FixSolver.  With the work list sorted, a step   *)
(* of the analysis is a step of the solver, so that what is proved there   *)
(* (FixSolverProofs) holds here: at the end all constraints do.  Hence     *)
(* what an expression is worth in a run is in the set of the expression,   *)
(* and each statement keeps it so.                                         *)
(***************************************************************************)
EXTENDS PointsTo, SequenceLemmas, FiniteSetTheorems

----------------------------------------------------------------------------
(***************************************************************************)
(* Recursion over a finite set that takes out one element at a time.       *)
(***************************************************************************)
Some(T) == CHOOSE x \in T : TRUE

Folded(S, a, f, g) ==
  g = [T \in SUBSET S |-> IF T = {} THEN a ELSE f[<<T, g[T \ {Some(T)}]>>]]

\* Induction over the subsets of a finite set.
LEMMA SubsetSets ==
  ASSUME NEW S, IsFiniteSet(S), NEW Q, {} \in Q,
         \A T \in SUBSET S : T # {} /\ T \ {Some(T)} \in Q => T \in Q
  PROVE  SUBSET S \subseteq Q
<1> DEFINE W == {T \in SUBSET S : T \notin Q}
<1>1. SUFFICES ASSUME W # {}
               PROVE  FALSE
  OBVIOUS
<1>2. W \subseteq SUBSET S
  OBVIOUS
<1> HIDE DEF W
<1>3. IsWellFoundedOn(StrictSubsetOrdering(S), SUBSET S)
  BY FS_StrictSubsetOrderingWellFounded, FS_FiniteSubsetsOfFinite
<1>4. PICK T \in W : \A U \in W : ~ (<<U, T>> \in StrictSubsetOrdering(S))
  BY <1>1, <1>2, <1>3, WFMin
<1>5. T \in SUBSET S /\ T # {} /\ T \notin Q
  BY DEF W
<1>6. Some(T) \in T
  BY <1>5 DEF Some
<1> DEFINE U == T \ {Some(T)}
<1>7. U \in SUBSET S /\ <<U, T>> \in StrictSubsetOrdering(S)
  BY <1>5, <1>6 DEF StrictSubsetOrdering
<1>8. U \in Q
  BY <1>4, <1>7 DEF W
<1> QED
  BY <1>5, <1>8

\* Such a recursion has a solution.
LEMMA SetRecursion ==
  ASSUME NEW S, IsFiniteSet(S), NEW X, NEW a \in X, NEW f \in [(SUBSET S) \X X -> X]
  PROVE  \E g \in [SUBSET S -> X] : Folded(S, a, f, g)
<1> DEFINE Step(g, T) == IF T = {} THEN a ELSE f[<<T, g[T \ {Some(T)}]>>]
           Right(g, n) == \A T \in SUBSET S : Cardinality(T) <= n => g[T] = Step(g, T)
           Q == {n \in Nat : \E g \in [SUBSET S -> X] : Right(g, n)}
<1>1. \A T \in SUBSET S : IsFiniteSet(T) /\ Cardinality(T) \in Nat
  BY FS_Subset, FS_CardinalityType
<1>2. \A T \in SUBSET S : T # {} =>
        /\ Some(T) \in T /\ T \ {Some(T)} \in SUBSET S
        /\ Cardinality(T) # 0 /\ Cardinality(T \ {Some(T)}) = Cardinality(T) - 1
  <2> SUFFICES ASSUME NEW T \in SUBSET S, T # {}
               PROVE  /\ Some(T) \in T /\ T \ {Some(T)} \in SUBSET S
                      /\ Cardinality(T) # 0 /\ Cardinality(T \ {Some(T)}) = Cardinality(T) - 1
    OBVIOUS
  <2>1. Some(T) \in T
    BY DEF Some
  <2>2. IsFiniteSet(T)
    BY <1>1
  <2> QED
    BY <2>1, <2>2, FS_RemoveElement, FS_EmptySet
<1>3. \A g \in [SUBSET S -> X] : \A T \in SUBSET S : Step(g, T) \in X
  <2> SUFFICES ASSUME NEW g \in [SUBSET S -> X], NEW T \in SUBSET S, T # {}
               PROVE  f[<<T, g[T \ {Some(T)}]>>] \in X
    OBVIOUS
  <2>1. g[T \ {Some(T)}] \in X
    OBVIOUS
  <2> QED
    BY <2>1
<1>4. 0 \in Q
  <2> DEFINE g == [T \in SUBSET S |-> a]
  <2>1. g \in [SUBSET S -> X]
    OBVIOUS
  <2>2. ASSUME NEW T \in SUBSET S, Cardinality(T) <= 0
        PROVE  g[T] = Step(g, T)
    <3>1. Cardinality(T) = 0
      <4>1. Cardinality(T) \in Nat
        BY <1>1
      <4> HIDE DEF g, Step, Q
      <4> QED
        BY <2>2, <4>1
    <3>2. T = {}
      <4> HIDE DEF g, Step, Q
      <4> QED
        BY <3>1, <1>2
    <3> QED
      BY <3>2
  <2>3. Right(g, 0)
    BY <2>2
  <2> HIDE DEF g, Right
  <2> QED
    BY <2>1, <2>3
<1>5. ASSUME NEW n \in Nat, n \in Q
      PROVE  n + 1 \in Q
  <2>1. PICK g \in [SUBSET S -> X] : Right(g, n)
    BY <1>5
  <2> DEFINE h == [T \in SUBSET S |-> Step(g, T)]
  <2>2. h \in [SUBSET S -> X]
    BY <1>3
  <2>3. ASSUME NEW T \in SUBSET S, Cardinality(T) <= n + 1
        PROVE  h[T] = Step(h, T)
    <3>1. CASE T = {}
      BY <3>1
    <3>2. CASE T # {}
      <4> DEFINE U == T \ {Some(T)}
      <4>1. U \in SUBSET S /\ Cardinality(U) <= n
        BY <1>1, <1>2, <2>3, <3>2
      <4>2. g[U] = Step(g, U)
        BY <2>1, <4>1
      <4>3. h[U] = g[U]
        BY <4>1, <4>2
      <4> QED
        BY <3>2, <4>3
    <3> QED
      BY <3>1, <3>2
  <2>4. Right(h, n + 1)
    BY <2>3
  <2> HIDE DEF h, Right
  <2> QED
    BY <2>2, <2>4
<1>6. Nat \subseteq Q
  <2> HIDE DEF Q
  <2> QED
    BY <1>4, <1>5, NatSets
<1>7. PICK g \in [SUBSET S -> X] : Right(g, Cardinality(S))
  BY <1>1, <1>6
<1>8. \A T \in SUBSET S : Cardinality(T) <= Cardinality(S)
  BY FS_Subset
<1>9. \A T \in SUBSET S : g[T] = Step(g, T)
  BY <1>7, <1>8
<1> QED
  BY <1>9 DEF Folded

----------------------------------------------------------------------------
(***************************************************************************)
(* Expressions and constraints.                                            *)
(***************************************************************************)
Signs == Decls \cup Names \cup {"*"}

LEMMA PrefixIs ==
  ASSUME NEW e, IsExpr(e), NEW n \in 1 .. Len(e)
  PROVE  /\ SubSeq(e, 1, n) \in Prefixes(e) \ {<<>>}
         /\ IsExpr(SubSeq(e, 1, n)) /\ Len(SubSeq(e, 1, n)) = n
         /\ \A i \in 1 .. n : SubSeq(e, 1, n)[i] = e[i]
         /\ \A k \in 1 .. n : SubSeq(SubSeq(e, 1, n), 1, k) = SubSeq(e, 1, k)
         /\ SubSeq(e, 1, Len(e)) = e
<1>1. e \in Seq(Signs) /\ Len(e) \in Nat /\ e[1] \in Decls
  BY DEF IsExpr, Signs
<1>2. \A i \in 1 .. n : e[i] \in Signs
  BY <1>1, ElementOfSeq
<1>3. /\ SubSeq(e, 1, n) \in Seq(Signs) /\ Len(SubSeq(e, 1, n)) = n
      /\ \A i \in 1 .. n : SubSeq(e, 1, n)[i] = e[i]
  BY <1>1, <1>2, SubSeqProperties
<1>4. SubSeq(e, 1, n) # <<>>
  BY <1>3
<1>5. SubSeq(e, 1, n) \in Prefixes(e)
  BY <1>1 DEF Prefixes
<1>6. IsExpr(SubSeq(e, 1, n))
  BY <1>1, <1>3, <1>4 DEF IsExpr, Signs
<1>7. ASSUME NEW k \in 1 .. n
      PROVE  SubSeq(SubSeq(e, 1, n), 1, k) = SubSeq(e, 1, k)
  <2>1. 1 \in 1 .. Len(e) /\ n \in 1 .. Len(e) /\ 1 \in 1 .. n - 1 + 1 /\ k \in 1 .. n - 1 + 1
    BY <1>1
  <2>2. SubSeq(SubSeq(e, 1, n), 1, k) = SubSeq(e, 1 + 1 - 1, 1 + k - 1)
    BY <1>1, <2>1, SubSeqOfSubSeq
  <2>3. 1 + 1 - 1 = 1 /\ 1 + k - 1 = k
    OBVIOUS
  <2> QED
    BY <2>2, <2>3
<1>8. SubSeq(e, 1, Len(e)) = e
  BY <1>1, SubSeqFull
<1> QED
  BY <1>3, <1>4, <1>5, <1>6, <1>7, <1>8

LEMMA PrefixesAre ==
  ASSUME NEW e, IsExpr(e), NEW x \in Prefixes(e), x # <<>>
  PROVE  \E n \in 1 .. Len(e) : x = SubSeq(e, 1, n)
<1>1. PICK n \in 0 .. Len(e) : x = SubSeq(e, 1, n)
  BY DEF Prefixes
<1>2. Len(e) \in Nat
  BY DEF IsExpr
<1>3. n # 0
  BY <1>1, SubSeqEmpty
<1> QED
  BY <1>1, <1>2, <1>3

Written == UNION {Top(st) : st \in Stmts}

\* The expressions are closed under prefixes; they are no declarations.
LEMMA ExprsAre ==
  /\ \A d \in Decls : <<d>> \in Exprs
  /\ \A st \in Stmts : Top(st) \subseteq Exprs
  /\ \A e \in Exprs : IsExpr(e) /\ e \notin Decls
  /\ \A e \in Exprs : \A n \in 1 .. Len(e) : SubSeq(e, 1, n) \in Exprs
<1>1. Exprs = {<<d>> : d \in Decls} \cup (UNION {Prefixes(e) \ {<<>>} : e \in Written})
  BY DEF Exprs, Written
<1>2. \A e \in Written : IsExpr(e)
  BY StmtsAssumption DEF Written
<1>3. \A d \in Decls : IsExpr(<<d>>) /\ Len(<<d>>) = 1
  BY DEF IsExpr
<1>4. ASSUME NEW e \in Written, NEW n \in 1 .. Len(e)
      PROVE  SubSeq(e, 1, n) \in Exprs
  <2>1. SubSeq(e, 1, n) \in Prefixes(e) \ {<<>>}
    BY <1>2, PrefixIs
  <2> QED
    BY <1>1, <2>1
<1>5. ASSUME NEW st \in Stmts, NEW e \in Top(st)
      PROVE  e \in Exprs
  <2>1. e \in Written /\ IsExpr(e)
    BY <1>2 DEF Written
  <2>2. Len(e) \in 1 .. Len(e) /\ SubSeq(e, 1, Len(e)) = e
    <3>1. e \in Seq(Signs) /\ e # <<>>
      BY <2>1 DEF IsExpr, Signs
    <3> QED
      BY <3>1, EmptySeq, SubSeqFull
  <2> QED
    BY <1>4, <2>1, <2>2
<1>6. ASSUME NEW e \in Exprs
      PROVE  /\ IsExpr(e) /\ e \notin Decls
             /\ \A n \in 1 .. Len(e) : SubSeq(e, 1, n) \in Exprs
  <2>1. e \notin Decls
    BY StmtsAssumption
  <2>2. CASE \E d \in Decls : e = <<d>>
    <3>1. PICK d \in Decls : e = <<d>>
      BY <2>2
    <3>2. \A n \in 1 .. Len(e) : SubSeq(e, 1, n) = e
      <4>1. \A n \in 1 .. Len(e) : n = Len(e)
        BY <1>3, <3>1
      <4>2. SubSeq(e, 1, Len(e)) = e
        BY <1>3, <3>1, SubSeqFull DEF IsExpr
      <4> QED
        BY <4>1, <4>2
    <3> QED
      BY <1>3, <2>1, <3>1, <3>2
  <2>3. CASE \E w \in Written : e \in Prefixes(w) \ {<<>>}
    <3>1. PICK w \in Written : e \in Prefixes(w) \ {<<>>}
      BY <2>3
    <3>2. PICK m \in 1 .. Len(w) : e = SubSeq(w, 1, m)
      BY <1>2, <3>1, PrefixesAre
    <3>3. IsExpr(w) /\ Len(w) \in Nat
      BY <1>2 DEF IsExpr
    <3>4. IsExpr(e) /\ Len(e) = m
      BY <3>2, <3>3, PrefixIs
    <3>5. \A n \in 1 .. m : n \in 1 .. Len(w) /\ SubSeq(e, 1, n) = SubSeq(w, 1, n)
      BY <3>2, <3>3, PrefixIs
    <3> QED
      BY <1>4, <2>1, <3>4, <3>5
  <2> QED
    BY <1>1, <2>2, <2>3
<1> QED
  BY <1>1, <1>5, <1>6

LEMMA FrontIs ==
  ASSUME NEW e \in Exprs, Len(e) > 1
  PROVE  /\ Front(e) \in Exprs /\ Front(e) = SubSeq(e, 1, Len(e) - 1)
         /\ Last(e) \in Signs /\ Last(e) = e[Len(e)]
<1>1. e \in Seq(Signs) /\ Len(e) \in Nat
  BY ExprsAre DEF IsExpr, Signs
<1>2. Len(e) - 1 \in 1 .. Len(e) /\ Len(e) \in 1 .. Len(e)
  BY <1>1
<1> QED
  BY <1>1, <1>2, ExprsAre, ElementOfSeq DEF Front, Last

\* What a constraint refers to.
IsCon(v) ==
  /\ v.con \in {"assign", "copy", "subset", "deref", "member", "call"}
  /\ v.t \in Cells /\ v.s \in Cells
  /\ v.con = "deref" => v.t \in Exprs
  /\ v.con = "call" => v.t \in Exprs /\ v.arg \in Exprs

LEMMA CallsToAre ==
  ASSUME NEW v, IsCon(v), v.con = "call", NEW f \in Funs, NEW w \in CallsTo(v, f)
  PROVE  IsCon(w) /\ w.con = "assign"
<1>1. f \in Decls /\ Param[f] \in Decls
  BY DeclsAssumption DEF Decls
<1>2. f \in Cells /\ <<Param[f]>> \in Cells
  BY <1>1, ExprsAre DEF Cells
<1> QED
  BY <1>2 DEF CallsTo, IsCon, Assign, Cells

LEMMA StmtConIs ==
  ASSUME NEW st \in Stmts
  PROVE  IsCon(StmtCon(st))
<1>1. Top(st) \subseteq Exprs /\ Exprs \subseteq Cells
  BY ExprsAre DEF Cells
<1>2. CASE st.op = "assign"
  BY <1>1, <1>2 DEF Top, StmtCon, Assign, IsCon
<1>3. CASE st.op = "copy"
  <2>1. Front(st.rhs) \in Exprs /\ st.lhs \in Exprs
    BY <1>1, <1>3, StmtsAssumption, FrontIs DEF Top
  <2> QED
    BY <1>1, <1>3, <2>1 DEF StmtCon, Copy, IsCon
<1>4. CASE st.op = "call"
  BY <1>1, <1>4 DEF Top, StmtCon, CallCon, IsCon
<1>5. CASE st.op = "alloc"
  <2>1. <<st.obj>> \in Exprs
    BY <1>5, StmtsAssumption, ExprsAre DEF Decls
  <2> QED
    BY <1>1, <1>5, <2>1 DEF Top, StmtCon, Assign, IsCon
<1>6. CASE st.op = "return"
  <2>1. st.in \in Cells
    BY <1>6, StmtsAssumption DEF Decls, Cells
  <2> QED
    BY <1>1, <1>6, <2>1 DEF Top, StmtCon, Subset, IsCon
<1> QED
  BY <1>2, <1>3, <1>4, <1>5, <1>6, StmtsAssumption

LEMMA ExprConIs ==
  ASSUME NEW e \in Exprs, Len(e) > 1
  PROVE  IsCon(ExprCon(e))
BY FrontIs DEF ExprCon, DerefCon, Member, IsCon, Cells

\* The constraints of a statement: its own and those of its expressions.
LEMMA ConOfIs ==
  ASSUME NEW st \in Stmts
  PROVE  /\ StmtCon(st) \in ConOf(st)
         /\ \A v \in ConOf(st) : IsCon(v)
         /\ \A e \in Top(st) : \A n \in 2 .. Len(e) : ExprCon(SubSeq(e, 1, n)) \in ConOf(st)
<1> DEFINE Inside == {x \in UNION {Prefixes(y) : y \in Top(st)} : Len(x) > 1}
<1>1. ConOf(st) = {StmtCon(st)} \cup {ExprCon(x) : x \in Inside}
  BY DEF ConOf
<1>2. Top(st) \subseteq Exprs
  BY ExprsAre
<1>3. ASSUME NEW x \in Inside
      PROVE  x \in Exprs
  <2>1. PICK y \in Top(st) : x \in Prefixes(y)
    OBVIOUS
  <2>2. IsExpr(y) /\ y \in Exprs
    BY <1>2, ExprsAre
  <2>3. x # <<>>
    OBVIOUS
  <2>4. PICK n \in 1 .. Len(y) : x = SubSeq(y, 1, n)
    BY <2>1, <2>2, <2>3, PrefixesAre
  <2> QED
    BY <2>2, <2>4, ExprsAre
<1>4. ASSUME NEW e \in Top(st), NEW n \in 2 .. Len(e)
      PROVE  SubSeq(e, 1, n) \in Inside
  <2>1. IsExpr(e) /\ Len(e) \in Nat
    BY <1>2, ExprsAre DEF IsExpr
  <2>2. n \in 1 .. Len(e) /\ n > 1
    BY <2>1
  <2> QED
    BY <2>1, <2>2, PrefixIs
<1> HIDE DEF Inside
<1>5. \A x \in Inside : Len(x) > 1
  BY DEF Inside
<1> QED
  BY <1>1, <1>3, <1>4, <1>5, StmtConIs, ExprConIs

LEMMA ConsAre ==
  /\ \A v \in AllCons : IsCon(v)
  /\ \A st \in Stmts : ConOf(st) \subseteq AllCons
  /\ \A v \in AllCons : v.con = "call" => \A f \in Funs : CallsTo(v, f) \subseteq AllCons
<1> DEFINE written == UNION {ConOf(st) : st \in Stmts}
           calls == {w \in written : w.con = "call"}
<1>1. AllCons = written \cup (UNION {CallsTo(v, f) : v \in calls, f \in Funs})
  BY DEF AllCons
<1>2. \A v \in written : IsCon(v)
  BY ConOfIs
<1>3. \A v \in calls : \A f \in Funs : \A w \in CallsTo(v, f) : IsCon(w) /\ w.con = "assign"
  BY <1>2, CallsToAre
<1> QED
  BY <1>1, <1>2, <1>3

----------------------------------------------------------------------------
(***************************************************************************)
(* What solving a constraint does to the sets.                             *)
(***************************************************************************)
Sets == [Cells -> SUBSET Decls]

Leq(s, t) == \A c \in Cells : s[c] \subseteq t[c]

LEMMA InsertManyIs ==
  ASSUME NEW s \in Sets, NEW to \in Cells, NEW from \in Cells
  PROVE  /\ InsertMany(s, to, from) \in Sets
         /\ Leq(s, InsertMany(s, to, from))
         /\ s[from] \subseteq InsertMany(s, to, from)[to]
         /\ s[from] \subseteq s[to] => InsertMany(s, to, from) = s
BY DEF InsertMany, Sets, Leq

\* The equation that the function in InAll is a solution of.
Inserts(s, S, g) ==
  g = [T \in SUBSET S |->
         IF T = {} THEN s
         ELSE LET p == CHOOSE p \in T : TRUE IN InsertMany(g[T \ {p}], p[1], p[2])]

LEMMA InAllRecurs ==
  ASSUME NEW s \in Sets, NEW S \in SUBSET (Cells \X Cells), IsFiniteSet(S)
  PROVE  \E g : Inserts(s, S, g) /\ InAll(s, S) = g[S]
<1> DEFINE Step(T, r) == IF T = {} THEN s ELSE InsertMany(r, Some(T)[1], Some(T)[2])
           f == [q \in (SUBSET S) \X Sets |-> Step(q[1], q[2])]
           Body(g) == [T \in SUBSET S |->
                         IF T = {} THEN s
                         ELSE LET p == CHOOSE p \in T : TRUE IN InsertMany(g[T \ {p}], p[1], p[2])]
<1>1. ASSUME NEW T \in SUBSET S, NEW r \in Sets
      PROVE  Step(T, r) \in Sets
  <2>1. CASE T = {}
    BY <2>1
  <2>2. CASE T # {}
    <3>1. Some(T) \in S
      BY <2>2 DEF Some
    <3>2. Some(T)[1] \in Cells /\ Some(T)[2] \in Cells
      BY <3>1
    <3> QED
      BY <2>2, <3>2, InsertManyIs
  <2> QED
    BY <2>1, <2>2
<1>2. f \in [(SUBSET S) \X Sets -> Sets]
  <2> HIDE DEF Step
  <2> QED
    BY <1>1
<1>3. \A T \in SUBSET S : \A r \in Sets : f[<<T, r>>] = Step(T, r)
  <2> HIDE DEF Step
  <2> QED
    OBVIOUS
<1>4. PICK g \in [SUBSET S -> Sets] : Folded(S, s, f, g)
  <2> HIDE DEF f
  <2> QED
    BY <1>2, SetRecursion
<1> HIDE DEF f
<1>5. ASSUME NEW T \in SUBSET S
      PROVE  g[T] = IF T = {} THEN s ELSE InsertMany(g[T \ {Some(T)}], Some(T)[1], Some(T)[2])
  <2>1. g[T] = IF T = {} THEN s ELSE f[<<T, g[T \ {Some(T)}]>>]
    BY <1>4 DEF Folded
  <2>2. g[T \ {Some(T)}] \in Sets
    OBVIOUS
  <2> QED
    BY <1>3, <2>1, <2>2
<1>6. g = Body(g)
  BY <1>5 DEF Some
<1> DEFINE h == CHOOSE h : h = Body(h)
<1>7. h = Body(h)
  BY <1>6
<1> QED
  BY <1>7 DEF InAll, Inserts

LEMMA InAllIs ==
  ASSUME NEW s \in Sets, NEW S \in SUBSET (Cells \X Cells), IsFiniteSet(S)
  PROVE  /\ InAll(s, S) \in Sets
         /\ Leq(s, InAll(s, S))
         /\ \A p \in S : s[p[2]] \subseteq InAll(s, S)[p[1]]
         /\ (\A p \in S : s[p[2]] \subseteq s[p[1]]) => InAll(s, S) = s
<1>1. PICK g : Inserts(s, S, g) /\ InAll(s, S) = g[S]
  BY InAllRecurs
<1>2. \A T \in SUBSET S :
        g[T] = IF T = {} THEN s ELSE InsertMany(g[T \ {Some(T)}], Some(T)[1], Some(T)[2])
  BY <1>1 DEF Inserts, Some
<1> DEFINE Good(T, r) ==
             /\ r \in Sets
             /\ Leq(s, r)
             /\ \A p \in T : s[p[2]] \subseteq r[p[1]]
             /\ (\A p \in S : s[p[2]] \subseteq s[p[1]]) => r = s
           Q == {T \in SUBSET S : Good(T, g[T])}
<1>3. {} \in Q
  BY <1>2 DEF Leq
<1>4. ASSUME NEW T \in SUBSET S, T # {}, T \ {Some(T)} \in Q
      PROVE  T \in Q
  <2> DEFINE U == T \ {Some(T)}
  <2>1. Good(U, g[U])
    BY <1>4
  <2>2. Some(T) \in T /\ Some(T) \in Cells \X Cells
    BY <1>4 DEF Some
  <2>3. PICK a \in Cells, b \in Cells : Some(T) = <<a, b>>
    BY <2>2
  <2>4. g[T] = InsertMany(g[U], a, b)
    <3>1. Some(T)[1] = a /\ Some(T)[2] = b
      BY <2>3
    <3> HIDE DEF Q
    <3> QED
      BY <1>2, <1>4, <3>1
  <2>5. \A p \in T : p \in U \/ p = <<a, b>>
    BY <2>3
  <2> DEFINE r == g[U]
             q == g[T]
  <2> HIDE DEF U, r, q
  <2>6. r \in Sets /\ Leq(s, r) /\ (\A p \in U : s[p[2]] \subseteq r[p[1]])
        /\ ((\A p \in S : s[p[2]] \subseteq s[p[1]]) => r = s)
    BY <2>1 DEF r
  <2>7. q = InsertMany(r, a, b)
    BY <2>4 DEF q, r
  <2>8. q \in Sets /\ Leq(r, q) /\ r[b] \subseteq q[a] /\ (r[b] \subseteq r[a] => q = r)
    BY <2>6, <2>7, InsertManyIs
  <2>9. Leq(s, q)
    BY <2>6, <2>8 DEF Leq
  <2>10. ASSUME NEW p \in T
         PROVE  s[p[2]] \subseteq q[p[1]]
    <3>1. CASE p \in U
      <4>1. p[1] \in Cells
        <5>1. p \in Cells \X Cells
          OBVIOUS
        <5> QED
          BY <5>1
      <4> QED
        BY <2>6, <2>8, <3>1, <4>1 DEF Leq
    <3>2. CASE p = <<a, b>>
      <4>1. s[b] \subseteq r[b]
        BY <2>6 DEF Leq
      <4> QED
        BY <2>8, <3>2, <4>1
    <3> QED
      BY <2>5, <3>1, <3>2
  <2>11. ASSUME \A p \in S : s[p[2]] \subseteq s[p[1]]
         PROVE  q = s
    <3>1. r = s
      BY <2>6, <2>11
    <3>2. <<a, b>> \in S
      BY <2>2, <2>3
    <3>3. s[b] \subseteq s[a]
      BY <2>11, <3>2
    <3> QED
      BY <2>8, <3>1, <3>3
  <2> QED
    BY <2>8, <2>9, <2>10, <2>11 DEF q
<1>5. SUBSET S \subseteq Q
  <2> HIDE DEF Q
  <2> QED
    BY <1>3, <1>4, SubsetSets
<1>6. S \in Q
  BY <1>5
<1> QED
  BY <1>1, <1>6

\* What v lets flow from the sets s has arrived in the sets t.
Flows(v, s, t) ==
  /\ v.con = "assign" => \A d \in s[v.t] : s[v.s] \subseteq t[d]
  /\ v.con = "copy"   => \A p \in Pairs(v, s) : s[p[2]] \subseteq t[p[1]]
  /\ v.con = "subset" => s[v.s] \subseteq t[v.t]
  /\ v.con = "deref"  => \A d \in s[v.s] : s[d] \subseteq t[v.t]
  /\ v.con = "member" => MembersOf(s[v.s], v.m) \subseteq t[v.t]

LEMMA PairsAre ==
  ASSUME NEW v, IsCon(v), NEW s \in Sets
  PROVE  Pairs(v, s) \in SUBSET (Decls \X Decls)
<1>1. ASSUME NEW t \in Decls, NEW u \in Decls
      PROVE  Transfers(t, u) \in SUBSET (Decls \X Decls)
  <2>1. \A m \in Shared(t, u) : Members[t][m] \in Decls /\ Members[u][m] \in Decls
    BY DeclsAssumption DEF Shared
  <2> QED
    BY <2>1 DEF Transfers
<1>2. s[v.t] \subseteq Decls /\ s[v.s] \subseteq Decls
  BY DEF IsCon, Sets
<1> QED
  BY <1>1, <1>2 DEF Pairs

LEMMA DeclPairs ==
  /\ Decls \subseteq Cells
  /\ \A c \in Cells : \A D \in SUBSET Decls : IsFiniteSet({<<d, c>> : d \in D}) /\ IsFiniteSet({<<c, d>> : d \in D})
  /\ \A S \in SUBSET (Decls \X Decls) : IsFiniteSet(S)
<1>1. IsFiniteSet(Decls)
  BY DeclsAssumption
<1>2. IsFiniteSet(Decls \X Decls)
  BY <1>1, FS_Product
<1>3. ASSUME NEW c \in Cells, NEW D \in SUBSET Decls
      PROVE  IsFiniteSet({<<d, c>> : d \in D}) /\ IsFiniteSet({<<c, d>> : d \in D})
  <2>1. IsFiniteSet({c})
    BY FS_Singleton
  <2>2. IsFiniteSet(Decls \X {c}) /\ IsFiniteSet({c} \X Decls)
    BY <1>1, <2>1, FS_Product
  <2>3. {<<d, c>> : d \in D} \subseteq Decls \X {c} /\ {<<c, d>> : d \in D} \subseteq {c} \X Decls
    OBVIOUS
  <2> QED
    BY <2>2, <2>3, FS_Subset
<1> QED
  BY <1>2, <1>3, FS_Subset DEF Cells

\* The pairs between one cell and some declarations.
FromCell(c, D) == {<<d, c>> : d \in D}
ToCell(c, D)   == {<<c, d>> : d \in D}

LEMMA FromOne ==
  ASSUME NEW c \in Cells, NEW D \in SUBSET Decls
  PROVE  /\ FromCell(c, D) \in SUBSET (Cells \X Cells) /\ IsFiniteSet(FromCell(c, D))
         /\ \A s, r : (\A p \in FromCell(c, D) : s[p[2]] \subseteq r[p[1]]) <=> (\A d \in D : s[c] \subseteq r[d])
<1> DEFINE S == FromCell(c, D)
<1>1. S \in SUBSET (Cells \X Cells)
  BY DeclPairs DEF FromCell
<1>2. IsFiniteSet(S)
  BY DeclPairs DEF FromCell
<1>3. (\A d \in D : <<d, c>> \in S) /\ (\A p \in S : p[1] \in D /\ p[2] = c)
  BY DEF FromCell
<1>4. \A d : <<d, c>>[1] = d /\ <<d, c>>[2] = c
  OBVIOUS
<1>5. ASSUME NEW s, NEW r
      PROVE  (\A p \in S : s[p[2]] \subseteq r[p[1]]) <=> (\A d \in D : s[c] \subseteq r[d])
  <2> HIDE DEF S
  <2>1. ASSUME \A p \in S : s[p[2]] \subseteq r[p[1]], NEW d \in D
        PROVE  s[c] \subseteq r[d]
    BY <1>3, <1>4, <2>1
  <2>2. ASSUME \A d \in D : s[c] \subseteq r[d], NEW p \in S
        PROVE  s[p[2]] \subseteq r[p[1]]
    BY <1>3, <2>2
  <2> QED
    BY <2>1, <2>2
<1> QED
  BY <1>1, <1>2, <1>5

LEMMA ToOne ==
  ASSUME NEW c \in Cells, NEW D \in SUBSET Decls
  PROVE  /\ ToCell(c, D) \in SUBSET (Cells \X Cells) /\ IsFiniteSet(ToCell(c, D))
         /\ \A s, r : (\A p \in ToCell(c, D) : s[p[2]] \subseteq r[p[1]]) <=> (\A d \in D : s[d] \subseteq r[c])
<1> DEFINE S == ToCell(c, D)
<1>1. S \in SUBSET (Cells \X Cells)
  BY DeclPairs DEF ToCell
<1>2. IsFiniteSet(S)
  BY DeclPairs DEF ToCell
<1>3. (\A d \in D : <<c, d>> \in S) /\ (\A p \in S : p[2] \in D /\ p[1] = c)
  BY DEF ToCell
<1>4. \A d : <<c, d>>[2] = d /\ <<c, d>>[1] = c
  OBVIOUS
<1>5. ASSUME NEW s, NEW r
      PROVE  (\A p \in S : s[p[2]] \subseteq r[p[1]]) <=> (\A d \in D : s[d] \subseteq r[c])
  <2> HIDE DEF S
  <2>1. ASSUME \A p \in S : s[p[2]] \subseteq r[p[1]], NEW d \in D
        PROVE  s[d] \subseteq r[c]
    BY <1>3, <1>4, <2>1
  <2>2. ASSUME \A d \in D : s[d] \subseteq r[c], NEW p \in S
        PROVE  s[p[2]] \subseteq r[p[1]]
    BY <1>3, <2>2
  <2> QED
    BY <2>1, <2>2
<1> QED
  BY <1>1, <1>2, <1>5

LEMMA UpdateByPairs ==
  ASSUME NEW v, NEW s \in Sets, NEW S \in SUBSET (Cells \X Cells), IsFiniteSet(S),
         Update(v, s) = InAll(s, S),
         \A r : Flows(v, s, r) <=> \A p \in S : s[p[2]] \subseteq r[p[1]]
  PROVE  /\ Update(v, s) \in Sets
         /\ Leq(s, Update(v, s))
         /\ Flows(v, s, Update(v, s))
         /\ Flows(v, s, s) => Update(v, s) = s
<1> DEFINE r == InAll(s, S)
<1>1. /\ r \in Sets /\ Leq(s, r)
      /\ \A p \in S : s[p[2]] \subseteq r[p[1]]
      /\ (\A p \in S : s[p[2]] \subseteq s[p[1]]) => r = s
  BY InAllIs
<1> HIDE DEF r
<1>2. Update(v, s) = r
  BY DEF r
<1>3. Flows(v, s, r)
  BY <1>1
<1> QED
  BY <1>1, <1>2, <1>3

LEMMA UpdateIs ==
  ASSUME NEW v, IsCon(v), NEW s \in Sets
  PROVE  /\ Update(v, s) \in Sets
         /\ Leq(s, Update(v, s))
         /\ Flows(v, s, Update(v, s))
         /\ Flows(v, s, s) => Update(v, s) = s
<1>1. v.t \in Cells /\ v.s \in Cells /\ s[v.t] \subseteq Decls /\ s[v.s] \subseteq Decls
  BY DEF IsCon, Sets
<1>2. CASE v.con = "assign"
  <2> DEFINE c == v.s
             D == s[v.t]
             S == FromCell(c, D)
  <2>1. /\ S \in SUBSET (Cells \X Cells) /\ IsFiniteSet(S)
        /\ \A u, r : (\A p \in S : u[p[2]] \subseteq r[p[1]]) <=> (\A d \in s[v.t] : u[v.s] \subseteq r[d])
    <3>0. c \in Cells /\ D \in SUBSET Decls
      BY <1>1
    <3>1. /\ S \in SUBSET (Cells \X Cells) /\ IsFiniteSet(S)
          /\ \A u, r : (\A p \in S : u[p[2]] \subseteq r[p[1]]) <=> (\A d \in D : u[c] \subseteq r[d])
      <4> HIDE DEF c, D
      <4> QED
        BY <3>0, FromOne
    <3> QED
      BY <3>1
  <2>2. Update(v, s) = InAll(s, S)
    BY <1>2 DEF Update, FromCell
  <2> HIDE DEF S
  <2>3. ASSUME NEW r
        PROVE  Flows(v, s, r) <=> (\A p \in S : s[p[2]] \subseteq r[p[1]])
    <3>1. Flows(v, s, r) <=> (\A d \in s[v.t] : s[v.s] \subseteq r[d])
      BY <1>2 DEF Flows
    <3> QED
      BY <2>1, <3>1
  <2> QED
    BY <2>1, <2>2, <2>3, UpdateByPairs
<1>3. CASE v.con = "copy"
  <2>1. Pairs(v, s) \in SUBSET (Cells \X Cells) /\ IsFiniteSet(Pairs(v, s))
    BY PairsAre, DeclPairs
  <2>2. Update(v, s) = InAll(s, Pairs(v, s))
    BY <1>3 DEF Update
  <2>3. \A r : Flows(v, s, r) <=> (\A p \in Pairs(v, s) : s[p[2]] \subseteq r[p[1]])
    BY <1>3 DEF Flows
  <2> QED
    BY <2>1, <2>2, <2>3, UpdateByPairs
<1>4. CASE v.con = "subset"
  <2>1. Update(v, s) = InsertMany(s, v.t, v.s)
    BY <1>4 DEF Update
  <2>2. \A r : Flows(v, s, r) <=> s[v.s] \subseteq r[v.t]
    BY <1>4 DEF Flows
  <2> QED
    BY <1>1, <2>1, <2>2, InsertManyIs
<1>5. CASE v.con = "deref"
  <2> DEFINE c == v.t
             D == s[v.s]
             S == ToCell(c, D)
  <2>1. /\ S \in SUBSET (Cells \X Cells) /\ IsFiniteSet(S)
        /\ \A u, r : (\A p \in S : u[p[2]] \subseteq r[p[1]]) <=> (\A d \in s[v.s] : u[d] \subseteq r[v.t])
    <3>0. c \in Cells /\ D \in SUBSET Decls
      BY <1>1
    <3>1. /\ S \in SUBSET (Cells \X Cells) /\ IsFiniteSet(S)
          /\ \A u, r : (\A p \in S : u[p[2]] \subseteq r[p[1]]) <=> (\A d \in D : u[d] \subseteq r[c])
      <4> HIDE DEF c, D
      <4> QED
        BY <3>0, ToOne
    <3> QED
      BY <3>1
  <2>2. Update(v, s) = InAll(s, S)
    BY <1>5 DEF Update, ToCell
  <2> HIDE DEF S
  <2>3. ASSUME NEW r
        PROVE  Flows(v, s, r) <=> (\A p \in S : s[p[2]] \subseteq r[p[1]])
    <3>1. Flows(v, s, r) <=> (\A d \in s[v.s] : s[d] \subseteq r[v.t])
      BY <1>5 DEF Flows
    <3> QED
      BY <2>1, <3>1
  <2> QED
    BY <2>1, <2>2, <2>3, UpdateByPairs
<1>6. CASE v.con = "member"
  <2> DEFINE M == MembersOf(s[v.s], v.m)
  <2>1. M \subseteq Decls
    BY <1>1, DeclsAssumption DEF MembersOf
  <2>2. Update(v, s) = [s EXCEPT ![v.t] = @ \cup M]
    BY <1>6 DEF Update
  <2>3. \A r : Flows(v, s, r) <=> M \subseteq r[v.t]
    BY <1>6 DEF Flows
  <2> HIDE DEF M
  <2> QED
    BY <1>1, <2>1, <2>2, <2>3 DEF Sets, Leq
<1>7. CASE v.con = "call"
  BY <1>7 DEF Update, Flows, Leq
<1> QED
  BY <1>2, <1>3, <1>4, <1>5, <1>6, <1>7 DEF IsCon

LEMMA EmptyIs == Empty \in Sets /\ \A d \in Decls : <<d>> \in Cells /\ Empty[<<d>>] = {d}
<1>1. \A e \in Exprs : e[1] \in Decls
  BY ExprsAre DEF IsExpr
<1>2. Empty \in Sets
  <2>1. \A c \in Cells : (IF c \notin Decls /\ Len(c) = 1 THEN {c[1]} ELSE {}) \subseteq Decls
    BY <1>1 DEF Cells
  <2> QED
    BY <2>1 DEF Empty, Sets
<1>3. \A d \in Decls : <<d>> \in Exprs /\ <<d>> \notin Decls /\ Len(<<d>>) = 1 /\ <<d>>[1] = d
  BY ExprsAre
<1> QED
  BY <1>2, <1>3 DEF Empty, Cells

LEMMA ReadsAre ==
  ASSUME NEW v \in AllCons, NEW s \in Sets
  PROVE  /\ Hooks(v) \subseteq Cells /\ Inserted(v, s) \subseteq Cells
         /\ Spawn(v, s) \subseteq AllCons
<1>1. IsCon(v)
  BY ConsAre
<1>2. Pairs(v, s) \in SUBSET (Cells \X Cells)
  BY <1>1, PairsAre, DeclPairs
<1>3. s[v.s] \subseteq Cells
  BY <1>1, DeclPairs DEF IsCon, Sets
<1>4. Hooks(v) \subseteq Cells
  BY <1>1 DEF IsCon, Hooks
<1>5. Inserted(v, s) \subseteq Cells
  BY <1>1, <1>2, <1>3 DEF IsCon, Inserted
<1>6. Spawn(v, s) \subseteq AllCons
  BY ConsAre DEF Spawn
<1> QED
  BY <1>4, <1>5, <1>6

LEMMA FlowsUp ==
  ASSUME NEW v, IsCon(v), NEW s \in Sets, NEW t \in Sets, Leq(s, t), Flows(v, s, s)
  PROVE  Flows(v, s, t)
<1>1. v.t \in Cells /\ v.s \in Cells /\ s[v.t] \subseteq Cells
  BY DeclPairs DEF IsCon, Sets
<1>2. \A p \in Pairs(v, s) : p[1] \in Cells
  BY PairsAre, DeclPairs
<1> QED
  BY <1>1, <1>2 DEF Flows, Leq

\* If nothing that v has read changes, and everything has flowed that it lets
\* flow, then there is nothing new to do for it.
LEMMA Unaffected ==
  ASSUME NEW v, IsCon(v), NEW s \in Sets, NEW t \in Sets, Leq(s, t),
         \A c \in Reads(v, s) : s[c] = t[c]
  PROVE  /\ Reads(v, t) = Reads(v, s) /\ Spawn(v, t) = Spawn(v, s)
         /\ Flows(v, s, t) => Flows(v, t, t)
<1>1. CASE v.con = "assign"
  <2>1. s[v.t] = t[v.t]
    BY <1>1 DEF Reads, Hooks
  <2>2. s[v.t] # {} => s[v.s] = t[v.s]
    BY <1>1 DEF Reads, Inserted
  <2>3. Reads(v, t) = Reads(v, s)
    BY <1>1, <2>1 DEF Reads, Hooks, Inserted
  <2>4. Flows(v, s, t) => Flows(v, t, t)
    BY <1>1, <2>1, <2>2 DEF Flows
  <2> QED
    BY <1>1, <2>3, <2>4 DEF Spawn
<1>2. CASE v.con = "copy"
  <2>1. s[v.t] = t[v.t] /\ s[v.s] = t[v.s]
    BY <1>2 DEF Reads, Hooks
  <2>2. Pairs(v, t) = Pairs(v, s)
    BY <2>1 DEF Pairs
  <2>3. \A p \in Pairs(v, s) : s[p[2]] = t[p[2]]
    BY <1>2 DEF Reads, Inserted
  <2>4. Reads(v, t) = Reads(v, s)
    BY <1>2, <2>2 DEF Reads, Hooks, Inserted
  <2>5. Flows(v, s, t) => Flows(v, t, t)
    BY <1>2, <2>2, <2>3 DEF Flows
  <2> QED
    BY <1>2, <2>4, <2>5 DEF Spawn
<1>3. CASE v.con = "subset"
  BY <1>3 DEF Reads, Hooks, Inserted, Flows, Spawn
<1>4. CASE v.con = "deref"
  <2>1. s[v.s] = t[v.s]
    BY <1>4 DEF Reads, Hooks
  <2>2. \A d \in s[v.s] : s[d] = t[d]
    BY <1>4 DEF Reads, Inserted
  <2> QED
    BY <1>4, <2>1, <2>2 DEF Reads, Hooks, Inserted, Flows, Spawn
<1>5. CASE v.con = "member"
  <2>1. s[v.s] = t[v.s]
    BY <1>5 DEF Reads, Hooks
  <2> QED
    BY <1>5, <2>1 DEF Reads, Hooks, Inserted, Flows, Spawn
<1>6. CASE v.con = "call"
  <2>1. s[v.s] = t[v.s]
    BY <1>6 DEF Reads, Hooks
  <2> QED
    BY <1>6, <2>1 DEF Reads, Hooks, Inserted, Flows, Spawn
<1> QED
  BY <1>1, <1>2, <1>3, <1>4, <1>5, <1>6 DEF IsCon

----------------------------------------------------------------------------
(***************************************************************************)
(* The analysis keeps the assumptions of the solver.                       *)
(***************************************************************************)
FSP == INSTANCE FixSolverProofs WITH
        Vertex <- AllCons, Cell <- Cells, Elem <- Decls, Bottom <- Empty,
        Starts <- {UNION {ConOf(st) : st \in P} : P \in Programs},
        Reports <- Changed, dirty <- ToSet(worklist)

LEMMA StartsAre == \A P \in Programs : UNION {ConOf(st) : st \in P} \subseteq AllCons
BY ConsAre, StmtsAssumption

LEMMA TypesAreKept == FSP!TypeAssumption
<1>1. FSP!State = Sets
  BY DEF FSP!State, Sets
<1>2. ASSUME NEW v \in AllCons, NEW s \in Sets
      PROVE  /\ Update(v, s) \in Sets /\ Hooks(v) \subseteq Cells /\ Reads(v, s) \subseteq Cells
             /\ Spawn(v, s) \subseteq AllCons /\ Changed(v, s) \subseteq Cells
  BY ConsAre, UpdateIs, ReadsAre DEF Reads, Changed
<1>3. {UNION {ConOf(st) : st \in P} : P \in Programs} \subseteq SUBSET AllCons
  BY StartsAre
<1> QED
  BY <1>1, <1>2, <1>3, EmptyIs DEF FSP!TypeAssumption

LEMMA ReportsAreKept == FSP!ReportsAssumption
BY DEF FSP!ReportsAssumption, FSP!Changed, Changed

LEMMA UnaffectedIsKept == FSP!UnaffectedAssumption
<1>1. FSP!State = Sets
  BY DEF FSP!State, Sets
<1>2. ASSUME NEW v \in AllCons, NEW w \in AllCons, NEW s \in Sets,
             \A c \in Reads(v, s) : s[c] = Update(w, s)[c]
      PROVE  /\ Reads(v, Update(w, s)) = Reads(v, s)
             /\ Spawn(v, Update(w, s)) = Spawn(v, s)
             /\ Update(v, s) = s \/ v = w => Update(v, Update(w, s)) = Update(w, s)
  <2> DEFINE t == Update(w, s)
  <2>1. IsCon(v) /\ IsCon(w)
    BY ConsAre
  <2>2. t \in Sets /\ Leq(s, t) /\ Flows(w, s, t) /\ \A c \in Reads(v, s) : s[c] = t[c]
    BY <1>2, <2>1, UpdateIs
  <2>3. Flows(v, s, s) => Flows(v, s, t)
    BY <2>1, <2>2, FlowsUp
  <2>4. Update(v, s) = s \/ v = w => Flows(v, s, t)
    BY <2>1, <2>2, <2>3, UpdateIs
  <2>5. t = Update(w, s)
    OBVIOUS
  <2> HIDE DEF t
  <2>6. /\ Reads(v, t) = Reads(v, s) /\ Spawn(v, t) = Spawn(v, s)
        /\ Flows(v, s, t) => Flows(v, t, t)
    BY <2>1, <2>2, Unaffected
  <2>7. Flows(v, t, t) => Update(v, t) = t
    BY <2>1, <2>2, UpdateIs
  <2> QED
    BY <2>4, <2>5, <2>6, <2>7
<1> QED
  BY <1>1, <1>2 DEF FSP!UnaffectedAssumption, FSP!Same

----------------------------------------------------------------------------
(***************************************************************************)
(* There are finitely many constraints.                                    *)
(***************************************************************************)
LEMMA FewAreFinite ==
  ASSUME NEW a, NEW b, NEW c
  PROVE  IsFiniteSet({a}) /\ IsFiniteSet({a, b}) /\ IsFiniteSet({a, b, c})
<1>1. IsFiniteSet({a})
  BY FS_Singleton
<1>2. {a, b} = {a} \cup {b} /\ {a, b, c} = {a, b} \cup {c}
  OBVIOUS
<1>3. IsFiniteSet({a} \cup {b})
  BY <1>1, FS_AddElement
<1>4. IsFiniteSet({a, b} \cup {c})
  BY <1>2, <1>3, FS_AddElement
<1> QED
  BY <1>1, <1>2, <1>3, <1>4

LEMMA Images ==
  ASSUME NEW S, IsFiniteSet(S), NEW f
  PROVE  IsFiniteSet({f[x] : x \in S})
<1> DEFINE T == {f[x] : x \in S}
           g == [x \in S |-> f[x]]
<1>1. g \in Surjection(S, T)
  BY DEF Surjection
<1> HIDE DEF g, T
<1>2. IsFiniteSet(T)
  BY <1>1, FS_Surjection
<1> QED
  BY <1>2 DEF T

LEMMA Unions ==
  ASSUME NEW S, IsFiniteSet(S), NEW f, \A x \in S : IsFiniteSet(f[x])
  PROVE  IsFiniteSet(UNION {f[x] : x \in S})
<1> DEFINE T == {f[x] : x \in S}
<1>1. IsFiniteSet(T)
  BY Images
<1>2. \A U \in T : IsFiniteSet(U)
  OBVIOUS
<1> HIDE DEF T
<1>3. IsFiniteSet(UNION T)
  BY <1>1, <1>2, FS_UNION
<1> QED
  BY <1>3 DEF T

LEMMA ConOfIsFinite ==
  ASSUME NEW st \in Stmts
  PROVE  IsFiniteSet(ConOf(st))
<1> DEFINE All == UNION {Prefixes(y) : y \in Top(st)}
           Inside == {x \in All : Len(x) > 1}
<1>1. IsFiniteSet(Top(st))
  <2>2. st.op \in {"assign", "copy", "alloc", "call", "return"}
    BY StmtsAssumption
  <2> QED
    BY <2>2, FewAreFinite DEF Top
<1>2. ASSUME NEW y \in Top(st)
      PROVE  IsFiniteSet(Prefixes(y))
  <2>1. Len(y) \in Nat
    BY ExprsAre DEF IsExpr
  <2>2. IsFiniteSet(0 .. Len(y))
    BY <2>1, FS_Interval
  <2> DEFINE f == [l \in 0 .. Len(y) |-> SubSeq(y, 1, l)]
  <2>3. Prefixes(y) = {f[l] : l \in 0 .. Len(y)}
    BY DEF Prefixes
  <2> HIDE DEF f
  <2> QED
    BY <2>2, <2>3, Images
<1>3. IsFiniteSet(All)
  <2> DEFINE f == [y \in Top(st) |-> Prefixes(y)]
  <2>1. All = UNION {f[y] : y \in Top(st)}
    OBVIOUS
  <2>2. \A y \in Top(st) : IsFiniteSet(f[y])
    BY <1>2
  <2> HIDE DEF f, All
  <2> QED
    BY <1>1, <2>1, <2>2, Unions
<1>4. IsFiniteSet(Inside)
  <2> HIDE DEF All
  <2> QED
    BY <1>3, FS_Subset
<1>5. IsFiniteSet({ExprCon(x) : x \in Inside})
  <2> DEFINE f == [x \in Inside |-> ExprCon(x)]
  <2>1. {ExprCon(x) : x \in Inside} = {f[x] : x \in Inside}
    OBVIOUS
  <2> HIDE DEF f, Inside
  <2> QED
    BY <1>4, <2>1, Images
<1>6. ConOf(st) = {StmtCon(st)} \cup {ExprCon(x) : x \in Inside}
  BY DEF ConOf
<1> DEFINE Rest == {ExprCon(x) : x \in Inside}
           One == {StmtCon(st)}
<1>7. IsFiniteSet(One)
  BY FewAreFinite
<1> HIDE DEF Inside
<1>8. IsFiniteSet(Rest)
  BY <1>5
<1>9. ConOf(st) = One \cup Rest
  BY <1>6
<1> HIDE DEF Rest, One
<1> QED
  BY <1>7, <1>8, <1>9, FS_Union

LEMMA ConsAreFinite == IsFiniteSet(AllCons)
<1> DEFINE written == UNION {ConOf(st) : st \in Stmts}
           calls == {w \in written : w.con = "call"}
           made == UNION {CallsTo(v, f) : v \in calls, f \in Funs}
<1>1. AllCons = written \cup made
  BY DEF AllCons
<1>2. IsFiniteSet(written)
  <2> DEFINE f == [st \in Stmts |-> ConOf(st)]
  <2>1. written = UNION {f[st] : st \in Stmts}
    OBVIOUS
  <2>2. IsFiniteSet(Stmts) /\ \A st \in Stmts : IsFiniteSet(f[st])
    BY StmtsAssumption, ConOfIsFinite
  <2> HIDE DEF f, written
  <2> QED
    BY <2>1, <2>2, Unions
<1>3. IsFiniteSet(calls)
  <2> HIDE DEF written
  <2> QED
    BY <1>2, FS_Subset
<1>4. IsFiniteSet(made)
  <2> HIDE DEF written, calls
  <2> DEFINE P == calls \X Funs
             h == [p \in P |-> CallsTo(p[1], p[2])]
  <2>1. IsFiniteSet(Funs)
    BY DeclsAssumption, FS_Subset DEF Decls
  <2>2. IsFiniteSet(P)
    BY <1>3, <2>1, FS_Product
  <2>3. ASSUME NEW p \in P
        PROVE  IsFiniteSet(h[p])
    <3>2. h[p] = CallsTo(p[1], p[2])
      OBVIOUS
    <3> DEFINE a == Assign(p[1].t, p[2])
               b == Assign(<<Param[p[2]]>>, p[1].arg)
    <3>3. h[p] = {a, b}
      BY <3>2 DEF CallsTo
    <3> HIDE DEF h, a, b
    <3>4. IsFiniteSet({a, b})
      BY FewAreFinite
    <3> QED
      BY <3>3, <3>4
  <2>4. \A v \in calls : \A f \in Funs : <<v, f>> \in P /\ h[<<v, f>>] = CallsTo(v, f)
    OBVIOUS
  <2>5. IsFiniteSet(UNION {h[p] : p \in P})
    <3> HIDE DEF h, P
    <3> QED
      BY <2>2, <2>3, Unions
  <2>6. made \subseteq UNION {h[p] : p \in P}
    <3>1. ASSUME NEW x \in made
          PROVE  \E p \in P : x \in h[p]
      <4>1. PICK v \in calls, f \in Funs : x \in CallsTo(v, f)
        OBVIOUS
      <4>2. <<v, f>> \in P /\ x \in h[<<v, f>>]
        BY <2>4, <4>1
      <4> HIDE DEF h, P
      <4> QED
        BY <4>2
    <3> HIDE DEF h, P, made
    <3> QED
      BY <3>1
  <2> HIDE DEF h, P, made
  <2> QED
    BY <2>5, <2>6, FS_Subset
<1> HIDE DEF written, made
<1> QED
  BY <1>1, <1>2, <1>4, FS_Union

----------------------------------------------------------------------------
(***************************************************************************)
(* The work list.                                                          *)
(***************************************************************************)
Stamps == [AllCons -> Nat]

\* Sorted by stamps, without duplicates.
Ordered(list, st) ==
  /\ list \in Seq(AllCons)
  /\ \A i, j \in 1 .. Len(list) : list[i] = list[j] => i = j
  /\ \A i, j \in 1 .. Len(list) : i < j => st[list[i]] <= st[list[j]]

\* The place where a constraint is put.
Place(list, v, st) == Cardinality({i \in DOMAIN list : st[list[i]] < st[v]})

LEMMA PlaceIs ==
  ASSUME NEW list \in Seq(AllCons), NEW v, NEW st
  PROVE  Place(list, v, st) \in 0 .. Len(list)
<1> DEFINE Low == {i \in DOMAIN list : st[list[i]] < st[v]}
           L == Len(list)
<1>1. L \in Nat /\ DOMAIN list = 1 .. L
  OBVIOUS
<1>2. IsFiniteSet(1 .. L) /\ Cardinality(1 .. L) = L
  <2>1. 1 \in Int /\ L \in Int
    BY <1>1
  <2> HIDE DEF L
  <2>2. IsFiniteSet(1 .. L) /\ Cardinality(1 .. L) = (IF 1 > L THEN 0 ELSE L - 1 + 1)
    BY <2>1, FS_Interval, Zenon
  <2> QED
    BY <1>1, <2>2
<1>3. Low \in SUBSET (1 .. L)
  BY <1>1
<1> HIDE DEF Low, L
<1>4. IsFiniteSet(Low) /\ Cardinality(Low) <= L /\ Cardinality(Low) \in Nat
  BY <1>2, <1>3, FS_Subset, FS_CardinalityType
<1> QED
  BY <1>1, <1>4 DEF Low, L, Place

\* In a sorted list, it is behind the constraints with lower stamps.
LEMMA PlaceOrdered ==
  ASSUME NEW st \in Stamps, NEW list, Ordered(list, st), NEW v \in AllCons
  PROVE  \A i \in 1 .. Len(list) : st[list[i]] < st[v] <=> i <= Place(list, v, st)
<1> DEFINE L == Len(list)
           Low == {i \in DOMAIN list : st[list[i]] < st[v]}
           High == {i \in 1 .. L : ~ (st[list[i]] < st[v])}
<1>1. L \in Nat /\ DOMAIN list = 1 .. L /\ (\A i \in 1 .. L : list[i] \in AllCons)
  BY ElementOfSeq DEF Ordered
<1>2. st[v] \in Nat /\ (\A i \in 1 .. L : st[list[i]] \in Nat)
  BY <1>1 DEF Stamps
<1>3. \A i, j \in 1 .. L : i < j => st[list[i]] <= st[list[j]]
  BY DEF Ordered
<1>4. \E k \in 0 .. L : Low = 1 .. k
  <2>1. CASE High = {}
    <3>1. Low = 1 .. L
      BY <1>1, <2>1
    <3> QED
      BY <1>1, <3>1
  <2>2. CASE High # {}
    <3>1. High \subseteq Nat
      BY <1>1
    <3>2. PICK m \in High : \A n \in High : ~ (<<n, m>> \in OpToRel(<, Nat))
      <4> HIDE DEF High
      <4> QED
        BY <2>2, <3>1, NatLessThanWellFounded, WFMin
    <3>3. m \in 1 .. L /\ m \in Nat /\ m - 1 \in 0 .. L
      BY <1>1
    <3>4. \A n \in High : ~ (n < m)
      <4> HIDE DEF High
      <4> QED
        BY <3>1, <3>2 DEF OpToRel
    <3>5. ASSUME NEW i \in 1 .. L
          PROVE  st[list[i]] < st[v] <=> i <= m - 1
      <4>1. CASE i < m
        BY <3>3, <3>4, <4>1
      <4>2. CASE i = m
        BY <3>3, <4>2
      <4>3. CASE i > m
        <5>1. st[list[m]] <= st[list[i]] /\ ~ (st[list[m]] < st[v])
          BY <1>3, <3>3, <4>3
        <5> QED
          BY <1>2, <3>3, <4>3, <5>1
      <4> QED
        BY <3>3, <4>1, <4>2, <4>3
    <3>6. Low = 1 .. m - 1
      BY <1>1, <3>3, <3>5
    <3> QED
      BY <3>3, <3>6
  <2> QED
    BY <2>1, <2>2
<1>5. PICK k \in 0 .. L : Low = 1 .. k
  BY <1>4
<1>6. Cardinality(1 .. k) = k
  <2>1. 1 \in Int /\ k \in Int /\ k \in Nat
    BY <1>1
  <2>2. Cardinality(1 .. k) = (IF 1 > k THEN 0 ELSE k - 1 + 1)
    BY <2>1, FS_Interval, Zenon
  <2> QED
    BY <2>1, <2>2
<1>7. Place(list, v, st) = k
  BY <1>5, <1>6 DEF Place
<1> QED
  BY <1>1, <1>5, <1>7

LEMMA InsertIs ==
  ASSUME NEW st \in Stamps, NEW list, Ordered(list, st), NEW v \in AllCons, v \notin ToSet(list)
  PROVE  Ordered(Insert(list, v, st), st) /\ ToSet(Insert(list, v, st)) = ToSet(list) \cup {v}
<1> DEFINE L == Len(list)
           k == Place(list, v, st)
           r == Insert(list, v, st)
<1>1. list \in Seq(AllCons) /\ L \in Nat /\ DOMAIN list = 1 .. L /\ (\A i \in 1 .. L : list[i] \in AllCons)
  BY ElementOfSeq DEF Ordered
<1>2. k \in 0 .. L
  BY <1>1, PlaceIs
<1>3. r = InsertAt(list, k + 1, v)
  BY DEF Insert, Place
<1>4. \A i \in 1 .. L : st[list[i]] < st[v] <=> i <= k
  BY PlaceOrdered
<1> HIDE DEF k, r
<1>5. /\ r \in Seq(AllCons) /\ Len(r) = L + 1
      /\ \A i \in 1 .. k : r[i] = list[i]
      /\ r[k + 1] = v
      /\ \A i \in k + 2 .. L + 1 : r[i] = list[i - 1]
  <2>1. PutAt(r, AllCons, list, k, v)
    BY <1>1, <1>2, <1>3, InsertAtIs
  <2> QED
    BY <2>1 DEF PutAt
<1> HIDE DEF L
<1>6. DOMAIN r = 1 .. L + 1
  BY <1>5
\* Where an element of the result comes from.
<1>7. ASSUME NEW i \in 1 .. L + 1
      PROVE  \/ i <= k /\ i \in 1 .. L /\ r[i] = list[i]
             \/ i = k + 1 /\ r[i] = v
             \/ i > k + 1 /\ i - 1 \in 1 .. L /\ r[i] = list[i - 1]
  BY <1>1, <1>2, <1>5
<1>8. \A i \in 1 .. L : list[i] # v
  BY <1>1 DEF ToSet
<1>9. ToSet(r) = ToSet(list) \cup {v}
  <2>1. \A i \in 1 .. L + 1 : r[i] \in ToSet(list) \cup {v}
    BY <1>1, <1>7 DEF ToSet
  <2>2. k + 1 \in 1 .. L + 1 /\ r[k + 1] = v
    BY <1>1, <1>2, <1>5
  <2>3. ASSUME NEW i \in 1 .. L
        PROVE  \E j \in 1 .. L + 1 : r[j] = list[i]
    <3>1. CASE i <= k
      <4>1. i \in 1 .. k /\ i \in 1 .. L + 1
        BY <1>1, <1>2, <3>1
      <4> QED
        BY <1>5, <4>1
    <3>2. CASE i > k
      <4>1. i + 1 \in k + 2 .. L + 1 /\ i + 1 \in 1 .. L + 1 /\ (i + 1) - 1 = i
        BY <1>1, <1>2, <3>2
      <4>2. r[i + 1] = list[(i + 1) - 1]
        BY <1>5, <4>1
      <4> QED
        BY <4>1, <4>2
    <3> QED
      BY <1>1, <1>2, <3>1, <3>2
  <2> QED
    BY <1>1, <1>6, <2>1, <2>2, <2>3 DEF ToSet
<1>10. \A i, j \in 1 .. L : list[i] = list[j] => i = j
  BY DEF Ordered, L
<1>11. ASSUME NEW i \in 1 .. L + 1, NEW j \in 1 .. L + 1, r[i] = r[j]
       PROVE  i = j
  <2>1. i \in Nat /\ j \in Nat /\ k \in Nat
    BY <1>1, <1>2
  <2>2. CASE i <= k /\ i \in 1 .. L /\ r[i] = list[i]
    <3>1. CASE j <= k /\ j \in 1 .. L /\ r[j] = list[j]
      BY <1>10, <1>11, <2>2, <3>1
    <3>2. CASE j > k + 1 /\ j - 1 \in 1 .. L /\ r[j] = list[j - 1]
      <4>1. list[i] = list[j - 1]
        BY <1>11, <2>2, <3>2
      <4>2. i = j - 1
        BY <1>10, <2>2, <3>2, <4>1
      <4> QED
        BY <2>1, <2>2, <3>2, <4>2
    <3>3. CASE j = k + 1 /\ r[j] = v
      BY <1>8, <1>11, <2>2, <3>3
    <3> QED
      BY <1>7, <3>1, <3>2, <3>3
  <2>3. CASE i = k + 1 /\ r[i] = v
    BY <1>7, <1>8, <1>11, <2>1, <2>3
  <2>4. CASE i > k + 1 /\ i - 1 \in 1 .. L /\ r[i] = list[i - 1]
    <3>1. CASE j <= k /\ j \in 1 .. L /\ r[j] = list[j]
      <4>1. list[i - 1] = list[j]
        BY <1>11, <2>4, <3>1
      <4>2. i - 1 = j
        BY <1>10, <2>4, <3>1, <4>1
      <4> QED
        BY <2>1, <2>4, <3>1, <4>2
    <3>2. CASE j > k + 1 /\ j - 1 \in 1 .. L /\ r[j] = list[j - 1]
      <4>1. list[i - 1] = list[j - 1]
        BY <1>11, <2>4, <3>2
      <4>2. i - 1 = j - 1
        BY <1>10, <2>4, <3>2, <4>1
      <4> QED
        BY <2>1, <4>2
    <3>3. CASE j = k + 1 /\ r[j] = v
      BY <1>8, <1>11, <2>4, <3>3
    <3> QED
      BY <1>7, <3>1, <3>2, <3>3
  <2> QED
    BY <1>7, <2>2, <2>3, <2>4
<1>12. st[v] \in Nat /\ \A i \in 1 .. L : st[list[i]] \in Nat
  BY <1>1 DEF Stamps
<1>13. \A i, j \in 1 .. L : i < j => st[list[i]] <= st[list[j]]
  BY DEF Ordered, L
<1>14. ASSUME NEW i \in 1 .. L + 1, NEW j \in 1 .. L + 1, i < j
       PROVE  st[r[i]] <= st[r[j]]
  <2>1. i \in Nat /\ j \in Nat /\ k \in Nat
    BY <1>1, <1>2
  <2>2. CASE i <= k /\ i \in 1 .. L /\ r[i] = list[i]
    <3>1. st[list[i]] < st[v]
      BY <1>4, <2>2
    <3>2. CASE j <= k /\ j \in 1 .. L /\ r[j] = list[j]
      BY <1>13, <1>14, <2>2, <3>2
    <3>3. CASE j = k + 1 /\ r[j] = v
      BY <1>12, <2>2, <3>1, <3>3
    <3>4. CASE j > k + 1 /\ j - 1 \in 1 .. L /\ r[j] = list[j - 1]
      <4>1. ~ (st[list[j - 1]] < st[v])
        BY <1>4, <2>1, <3>4
      <4> QED
        BY <1>12, <2>2, <3>1, <3>4, <4>1
    <3> QED
      BY <1>7, <3>2, <3>3, <3>4
  <2>3. CASE i = k + 1 /\ r[i] = v
    <3>1. j > k + 1 /\ j - 1 \in 1 .. L /\ r[j] = list[j - 1]
      BY <1>7, <1>14, <2>1, <2>3
    <3>2. ~ (st[list[j - 1]] < st[v])
      BY <1>4, <2>1, <3>1
    <3> QED
      BY <1>12, <2>3, <3>1, <3>2
  <2>4. CASE i > k + 1 /\ i - 1 \in 1 .. L /\ r[i] = list[i - 1]
    <3>1. j > k + 1 /\ j - 1 \in 1 .. L /\ r[j] = list[j - 1] /\ i - 1 < j - 1
      BY <1>7, <1>14, <2>1, <2>4
    <3> QED
      BY <1>13, <2>4, <3>1
  <2> QED
    BY <1>7, <2>2, <2>3, <2>4
<1>15. Ordered(r, st)
  BY <1>5, <1>11, <1>14 DEF Ordered
<1> QED
  BY <1>9, <1>15 DEF r

\* The equation that the function in Push is a solution of.
Pushes(list, S, st, g) ==
  g = [T \in SUBSET S |->
         IF T = {} THEN list
         ELSE LET v == CHOOSE v \in T : TRUE IN Insert(g[T \ {v}], v, st)]

LEMMA PushRecurs ==
  ASSUME NEW st, NEW list \in Seq(AllCons), NEW S \in SUBSET AllCons
  PROVE  \E g : Pushes(list, S, st, g) /\ Push(list, S, st) = g[S]
<1> DEFINE Step(T, r) == IF T = {} THEN list ELSE Insert(r, Some(T), st)
           f == [q \in (SUBSET S) \X Seq(AllCons) |-> Step(q[1], q[2])]
           Body(g) == [T \in SUBSET S |->
                         IF T = {} THEN list
                         ELSE LET v == CHOOSE v \in T : TRUE IN Insert(g[T \ {v}], v, st)]
<1>1. ASSUME NEW T \in SUBSET S, NEW r \in Seq(AllCons)
      PROVE  Step(T, r) \in Seq(AllCons)
  <2>1. CASE T = {}
    BY <2>1
  <2>2. CASE T # {}
    <3>1. Some(T) \in AllCons
      BY <2>2 DEF Some
    <3> DEFINE v == Some(T)
               k == Place(r, v, st)
    <3>2. k \in 0 .. Len(r)
      BY PlaceIs
    <3>3. Insert(r, v, st) = InsertAt(r, k + 1, v)
      BY DEF Insert, Place
    <3>4. Step(T, r) = Insert(r, v, st)
      BY <2>2
    <3> HIDE DEF k, v, Step
    <3>5. PutAt(InsertAt(r, k + 1, v), AllCons, r, k, v)
      BY <3>1, <3>2, InsertAtIs DEF v
    <3> QED
      BY <3>3, <3>4, <3>5 DEF PutAt
  <2> QED
    BY <2>1, <2>2
<1>2. f \in [(SUBSET S) \X Seq(AllCons) -> Seq(AllCons)]
  <2> HIDE DEF Step
  <2> QED
    BY <1>1
<1>3. \A T \in SUBSET S : \A r \in Seq(AllCons) : f[<<T, r>>] = Step(T, r)
  <2> HIDE DEF Step
  <2> QED
    OBVIOUS
<1>4. PICK g \in [SUBSET S -> Seq(AllCons)] : Folded(S, list, f, g)
  <2>1. IsFiniteSet(S)
    BY ConsAreFinite, FS_Subset
  <2> DEFINE X == Seq(AllCons)
  <2>2. list \in X /\ f \in [(SUBSET S) \X X -> X]
    BY <1>2
  <2> HIDE DEF f, X
  <2>3. \E g \in [SUBSET S -> X] : Folded(S, list, f, g)
    BY <2>1, <2>2, SetRecursion
  <2> QED
    BY <2>3 DEF X
<1> HIDE DEF f
<1>5. ASSUME NEW T \in SUBSET S
      PROVE  g[T] = IF T = {} THEN list ELSE Insert(g[T \ {Some(T)}], Some(T), st)
  <2>1. g[T] = IF T = {} THEN list ELSE f[<<T, g[T \ {Some(T)}]>>]
    BY <1>4 DEF Folded
  <2>2. g[T \ {Some(T)}] \in Seq(AllCons)
    OBVIOUS
  <2> QED
    BY <1>3, <2>1, <2>2
<1>6. g = Body(g)
  BY <1>5 DEF Some
<1> DEFINE h == CHOOSE h : h = Body(h)
<1>7. h = Body(h)
  BY <1>6
<1> QED
  BY <1>7 DEF Push, Pushes

LEMMA PushIs ==
  ASSUME NEW st \in Stamps, NEW list, Ordered(list, st), NEW S \in SUBSET AllCons,
         S \cap ToSet(list) = {}
  PROVE  Ordered(Push(list, S, st), st) /\ ToSet(Push(list, S, st)) = ToSet(list) \cup S
<1>1. list \in Seq(AllCons)
  BY DEF Ordered
<1>2. PICK g : Pushes(list, S, st, g) /\ Push(list, S, st) = g[S]
  BY <1>1, PushRecurs
<1>3. \A T \in SUBSET S :
        g[T] = IF T = {} THEN list ELSE Insert(g[T \ {Some(T)}], Some(T), st)
  BY <1>2 DEF Pushes, Some
<1> DEFINE Good(T) == Ordered(g[T], st) /\ ToSet(g[T]) = ToSet(list) \cup T
           Q == {T \in SUBSET S : Good(T)}
<1>4. {} \in Q
  BY <1>3
<1>5. ASSUME NEW T \in SUBSET S, T # {}, T \ {Some(T)} \in Q
      PROVE  T \in Q
  <2> DEFINE U == T \ {Some(T)}
             v == Some(T)
             r == g[U]
  <2>1. Ordered(r, st) /\ ToSet(r) = ToSet(list) \cup U
    BY <1>5
  <2>2. v \in T /\ v \in S /\ v \in AllCons
    BY <1>5 DEF Some
  <2>3. v \notin ToSet(r)
    BY <2>1, <2>2
  <2>4. g[T] = Insert(r, v, st)
    BY <1>3, <1>5
  <2>5. (ToSet(list) \cup U) \cup {v} = ToSet(list) \cup T
    BY <2>2
  <2> HIDE DEF r, v, U
  <2>6. Ordered(Insert(r, v, st), st) /\ ToSet(Insert(r, v, st)) = ToSet(r) \cup {v}
    BY <2>1, <2>2, <2>3, InsertIs
  <2> QED
    BY <2>1, <2>4, <2>5, <2>6
<1>6. SUBSET S \subseteq Q
  <2>1. IsFiniteSet(S)
    BY ConsAreFinite, FS_Subset
  <2> HIDE DEF Q
  <2> QED
    BY <1>4, <1>5, <2>1, SubsetSets
<1>7. Good(S)
  BY <1>6
<1> QED
  BY <1>2, <1>7

\* The first one of the list is the least recent, and occurs only there.
LEMMA HeadIs ==
  ASSUME NEW st \in Stamps, NEW list, Ordered(list, st), list # <<>>
  PROVE  /\ Head(list) \in AllCons /\ Head(list) \in ToSet(list)
         /\ ToSet(Tail(list)) = ToSet(list) \ {Head(list)}
         /\ \A w \in ToSet(list) : st[Head(list)] <= st[w]
         /\ \A n \in Nat : Ordered(Tail(list), [st EXCEPT ![Head(list)] = n])
<1> DEFINE L == Len(list)
           v == Head(list)
           tail == Tail(list)
<1>1. list \in Seq(AllCons) /\ L \in Nat /\ L > 0 /\ DOMAIN list = 1 .. L
      /\ \A i \in 1 .. L : list[i] \in AllCons
  BY EmptySeq, ElementOfSeq DEF Ordered
<1>2. v = list[1] /\ v \in AllCons /\ v \in ToSet(list)
  BY <1>1 DEF ToSet
<1>3. tail \in Seq(AllCons) /\ Len(tail) = L - 1 /\ DOMAIN tail = 1 .. L - 1
      /\ \A i \in 1 .. L - 1 : tail[i] = list[i + 1] /\ i + 1 \in 1 .. L
  BY <1>1, HeadTailProperties
<1>4. \A i, j \in 1 .. L : list[i] = list[j] => i = j
  BY DEF Ordered
<1>5. \A i, j \in 1 .. L : i < j => st[list[i]] <= st[list[j]]
  BY DEF Ordered
<1> HIDE DEF v, tail, L
<1>6. \A i \in 1 .. L - 1 : tail[i] # v
  <2> SUFFICES ASSUME NEW i \in 1 .. L - 1, tail[i] = v
               PROVE  FALSE
    OBVIOUS
  <2>1. list[i + 1] = list[1] /\ i + 1 \in 1 .. L /\ 1 \in 1 .. L
    BY <1>1, <1>2, <1>3
  <2>2. i + 1 = 1
    BY <1>4, <2>1
  <2> QED
    BY <2>2
<1>7. ToSet(tail) = ToSet(list) \ {v}
  <2>1. ASSUME NEW i \in 1 .. L, list[i] # v
        PROVE  list[i] \in ToSet(tail)
    <3>1. i - 1 \in 1 .. L - 1 /\ (i - 1) + 1 = i
      BY <1>1, <1>2, <2>1
    <3>2. tail[i - 1] = list[i]
      BY <1>3, <3>1
    <3> QED
      BY <1>3, <3>1, <3>2 DEF ToSet
  <2>2. \A i \in 1 .. L - 1 : tail[i] \in ToSet(list) \ {v}
    BY <1>1, <1>3, <1>6 DEF ToSet
  <2> QED
    BY <1>1, <1>3, <2>1, <2>2 DEF ToSet
<1>8. ASSUME NEW w \in ToSet(list)
      PROVE  st[v] <= st[w]
  <2>1. PICK i \in 1 .. L : w = list[i]
    BY <1>1 DEF ToSet
  <2>2. st[v] \in Nat
    BY <1>2 DEF Stamps
  <2> QED
    BY <1>1, <1>2, <1>5, <2>1, <2>2
<1>9. ASSUME NEW n \in Nat
      PROVE  Ordered(tail, [st EXCEPT ![v] = n])
  <2> DEFINE s == [st EXCEPT ![v] = n]
  <2>1. \A i \in 1 .. L - 1 : s[tail[i]] = st[list[i + 1]]
    BY <1>1, <1>3, <1>6 DEF Stamps
  <2>2. ASSUME NEW i \in 1 .. L - 1, NEW j \in 1 .. L - 1, i < j
        PROVE  s[tail[i]] <= s[tail[j]]
    <3>1. i + 1 \in 1 .. L /\ j + 1 \in 1 .. L /\ i + 1 < j + 1
      BY <1>3, <2>2
    <3>2. st[list[i + 1]] <= st[list[j + 1]]
      BY <1>5, <3>1
    <3> HIDE DEF s
    <3> QED
      BY <2>1, <3>2
  <2>3. ASSUME NEW i \in 1 .. L - 1, NEW j \in 1 .. L - 1, tail[i] = tail[j]
        PROVE  i = j
    <3>1. i + 1 \in 1 .. L /\ j + 1 \in 1 .. L /\ list[i + 1] = list[j + 1]
      BY <1>3, <2>3
    <3>2. i + 1 = j + 1
      BY <1>4, <3>1
    <3> QED
      BY <3>2
  <2> HIDE DEF s
  <2> QED
    BY <1>3, <2>2, <2>3 DEF Ordered, s
<1> QED
  BY <1>2, <1>7, <1>8, <1>9 DEF v, tail

----------------------------------------------------------------------------
(***************************************************************************)
(* The refinement: the analysis is a run of the solver.                    *)
(***************************************************************************)

\* What the steps of the solver rely on: the work list is sorted and has no
\* duplicates, and every constraint has been told of the sets it depends on
\* from the start.
SolverInv ==
  /\ program \in Programs /\ start = UNION {ConOf(st) : st \in program}
  /\ val \in Sets /\ Leq(Empty, val)
  /\ start \subseteq known /\ known \subseteq AllCons
  /\ stamp \in Stamps /\ clock \in Nat
  /\ Ordered(worklist, stamp) /\ ToSet(worklist) \subseteq known
  /\ Hooked(known) \subseteq deps /\ deps \subseteq Cells \X known
  /\ phase \in {"solve", "run"} /\ (phase = "run" => worklist = <<>>)

LEMMA HookedIs ==
  ASSUME NEW S \in SUBSET AllCons
  PROVE  Hooked(S) \subseteq Cells \X S
<1>1. \A v \in S : Hooks(v) \subseteq Cells
  BY ReadsAre, EmptyIs
<1> QED
  BY <1>1 DEF Hooked

LEMMA InitSolver == Init => SolverInv /\ FS!Init
<1> SUFFICES ASSUME Init
             PROVE  SolverInv /\ FS!Init
  OBVIOUS
<1>1. start \in SUBSET AllCons /\ start = UNION {ConOf(st) : st \in program} /\ program \in Programs
  BY StartsAre DEF Init
<1>2. stamp \in Stamps
  BY DEF Init, Stamps
<1>3. Ordered(<<>>, stamp) /\ ToSet(<<>>) = {}
  <2>1. <<>> \in Seq(AllCons) /\ Len(<<>>) = 0 /\ DOMAIN <<>> = {}
    OBVIOUS
  <2> QED
    BY <2>1 DEF Ordered, ToSet
<1>4. Ordered(worklist, stamp) /\ ToSet(worklist) = start
  <2>1. worklist = Push(<<>>, start, stamp)
    BY DEF Init
  <2>2. start \cap ToSet(<<>>) = {} /\ ToSet(<<>>) \cup start = start
    BY <1>3
  <2> QED
    BY <1>1, <1>2, <1>3, <2>1, <2>2, PushIs
<1>5. Leq(Empty, Empty)
  BY DEF Leq
<1>6. SolverInv
  BY <1>1, <1>2, <1>4, <1>5, EmptyIs, HookedIs DEF Init, SolverInv
<1>7. start \in {UNION {ConOf(st) : st \in P} : P \in Programs}
  BY <1>1
<1>8. FS!Init
  BY <1>4, <1>7 DEF Init, FS!Init, FS!Empty, FS!Hooked, Hooked
<1> QED
  BY <1>6, <1>8

\* The state after solving the first constraint of the work list.
LEMMA SolveIs ==
  ASSUME SolverInv, Solve
  PROVE  LET v == Head(worklist)
         IN  /\ v \in ToSet(worklist) /\ v \in known
             /\ \A w \in ToSet(worklist) : stamp[v] <= stamp[w]
             /\ known' = known \cup Spawn(v, val) /\ known' \subseteq AllCons
             /\ deps' = deps \cup Hooked(Spawn(v, val)) \cup (Reads(v, val) \X {v})
             /\ deps' \subseteq Cells \X known' /\ Hooked(known') \subseteq deps'
             /\ stamp' = [stamp EXCEPT ![v] = clock + 1] /\ stamp' \in Stamps
             /\ Ordered(worklist', stamp')
             /\ ToSet(worklist') =
                  (ToSet(worklist) \ {v})
                    \cup {w \in AllCons : \E c \in Changed(v, val) : <<c, w>> \in deps'}
                    \cup (Spawn(v, val) \ known)
             /\ ToSet(worklist') \subseteq known'
<1> DEFINE v == Head(worklist)
           fresh == Spawn(v, val) \ known
           woken == {w \in known' : \E c \in Changed(v, val) : <<c, w>> \in deps'}
           waits == ToSet(Tail(worklist))
           middle == Push(Tail(worklist), fresh, stamp')
<1>1. /\ val \in Sets /\ known \subseteq AllCons /\ stamp \in Stamps /\ clock \in Nat
      /\ Ordered(worklist, stamp) /\ ToSet(worklist) \subseteq known /\ worklist # <<>>
      /\ Hooked(known) \subseteq deps /\ deps \subseteq Cells \X known
  BY DEF SolverInv, Solve
<1>2. /\ v \in AllCons /\ v \in ToSet(worklist) /\ waits = ToSet(worklist) \ {v}
      /\ \A w \in ToSet(worklist) : stamp[v] <= stamp[w]
      /\ \A n \in Nat : Ordered(Tail(worklist), [stamp EXCEPT ![v] = n])
  BY <1>1, HeadIs
<1>3. /\ known' = known \cup fresh
      /\ deps' = deps \cup Hooked(fresh) \cup (Inserted(v, val) \X {v})
      /\ stamp' = [stamp EXCEPT ![v] = clock + 1]
      /\ worklist' = Push(middle, woken \ (waits \cup fresh), stamp')
  BY DEF Solve
<1>4. /\ Spawn(v, val) \subseteq AllCons /\ Hooks(v) \subseteq Cells /\ Inserted(v, val) \subseteq Cells
  BY <1>1, <1>2, ReadsAre
<1>5. stamp' \in Stamps
  BY <1>1, <1>2, <1>3 DEF Stamps
<1>6. v \in known
  BY <1>1, <1>2
<1> HIDE DEF v
<1>7. known' = known \cup Spawn(v, val) /\ known' \subseteq AllCons
  BY <1>1, <1>3, <1>4
<1>8. Hooked(Spawn(v, val)) \subseteq Hooked(known) \cup Hooked(fresh) /\ Hooked(fresh) \subseteq Hooked(Spawn(v, val))
  BY DEF Hooked
<1>9. Hooks(v) \X {v} \subseteq Hooked(known)
  BY <1>6 DEF Hooked
<1>10. Reads(v, val) \X {v} = (Hooks(v) \X {v}) \cup (Inserted(v, val) \X {v})
  BY DEF Reads
<1>11. deps' = deps \cup Hooked(Spawn(v, val)) \cup (Reads(v, val) \X {v})
  BY <1>1, <1>3, <1>8, <1>9, <1>10
<1>12. deps' \subseteq Cells \X known'
  <2>1. Hooked(fresh) \subseteq Cells \X fresh
    BY <1>4, HookedIs
  <2> HIDE DEF fresh
  <2>2. Inserted(v, val) \X {v} \subseteq Cells \X known
    BY <1>4, <1>6
  <2> QED
    BY <1>1, <1>3, <2>1, <2>2
<1>13. Hooked(known') \subseteq deps'
  <2>1. Hooked(known') \subseteq Hooked(known) \cup Hooked(fresh)
    BY <1>3 DEF Hooked
  <2> QED
    BY <1>1, <1>3, <2>1
<1>14. fresh \in SUBSET AllCons /\ fresh \cap waits = {}
  BY <1>1, <1>2, <1>4
<1>15. Ordered(middle, stamp') /\ ToSet(middle) = waits \cup fresh
  <2>1. Ordered(Tail(worklist), stamp')
    <3>1. clock + 1 \in Nat
      BY <1>1
    <3>2. Ordered(Tail(worklist), [stamp EXCEPT ![v] = clock + 1])
      BY <1>2, <3>1
    <3> QED
      BY <1>3, <3>2
  <2> DEFINE s == stamp'
             t == Tail(worklist)
  <2>2. s \in Stamps /\ Ordered(t, s) /\ waits = ToSet(t)
    BY <1>5, <2>1
  <2>3. middle = Push(t, fresh, s)
    OBVIOUS
  <2> HIDE DEF s, t, fresh, waits, middle
  <2>4. Ordered(Push(t, fresh, s), s) /\ ToSet(Push(t, fresh, s)) = ToSet(t) \cup fresh
    BY <1>14, <2>2, PushIs
  <2> QED
    BY <2>2, <2>3, <2>4 DEF s
<1> DEFINE rest == woken \ (waits \cup fresh)
<1>16. Ordered(worklist', stamp') /\ ToSet(worklist') = (waits \cup fresh) \cup rest
  <2> DEFINE s == stamp'
  <2>1. rest \in SUBSET AllCons /\ rest \cap ToSet(middle) = {} /\ s \in Stamps
    BY <1>5, <1>7, <1>15
  <2>2. worklist' = Push(middle, rest, s) /\ Ordered(middle, s)
    BY <1>3, <1>15
  <2> HIDE DEF s, rest, middle, waits, fresh
  <2>3. Ordered(Push(middle, rest, s), s) /\ ToSet(Push(middle, rest, s)) = ToSet(middle) \cup rest
    BY <2>1, <2>2, PushIs
  <2> QED
    BY <1>15, <2>2, <2>3 DEF s
<1>17. woken = {w \in AllCons : \E c \in Changed(v, val) : <<c, w>> \in deps'}
  BY <1>7, <1>12
<1>18. ToSet(worklist') = waits \cup woken \cup fresh
  BY <1>16
<1>19. ToSet(worklist') \subseteq known'
  BY <1>1, <1>2, <1>3, <1>18
<1> HIDE DEF woken
<1> QED
  BY <1>2, <1>3, <1>5, <1>6, <1>7, <1>11, <1>12, <1>13, <1>16, <1>17, <1>18, <1>19 DEF v

LEMMA StepSolver ==
  ASSUME SolverInv, [Next]_vars
  PROVE  SolverInv' /\ [FS!Next]_(FS!vars)
<1>1. CASE Solve
  <2> DEFINE v == Head(worklist)
  <2>1. /\ v \in ToSet(worklist) /\ v \in known
        /\ \A w \in ToSet(worklist) : stamp[v] <= stamp[w]
        /\ known' = known \cup Spawn(v, val) /\ known' \subseteq AllCons
        /\ deps' = deps \cup Hooked(Spawn(v, val)) \cup (Reads(v, val) \X {v})
        /\ deps' \subseteq Cells \X known' /\ Hooked(known') \subseteq deps'
        /\ stamp' = [stamp EXCEPT ![v] = clock + 1] /\ stamp' \in Stamps
        /\ Ordered(worklist', stamp')
        /\ ToSet(worklist') =
             (ToSet(worklist) \ {v})
               \cup {w \in AllCons : \E c \in Changed(v, val) : <<c, w>> \in deps'}
               \cup (Spawn(v, val) \ known)
        /\ ToSet(worklist') \subseteq known'
    BY <1>1, SolveIs
  <2>2. val' = Update(v, val) /\ clock' = clock + 1 /\ phase = "solve"
        /\ UNCHANGED <<program, phase, start>>
    BY <1>1 DEF Solve
  <2> HIDE DEF v
  <2>3. v \in AllCons /\ IsCon(v) /\ val \in Sets
    BY <2>1, ConsAre DEF SolverInv
  <2>4. val' \in Sets /\ Leq(val, val')
    BY <2>2, <2>3, UpdateIs
  <2>5. Leq(Empty, val')
    BY <2>4 DEF SolverInv, Leq
  <2>6. SolverInv'
    <3>1. program' = program /\ start' = start /\ phase' = "solve"
      BY <2>2
    <3>2. program \in Programs /\ start = UNION {ConOf(st) : st \in program}
      BY DEF SolverInv
    <3>3. start \subseteq known /\ known \subseteq known'
      BY <2>1 DEF SolverInv
    <3>4. clock \in Nat /\ clock' \in Nat
      BY <2>2 DEF SolverInv
    <3>5. start' = UNION {ConOf(st) : st \in program'}
      BY <3>1, <3>2
    <3> QED
      BY <2>1, <2>4, <2>5, <3>1, <3>2, <3>3, <3>4, <3>5 DEF SolverInv
  <2>7. FS!Solve(v)
    <3>1. FS!LeastRecent(v)
      BY <2>1 DEF FS!LeastRecent
    <3>2. FS!Recorded(v) = deps'
      BY <2>1 DEF FS!Recorded, FS!Hooked, Hooked
    <3>3. ToSet(worklist') = (ToSet(worklist) \ {v}) \cup FS!Woken(v)
      BY <2>1 DEF FS!Woken, FS!Dependent
    <3> QED
      BY <2>1, <2>2, <3>1, <3>2, <3>3 DEF FS!Solve, FS!Adopted
  <2> QED
    BY <2>3, <2>6, <2>7 DEF FS!Next
<1>2. CASE Check
  <2>1. UNCHANGED <<program, val, known, worklist, stamp, clock, deps, start>>
        /\ phase' = "run" /\ worklist = <<>>
    BY <1>2 DEF Check, solver
  <2> QED
    BY <2>1 DEF SolverInv, FS!vars
<1>3. CASE Run
  <2>1. UNCHANGED <<program, phase, val, known, worklist, stamp, clock, deps, start>>
    BY <1>3 DEF Run, solver
  <2> QED
    BY <2>1 DEF SolverInv, FS!vars
<1>4. CASE UNCHANGED vars
  <2>1. UNCHANGED <<program, phase, val, known, worklist, stamp, clock, deps, start>>
    BY <1>4 DEF vars, solver
  <2> QED
    BY <2>1 DEF SolverInv, FS!vars
<1> QED
  BY <1>1, <1>2, <1>3, <1>4 DEF Next

\* fixiter.cc: the points-to analysis is an instance of the fixpoint solver.
\* Each of its steps is one of the solver's, whatever the program: it takes a
\* constraint that was solved longest ago, and puts on the work list exactly
\* those that depend on what has changed and those that are new.
THEOREM AnalysisIsSolver == Spec => ImplementsSolver
<1>1. Init => SolverInv /\ FS!Init
  BY InitSolver
<1>2. SolverInv /\ [Next]_vars => SolverInv' /\ [FS!Next]_(FS!vars)
  BY StepSolver
<1> QED
  BY <1>1, <1>2, PTL DEF Spec, ImplementsSolver, FS!Spec

\* What is proved of the solver holds for the analysis.
LEMMA SolverHolds == Spec => [](SolverInv /\ FSP!IInv)
<1>1. Init => SolverInv /\ FS!Init
  BY InitSolver
<1>2. SolverInv /\ [Next]_vars => SolverInv' /\ [FS!Next]_(FS!vars)
  BY StepSolver
<1>3. FS!Init => FSP!Init
  BY DEF FS!Init, FSP!Init, FS!Empty, FSP!Empty, FS!Hooked, FSP!Hooked
<1>4. [FS!Next]_(FS!vars) => [FSP!Next]_(FSP!vars)
  <2>1. ASSUME NEW v \in AllCons, FS!Solve(v)
        PROVE  FSP!Solve(v)
    BY <2>1 DEF FS!Solve, FSP!Solve, FS!LeastRecent, FSP!LeastRecent, FS!Recorded, FSP!Recorded,
         FS!Hooked, FSP!Hooked, FS!Woken, FSP!Woken, FS!Dependent, FSP!Dependent, FS!Adopted, FSP!Adopted
  <2> QED
    BY <2>1 DEF FS!Next, FSP!Next, FS!vars, FSP!vars
<1>5. FSP!Spec => []FSP!IInv
  BY TypesAreKept, UnaffectedIsKept, ReportsAreKept, FSP!Invariant
<1> QED
  BY <1>1, <1>2, <1>3, <1>4, <1>5, PTL DEF Spec, FSP!Spec

----------------------------------------------------------------------------
(***************************************************************************)
(* Expressions.                                                            *)
(***************************************************************************)
Pointers == Decls \cup {Null}

\* What e is worth after its first n signs, see Eval.
NextValue(e, n, o) ==
  IF n = 1 THEN e[1]
  ELSE IF o = Null THEN Null
       ELSE IF e[n] = "*" THEN store[o]
       ELSE IF e[n] \in DOMAIN Members[o] THEN Members[o][e[n]] ELSE Null

Values(e, g) == g = [n \in 1 .. Len(e) |-> NextValue(e, n, g[n - 1])]

LEMMA EvalRecurs ==
  ASSUME store \in [Decls -> Pointers], NEW e \in Exprs
  PROVE  \E g \in [1 .. Len(e) -> Pointers] : Values(e, g) /\ Eval(e) = g[Len(e)]
<1> DEFINE L == Len(e)
           Right(g, m) == \A n \in 1 .. L : n <= m => g[n] = NextValue(e, n, g[n - 1])
           Q == {m \in Nat : \E g \in [1 .. L -> Pointers] : Right(g, m)}
           Body(g) == [n \in 1 .. L |->
                         IF n = 1 THEN e[1]
                         ELSE LET o == g[n - 1]
                              IN  IF o = Null THEN Null
                                  ELSE IF e[n] = "*" THEN store[o]
                                  ELSE IF e[n] \in DOMAIN Members[o] THEN Members[o][e[n]] ELSE Null]
<1>1. L \in Nat /\ e[1] \in Pointers
  BY ExprsAre DEF IsExpr, Pointers
<1>2. ASSUME NEW n \in 1 .. L, NEW o \in Pointers
      PROVE  NextValue(e, n, o) \in Pointers
  BY <1>1, DeclsAssumption DEF NextValue, Pointers
<1>3. \A n, o : n = 1 => NextValue(e, n, o) = e[1]
  BY DEF NextValue
<1>4. ASSUME NEW g \in [1 .. L -> Pointers], NEW n \in 1 .. L
      PROVE  NextValue(e, n, g[n - 1]) \in Pointers
  <2>1. CASE n = 1
    BY <1>1, <1>3, <2>1
  <2>2. CASE n # 1
    <3>1. n - 1 \in 1 .. L
      BY <1>1, <2>2
    <3>2. g[n - 1] \in Pointers
      BY <3>1
    <3> QED
      BY <1>2, <3>2
  <2> QED
    BY <2>1, <2>2
<1>5. 0 \in Q
  <2> DEFINE g == [n \in 1 .. L |-> e[1]]
  <2>1. g \in [1 .. L -> Pointers]
    BY <1>1
  <2>2. Right(g, 0)
    BY <1>1
  <2> HIDE DEF g, Right
  <2> QED
    BY <2>1, <2>2
<1>6. ASSUME NEW m \in Nat, m \in Q
      PROVE  m + 1 \in Q
  <2>1. PICK g \in [1 .. L -> Pointers] : Right(g, m)
    BY <1>6
  <2> DEFINE h == [n \in 1 .. L |-> NextValue(e, n, g[n - 1])]
  <2>2. h \in [1 .. L -> Pointers]
    BY <1>4
  <2>3. ASSUME NEW n \in 1 .. L, n <= m + 1
        PROVE  h[n] = NextValue(e, n, h[n - 1])
    <3>1. h[n] = NextValue(e, n, g[n - 1])
      OBVIOUS
    <3>2. CASE n = 1
      BY <1>3, <3>1, <3>2
    <3>3. CASE n # 1
      <4>1. n - 1 \in 1 .. L /\ n - 1 <= m
        BY <1>1, <2>3, <3>3
      <4>2. g[n - 1] = NextValue(e, n - 1, g[(n - 1) - 1])
        BY <2>1, <4>1
      <4>3. h[n - 1] = NextValue(e, n - 1, g[(n - 1) - 1])
        BY <4>1
      <4> QED
        BY <3>1, <4>2, <4>3
    <3> QED
      BY <3>2, <3>3
  <2>4. Right(h, m + 1)
    BY <2>3
  <2> HIDE DEF h, Right
  <2> QED
    BY <2>2, <2>4
<1>7. Nat \subseteq Q
  <2> HIDE DEF Q
  <2> QED
    BY <1>5, <1>6, NatSets
<1>8. PICK g \in [1 .. L -> Pointers] : Right(g, L)
  BY <1>1, <1>7
<1>9. \A n \in 1 .. L : g[n] = NextValue(e, n, g[n - 1])
  BY <1>1, <1>8
<1>10. \A f : Body(f) = [n \in 1 .. L |-> NextValue(e, n, f[n - 1])]
  BY DEF NextValue
<1>11. g = Body(g)
  <2> HIDE DEF Body
  <2> QED
    BY <1>9, <1>10
<1> DEFINE f == CHOOSE f : f = Body(f)
<1>12. f = Body(f)
  BY <1>11
<1>13. Eval(e) = f[L]
  BY DEF Eval
<1> HIDE DEF f, Body
<1>14. Values(e, f)
  BY <1>10, <1>12 DEF Values
\* The solution is unique, so that it has its type.
<1>15. f = g
  <2> DEFINE P == {m \in Nat : m \in 1 .. L => f[m] = g[m]}
  <2>1. 0 \in P
    BY <1>1
  <2>2. ASSUME NEW m \in Nat, m \in P
        PROVE  m + 1 \in P
    <3> SUFFICES ASSUME m + 1 \in 1 .. L
                 PROVE  f[m + 1] = g[m + 1]
      OBVIOUS
    <3>1. f[m + 1] = NextValue(e, m + 1, f[(m + 1) - 1]) /\ g[m + 1] = NextValue(e, m + 1, g[(m + 1) - 1])
      BY <1>9, <1>14 DEF Values
    <3>2. (m + 1) - 1 = m
      OBVIOUS
    <3>3. CASE m = 0
      BY <1>3, <3>1, <3>3
    <3>4. CASE m # 0
      <4>1. f[m] = g[m]
        BY <1>1, <2>2, <3>4
      <4> QED
        BY <3>1, <3>2, <4>1
    <3> QED
      BY <3>3, <3>4
  <2>3. Nat \subseteq P
    <3> HIDE DEF P
    <3> QED
      BY <2>1, <2>2, NatSets
  <2>4. \A n \in 1 .. L : f[n] = g[n]
    BY <1>1, <2>3
  <2>5. f = [n \in 1 .. L |-> f[n]]
    BY <1>14 DEF Values
  <2> QED
    BY <2>4, <2>5
<1> QED
  BY <1>13, <1>14, <1>15

\* The sets cover what the variables hold, and all constraints are solved.
Covered == \A d \in Decls : store[d] # Null => store[d] \in val[d]

Held == \A v \in known : Flows(v, val, val) /\ Spawn(v, val) \subseteq known

\* What an expression is worth is in its set, if it has its constraints.
LEMMA EvalCovered ==
  ASSUME SolverInv, Held, Covered, store \in [Decls -> Pointers],
         NEW e \in Exprs, \A n \in 2 .. Len(e) : ExprCon(SubSeq(e, 1, n)) \in known
  PROVE  Eval(e) \in Pointers /\ (Eval(e) # Null => Eval(e) \in val[e])
<1>1. PICK g \in [1 .. Len(e) -> Pointers] : Values(e, g) /\ Eval(e) = g[Len(e)]
  BY EvalRecurs
<1> DEFINE L == Len(e)
           pre(n) == SubSeq(e, 1, n)
           Q == {n \in Nat : n \in 1 .. L /\ g[n] # Null => g[n] \in val[pre(n)]}
<1>2. IsExpr(e) /\ L \in Nat /\ L >= 1 /\ e[1] \in Decls /\ e \in Seq(Signs)
  <2>1. IsExpr(e)
    BY ExprsAre
  <2>2. e \in Seq(Signs) /\ e # <<>> /\ e[1] \in Decls
    BY <2>1 DEF IsExpr, Signs
  <2>3. Len(e) \in Nat \ {0}
    BY <2>2, EmptySeq
  <2> QED
    BY <2>1, <2>2, <2>3
<1>3. val \in Sets /\ \A d \in Decls : d \in val[<<d>>]
  <2>1. val \in Sets /\ Leq(Empty, val)
    BY DEF SolverInv
  <2> QED
    BY <2>1, EmptyIs DEF Leq
<1>4. \A n \in 1 .. L : g[n] = NextValue(e, n, g[n - 1])
  BY <1>1 DEF Values
<1>5. 0 \in Q
  BY <1>2
<1>6. ASSUME NEW m \in Nat, m \in Q
      PROVE  m + 1 \in Q
  <2> SUFFICES ASSUME m + 1 \in 1 .. L, g[m + 1] # Null
               PROVE  g[m + 1] \in val[pre(m + 1)]
    OBVIOUS
  <2>1. (m + 1) - 1 = m
    OBVIOUS
  <2>2. g[m + 1] = NextValue(e, m + 1, g[m])
    BY <1>4, <2>1
  <2>3. CASE m = 0
    <3>1. g[m + 1] = e[1]
      BY <2>2, <2>3 DEF NextValue
    <3>2. pre(1) = <<e[1]>>
      <4>1. Len(SubSeq(e, 1, 1)) = 1 /\ SubSeq(e, 1, 1)[1] = e[1] /\ IsExpr(SubSeq(e, 1, 1))
        BY <1>2, PrefixIs
      <4>2. SubSeq(e, 1, 1) \in Seq(Signs)
        BY <4>1 DEF IsExpr, Signs
      <4> DEFINE x == SubSeq(e, 1, 1)
                 y == <<e[1]>>
      <4>3. y \in Seq(Signs) /\ Len(y) = 1 /\ y[1] = e[1]
        BY <1>2 DEF Signs
      <4>4. x \in Seq(Signs) /\ Len(x) = 1 /\ x[1] = e[1]
        BY <4>1, <4>2
      <4> HIDE DEF x, y
      <4>5. x = y
        <5>1. \A i \in 1 .. Len(x) : i = 1
          BY <4>4
        <5> QED
          BY <4>3, <4>4, <5>1, SeqEqual
      <4> QED
        BY <4>5 DEF x, y
    <3>3. pre(m + 1) = <<e[1]>>
      <4>1. m + 1 = 1
        BY <2>3
      <4> QED
        BY <3>2, <4>1
    <3>4. e[1] \in val[<<e[1]>>]
      BY <1>2, <1>3
    <3> HIDE DEF pre
    <3> QED
      BY <3>1, <3>3, <3>4
  <2>4. CASE m # 0
    <3> DEFINE x == pre(m + 1)
               y == pre(m)
               o == g[m]
    <3>1. m \in 1 .. L /\ m + 1 \in 2 .. L
      BY <1>2, <2>4
    <3>2. o \in Pointers /\ o # Null
      <4>1. o \in Pointers
        BY <3>1
      <4> QED
        BY <2>2, <2>4, <4>1 DEF NextValue
    <3>3. o \in Decls /\ o \in val[y]
      BY <1>6, <3>1, <3>2 DEF Pointers
    <3>4. x \in Exprs /\ Len(x) = m + 1 /\ x[m + 1] = e[m + 1] /\ SubSeq(x, 1, m) = y
      <4>1. m \in 1 .. m + 1 /\ m + 1 \in 1 .. m + 1
        BY <3>1
      <4>2. m + 1 \in 1 .. Len(e)
        OBVIOUS
      <4>3. \A n \in 1 .. Len(e) :
              /\ SubSeq(e, 1, n) \in Exprs /\ Len(SubSeq(e, 1, n)) = n
              /\ \A i \in 1 .. n : SubSeq(e, 1, n)[i] = e[i]
              /\ \A i \in 1 .. n : SubSeq(SubSeq(e, 1, n), 1, i) = SubSeq(e, 1, i)
        BY <1>2, PrefixIs, ExprsAre
      <4> DEFINE k == m + 1
      <4>4. k \in 1 .. Len(e) /\ m \in 1 .. k /\ k \in 1 .. k
        BY <4>1, <4>2
      <4> HIDE DEF k
      <4>5. /\ SubSeq(e, 1, k) \in Exprs /\ Len(SubSeq(e, 1, k)) = k
            /\ SubSeq(e, 1, k)[k] = e[k] /\ SubSeq(SubSeq(e, 1, k), 1, m) = SubSeq(e, 1, m)
        BY <4>3, <4>4
      <4> QED
        BY <4>5 DEF k
    <3>5. Last(x) = e[m + 1] /\ Front(x) = y
      BY <2>1, <3>4 DEF Last, Front
    <3>6. ExprCon(x) \in known
      BY <3>1
    <3>7. y \in Cells /\ x \in Cells
      <4>1. m \in 1 .. Len(e)
        BY <3>1
      <4> QED
        BY <3>4, <4>1, ExprsAre DEF Cells
    <3> HIDE DEF x, y, o
    <3>8. Flows(ExprCon(x), val, val)
      BY <3>6 DEF Held
    <3>9. g[m + 1] = IF e[m + 1] = "*" THEN store[o]
                     ELSE IF e[m + 1] \in DOMAIN Members[o] THEN Members[o][e[m + 1]] ELSE Null
      BY <2>2, <2>4, <3>2 DEF NextValue, o
    <3>10. CASE e[m + 1] = "*"
      <4>1. ExprCon(x) = DerefCon(x, y)
        BY <3>5, <3>10 DEF ExprCon
      <4>2. val[o] \subseteq val[x]
        BY <3>3, <3>8, <4>1 DEF Flows, DerefCon
      <4>3. store[o] # Null /\ g[m + 1] = store[o]
        BY <3>9, <3>10
      <4>4. store[o] \in val[o]
        BY <3>3, <4>3 DEF Covered
      <4> QED
        BY <4>2, <4>3, <4>4 DEF x
    <3>11. CASE e[m + 1] # "*"
      <4>1. ExprCon(x) = Member(x, y, e[m + 1])
        BY <3>5, <3>11 DEF ExprCon
      <4>2. MembersOf(val[y], e[m + 1]) \subseteq val[x]
        BY <3>8, <4>1 DEF Flows, Member
      <4>3. e[m + 1] \in DOMAIN Members[o] /\ g[m + 1] = Members[o][e[m + 1]]
        BY <3>9, <3>11
      <4>4. g[m + 1] \in MembersOf(val[y], e[m + 1])
        BY <3>3, <4>3 DEF MembersOf
      <4> QED
        BY <4>2, <4>4 DEF x
    <3> QED
      BY <3>10, <3>11
  <2> QED
    BY <2>3, <2>4
<1>7. L \in Q
  <2>1. Nat \subseteq Q
    <3> HIDE DEF Q
    <3> QED
      BY <1>5, <1>6, NatSets
  <2> QED
    BY <1>2, <2>1
<1>8. L \in 1 .. L /\ pre(L) = e
  <2>1. L \in 1 .. L
    BY <1>2
  <2> QED
    BY <1>2, <2>1, PrefixIs
<1>9. g[L] \in Pointers
  BY <1>8
<1> QED
  BY <1>1, <1>7, <1>8, <1>9

\* The same for the expressions of a statement, and their prefixes.
LEMMA StmtCovered ==
  ASSUME SolverInv, Held, Covered, store \in [Decls -> Pointers],
         NEW st \in program, NEW e \in Top(st)
  PROVE  /\ e \in Exprs
         /\ Eval(e) \in Pointers /\ (Eval(e) # Null => Eval(e) \in val[e])
         /\ Len(e) > 1 => /\ Eval(Front(e)) \in Pointers
                          /\ Eval(Front(e)) # Null => Eval(Front(e)) \in val[Front(e)]
<1>1. st \in Stmts /\ ConOf(st) \subseteq known
  BY StmtsAssumption DEF SolverInv
<1>2. \A n \in 2 .. Len(e) : ExprCon(SubSeq(e, 1, n)) \in known
  BY <1>1, ConOfIs
<1>3. e \in Exprs /\ IsExpr(e)
  BY <1>1, ExprsAre
<1>4. Eval(e) \in Pointers /\ (Eval(e) # Null => Eval(e) \in val[e])
  BY <1>2, <1>3, EvalCovered
<1>5. ASSUME Len(e) > 1
      PROVE  /\ Eval(Front(e)) \in Pointers
             /\ Eval(Front(e)) # Null => Eval(Front(e)) \in val[Front(e)]
  <2> DEFINE x == Front(e)
             k == Len(e) - 1
  <2>1. Len(e) \in Nat /\ k \in 1 .. Len(e)
    BY <1>3, <1>5 DEF IsExpr
  <2>2. x \in Exprs /\ x = SubSeq(e, 1, k)
    BY <1>3, <1>5, FrontIs
  <2> HIDE DEF x
  <2>3. Len(x) = k /\ \A n \in 1 .. k : SubSeq(x, 1, n) = SubSeq(e, 1, n)
    BY <1>3, <2>1, <2>2, PrefixIs
  <2>4. ASSUME NEW n \in 2 .. Len(x)
        PROVE  ExprCon(SubSeq(x, 1, n)) \in known
    <3>1. n \in 1 .. k /\ n \in 2 .. Len(e)
      BY <2>1, <2>3
    <3> QED
      BY <1>2, <2>3, <3>1
  <2>5. Eval(x) \in Pointers /\ (Eval(x) # Null => Eval(x) \in val[x])
    BY <2>2, <2>4, EvalCovered
  <2> QED
    BY <2>5 DEF x
<1> QED
  BY <1>3, <1>4, <1>5

----------------------------------------------------------------------------
(***************************************************************************)
(* A run of the program.                                                   *)
(***************************************************************************)

\* The sets cover the store, and the constraints of every call have been made.
StoreInv ==
  /\ store \in [Decls -> Pointers]
  /\ Covered
  /\ \A c \in called :
       /\ c[1] \in program /\ c[1].op = "call" /\ c[2] \in Funs
       /\ CallsTo(StmtCon(c[1]), c[2]) \subseteq known

\* The constraints of a statement have been solved.
LEMMA StmtHeld ==
  ASSUME SolverInv, Held, NEW st \in program
  PROVE  Flows(StmtCon(st), val, val) /\ Spawn(StmtCon(st), val) \subseteq known
<1>1. st \in Stmts /\ ConOf(st) \subseteq known
  BY StmtsAssumption DEF SolverInv
<1> QED
  BY <1>1, ConOfIs DEF Held

LEMMA PutCovered ==
  ASSUME store \in [Decls -> Pointers], Covered, UNCHANGED val,
         NEW o \in Decls, NEW w \in Pointers, w # Null => w \in val[o],
         store' = [store EXCEPT ![o] = w]
  PROVE  store' \in [Decls -> Pointers] /\ Covered'
BY DEF Covered

LEMMA AssignCovered ==
  ASSUME SolverInv, StoreInv, Held, UNCHANGED solver, NEW st \in program,
         st.op = "assign", Execute(st)
  PROVE  store' \in [Decls -> Pointers] /\ Covered'
<1> DEFINE o == Eval(st.lhs)
           w == Eval(st.rhs)
<1>1. st.lhs \in Top(st) /\ st.rhs \in Top(st)
  BY DEF Top
<1>2. store \in [Decls -> Pointers] /\ Covered
  BY DEF StoreInv
<1>3. o \in Pointers /\ (o # Null => o \in val[st.lhs]) /\ w \in Pointers /\ (w # Null => w \in val[st.rhs])
  BY <1>1, <1>2, StmtCovered
<1>4. store' = [store EXCEPT ![o] = w] /\ o # Null
  BY DEF Execute, Put
<1>5. val[st.rhs] \subseteq val[o]
  <2>1. Flows(Assign(st.lhs, st.rhs), val, val)
    BY StmtHeld DEF StmtCon
  <2> HIDE DEF o
  <2> QED
    BY <1>3, <1>4, <2>1 DEF Flows, Assign
<1>6. o \in Decls /\ (w # Null => w \in val[o])
  BY <1>3, <1>4, <1>5 DEF Pointers
<1>7. UNCHANGED val
  BY DEF solver
<1> HIDE DEF o, w
<1> QED
  BY <1>2, <1>3, <1>4, <1>6, <1>7, PutCovered

LEMMA AllocCovered ==
  ASSUME SolverInv, StoreInv, Held, UNCHANGED solver, NEW st \in program,
         st.op = "alloc", Execute(st)
  PROVE  store' \in [Decls -> Pointers] /\ Covered'
<1> DEFINE o == Eval(st.lhs)
           w == st.obj
<1>1. st.lhs \in Top(st)
  BY DEF Top
<1>2. store \in [Decls -> Pointers] /\ Covered
  BY DEF StoreInv
<1>3. o \in Pointers /\ (o # Null => o \in val[st.lhs])
  BY <1>1, <1>2, StmtCovered
<1>4. store' = [store EXCEPT ![o] = w] /\ o # Null
  BY DEF Execute, Put
<1>5. w \in Decls /\ w \in Pointers
  BY StmtsAssumption DEF SolverInv, Decls, Pointers
<1>6. w \in val[<<w>>]
  BY <1>5, EmptyIs DEF SolverInv, Leq
<1>7. val[<<w>>] \subseteq val[o]
  <2>1. Flows(Assign(st.lhs, <<w>>), val, val)
    BY StmtHeld DEF StmtCon
  <2> HIDE DEF o, w
  <2> QED
    BY <1>3, <1>4, <2>1 DEF Flows, Assign
<1>8. o \in Decls /\ w \in val[o]
  BY <1>3, <1>4, <1>6, <1>7 DEF Pointers
<1>9. UNCHANGED val
  BY DEF solver
<1> HIDE DEF o, w
<1> QED
  BY <1>2, <1>4, <1>5, <1>8, <1>9, PutCovered

\* Of the members that both structures have, each gets what the other holds.
LEMMA CopyCovered ==
  ASSUME SolverInv, StoreInv, Held, UNCHANGED solver, NEW st \in program,
         st.op = "copy", Execute(st)
  PROVE  store' \in [Decls -> Pointers] /\ Covered'
<1> DEFINE to == Eval(st.lhs)
           from == Eval(Front(st.rhs))
           both == Shared(to, from)
           name(d) == CHOOSE m \in both : d = Members[to][m]
           into == {Members[to][m] : m \in both}
<1>1. st.lhs \in Top(st) /\ st.rhs \in Top(st) /\ Len(st.rhs) > 1
  BY StmtsAssumption DEF Top, SolverInv
<1>2. store \in [Decls -> Pointers] /\ Covered
  BY DEF StoreInv
<1>3. to # Null /\ from # Null /\ to \in Pointers /\ from \in Pointers
      /\ to \in val[st.lhs] /\ from \in val[Front(st.rhs)]
  <2>1. to # Null /\ from # Null
    BY DEF Execute
  <2>2. /\ to \in Pointers /\ from \in Pointers
        /\ to # Null => to \in val[st.lhs]
        /\ from # Null => from \in val[Front(st.rhs)]
    BY <1>1, <1>2, StmtCovered
  <2> QED
    BY <2>1, <2>2
<1>4. to \in Decls /\ from \in Decls
  BY <1>3 DEF Pointers
<1>5. store' = [d \in Decls |-> IF d \in into THEN store[Members[from][name(d)]] ELSE store[d]]
  BY DEF Execute
<1>6. \A m \in both : /\ Members[from][m] \in Decls /\ Members[to][m] \in Decls
                      /\ val[Members[from][m]] \subseteq val[Members[to][m]]
  <2> HIDE DEF to, from
  <2> SUFFICES ASSUME NEW m \in Shared(to, from)
               PROVE  /\ Members[from][m] \in Decls /\ Members[to][m] \in Decls
                      /\ val[Members[from][m]] \subseteq val[Members[to][m]]
    OBVIOUS
  <2>1. m \in DOMAIN Members[to] /\ m \in DOMAIN Members[from]
    BY DEF Shared
  <2>2. Members[from][m] \in Decls /\ Members[to][m] \in Decls
    BY <1>4, <2>1, DeclsAssumption
  <2> DEFINE p == <<Members[to][m], Members[from][m]>>
             v == Copy(st.lhs, Front(st.rhs))
  <2>3. p \in Transfers(to, from)
    BY <2>1 DEF Transfers
  <2>4. v.con = "copy" /\ v.t = st.lhs /\ v.s = Front(st.rhs)
    BY DEF Copy
  <2>5. Flows(v, val, val)
    <3>1. StmtCon(st) = v
      BY DEF StmtCon
    <3> QED
      BY <3>1, StmtHeld
  <2> HIDE DEF v, p
  <2>6. p \in Pairs(v, val)
    BY <1>3, <2>3, <2>4 DEF Pairs
  <2>7. val[p[2]] \subseteq val[p[1]]
    BY <2>4, <2>5, <2>6 DEF Flows
  <2> QED
    BY <2>2, <2>7 DEF p
<1>7. \A d \in into : name(d) \in both /\ d = Members[to][name(d)]
  OBVIOUS
<1>8. ASSUME NEW d \in Decls
      PROVE  store'[d] \in Pointers /\ (store'[d] # Null => store'[d] \in val[d])
  <2>1. CASE d \in into
    <3> DEFINE e == Members[from][name(d)]
    <3>1. store'[d] = store[e]
      BY <1>5, <2>1
    <3>2. name(d) \in both /\ d = Members[to][name(d)]
      BY <1>7, <2>1
    <3> HIDE DEF name, both, into
    <3>3. e \in Decls /\ val[e] \subseteq val[d]
      BY <1>6, <3>2
    <3> HIDE DEF e
    <3> QED
      BY <1>2, <3>1, <3>3 DEF Covered
  <2>2. CASE d \notin into
    <3>1. store'[d] = store[d]
      BY <1>5, <2>2
    <3> QED
      BY <1>2, <3>1 DEF Covered
  <2> QED
    BY <2>1, <2>2
<1>9. val' = val
  BY DEF solver
<1>10. store' = [d \in Decls |-> store'[d]]
  BY <1>5
<1> HIDE DEF to, from, both, name, into
<1> QED
  BY <1>8, <1>9, <1>10 DEF Covered

LEMMA CallCovered ==
  ASSUME SolverInv, StoreInv, Held, UNCHANGED <<program, solver>>, NEW st \in program,
         st.op = "call", Execute(st)
  PROVE  StoreInv'
<1> DEFINE f == Eval(st.fun)
           o == Param[f]
           w == Eval(st.arg)
<1>1. st.fun \in Top(st) /\ st.arg \in Top(st)
  BY DEF Top
<1>2. store \in [Decls -> Pointers] /\ Covered
  BY DEF StoreInv
<1>3. f \in Funs /\ store' = [store EXCEPT ![o] = w] /\ called' = called \cup {<<st, f>>}
  BY DEF Execute
<1>4. f # Null /\ f \in Decls /\ o \in Decls
  BY <1>3, DeclsAssumption DEF Decls
<1>5. f \in val[st.fun] /\ w \in Pointers /\ (w # Null => w \in val[st.arg])
  BY <1>1, <1>2, <1>4, StmtCovered
<1> HIDE DEF f, w
<1> DEFINE v == CallCon(st.lhs, st.fun, st.arg)
<1>6. StmtCon(st) = v
  BY DEF StmtCon
<1>7. CallsTo(v, f) \subseteq known
  <2>1. Spawn(v, val) \subseteq known
    BY <1>6, StmtHeld
  <2>2. v.con = "call" /\ v.s = st.fun
    BY DEF CallCon
  <2> HIDE DEF v
  <2>3. CallsTo(v, f) \subseteq Spawn(v, val)
    BY <1>3, <1>5, <2>2 DEF Spawn
  <2> QED
    BY <2>1, <2>3
<1>8. val[st.arg] \subseteq val[o]
  <2>1. Assign(<<o>>, st.arg) \in known
    BY <1>7 DEF CallsTo, CallCon
  <2>2. o \in val[<<o>>]
    <3> HIDE DEF o
    <3> QED
      BY <1>4, EmptyIs DEF SolverInv, Leq
  <2> HIDE DEF o
  <2> QED
    BY <2>1, <2>2 DEF Held, Flows, Assign
<1>9. w # Null => w \in val[o]
  BY <1>5, <1>8
<1>10. UNCHANGED val /\ known' = known /\ program' = program
  BY DEF solver
<1> HIDE DEF o, v
<1>11. store' \in [Decls -> Pointers] /\ Covered'
  BY <1>2, <1>3, <1>4, <1>5, <1>9, <1>10, PutCovered
<1>12. ASSUME NEW c \in called'
       PROVE  /\ c[1] \in program' /\ c[1].op = "call" /\ c[2] \in Funs
              /\ CallsTo(StmtCon(c[1]), c[2]) \subseteq known'
  <2>1. CASE c \in called
    BY <1>10, <2>1 DEF StoreInv
  <2>2. CASE c = <<st, f>>
    <3>1. c[1] = st /\ c[2] = f
      BY <2>2
    <3> QED
      BY <1>3, <1>6, <1>7, <1>10, <3>1
  <2> QED
    BY <1>3, <2>1, <2>2
<1> QED
  BY <1>11, <1>12 DEF StoreInv

\* What is returned goes through the set of the function.
LEMMA ReturnCovered ==
  ASSUME SolverInv, StoreInv, Held, UNCHANGED solver, NEW st \in program,
         st.op = "return", Execute(st)
  PROVE  store' \in [Decls -> Pointers] /\ Covered'
<1>1. PICK c \in called : c[2] = st.in /\ Put(c[1].lhs, Eval(st.rhs))
  BY DEF Execute
<1> DEFINE call == c[1]
           f == c[2]
           o == Eval(call.lhs)
           w == Eval(st.rhs)
<1>2. call \in program /\ call.op = "call" /\ f \in Funs /\ CallsTo(StmtCon(call), f) \subseteq known
  BY DEF StoreInv
<1>3. store \in [Decls -> Pointers] /\ Covered
  BY DEF StoreInv
<1>4. store' = [store EXCEPT ![o] = w] /\ o # Null
  BY <1>1 DEF Put
<1>5. f = st.in
  BY <1>1
<1> HIDE DEF call, f
<1>6. call.lhs \in Top(call) /\ st.rhs \in Top(st)
  BY <1>2 DEF Top
<1>7. o \in Pointers /\ (o # Null => o \in val[call.lhs]) /\ w \in Pointers /\ (w # Null => w \in val[st.rhs])
  BY <1>2, <1>3, <1>6, StmtCovered
<1>8. val[st.rhs] \subseteq val[f]
  <2>1. Flows(Subset(f, st.rhs), val, val)
    BY <1>5, StmtHeld DEF StmtCon
  <2> QED
    BY <2>1 DEF Flows, Subset
<1>9. val[f] \subseteq val[o]
  <2>1. StmtCon(call) = CallCon(call.lhs, call.fun, call.arg)
    BY <1>2 DEF StmtCon
  <2>2. Assign(call.lhs, f) \in known
    BY <1>2, <2>1 DEF CallsTo, CallCon
  <2> HIDE DEF o
  <2> QED
    BY <1>4, <1>7, <2>2 DEF Held, Flows, Assign
<1>10. o \in Decls /\ (w # Null => w \in val[o])
  BY <1>4, <1>7, <1>8, <1>9 DEF Pointers
<1>11. UNCHANGED val
  BY DEF solver
<1> HIDE DEF o, w
<1> QED
  BY <1>3, <1>4, <1>7, <1>10, <1>11, PutCovered

\* When the work list is empty, every constraint holds.
LEMMA HeldIs ==
  ASSUME SolverInv, FSP!IInv, worklist = <<>>
  PROVE  Held /\ \A v \in known : Update(v, val) = val
<1> SUFFICES ASSUME NEW v \in known
             PROVE  /\ Flows(v, val, val) /\ Spawn(v, val) \subseteq known
                    /\ Update(v, val) = val
  BY DEF Held
<1>1. ToSet(worklist) = {}
  BY DEF ToSet
<1>2. Update(v, val) = val /\ Spawn(v, val) \subseteq known
  BY <1>1 DEF FSP!IInv, FSP!DirtyCoversUnsolved, FSP!Solved
<1>3. val \in Sets /\ IsCon(v)
  BY ConsAre DEF SolverInv
<1>4. Flows(v, val, Update(v, val))
  BY <1>3, UpdateIs
<1> QED
  BY <1>2, <1>4

LEMMA InitStore == Init => StoreInv
BY DEF Init, StoreInv, Covered, Pointers

LEMMA StepStore ==
  ASSUME SolverInv, FSP!IInv, StoreInv, [Next]_vars
  PROVE  StoreInv'
<1>1. CASE Solve
  <2>1. UNCHANGED <<program, store, called>> /\ val' = Update(Head(worklist), val)
    BY <1>1 DEF Solve, memory
  <2>2. Head(worklist) \in known /\ known \subseteq known' /\ known \subseteq AllCons /\ val \in Sets
    BY <1>1, SolveIs DEF SolverInv
  <2>3. Leq(val, val')
    BY <2>1, <2>2, ConsAre, UpdateIs
  <2>4. Covered'
    <3>1. Decls \subseteq Cells
      BY DEF Cells
    <3> QED
      BY <2>1, <2>3, <3>1 DEF StoreInv, Covered, Leq
  <2> QED
    BY <2>1, <2>2, <2>4 DEF StoreInv
<1>2. CASE Check
  <2>1. UNCHANGED <<program, store, called, val, known>>
    BY <1>2 DEF Check, solver, memory
  <2> QED
    BY <2>1 DEF StoreInv, Covered
<1>3. CASE Run
  <2>1. PICK st \in program : Execute(st)
    BY <1>3 DEF Run
  <2>2. UNCHANGED <<program, solver>> /\ Held
    BY <1>3, HeldIs DEF Run, SolverInv
  <2>3. program' = program /\ known' = known
    BY <2>2 DEF solver
  <2>4. st.op \in {"assign", "copy", "alloc", "call", "return"}
    BY StmtsAssumption DEF SolverInv
  <2>5. CASE st.op = "assign"
    <3>1. called' = called
      BY <2>1, <2>5 DEF Execute
    <3> QED
      BY <2>1, <2>2, <2>3, <2>5, <3>1, AssignCovered DEF StoreInv
  <2>6. CASE st.op = "copy"
    <3>1. called' = called
      BY <2>1, <2>6 DEF Execute
    <3> QED
      BY <2>1, <2>2, <2>3, <2>6, <3>1, CopyCovered DEF StoreInv
  <2>7. CASE st.op = "alloc"
    <3>1. called' = called
      BY <2>1, <2>7 DEF Execute
    <3> QED
      BY <2>1, <2>2, <2>3, <2>7, <3>1, AllocCovered DEF StoreInv
  <2>8. CASE st.op = "call"
    BY <2>1, <2>2, <2>8, CallCovered
  <2>9. CASE st.op = "return"
    <3>1. called' = called
      BY <2>1, <2>9 DEF Execute
    <3> QED
      BY <2>1, <2>2, <2>3, <2>9, <3>1, ReturnCovered DEF StoreInv
  <2> QED
    BY <2>4, <2>5, <2>6, <2>7, <2>8, <2>9
<1>4. CASE UNCHANGED vars
  <2>1. UNCHANGED <<program, store, called, val, known>>
    BY <1>4 DEF vars, solver, memory
  <2> QED
    BY <2>1 DEF StoreInv, Covered
<1> QED
  BY <1>1, <1>2, <1>3, <1>4 DEF Next

\* What the invariants say of the run that follows the analysis.
LEMMA CoversFollows == SolverInv /\ FSP!IInv /\ StoreInv => AnalysisCovers
<1> SUFFICES ASSUME SolverInv, FSP!IInv, StoreInv
             PROVE  AnalysisCovers
  OBVIOUS
<1>1. PointersAreFound
  BY DEF StoreInv, Covered, PointersAreFound
<1>2. ExpressionsAreCovered
  <2> SUFFICES ASSUME phase = "run", NEW st \in program, NEW e \in Top(st), Eval(e) # Null
               PROVE  Eval(e) \in val[e]
    BY DEF ExpressionsAreCovered
  <2>1. Held
    BY HeldIs DEF SolverInv
  <2>2. store \in [Decls -> Pointers] /\ Covered
    BY DEF StoreInv
  <2> QED
    BY <2>1, <2>2, StmtCovered
<1>3. CallsAreKnown
  BY DEF StoreInv, CallsAreKnown
<1>4. DependenciesCorrect
  <2> SUFFICES ASSUME worklist = <<>>, NEW v \in known
               PROVE  ~ Disagrees(v)
    BY DEF DependenciesCorrect
  <2>1. Update(v, val) = val /\ Spawn(v, val) \subseteq known
    BY HeldIs DEF Held
  <2>2. Changed(v, val) = {}
    BY <2>1 DEF Changed
  <2> QED
    BY <2>1, <2>2 DEF Disagrees
<1> QED
  BY <1>1, <1>2, <1>3, <1>4 DEF AnalysisCovers

\* pa.cc: the analysis is correct.  In every run of every program, what a
\* variable holds and what an expression is worth is in its set; a function
\* is entered only where its call has been seen; and when the solver comes
\* to rest, the warning that the dependencies were wrong is never given.
THEOREM AnalysisAlwaysCovers == Spec => []AnalysisCovers
<1>1. Init => StoreInv
  BY InitStore
<1>2. SolverInv /\ FSP!IInv /\ StoreInv /\ [Next]_vars => StoreInv'
  BY StepStore
<1>3. SolverInv /\ FSP!IInv /\ StoreInv => AnalysisCovers
  BY CoversFollows
<1>4. Spec => [](SolverInv /\ FSP!IInv)
  BY SolverHolds
<1> QED
  BY <1>1, <1>2, <1>3, <1>4, PTL DEF Spec
=============================================================================
