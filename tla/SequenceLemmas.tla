--------------------------- MODULE SequenceLemmas ---------------------------
(***************************************************************************)
(* Facts about numbers, sequences and sets that several proofs need:       *)
(* induction, the least element of a set of numbers, what the operators of *)
(* SequencesExt that put an element into a list, or take one out, return,  *)
(* loops, folds, the sizes of sets, and the closure of a finite set.       *)
(***************************************************************************)
EXTENDS Integers, FiniteSets, SequencesExt, FiniteSetsExt, TLAPS, SequenceTheorems, FiniteSetTheorems, WellFoundedInduction

\* Induction over the numbers, without operators as parameters.
LEMMA NatSets ==
  ASSUME NEW Q, 0 \in Q, \A n \in Nat : n \in Q => n + 1 \in Q
  PROVE  Nat \subseteq Q
<1> DEFINE W == {n \in Nat : n \notin Q}
<1>1. SUFFICES ASSUME W # {}
               PROVE  FALSE
  OBVIOUS
<1>2. W \subseteq Nat
  OBVIOUS
<1> HIDE DEF W
<1>3. PICK n \in W : \A m \in W : ~ (<<m, n>> \in OpToRel(<, Nat))
  BY <1>1, <1>2, NatLessThanWellFounded, WFMin
<1>4. n \in Nat /\ n # 0 /\ n \notin Q
  BY DEF W
<1>5. n - 1 \in Nat /\ n - 1 < n /\ (n - 1) + 1 = n
  BY <1>4
<1>6. <<n - 1, n>> \in OpToRel(<, Nat)
  BY <1>4, <1>5 DEF OpToRel
<1>7. n - 1 \in Q
  BY <1>3, <1>5, <1>6 DEF W
<1> QED
  BY <1>4, <1>5, <1>7

LEMMA MinIs ==
  ASSUME NEW S \in SUBSET Nat, S # {}
  PROVE  Min(S) \in S /\ \A n \in S : Min(S) <= n
<1>1. PICK n \in S : \A m \in S : ~ (<<m, n>> \in OpToRel(<, Nat))
  BY NatLessThanWellFounded, WFMin
<1>2. ASSUME NEW m \in S, ~ (n <= m)
      PROVE  FALSE
  <2>1. m \in Nat /\ n \in Nat /\ m < n
    BY <1>2
  <2>2. <<m, n>> \in OpToRel(<, Nat)
    BY <2>1 DEF OpToRel
  <2> QED
    BY <1>1, <2>2
<1> QED
  BY <1>2, Zenon DEF Min

\* So does one that is bounded have a greatest one.
LEMMA GreatestIs ==
  ASSUME NEW m \in Nat, NEW S \in SUBSET (0 .. m), S # {}
  PROVE  Max(S) \in S /\ \A x \in S : x <= Max(S)
<1> DEFINE U == {u \in Nat : \A x \in S : x <= u}
           u == Min(U)
<1>1. U \in SUBSET Nat /\ m \in U
  OBVIOUS
<1> HIDE DEF U
<1>2. u \in U /\ \A v \in U : u <= v
  BY <1>1, MinIs
<1> HIDE DEF u
<1>3. u \in Nat /\ \A x \in S : x <= u /\ x \in Nat
  BY <1>2 DEF U
<1>4. u \in S
  <2> SUFFICES ASSUME u \notin S
               PROVE  FALSE
    OBVIOUS
  <2>1. PICK x \in S : TRUE
    OBVIOUS
  <2>2. u - 1 \in Nat /\ \A y \in S : y <= u - 1
    BY <1>3, <2>1
  <2>3. u - 1 \in U
    BY <2>2 DEF U
  <2> QED
    BY <1>2, <1>3, <2>3
<1>5. \A y \in S : u >= y
  BY <1>3
<1>6. Max(S) \in S /\ \A y \in S : Max(S) >= y
  BY <1>4, <1>5, Zenon DEF Max
<1> QED
  BY <1>3, <1>6

\* r is the list with v behind the first k.
PutAt(r, X, list, k, v) ==
  /\ r \in Seq(X) /\ Len(r) = Len(list) + 1
  /\ \A i \in 1 .. k : r[i] = list[i]
  /\ r[k + 1] = v
  /\ \A i \in k + 2 .. Len(list) + 1 : r[i] = list[i - 1]

LEMMA InsertAtIs ==
  ASSUME NEW X, NEW list \in Seq(X), NEW v \in X, NEW k \in 0 .. Len(list)
  PROVE  PutAt(InsertAt(list, k + 1, v), X, list, k, v)
<1> DEFINE L == Len(list)
           front == SubSeq(list, 1, k)
           back == SubSeq(list, k + 1, L)
           left == front \o <<v>>
           r == InsertAt(list, k + 1, v)
<1>1. L \in Nat /\ k \in Nat /\ k <= L /\ DOMAIN list = 1 .. L
  OBVIOUS
<1>2. \A i \in 1 .. L : list[i] \in X
  BY ElementOfSeq
<1>3. (\A i \in 1 .. k : list[i] \in X) /\ (\A i \in k + 1 .. L : list[i] \in X)
  BY <1>1, <1>2
<1>4. front \in Seq(X) /\ Len(front) = k /\ \A i \in 1 .. k : front[i] = list[i]
  <2>1. /\ front \in Seq(X) /\ Len(front) = (IF 1 <= k THEN k - 1 + 1 ELSE 0)
        /\ \A i \in 1 .. k - 1 + 1 : front[i] = list[1 + i - 1]
    BY <1>1, <1>3, SubSeqProperties
  <2> HIDE DEF front, L
  <2> QED
    BY <1>1, <2>1
<1>5. back \in Seq(X) /\ Len(back) = L - k /\ \A i \in 1 .. L - k : back[i] = list[k + i]
  <2>1. /\ back \in Seq(X) /\ Len(back) = (IF k + 1 <= L THEN L - (k + 1) + 1 ELSE 0)
        /\ \A i \in 1 .. L - (k + 1) + 1 : back[i] = list[(k + 1) + i - 1]
    BY <1>1, <1>3, SubSeqProperties
  <2> HIDE DEF back, L
  <2> QED
    BY <1>1, <2>1
<1>6. r = left \o back
  <2>1. (k + 1) - 1 = k
    BY <1>1
  <2>2. r = (SubSeq(list, 1, (k + 1) - 1) \o <<v>>) \o back
    BY Zenon DEF InsertAt
  <2> QED
    BY <2>1, <2>2, Zenon
<1> HIDE DEF front, back, L, r
<1>7. <<v>> \in Seq(X) /\ Len(<<v>>) = 1 /\ <<v>>[1] = v
  OBVIOUS
<1>8. /\ left \in Seq(X) /\ Len(left) = k + 1
      /\ \A i \in 1 .. k + 1 : left[i] = IF i <= k THEN list[i] ELSE v
  <2>1. /\ left \in Seq(X) /\ Len(left) = Len(front) + Len(<<v>>)
        /\ \A i \in 1 .. Len(front) + Len(<<v>>) :
             left[i] = IF i <= Len(front) THEN front[i] ELSE <<v>>[i - Len(front)]
    BY <1>4, <1>7, ConcatProperties
  <2> HIDE DEF left
  <2>2. \A i \in 1 .. k + 1 : ~ (i <= k) => i - k = 1
    BY <1>1
  <2> QED
    BY <1>1, <1>4, <1>7, <2>1, <2>2
<1> HIDE DEF left
<1>9. /\ r \in Seq(X) /\ Len(r) = (k + 1) + (L - k)
      /\ \A i \in 1 .. (k + 1) + (L - k) : r[i] = IF i <= k + 1 THEN left[i] ELSE back[i - (k + 1)]
  <2>1. /\ r \in Seq(X) /\ Len(r) = Len(left) + Len(back)
        /\ \A i \in 1 .. Len(left) + Len(back) :
             r[i] = IF i <= Len(left) THEN left[i] ELSE back[i - Len(left)]
    BY <1>5, <1>6, <1>8, ConcatProperties
  <2> QED
    BY <1>5, <1>8, <2>1
<1>10. Len(r) = L + 1 /\ (k + 1) + (L - k) = L + 1
  BY <1>1, <1>9
<1>11. \A i \in 1 .. k : r[i] = list[i]
  BY <1>1, <1>8, <1>9, <1>10
<1>12. r[k + 1] = v
  BY <1>1, <1>8, <1>9, <1>10
<1>13. ASSUME NEW i \in k + 2 .. L + 1
       PROVE  r[i] = list[i - 1]
  <2>1. i - (k + 1) \in 1 .. L - k /\ i \in 1 .. L + 1 /\ ~ (i <= k + 1) /\ k + (i - (k + 1)) = i - 1
    BY <1>1
  <2>2. r[i] = back[i - (k + 1)]
    BY <1>9, <1>10, <2>1
  <2>3. back[i - (k + 1)] = list[k + (i - (k + 1))]
    BY <1>5, <2>1
  <2> QED
    BY <2>1, <2>2, <2>3
<1> QED
  BY <1>9, <1>10, <1>11, <1>12, <1>13 DEF r, L, PutAt

\* r is the list without its element k.
TakenFrom(r, X, list, k) ==
  /\ r \in Seq(X) /\ Len(r) = Len(list) - 1
  /\ \A i \in 1 .. Len(list) - 1 : r[i] = IF i < k THEN list[i] ELSE list[i + 1]

LEMMA RemoveAtIs ==
  ASSUME NEW X, NEW list \in Seq(X), NEW k \in 1 .. Len(list)
  PROVE  TakenFrom(RemoveAt(list, k), X, list, k)
<1> DEFINE L == Len(list)
           front == SubSeq(list, 1, k - 1)
           back == SubSeq(list, k + 1, L)
           r == RemoveAt(list, k)
<1>1. L \in Nat /\ k \in Nat /\ 1 <= k /\ k <= L /\ DOMAIN list = 1 .. L
  OBVIOUS
<1>2. \A i \in 1 .. L : list[i] \in X
  BY ElementOfSeq
<1>3. (\A i \in 1 .. k - 1 : list[i] \in X) /\ (\A i \in k + 1 .. L : list[i] \in X)
  BY <1>1, <1>2
<1>4. front \in Seq(X) /\ Len(front) = k - 1 /\ \A i \in 1 .. k - 1 : front[i] = list[i]
  <2>1. /\ front \in Seq(X) /\ Len(front) = (IF 1 <= k - 1 THEN (k - 1) - 1 + 1 ELSE 0)
        /\ \A i \in 1 .. (k - 1) - 1 + 1 : front[i] = list[1 + i - 1]
    BY <1>1, <1>3, SubSeqProperties
  <2> HIDE DEF front, L
  <2> QED
    BY <1>1, <2>1
<1>5. back \in Seq(X) /\ Len(back) = L - k /\ \A i \in 1 .. L - k : back[i] = list[k + i]
  <2>1. /\ back \in Seq(X) /\ Len(back) = (IF k + 1 <= L THEN L - (k + 1) + 1 ELSE 0)
        /\ \A i \in 1 .. L - (k + 1) + 1 : back[i] = list[(k + 1) + i - 1]
    BY <1>1, <1>3, SubSeqProperties
  <2> HIDE DEF back, L
  <2> QED
    BY <1>1, <2>1
<1>6. r = front \o back
  BY Zenon DEF RemoveAt
<1> HIDE DEF front, back, L, r
<1>7. /\ r \in Seq(X) /\ Len(r) = (k - 1) + (L - k)
      /\ \A i \in 1 .. (k - 1) + (L - k) : r[i] = IF i <= k - 1 THEN front[i] ELSE back[i - (k - 1)]
  BY <1>4, <1>5, <1>6, ConcatProperties
<1>8. ASSUME NEW i \in 1 .. L - 1
      PROVE  r[i] = IF i < k THEN list[i] ELSE list[i + 1]
  <2>1. CASE i < k
    BY <1>1, <1>4, <1>7, <2>1
  <2>2. CASE ~ (i < k)
    <3>1. i - (k - 1) \in 1 .. L - k /\ i \in 1 .. (k - 1) + (L - k) /\ ~ (i <= k - 1) /\ k + (i - (k - 1)) = i + 1
      BY <1>1, <2>2
    <3>2. r[i] = back[i - (k - 1)]
      BY <1>7, <3>1
    <3>3. back[i - (k - 1)] = list[k + (i - (k - 1))]
      BY <1>5, <3>1
    <3> QED
      BY <2>2, <3>1, <3>2, <3>3
  <2> QED
    BY <2>1, <2>2
<1> QED
  BY <1>1, <1>7, <1>8 DEF r, L, TakenFrom

\* Q holds what a loop of L rounds over X has after each round, from a and with f for its body.
Rounds(Q, L, X, a, f) ==
  Q \in [0 .. L -> X] /\ \A n \in 0 .. L : Q[n] = IF n = 0 THEN a ELSE f[<<Q[n - 1], n>>]

\* A loop, as the modules define it by a recursive function, has a result.
LEMMA LoopExists ==
  ASSUME NEW L \in Nat, NEW X, NEW a \in X, NEW f \in [X \X (1 .. L) -> X]
  PROVE  \E Q : Rounds(Q, L, X, a, f)
<1> DEFINE Right(Q, m) == \A n \in 0 .. m : Q[n] = IF n = 0 THEN a ELSE f[<<Q[n - 1], n>>]
           N == {m \in Nat : m <= L => \E Q \in [0 .. m -> X] : Right(Q, m)}
<1>1. 0 \in N
  <2> DEFINE Q == [n \in 0 .. 0 |-> a]
  <2>1. \A n \in 0 .. 0 : n = 0
    OBVIOUS
  <2>2. Q \in [0 .. 0 -> X] /\ Right(Q, 0)
    BY <2>1
  <2> QED
    BY <2>2
<1>2. ASSUME NEW m \in Nat, m \in N
      PROVE  m + 1 \in N
  <2> SUFFICES ASSUME m + 1 <= L
               PROVE  \E Q \in [0 .. m + 1 -> X] : Right(Q, m + 1)
    OBVIOUS
  <2>1. PICK P \in [0 .. m -> X] : Right(P, m)
    BY <1>2
  <2> DEFINE z == f[<<P[m], m + 1>>]
             Q == [n \in 0 .. m + 1 |-> IF n = m + 1 THEN z ELSE P[n]]
  <2>2. z \in X
    BY <2>1
  <2> HIDE DEF z
  <2>3. Q \in [0 .. m + 1 -> X]
    BY <2>1, <2>2
  <2>4. ASSUME NEW n \in 0 .. m + 1
        PROVE  Q[n] = IF n = 0 THEN a ELSE f[<<Q[n - 1], n>>]
    <3>1. CASE n = m + 1
      <4>1. n # 0 /\ n - 1 = m /\ m \in 0 .. m + 1 /\ m # m + 1
        BY <3>1
      <4>2. Q[n - 1] = P[m]
        BY <4>1
      <4> QED
        BY <3>1, <4>1, <4>2 DEF z
    <3>2. CASE n # m + 1
      <4>1. n \in 0 .. m /\ (n # 0 => n - 1 \in 0 .. m + 1 /\ n - 1 # m + 1)
        BY <3>2
      <4>2. Q[n] = P[n] /\ (n # 0 => Q[n - 1] = P[n - 1])
        BY <3>2, <4>1
      <4>3. P[n] = IF n = 0 THEN a ELSE f[<<P[n - 1], n>>]
        BY <2>1, <4>1
      <4> HIDE DEF Q
      <4> QED
        BY <4>2, <4>3
    <3> QED
      BY <3>1, <3>2
  <2> HIDE DEF Q
  <2> QED
    BY <2>3, <2>4
<1> HIDE DEF N
<1>3. L \in N
  BY <1>1, <1>2, NatSets
<1> QED
  BY <1>3 DEF N, Rounds

----------------------------------------------------------------------------
(***************************************************************************)
(* The sizes of sets.                                                      *)
(***************************************************************************)
\* A set has the size of another one if its elements are those of the other, one each.
LEMMA SameSize ==
  ASSUME NEW S, IsFiniteSet(S), NEW T, NEW f \in [S -> T],
         \A x, y \in S : f[x] = f[y] => x = y, \A t \in T : \E x \in S : f[x] = t
  PROVE  IsFiniteSet(T) /\ Cardinality(T) = Cardinality(S)
<1>1. f \in Bijection(S, T)
  BY DEF Bijection, Injection, Surjection, IsInjective
<1>2. ExistsBijection(S, T)
  BY <1>1 DEF ExistsBijection
<1> QED
  BY <1>2, FS_Bijection

\* The sizes of disjoint sets are added.
LEMMA DisjointSize ==
  ASSUME NEW S, IsFiniteSet(S), NEW T, IsFiniteSet(T), S \cap T = {}
  PROVE  IsFiniteSet(S \cup T) /\ Cardinality(S \cup T) = Cardinality(S) + Cardinality(T)
<1>1. IsFiniteSet(S \cup T) /\ Cardinality(S \cup T) = Cardinality(S) + Cardinality(T) - Cardinality(S \cap T)
  BY FS_Union
<1>2. Cardinality(S \cap T) = 0 /\ Cardinality(S) \in Nat /\ Cardinality(T) \in Nat
  BY FS_EmptySet, FS_CardinalityType
<1> QED
  BY <1>1, <1>2

\* A family of finite sets, over a finite set, has a finite union.
LEMMA FamilyFinite ==
  ASSUME NEW S, IsFiniteSet(S), NEW f, DOMAIN f = S, \A x \in S : IsFiniteSet(f[x])
  PROVE  IsFiniteSet(UNION {f[x] : x \in S})
<1> DEFINE T == {f[x] : x \in S}
           g == [x \in S |-> f[x]]
<1>1. g \in Surjection(S, T)
  BY DEF Surjection
<1>2. IsFiniteSet(T)
  BY <1>1, FS_Surjection
<1> QED
  BY <1>2, FS_UNION

----------------------------------------------------------------------------
(***************************************************************************)
(* The closure of a set, which the modules define by a recursive function. *)
(***************************************************************************)
Closed(next, S) == \A d \in S : next[d] \subseteq S

\* The equation of that function.
Grows(D, next, G) ==
  G = [S \in SUBSET D |-> LET more == (UNION {next[d] : d \in S}) \ S
                          IN  IF more = {} THEN S ELSE G[S \cup more]]

\* It has a solution: the intersection of the closed sets.
LEMMA GrowsExists ==
  ASSUME NEW D, NEW next \in [D -> SUBSET D]
  PROVE  \E G : Grows(D, next, G)
<1> DEFINE More(S) == (UNION {next[d] : d \in S}) \ S
           Body(G) == [S \in SUBSET D |-> IF More(S) = {} THEN S ELSE G[S \cup More(S)]]
           Meet(S) == {x \in D : \A T \in SUBSET D : S \subseteq T /\ Closed(next, T) => x \in T}
           M == [S \in SUBSET D |-> Meet(S)]
<1>1. ASSUME NEW S \in SUBSET D
      PROVE  M[S] = IF More(S) = {} THEN S ELSE M[S \cup More(S)]
  <2>1. More(S) \in SUBSET D
    OBVIOUS
  <2>2. CASE More(S) = {}
    <3>1. Closed(next, S)
      BY <2>2 DEF Closed
    <3> QED
      BY <2>2, <3>1
  <2>3. CASE More(S) # {}
    <3>1. \A T \in SUBSET D : Closed(next, T) => (S \subseteq T <=> S \cup More(S) \subseteq T)
      BY DEF Closed
    <3>2. Meet(S) = Meet(S \cup More(S))
      BY <3>1
    <3> QED
      BY <2>1, <2>3, <3>2
  <2> QED
    BY <2>2, <2>3
<1>2. M = Body(M)
  BY <1>1
<1> QED
  BY <1>2 DEF Grows

\* The closure is closed, and the least one: the sets for which this fails
\* would have a largest one, from which it goes on to a larger one.
LEMMA GrowsIs ==
  ASSUME NEW D, IsFiniteSet(D), NEW next \in [D -> SUBSET D], NEW From \in SUBSET D,
         NEW G, Grows(D, next, G)
  PROVE  /\ G[From] \in SUBSET D
         /\ From \subseteq G[From]
         /\ Closed(next, G[From])
         /\ \A T \in SUBSET D : From \subseteq T /\ Closed(next, T) => G[From] \subseteq T
<1> DEFINE More(S) == (UNION {next[d] : d \in S}) \ S
<1>a. G = [S \in SUBSET D |-> IF More(S) = {} THEN S ELSE G[S \cup More(S)]]
  BY DEF Grows
<1> DEFINE Right(S) ==
             /\ G[S] \in SUBSET D
             /\ S \subseteq G[S]
             /\ Closed(next, G[S])
             /\ \A T \in SUBSET D : S \subseteq T /\ Closed(next, T) => G[S] \subseteq T
           Wrong == {R \in SUBSET D : ~ Right(D \ R)}
<1>2. Wrong = {}
  <2>1. SUFFICES ASSUME Wrong # {}
                 PROVE  FALSE
    OBVIOUS
  <2>2. IsWellFoundedOn(StrictSubsetOrdering(D), SUBSET D)
    BY FS_StrictSubsetOrderingWellFounded, FS_FiniteSubsetsOfFinite
  <2>3. Wrong \subseteq SUBSET D
    OBVIOUS
  <2> HIDE DEF Wrong
  <2>4. PICK R \in Wrong : \A Q \in Wrong : ~ (<<Q, R>> \in StrictSubsetOrdering(D))
    BY <2>1, <2>2, <2>3, WFMin
  <2> DEFINE S == D \ R
  <2>5. S \in SUBSET D /\ R = D \ S /\ ~ Right(S)
    BY <2>3 DEF Wrong
  <2>6. G[S] = IF More(S) = {} THEN S ELSE G[S \cup More(S)]
    BY <1>a
  <2>7. More(S) # {}
    <3>1. SUFFICES ASSUME More(S) = {}
                   PROVE  FALSE
      OBVIOUS
    <3>2. Closed(next, S)
      BY <3>1 DEF Closed
    <3> QED
      BY <2>5, <2>6, <3>1, <3>2
  <2> DEFINE U == S \cup More(S)
  <2>8. U \in SUBSET D /\ S \subseteq U /\ U # S
    BY <2>7
  <2>9. Right(U)
    <3>1. <<D \ U, R>> \in StrictSubsetOrdering(D)
      BY <2>5, <2>8 DEF StrictSubsetOrdering
    <3>2. D \ U \notin Wrong
      BY <2>4, <3>1
    <3>3. D \ (D \ U) = U
      BY <2>8
    <3> HIDE DEF U, Right
    <3> QED
      BY <3>2, <3>3 DEF Wrong
  <2>10. \A T \in SUBSET D : S \subseteq T /\ Closed(next, T) => U \subseteq T
    BY DEF Closed
  <2>11. G[S] = G[U]
    BY <2>6, <2>7
  <2> HIDE DEF U, S
  <2> QED
    BY <2>5, <2>8, <2>9, <2>10, <2>11
<1>3. Right(From)
  <2>1. D \ (D \ From) = From
    OBVIOUS
  <2>2. D \ From \notin Wrong
    BY <1>2
  <2> HIDE DEF Right
  <2> QED
    BY <2>1, <2>2
<1> QED
  BY <1>3

\* G is the recursive function with which FoldLeft is defined, for a sequence of length L.
FoldedLeft(G, L, a, f) ==
  G = [S \in SUBSET (1 .. L) |-> IF S = {} THEN a ELSE f[<<G[S \ {Max(S)}], Max(S)>>]]

LEMMA PrefixMax ==
  ASSUME NEW n \in Nat \ {0}
  PROVE  1 .. n # {} /\ Max(1 .. n) = n /\ (1 .. n) \ {Max(1 .. n)} = 1 .. n - 1
<1>1. 1 .. n \in SUBSET (0 .. n) /\ n \in 1 .. n
  OBVIOUS
<1>2. Max(1 .. n) \in 1 .. n /\ \A x \in 1 .. n : x <= Max(1 .. n)
  BY <1>1, GreatestIs
<1>3. Max(1 .. n) = n
  BY <1>1, <1>2
<1> QED
  BY <1>1, <1>3

\* There is such a function: the loop that passes over what is not in the set.
LEMMA FoldExists ==
  ASSUME NEW L \in Nat, NEW X, NEW a \in X, NEW f \in [X \X (1 .. L) -> X]
  PROVE  \E G \in [SUBSET (1 .. L) -> X] : FoldedLeft(G, L, a, f)
<1> DEFINE Skip(S) == [c \in X \X (1 .. L) |-> IF c[2] \in S THEN f[c] ELSE c[1]]
           Q(S) == CHOOSE R : Rounds(R, L, X, a, Skip(S))
           G == [S \in SUBSET (1 .. L) |-> Q(S)[L]]
<1>1. ASSUME NEW S \in SUBSET (1 .. L)
      PROVE  /\ Q(S) \in [0 .. L -> X]
             /\ Q(S)[0] = a
             /\ \A n \in 1 .. L : Q(S)[n] = IF n \in S THEN f[<<Q(S)[n - 1], n>>] ELSE Q(S)[n - 1]
  <2>1. Skip(S) \in [X \X (1 .. L) -> X]
    OBVIOUS
  <2> HIDE DEF Skip
  <2>2. \E R : Rounds(R, L, X, a, Skip(S))
    BY <2>1, LoopExists
  <2> DEFINE R == Q(S)
  <2>3. Rounds(R, L, X, a, Skip(S))
    BY <2>2
  <2> HIDE DEF Q, R
  <2>4. R \in [0 .. L -> X] /\ \A n \in 0 .. L : R[n] = IF n = 0 THEN a ELSE Skip(S)[<<R[n - 1], n>>]
    BY <2>3 DEF Rounds
  <2>5. ASSUME NEW n \in 1 .. L
        PROVE  R[n] = IF n \in S THEN f[<<R[n - 1], n>>] ELSE R[n - 1]
    <3>1. n \in 0 .. L /\ n # 0 /\ n - 1 \in 0 .. L
      OBVIOUS
    <3>2. R[n] = Skip(S)[<<R[n - 1], n>>] /\ R[n - 1] \in X
      BY <2>4, <3>1
    <3> DEFINE c == <<R[n - 1], n>>
    <3>3. c \in X \X (1 .. L) /\ c[1] = R[n - 1] /\ c[2] = n
      BY <3>2
    <3> HIDE DEF c
    <3>4. Skip(S)[c] = IF c[2] \in S THEN f[c] ELSE c[1]
      BY <3>3 DEF Skip
    <3>5. R[n] = Skip(S)[c]
      BY <3>2 DEF c
    <3>6. R[n] = IF n \in S THEN f[c] ELSE R[n - 1]
      BY <3>3, <3>4, <3>5
    <3> QED
      BY <3>6, Zenon DEF c
  <2>6. R[0] = a
    <3>1. 0 \in 0 .. L
      OBVIOUS
    <3> QED
      BY <2>4, <3>1, Zenon
  <2> QED
    BY <2>4, <2>5, <2>6 DEF R
<1> HIDE DEF Q, Skip
\* What comes later in the set makes no difference.
<1>2. ASSUME NEW S \in SUBSET (1 .. L), NEW T \in SUBSET (1 .. L), NEW m \in 0 .. L,
             \A i \in 1 .. m : i \in S <=> i \in T
      PROVE  Q(S)[m] = Q(T)[m]
  <2> DEFINE N == {n \in Nat : n <= m => Q(S)[n] = Q(T)[n]}
  <2>1. 0 \in N
    BY <1>1
  <2>2. ASSUME NEW n \in Nat, n \in N
        PROVE  n + 1 \in N
    <3> SUFFICES ASSUME n + 1 <= m
                 PROVE  Q(S)[n + 1] = Q(T)[n + 1]
      OBVIOUS
    <3> DEFINE k == n + 1
    <3>1. k \in 1 .. L /\ k - 1 = n /\ k \in 1 .. m /\ Q(S)[n] = Q(T)[n]
      BY <2>2
    <3> HIDE DEF k
    <3>2. Q(S)[k] = IF k \in S THEN f[<<Q(S)[n], k>>] ELSE Q(S)[n]
      BY <1>1, <3>1
    <3>3. Q(T)[k] = IF k \in T THEN f[<<Q(T)[n], k>>] ELSE Q(T)[n]
      BY <1>1, <3>1
    <3>4. Q(S)[k] = Q(T)[k]
      BY <1>2, <3>1, <3>2, <3>3
    <3> QED
      BY <3>4 DEF k
  <2> HIDE DEF N
  <2>3. m \in N
    BY <2>1, <2>2, NatSets
  <2> QED
    BY <2>3 DEF N
\* After the last of the set, nothing changes.
<1>3. ASSUME NEW S \in SUBSET (1 .. L), NEW m \in 0 .. L, \A i \in S : i <= m
      PROVE  Q(S)[L] = Q(S)[m]
  <2> DEFINE N == {n \in Nat : m <= n /\ n <= L => Q(S)[n] = Q(S)[m]}
  <2>1. 0 \in N
    BY <1>1
  <2>2. ASSUME NEW n \in Nat, n \in N
        PROVE  n + 1 \in N
    <3> SUFFICES ASSUME m <= n + 1, n + 1 <= L
                 PROVE  Q(S)[n + 1] = Q(S)[m]
      OBVIOUS
    <3>1. CASE m = n + 1
      BY <3>1
    <3>2. CASE m # n + 1
      <4>1. n + 1 \in 1 .. L /\ (n + 1) - 1 = n /\ m <= n /\ n <= L /\ n + 1 \notin S
        BY <1>3, <3>2
      <4>2. Q(S)[n] = Q(S)[m]
        BY <2>2, <4>1
      <4> DEFINE k == n + 1
      <4>3. k \in 1 .. L /\ k - 1 = n /\ k \notin S
        BY <4>1
      <4> HIDE DEF k
      <4>4. Q(S)[k] = Q(S)[n]
        BY <1>1, <4>3
      <4> QED
        BY <4>2, <4>4 DEF k
    <3> QED
      BY <3>1, <3>2
  <2> HIDE DEF N
  <2>3. L \in N
    BY <2>1, <2>2, NatSets
  <2> QED
    BY <2>3 DEF N
<1>4. ASSUME NEW S \in SUBSET (1 .. L)
      PROVE  G[S] = IF S = {} THEN a ELSE f[<<G[S \ {Max(S)}], Max(S)>>]
  <2>1. CASE S = {}
    <3>1. Q(S)[L] = Q(S)[0]
      BY <1>3, <2>1
    <3> QED
      BY <1>1, <2>1, <3>1
  <2>2. CASE S # {}
    <3> DEFINE m == Max(S)
               T == S \ {m}
    <3>1. m \in S /\ \A i \in S : i <= m
      <4>1. S \in SUBSET (0 .. L)
        OBVIOUS
      <4> QED
        BY <2>2, <4>1, GreatestIs
    <3> HIDE DEF m
    <3>2. m \in 1 .. L /\ m \in 0 .. L /\ m - 1 \in 0 .. L
      BY <3>1
    <3>3. T \in SUBSET (1 .. L) /\ \A i \in T : i <= m - 1
      BY <3>1, <3>2
    <3>4. \A i \in 1 .. m - 1 : i \in S <=> i \in T
      BY <3>2
    <3> HIDE DEF T
    <3>5. Q(S)[L] = Q(S)[m]
      BY <1>3, <3>1, <3>2
    <3>6. Q(S)[m] = f[<<Q(S)[m - 1], m>>]
      BY <1>1, <3>1, <3>2
    <3>7. Q(S)[m - 1] = Q(T)[m - 1]
      BY <1>2, <3>2, <3>3, <3>4
    <3>8. Q(T)[L] = Q(T)[m - 1]
      BY <1>3, <3>2, <3>3
    <3>9. G[S] = f[<<G[T], m>>]
      BY <3>3, <3>5, <3>6, <3>7, <3>8
    <3> QED
      BY <2>2, <3>9 DEF T, m
  <2> QED
    BY <2>1, <2>2
<1>5. G \in [SUBSET (1 .. L) -> X]
  BY <1>1
<1> QED
  <2>1. G = [S \in SUBSET (1 .. L) |-> IF S = {} THEN a ELSE f[<<G[S \ {Max(S)}], Max(S)>>]]
    <3> DEFINE H == [S \in SUBSET (1 .. L) |-> IF S = {} THEN a ELSE f[<<G[S \ {Max(S)}], Max(S)>>]]
    <3>1. \A S \in SUBSET (1 .. L) : G[S] = H[S]
      <4> HIDE DEF G
      <4> QED
        BY <1>4
    <3>2. DOMAIN G = DOMAIN H
      OBVIOUS
    <3> HIDE DEF H
    <3>3. G = H
      <4>1. DOMAIN G = SUBSET (1 .. L) /\ G = [S \in SUBSET (1 .. L) |-> G[S]]
        OBVIOUS
      <4>2. DOMAIN H = SUBSET (1 .. L) /\ H = [S \in SUBSET (1 .. L) |-> H[S]]
        BY DEF H
      <4> HIDE DEF G
      <4> QED
        BY <3>1, <4>1, <4>2
    <3> QED
      BY <3>3 DEF H
  <2> HIDE DEF G
  <2> QED
    BY <1>5, <2>1 DEF FoldedLeft
=============================================================================
