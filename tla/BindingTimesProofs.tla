------------------------- MODULE BindingTimesProofs -------------------------
(***************************************************************************)
(* Proofs about the solution of binding-time constraints, for all types,   *)
(* recursive ones included, and all sets of requests in any order: what    *)
(* is dynamic in the end is what has to be; and all the time each dynamic  *)
(* variable is explained, by causes whose reference counts are exact.      *)
(*                                                                         *)
(* The argument.  Unify makes fewer arrows than the requests ask for: none *)
(* when the types are in one class of the union-find structure.  This is   *)
(* no loss, as the variables of a class stand or fall together (for every  *)
(* set of variables that the arrows do not lead out of), and the components*)
(* of two types of a class will be in one class as well when the calls in  *)
(* progress are done: they are equal in every equivalence that includes    *)
(* the classes and those calls.  The counts are right as each round of the *)
(* flood takes as many uses of a cause from the list of a variable as it   *)
(* gives to explanations or gives up: the entries of the list that explain *)
(* something correspond one to one to the new reasons.                     *)
(***************************************************************************)
EXTENDS BindingTimes, SequenceLemmas

----------------------------------------------------------------------------
(***************************************************************************)
(* The least closed set.                                                   *)
(***************************************************************************)
LEMMA LeastIs ==
  ASSUME NEW D, IsFiniteSet(D), NEW next \in [D -> SUBSET D], NEW From \in SUBSET D
  PROVE  /\ Least(D, next, From) \in SUBSET D
         /\ From \subseteq Least(D, next, From)
         /\ Closed(next, Least(D, next, From))
         /\ \A T \in SUBSET D : From \subseteq T /\ Closed(next, T) => Least(D, next, From) \subseteq T
<1> DEFINE More(S) == (UNION {next[d] : d \in S}) \ S
           Body(G) == [S \in SUBSET D |-> IF More(S) = {} THEN S ELSE G[S \cup More(S)]]
<1>1. PICK H : Grows(D, next, H)
  BY GrowsExists
<1>2. H = Body(H)
  BY <1>1 DEF Grows
<1> DEFINE G == CHOOSE G : G = Body(G)
<1>3. G = Body(G)
  BY <1>2
<1>4. Grows(D, next, G) /\ Least(D, next, From) = G[From]
  BY <1>3 DEF Grows, Least
<1> HIDE DEF G
<1>5. /\ G[From] \in SUBSET D /\ From \subseteq G[From] /\ Closed(next, G[From])
      /\ \A T \in SUBSET D : From \subseteq T /\ Closed(next, T) => G[From] \subseteq T
  BY <1>4, GrowsIs, Zenon
<1> QED
  BY <1>4, <1>5, Zenon

----------------------------------------------------------------------------
(***************************************************************************)
(* Union-find.  It has no cycles: there is a rank that falls on the way to *)
(* the representative.                                                     *)
(***************************************************************************)
Ranked(uf, rank) ==
  /\ uf \in [Types -> Types] /\ rank \in [Types -> Nat]
  /\ \A t \in Types : uf[t] # t => rank[uf[t]] < rank[t]

Forest(uf) == \E rank : Ranked(uf, rank)

\* Induction along the way up.
LEMMA UpSets ==
  ASSUME NEW uf, Forest(uf), NEW Q,
         \A t \in Types : uf[t] = t \/ uf[t] \in Q => t \in Q
  PROVE  Types \subseteq Q
<1>1. PICK rank : Ranked(uf, rank)
  BY DEF Forest
<1>2. uf \in [Types -> Types] /\ rank \in [Types -> Nat] /\ \A t \in Types : uf[t] # t => rank[uf[t]] < rank[t]
  BY <1>1 DEF Ranked
<1> DEFINE R == {n \in Nat : \A t \in Types : rank[t] < n => t \in Q}
<1>3. 0 \in R
  BY <1>2
<1>4. ASSUME NEW n \in Nat, n \in R
      PROVE  n + 1 \in R
  <2>1. ASSUME NEW t \in Types, rank[t] < n + 1
        PROVE  t \in Q
    <3>1. uf[t] = t \/ (uf[t] \in Types /\ rank[uf[t]] \in Nat /\ rank[t] \in Nat /\ rank[uf[t]] < rank[t])
      BY <1>2
    <3>2. uf[t] = t \/ uf[t] \in Q
      BY <1>4, <2>1, <3>1
    <3> QED
      BY <3>2
  <2> QED
    BY <2>1
<1> HIDE DEF R
<1>5. Nat \subseteq R
  BY <1>3, <1>4, NatSets
<1>6. ASSUME NEW t \in Types
      PROVE  t \in Q
  <2>1. rank[t] + 1 \in Nat /\ rank[t] < rank[t] + 1
    BY <1>2
  <2> QED
    BY <1>5, <2>1 DEF R
<1> QED
  BY <1>6

Tops(uf, F) == F = [b \in Types |-> IF uf[b] = b THEN b ELSE F[uf[b]]]

Ways(uf, P) == P = [b \in Types |-> IF uf[b] = b THEN {} ELSE {b} \cup P[uf[b]]]

\* The types on the way up from b: they are in all sets that the way does not leave.
Above(uf, b) == {x \in Types : \A T \in SUBSET Types : b \in T /\ (\A y \in T : uf[y] \in T) => x \in T}

LEMMA AboveIs ==
  ASSUME NEW uf \in [Types -> Types], NEW b \in Types
  PROVE  Above(uf, b) = {b} \cup Above(uf, uf[b])
<1> DEFINE T == {b} \cup Above(uf, uf[b])
<1>1. uf[b] \in Above(uf, uf[b])
  BY DEF Above
<1>2. \A y \in Above(uf, uf[b]) : uf[y] \in Above(uf, uf[b])
  BY DEF Above
<1>3. T \in SUBSET Types /\ b \in T /\ \A y \in T : uf[y] \in T
  BY <1>1, <1>2 DEF Above
<1>4. Above(uf, b) \subseteq T
  <2> HIDE DEF T
  <2> QED
    BY <1>3 DEF Above
<1>5. T \subseteq Above(uf, b)
  BY DEF Above
<1> QED
  BY <1>4, <1>5

LEMMA TopsExists ==
  ASSUME NEW uf \in [Types -> Types]
  PROVE  \E F : Tops(uf, F)
<1> DEFINE Roots(b) == {x \in Above(uf, b) : uf[x] = x}
           F == [b \in Types |-> CHOOSE x : x \in Roots(b)]
<1>1. ASSUME NEW b \in Types
      PROVE  F[b] = IF uf[b] = b THEN b ELSE F[uf[b]]
  <2>1. CASE uf[b] = b
    <3>1. {b} \in SUBSET Types /\ \A y \in {b} : uf[y] \in {b}
      BY <2>1
    <3>2. Above(uf, b) = {b}
      BY <3>1 DEF Above
    <3>3. Roots(b) = {b}
      BY <2>1, <3>2
    <3> QED
      BY <2>1, <3>3
  <2>2. CASE uf[b] # b
    <3>1. Roots(b) = Roots(uf[b])
      BY <2>2, AboveIs
    <3> QED
      BY <2>2, <3>1
  <2> QED
    BY <2>1, <2>2
<1>2. F = [b \in Types |-> F[b]]
  OBVIOUS
<1> HIDE DEF F
<1>3. F = [b \in Types |-> IF uf[b] = b THEN b ELSE F[uf[b]]]
  BY <1>1, <1>2
<1> QED
  BY <1>3 DEF Tops

LEMMA WaysExists ==
  ASSUME NEW uf \in [Types -> Types]
  PROVE  \E P : Ways(uf, P)
<1> DEFINE P == [b \in Types |-> {x \in Above(uf, b) : uf[x] # x}]
<1>1. ASSUME NEW b \in Types
      PROVE  P[b] = IF uf[b] = b THEN {} ELSE {b} \cup P[uf[b]]
  <2>1. CASE uf[b] = b
    <3>1. {b} \in SUBSET Types /\ \A y \in {b} : uf[y] \in {b}
      BY <2>1
    <3>2. Above(uf, b) = {b}
      BY <3>1 DEF Above
    <3> QED
      BY <2>1, <3>2
  <2>2. CASE uf[b] # b
    BY <2>2, AboveIs
  <2> QED
    BY <2>1, <2>2
<1>2. P = [b \in Types |-> IF uf[b] = b THEN {} ELSE {b} \cup P[uf[b]]]
  BY <1>1
<1> HIDE DEF P
<1> QED
  BY <1>2 DEF Ways

LEMMA TopsEqual ==
  ASSUME NEW uf, Forest(uf), NEW F, Tops(uf, F), NEW G, Tops(uf, G)
  PROVE  F = G
<1>0. uf \in [Types -> Types]
  BY DEF Forest, Ranked
<1> DEFINE Q == {t \in Types : F[t] = G[t]}
<1>1. F = [b \in Types |-> F[b]] /\ G = [b \in Types |-> G[b]]
  BY DEF Tops
<1>2. \A b \in Types : /\ F[b] = IF uf[b] = b THEN b ELSE F[uf[b]]
                       /\ G[b] = IF uf[b] = b THEN b ELSE G[uf[b]]
  BY DEF Tops
<1>3. \A t \in Types : uf[t] = t \/ uf[t] \in Q => t \in Q
  BY <1>0, <1>2
<1> HIDE DEF Q
<1>4. Types \subseteq Q
  BY <1>3, UpSets
<1>5. \A t \in Types : F[t] = G[t]
  BY <1>4 DEF Q
<1> QED
  BY <1>1, <1>5

\* Find returns the root above a type.
LEMMA RepresentativeIs ==
  ASSUME NEW uf, Forest(uf)
  PROVE  /\ Tops(uf, [t \in Types |-> Representative(uf, t)])
         /\ \A F : Tops(uf, F) => \A t \in Types : Representative(uf, t) = F[t]
         /\ \A t \in Types : /\ Representative(uf, t) \in Types
                             /\ uf[Representative(uf, t)] = Representative(uf, t)
                             /\ uf[t] = t => Representative(uf, t) = t
                             /\ Representative(uf, uf[t]) = Representative(uf, t)
<1>0. uf \in [Types -> Types]
  BY DEF Forest, Ranked
<1> DEFINE Body(F) == [b \in Types |-> IF uf[b] = b THEN b ELSE F[uf[b]]]
           Up == CHOOSE F : F = Body(F)
<1>1. PICK H : Tops(uf, H)
  BY <1>0, TopsExists
<1>2. H = Body(H)
  BY <1>1 DEF Tops
<1>3. Up = Body(Up)
  BY <1>2
<1>4. Tops(uf, Up) /\ \A t : Representative(uf, t) = Up[t]
  BY <1>3 DEF Tops, Representative
<1> HIDE DEF Up
<1>5. Up = [t \in Types |-> Up[t]]
  BY <1>4 DEF Tops
<1>6. Tops(uf, [t \in Types |-> Representative(uf, t)])
  <2>1. [t \in Types |-> Representative(uf, t)] = Up
    BY <1>4, <1>5
  <2> QED
    BY <1>4, <2>1, Zenon
<1>7. \A F : Tops(uf, F) => \A t \in Types : Representative(uf, t) = F[t]
  BY <1>4, TopsEqual
<1>8. \A b \in Types : Up[b] = IF uf[b] = b THEN b ELSE Up[uf[b]]
  BY <1>4 DEF Tops
<1> DEFINE Q == {t \in Types : Up[t] \in Types /\ uf[Up[t]] = Up[t]}
<1>9. \A t \in Types : uf[t] = t \/ uf[t] \in Q => t \in Q
  BY <1>8
<1> HIDE DEF Q
<1>10. Types \subseteq Q
  BY <1>9, UpSets
<1>11. \A t \in Types : Up[t] \in Types /\ uf[Up[t]] = Up[t] /\ (uf[t] = t => Up[t] = t) /\ Up[uf[t]] = Up[t]
  BY <1>8, <1>10 DEF Q
<1> QED
  BY <1>4, <1>6, <1>7, <1>11

Together(uf, a, b) == Representative(uf, a) = Representative(uf, b)

\* Path compression changes no class.
LEMMA CompressedIs ==
  ASSUME NEW uf, Forest(uf), NEW a \in Types
  PROVE  /\ Forest(Compressed(uf, a))
         /\ \A t \in Types : Representative(Compressed(uf, a), t) = Representative(uf, t)
<1> DEFINE Body(P) == [b \in Types |-> IF uf[b] = b THEN {} ELSE {b} \cup P[uf[b]]]
           Path == CHOOSE P : P = Body(P)
           Rep == [t \in Types |-> Representative(uf, t)]
           new == [t \in Types |-> IF t \in Path[a] THEN Rep[a] ELSE uf[t]]
<1>0. PICK rank : Ranked(uf, rank)
  BY DEF Forest
<1>1. uf \in [Types -> Types] /\ rank \in [Types -> Nat] /\ \A t \in Types : uf[t] # t => rank[uf[t]] < rank[t]
  BY <1>0 DEF Ranked
<1>2. PICK H : Ways(uf, H)
  BY <1>1, WaysExists
<1>3. H = Body(H)
  BY <1>2 DEF Ways
<1>4. Path = Body(Path)
  BY <1>3
<1>5. Compressed(uf, a) = new
  BY <1>4 DEF Compressed
<1>6. \A b \in Types : Path[b] = IF uf[b] = b THEN {} ELSE {b} \cup Path[uf[b]]
  BY <1>4
<1> HIDE DEF Path
<1>7. \A t \in Types : /\ Rep[t] \in Types /\ uf[Rep[t]] = Rep[t]
                       /\ uf[t] = t => Rep[t] = t
                       /\ Rep[uf[t]] = Rep[t]
  BY <1>1, RepresentativeIs
<1> HIDE DEF Rep
\* What is on the way has the same representative.
<1> DEFINE Q == {b \in Types : \A t \in Path[b] : t \in Types /\ Rep[t] = Rep[b]}
<1>8. \A t \in Types : uf[t] = t \/ uf[t] \in Q => t \in Q
  <2> SUFFICES ASSUME NEW t \in Types, uf[t] = t \/ uf[t] \in Q
               PROVE  t \in Q
    OBVIOUS
  <2>1. CASE uf[t] = t
    BY <1>6, <2>1
  <2>2. CASE uf[t] # t
    <3>1. Path[t] = {t} \cup Path[uf[t]] /\ Rep[uf[t]] = Rep[t]
      BY <1>6, <1>7, <2>2
    <3>2. \A x \in Path[uf[t]] : x \in Types /\ Rep[x] = Rep[uf[t]]
      BY <2>2
    <3> QED
      BY <3>1, <3>2
  <2> QED
    BY <2>1, <2>2
<1> HIDE DEF Q
<1>9. Types \subseteq Q
  BY <1>8, UpSets
<1>10. \A t \in Path[a] : t \in Types /\ Rep[t] = Rep[a]
  BY <1>9 DEF Q
\* The rank falls on the way to it.
<1> DEFINE L == {t \in Types : Rep[t] = t \/ rank[Rep[t]] < rank[t]}
<1>11. \A t \in Types : uf[t] = t \/ uf[t] \in L => t \in L
  <2> SUFFICES ASSUME NEW t \in Types, uf[t] = t \/ uf[t] \in L, uf[t] # t
               PROVE  t \in L
    BY <1>7
  <2>1. rank[uf[t]] < rank[t] /\ Rep[uf[t]] = Rep[t] /\ uf[t] \in Types
    BY <1>1, <1>7
  <2>2. rank[uf[t]] \in Nat /\ rank[t] \in Nat /\ rank[Rep[t]] \in Nat
    BY <1>1, <1>7, <2>1
  <2>3. Rep[uf[t]] = uf[t] \/ rank[Rep[uf[t]]] < rank[uf[t]]
    OBVIOUS
  <2> QED
    BY <2>1, <2>2, <2>3
<1> HIDE DEF L
<1>12. Types \subseteq L
  BY <1>11, UpSets
<1>13. \A t \in Types : new[t] # t => rank[new[t]] < rank[t]
  BY <1>1, <1>10, <1>12 DEF L
<1>14. new \in [Types -> Types]
  BY <1>1, <1>7
<1>15. Forest(new)
  BY <1>1, <1>13, <1>14 DEF Forest, Ranked
<1>16. Tops(new, Rep)
  <2>1. \A b \in Types : Rep[b] = IF new[b] = b THEN b ELSE Rep[new[b]]
    <3> SUFFICES ASSUME NEW b \in Types
                 PROVE  Rep[b] = IF new[b] = b THEN b ELSE Rep[new[b]]
      OBVIOUS
    <3>1. CASE b \in Path[a]
      BY <1>7, <1>10, <3>1
    <3>2. CASE b \notin Path[a]
      BY <1>7, <3>2
    <3> QED
      BY <3>1, <3>2
  <2>2. Rep = [b \in Types |-> Rep[b]]
    BY DEF Rep
  <2> HIDE DEF new
  <2> QED
    BY <2>1, <2>2 DEF Tops
<1> HIDE DEF new
<1>17. \A t \in Types : Representative(new, t) = Rep[t]
  <2>1. \A G : Tops(new, G) => \A t \in Types : Representative(new, t) = G[t]
    BY <1>15, RepresentativeIs
  <2> QED
    BY <1>16, <2>1
<1> QED
  BY <1>5, <1>15, <1>17 DEF Rep

\* Union makes one class of two.
LEMMA JoinedIs ==
  ASSUME NEW uf, Forest(uf), NEW a \in Types, NEW b \in Types, ~ Together(uf, a, b)
  PROVE  /\ Forest(Joined(uf, a, b))
         /\ \A t \in Types : Representative(Joined(uf, a, b), t)
                               = IF Together(uf, t, a) THEN Representative(uf, b) ELSE Representative(uf, t)
<1> DEFINE Rep == [t \in Types |-> Representative(uf, t)]
           new == [uf EXCEPT ![Rep[a]] = Rep[b]]
           F == [t \in Types |-> IF Rep[t] = Rep[a] THEN Rep[b] ELSE Rep[t]]
<1>0. PICK rank : Ranked(uf, rank)
  BY DEF Forest
<1>1. uf \in [Types -> Types] /\ rank \in [Types -> Nat] /\ \A t \in Types : uf[t] # t => rank[uf[t]] < rank[t]
  BY <1>0 DEF Ranked
<1>2. Joined(uf, a, b) = new /\ Rep[a] # Rep[b]
  BY DEF Joined, Together
<1>3. \A t \in Types : /\ Rep[t] \in Types /\ uf[Rep[t]] = Rep[t]
                       /\ uf[t] = t => Rep[t] = t
                       /\ Rep[uf[t]] = Rep[t]
  BY <1>1, RepresentativeIs
<1>4. \A t \in Types : Representative(uf, t) = Rep[t]
  OBVIOUS
<1> HIDE DEF Rep
<1> DEFINE rank2 == [t \in Types |-> IF Rep[t] = Rep[a] THEN rank[t] + rank[Rep[b]] + 1 ELSE rank[t]]
<1>5. new \in [Types -> Types] /\ rank2 \in [Types -> Nat]
  BY <1>1, <1>3
<1>6. ASSUME NEW t \in Types, new[t] # t
      PROVE  rank2[new[t]] < rank2[t]
  <2>1. CASE t = Rep[a]
    <3>1. new[t] = Rep[b] /\ Rep[t] = Rep[a] /\ Rep[Rep[b]] = Rep[b]
      BY <1>1, <1>3, <2>1
    <3>2. rank2[Rep[b]] = rank[Rep[b]] /\ rank2[t] = rank[t] + rank[Rep[b]] + 1
      BY <1>2, <1>3, <3>1
    <3> QED
      BY <1>1, <1>3, <3>1, <3>2
  <2>2. CASE t # Rep[a]
    <3>1. new[t] = uf[t] /\ Rep[uf[t]] = Rep[t] /\ rank[uf[t]] < rank[t] /\ uf[t] \in Types
      BY <1>1, <1>3, <1>6, <2>2
    <3>2. rank[uf[t]] \in Nat /\ rank[t] \in Nat /\ rank[Rep[b]] \in Nat
      BY <1>1, <1>3, <3>1
    <3> QED
      BY <3>1, <3>2
  <2> QED
    BY <2>1, <2>2
<1>7. Forest(new)
  BY <1>5, <1>6 DEF Forest, Ranked
<1>8. Tops(new, F)
  <2>1. ASSUME NEW t \in Types
        PROVE  F[t] = IF new[t] = t THEN t ELSE F[new[t]]
    <3>1. CASE t = Rep[a]
      <4>1. new[t] = Rep[b] /\ Rep[t] = Rep[a] /\ Rep[Rep[b]] = Rep[b]
        BY <1>1, <1>3, <3>1
      <4> QED
        BY <1>2, <1>3, <3>1, <4>1
    <3>2. CASE t # Rep[a]
      <4>1. new[t] = uf[t] /\ Rep[uf[t]] = Rep[t] /\ uf[t] \in Types
        BY <1>1, <1>3, <3>2
      <4> QED
        BY <1>3, <3>2, <4>1
    <3> QED
      BY <3>1, <3>2
  <2>2. F = [t \in Types |-> F[t]]
    OBVIOUS
  <2> HIDE DEF F, new
  <2> QED
    BY <2>1, <2>2 DEF Tops
<1> HIDE DEF new
<1>9. \A t \in Types : Representative(new, t) = F[t]
  <2>1. \A G : Tops(new, G) => \A t \in Types : Representative(new, t) = G[t]
    BY <1>7, RepresentativeIs
  <2> HIDE DEF F
  <2> QED
    BY <1>8, <2>1
<1> QED
  BY <1>2, <1>4, <1>7, <1>9 DEF Together
----------------------------------------------------------------------------
(***************************************************************************)
(* What is asked for.                                                      *)
(***************************************************************************)
EqualPairs(P) == {<<r.s, r.t>> : r \in {q \in P : q.op = "equal"}}

LEMMA EqualTypesGrow ==
  ASSUME NEW P \in SUBSET Requests
  PROVE  /\ EqualTypes(P) \in SUBSET (Types \X Types)
         /\ EqualPairs(P) \subseteq EqualTypes(P)
         /\ \A a, b \in Types : <<a, b>> \in EqualTypes(P) =>
              \A k \in DOMAIN SubTypes[a] \cap DOMAIN SubTypes[b] : <<SubTypes[a][k], SubTypes[b][k]>> \in EqualTypes(P)
         /\ \A R \in SUBSET (Types \X Types) :
              /\ EqualPairs(P) \subseteq R
              /\ \A a, b \in Types : <<a, b>> \in R =>
                   \A k \in DOMAIN SubTypes[a] \cap DOMAIN SubTypes[b] : <<SubTypes[a][k], SubTypes[b][k]>> \in R
              => EqualTypes(P) \subseteq R
<1> DEFINE D == Types \X Types
           next == [e \in D |-> {<<SubTypes[e[1]][k], SubTypes[e[2]][k]>> : k \in DOMAIN SubTypes[e[1]] \cap DOMAIN SubTypes[e[2]]}]
           E == Least(D, next, EqualPairs(P))
<1>1. EqualTypes(P) = E
  BY DEF EqualTypes, EqualPairs
<1>2. EqualPairs(P) \in SUBSET D
  BY RequestsAssumption DEF EqualPairs
<1>3. IsFiniteSet(D)
  BY TypesAssumption, FS_Product
<1>4. \A t \in Types : \A k \in DOMAIN SubTypes[t] : SubTypes[t][k] \in Types
  BY TypesAssumption
<1>5. next \in [D -> SUBSET D]
  <2>1. ASSUME NEW e \in D
        PROVE  {<<SubTypes[e[1]][k], SubTypes[e[2]][k]>> : k \in DOMAIN SubTypes[e[1]] \cap DOMAIN SubTypes[e[2]]} \in SUBSET D
    BY <1>4
  <2> QED
    BY <2>1
<1>6. /\ E \in SUBSET D /\ EqualPairs(P) \subseteq E /\ Closed(next, E)
      /\ \A T \in SUBSET D : EqualPairs(P) \subseteq T /\ Closed(next, T) => E \subseteq T
  <2> HIDE DEF next, D
  <2> QED
    BY <1>2, <1>3, <1>5, LeastIs
<1> HIDE DEF E
<1>7. ASSUME NEW a \in Types, NEW b \in Types, <<a, b>> \in E
      PROVE  \A k \in DOMAIN SubTypes[a] \cap DOMAIN SubTypes[b] : <<SubTypes[a][k], SubTypes[b][k]>> \in E
  <2>1. next[<<a, b>>] \subseteq E
    BY <1>6, <1>7 DEF Closed
  <2> QED
    BY <2>1
<1>8. ASSUME NEW R \in SUBSET D, EqualPairs(P) \subseteq R,
             \A a, b \in Types : <<a, b>> \in R =>
               \A k \in DOMAIN SubTypes[a] \cap DOMAIN SubTypes[b] : <<SubTypes[a][k], SubTypes[b][k]>> \in R
      PROVE  E \subseteq R
  <2>1. ASSUME NEW e \in R
        PROVE  next[e] \subseteq R
    <3>1. e \in D /\ e[1] \in Types /\ e[2] \in Types /\ e = <<e[1], e[2]>>
      OBVIOUS
    <3>2. \A k \in DOMAIN SubTypes[e[1]] \cap DOMAIN SubTypes[e[2]] : <<SubTypes[e[1]][k], SubTypes[e[2]][k]>> \in R
      BY <1>8, <3>1
    <3> QED
      BY <3>1, <3>2
  <2>2. Closed(next, R)
    BY <2>1 DEF Closed
  <2> HIDE DEF next
  <2> QED
    BY <1>6, <1>8, <2>2
<1> QED
  BY <1>1, <1>6, <1>7, <1>8

\* In a program, types that are equal have the same form.
LEMMA EqualTypesIs ==
  ASSUME NEW P \in RequestSets
  PROVE  /\ EqualTypes(P) \in SUBSET (Types \X Types)
         /\ EqualPairs(P) \subseteq EqualTypes(P)
         /\ \A a, b \in Types : <<a, b>> \in EqualTypes(P) =>
              /\ Len(SubTypes[a]) = Len(SubTypes[b])
              /\ \A k \in DOMAIN SubTypes[a] : <<SubTypes[a][k], SubTypes[b][k]>> \in EqualTypes(P)
         /\ \A R \in SUBSET (Types \X Types) :
              /\ EqualPairs(P) \subseteq R
              /\ \A a, b \in Types : <<a, b>> \in R =>
                   \A k \in DOMAIN SubTypes[a] \cap DOMAIN SubTypes[b] : <<SubTypes[a][k], SubTypes[b][k]>> \in R
              => EqualTypes(P) \subseteq R
<1>1. P \in SUBSET Requests
  BY RequestsAssumption
<1>2. ASSUME NEW a \in Types, NEW b \in Types, <<a, b>> \in EqualTypes(P)
      PROVE  /\ Len(SubTypes[a]) = Len(SubTypes[b])
             /\ \A k \in DOMAIN SubTypes[a] : <<SubTypes[a][k], SubTypes[b][k]>> \in EqualTypes(P)
  <2>1. Len(SubTypes[a]) = Len(SubTypes[b])
    <3>1. Len(SubTypes[<<a, b>>[1]]) = Len(SubTypes[<<a, b>>[2]])
      BY <1>2, RequestsAssumption
    <3> QED
      BY <3>1
  <2>2. DOMAIN SubTypes[a] = DOMAIN SubTypes[b]
    BY <2>1, TypesAssumption
  <2> QED
    BY <1>1, <1>2, <2>1, <2>2, EqualTypesGrow
<1> QED
  BY <1>1, <1>2, EqualTypesGrow

\* A set of variables that holds with each also what it makes dynamic.
Respects(S, A) == \A v, w \in BtVars : <<v, w>> \in A /\ v \in S => w \in S

LEMMA DynamicIs ==
  ASSUME NEW P \in RequestSets
  PROVE  /\ DynamicIn(P) \in SUBSET BtVars
         /\ Dynamic \in DynamicIn(P)
         /\ Respects(DynamicIn(P), Asked(P))
         /\ \A T \in SUBSET BtVars : Dynamic \in T /\ Respects(T, Asked(P)) => DynamicIn(P) \subseteq T
<1> DEFINE A == Asked(P)
           next == [v \in BtVars |-> {e[2] : e \in {a \in A : a[1] = v}}]
           L == Least(BtVars, next, {Dynamic})
<1>1. DynamicIn(P) = L
  BY DEF DynamicIn
<1>2. A \in SUBSET (BtVars \X BtVars)
  <2>1. \A e \in EqualTypes(P) : e[1] \in Types /\ e[2] \in Types
    BY EqualTypesIs
  <2>2. \A t \in Types : Var[t] \in BtVars
    BY TypesAssumption
  <2>3. Dynamic \in BtVars
    BY TypesAssumption
  <2>4. \A r \in P : r.t \in Types /\ (r.op # "dynamic" => r.s \in Types)
    BY RequestsAssumption
  <2>5. \A r \in {q \in P : q.op = "dep"} : r.s \in Types /\ r.t \in Types
    BY <2>4
  <2>6. {<<Var[e[1]], Var[e[2]]>> : e \in EqualTypes(P)} \subseteq BtVars \X BtVars
    BY <2>1, <2>2
  <2> QED
    BY <2>1, <2>2, <2>3, <2>4, <2>5, <2>6 DEF Asked
<1> HIDE DEF A
<1>3. next \in [BtVars -> SUBSET BtVars]
  BY <1>2
<1>4. \A T \in SUBSET BtVars : Closed(next, T) <=> Respects(T, A)
  <2> SUFFICES ASSUME NEW T \in SUBSET BtVars
               PROVE  Closed(next, T) <=> Respects(T, A)
    OBVIOUS
  <2>1. ASSUME Closed(next, T), NEW v \in BtVars, NEW w \in BtVars, <<v, w>> \in A, v \in T
        PROVE  w \in T
    <3>1. w \in next[v]
      BY <2>1
    <3> QED
      BY <2>1, <3>1 DEF Closed
  <2>2. ASSUME Respects(T, A), NEW v \in T, NEW w \in next[v]
        PROVE  w \in T
    <3>1. PICK a \in A : a[1] = v /\ a[2] = w
      BY <2>2
    <3>2. a = <<v, w>> /\ v \in BtVars /\ w \in BtVars
      BY <1>2, <3>1
    <3> QED
      BY <2>2, <3>2 DEF Respects
  <2> QED
    BY <2>1, <2>2 DEF Closed, Respects
<1>5. {Dynamic} \in SUBSET BtVars /\ IsFiniteSet(BtVars)
  BY TypesAssumption
<1>6. /\ L \in SUBSET BtVars /\ {Dynamic} \subseteq L /\ Closed(next, L)
      /\ \A T \in SUBSET BtVars : {Dynamic} \subseteq T /\ Closed(next, T) => L \subseteq T
  <2> HIDE DEF next
  <2> QED
    BY <1>3, <1>5, LeastIs
<1> HIDE DEF next, L
<1> QED
  BY <1>1, <1>4, <1>6 DEF A

\* Which pairs are asked for.
LEMMA AskedIs ==
  ASSUME NEW P \in RequestSets
  PROVE  /\ \A r \in P : /\ r.op = "dynamic" => <<Dynamic, Var[r.t]>> \in Asked(P)
                         /\ r.op = "dep" => <<Var[r.s], Var[r.t]>> \in Asked(P)
         /\ \A a, b \in Types : <<a, b>> \in EqualTypes(P) =>
              <<Var[a], Var[b]>> \in Asked(P) /\ <<Var[b], Var[a]>> \in Asked(P)
         /\ \A S : /\ \A r \in P : /\ r.op = "dynamic" /\ Dynamic \in S => Var[r.t] \in S
                                   /\ r.op = "dep" /\ Var[r.s] \in S => Var[r.t] \in S
                   /\ \A a, b \in Types : <<a, b>> \in EqualTypes(P) => (Var[a] \in S <=> Var[b] \in S)
                   => Respects(S, Asked(P))
<1> DEFINE E == {<<Var[e[1]], Var[e[2]]>> : e \in EqualTypes(P)}
           Dy == {<<Dynamic, Var[r.t]>> : r \in {q \in P : q.op = "dynamic"}}
           De == {<<Var[r.s], Var[r.t]>> : r \in {q \in P : q.op = "dep"}}
           Back == {<<e[2], e[1]>> : e \in E}
<1>1. Asked(P) = Dy \cup De \cup E \cup Back
  BY DEF Asked
<1>2. \A e \in EqualTypes(P) : e[1] \in Types /\ e[2] \in Types /\ e = <<e[1], e[2]>>
  BY EqualTypesIs
<1>3. \A r \in P : /\ r.op = "dynamic" => <<Dynamic, Var[r.t]>> \in Dy
                   /\ r.op = "dep" => <<Var[r.s], Var[r.t]>> \in De
  OBVIOUS
<1>4. ASSUME NEW a \in Types, NEW b \in Types, <<a, b>> \in EqualTypes(P)
      PROVE  <<Var[a], Var[b]>> \in E /\ <<Var[b], Var[a]>> \in Back
  <2>1. <<Var[a], Var[b]>> \in E
    BY <1>4
  <2> HIDE DEF E
  <2> QED
    BY <2>1
<1>5. ASSUME NEW S,
             \A r \in P : /\ r.op = "dynamic" /\ Dynamic \in S => Var[r.t] \in S
                          /\ r.op = "dep" /\ Var[r.s] \in S => Var[r.t] \in S,
             \A a, b \in Types : <<a, b>> \in EqualTypes(P) => (Var[a] \in S <=> Var[b] \in S),
             NEW v \in BtVars, NEW w \in BtVars, <<v, w>> \in Asked(P), v \in S
      PROVE  w \in S
  <2>1. CASE <<v, w>> \in Dy
    BY <1>5, <2>1
  <2>2. CASE <<v, w>> \in De
    BY <1>5, <2>2
  <2>3. CASE <<v, w>> \in E
    <3>1. PICK e \in EqualTypes(P) : v = Var[e[1]] /\ w = Var[e[2]]
      BY <2>3
    <3> QED
      BY <1>2, <1>5, <3>1
  <2>4. CASE <<v, w>> \in Back
    <3>1. PICK x \in E : v = x[2] /\ w = x[1]
      BY <2>4
    <3>2. PICK e \in EqualTypes(P) : x = <<Var[e[1]], Var[e[2]]>>
      BY <3>1
    <3>3. v = Var[e[2]] /\ w = Var[e[1]]
      BY <3>1, <3>2
    <3> QED
      BY <1>2, <1>5, <3>3
  <2> QED
    BY <1>1, <1>5, <2>1, <2>2, <2>3, <2>4
<1> HIDE DEF E, Dy, De, Back
<1> QED
  BY <1>1, <1>3, <1>4, <1>5 DEF Respects
----------------------------------------------------------------------------
(***************************************************************************)
(* The graph.                                                              *)
(***************************************************************************)
GraphType(w) == w \in [BtVars -> Seq(BtVars \X Requests)]

\* No arrow leads out of S.
Shut(w, S) == \A v \in BtVars : v \in S => \A i \in DOMAIN w[v] : w[v][i][1] \in S

\* All arrows are in A.
Within(w, A) == \A v \in BtVars : \A i \in DOMAIN w[v] : <<v, w[v][i][1]>> \in A

Influenced(w, to, c) ==
  [v \in BtVars |-> IF v \in {u \in DOMAIN to : to[u] # u} THEN Append(w[v], <<to[v], c>>) ELSE w[v]]

LEMMA InfluencedIs ==
  ASSUME NEW w, GraphType(w), NEW c \in Requests, NEW to,
         DOMAIN to \subseteq BtVars, \A v \in DOMAIN to : to[v] \in BtVars
  PROVE  /\ GraphType(Influenced(w, to, c))
         /\ \A S : Shut(Influenced(w, to, c), S)
                     <=> Shut(w, S) /\ \A v \in DOMAIN to : v \in S => to[v] \in S
         /\ \A A : Within(w, A) /\ (\A v \in DOMAIN to : <<v, to[v]>> \in A) => Within(Influenced(w, to, c), A)
<1> DEFINE X == BtVars \X Requests
           new == Influenced(w, to, c)
           From == {u \in DOMAIN to : to[u] # u}
<1>1. ASSUME NEW v \in BtVars
      PROVE  /\ new[v] \in Seq(X)
             /\ v \notin From => new[v] = w[v]
             /\ v \in From => /\ DOMAIN new[v] = 1 .. Len(w[v]) + 1 /\ Len(w[v]) \in Nat /\ DOMAIN w[v] = 1 .. Len(w[v])
                              /\ new[v][Len(w[v]) + 1][1] = to[v]
                              /\ \A i \in DOMAIN w[v] : new[v][i] = w[v][i]
  <2>1. w[v] \in Seq(X)
    BY DEF GraphType
  <2>2. CASE v \notin From
    BY <2>1, <2>2 DEF Influenced
  <2>3. CASE v \in From
    <3> DEFINE x == <<to[v], c>>
    <3>1. x \in X /\ x[1] = to[v]
      BY <2>3
    <3>2. new[v] = Append(w[v], x)
      BY <2>3 DEF Influenced
    <3> HIDE DEF x, X, new, From
    <3>3. /\ Append(w[v], x) \in Seq(X) /\ Len(Append(w[v], x)) = Len(w[v]) + 1
          /\ \A i \in 1 .. Len(w[v]) : Append(w[v], x)[i] = w[v][i]
          /\ Append(w[v], x)[Len(w[v]) + 1] = x
      BY <2>1, <3>1, AppendProperties
    <3> QED
      BY <2>1, <2>3, <3>1, <3>2, <3>3
  <2> QED
    BY <2>2, <2>3
<1>2. GraphType(new)
  <2>1. new = [v \in BtVars |-> new[v]]
    BY DEF Influenced
  <2> HIDE DEF new
  <2> QED
    BY <1>1, <2>1 DEF GraphType
<1> HIDE DEF new
<1>3. ASSUME NEW S, Shut(new, S)
      PROVE  Shut(w, S) /\ \A v \in DOMAIN to : v \in S => to[v] \in S
  <2>1. ASSUME NEW v \in BtVars, v \in S, NEW i \in DOMAIN w[v]
        PROVE  w[v][i][1] \in S
    <3>1. i \in DOMAIN new[v] /\ new[v][i] = w[v][i]
      BY <1>1
    <3> QED
      BY <1>3, <2>1, <3>1 DEF Shut
  <2>2. ASSUME NEW v \in DOMAIN to, v \in S, to[v] # v
        PROVE  to[v] \in S
    <3>1. v \in BtVars /\ v \in From
      BY <2>2
    <3>2. Len(w[v]) + 1 \in DOMAIN new[v] /\ new[v][Len(w[v]) + 1][1] = to[v]
      BY <1>1, <3>1
    <3> QED
      BY <1>3, <2>2, <3>1, <3>2 DEF Shut
  <2> QED
    BY <2>1, <2>2 DEF Shut
<1>4. ASSUME NEW v \in BtVars, NEW i \in DOMAIN new[v]
      PROVE  \/ i \in DOMAIN w[v] /\ new[v][i] = w[v][i]
             \/ v \in DOMAIN to /\ new[v][i][1] = to[v]
  <2>1. CASE v \notin From
    BY <1>1, <1>4, <2>1
  <2>2. CASE v \in From
    <3>1. i = Len(w[v]) + 1 \/ i \in DOMAIN w[v]
      BY <1>1, <1>4, <2>2
    <3> QED
      BY <1>1, <2>2, <3>1
  <2> QED
    BY <2>1, <2>2
<1>5. ASSUME NEW S, Shut(w, S), \A v \in DOMAIN to : v \in S => to[v] \in S
      PROVE  Shut(new, S)
  <2>1. ASSUME NEW v \in BtVars, v \in S, NEW i \in DOMAIN new[v]
        PROVE  new[v][i][1] \in S
    BY <1>4, <1>5, <2>1 DEF Shut
  <2> QED
    BY <2>1 DEF Shut
<1>6. ASSUME NEW A, Within(w, A), \A v \in DOMAIN to : <<v, to[v]>> \in A
      PROVE  Within(new, A)
  <2>1. ASSUME NEW v \in BtVars, NEW i \in DOMAIN new[v]
        PROVE  <<v, new[v][i][1]>> \in A
    BY <1>4, <1>6 DEF Within
  <2> QED
    BY <2>1 DEF Within
<1> QED
  BY <1>2, <1>3, <1>5, <1>6 DEF new

----------------------------------------------------------------------------
(***************************************************************************)
(* Generation.  In every relation R that comprises the classes and the     *)
(* calls of unify in progress, the components of types of one class are    *)
(* related, and so are the types of the requests that have been made.      *)
(***************************************************************************)
Calls == Types \X Types \X Requests

Comprises(R, uf, list) ==
  /\ \A a, b \in Types : <<a, b>> \in R => <<b, a>> \in R
  /\ \A a, b, c \in Types : <<a, b>> \in R /\ <<b, c>> \in R => <<a, c>> \in R
  /\ \A a, b \in Types : Together(uf, a, b) => <<a, b>> \in R
  /\ \A i \in DOMAIN list : <<list[i][1], list[i][2]>> \in R

Congruent(uf, list) ==
  \A R \in SUBSET (Types \X Types) :
    Comprises(R, uf, list) =>
      \A a, b \in Types : Together(uf, a, b) => \A k \in DOMAIN SubTypes[a] : <<SubTypes[a][k], SubTypes[b][k]>> \in R

\* The variables of a class stand or fall together.
Bound(uf, w) ==
  \A S \in SUBSET BtVars : Shut(w, S) =>
    \A a, b \in Types : Together(uf, a, b) => (Var[a] \in S <=> Var[b] \in S)

Source(r) == IF r.op = "dynamic" THEN Dynamic ELSE Var[r.s]

Made(r, uf, list, w) ==
  IF r.op = "equal"
  THEN \A R \in SUBSET (Types \X Types) : Comprises(R, uf, list) => <<r.s, r.t>> \in R
  ELSE \A S \in SUBSET BtVars : Shut(w, S) => (Source(r) \in S => Var[r.t] \in S)

GenerateInv ==
  /\ btProgram \in RequestSets /\ todo \subseteq btProgram
  /\ unifying \in Seq(Calls)
  /\ \A i \in DOMAIN unifying : <<unifying[i][1], unifying[i][2]>> \in EqualTypes(btProgram)
  /\ Forest(unionfind)
  /\ \A a, b \in Types : Together(unionfind, a, b) => Len(SubTypes[a]) = Len(SubTypes[b])
  /\ GraphType(waiting) /\ Within(waiting, Asked(btProgram))
  /\ Congruent(unionfind, unifying)
  /\ Bound(unionfind, waiting)
  /\ \A r \in btProgram \ todo : Made(r, unionfind, unifying, waiting)
  /\ status = [v \in BtVars |-> "untouched"]

LEMMA InitGenerate == BTInit => GenerateInv
<1> SUFFICES ASSUME BTInit
             PROVE  GenerateInv
  OBVIOUS
<1> DEFINE uf == [t \in Types |-> t]
<1>1. unionfind = uf /\ unifying = <<>> /\ todo = btProgram /\ btProgram \in RequestSets
      /\ waiting = [v \in BtVars |-> <<>>] /\ status = [v \in BtVars |-> "untouched"]
  BY DEF BTInit
<1>2. Forest(uf)
  <2>1. Ranked(uf, [t \in Types |-> 0])
    BY DEF Ranked
  <2> QED
    BY <2>1 DEF Forest
<1>3. \A t \in Types : Representative(uf, t) = t
  BY <1>2, RepresentativeIs
<1> HIDE DEF uf
<1>4. \A a, b \in Types : Together(uf, a, b) => a = b
  BY <1>3 DEF Together
<1>5. unifying \in Seq(Calls) /\ DOMAIN unifying = {}
  BY <1>1
<1>6. GraphType(waiting) /\ Within(waiting, Asked(btProgram))
  BY <1>1 DEF GraphType, Within
<1>7. Congruent(unionfind, unifying)
  <2> SUFFICES ASSUME NEW R \in SUBSET (Types \X Types), Comprises(R, uf, unifying),
                      NEW a \in Types, NEW b \in Types, Together(uf, a, b), NEW k \in DOMAIN SubTypes[a]
               PROVE  <<SubTypes[a][k], SubTypes[b][k]>> \in R
    BY <1>1 DEF Congruent
  <2>1. a = b
    BY <1>4
  <2>2. SubTypes[a][k] \in Types /\ Together(uf, SubTypes[a][k], SubTypes[a][k])
    BY TypesAssumption DEF Together
  <2> QED
    BY <2>1, <2>2 DEF Comprises
<1>8. Bound(unionfind, waiting)
  BY <1>1, <1>4 DEF Bound
<1> QED
  BY <1>1, <1>2, <1>4, <1>5, <1>6, <1>7, <1>8 DEF GenerateInv

\* Fewer calls and finer classes are comprised as well.
LEMMA MadeStays ==
  ASSUME NEW uf, NEW list, NEW w, NEW uf2, NEW list2, NEW w2,
         \A R \in SUBSET (Types \X Types) : Comprises(R, uf2, list2) => Comprises(R, uf, list),
         \A S \in SUBSET BtVars : Shut(w2, S) => Shut(w, S)
  PROVE  \A r : Made(r, uf, list, w) => Made(r, uf2, list2, w2)
BY DEF Made

\* A request for dynamic or dependent variables is one arrow.
LEMMA RequestStep ==
  ASSUME GenerateInv, Request
  PROVE  GenerateInv'
<1>1. unifying = <<>> /\ UNCHANGED <<btProgram, unionfind, status>>
  BY DEF Request
<1>2. PICK r \in todo :
        /\ todo' = todo \ {r}
        /\ CASE r.op = "dynamic" -> Influence(Arrow(Dynamic, Var[r.t]), r) /\ UNCHANGED unifying
             [] r.op = "dep" -> Influence(Arrow(Var[r.s], Var[r.t]), r) /\ UNCHANGED unifying
             [] r.op = "equal" -> unifying' = <<<<r.s, r.t, r>>>> /\ UNCHANGED graph
  BY DEF Request
<1>3. btProgram \in RequestSets /\ r \in btProgram /\ r \in Requests /\ r.t \in Types
      /\ (r.op # "dynamic" => r.s \in Types) /\ r.op \in {"dynamic", "dep", "equal"}
  BY <1>2, RequestsAssumption DEF GenerateInv
<1>4. GraphType(waiting) /\ Within(waiting, Asked(btProgram)) /\ todo \subseteq btProgram
  BY DEF GenerateInv
<1>5. CASE r.op # "equal"
  <2> DEFINE to == Arrow(Source(r), Var[r.t])
             w2 == Influenced(waiting, to, r)
  <2>1. Influence(to, r) /\ UNCHANGED unifying
    BY <1>2, <1>3, <1>5 DEF Source
  <2>2. waiting' = w2
    BY <2>1 DEF Influence, Influenced
  <2>3. DOMAIN to = {Source(r)} /\ to[Source(r)] = Var[r.t] /\ Source(r) \in BtVars /\ Var[r.t] \in BtVars
    BY <1>3, <1>5, TypesAssumption DEF Arrow, Source
  <2>4. <<Source(r), Var[r.t]>> \in Asked(btProgram)
    BY <1>3, <1>5, AskedIs DEF Source
  <2> HIDE DEF to
  <2>5. /\ GraphType(w2)
        /\ \A S : Shut(w2, S) <=> Shut(waiting, S) /\ \A v \in DOMAIN to : v \in S => to[v] \in S
        /\ \A A : Within(waiting, A) /\ (\A v \in DOMAIN to : <<v, to[v]>> \in A) => Within(w2, A)
    BY <1>3, <1>4, <2>3, InfluencedIs
  <2> HIDE DEF w2
  <2>6. Within(w2, Asked(btProgram))
    BY <1>4, <2>3, <2>4, <2>5
  <2>7. Bound(unionfind, w2)
    BY <2>5 DEF GenerateInv, Bound
  <2>8. \A q : Made(q, unionfind, unifying, waiting) => Made(q, unionfind, unifying, w2)
    BY <2>5, MadeStays
  <2>9. Made(r, unionfind, unifying, w2)
    BY <1>5, <2>3, <2>5 DEF Made
  <2>10. \A q \in btProgram \ todo' : Made(q, unionfind, unifying, w2)
    BY <1>2, <2>8, <2>9 DEF GenerateInv
  <2> QED
    BY <1>1, <1>2, <2>1, <2>2, <2>5, <2>6, <2>7, <2>10 DEF GenerateInv
<1>6. CASE r.op = "equal"
  <2> DEFINE list == <<<<r.s, r.t, r>>>>
  <2>1. unifying' = list /\ waiting' = waiting
    BY <1>2, <1>6 DEF graph
  <2>2. list \in Seq(Calls) /\ DOMAIN list = {1} /\ list[1][1] = r.s /\ list[1][2] = r.t
    BY <1>3, <1>6 DEF Calls
  <2>3. <<r.s, r.t>> \in EqualTypes(btProgram)
    <3>1. <<r.s, r.t>> \in EqualPairs(btProgram)
      BY <1>3, <1>6 DEF EqualPairs
    <3> QED
      BY <1>3, <3>1, EqualTypesIs
  <2> HIDE DEF list
  <2>4. \A R \in SUBSET (Types \X Types) : Comprises(R, unionfind, list) => Comprises(R, unionfind, unifying)
    BY <1>1 DEF Comprises
  <2>5. \A q : Made(q, unionfind, unifying, waiting) => Made(q, unionfind, list, waiting)
    BY <2>4, MadeStays
  <2>6. Made(r, unionfind, list, waiting)
    BY <1>6, <2>2 DEF Made, Comprises
  <2>7. \A q \in btProgram \ todo' : Made(q, unionfind, list, waiting)
    BY <1>2, <2>5, <2>6 DEF GenerateInv
  <2>8. Congruent(unionfind, list)
    BY <2>4 DEF GenerateInv, Congruent
  <2> QED
    BY <1>1, <1>2, <2>1, <2>2, <2>3, <2>7, <2>8 DEF GenerateInv
<1> QED
  BY <1>5, <1>6
\* Compression leaves the classes alone, whatever else is true of them.
LEMMA SameClasses ==
  ASSUME NEW uf, NEW uf2, \A a, b \in Types : Together(uf2, a, b) <=> Together(uf, a, b)
  PROVE  /\ \A list : Congruent(uf, list) => Congruent(uf2, list)
         /\ \A w : Bound(uf, w) => Bound(uf2, w)
         /\ \A R, list : Comprises(R, uf2, list) <=> Comprises(R, uf, list)
<1>1. \A R, list : Comprises(R, uf2, list) <=> Comprises(R, uf, list)
  BY DEF Comprises
<1>2. \A w : Bound(uf, w) => Bound(uf2, w)
  BY DEF Bound
<1>3. \A list : Congruent(uf, list) => Congruent(uf2, list)
  BY <1>1 DEF Congruent
<1> QED
  BY <1>1, <1>2, <1>3

\* The calls in progress after those for the components have been made.
LEMMA CallsAre ==
  ASSUME NEW list \in Seq(Calls), list # <<>>, NEW more \in Seq(Calls)
  PROVE  /\ Head(list) \in Calls /\ Head(list) = list[1] /\ 1 \in DOMAIN list
         /\ Tail(list) \in Seq(Calls) /\ more \o Tail(list) \in Seq(Calls)
         /\ \A i \in DOMAIN list : i = 1 \/ \E j \in DOMAIN Tail(list) : Tail(list)[j] = list[i]
         /\ \A j \in DOMAIN Tail(list) : \E i \in DOMAIN list : Tail(list)[j] = list[i]
         /\ \A i \in DOMAIN more : \E j \in DOMAIN (more \o Tail(list)) : (more \o Tail(list))[j] = more[i]
         /\ \A i \in DOMAIN Tail(list) : \E j \in DOMAIN (more \o Tail(list)) : (more \o Tail(list))[j] = Tail(list)[i]
         /\ \A j \in DOMAIN (more \o Tail(list)) : \/ \E i \in DOMAIN more : (more \o Tail(list))[j] = more[i]
                                                  \/ \E i \in DOMAIN Tail(list) : (more \o Tail(list))[j] = Tail(list)[i]
<1> DEFINE rest == Tail(list)
           all == more \o rest
<1>1. /\ Head(list) \in Calls /\ Head(list) = list[1] /\ 1 \in DOMAIN list
      /\ rest \in Seq(Calls) /\ Len(rest) = Len(list) - 1 /\ \A j \in 1 .. Len(rest) : rest[j] = list[j + 1]
      /\ Len(list) \in Nat /\ Len(list) > 0 /\ DOMAIN list = 1 .. Len(list)
      /\ DOMAIN rest = 1 .. Len(rest) /\ Len(rest) \in Nat
  BY HeadTailProperties
<1> HIDE DEF rest
<1>2. /\ all \in Seq(Calls) /\ Len(all) = Len(more) + Len(rest)
      /\ \A i \in 1 .. Len(more) + Len(rest) : all[i] = IF i <= Len(more) THEN more[i] ELSE rest[i - Len(more)]
  BY <1>1, ConcatProperties
<1>3. DOMAIN all = 1 .. Len(more) + Len(rest) /\ DOMAIN more = 1 .. Len(more) /\ Len(more) \in Nat
  BY <1>1, <1>2
<1> HIDE DEF all
<1>4. ASSUME NEW i \in DOMAIN list, i # 1
      PROVE  \E j \in DOMAIN rest : rest[j] = list[i]
  <2>1. i - 1 \in 1 .. Len(rest) /\ (i - 1) + 1 = i
    BY <1>1, <1>4
  <2> QED
    BY <1>1, <2>1
<1>5. ASSUME NEW j \in DOMAIN rest
      PROVE  \E i \in DOMAIN list : rest[j] = list[i]
  <2>1. j + 1 \in 1 .. Len(list)
    BY <1>1, <1>5
  <2> QED
    BY <1>1, <2>1
<1>6. ASSUME NEW i \in DOMAIN more
      PROVE  \E j \in DOMAIN all : all[j] = more[i]
  <2>1. i \in 1 .. Len(more) + Len(rest) /\ i <= Len(more)
    BY <1>1, <1>3
  <2> QED
    BY <1>2, <1>3, <2>1
<1>7. ASSUME NEW i \in DOMAIN rest
      PROVE  \E j \in DOMAIN all : all[j] = rest[i]
  <2>1. i + Len(more) \in 1 .. Len(more) + Len(rest) /\ ~ (i + Len(more) <= Len(more)) /\ (i + Len(more)) - Len(more) = i
    BY <1>1, <1>3
  <2> QED
    BY <1>2, <1>3, <2>1
<1>8. ASSUME NEW j \in DOMAIN all
      PROVE  (\E i \in DOMAIN more : all[j] = more[i]) \/ (\E i \in DOMAIN rest : all[j] = rest[i])
  <2>1. CASE j <= Len(more)
    BY <1>2, <1>3, <2>1
  <2>2. CASE ~ (j <= Len(more))
    <3>1. j - Len(more) \in DOMAIN rest
      BY <1>1, <1>3, <2>2
    <3> QED
      BY <1>2, <1>3, <2>2, <3>1
  <2> QED
    BY <2>1, <2>2
<1> QED
  BY <1>1, <1>2, <1>4, <1>5, <1>6, <1>7, <1>8 DEF rest, all

LEMMA UnifyStep ==
  ASSUME GenerateInv, Unify
  PROVE  GenerateInv'
<1> DEFINE a == Head(unifying)[1]
           b == Head(unifying)[2]
           r == Head(unifying)[3]
           uf1 == Compressed(unionfind, a)
           uf == Compressed(uf1, b)
           rest == Tail(unifying)
           more == Components(a, b, r)
           all == more \o rest
<1>1. /\ unifying # <<>> /\ UNCHANGED <<btProgram, btPhase, todo, status, pending, trace>>
      /\ IF Representative(uf, a) = Representative(uf, b)
         THEN unionfind' = uf /\ unifying' = rest /\ UNCHANGED graph
         ELSE /\ unionfind' = Joined(uf, a, b) /\ unifying' = all
              /\ Influence(Arrows(Var[a], Var[b]), r)
  BY DEF Unify
<1>2. /\ btProgram \in RequestSets /\ todo \subseteq btProgram
      /\ unifying \in Seq(Calls)
      /\ Forest(unionfind)
      /\ GraphType(waiting) /\ Within(waiting, Asked(btProgram))
      /\ Congruent(unionfind, unifying)
      /\ Bound(unionfind, waiting)
      /\ status = [v \in BtVars |-> "untouched"]
  BY DEF GenerateInv
<1>3. \A i \in DOMAIN unifying : <<unifying[i][1], unifying[i][2]>> \in EqualTypes(btProgram)
  BY DEF GenerateInv
<1>4. \A x, y \in Types : Together(unionfind, x, y) => Len(SubTypes[x]) = Len(SubTypes[y])
  BY DEF GenerateInv
<1>5. \A q \in btProgram \ todo : Made(q, unionfind, unifying, waiting)
  BY DEF GenerateInv
<1>6. Head(unifying) \in Calls /\ Head(unifying) = unifying[1] /\ 1 \in DOMAIN unifying
  BY <1>1, <1>2, HeadTailProperties
<1>7. a \in Types /\ b \in Types /\ r \in Requests
  BY <1>6 DEF Calls
<1>8. <<a, b>> \in EqualTypes(btProgram)
  BY <1>3, <1>6
<1>9. Len(SubTypes[a]) = Len(SubTypes[b]) /\ (\A k \in DOMAIN SubTypes[a] : <<SubTypes[a][k], SubTypes[b][k]>> \in EqualTypes(btProgram))
      /\ DOMAIN SubTypes[a] = 1 .. Len(SubTypes[a]) /\ DOMAIN SubTypes[b] = DOMAIN SubTypes[a]
  BY <1>2, <1>7, <1>8, EqualTypesIs, TypesAssumption
<1>10. \A t \in Types : SubTypes[t] \in Seq(Types) /\ Var[t] \in BtVars /\ \A k \in DOMAIN SubTypes[t] : SubTypes[t][k] \in Types
  BY TypesAssumption
<1> HIDE DEF a, b, r, rest
<1>11. more \in Seq(Calls) /\ DOMAIN more = DOMAIN SubTypes[a]
       /\ \A k \in DOMAIN SubTypes[a] : more[k] = <<SubTypes[a][k], SubTypes[b][k], r>>
  <2>1. more = [k \in 1 .. Len(SubTypes[a]) |-> <<SubTypes[a][k], SubTypes[b][k], r>>]
    BY <1>9 DEF Components
  <2>2. \A k \in 1 .. Len(SubTypes[a]) : <<SubTypes[a][k], SubTypes[b][k], r>> \in Calls
    BY <1>7, <1>9, <1>10 DEF Calls
  <2>3. Len(SubTypes[a]) \in Nat
    BY <1>7, <1>10
  <2> QED
    BY <1>9, <2>1, <2>2, <2>3
<1> HIDE DEF more
<1>12. /\ rest \in Seq(Calls) /\ all \in Seq(Calls)
       /\ \A i \in DOMAIN unifying : i = 1 \/ \E j \in DOMAIN rest : rest[j] = unifying[i]
       /\ \A j \in DOMAIN rest : \E i \in DOMAIN unifying : rest[j] = unifying[i]
       /\ \A i \in DOMAIN more : \E j \in DOMAIN all : all[j] = more[i]
       /\ \A i \in DOMAIN rest : \E j \in DOMAIN all : all[j] = rest[i]
       /\ \A j \in DOMAIN all : \/ \E i \in DOMAIN more : all[j] = more[i]
                                \/ \E i \in DOMAIN rest : all[j] = rest[i]
  BY <1>1, <1>2, <1>11, CallsAre DEF rest
<1> HIDE DEF all
<1>13. Forest(uf) /\ \A t \in Types : Representative(uf, t) = Representative(unionfind, t)
  <2>1. Forest(uf1) /\ \A t \in Types : Representative(uf1, t) = Representative(unionfind, t)
    BY <1>2, <1>7, CompressedIs
  <2> HIDE DEF uf1
  <2>2. Forest(uf) /\ \A t \in Types : Representative(uf, t) = Representative(uf1, t)
    BY <1>7, <2>1, CompressedIs
  <2> QED
    BY <2>1, <2>2
<1> HIDE DEF uf
<1>14. \A x, y \in Types : Together(uf, x, y) <=> Together(unionfind, x, y)
  BY <1>13 DEF Together
<1>15. \A R, list : Comprises(R, uf, list) <=> Comprises(R, unionfind, list)
  BY <1>14, SameClasses
<1>16. CASE Together(uf, a, b)
  <2>1. unionfind' = uf /\ unifying' = rest /\ waiting' = waiting
    BY <1>1, <1>16 DEF Together, graph
  <2>2. \A R \in SUBSET (Types \X Types) : Comprises(R, uf, rest) => Comprises(R, unionfind, unifying)
    <3> SUFFICES ASSUME NEW R \in SUBSET (Types \X Types), Comprises(R, uf, rest)
                 PROVE  Comprises(R, uf, unifying)
      BY <1>15
    <3>1. <<a, b>> \in R
      BY <1>7, <1>16 DEF Comprises
    <3>2. <<unifying[1][1], unifying[1][2]>> \in R
      BY <1>6, <3>1 DEF a, b
    <3>3. \A i \in DOMAIN unifying : <<unifying[i][1], unifying[i][2]>> \in R
      BY <1>12, <3>2 DEF Comprises
    <3> QED
      BY <3>3 DEF Comprises
  <2>3. Congruent(uf, rest)
    BY <1>2, <1>14, <2>2 DEF Congruent
  <2>4. Bound(uf, waiting)
    BY <1>2, <1>14, SameClasses
  <2>5. \A q \in btProgram \ todo : Made(q, uf, rest, waiting)
    BY <1>5, <2>2, MadeStays
  <2>6. \A j \in DOMAIN rest : <<rest[j][1], rest[j][2]>> \in EqualTypes(btProgram)
    BY <1>3, <1>12
  <2>7. \A x, y \in Types : Together(uf, x, y) => Len(SubTypes[x]) = Len(SubTypes[y])
    BY <1>4, <1>14
  <2> QED
    BY <1>1, <1>2, <1>12, <1>13, <2>1, <2>3, <2>4, <2>5, <2>6, <2>7 DEF GenerateInv
<1>17. CASE ~ Together(uf, a, b)
  <2> DEFINE uf2 == Joined(uf, a, b)
             to == Arrows(Var[a], Var[b])
             w2 == Influenced(waiting, to, r)
  <2>1. unionfind' = uf2 /\ unifying' = all /\ waiting' = w2
    BY <1>1, <1>17 DEF Together, Influence, Influenced
  <2>2. /\ Forest(uf2)
        /\ \A t \in Types : Representative(uf2, t) = IF Together(uf, t, a) THEN Representative(uf, b) ELSE Representative(uf, t)
    BY <1>7, <1>13, <1>17, JoinedIs
  <2> HIDE DEF uf2
  \* The classes of a and of b are one.
  <2>3. \A x, y \in Types :
          Together(uf2, x, y) <=> \/ Together(uf, x, y)
                                  \/ Together(uf, x, a) /\ Together(uf, b, y)
                                  \/ Together(uf, x, b) /\ Together(uf, a, y)
    BY <1>7, <2>2 DEF Together
  <2>4. DOMAIN to = {Var[a], Var[b]} /\ to[Var[a]] = Var[b] /\ to[Var[b]] = Var[a]
        /\ Var[a] \in BtVars /\ Var[b] \in BtVars
    BY <1>7, <1>10 DEF Arrows
  <2>5. <<Var[a], Var[b]>> \in Asked(btProgram) /\ <<Var[b], Var[a]>> \in Asked(btProgram)
    BY <1>2, <1>7, <1>8, AskedIs
  <2> HIDE DEF to
  <2>6. /\ GraphType(w2)
        /\ \A S : Shut(w2, S) <=> Shut(waiting, S) /\ \A v \in DOMAIN to : v \in S => to[v] \in S
        /\ \A A : Within(waiting, A) /\ (\A v \in DOMAIN to : <<v, to[v]>> \in A) => Within(w2, A)
    BY <1>2, <1>7, <2>4, InfluencedIs
  <2> HIDE DEF w2
  <2>7. Within(w2, Asked(btProgram))
    BY <1>2, <2>4, <2>5, <2>6
  <2>8. \A S \in SUBSET BtVars : Shut(w2, S) => Shut(waiting, S) /\ (Var[a] \in S <=> Var[b] \in S)
    BY <2>4, <2>6
  <2>9. Bound(uf2, w2)
    <3> SUFFICES ASSUME NEW S \in SUBSET BtVars, Shut(w2, S), NEW x \in Types, NEW y \in Types, Together(uf2, x, y)
                 PROVE  Var[x] \in S <=> Var[y] \in S
      BY DEF Bound
    <3>1. \A t, u \in Types : Together(uf, t, u) => (Var[t] \in S <=> Var[u] \in S)
      BY <1>2, <1>14, <2>8 DEF Bound
    <3> QED
      BY <1>7, <2>3, <2>8, <3>1
  <2>10. \A R \in SUBSET (Types \X Types) : Comprises(R, uf2, all) => Comprises(R, unionfind, unifying)
    <3> SUFFICES ASSUME NEW R \in SUBSET (Types \X Types), Comprises(R, uf2, all)
                 PROVE  Comprises(R, uf, unifying)
      BY <1>15
    <3>1. \A x, y \in Types : Together(uf, x, y) => <<x, y>> \in R
      BY <2>3 DEF Comprises
    <3>2. <<a, b>> \in R
      BY <1>7, <2>3 DEF Comprises, Together
    <3>3. <<unifying[1][1], unifying[1][2]>> \in R
      BY <1>6, <3>2 DEF a, b
    <3>4. \A j \in DOMAIN rest : <<rest[j][1], rest[j][2]>> \in R
      BY <1>12 DEF Comprises
    <3>5. \A i \in DOMAIN unifying : <<unifying[i][1], unifying[i][2]>> \in R
      BY <1>12, <3>3, <3>4
    <3> QED
      BY <3>1, <3>5 DEF Comprises
  <2>11. Congruent(uf2, all)
    <3> SUFFICES ASSUME NEW R \in SUBSET (Types \X Types), Comprises(R, uf2, all),
                        NEW x \in Types, NEW y \in Types, Together(uf2, x, y), NEW k \in DOMAIN SubTypes[x]
                 PROVE  <<SubTypes[x][k], SubTypes[y][k]>> \in R
      BY DEF Congruent
    <3>1. \A t, u \in Types : Together(uf, t, u) => \A m \in DOMAIN SubTypes[t] : <<SubTypes[t][m], SubTypes[u][m]>> \in R
      BY <1>2, <1>14, <2>10 DEF Congruent
    <3>2. \A t, u \in Types : Together(uf, t, u) => DOMAIN SubTypes[t] = DOMAIN SubTypes[u]
      BY <1>4, <1>10, <1>14
    <3>3. \A m \in DOMAIN SubTypes[a] : <<SubTypes[a][m], SubTypes[b][m]>> \in R
      <4> SUFFICES ASSUME NEW m \in DOMAIN SubTypes[a]
                   PROVE  <<SubTypes[a][m], SubTypes[b][m]>> \in R
        OBVIOUS
      <4>a. m \in DOMAIN more /\ more[m] = <<SubTypes[a][m], SubTypes[b][m], r>>
        BY <1>11
      <4>b. \E j \in DOMAIN all : all[j] = more[m]
        BY <1>12, <4>a
      <4>1. PICK j \in DOMAIN all : all[j] = <<SubTypes[a][m], SubTypes[b][m], r>>
        BY <4>a, <4>b
      <4>2. <<all[j][1], all[j][2]>> \in R
        BY DEF Comprises
      <4> QED
        BY <4>1, <4>2
    <3>4. \A t, u, v \in Types : <<t, u>> \in R /\ <<u, v>> \in R => <<t, v>> \in R
      BY DEF Comprises
    <3>5. \A t, u \in Types : <<t, u>> \in R => <<u, t>> \in R
      BY DEF Comprises
    <3>6. CASE Together(uf, x, y)
      BY <3>1, <3>6
    <3>7. CASE Together(uf, x, a) /\ Together(uf, b, y)
      <4>1. k \in DOMAIN SubTypes[a] /\ k \in DOMAIN SubTypes[b] /\ k \in DOMAIN SubTypes[y]
        BY <1>7, <1>9, <3>2, <3>7
      <4>2. <<SubTypes[x][k], SubTypes[a][k]>> \in R /\ <<SubTypes[a][k], SubTypes[b][k]>> \in R /\ <<SubTypes[b][k], SubTypes[y][k]>> \in R
        BY <1>7, <3>1, <3>3, <3>7, <4>1
      <4> QED
        BY <1>7, <1>10, <3>4, <4>1, <4>2
    <3>8. CASE Together(uf, x, b) /\ Together(uf, a, y)
      <4>1. k \in DOMAIN SubTypes[a] /\ k \in DOMAIN SubTypes[b] /\ k \in DOMAIN SubTypes[y]
        BY <1>7, <1>9, <3>2, <3>8
      <4>2. <<SubTypes[x][k], SubTypes[b][k]>> \in R /\ <<SubTypes[a][k], SubTypes[b][k]>> \in R /\ <<SubTypes[a][k], SubTypes[y][k]>> \in R
        BY <1>7, <3>1, <3>3, <3>8, <4>1
      <4>3. <<SubTypes[b][k], SubTypes[a][k]>> \in R
        BY <1>7, <1>10, <3>5, <4>1, <4>2
      <4> QED
        BY <1>7, <1>10, <3>4, <4>1, <4>2, <4>3
    <3> QED
      BY <2>3, <3>6, <3>7, <3>8
  <2>12. \A q \in btProgram \ todo : Made(q, uf2, all, w2)
    BY <1>5, <2>8, <2>10, MadeStays
  <2>13. \A j \in DOMAIN all : <<all[j][1], all[j][2]>> \in EqualTypes(btProgram)
    <3>1. \A i \in DOMAIN more : <<more[i][1], more[i][2]>> \in EqualTypes(btProgram)
      BY <1>9, <1>11
    <3>2. \A j \in DOMAIN rest : <<rest[j][1], rest[j][2]>> \in EqualTypes(btProgram)
      BY <1>3, <1>12
    <3> QED
      BY <1>12, <3>1, <3>2
  <2>14. \A x, y \in Types : Together(uf2, x, y) => Len(SubTypes[x]) = Len(SubTypes[y])
    BY <1>4, <1>7, <1>9, <1>14, <2>3
  <2> QED
    BY <1>1, <1>2, <1>12, <2>1, <2>2, <2>6, <2>7, <2>9, <2>11, <2>12, <2>13, <2>14 DEF GenerateInv
<1> QED
  BY <1>16, <1>17

\* When all requests have been made, a set of variables that no arrow leads out
\* of respects everything that is asked for.
LEMMA GeneratedIs ==
  ASSUME GenerateInv, todo = {}, unifying = <<>>
  PROVE  \A S \in SUBSET BtVars : Shut(waiting, S) => Respects(S, Asked(btProgram))
<1> DEFINE R == {e \in Types \X Types : Together(unionfind, e[1], e[2])}
<1>1. btProgram \in RequestSets /\ Forest(unionfind) /\ Congruent(unionfind, unifying) /\ Bound(unionfind, waiting)
      /\ \A r \in btProgram : Made(r, unionfind, unifying, waiting)
  BY DEF GenerateInv
<1>2. \A a, b \in Types : <<a, b>> \in R <=> Together(unionfind, a, b)
  OBVIOUS
<1>3. R \in SUBSET (Types \X Types) /\ DOMAIN unifying = {}
  OBVIOUS
<1>4. \A r \in btProgram : r.op \in {"dynamic", "dep", "equal"} /\ r.t \in Types /\ (r.op # "dynamic" => r.s \in Types)
  BY <1>1, RequestsAssumption
<1> HIDE DEF R
<1>5. Comprises(R, unionfind, unifying)
  BY <1>2, <1>3 DEF Comprises, Together
<1>6. EqualPairs(btProgram) \subseteq R
  <2> SUFFICES ASSUME NEW r \in btProgram, r.op = "equal"
               PROVE  <<r.s, r.t>> \in R
    BY DEF EqualPairs
  <2> QED
    BY <1>1, <1>3, <1>5 DEF Made
<1>7. \A a, b \in Types : <<a, b>> \in R =>
        \A k \in DOMAIN SubTypes[a] \cap DOMAIN SubTypes[b] : <<SubTypes[a][k], SubTypes[b][k]>> \in R
  BY <1>1, <1>2, <1>3, <1>5 DEF Congruent
<1>8. EqualTypes(btProgram) \subseteq R
  BY <1>1, <1>3, <1>6, <1>7, EqualTypesIs
<1> SUFFICES ASSUME NEW S \in SUBSET BtVars, Shut(waiting, S)
             PROVE  Respects(S, Asked(btProgram))
  OBVIOUS
<1>9. \A a, b \in Types : <<a, b>> \in EqualTypes(btProgram) => (Var[a] \in S <=> Var[b] \in S)
  BY <1>1, <1>2, <1>8 DEF Bound
<1>10. ASSUME NEW r \in btProgram
       PROVE  /\ r.op = "dynamic" /\ Dynamic \in S => Var[r.t] \in S
              /\ r.op = "dep" /\ Var[r.s] \in S => Var[r.t] \in S
  BY <1>1 DEF Made, Source
<1> QED
  BY <1>1, <1>9, <1>10, AskedIs
----------------------------------------------------------------------------
(***************************************************************************)
(* Solution.  What has been reached has to be dynamic; and to leave alone  *)
(* what has not been reached yet would not do, unless there is nothing     *)
(* more to do: every set that includes what has been reached, and that the *)
(* arrows left do not lead out of, respects everything asked for.          *)
(***************************************************************************)
Reached == {v \in BtVars : status[v] # "untouched"}

FloodInv ==
  /\ btProgram \in RequestSets /\ unifying = <<>>
  /\ GraphType(waiting) /\ Within(waiting, Asked(btProgram))
  /\ status \in [BtVars -> {"untouched", "pending", "dynamic"}]
  /\ pending \in Seq(BtVars)
  /\ Dynamic \in Reached /\ Reached \subseteq DynamicIn(btProgram)
  /\ ToSet(pending) \subseteq Reached
  /\ \A v \in BtVars : /\ status[v] = "pending" => v \in ToSet(pending)
                       /\ status[v] = "dynamic" => waiting[v] = <<>>
  /\ \A S \in SUBSET BtVars :
       Reached \subseteq S /\ Shut(waiting, S) => Respects(S, Asked(btProgram))

SolveInv == IF btPhase = "generate" THEN GenerateInv ELSE FloodInv

LEMMA StartStep ==
  ASSUME GenerateInv, Start
  PROVE  FloodInv'
<1>1. /\ todo = {} /\ unifying = <<>> /\ UNCHANGED <<btProgram, unifying, waiting>>
      /\ status' = [status EXCEPT ![Dynamic] = "pending"] /\ pending' = <<Dynamic>>
  BY DEF Start, graph
<1>2. btProgram \in RequestSets /\ GraphType(waiting) /\ Within(waiting, Asked(btProgram))
      /\ status = [v \in BtVars |-> "untouched"]
  BY DEF GenerateInv
<1>3. Dynamic \in BtVars
  BY TypesAssumption
<1>4. status' = [v \in BtVars |-> IF v = Dynamic THEN "pending" ELSE "untouched"]
  BY <1>1, <1>2, <1>3
<1>5. Reached' = {Dynamic}
  BY <1>3, <1>4 DEF Reached
<1>6. pending' \in Seq(BtVars) /\ ToSet(pending') = {Dynamic}
  BY <1>1, <1>3 DEF ToSet
<1>7. \A S \in SUBSET BtVars : Shut(waiting, S) => Respects(S, Asked(btProgram))
  BY <1>1, GeneratedIs
<1>8. {Dynamic} \subseteq DynamicIn(btProgram)
  BY <1>2, DynamicIs
<1>9. status' \in [BtVars -> {"untouched", "pending", "dynamic"}]
  BY <1>4
<1>10. \A v \in BtVars : (status'[v] = "pending" => v = Dynamic) /\ status'[v] # "dynamic"
  BY <1>4
<1> QED
  BY <1>1, <1>2, <1>5, <1>6, <1>7, <1>8, <1>9, <1>10 DEF FloodInv

\* The queue gets the variables of the list that nothing has reached.
LEMMA QueuedIs ==
  ASSUME NEW list \in Seq(BtVars \X Requests), NEW st, NEW queue \in Seq(BtVars)
  PROVE  /\ Queued(queue, list, st) \in Seq(BtVars)
         /\ ToSet(Queued(queue, list, st)) = ToSet(queue) \cup {w \in Targets(list) : st[w] = "untouched"}
<1> DEFINE L == Len(list)
           Next1(q, n) == LET w == list[n][1]
                          IN  IF st[w] = "untouched" /\ w \notin ToSet(q) THEN Append(q, w) ELSE q
           Body(Q) == [n \in 0 .. L |-> IF n = 0 THEN queue ELSE Next1(Q[n - 1], n)]
           Q == CHOOSE Q : Q = Body(Q)
           New(n) == {w \in {list[i][1] : i \in 1 .. n} : st[w] = "untouched"}
           Right(n) == Q[n] \in Seq(BtVars) /\ ToSet(Q[n]) = ToSet(queue) \cup New(n)
           N == {n \in Nat : n <= L => Right(n)}
<1>1. L \in Nat /\ DOMAIN list = 1 .. L /\ \A i \in 1 .. L : list[i][1] \in BtVars
  OBVIOUS
<1>2. \A q \in Seq(BtVars) : \A n \in 1 .. L : Next1(q, n) \in Seq(BtVars)
  BY <1>1
<1>3. \E H : H = Body(H)
  <2> HIDE DEF Next1
  <2> DEFINE f == [p \in Seq(BtVars) \X (1 .. L) |-> Next1(p[1], p[2])]
  <2>1. f \in [Seq(BtVars) \X (1 .. L) -> Seq(BtVars)]
    BY <1>2
  <2>2. \A q \in Seq(BtVars) : \A n \in 1 .. L : f[<<q, n>>] = Next1(q, n)
    OBVIOUS
  <2> HIDE DEF f
  <2>3. PICK H \in [0 .. L -> Seq(BtVars)] : \A n \in 0 .. L : H[n] = IF n = 0 THEN queue ELSE f[<<H[n - 1], n>>]
    <3> DEFINE X == Seq(BtVars)
    <3>1. L \in Nat /\ queue \in X /\ f \in [X \X (1 .. L) -> X]
      BY <1>1, <2>1
    <3> HIDE DEF X, L
    <3>2. \E H : Rounds(H, L, X, queue, f)
      BY <3>1, LoopExists
    <3> QED
      BY <3>2 DEF X, Rounds
  <2>4. ASSUME NEW n \in 0 .. L
        PROVE  H[n] = IF n = 0 THEN queue ELSE Next1(H[n - 1], n)
    <3>1. n # 0 => n \in 1 .. L /\ n - 1 \in 0 .. L
      BY <1>1
    <3> QED
      BY <2>2, <2>3, <3>1
  <2>5. H = [n \in 0 .. L |-> H[n]]
    BY <2>3
  <2>6. H = Body(H)
    <3> DEFINE B == Body(H)
    <3>1. B = [n \in 0 .. L |-> B[n]]
      OBVIOUS
    <3>2. \A n \in 0 .. L : B[n] = IF n = 0 THEN queue ELSE Next1(H[n - 1], n)
      OBVIOUS
    <3> HIDE DEF B
    <3>3. \A n \in 0 .. L : B[n] = H[n]
      BY <2>4, <3>2
    <3>4. B = H
      BY <2>5, <3>1, <3>3
    <3> QED
      BY <3>4 DEF B
  <2> QED
    BY <2>6
<1>4. Q = Body(Q)
  BY <1>3
<1>5. Queued(queue, list, st) = Q[L]
  BY DEF Queued
<1> HIDE DEF Q
<1>6. \A n \in 0 .. L : Q[n] = IF n = 0 THEN queue ELSE Next1(Q[n - 1], n)
  BY <1>4
<1>7. 0 \in N
  <2>1. Q[0] = queue
    BY <1>1, <1>6
  <2>2. New(0) = {}
    OBVIOUS
  <2> QED
    BY <2>1, <2>2
<1>8. ASSUME NEW n \in Nat, n \in N
      PROVE  n + 1 \in N
  <2> SUFFICES ASSUME n + 1 <= L
               PROVE  Right(n + 1)
    OBVIOUS
  <2> DEFINE w == list[n + 1][1]
             q == Q[n]
  <2>1. n + 1 \in 0 .. L /\ n + 1 \in 1 .. L /\ n + 1 # 0 /\ (n + 1) - 1 = n /\ n <= L
    BY <1>1
  <2>2. Q[n + 1] = IF st[w] = "untouched" /\ w \notin ToSet(q) THEN Append(q, w) ELSE q
    BY <1>6, <2>1
  <2>3. w \in BtVars /\ q \in Seq(BtVars) /\ ToSet(q) = ToSet(queue) \cup New(n)
    BY <1>1, <1>8, <2>1
  <2>4. New(n + 1) = New(n) \cup (IF st[w] = "untouched" THEN {w} ELSE {})
    <3>1. 1 .. n + 1 = (1 .. n) \cup {n + 1}
      BY <2>1
    <3> QED
      BY <3>1
  <2> HIDE DEF w, q, New
  <2>5. Append(q, w) \in Seq(BtVars) /\ ToSet(Append(q, w)) = ToSet(q) \cup {w}
    <3>1. /\ Append(q, w) \in Seq(BtVars) /\ Len(Append(q, w)) = Len(q) + 1
          /\ \A i \in 1 .. Len(q) : Append(q, w)[i] = q[i]
          /\ Append(q, w)[Len(q) + 1] = w
      BY <2>3, AppendProperties
    <3>2. Len(q) \in Nat /\ DOMAIN q = 1 .. Len(q) /\ DOMAIN Append(q, w) = 1 .. Len(q) + 1
      BY <2>3, <3>1
    <3>3. 1 .. Len(q) + 1 = (1 .. Len(q)) \cup {Len(q) + 1}
      BY <3>2
    <3> QED
      BY <3>1, <3>2, <3>3 DEF ToSet
  <2> QED
    BY <2>2, <2>3, <2>4, <2>5
<1> HIDE DEF N
<1>9. L \in N
  BY <1>1, <1>7, <1>8, NatSets
<1>10. Right(L)
  BY <1>1, <1>9 DEF N
<1>11. New(L) = {w \in Targets(list) : st[w] = "untouched"}
  BY <1>1 DEF Targets
<1> HIDE DEF New
<1> QED
  BY <1>5, <1>10, <1>11

LEMMA FloodStep ==
  ASSUME FloodInv, Flood
  PROVE  FloodInv'
<1> DEFINE v == Head(pending)
           list == waiting[v]
           st == [status EXCEPT ![v] = "dynamic"]
<1>1. /\ pending # <<>>
      /\ status' = [w \in BtVars |-> IF st[w] = "untouched" /\ w \in Targets(list) THEN "pending" ELSE st[w]]
      /\ pending' = Queued(Tail(pending), list, st)
      /\ waiting' = [waiting EXCEPT ![v] = <<>>]
      /\ UNCHANGED <<btProgram, unifying>>
  BY DEF Flood
<1>2. /\ btProgram \in RequestSets /\ unifying = <<>>
      /\ GraphType(waiting) /\ Within(waiting, Asked(btProgram))
      /\ status \in [BtVars -> {"untouched", "pending", "dynamic"}]
      /\ pending \in Seq(BtVars)
      /\ Dynamic \in Reached /\ Reached \subseteq DynamicIn(btProgram)
      /\ ToSet(pending) \subseteq Reached
  BY DEF FloodInv
<1>3. \A w \in BtVars : /\ status[w] = "pending" => w \in ToSet(pending)
                        /\ status[w] = "dynamic" => waiting[w] = <<>>
  BY DEF FloodInv
<1>4. \A S \in SUBSET BtVars : Reached \subseteq S /\ Shut(waiting, S) => Respects(S, Asked(btProgram))
  BY DEF FloodInv
<1>5. v \in BtVars /\ v \in ToSet(pending) /\ Tail(pending) \in Seq(BtVars) /\ ToSet(pending) = {v} \cup ToSet(Tail(pending))
  <2> DEFINE rest == Tail(pending)
  <2>1. v \in BtVars /\ v = pending[1] /\ rest \in Seq(BtVars) /\ Len(rest) = Len(pending) - 1
        /\ Len(pending) \in Nat /\ Len(pending) > 0 /\ \A j \in 1 .. Len(rest) : rest[j] = pending[j + 1]
    BY <1>1, <1>2, HeadTailProperties
  <2>2. DOMAIN pending = 1 .. Len(pending) /\ DOMAIN rest = 1 .. Len(rest)
    BY <1>2, <2>1
  <2> HIDE DEF v, rest
  <2>3. \A i \in DOMAIN pending : i = 1 \/ (i - 1 \in DOMAIN rest /\ rest[i - 1] = pending[i])
    BY <2>1, <2>2
  <2>4. \A j \in DOMAIN rest : j + 1 \in DOMAIN pending /\ rest[j] = pending[j + 1]
    BY <2>1, <2>2
  <2>5. 1 \in DOMAIN pending
    BY <2>1, <2>2
  <2>6. ToSet(pending) = {v} \cup ToSet(rest)
    <3>1. \A x \in ToSet(pending) : x = v \/ x \in ToSet(rest)
      <4> SUFFICES ASSUME NEW i \in DOMAIN pending
                   PROVE  pending[i] = v \/ pending[i] \in ToSet(rest)
        BY DEF ToSet
      <4> QED
        BY <2>1, <2>3 DEF ToSet
    <3>2. \A x \in ToSet(rest) : x \in ToSet(pending)
      BY <2>4 DEF ToSet
    <3>3. v \in ToSet(pending)
      BY <2>1, <2>5 DEF ToSet
    <3> QED
      BY <3>1, <3>2, <3>3
  <2> QED
    BY <2>1, <2>6 DEF rest
<1>6. list \in Seq(BtVars \X Requests)
  BY <1>2, <1>5 DEF GraphType
<1>7. v \in Reached
  BY <1>2, <1>5
<1> HIDE DEF v, list
<1>8. st \in [BtVars -> {"untouched", "pending", "dynamic"}] /\ st[v] = "dynamic"
      /\ \A w \in BtVars : w # v => st[w] = status[w]
  BY <1>2, <1>5
<1> HIDE DEF st
<1>9. pending' \in Seq(BtVars) /\ ToSet(pending') = ToSet(Tail(pending)) \cup {w \in Targets(list) : st[w] = "untouched"}
  BY <1>1, <1>5, <1>6, QueuedIs
<1>10. \A w \in Targets(list) : w \in BtVars /\ <<v, w>> \in Asked(btProgram)
  <2> SUFFICES ASSUME NEW i \in DOMAIN list
               PROVE  list[i][1] \in BtVars /\ <<v, list[i][1]>> \in Asked(btProgram)
    BY DEF Targets
  <2>1. list[i] \in BtVars \X Requests
    BY <1>6
  <2>2. <<v, waiting[v][i][1]>> \in Asked(btProgram)
    BY <1>2, <1>5 DEF Within, list
  <2> QED
    BY <2>1, <2>2 DEF list
<1>11. Reached' = Reached \cup Targets(list)
  <2>1. \A w \in BtVars : status'[w] # "untouched" <=> st[w] # "untouched" \/ w \in Targets(list)
    BY <1>1
  <2>2. \A w \in BtVars : st[w] # "untouched" <=> w \in Reached
    BY <1>7, <1>8 DEF Reached
  <2> QED
    BY <1>10, <2>1, <2>2 DEF Reached
<1>12. Reached' \subseteq DynamicIn(btProgram)
  <2>1. Respects(DynamicIn(btProgram), Asked(btProgram))
    BY <1>2, DynamicIs
  <2> QED
    BY <1>2, <1>5, <1>7, <1>10, <1>11, <2>1 DEF Respects
<1>13. ToSet(pending') \subseteq Reached'
  BY <1>2, <1>5, <1>9, <1>11
<1>14. status' \in [BtVars -> {"untouched", "pending", "dynamic"}]
  BY <1>1, <1>8
<1>15. waiting' = [w \in BtVars |-> IF w = v THEN <<>> ELSE waiting[w]]
  BY <1>1, <1>2 DEF GraphType
<1>16. GraphType(waiting')
  BY <1>2, <1>15 DEF GraphType
<1>17. Within(waiting', Asked(btProgram))
  BY <1>2, <1>15 DEF Within
<1>18. ASSUME NEW w \in BtVars
       PROVE  /\ status'[w] = "pending" => w \in ToSet(pending')
              /\ status'[w] = "dynamic" => waiting'[w] = <<>>
  <2>1. CASE w = v
    BY <1>1, <1>8, <1>15, <2>1
  <2>2. CASE w # v
    <3>1. st[w] = status[w] /\ waiting'[w] = waiting[w]
      BY <1>8, <1>15, <2>2
    <3>2. status[w] = "pending" => w \in ToSet(Tail(pending))
      BY <1>3, <1>5, <2>2
    <3> QED
      BY <1>1, <1>3, <1>9, <3>1, <3>2
  <2> QED
    BY <2>1, <2>2
<1>19. ASSUME NEW S \in SUBSET BtVars, Reached' \subseteq S, Shut(waiting', S)
       PROVE  Respects(S, Asked(btProgram))
  <2>1. \A i \in DOMAIN list : list[i][1] \in S
    BY <1>11, <1>19 DEF Targets
  <2>2. Shut(waiting, S)
    BY <1>15, <1>19, <2>1 DEF Shut, list
  <2> QED
    BY <1>4, <1>11, <1>19, <2>2
<1> QED
  BY <1>1, <1>2, <1>9, <1>11, <1>12, <1>13, <1>14, <1>16, <1>17, <1>18, <1>19 DEF FloodInv

LEMMA StepSolve == SolveInv /\ [BTNext]_btvars => SolveInv'
<1> SUFFICES ASSUME SolveInv, [BTNext]_btvars
             PROVE  SolveInv'
  OBVIOUS
<1>1. CASE Request
  <2>1. btPhase = "generate" /\ btPhase' = btPhase
    BY <1>1 DEF Request
  <2> QED
    BY <1>1, <2>1, RequestStep DEF SolveInv
<1>2. CASE Unify
  <2>1. btPhase = "generate" /\ btPhase' = btPhase
    BY <1>2 DEF Unify, SolveInv, FloodInv
  <2> QED
    BY <1>2, <2>1, UnifyStep DEF SolveInv
<1>3. CASE Start
  <2>1. btPhase = "generate" /\ btPhase' = "flood"
    BY <1>3 DEF Start
  <2> QED
    BY <1>3, <2>1, StartStep DEF SolveInv
<1>4. CASE Flood
  <2>1. btPhase = "flood" /\ btPhase' = btPhase
    BY <1>4 DEF Flood
  <2> QED
    BY <1>4, <2>1, FloodStep DEF SolveInv
<1>5. CASE Report \/ Trace
  <2>1. btPhase # "generate" /\ btPhase' # "generate" /\ UNCHANGED <<btProgram, unifying, waiting, status, pending>>
    BY <1>5 DEF Report, Trace, graph
  <2>2. FloodInv
    BY <2>1 DEF SolveInv
  <2>3. FloodInv'
    BY <2>1, <2>2 DEF FloodInv, Reached
  <2> QED
    BY <2>1, <2>3 DEF SolveInv
<1>6. CASE UNCHANGED btvars
  <2>1. UNCHANGED <<btProgram, btPhase, todo, unifying, unionfind, waiting, status, pending>>
    BY <1>6 DEF btvars, graph
  <2> QED
    BY <2>1 DEF SolveInv, GenerateInv, FloodInv, Reached
<1> QED
  BY <1>1, <1>2, <1>3, <1>4, <1>5, <1>6 DEF BTNext

\* At the end nothing more can be reached.
LEMMA SolvedIsLeast == SolveInv => SolutionIsLeast
<1> SUFFICES ASSUME FloodInv, pending = <<>>
             PROVE  Reached = DynamicIn(btProgram)
  BY DEF SolveInv, SolutionIsLeast, Reached
<1>1. btProgram \in RequestSets /\ Dynamic \in Reached /\ Reached \subseteq DynamicIn(btProgram)
      /\ status \in [BtVars -> {"untouched", "pending", "dynamic"}]
  BY DEF FloodInv
<1>2. ToSet(pending) = {}
  BY DEF ToSet
<1>3. \A v \in Reached : waiting[v] = <<>>
  BY <1>1, <1>2 DEF FloodInv, Reached
<1>4. Shut(waiting, Reached)
  BY <1>3 DEF Shut
<1>5. Reached \in SUBSET BtVars
  BY DEF Reached
<1>6. Respects(Reached, Asked(btProgram))
  BY <1>4, <1>5 DEF FloodInv
<1> QED
  BY <1>1, <1>5, <1>6, DynamicIs

\* btsolve.cc and BTequalizer: when the flood has come to rest, exactly those
\* variables are dynamic that the requests of the program ask for, in whatever
\* order these came; that unify stops at types that are equal, or soon will be,
\* loses nothing, also for recursive types.
THEOREM SolutionAlwaysLeast == BTSpec => []SolutionIsLeast
<1>1. BTInit => SolveInv
  BY InitGenerate DEF SolveInv, BTInit
<1>2. SolveInv /\ [BTNext]_btvars => SolveInv'
  BY StepSolve
<1>3. SolveInv => SolutionIsLeast
  BY SolvedIsLeast
<1> QED
  BY <1>1, <1>2, <1>3, PTL DEF BTSpec

----------------------------------------------------------------------------
(***************************************************************************)
(* Causes.  The lists of the graph grow at the end only, and so do those   *)
(* of the causes; what is counted, the uses of a cause, is a set of pairs  *)
(* of a variable and a place in its list.                                  *)
(***************************************************************************)
LEMMA UsesAre ==
  ASSUME NEW lists, GraphType(lists), NEW c
  PROVE  /\ Uses(lists, c) = {p \in BtVars \X Nat : p[2] \in DOMAIN lists[p[1]] /\ lists[p[1]][p[2]][2] = c}
         /\ IsFiniteSet(Uses(lists, c))
<1> DEFINE At(v) == {i \in DOMAIN lists[v] : lists[v][i][2] = c}
           f == [v \in BtVars |-> {v} \X At(v)]
<1>1. ASSUME NEW v \in BtVars
      PROVE  Len(lists[v]) \in Nat /\ DOMAIN lists[v] = 1 .. Len(lists[v])
  BY <1>1 DEF GraphType
<1>2. \A v \in BtVars : IsFiniteSet(f[v])
  <2>1. ASSUME NEW v \in BtVars
        PROVE  IsFiniteSet(f[v])
    <3>1. IsFiniteSet(DOMAIN lists[v])
      BY <1>1, FS_Interval
    <3>2. At(v) \in SUBSET (DOMAIN lists[v])
      OBVIOUS
    <3>3. IsFiniteSet(At(v))
      BY <3>1, <3>2, FS_Subset
    <3> HIDE DEF At
    <3>4. IsFiniteSet({v} \X At(v))
      BY <3>3, FS_Singleton, FS_Product
    <3> QED
      BY <3>4
  <2> QED
    BY <2>1
<1>3. Uses(lists, c) = UNION {f[v] : v \in BtVars}
  BY DEF Uses
<1>4. IsFiniteSet(Uses(lists, c))
  <2> HIDE DEF f
  <2>1. DOMAIN f = BtVars
    BY DEF f
  <2> QED
    BY <1>2, <1>3, <2>1, TypesAssumption, FamilyFinite
<1>5. \A p \in Uses(lists, c) : p \in BtVars \X Nat /\ p[2] \in DOMAIN lists[p[1]] /\ lists[p[1]][p[2]][2] = c
  <2> SUFFICES ASSUME NEW v \in BtVars, NEW i \in At(v), NEW p, p = <<v, i>>
               PROVE  p \in BtVars \X Nat /\ p[2] \in DOMAIN lists[p[1]] /\ lists[p[1]][p[2]][2] = c
    BY DEF Uses
  <2> QED
    BY <1>1
<1>6. ASSUME NEW p \in BtVars \X Nat, p[2] \in DOMAIN lists[p[1]], lists[p[1]][p[2]][2] = c
      PROVE  p \in Uses(lists, c)
  <2>1. p[1] \in BtVars /\ p[2] \in At(p[1]) /\ p = <<p[1], p[2]>>
    BY <1>6
  <2>2. p \in {p[1]} \X At(p[1])
    BY <2>1
  <2> QED
    BY <2>1, <2>2 DEF Uses
<1> QED
  BY <1>4, <1>5, <1>6

\* Each list with another one behind it.
Behind(old, more) == [v \in BtVars |-> old[v] \o more[v]]

LEMMA BehindIs ==
  ASSUME NEW old, GraphType(old), NEW more, GraphType(more), NEW v \in BtVars
  PROVE  /\ Behind(old, more)[v] \in Seq(BtVars \X Requests)
         /\ Len(old[v]) \in Nat /\ DOMAIN more[v] \subseteq Nat
         /\ \A i \in DOMAIN old[v] : i \in DOMAIN Behind(old, more)[v] /\ Behind(old, more)[v][i] = old[v][i]
         /\ \A i \in DOMAIN more[v] :
              /\ Len(old[v]) + i \in DOMAIN Behind(old, more)[v] /\ Len(old[v]) + i \notin DOMAIN old[v]
              /\ Behind(old, more)[v][Len(old[v]) + i] = more[v][i]
         /\ \A k \in DOMAIN Behind(old, more)[v] : k \in DOMAIN old[v] \/ \E i \in DOMAIN more[v] : k = Len(old[v]) + i
<1> DEFINE X == BtVars \X Requests
           s == old[v]
           t == more[v]
<1>1. s \in Seq(X) /\ t \in Seq(X)
  BY DEF GraphType
<1>2. Behind(old, more)[v] = s \o t
  BY DEF Behind
<1> HIDE DEF X, s, t
<1>3. /\ s \o t \in Seq(X) /\ Len(s \o t) = Len(s) + Len(t)
      /\ \A i \in 1 .. Len(s) + Len(t) : (s \o t)[i] = IF i <= Len(s) THEN s[i] ELSE t[i - Len(s)]
  BY <1>1, ConcatProperties
<1>4. /\ Len(s) \in Nat /\ DOMAIN s = 1 .. Len(s) /\ Len(t) \in Nat /\ DOMAIN t = 1 .. Len(t)
      /\ DOMAIN (s \o t) = 1 .. Len(s) + Len(t)
  BY <1>1, <1>3
<1>5. \A i \in DOMAIN s : i \in DOMAIN (s \o t) /\ (s \o t)[i] = s[i]
  BY <1>3, <1>4
<1>6. ASSUME NEW i \in DOMAIN t
      PROVE  Len(s) + i \in DOMAIN (s \o t) /\ Len(s) + i \notin DOMAIN s /\ (s \o t)[Len(s) + i] = t[i]
  <2>1. Len(s) + i \in 1 .. Len(s) + Len(t) /\ ~ (Len(s) + i <= Len(s)) /\ (Len(s) + i) - Len(s) = i
    BY <1>4
  <2> QED
    BY <1>3, <1>4, <2>1
<1>7. ASSUME NEW k \in DOMAIN (s \o t)
      PROVE  k \in DOMAIN s \/ \E i \in DOMAIN t : k = Len(s) + i
  <2>1. k \in DOMAIN s \/ (k - Len(s) \in DOMAIN t /\ k = Len(s) + (k - Len(s)))
    BY <1>4
  <2> QED
    BY <2>1
<1>8. Len(s) \in Nat /\ DOMAIN t \subseteq Nat
  BY <1>4
<1> QED
  BY <1>2, <1>3, <1>5, <1>6, <1>7, <1>8 DEF X, s, t

\* Each entry of the lists is by a request that asks for it.
Real(lists) == \A v \in BtVars : \A i \in DOMAIN lists[v] : <<v, lists[v][i][1]>> \in Asked({lists[v][i][2]})

LEMMA UsesBehind ==
  ASSUME NEW old, GraphType(old), NEW more, GraphType(more)
  PROVE  /\ GraphType(Behind(old, more))
         /\ Real(old) /\ Real(more) => Real(Behind(old, more))
         /\ \A c : Cardinality(Uses(Behind(old, more), c)) = Cardinality(Uses(old, c)) + Cardinality(Uses(more, c))
<1> DEFINE new == Behind(old, more)
<1>1. \A v \in BtVars : new[v] \in Seq(BtVars \X Requests) /\ Len(old[v]) \in Nat /\ DOMAIN more[v] \subseteq Nat
  BY BehindIs
<1>2. \A v \in BtVars : \A i \in DOMAIN old[v] : i \in DOMAIN new[v] /\ new[v][i] = old[v][i]
  BY BehindIs
<1>3. \A v \in BtVars : \A i \in DOMAIN more[v] :
        /\ Len(old[v]) + i \in DOMAIN new[v] /\ Len(old[v]) + i \notin DOMAIN old[v]
        /\ new[v][Len(old[v]) + i] = more[v][i]
  BY BehindIs
<1>4. \A v \in BtVars : \A k \in DOMAIN new[v] : k \in DOMAIN old[v] \/ \E i \in DOMAIN more[v] : k = Len(old[v]) + i
  BY BehindIs
<1>5. GraphType(new)
  <2>1. new = [v \in BtVars |-> new[v]]
    BY DEF Behind
  <2> HIDE DEF new
  <2> QED
    BY <1>1, <2>1 DEF GraphType
<1> HIDE DEF new
<1>6. ASSUME Real(old), Real(more)
      PROVE  Real(new)
  <2>1. ASSUME NEW v \in BtVars, NEW k \in DOMAIN new[v]
        PROVE  <<v, new[v][k][1]>> \in Asked({new[v][k][2]})
    <3>1. CASE k \in DOMAIN old[v]
      <4>1. new[v][k] = old[v][k]
        BY <1>2, <3>1
      <4> QED
        BY <1>6, <3>1, <4>1 DEF Real
    <3>2. CASE \E i \in DOMAIN more[v] : k = Len(old[v]) + i
      <4>1. PICK i \in DOMAIN more[v] : k = Len(old[v]) + i
        BY <3>2
      <4>2. new[v][k] = more[v][i]
        BY <1>3, <4>1
      <4> QED
        BY <1>6, <4>1, <4>2 DEF Real
    <3> QED
      BY <1>4, <2>1, <3>1, <3>2
  <2> QED
    BY <2>1 DEF Real
<1>7. ASSUME NEW c
      PROVE  Cardinality(Uses(new, c)) = Cardinality(Uses(old, c)) + Cardinality(Uses(more, c))
  <2> DEFINE O == Uses(old, c)
             M == Uses(more, c)
             W == Uses(new, c)
             f == [p \in M |-> <<p[1], Len(old[p[1]]) + p[2]>>]
             T == {f[p] : p \in M}
  <2>1. /\ O = {p \in BtVars \X Nat : p[2] \in DOMAIN old[p[1]] /\ old[p[1]][p[2]][2] = c}
        /\ M = {p \in BtVars \X Nat : p[2] \in DOMAIN more[p[1]] /\ more[p[1]][p[2]][2] = c}
        /\ W = {p \in BtVars \X Nat : p[2] \in DOMAIN new[p[1]] /\ new[p[1]][p[2]][2] = c}
        /\ IsFiniteSet(O) /\ IsFiniteSet(M)
    BY <1>5, UsesAre
  <2> HIDE DEF O, M, W
  <2>2. \A p \in M : /\ p = <<p[1], p[2]>> /\ p[1] \in BtVars /\ p[2] \in DOMAIN more[p[1]] /\ more[p[1]][p[2]][2] = c
                     /\ p[2] \in Nat /\ Len(old[p[1]]) \in Nat
                     /\ f[p] = <<p[1], Len(old[p[1]]) + p[2]>>
    BY <1>1, <2>1
  <2>3. f \in [M -> T] /\ \A t \in T : \E p \in M : f[p] = t
    OBVIOUS
  <2>4. \A p \in M : f[p] \in T
    OBVIOUS
  <2> HIDE DEF f, T
  <2>5. \A p, q \in M : f[p] = f[q] => p = q
    <3> SUFFICES ASSUME NEW p \in M, NEW q \in M, f[p] = f[q]
                 PROVE  p = q
      OBVIOUS
    <3>1. p[1] = q[1] /\ Len(old[p[1]]) + p[2] = Len(old[p[1]]) + q[2]
      BY <2>2
    <3>2. p[2] = q[2]
      BY <2>2, <3>1
    <3> QED
      BY <2>2, <3>1, <3>2
  <2>6. IsFiniteSet(T) /\ Cardinality(T) = Cardinality(M)
    BY <2>1, <2>3, <2>5, SameSize
  <2>7. ASSUME NEW p \in M
        PROVE  f[p] \in W /\ f[p] \notin O
    <3> DEFINE v == p[1]
               i == p[2]
               k == Len(old[v]) + i
    <3>1. f[p] = <<v, k>> /\ v \in BtVars /\ i \in DOMAIN more[v] /\ more[v][i][2] = c /\ k \in Nat
      BY <2>2
    <3>2. k \in DOMAIN new[v] /\ k \notin DOMAIN old[v] /\ new[v][k] = more[v][i]
      BY <1>3, <3>1
    <3> HIDE DEF v, i, k
    <3> QED
      BY <2>1, <3>1, <3>2
  <2>8. O \subseteq W
    <3>1. \A p \in O : /\ p \in BtVars \X Nat /\ p[1] \in BtVars /\ p[2] \in DOMAIN old[p[1]]
                       /\ old[p[1]][p[2]][2] = c
      BY <2>1
    <3>2. \A p \in O : p[2] \in DOMAIN new[p[1]] /\ new[p[1]][p[2]] = old[p[1]][p[2]]
      BY <1>2, <3>1
    <3> QED
      BY <2>1, <3>1, <3>2
  <2>9. ASSUME NEW p \in W, p \notin O
        PROVE  p \in T
    <3> DEFINE v == p[1]
               k == p[2]
    <3>1. p = <<v, k>> /\ v \in BtVars /\ k \in DOMAIN new[v] /\ new[v][k][2] = c /\ p \in BtVars \X Nat
      BY <2>1
    <3>2. ~ (k \in DOMAIN old[v] /\ old[v][k][2] = c)
      BY <2>1, <2>9, <3>1
    <3> HIDE DEF v, k
    <3>3. k \notin DOMAIN old[v]
      BY <1>2, <3>1, <3>2
    <3>4. PICK i \in DOMAIN more[v] : k = Len(old[v]) + i
      BY <1>4, <3>1, <3>3
    <3>5. new[v][k] = more[v][i] /\ i \in Nat
      BY <1>1, <1>3, <3>1, <3>4
    <3>6. <<v, i>> \in M
      BY <2>1, <3>1, <3>4, <3>5
    <3>7. f[<<v, i>>] = <<v, Len(old[v]) + i>>
      BY <3>6 DEF f
    <3> QED
      BY <2>4, <3>1, <3>4, <3>6, <3>7
  <2>10. \A t \in T : t \in W /\ t \notin O
    BY <2>3, <2>7
  <2>11. W = O \cup T /\ O \cap T = {}
    BY <2>8, <2>9, <2>10
  <2>12. Cardinality(O \cup T) = Cardinality(O) + Cardinality(T)
    BY <2>1, <2>6, <2>11, DisjointSize
  <2> QED
    BY <2>6, <2>11, <2>12 DEF O, M, W
<1> QED
  BY <1>5, <1>6, <1>7 DEF new

\* The other causes are used as often in either graph.
SameButFor(c, w, new) == \A q : q # c => Cardinality(Uses(new, q)) = Cardinality(Uses(w, q))

Moved(to) == {v \in DOMAIN to : to[v] # v}

\* What influence adds, and how often it counts the cause.
LEMMA UsesInfluenced ==
  ASSUME NEW w, GraphType(w), NEW c \in Requests, NEW to,
         DOMAIN to \subseteq BtVars, \A v \in DOMAIN to : to[v] \in BtVars
  PROVE  /\ GraphType(Influenced(w, to, c))
         /\ Real(w) /\ (\A v \in DOMAIN to : <<v, to[v]>> \in Asked({c})) => Real(Influenced(w, to, c))
         /\ SameButFor(c, w, Influenced(w, to, c))
         /\ Cardinality(Uses(Influenced(w, to, c), c)) = Cardinality(Uses(w, c)) + Cardinality(Moved(to))
<1> DEFINE From == {v \in DOMAIN to : to[v] # v}
           X == BtVars \X Requests
           more == [v \in BtVars |-> IF v \in From THEN << <<to[v], c>> >> ELSE <<>>]
<1>1. \A v \in From : <<to[v], c>> \in X /\ v \in BtVars
  OBVIOUS
<1>2. \A v \in BtVars : more[v] = IF v \in From THEN << <<to[v], c>> >> ELSE <<>>
  OBVIOUS
<1>3. \A v \in BtVars : /\ v \in From => more[v] = << <<to[v], c>> >> /\ more[v] \in Seq(X)
                        /\ v \notin From => more[v] = <<>> /\ more[v] \in Seq(X)
  <2> SUFFICES ASSUME NEW v \in BtVars
               PROVE  /\ v \in From => more[v] = << <<to[v], c>> >> /\ more[v] \in Seq(X)
                      /\ v \notin From => more[v] = <<>> /\ more[v] \in Seq(X)
    OBVIOUS
  <2> HIDE DEF From, X
  <2>1. CASE v \in From
    <3> DEFINE x == <<to[v], c>>
    <3>1. x \in X
      BY <1>1, <2>1
    <3> HIDE DEF x
    <3>2. <<x>> \in Seq(X)
      BY <3>1
    <3> QED
      BY <1>2, <2>1, <3>2 DEF x
  <2>2. CASE v \notin From
    BY <1>2, <2>2
  <2> QED
    BY <2>1, <2>2
<1>4. GraphType(more)
  <2>1. more = [v \in BtVars |-> more[v]]
    OBVIOUS
  <2> HIDE DEF more, From
  <2> QED
    BY <1>3, <2>1 DEF GraphType
<1>5. Influenced(w, to, c) = Behind(w, more)
  <2> DEFINE A == Influenced(w, to, c)
             B == Behind(w, more)
  <2>1. A = [v \in BtVars |-> A[v]]
    BY DEF Influenced
  <2>2. B = [v \in BtVars |-> B[v]]
    BY DEF Behind
  <2>3. \A v \in BtVars : A[v] = IF v \in From THEN Append(w[v], <<to[v], c>>) ELSE w[v]
    BY DEF Influenced
  <2>4. \A v \in BtVars : B[v] = w[v] \o more[v]
    BY DEF Behind
  <2> HIDE DEF A, B, more, From
  <2>5. ASSUME NEW v \in BtVars
        PROVE  A[v] = B[v]
    <3>1. w[v] \in Seq(X)
      BY DEF GraphType
    <3>2. CASE v \in From
      <4> DEFINE x == <<to[v], c>>
                 s == w[v]
      <4>1. x \in X
        BY <1>1, <3>2
      <4> HIDE DEF x, X, s
      <4>2. Append(s, x) = s \o <<x>>
        BY <3>1, <4>1, AppendIsConcat DEF s
      <4> QED
        BY <1>3, <2>3, <2>4, <3>2, <4>2 DEF x, s
    <3>3. CASE v \notin From
      <4>1. w[v] \o <<>> = w[v]
        BY <3>1, ConcatEmptySeq
      <4> QED
        BY <1>3, <2>3, <2>4, <3>3, <4>1
    <3> QED
      BY <3>2, <3>3
  <2>6. [v \in BtVars |-> A[v]] = [v \in BtVars |-> B[v]]
    BY <2>5
  <2>7. A = B
    BY <2>1, <2>2, <2>6, Zenon
  <2> QED
    BY <2>7 DEF A, B
<1> HIDE DEF more
<1>6. /\ GraphType(Behind(w, more))
      /\ Real(w) /\ Real(more) => Real(Behind(w, more))
      /\ \A q : Cardinality(Uses(Behind(w, more), q)) = Cardinality(Uses(w, q)) + Cardinality(Uses(more, q))
  BY <1>4, UsesBehind
<1>7. \A v \in BtVars : /\ \A i \in DOMAIN more[v] : v \in From /\ i = 1 /\ more[v][i] = <<to[v], c>>
                        /\ v \in From => 1 \in DOMAIN more[v]
  <2> HIDE DEF From
  <2> SUFFICES ASSUME NEW v \in BtVars
               PROVE  /\ \A i \in DOMAIN more[v] : v \in From /\ i = 1 /\ more[v][i] = <<to[v], c>>
                      /\ v \in From => 1 \in DOMAIN more[v]
    OBVIOUS
  <2>1. CASE v \in From
    <3>1. more[v] = << <<to[v], c>> >>
      BY <1>3, <2>1
    <3> QED
      BY <2>1, <3>1
  <2>2. CASE v \notin From
    <3>1. more[v] = <<>>
      BY <1>3, <2>2
    <3> QED
      BY <2>2, <3>1
  <2> QED
    BY <2>1, <2>2
<1>8. (\A v \in DOMAIN to : <<v, to[v]>> \in Asked({c})) => Real(more)
  BY <1>7 DEF Real
<1>9. ASSUME NEW q
      PROVE  Cardinality(Uses(more, q)) = IF q = c THEN Cardinality(From) ELSE 0
  <2>1. /\ Uses(more, q) = {p \in BtVars \X Nat : p[2] \in DOMAIN more[p[1]] /\ more[p[1]][p[2]][2] = q}
        /\ IsFiniteSet(Uses(more, q))
    BY <1>4, UsesAre
  <2>2. \A p \in Uses(more, q) : p = <<p[1], 1>> /\ p[1] \in From /\ q = c
    BY <1>7, <2>1
  <2>3. q = c => \A v \in From : <<v, 1>> \in Uses(more, q)
    BY <1>1, <1>7, <2>1
  <2>4. CASE q # c
    <3>1. Uses(more, q) = {}
      BY <2>2, <2>4
    <3> QED
      BY <2>4, <3>1, FS_EmptySet
  <2>5. CASE q = c
    <3> DEFINE T == Uses(more, q)
               f == [p \in T |-> p[1]]
    <3> HIDE DEF From
    <3>1. IsFiniteSet(T)
      BY <2>1
    <3>2. f \in [T -> From]
      BY <2>2
    <3>3. \A x, y \in T : f[x] = f[y] => x = y
      BY <2>2
    <3>4. \A t \in From : \E x \in T : f[x] = t
      <4> SUFFICES ASSUME NEW t \in From
                   PROVE  \E x \in T : f[x] = t
        OBVIOUS
      <4>1. <<t, 1>> \in T
        BY <2>3, <2>5
      <4>2. f[<<t, 1>>] = t
        BY <4>1
      <4> QED
        BY <4>1, <4>2
    <3> HIDE DEF f, T
    <3>5. Cardinality(From) = Cardinality(T)
      BY <3>1, <3>2, <3>3, <3>4, SameSize
    <3> QED
      BY <2>5, <3>5 DEF T
  <2> QED
    BY <2>4, <2>5
<1> HIDE DEF From
<1>10. SameButFor(c, w, Behind(w, more))
  <2> SUFFICES ASSUME NEW q, q # c
               PROVE  Cardinality(Uses(Behind(w, more), q)) = Cardinality(Uses(w, q))
    BY DEF SameButFor
  <2>1. Cardinality(Uses(more, q)) = 0
    BY <1>9
  <2>2. Cardinality(Uses(w, q)) \in Nat
    BY UsesAre, FS_CardinalityType
  <2>3. Cardinality(Uses(Behind(w, more), q)) = Cardinality(Uses(w, q)) + Cardinality(Uses(more, q))
    BY <1>6
  <2> QED
    BY <2>1, <2>2, <2>3
<1>11. Cardinality(Uses(Behind(w, more), c)) = Cardinality(Uses(w, c)) + Cardinality(From)
  BY <1>6, <1>9
<1> QED
  BY <1>5, <1>6, <1>8, <1>10, <1>11 DEF From, Moved

\* The entries of a list by the request q; those of them that are for variables of S.
By(list, q)       == {i \in DOMAIN list : list[i][2] = q}
Given(list, q, S) == {i \in By(list, q) : list[i][1] \in S}

\* What is no longer counted when a list is taken.
LEMMA UsesTaken ==
  ASSUME NEW w, GraphType(w), NEW v \in BtVars, NEW q
  PROVE  LET new == [w EXCEPT ![v] = <<>>]
             S   == By(w[v], q)
         IN  /\ GraphType(new) /\ (Real(w) => Real(new))
             /\ IsFiniteSet(S)
             /\ Cardinality(Uses(w, q)) = Cardinality(Uses(new, q)) + Cardinality(S)
<1> DEFINE new == [w EXCEPT ![v] = <<>>]
           S == {i \in DOMAIN w[v] : w[v][i][2] = q}
           T == {v} \X S
           f == [i \in S |-> <<v, i>>]
<1>1. new = [u \in BtVars |-> IF u = v THEN <<>> ELSE w[u]]
  BY DEF GraphType
<1>2. \A u \in BtVars : (u = v => new[u] = <<>>) /\ (u # v => new[u] = w[u])
  BY <1>1
<1>3. GraphType(new)
  BY <1>1 DEF GraphType
<1> HIDE DEF new
<1>4. Real(w) => Real(new)
  <2> SUFFICES ASSUME Real(w), NEW u \in BtVars, NEW i \in DOMAIN new[u]
               PROVE  <<u, new[u][i][1]>> \in Asked({new[u][i][2]})
    BY DEF Real
  <2>1. new[u] = w[u]
    BY <1>2
  <2> QED
    BY <2>1 DEF Real
<1>5. DOMAIN w[v] \subseteq Nat /\ IsFiniteSet(DOMAIN w[v])
  <2>1. Len(w[v]) \in Nat /\ DOMAIN w[v] = 1 .. Len(w[v])
    BY DEF GraphType
  <2> QED
    BY <2>1, FS_Interval
<1>6. IsFiniteSet(S)
  <2>1. S \in SUBSET (DOMAIN w[v])
    OBVIOUS
  <2> HIDE DEF S
  <2> QED
    BY <1>5, <2>1, FS_Subset
<1>7. /\ Uses(w, q) = {p \in BtVars \X Nat : p[2] \in DOMAIN w[p[1]] /\ w[p[1]][p[2]][2] = q}
      /\ Uses(new, q) = {p \in BtVars \X Nat : p[2] \in DOMAIN new[p[1]] /\ new[p[1]][p[2]][2] = q}
      /\ IsFiniteSet(Uses(new, q))
  BY <1>3, UsesAre
<1>8. \A p \in Uses(new, q) : p \in Uses(w, q) /\ p[1] # v
  BY <1>2, <1>7
<1>9. \A p \in Uses(w, q) : p \in Uses(new, q) \/ p \in T
  <2> SUFFICES ASSUME NEW p \in Uses(w, q)
               PROVE  p \in Uses(new, q) \/ p \in T
    OBVIOUS
  <2>1. p \in BtVars \X Nat /\ p = <<p[1], p[2]>> /\ p[1] \in BtVars /\ p[2] \in DOMAIN w[p[1]] /\ w[p[1]][p[2]][2] = q
    BY <1>7
  <2> QED
    BY <1>2, <1>7, <2>1
<1>10. \A p \in T : p \in Uses(w, q) /\ p[1] = v
  BY <1>5, <1>7
<1>11. IsFiniteSet(T) /\ Cardinality(T) = Cardinality(S)
  <2>1. f \in [S -> T] /\ (\A x, y \in S : f[x] = f[y] => x = y) /\ \A t \in T : \E x \in S : f[x] = t
    OBVIOUS
  <2> HIDE DEF f, S, T
  <2> QED
    BY <1>6, <2>1, SameSize
<1> HIDE DEF T, S
<1>12. Uses(w, q) = Uses(new, q) \cup T /\ Uses(new, q) \cap T = {}
  BY <1>8, <1>9, <1>10
<1>13. Cardinality(Uses(new, q) \cup T) = Cardinality(Uses(new, q)) + Cardinality(T)
  BY <1>7, <1>11, <1>12, DisjointSize
<1> QED
  BY <1>3, <1>4, <1>6, <1>11, <1>12, <1>13 DEF new, S, By

\* R are the reasons why w is dynamic, by an entry of the list of v each: b[i] is the place of entry i.
ReasonsBy(b, R, list, v, w) ==
  /\ R \in Seq(BtVars \X Requests)
  /\ \A i \in DOMAIN list : list[i][1] = w => b[i] \in DOMAIN R /\ R[b[i]] = <<v, list[i][2]>>
  /\ \A i, j \in DOMAIN list : list[i][1] = w /\ list[j][1] = w /\ b[i] = b[j] => i = j
  /\ \A k \in DOMAIN R : \E i \in DOMAIN list : list[i][1] = w /\ b[i] = k

LEMMA ReasonsAre ==
  ASSUME NEW list \in Seq(BtVars \X Requests), NEW v \in BtVars, NEW w
  PROVE  \E b : ReasonsBy(b, Reasons(list, v, w), list, v, w)
<1> DEFINE L == Len(list)
           X == BtVars \X Requests
           Next1(q, n) == IF list[n][1] = w THEN Append(q, <<v, list[n][2]>>) ELSE q
           Body(R) == [n \in 0 .. L |-> IF n = 0 THEN <<>> ELSE IF list[n][1] = w THEN Append(R[n - 1], <<v, list[n][2]>>) ELSE R[n - 1]]
           R == CHOOSE R : R = Body(R)
<1>1. L \in Nat /\ DOMAIN list = 1 .. L /\ \A i \in 1 .. L : <<v, list[i][2]>> \in X
  OBVIOUS
<1>2. ASSUME NEW q \in Seq(X), NEW n \in 1 .. L
      PROVE  Next1(q, n) \in Seq(X)
  <2> DEFINE x == <<v, list[n][2]>>
  <2>1. x \in X
    BY <1>1
  <2> HIDE DEF x, X
  <2>2. Append(q, x) \in Seq(X)
    BY <2>1
  <2> QED
    BY <2>2 DEF x
<1> HIDE DEF X
<1>3. \E H : H = Body(H)
  <2> DEFINE f == [p \in Seq(X) \X (1 .. L) |-> Next1(p[1], p[2])]
             Y == Seq(X)
             nil == <<>>
  <2> HIDE DEF Next1
  <2>1. f \in [Y \X (1 .. L) -> Y] /\ nil \in Y
    BY <1>2
  <2>2. \A q \in Y : \A n \in 1 .. L : f[<<q, n>>] = Next1(q, n)
    OBVIOUS
  <2> HIDE DEF f, Y, L, nil
  <2>3. PICK H : Rounds(H, L, Y, nil, f)
    BY <1>1, <2>1, LoopExists
  <2>4. /\ H \in [0 .. L -> Y]
        /\ \A n \in 0 .. L : H[n] = IF n = 0 THEN nil ELSE f[<<H[n - 1], n>>]
    BY <2>3 DEF Rounds
  <2>5. ASSUME NEW n \in 0 .. L
        PROVE  H[n] = IF n = 0 THEN nil ELSE Next1(H[n - 1], n)
    <3>1. n # 0 => n \in 1 .. L /\ n - 1 \in 0 .. L
      BY <1>1
    <3> QED
      BY <2>2, <2>4, <3>1
  <2>6. H = [n \in 0 .. L |-> H[n]]
    BY <2>4
  <2>7. H = Body(H)
    <3> DEFINE B == Body(H)
    <3>1. B = [n \in 0 .. L |-> B[n]]
      OBVIOUS
    <3>2. \A n \in 0 .. L : B[n] = IF n = 0 THEN nil ELSE Next1(H[n - 1], n)
      BY DEF Next1, nil
    <3> HIDE DEF B
    <3>3. \A n \in 0 .. L : B[n] = H[n]
      BY <2>5, <3>2
    <3>4. B = H
      BY <2>6, <3>1, <3>3
    <3> QED
      BY <3>4 DEF B
  <2> QED
    BY <2>7
<1>4. R = Body(R)
  BY <1>3
<1>5. Reasons(list, v, w) = R[L]
  BY DEF Reasons
<1> HIDE DEF R
<1>6. \A n \in 0 .. L : R[n] = IF n = 0 THEN <<>> ELSE Next1(R[n - 1], n)
  BY <1>4
<1> HIDE DEF Next1
<1> DEFINE b == [i \in 1 .. L |-> Len(R[i])]
           Is(n) == {i \in 1 .. n : list[i][1] = w}
           Right(n) == /\ R[n] \in Seq(X)
                       /\ \A i \in Is(n) : b[i] \in DOMAIN R[n] /\ R[n][b[i]] = <<v, list[i][2]>>
                       /\ \A i, j \in Is(n) : b[i] = b[j] => i = j
                       /\ \A k \in DOMAIN R[n] : \E i \in Is(n) : b[i] = k
           N == {n \in Nat : n <= L => Right(n)}
<1>7. Right(0)
  <2>1. R[0] = <<>>
    BY <1>1, <1>6
  <2>2. Is(0) = {}
    OBVIOUS
  <2> QED
    BY <2>1, <2>2
<1>8. ASSUME NEW n \in Nat, n + 1 <= L, Right(n)
      PROVE  Right(n + 1)
  <2> DEFINE m == n + 1
             q == R[n]
             x == <<v, list[m][2]>>
  <2>1. m \in 0 .. L /\ m \in 1 .. L /\ m # 0 /\ m - 1 = n /\ n <= L
    BY <1>1, <1>8
  <2>2. R[m] = IF list[m][1] = w THEN Append(q, x) ELSE q
    BY <1>6, <2>1 DEF Next1
  <2>3. Right(n)
    BY <1>8
  <2>4. b[m] = Len(R[m])
    BY <2>1
  <2>5. Is(m) = Is(n) \cup (IF list[m][1] = w THEN {m} ELSE {}) /\ m \notin Is(n)
    <3>1. 1 .. m = (1 .. n) \cup {m} /\ m \notin 1 .. n
      BY <2>1
    <3> QED
      BY <3>1
  <2>6. x \in X
    BY <1>1, <2>1
  <2>7. /\ q \in Seq(X)
        /\ \A i \in Is(n) : b[i] \in DOMAIN q /\ q[b[i]] = <<v, list[i][2]>>
        /\ \A i, j \in Is(n) : b[i] = b[j] => i = j
        /\ \A k \in DOMAIN q : \E i \in Is(n) : b[i] = k
    BY <2>3
  <2> HIDE DEF b, Is, x, q
  <2>8. CASE list[m][1] = w
    <3> DEFINE a == Append(q, x)
    <3>1. /\ a \in Seq(X) /\ Len(a) = Len(q) + 1
          /\ \A i \in 1 .. Len(q) : a[i] = q[i]
          /\ a[Len(q) + 1] = x
      BY <2>6, <2>7, AppendProperties
    <3> HIDE DEF a
    <3>2. Len(q) \in Nat /\ DOMAIN q = 1 .. Len(q) /\ DOMAIN a = 1 .. Len(q) + 1
      BY <2>7, <3>1
    <3>3. /\ \A k \in DOMAIN q : k \in DOMAIN a /\ a[k] = q[k] /\ k # Len(a)
          /\ Len(a) \in DOMAIN a /\ a[Len(a)] = x
          /\ \A k \in DOMAIN a : k \in DOMAIN q \/ k = Len(a)
      BY <3>1, <3>2
    <3>4. R[m] = a /\ b[m] = Len(a) /\ Is(m) = Is(n) \cup {m}
      BY <2>2, <2>4, <2>5, <2>8 DEF a
    <3> HIDE DEF m
    <3>5. \A i \in Is(m) : b[i] \in DOMAIN a /\ a[b[i]] = <<v, list[i][2]>>
      BY <2>7, <3>3, <3>4 DEF x
    <3>6. \A i, j \in Is(m) : b[i] = b[j] => i = j
      BY <2>7, <3>3, <3>4
    <3>7. \A k \in DOMAIN a : \E i \in Is(m) : b[i] = k
      BY <2>7, <3>3, <3>4
    <3> QED
      BY <3>1, <3>4, <3>5, <3>6, <3>7 DEF m
  <2>9. CASE list[m][1] # w
    <3>1. R[m] = q /\ Is(m) = Is(n)
      BY <2>2, <2>5, <2>9
    <3> QED
      BY <2>7, <3>1
  <2> QED
    BY <2>8, <2>9
<1> HIDE DEF Right
<1>9. L \in N
  <2>1. 0 \in N
    BY <1>7
  <2>2. \A n \in Nat : n \in N => n + 1 \in N
    BY <1>1, <1>8
  <2> HIDE DEF N
  <2> QED
    BY <1>1, <2>1, <2>2, NatSets
<1>10. Right(L)
  BY <1>1, <1>9
<1>11. \A i : i \in Is(L) <=> i \in DOMAIN list /\ list[i][1] = w
  BY <1>1
<1> HIDE DEF b, Is
<1>12. ReasonsBy(b, R[L], list, v, w)
  BY <1>10, <1>11 DEF ReasonsBy, Right, X
<1> QED
  BY <1>5, <1>12

\* The reasons that a list gives to the variables of S, one for each of its entries.
ReasonsFor(list, v, S) == [w \in BtVars |-> IF w \in S THEN Reasons(list, v, w) ELSE <<>>]

LEMMA UsesExplained ==
  ASSUME NEW list \in Seq(BtVars \X Requests), NEW v \in BtVars, NEW S
  PROVE  LET more == ReasonsFor(list, v, S)
         IN  /\ GraphType(more)
             /\ \A w \in Targets(list) : w \in S => more[w] # <<>>
             /\ \A w \in BtVars : \A k \in DOMAIN more[w] :
                  more[w][k][1] = v /\ \E i \in DOMAIN list : list[i][1] = w /\ list[i][2] = more[w][k][2]
             /\ \A q : IsFiniteSet(Given(list, q, S)) /\ Cardinality(Uses(more, q)) = Cardinality(Given(list, q, S))
<1> DEFINE more == ReasonsFor(list, v, S)
           B == [w \in BtVars |-> CHOOSE b : ReasonsBy(b, Reasons(list, v, w), list, v, w)]
<1>1. \A w \in BtVars : (w \in S => more[w] = Reasons(list, v, w)) /\ (w \notin S => more[w] = <<>>)
  BY DEF ReasonsFor
<1>2. \A w \in BtVars : w \in S => ReasonsBy(B[w], more[w], list, v, w)
  <2> SUFFICES ASSUME NEW w \in BtVars, w \in S
               PROVE  ReasonsBy(B[w], more[w], list, v, w)
    OBVIOUS
  <2>1. \E b : ReasonsBy(b, Reasons(list, v, w), list, v, w)
    BY ReasonsAre
  <2>2. B[w] = CHOOSE b : ReasonsBy(b, Reasons(list, v, w), list, v, w)
    OBVIOUS
  <2> HIDE DEF B, more
  <2>3. ReasonsBy(B[w], Reasons(list, v, w), list, v, w)
    BY <2>1, <2>2, Zenon
  <2> QED
    BY <1>1, <2>3
<1>3. more = [w \in BtVars |-> more[w]]
  BY DEF ReasonsFor
<1> HIDE DEF B, more
<1>4. GraphType(more)
  <2>1. \A w \in BtVars : w \in S => more[w] \in Seq(BtVars \X Requests)
    BY <1>2 DEF ReasonsBy
  <2>2. \A w \in BtVars : w \notin S => more[w] \in Seq(BtVars \X Requests)
    <3>1. <<>> \in Seq(BtVars \X Requests)
      OBVIOUS
    <3> QED
      BY <1>1, <3>1, Zenon
  <2> QED
    BY <1>3, <2>1, <2>2 DEF GraphType
<1>5. \A i \in DOMAIN list : list[i][1] \in BtVars /\ list[i][2] \in Requests
  OBVIOUS
<1>6. \A i \in DOMAIN list : \A w : list[i][1] = w /\ w \in S =>
        B[w][i] \in DOMAIN more[w] /\ more[w][B[w][i]] = <<v, list[i][2]>>
  <2> SUFFICES ASSUME NEW i \in DOMAIN list, NEW w, list[i][1] = w, w \in S
               PROVE  B[w][i] \in DOMAIN more[w] /\ more[w][B[w][i]] = <<v, list[i][2]>>
    OBVIOUS
  <2>1. ReasonsBy(B[w], more[w], list, v, w)
    BY <1>2, <1>5
  <2> QED
    BY <2>1 DEF ReasonsBy
<1>7. \A w \in BtVars : w \in S => \A i, j \in DOMAIN list : list[i][1] = w /\ list[j][1] = w /\ B[w][i] = B[w][j] => i = j
  BY <1>2 DEF ReasonsBy
<1>8. \A w \in BtVars : \A k \in DOMAIN more[w] : w \in S /\ \E i \in DOMAIN list : list[i][1] = w /\ B[w][i] = k
  <2> SUFFICES ASSUME NEW w \in BtVars, NEW k \in DOMAIN more[w]
               PROVE  w \in S /\ \E i \in DOMAIN list : list[i][1] = w /\ B[w][i] = k
    OBVIOUS
  <2>1. w \in S
    BY <1>1
  <2> QED
    BY <1>2, <2>1 DEF ReasonsBy
<1>9. \A w \in Targets(list) : w \in S => more[w] # <<>>
  <2> SUFFICES ASSUME NEW i \in DOMAIN list, list[i][1] \in S
               PROVE  more[list[i][1]] # <<>>
    BY DEF Targets
  <2>1. B[list[i][1]][i] \in DOMAIN more[list[i][1]]
    BY <1>6
  <2> QED
    BY <2>1
<1>10. ASSUME NEW w \in BtVars, NEW k \in DOMAIN more[w]
       PROVE  more[w][k][1] = v /\ \E i \in DOMAIN list : list[i][1] = w /\ list[i][2] = more[w][k][2]
  <2>1. w \in S
    BY <1>8
  <2>2. PICK i \in DOMAIN list : list[i][1] = w /\ B[w][i] = k
    BY <1>8
  <2>3. more[w][k] = <<v, list[i][2]>>
    BY <1>6, <2>1, <2>2
  <2> QED
    BY <2>2, <2>3
<1>11. ASSUME NEW q
       PROVE  IsFiniteSet(Given(list, q, S)) /\ Cardinality(Uses(more, q)) = Cardinality(Given(list, q, S))
  <2> DEFINE K == Given(list, q, S)
             T == Uses(more, q)
             f == [i \in K |-> <<list[i][1], B[list[i][1]][i]>>]
  <2>1. IsFiniteSet(DOMAIN list)
    <3>1. Len(list) \in Nat /\ DOMAIN list = 1 .. Len(list)
      OBVIOUS
    <3> QED
      BY <3>1, FS_Interval
  <2>2. K \in SUBSET DOMAIN list /\ \A i : i \in K <=> i \in DOMAIN list /\ list[i][2] = q /\ list[i][1] \in S
    BY DEF Given, By
  <2>3. T = {p \in BtVars \X Nat : p[2] \in DOMAIN more[p[1]] /\ more[p[1]][p[2]][2] = q}
    BY <1>4, UsesAre
  <2>4. \A i \in K : f[i] = <<list[i][1], B[list[i][1]][i]>>
    OBVIOUS
  <2>5. f = [i \in K |-> f[i]]
    OBVIOUS
  <2> HIDE DEF K, T, f
  <2>6. IsFiniteSet(K)
    BY <2>1, <2>2, FS_Subset
  <2>7. ASSUME NEW i \in K
        PROVE  f[i] \in T
    <3> DEFINE w == list[i][1]
               k == B[w][i]
    <3>1. w \in BtVars /\ w \in S /\ list[i][2] = q /\ i \in DOMAIN list /\ f[i] = <<w, k>>
      BY <1>5, <2>2, <2>4
    <3>2. k \in DOMAIN more[w] /\ more[w][k] = <<v, q>>
      BY <1>6, <3>1
    <3>3. DOMAIN more[w] \subseteq Nat
      <4>1. more[w] \in Seq(BtVars \X Requests)
        BY <1>4, <3>1 DEF GraphType
      <4> QED
        BY <4>1
    <3> HIDE DEF w, k
    <3> QED
      BY <2>3, <3>1, <3>2, <3>3
  <2>8. f \in [K -> T]
    BY <2>5, <2>7
  <2>9. ASSUME NEW i \in K, NEW j \in K, f[i] = f[j]
        PROVE  i = j
    <3>1. list[i][1] = list[j][1] /\ B[list[i][1]][i] = B[list[j][1]][j]
      BY <2>4, <2>9
    <3> QED
      BY <1>5, <1>7, <2>2, <3>1
  <2>10. ASSUME NEW p \in T
         PROVE  \E i \in K : f[i] = p
    <3> DEFINE w == p[1]
               k == p[2]
    <3>1. p = <<w, k>> /\ w \in BtVars /\ k \in DOMAIN more[w] /\ more[w][k][2] = q
      BY <2>3
    <3> HIDE DEF w, k
    <3>2. PICK i \in DOMAIN list : list[i][1] = w /\ B[w][i] = k
      BY <1>8, <3>1
    <3>3. w \in S
      BY <1>8, <3>1
    <3>4. more[w][k] = <<v, list[i][2]>>
      BY <1>6, <3>2, <3>3
    <3>5. i \in K
      BY <2>2, <3>1, <3>2, <3>3, <3>4
    <3> QED
      BY <2>4, <3>1, <3>2, <3>5
  <2>11. Cardinality(T) = Cardinality(K)
    BY <2>6, <2>8, <2>9, <2>10, SameSize
  <2> QED
    BY <2>6, <2>11 DEF K, T
<1> QED
  BY <1>4, <1>9, <1>10, <1>11 DEF more

----------------------------------------------------------------------------
(***************************************************************************)
(* The invariant.  What waits is by requests that ask for it, too, and the *)
(* calls of unify in progress are about types that their request alone     *)
(* makes equal.                                                            *)
(***************************************************************************)
CountsInv ==
  /\ refcount \in [Requests -> Int]
  /\ GraphType(causes)
  /\ Real(waiting)
  /\ RefcountsAreExact

CausesInv ==
  /\ CountsInv
  /\ \A i \in DOMAIN unifying : <<unifying[i][1], unifying[i][2]>> \in EqualTypes({unifying[i][3]})
  /\ \A v \in BtVars : \A k \in DOMAIN causes[v] :
       status[causes[v][k][1]] = "dynamic" /\ <<causes[v][k][1], v>> \in Asked({causes[v][k][2]})
  /\ \A v \in BtVars : status[v] # "untouched" /\ v # Dynamic => causes[v] # <<>>

LEMMA InitCauses == BTInit => CausesInv
<1> SUFFICES ASSUME BTInit
             PROVE  CausesInv
  OBVIOUS
<1> DEFINE none == [v \in BtVars |-> <<>>]
<1>1. /\ unifying = <<>> /\ waiting = none /\ causes = none
      /\ status = [v \in BtVars |-> "untouched"] /\ refcount = [r \in Requests |-> 0]
  BY DEF BTInit
<1>2. GraphType(none) /\ \A v \in BtVars : DOMAIN none[v] = {}
  BY DEF GraphType
<1> HIDE DEF none
<1>3. \A c : Cardinality(Uses(none, c)) = 0
  <2> SUFFICES ASSUME NEW c
               PROVE  Cardinality(Uses(none, c)) = 0
    OBVIOUS
  <2>1. Uses(none, c) = {p \in BtVars \X Nat : p[2] \in DOMAIN none[p[1]] /\ none[p[1]][p[2]][2] = c}
    BY <1>2, UsesAre
  <2>2. Uses(none, c) = {}
    BY <1>2, <2>1
  <2> QED
    BY <2>2, FS_EmptySet
<1>4. RefcountsAreExact
  BY <1>1, <1>3 DEF RefcountsAreExact
<1>5. CountsInv
  BY <1>1, <1>2, <1>4 DEF CountsInv, Real
<1> QED
  BY <1>1, <1>2, <1>5 DEF CausesInv

LEMMA InfluenceCounts ==
  ASSUME GraphType(waiting), CountsInv, NEW c \in Requests, NEW to,
         DOMAIN to \subseteq BtVars, \A v \in DOMAIN to : to[v] \in BtVars,
         \A v \in DOMAIN to : <<v, to[v]>> \in Asked({c}),
         Influence(to, c)
  PROVE  CountsInv' /\ causes' = causes
<1> DEFINE new == Influenced(waiting, to, c)
           From == Moved(to)
<1>1. waiting' = new /\ refcount' = [refcount EXCEPT ![c] = @ + Cardinality(From)] /\ causes' = causes
  BY DEF Influence, Influenced, Moved
<1>2. refcount \in [Requests -> Int] /\ GraphType(causes) /\ Real(waiting) /\ RefcountsAreExact
  BY DEF CountsInv
<1>3. IsFiniteSet(From) /\ Cardinality(From) \in Nat
  <2>1. From \in SUBSET BtVars
    BY DEF Moved
  <2> HIDE DEF From
  <2> QED
    BY <2>1, TypesAssumption, FS_Subset, FS_CardinalityType
<1>4. /\ GraphType(new) /\ Real(new)
      /\ SameButFor(c, waiting, new)
      /\ Cardinality(Uses(new, c)) = Cardinality(Uses(waiting, c)) + Cardinality(From)
  <2>1. GraphType(new)
    BY <1>2, UsesInfluenced
  <2>2. Real(new)
    BY <1>2, UsesInfluenced
  <2>3. SameButFor(c, waiting, new)
    BY <1>2, UsesInfluenced
  <2>4. Cardinality(Uses(new, c)) = Cardinality(Uses(waiting, c)) + Cardinality(From)
    BY <1>2, UsesInfluenced
  <2> QED
    BY <2>1, <2>2, <2>3, <2>4
<1> HIDE DEF new, From
<1>5. /\ refcount' \in [Requests -> Int]
      /\ \A q \in Requests : q # c => refcount'[q] = refcount[q]
      /\ refcount'[c] = refcount[c] + Cardinality(From)
  BY <1>1, <1>2, <1>3
<1>6. ASSUME NEW q \in Requests
      PROVE  refcount'[q] = Cardinality(Uses(waiting', q)) + Cardinality(Uses(causes', q))
  <2>1. refcount[q] = Cardinality(Uses(waiting, q)) + Cardinality(Uses(causes, q))
    BY <1>2 DEF RefcountsAreExact
  <2>2. CASE q # c
    BY <1>1, <1>4, <1>5, <2>1, <2>2 DEF SameButFor
  <2>3. CASE q = c
    <3>1. Cardinality(Uses(waiting, q)) \in Nat /\ Cardinality(Uses(causes, q)) \in Nat
      BY <1>2, UsesAre, FS_CardinalityType
    <3>2. refcount'[q] = Cardinality(Uses(new, q)) + Cardinality(Uses(causes, q))
      BY <1>3, <1>4, <1>5, <2>1, <2>3, <3>1
    <3> QED
      BY <1>1, <3>2
  <2> QED
    BY <2>2, <2>3
<1>7. RefcountsAreExact'
  BY <1>6 DEF RefcountsAreExact
<1>8. Real(waiting') /\ GraphType(causes')
  BY <1>1, <1>2, <1>4
<1> QED
  BY <1>1, <1>5, <1>7, <1>8 DEF CountsInv

\* What a single request asks for.
LEMMA AskedOne ==
  ASSUME NEW r \in Requests
  PROVE  /\ r.op = "dynamic" => <<Dynamic, Var[r.t]>> \in Asked({r})
         /\ r.op = "dep" => <<Var[r.s], Var[r.t]>> \in Asked({r})
         /\ \A a, b \in Types : <<a, b>> \in EqualTypes({r}) =>
              <<Var[a], Var[b]>> \in Asked({r}) /\ <<Var[b], Var[a]>> \in Asked({r})
<1> DEFINE E == {<<Var[e[1]], Var[e[2]]>> : e \in EqualTypes({r})}
           Dy == {<<Dynamic, Var[p.t]>> : p \in {q \in {r} : q.op = "dynamic"}}
           De == {<<Var[p.s], Var[p.t]>> : p \in {q \in {r} : q.op = "dep"}}
           Back == {<<e[2], e[1]>> : e \in E}
<1>1. Asked({r}) = Dy \cup De \cup E \cup Back
  BY DEF Asked
<1>2. r.op = "dynamic" => <<Dynamic, Var[r.t]>> \in Dy
  OBVIOUS
<1>3. r.op = "dep" => <<Var[r.s], Var[r.t]>> \in De
  OBVIOUS
<1>4. ASSUME NEW a \in Types, NEW b \in Types, <<a, b>> \in EqualTypes({r})
      PROVE  <<Var[a], Var[b]>> \in E /\ <<Var[b], Var[a]>> \in Back
  <2>1. <<Var[a], Var[b]>> \in E
    BY <1>4
  <2> HIDE DEF E
  <2> QED
    BY <2>1
<1> HIDE DEF E, Dy, De, Back
<1> QED
  BY <1>1, <1>2, <1>3, <1>4

\* Types that a single request makes equal have components that it makes equal.
LEMMA EqualByOne ==
  ASSUME NEW r \in Requests
  PROVE  /\ r.op = "equal" => <<r.s, r.t>> \in EqualTypes({r})
         /\ \A a, b \in Types : <<a, b>> \in EqualTypes({r}) =>
              \A k \in DOMAIN SubTypes[a] \cap DOMAIN SubTypes[b] : <<SubTypes[a][k], SubTypes[b][k]>> \in EqualTypes({r})
<1> DEFINE P == {r}
<1>1. EqualPairs(P) \subseteq EqualTypes(P)
  BY EqualTypesGrow
<1>2. r.op = "equal" => <<r.s, r.t>> \in EqualPairs(P)
  BY DEF EqualPairs
<1> QED
  BY <1>1, <1>2, EqualTypesGrow

LEMMA RequestCauses ==
  ASSUME GenerateInv, CausesInv, Request
  PROVE  CausesInv'
<1>1. unifying = <<>> /\ UNCHANGED <<btProgram, status>>
  BY DEF Request
<1>2. PICK r \in todo :
        CASE r.op = "dynamic" -> Influence(Arrow(Dynamic, Var[r.t]), r) /\ UNCHANGED unifying
          [] r.op = "dep" -> Influence(Arrow(Var[r.s], Var[r.t]), r) /\ UNCHANGED unifying
          [] r.op = "equal" -> unifying' = <<<<r.s, r.t, r>>>> /\ UNCHANGED graph
  BY DEF Request
<1>3. r \in Requests /\ r.t \in Types /\ (r.op # "dynamic" => r.s \in Types) /\ r.op \in {"dynamic", "dep", "equal"}
  BY <1>2, RequestsAssumption DEF GenerateInv
<1>4. GraphType(waiting) /\ CountsInv
  BY DEF GenerateInv, CausesInv
<1>5. /\ \A v \in BtVars : \A k \in DOMAIN causes[v] :
           status[causes[v][k][1]] = "dynamic" /\ <<causes[v][k][1], v>> \in Asked({causes[v][k][2]})
      /\ \A v \in BtVars : status[v] # "untouched" /\ v # Dynamic => causes[v] # <<>>
  BY DEF CausesInv
<1>6. CASE r.op # "equal"
  <2> DEFINE to == Arrow(Source(r), Var[r.t])
  <2>1. Influence(to, r) /\ unifying' = unifying
    BY <1>2, <1>3, <1>6 DEF Source
  <2>2. DOMAIN to = {Source(r)} /\ to[Source(r)] = Var[r.t] /\ Source(r) \in BtVars /\ Var[r.t] \in BtVars
    BY <1>3, <1>6, TypesAssumption DEF Arrow, Source
  <2>3. <<Source(r), Var[r.t]>> \in Asked({r})
    BY <1>3, <1>6, AskedOne DEF Source
  <2> HIDE DEF to
  <2>4. /\ DOMAIN to \subseteq BtVars /\ \A v \in DOMAIN to : to[v] \in BtVars
        /\ \A v \in DOMAIN to : <<v, to[v]>> \in Asked({r})
    BY <2>2, <2>3
  <2>5. CountsInv' /\ causes' = causes
    BY <1>3, <1>4, <2>1, <2>4, InfluenceCounts
  <2> QED
    BY <1>1, <1>5, <2>1, <2>5 DEF CausesInv
<1>7. CASE r.op = "equal"
  <2> DEFINE list == <<<<r.s, r.t, r>>>>
  <2>1. unifying' = list /\ UNCHANGED <<waiting, causes, refcount>>
    BY <1>2, <1>7 DEF graph
  <2>2. DOMAIN list = {1} /\ list[1][1] = r.s /\ list[1][2] = r.t /\ list[1][3] = r
    OBVIOUS
  <2>3. <<r.s, r.t>> \in EqualTypes({r})
    BY <1>3, <1>7, EqualByOne
  <2> HIDE DEF list
  <2>4. \A i \in DOMAIN unifying' : <<unifying'[i][1], unifying'[i][2]>> \in EqualTypes({unifying'[i][3]})
    BY <2>1, <2>2, <2>3
  <2>5. CountsInv'
    BY <1>4, <2>1 DEF CountsInv, RefcountsAreExact
  <2> QED
    BY <1>1, <1>5, <2>1, <2>4, <2>5 DEF CausesInv
<1> QED
  BY <1>6, <1>7

LEMMA UnifyCauses ==
  ASSUME GenerateInv, CausesInv, Unify
  PROVE  CausesInv'
<1> DEFINE a == Head(unifying)[1]
           b == Head(unifying)[2]
           r == Head(unifying)[3]
           rest == Tail(unifying)
           more == Components(a, b, r)
           all == more \o rest
<1>1. /\ unifying # <<>> /\ UNCHANGED <<btProgram, status>>
      /\ \/ unifying' = rest /\ UNCHANGED <<waiting, causes, refcount>>
         \/ unifying' = all /\ Influence(Arrows(Var[a], Var[b]), r)
  BY DEF Unify, graph
<1>2. unifying \in Seq(Calls) /\ GraphType(waiting) /\ CountsInv
  BY DEF GenerateInv, CausesInv
<1>3. \A i \in DOMAIN unifying : <<unifying[i][1], unifying[i][2]>> \in EqualTypes({unifying[i][3]})
  BY DEF CausesInv
<1>4. /\ \A v \in BtVars : \A k \in DOMAIN causes[v] :
           status[causes[v][k][1]] = "dynamic" /\ <<causes[v][k][1], v>> \in Asked({causes[v][k][2]})
      /\ \A v \in BtVars : status[v] # "untouched" /\ v # Dynamic => causes[v] # <<>>
  BY DEF CausesInv
<1>5. Head(unifying) \in Calls /\ Head(unifying) = unifying[1] /\ 1 \in DOMAIN unifying
  BY <1>1, <1>2, HeadTailProperties
<1>6. a \in Types /\ b \in Types /\ r \in Requests
  BY <1>5 DEF Calls
<1>7. <<a, b>> \in EqualTypes({r})
  BY <1>3, <1>5
<1>8. <<a, b>> \in EqualTypes(btProgram) /\ btProgram \in RequestSets
  BY <1>5 DEF GenerateInv
<1>9. Len(SubTypes[a]) = Len(SubTypes[b]) /\ DOMAIN SubTypes[a] = 1 .. Len(SubTypes[a]) /\ DOMAIN SubTypes[b] = DOMAIN SubTypes[a]
  BY <1>6, <1>8, EqualTypesIs, TypesAssumption
<1> HIDE DEF a, b, r, rest
<1>10. \A k \in DOMAIN SubTypes[a] : <<SubTypes[a][k], SubTypes[b][k]>> \in EqualTypes({r})
  BY <1>6, <1>7, <1>9, EqualByOne
<1>11. more \in Seq(Calls) /\ DOMAIN more = DOMAIN SubTypes[a]
       /\ \A k \in DOMAIN SubTypes[a] : more[k] = <<SubTypes[a][k], SubTypes[b][k], r>>
  <2>1. more = [k \in 1 .. Len(SubTypes[a]) |-> <<SubTypes[a][k], SubTypes[b][k], r>>]
    BY <1>9 DEF Components
  <2>2. \A t \in Types : SubTypes[t] \in Seq(Types) /\ \A k \in DOMAIN SubTypes[t] : SubTypes[t][k] \in Types
    BY TypesAssumption
  <2>3. \A k \in 1 .. Len(SubTypes[a]) : <<SubTypes[a][k], SubTypes[b][k], r>> \in Calls
    BY <1>6, <1>9, <2>2 DEF Calls
  <2>4. Len(SubTypes[a]) \in Nat
    BY <1>6, <2>2
  <2> QED
    BY <1>9, <2>1, <2>3, <2>4
<1> HIDE DEF more
<1>12. /\ \A j \in DOMAIN rest : \E i \in DOMAIN unifying : rest[j] = unifying[i]
       /\ \A j \in DOMAIN all : \/ \E i \in DOMAIN more : all[j] = more[i]
                                \/ \E i \in DOMAIN rest : all[j] = rest[i]
  BY <1>1, <1>2, <1>11, CallsAre DEF rest
<1> HIDE DEF all
<1>13. \A j \in DOMAIN rest : <<rest[j][1], rest[j][2]>> \in EqualTypes({rest[j][3]})
  BY <1>3, <1>12
<1>14. \A j \in DOMAIN more : <<more[j][1], more[j][2]>> \in EqualTypes({more[j][3]})
  <2> SUFFICES ASSUME NEW j \in DOMAIN more
               PROVE  <<more[j][1], more[j][2]>> \in EqualTypes({more[j][3]})
    OBVIOUS
  <2> DEFINE x == SubTypes[a][j]
             y == SubTypes[b][j]
  <2>1. more[j] = <<x, y, r>> /\ <<x, y>> \in EqualTypes({r})
    BY <1>10, <1>11
  <2> HIDE DEF x, y
  <2>2. more[j][1] = x /\ more[j][2] = y /\ more[j][3] = r
    BY <2>1
  <2> QED
    BY <2>1, <2>2
<1>15. \A j \in DOMAIN all : <<all[j][1], all[j][2]>> \in EqualTypes({all[j][3]})
  BY <1>12, <1>13, <1>14
<1>16. CASE unifying' = rest /\ UNCHANGED <<waiting, causes, refcount>>
  <2>1. CountsInv'
    BY <1>2, <1>16 DEF CountsInv, RefcountsAreExact
  <2> QED
    BY <1>1, <1>4, <1>13, <1>16, <2>1 DEF CausesInv
<1>17. CASE unifying' = all /\ Influence(Arrows(Var[a], Var[b]), r)
  <2> DEFINE to == Arrows(Var[a], Var[b])
  <2>1. Var[a] \in BtVars /\ Var[b] \in BtVars
    BY <1>6, TypesAssumption
  <2>2. <<Var[a], Var[b]>> \in Asked({r}) /\ <<Var[b], Var[a]>> \in Asked({r})
    BY <1>6, <1>7, AskedOne
  <2>3. /\ DOMAIN to \subseteq BtVars /\ \A v \in DOMAIN to : to[v] \in BtVars
        /\ \A v \in DOMAIN to : <<v, to[v]>> \in Asked({r})
    BY <2>1, <2>2 DEF Arrows
  <2> HIDE DEF to
  <2>4. CountsInv' /\ causes' = causes
    BY <1>2, <1>6, <1>17, <2>3, InfluenceCounts DEF to
  <2> QED
    BY <1>1, <1>4, <1>15, <1>17, <2>4 DEF CausesInv
<1> QED
  BY <1>1, <1>16, <1>17

LEMMA FloodCauses ==
  ASSUME FloodInv, CausesInv, Flood
  PROVE  CausesInv'
<1> DEFINE v == Head(pending)
           list == waiting[v]
           st == [status EXCEPT ![v] = "dynamic"]
           S == {w \in BtVars : Explains(st[w])}
           more == ReasonsFor(list, v, S)
           Count(q) == Cardinality(Released(list, q, st))
           K(q) == Given(list, q, S)
<1>1. /\ pending # <<>>
      /\ status' = [w \in BtVars |-> IF st[w] = "untouched" /\ w \in Targets(list) THEN "pending" ELSE st[w]]
      /\ causes' = [w \in BtVars |-> IF Explains(st[w]) THEN causes[w] \o Reasons(list, v, w) ELSE causes[w]]
      /\ refcount' = [c \in Requests |-> refcount[c] - Count(c)]
      /\ waiting' = [waiting EXCEPT ![v] = <<>>]
      /\ UNCHANGED <<btProgram, unifying>>
  BY DEF Flood
<1>2. /\ GraphType(waiting) /\ unifying = <<>> /\ pending \in Seq(BtVars)
      /\ status \in [BtVars -> {"untouched", "pending", "dynamic"}] /\ ToSet(pending) \subseteq Reached
  BY DEF FloodInv
<1>3. /\ refcount \in [Requests -> Int] /\ GraphType(causes) /\ Real(waiting) /\ RefcountsAreExact
      /\ \A w \in BtVars : \A k \in DOMAIN causes[w] :
           status[causes[w][k][1]] = "dynamic" /\ <<causes[w][k][1], w>> \in Asked({causes[w][k][2]})
      /\ \A w \in BtVars : status[w] # "untouched" /\ w # Dynamic => causes[w] # <<>>
  BY DEF CausesInv, CountsInv
<1>4. v \in BtVars /\ v \in Reached
  <2>1. v = pending[1] /\ v \in BtVars /\ 1 \in DOMAIN pending
    BY <1>1, <1>2, HeadTailProperties
  <2> QED
    BY <1>2, <2>1 DEF ToSet
<1>5. list \in Seq(BtVars \X Requests) /\ IsFiniteSet(DOMAIN list)
  <2>1. list \in Seq(BtVars \X Requests)
    BY <1>2, <1>4 DEF GraphType
  <2> HIDE DEF list
  <2>2. Len(list) \in Nat /\ DOMAIN list = 1 .. Len(list)
    BY <2>1
  <2>3. IsFiniteSet(1 .. Len(list))
    BY <2>2, FS_Interval
  <2> QED
    BY <2>1, <2>2, <2>3
<1>6. \A i \in DOMAIN list : <<v, list[i][1]>> \in Asked({list[i][2]})
  BY <1>3, <1>4 DEF Real
<1>7. st \in [BtVars -> {"untouched", "pending", "dynamic"}] /\ st[v] = "dynamic" /\ \A w \in BtVars : w # v => st[w] = status[w]
  BY <1>2, <1>4
<1>8. /\ GraphType(waiting') /\ Real(waiting')
      /\ \A q : /\ IsFiniteSet(By(list, q))
                /\ Cardinality(Uses(waiting, q)) = Cardinality(Uses(waiting', q)) + Cardinality(By(list, q))
  BY <1>1, <1>2, <1>3, <1>4, UsesTaken
<1>9. /\ GraphType(more)
      /\ \A w \in Targets(list) : w \in S => more[w] # <<>>
      /\ \A w \in BtVars : \A k \in DOMAIN more[w] :
           more[w][k][1] = v /\ \E i \in DOMAIN list : list[i][1] = w /\ list[i][2] = more[w][k][2]
      /\ \A q : IsFiniteSet(K(q)) /\ Cardinality(Uses(more, q)) = Cardinality(K(q))
  <2> HIDE DEF v, list, S
  <2>1. GraphType(more)
    BY <1>4, <1>5, UsesExplained
  <2>2. \A w \in Targets(list) : w \in S => more[w] # <<>>
    BY <1>4, <1>5, UsesExplained
  <2>3. \A w \in BtVars : \A k \in DOMAIN more[w] :
          more[w][k][1] = v /\ \E i \in DOMAIN list : list[i][1] = w /\ list[i][2] = more[w][k][2]
    BY <1>4, <1>5, UsesExplained
  <2>4. \A q : IsFiniteSet(K(q)) /\ Cardinality(Uses(more, q)) = Cardinality(K(q))
    BY <1>4, <1>5, UsesExplained
  <2> QED
    BY <2>1, <2>2, <2>3, <2>4
<1>10. causes' = Behind(causes, more)
  <2>1. \A w \in BtVars : more[w] = IF w \in S THEN Reasons(list, v, w) ELSE <<>>
    BY DEF ReasonsFor
  <2>2. \A w \in BtVars : w \in S <=> Explains(st[w])
    OBVIOUS
  <2> HIDE DEF more, S, st, list, v
  <2>3. ASSUME NEW w \in BtVars
        PROVE  (IF Explains(st[w]) THEN causes[w] \o Reasons(list, v, w) ELSE causes[w]) = causes[w] \o more[w]
    <3>1. causes[w] \o <<>> = causes[w]
      <4>1. causes[w] \in Seq(BtVars \X Requests)
        BY <1>3 DEF GraphType
      <4> QED
        BY <4>1, ConcatEmptySeq
    <3>2. CASE w \in S
      BY <2>1, <2>2, <3>2
    <3>3. CASE w \notin S
      BY <2>1, <2>2, <3>1, <3>3
    <3> QED
      BY <3>2, <3>3
  <2>4. [w \in BtVars |-> IF Explains(st[w]) THEN causes[w] \o Reasons(list, v, w) ELSE causes[w]]
          = [w \in BtVars |-> causes[w] \o more[w]]
    BY <2>3
  <2> QED
    BY <1>1, <2>4 DEF Behind
<1>11. /\ \A w \in BtVars : w \in S <=> Explains(st[w])
       /\ \A q : Released(list, q, st) = By(list, q) \ K(q) /\ K(q) \subseteq By(list, q)
  <2>1. \A i \in DOMAIN list : list[i][1] \in BtVars
    BY <1>5
  <2>2. \A w \in BtVars : w \in S <=> Explains(st[w])
    OBVIOUS
  <2> HIDE DEF S, st, list
  <2> QED
    BY <2>1, <2>2 DEF Released, By, Given
<1> HIDE DEF v, list, st, S, more
<1>12. status'[v] = "dynamic" /\ \A w \in BtVars : status[w] = "dynamic" => status'[w] = "dynamic"
  <2>1. \A w \in BtVars : status'[w] = IF st[w] = "untouched" /\ w \in Targets(list) THEN "pending" ELSE st[w]
    BY <1>1
  <2> HIDE DEF v, list, st
  <2> QED
    BY <1>4, <1>7, <2>1
<1>13. \A w \in BtVars : status'[w] # "untouched" => status[w] # "untouched" \/ (w \in Targets(list) /\ w \in S)
  <2>1. \A w \in BtVars : status'[w] = IF st[w] = "untouched" /\ w \in Targets(list) THEN "pending" ELSE st[w]
    BY <1>1
  <2>2. \A w \in BtVars : st[w] = "untouched" => w \in S
    <3> HIDE DEF st, S
    <3> QED
      BY <1>11 DEF Explains
  <2>3. status[v] # "untouched"
    BY <1>4 DEF Reached
  <2> HIDE DEF v, list, st, S
  <2> QED
    BY <1>7, <2>1, <2>2, <2>3
<1> HIDE DEF v, list, st, S, more
<1>14. ASSUME NEW w \in BtVars, NEW k \in DOMAIN causes'[w]
       PROVE  status'[causes'[w][k][1]] = "dynamic" /\ <<causes'[w][k][1], w>> \in Asked({causes'[w][k][2]})
  <2>1. CASE k \in DOMAIN causes[w]
    <3>1. causes'[w][k] = causes[w][k]
      BY <1>3, <1>9, <1>10, <2>1, BehindIs
    <3>2. causes[w][k][1] \in BtVars
      <4>1. causes[w] \in Seq(BtVars \X Requests)
        BY <1>3 DEF GraphType
      <4> QED
        BY <2>1, <4>1
    <3> QED
      BY <1>3, <1>12, <2>1, <3>1, <3>2
  <2>2. CASE \E i \in DOMAIN more[w] : k = Len(causes[w]) + i
    <3>1. PICK i \in DOMAIN more[w] : k = Len(causes[w]) + i
      BY <2>2
    <3>2. causes'[w][k] = more[w][i]
      BY <1>3, <1>9, <1>10, <3>1, BehindIs
    <3>3. more[w][i][1] = v /\ \E j \in DOMAIN list : list[j][1] = w /\ list[j][2] = more[w][i][2]
      BY <1>9
    <3>4. <<v, w>> \in Asked({more[w][i][2]})
      BY <1>6, <3>3
    <3> QED
      BY <1>12, <3>2, <3>3, <3>4
  <2> QED
    BY <1>3, <1>9, <1>10, <1>14, <2>1, <2>2, BehindIs
<1>15. ASSUME NEW w \in BtVars, status'[w] # "untouched", w # Dynamic
       PROVE  causes'[w] # <<>>
  <2>1. causes[w] # <<>> \/ more[w] # <<>>
    BY <1>3, <1>9, <1>13, <1>15
  <2>2. causes[w] \in Seq(BtVars \X Requests) /\ more[w] \in Seq(BtVars \X Requests)
    BY <1>3, <1>9 DEF GraphType
  <2>3. causes'[w] = causes[w] \o more[w]
    BY <1>10 DEF Behind
  <2> QED
    BY <2>1, <2>2, <2>3, ConcatEqualIffEmpty
<1>16. /\ GraphType(causes')
       /\ \A q : Cardinality(Uses(causes', q)) = Cardinality(Uses(causes, q)) + Cardinality(Uses(more, q))
  BY <1>3, <1>9, <1>10, UsesBehind
<1> HIDE DEF K
<1>17. ASSUME NEW q \in Requests
       PROVE  /\ Count(q) \in Nat
              /\ refcount[q] - Count(q) = Cardinality(Uses(waiting', q)) + Cardinality(Uses(causes', q))
  <2>1. Cardinality(By(list, q) \ K(q)) = Cardinality(By(list, q)) - Cardinality(By(list, q) \cap K(q))
    BY <1>8, FS_Difference
  <2>2. By(list, q) \cap K(q) = K(q) /\ Released(list, q, st) = By(list, q) \ K(q)
    BY <1>11
  <2>3. Cardinality(K(q)) \in Nat /\ Cardinality(By(list, q)) \in Nat /\ Cardinality(K(q)) <= Cardinality(By(list, q))
    <3>1. IsFiniteSet(K(q)) /\ IsFiniteSet(By(list, q)) /\ K(q) \in SUBSET By(list, q)
      BY <1>8, <1>9, <1>11
    <3> QED
      BY <3>1, FS_CardinalityType, FS_Subset
  <2>4. Count(q) = Cardinality(By(list, q)) - Cardinality(K(q))
    BY <2>1, <2>2
  <2>5. /\ Cardinality(Uses(waiting', q)) \in Nat /\ Cardinality(Uses(causes, q)) \in Nat
    BY <1>3, <1>8, UsesAre, FS_CardinalityType
  <2>6. refcount[q] = Cardinality(Uses(waiting, q)) + Cardinality(Uses(causes, q))
    BY <1>3 DEF RefcountsAreExact
  <2>7. Cardinality(Uses(waiting, q)) = Cardinality(Uses(waiting', q)) + Cardinality(By(list, q))
    BY <1>8
  <2>8. Cardinality(Uses(causes', q)) = Cardinality(Uses(causes, q)) + Cardinality(K(q))
    BY <1>9, <1>16
  <2> HIDE DEF Count
  <2> QED
    BY <2>3, <2>4, <2>5, <2>6, <2>7, <2>8
<1> HIDE DEF Count
<1>18. refcount' \in [Requests -> Int] /\ \A q \in Requests : refcount'[q] = refcount[q] - Count(q)
  <2>1. refcount' = [q \in Requests |-> refcount[q] - Count(q)]
    BY <1>1
  <2>2. \A q \in Requests : refcount[q] - Count(q) \in Int
    BY <1>3, <1>17
  <2> QED
    BY <2>1, <2>2
<1>19. RefcountsAreExact'
  BY <1>17, <1>18 DEF RefcountsAreExact
<1>20. CountsInv'
  BY <1>8, <1>16, <1>18, <1>19 DEF CountsInv
<1>21. DOMAIN unifying' = {}
  BY <1>1, <1>2
<1> QED
  BY <1>14, <1>15, <1>20, <1>21 DEF CausesInv

LEMMA StepCauses == SolveInv /\ CausesInv /\ [BTNext]_btvars => CausesInv'
<1> SUFFICES ASSUME SolveInv, CausesInv, [BTNext]_btvars
             PROVE  CausesInv'
  OBVIOUS
<1>1. CASE Request
  <2>1. btPhase = "generate"
    BY <1>1 DEF Request
  <2> QED
    BY <1>1, <2>1, RequestCauses DEF SolveInv
<1>2. CASE Unify
  <2>1. btPhase = "generate"
    BY <1>2 DEF Unify, SolveInv, FloodInv
  <2> QED
    BY <1>2, <2>1, UnifyCauses DEF SolveInv
<1>3. CASE Start
  <2>1. UNCHANGED <<unifying, waiting, causes, refcount>> /\ status' = [status EXCEPT ![Dynamic] = "pending"]
        /\ btPhase = "generate"
    BY <1>3 DEF Start, graph
  <2>2. status = [v \in BtVars |-> "untouched"]
    BY <2>1 DEF SolveInv, GenerateInv
  <2>3. CountsInv'
    BY <2>1 DEF CausesInv, CountsInv, RefcountsAreExact
  <2>4. GraphType(causes)
    BY DEF CausesInv, CountsInv
  <2>5. ASSUME NEW v \in BtVars
        PROVE  DOMAIN causes[v] = {}
    <3> SUFFICES ASSUME NEW k \in DOMAIN causes[v]
                 PROVE  FALSE
      OBVIOUS
    <3>1. status[causes[v][k][1]] = "dynamic"
      BY DEF CausesInv
    <3>2. causes[v][k][1] \in BtVars
      <4>1. causes[v] \in Seq(BtVars \X Requests)
        BY <2>4 DEF GraphType
      <4> QED
        BY <4>1
    <3> QED
      BY <2>2, <3>1, <3>2
  <2>6. \A v \in BtVars : status'[v] # "untouched" => v = Dynamic
    BY <2>1, <2>2
  <2> QED
    BY <2>1, <2>3, <2>5, <2>6 DEF CausesInv
<1>4. CASE Flood
  <2>1. btPhase = "flood"
    BY <1>4 DEF Flood
  <2> QED
    BY <1>4, <2>1, FloodCauses DEF SolveInv
<1>5. CASE Report \/ Trace \/ UNCHANGED btvars
  <2>1. UNCHANGED <<unifying, waiting, causes, refcount, status>>
    BY <1>5 DEF Report, Trace, graph, btvars
  <2> QED
    BY <2>1 DEF CausesInv, CountsInv, RefcountsAreExact
<1> QED
  BY <1>1, <1>2, <1>3, <1>4, <1>5 DEF BTNext

LEMMA CausesOfInv == CausesInv => CausesAreKept
<1> SUFFICES ASSUME CausesInv
             PROVE  CausesAreReal
  BY DEF CausesInv, CountsInv, CausesAreKept
<1> SUFFICES ASSUME NEW v \in BtVars
             PROVE  /\ status[v] # "untouched" /\ v # Dynamic => causes[v] # <<>>
                    /\ \A e \in ToSet(causes[v]) : status[e[1]] = "dynamic" /\ <<e[1], v>> \in Asked({e[2]})
  BY DEF CausesAreReal
<1>1. \A k \in DOMAIN causes[v] : status[causes[v][k][1]] = "dynamic" /\ <<causes[v][k][1], v>> \in Asked({causes[v][k][2]})
  BY DEF CausesInv
<1>2. status[v] # "untouched" /\ v # Dynamic => causes[v] # <<>>
  BY DEF CausesInv
<1> QED
  BY <1>1, <1>2 DEF ToSet

\* btsolve.cc: at all times, each variable that is dynamic is explained by dynamic ones,
\* with requests that ask for just that, and the reference count of each cause is the
\* number of explanations, made or still waiting, that use it: none is deleted too
\* early by remove_unused, and none is kept for nothing.
THEOREM CausesAlwaysKept == BTSpec => []CausesAreKept
<1>1. BTInit => SolveInv /\ CausesInv
  BY InitGenerate, InitCauses DEF SolveInv, BTInit
<1>2. SolveInv /\ CausesInv /\ [BTNext]_btvars => (SolveInv /\ CausesInv)'
  BY StepSolve, StepCauses
<1>3. CausesInv => CausesAreKept
  BY CausesOfInv
<1> QED
  BY <1>1, <1>2, <1>3, PTL DEF BTSpec
=============================================================================
