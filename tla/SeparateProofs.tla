-------------------------- MODULE SeparateProofs --------------------------
(***************************************************************************)
(* Proofs about the separation of structures, for any number of instances  *)
(* and any program whose structures have at most one part each.  With more *)
(* parts the result is wrong, since only the first is compared.            *)
(*                                                                         *)
(* The argument.  A node that is not waiting is settled: the parts of its  *)
(* instances have the definition it stands for.  This can only change when *)
(* a part moves to a new node, and then the node is in the list of the     *)
(* node the part has left, and is woken.  When all nodes are settled the   *)
(* division into nodes is a congruence, so that however often structures   *)
(* are unfolded the instances of a node look the same.                     *)
(***************************************************************************)
EXTENDS Separate, SequenceLemmas, FiniteSetTheorems

\* What the result is right for.
OnePart == \A P \in Programs : \A i \in Instances : Len(P.parts[i]) <= 1

Shape ==
  /\ program \in Programs
  /\ canonical \in Seq(Seq(Nat))
  /\ succ \in Seq(SUBSET Nat) /\ Len(succ) = Len(canonical)
  /\ def \in [Instances -> 1 .. Len(canonical)]
  /\ waiting \subseteq 1 .. Len(canonical)
  /\ \A m \in 1 .. Len(canonical) : succ[m] \subseteq 1 .. Len(canonical)

\* Every node has an instance, and stands for as many parts as that one has.
NodesAreInhabited ==
  \A n \in 1 .. Len(canonical) :
    /\ Of(n) # {}
    /\ \A i \in Of(n) : Len(parts[i]) = Len(canonical[n])
    /\ \A k \in 1 .. Len(canonical[n]) : canonical[n][k] \in 1 .. Len(canonical)

LocallyEqual == \A i, j \in Instances : def[i] = def[j] => Local(program, i) = Local(program, j)

\* Whoever depends on a node is in its list.
Hooks ==
  \A m, n \in 1 .. Len(canonical) :
    \A k \in 1 .. Len(canonical[m]) : canonical[m][k] = n => m \in succ[n]

Settled(n) == \A i \in Of(n) : \A k \in 1 .. Len(parts[i]) : def[parts[i][1]] = canonical[n][1]

SepInv ==
  /\ Shape /\ NodesAreInhabited /\ LocallyEqual /\ Hooks
  /\ \A n \in 1 .. Len(canonical) : n \notin waiting => Settled(n)

----------------------------------------------------------------------------
LEMMA PartsAre ==
  ASSUME OnePart, program \in Programs, NEW i \in Instances
  PROVE  /\ parts[i] \in Seq(Instances) /\ Len(parts[i]) \in {0, 1} /\ DOMAIN parts[i] = 1 .. Len(parts[i])
         /\ \A k \in 1 .. Len(parts[i]) : k = 1 /\ parts[i][1] \in Instances /\ parts[i][k] = parts[i][1]
         /\ \A j \in Instances : Local(program, i) = Local(program, j) => Len(parts[i]) = Len(parts[j])
<1>1. parts[i] \in Seq(Instances) /\ Len(parts[i]) <= 1
  BY ProgramAssumption DEF OnePart, parts
<1> DEFINE p == parts[i]
<1>2. Len(parts[i]) \in {0, 1} /\ DOMAIN parts[i] = 1 .. Len(parts[i])
  <2>1. p \in Seq(Instances) /\ Len(p) <= 1
    BY <1>1
  <2> HIDE DEF p
  <2>2. Len(p) \in Nat /\ DOMAIN p = 1 .. Len(p)
    BY <2>1, LenProperties
  <2>3. Len(p) \in {0, 1}
    BY <2>1, <2>2
  <2> QED
    BY <2>2, <2>3 DEF p
<1>3. \A k \in 1 .. Len(parts[i]) : k = 1
  <2>1. \A l \in {0, 1} : \A k \in 1 .. l : k = 1
    OBVIOUS
  <2> QED
    BY <1>2, <2>1
<1>4. \A k \in 1 .. Len(parts[i]) : parts[i][k] \in Instances
  BY <1>1, ElementOfSeq
<1>5. ASSUME NEW j \in Instances, Local(program, i) = Local(program, j)
      PROVE  Len(parts[i]) = Len(parts[j])
  <2>1. program.original[i] = program.original[j]
    BY <1>5 DEF Local
  <2> QED
    BY <2>1, ProgramAssumption DEF parts
<1> QED
  BY <1>1, <1>2, <1>3, <1>4, <1>5

LEMMA MaxIs ==
  ASSUME NEW m \in Nat, NEW S \in SUBSET (1 .. m), S # {}
  PROVE  Max(S) \in S /\ \A x \in S : x <= Max(S)
<1>1. S \in SUBSET (0 .. m)
  OBVIOUS
<1> QED
  BY <1>1, GreatestIs

----------------------------------------------------------------------------
(***************************************************************************)
(* Solving a node.                                                         *)
(***************************************************************************)
MovedOne(n, new, d, i) ==
  IF i \in Of(n) /\ (i < Min(Proper(n, Normal(n))) \/ (i > Min(Proper(n, Normal(n))) /\ ~ Match(d, i, Normal(n))))
  THEN [d EXCEPT ![i] = new] ELSE d

\* The equation of the recursive function in Moving.
Folds(n, new, S, G) ==
  G = [s \in SUBSET S |->
         IF s = {} THEN def ELSE MovedOne(n, new, G[s \ {Max(s)}], [i \in Instances |-> i][Max(s)])]

LEMMA FoldRecurs ==
  ASSUME NEW n, NEW new
  PROVE  \E G : Folds(n, new, Instances, G)
<1> DEFINE seq == [i \in Instances |-> i]
           Q == {m \in Nat : \E G : Folds(n, new, 1 .. m, G)}
<1>1. 0 \in Q
  <2> DEFINE G == [s \in SUBSET (1 .. 0) |-> def]
  <2>1. \A s \in SUBSET (1 .. 0) : s = {}
    OBVIOUS
  <2>2. Folds(n, new, 1 .. 0, G)
    BY <2>1 DEF Folds
  <2> QED
    BY <2>2
<1>2. ASSUME NEW m \in Nat, m \in Q
      PROVE  m + 1 \in Q
  <2>1. PICK G : Folds(n, new, 1 .. m, G)
    BY <1>2
  <2> DEFINE H == [s \in SUBSET (1 .. m + 1) |->
                     IF m + 1 \in s THEN MovedOne(n, new, G[s \ {m + 1}], seq[m + 1]) ELSE G[s]]
  <2>2. ASSUME NEW s \in SUBSET (1 .. m + 1)
        PROVE  H[s] = IF s = {} THEN def ELSE MovedOne(n, new, H[s \ {Max(s)}], seq[Max(s)])
    <3>1. CASE m + 1 \in s
      <4>1. Max(s) \in s /\ \A x \in s : x <= Max(s)
        <5>1. m + 1 \in Nat /\ s # {}
          BY <3>1
        <5> QED
          BY <5>1, MaxIs
      <4>2. Max(s) = m + 1
        <5>1. Max(s) \in 1 .. m + 1 /\ m + 1 <= Max(s)
          BY <3>1, <4>1
        <5> QED
          BY <5>1
      <4>3. s \ {m + 1} \in SUBSET (1 .. m + 1) /\ m + 1 \notin s \ {m + 1} /\ s # {}
        BY <3>1
      <4>4. H[s \ {m + 1}] = G[s \ {m + 1}]
        BY <4>3
      <4>5. H[s] = MovedOne(n, new, G[s \ {m + 1}], seq[m + 1])
        BY <3>1
      <4> HIDE DEF H, seq
      <4> QED
        BY <4>2, <4>3, <4>4, <4>5
    <3>2. CASE m + 1 \notin s
      <4>1. s \in SUBSET (1 .. m) /\ H[s] = G[s]
        BY <3>2
      <4>2. H[s \ {Max(s)}] = G[s \ {Max(s)}]
        BY <3>2
      <4>3. G[s] = IF s = {} THEN def ELSE MovedOne(n, new, G[s \ {Max(s)}], seq[Max(s)])
        BY <2>1, <4>1 DEF Folds
      <4> HIDE DEF H, seq
      <4> QED
        BY <4>1, <4>2, <4>3
    <3> QED
      BY <3>1, <3>2
  <2>3. H = [s \in SUBSET (1 .. m + 1) |->
               IF s = {} THEN def ELSE MovedOne(n, new, H[s \ {Max(s)}], seq[Max(s)])]
    <3>1. H = [s \in SUBSET (1 .. m + 1) |-> H[s]]
      OBVIOUS
    <3> HIDE DEF H, seq
    <3> QED
      BY <2>2, <3>1, Zenon
  <2>4. Folds(n, new, 1 .. m + 1, H)
    BY <2>3 DEF Folds
  <2> QED
    BY <2>4
<1> HIDE DEF Q
<1>3. Nat \subseteq Q
  BY <1>1, <1>2, NatSets
<1>4. Count \in Q
  BY <1>3, ProgramAssumption
<1> QED
  BY <1>4 DEF Q, Instances

LEMMA MovingFolds ==
  ASSUME NEW n, NEW new
  PROVE  \E G : Folds(n, new, Instances, G) /\ Moving(n, new) = G[Instances]
<1> DEFINE G == CHOOSE G : Folds(n, new, Instances, G)
<1>1. Folds(n, new, Instances, G)
  BY FoldRecurs
<1>2. DOMAIN [i \in Instances |-> i] = Instances
  OBVIOUS
<1>3. Moving(n, new) = G[Instances]
  BY <1>2, Zenon DEF Moving, FoldLeft, MapThenFoldSet, Folds, MovedOne
<1> QED
  BY <1>1, <1>3

\* A solved node keeps the instances that agree with the first proper one; the
\* rest move.  The parts of those that stay have the definition that the
\* node now stands for, unless that is the node itself.
Moves(d, n, new) ==
  /\ d \in [Instances -> 1 .. Len(canonical) \cup {new}]
  /\ \A x \in Instances : d[x] # def[x] => def[x] = n /\ d[x] = new
  /\ d[Min(Proper(n, Normal(n)))] = n
  /\ \A x \in Of(n) : d[x] = n =>
       \A k \in 1 .. Len(parts[x]) : d[parts[x][1]] = Normal(n)[1] \/ (Normal(n)[1] = n /\ d[parts[x][1]] = new)

\* The same while the instances of S have been looked at.
MovesIn(d, n, new, S) ==
  /\ d \in [Instances -> 1 .. Len(canonical) \cup {new}]
  /\ \A x \in Instances : d[x] # def[x] => def[x] = n /\ d[x] = new /\ x \in S
  /\ d[Min(Proper(n, Normal(n)))] = n
  /\ \A x \in Of(n) \cap S : d[x] = n =>
       \A k \in 1 .. Len(parts[x]) : d[parts[x][1]] = Normal(n)[1] \/ (Normal(n)[1] = n /\ d[parts[x][1]] = new)

LEMMA ProperIs ==
  ASSUME OnePart, SepInv, NEW n \in 1 .. Len(canonical)
  PROVE  /\ Min(Proper(n, Normal(n))) \in Of(n)
         /\ Match(def, Min(Proper(n, Normal(n))), Normal(n))
         /\ \A i \in Proper(n, Normal(n)) : Min(Proper(n, Normal(n))) <= i
         /\ Normal(n) \in Seq(Nat) /\ Len(Normal(n)) = Len(canonical[n])
         /\ \A k \in 1 .. Len(Normal(n)) : Normal(n)[k] \in 1 .. Len(canonical)
<1> DEFINE ds == Normal(n)
           i == Min(Of(n))
<1>1. Of(n) \in SUBSET Nat /\ Of(n) # {} /\ Of(n) \subseteq Instances
  BY ProgramAssumption DEF SepInv, NodesAreInhabited, Of, Instances
<1>2. i \in Of(n)
  BY <1>1, MinIs
<1> HIDE DEF i
<1>3. program \in Programs /\ Len(parts[i]) = Len(canonical[n]) /\ canonical[n] \in Seq(Nat)
  <2>1. canonical \in Seq(Seq(Nat))
    BY DEF SepInv, Shape
  <2> QED
    BY <1>2, <2>1, ElementOfSeq DEF SepInv, Shape, NodesAreInhabited
<1>4. DOMAIN parts[i] = 1 .. Len(parts[i]) /\ \A k \in 1 .. Len(parts[i]) : parts[i][k] \in Instances
      /\ parts[i][k] = parts[i][1]
  BY <1>1, <1>2, <1>3, PartsAre
<1>5. def \in [Instances -> 1 .. Len(canonical)] /\ Len(canonical) \in Nat
  BY DEF SepInv, Shape
<1>6. ds \in Seq(Nat) /\ Len(ds) = Len(canonical[n]) /\ \A k \in 1 .. Len(ds) : ds[k] \in 1 .. Len(canonical)
  <2>1. CASE Proper(n, canonical[n]) # {}
    <3>1. ds = canonical[n]
      BY <2>1 DEF Normal
    <3> QED
      BY <1>3, <3>1 DEF SepInv, NodesAreInhabited
  <2>2. CASE Proper(n, canonical[n]) = {}
    <3> DEFINE L == Len(canonical[n])
    <3>1. ds = [k \in 1 .. L |-> def[parts[i][k]]]
      BY <1>3, <1>4, <2>2 DEF Normal, PartDefs, i
    <3>2. L \in Nat
      BY <1>3
    <3>3. \A k \in 1 .. L : def[parts[i][k]] \in 1 .. Len(canonical) /\ def[parts[i][k]] \in Nat
      BY <1>3, <1>4, <1>5
    <3> HIDE DEF ds, L
    <3>4. ds \in [1 .. L -> Nat] /\ \A k \in 1 .. L : ds[k] \in 1 .. Len(canonical)
      BY <3>1, <3>3
    <3> QED
      BY <3>2, <3>4 DEF L
  <2> QED
    BY <2>1, <2>2
<1>7. Proper(n, ds) # {}
  <2>1. CASE Proper(n, canonical[n]) # {}
    BY <2>1 DEF Normal
  <2>2. CASE Proper(n, canonical[n]) = {}
    <3>1. ds = [k \in DOMAIN parts[i] |-> def[parts[i][k]]]
      BY <2>2 DEF Normal, PartDefs, i
    <3> HIDE DEF ds
    <3>2. ASSUME NEW k \in DOMAIN parts[i]
          PROVE  def[parts[i][1]] = ds[1]
      <4>1. k = 1
        BY <1>1, <1>2, <1>3, <3>2, PartsAre
      <4> QED
        BY <3>1, <4>1
    <3>3. Match(def, i, ds)
      BY <3>2 DEF Match
    <3> QED
      BY <1>2, <3>3 DEF Proper
  <2> QED
    BY <2>1, <2>2
<1>8. Proper(n, ds) \in SUBSET Nat
  BY <1>1 DEF Proper
<1> HIDE DEF ds
<1>9. Min(Proper(n, ds)) \in Proper(n, ds) /\ \A x \in Proper(n, ds) : Min(Proper(n, ds)) <= x
  BY <1>7, <1>8, MinIs
<1>10. Min(Proper(n, ds)) \in Of(n) /\ Match(def, Min(Proper(n, ds)), ds)
  <2> DEFINE f == Min(Proper(n, ds))
  <2>1. f \in Proper(n, ds)
    BY <1>9
  <2> HIDE DEF f
  <2>2. f \in Of(n) /\ Match(def, f, ds)
    BY <2>1 DEF Proper
  <2> QED
    BY <2>2 DEF f
<1> QED
  BY <1>6, <1>9, <1>10 DEF ds

LEMMA MovingIs ==
  ASSUME OnePart, SepInv, NEW n \in 1 .. Len(canonical), NEW new \in Nat \ (1 .. Len(canonical))
  PROVE  Moves(Moving(n, new), n, new)
<1> DEFINE f == Min(Proper(n, Normal(n)))
           ds == Normal(n)
<1>1. PICK G : Folds(n, new, Instances, G) /\ Moving(n, new) = G[Instances]
  BY MovingFolds
<1>2. /\ f \in Of(n) /\ Match(def, f, ds) /\ n \in Nat
      /\ \A x \in Of(n) : x \in Instances /\ def[x] = n
      /\ \A x \in Instances : x \in Nat
      /\ def \in [Instances -> 1 .. Len(canonical)] /\ new # n
  <2>1. f \in Of(n) /\ Match(def, f, ds)
    BY ProperIs
  <2>2. def \in [Instances -> 1 .. Len(canonical)] /\ Len(canonical) \in Nat
    BY DEF SepInv, Shape
  <2> HIDE DEF f, ds
  <2>3. \A x \in Instances : x \in Nat
    BY ProgramAssumption DEF Instances
  <2>4. \A x \in Of(n) : x \in Instances /\ def[x] = n
    BY DEF Of
  <2>5. n \in Nat /\ new # n
    BY <2>2
  <2> QED
    BY <2>1, <2>2, <2>3, <2>4, <2>5
<1>3. ASSUME NEW x \in Instances
      PROVE  \A k \in 1 .. Len(parts[x]) : k \in DOMAIN parts[x] /\ parts[x][1] \in Instances
  BY PartsAre DEF SepInv, Shape
<1> HIDE DEF f, ds
<1> DEFINE Q == {m \in Nat : m <= Count => MovesIn(G[1 .. m], n, new, 1 .. m)}
<1>4. 0 \in Q
  <2>1. 1 .. 0 = {} /\ {} \in SUBSET Instances
    OBVIOUS
  <2>2. G[{}] = def
    BY <1>1 DEF Folds
  <2>3. MovesIn(def, n, new, {})
    BY <1>2 DEF MovesIn, f
  <2> QED
    BY <2>1, <2>2, <2>3
<1>5. ASSUME NEW m \in Nat, m \in Q
      PROVE  m + 1 \in Q
  <2> SUFFICES ASSUME m + 1 <= Count
               PROVE  MovesIn(G[1 .. m + 1], n, new, 1 .. m + 1)
    OBVIOUS
  <2> DEFINE d == G[1 .. m]
             e == G[1 .. m + 1]
             i == m + 1
  <2>1. MovesIn(d, n, new, 1 .. m)
    BY <1>5, ProgramAssumption
  <2>2. 1 .. m + 1 \in SUBSET Instances /\ i \in Instances /\ 1 .. m + 1 # {}
    <3>1. m + 1 \in 1 .. m + 1 /\ Count \in Nat
      BY ProgramAssumption
    <3>2. \A x \in 1 .. m + 1 : x \in 1 .. Count
      BY <3>1
    <3> QED
      BY <3>1, <3>2 DEF Instances
  <2>3. Max(1 .. m + 1) = m + 1
    <3>1. m + 1 \in Nat /\ m + 1 \in 1 .. m + 1
      OBVIOUS
    <3>2. Max(1 .. m + 1) \in 1 .. m + 1 /\ m + 1 <= Max(1 .. m + 1)
      BY <3>1, MaxIs
    <3> QED
      BY <3>2
  <2>4. (1 .. m + 1) \ {m + 1} = 1 .. m
    OBVIOUS
  <2>5. e = MovedOne(n, new, d, i)
    <3>1. e = MovedOne(n, new, G[(1 .. m + 1) \ {Max(1 .. m + 1)}], [j \in Instances |-> j][Max(1 .. m + 1)])
      BY <1>1, <2>2 DEF Folds
    <3> QED
      BY <2>2, <2>3, <2>4, <3>1
  <2> HIDE DEF d, e, i
  <2>6. d \in [Instances -> 1 .. Len(canonical) \cup {new}]
        /\ (\A x \in Instances : d[x] # def[x] => def[x] = n /\ d[x] = new /\ x \in 1 .. m)
        /\ d[f] = n
        /\ \A x \in Of(n) \cap (1 .. m) : d[x] = n =>
             \A k \in 1 .. Len(parts[x]) : d[parts[x][1]] = ds[1] \/ (ds[1] = n /\ d[parts[x][1]] = new)
    BY <2>1 DEF MovesIn, f, ds
  <2>7. i = m + 1 /\ i \in Instances /\ i \notin 1 .. m /\ 1 .. m + 1 = (1 .. m) \cup {i}
    BY <2>2 DEF i
  <2>8. e = IF i \in Of(n) /\ (i < f \/ (i > f /\ ~ Match(d, i, ds))) THEN [d EXCEPT ![i] = new] ELSE d
    BY <2>5 DEF MovedOne, f, ds
  <2>9. CASE i \in Of(n) /\ (i < f \/ (i > f /\ ~ Match(d, i, ds)))
    <3>1. e = [d EXCEPT ![i] = new] /\ i # f
      BY <1>2, <2>8, <2>9
    <3>2. \A x \in Instances : e[x] = IF x = i THEN new ELSE d[x]
      BY <2>6, <3>1
    <3>3. e \in [Instances -> 1 .. Len(canonical) \cup {new}]
      BY <2>6, <3>1
    <3>4. \A x \in Instances : e[x] # def[x] => def[x] = n /\ e[x] = new /\ x \in 1 .. m + 1
      BY <1>2, <2>6, <2>7, <2>9, <3>2
    <3>5. e[f] = n
      BY <1>2, <2>6, <3>1, <3>2
    <3>6. ASSUME NEW x \in Of(n) \cap (1 .. m + 1), e[x] = n, NEW k \in 1 .. Len(parts[x])
          PROVE  e[parts[x][1]] = ds[1] \/ (ds[1] = n /\ e[parts[x][1]] = new)
      <4>1. x # i /\ x \in Instances
        BY <1>2, <3>2, <3>6
      <4>2. x \in Of(n) \cap (1 .. m) /\ d[x] = n
        BY <2>7, <3>2, <3>6, <4>1
      <4>3. d[parts[x][1]] = ds[1] \/ (ds[1] = n /\ d[parts[x][1]] = new)
        BY <2>6, <4>2
      <4>4. CASE parts[x][1] = i
        <5>1. d[i] = n
          BY <1>2, <2>6, <2>7, <2>9
        <5>2. e[i] = new
          BY <2>7, <3>2
        <5> QED
          BY <4>3, <4>4, <5>1, <5>2
      <4>5. CASE parts[x][1] # i
        BY <1>3, <3>2, <4>1, <4>3, <4>5
      <4> QED
        BY <4>4, <4>5
    <3> QED
      BY <3>3, <3>4, <3>5, <3>6 DEF MovesIn, e, f, ds
  <2>10. CASE ~ (i \in Of(n) /\ (i < f \/ (i > f /\ ~ Match(d, i, ds))))
    <3>1. e = d
      BY <2>8, <2>10
    <3>2. \A x \in Instances : e[x] # def[x] => def[x] = n /\ e[x] = new /\ x \in 1 .. m + 1
      BY <2>6, <2>7, <3>1
    <3>3. ASSUME NEW x \in Of(n) \cap (1 .. m + 1), e[x] = n, NEW k \in 1 .. Len(parts[x])
          PROVE  e[parts[x][1]] = ds[1] \/ (ds[1] = n /\ e[parts[x][1]] = new)
      <4>1. CASE x = i
        <5>1. CASE i = f
          <6>1. def[parts[f][1]] = ds[1]
            BY <1>2, <1>3, <4>1, <5>1 DEF Match
          <6>2. parts[f][1] \in Instances
            BY <1>2, <1>3, <4>1, <5>1
          <6>3. CASE d[parts[f][1]] = def[parts[f][1]]
            BY <3>1, <4>1, <5>1, <6>1, <6>3
          <6>4. CASE d[parts[f][1]] # def[parts[f][1]]
            BY <2>6, <3>1, <4>1, <5>1, <6>1, <6>2, <6>4
          <6> QED
            BY <6>3, <6>4
        <5>2. CASE i # f
          <6>1. Match(d, i, ds)
            BY <1>2, <2>7, <2>10, <4>1, <5>2
          <6>2. d[parts[i][1]] = ds[1]
            BY <1>3, <2>7, <4>1, <6>1 DEF Match
          <6> QED
            BY <3>1, <4>1, <6>2
        <5> QED
          BY <5>1, <5>2
      <4>2. CASE x # i
        BY <2>6, <2>7, <3>1, <3>3, <4>2
      <4> QED
        BY <4>1, <4>2
    <3> QED
      BY <2>6, <3>1, <3>2, <3>3 DEF MovesIn, e, f, ds
  <2> QED
    BY <2>9, <2>10
<1> HIDE DEF Q
<1>6. Count \in Q
  BY <1>4, <1>5, NatSets, ProgramAssumption
<1>7. MovesIn(G[1 .. Count], n, new, 1 .. Count)
  BY <1>6, ProgramAssumption DEF Q
<1> QED
  BY <1>1, <1>2, <1>7 DEF Moves, MovesIn, Instances

\* A node that has been solved, or not looked at, is settled unless it is woken.
LEMMA SolveKeeps == OnePart => \A n \in waiting : SepInv /\ Solve(n) /\ UNCHANGED program => SepInv'
<1> SUFFICES ASSUME OnePart, NEW n \in waiting, SepInv, Solve(n), UNCHANGED program
             PROVE  SepInv'
  OBVIOUS
<1> DEFINE L == Len(canonical)
           new == L + 1
           ds == Normal(n)
           moved == {i \in Instances : def'[i] = new}
           same == [canonical EXCEPT ![n] = ds]
           hooks == IF ds = canonical[n] THEN succ ELSE Hooked(succ, n, ds)
           c == canonical'
<1>1. /\ L \in Nat /\ n \in 1 .. L /\ program \in Programs
      /\ canonical \in Seq(Seq(Nat)) /\ succ \in Seq(SUBSET Nat) /\ Len(succ) = L
      /\ def \in [Instances -> 1 .. L] /\ waiting \subseteq 1 .. L
      /\ \A m \in 1 .. L : succ[m] \subseteq 1 .. L
  BY DEF SepInv, Shape
<1>2. new \in Nat \ (1 .. L) /\ 1 .. new = 1 .. L \cup {new} /\ new # n
  <2>1. L \in Nat /\ n \in 1 .. L
    BY <1>1
  <2> HIDE DEF L
  <2> QED
    BY <2>1
<1>3. ds \in Seq(Nat) /\ Len(ds) = Len(canonical[n]) /\ \A k \in 1 .. Len(ds) : ds[k] \in 1 .. L
  BY <1>1, ProperIs
<1>4. /\ def' \in [Instances -> 1 .. L \cup {new}]
      /\ \A x \in Instances : def'[x] # def[x] => def[x] = n /\ def'[x] = new
      /\ \E x \in Of(n) : def'[x] = n
      /\ \A x \in Of(n) : def'[x] = n =>
           \A k \in 1 .. Len(parts[x]) : def'[parts[x][1]] = ds[1] \/ (ds[1] = n /\ def'[parts[x][1]] = new)
  <2>1. def' = Moving(n, new)
    BY DEF Solve
  <2> HIDE DEF new, L
  <2>2. Moves(def', n, new)
    BY <1>1, <1>2, <2>1, MovingIs DEF L
  <2> QED
    BY <1>1, <2>2, ProperIs DEF Moves, L
<1>5. /\ moved = {} => canonical' = same /\ succ' = hooks /\ waiting' = waiting \ {n}
      /\ moved # {} =>
           /\ canonical' = Append(same, PartDefs(def', Min(moved)))
           /\ succ' = Hooked(Append(hooks, {}), new, canonical'[new])
           /\ waiting' = (waiting \ {n}) \cup {new} \cup succ'[n]
  BY DEF Solve, Woken
<1> HIDE DEF new, ds, moved, L
<1>6. same \in Seq(Seq(Nat)) /\ Len(same) = L /\ \A m \in 1 .. L : same[m] = IF m = n THEN ds ELSE canonical[m]
  <2>1. \A m \in 1 .. L : canonical[m] \in Seq(Nat)
    BY <1>1, ElementOfSeq DEF L
  <2>2. same \in Seq(Seq(Nat)) /\ Len(same) = L
    BY <1>1, <1>3, ExceptSeq DEF L
  <2>3. DOMAIN canonical = 1 .. L
    BY <1>1 DEF L
  <2> QED
    BY <2>2, <2>3
\* The lists of those to wake.
<1>7. /\ hooks \in Seq(SUBSET Nat) /\ Len(hooks) = L
      /\ \A m \in 1 .. L : succ[m] \subseteq hooks[m] /\ hooks[m] \in SUBSET Nat /\ hooks[m] \subseteq succ[m] \cup {n}
      /\ ds # canonical[n] => \A k \in 1 .. Len(ds) : n \in hooks[ds[k]]
  <2>1. \A m \in 1 .. L : succ[m] \in SUBSET Nat
    BY <1>1, ElementOfSeq
  <2>2. DOMAIN succ = 1 .. L /\ Range(ds) = {ds[k] : k \in 1 .. Len(ds)} /\ n \in Nat
    BY <1>1, <1>3 DEF Range
  <2>3. CASE ds = canonical[n]
    BY <1>1, <2>1, <2>3
  <2>4. CASE ds # canonical[n]
    <3>1. hooks = [m \in 1 .. L |-> IF m \in Range(ds) THEN succ[m] \cup {n} ELSE succ[m]]
      BY <2>2, <2>4 DEF Hooked
    <3>2. hooks \in [1 .. L -> SUBSET Nat]
      BY <2>1, <2>2, <3>1
    <3>3. \A m \in 1 .. L : hooks[m] = IF m \in Range(ds) THEN succ[m] \cup {n} ELSE succ[m]
      BY <3>1
    <3> HIDE DEF hooks
    <3>4. hooks \in Seq(SUBSET Nat) /\ Len(hooks) = L
      BY <1>1, <3>2
    <3>5. \A k \in 1 .. Len(ds) : n \in hooks[ds[k]]
      BY <1>3, <2>2, <3>3
    <3> QED
      BY <2>1, <3>3, <3>4, <3>5
  <2> QED
    BY <2>3, <2>4
<1> HIDE DEF same, hooks
<1>8. \A m, k \in Nat : m \in 1 .. L /\ k \in 1 .. Len(same[m]) => same[m][k] \in 1 .. L /\ m \in hooks[same[m][k]]
  <2> SUFFICES ASSUME NEW m \in 1 .. L, NEW k \in 1 .. Len(same[m])
               PROVE  same[m][k] \in 1 .. L /\ m \in hooks[same[m][k]]
    OBVIOUS
  <2>1. CASE same[m] = canonical[m]
    <3>1. canonical[m][k] \in 1 .. L
      BY <2>1 DEF SepInv, NodesAreInhabited, L
    <3>2. m \in succ[canonical[m][k]]
      BY <2>1, <3>1 DEF SepInv, Hooks, L
    <3> QED
      BY <1>7, <2>1, <3>1, <3>2
  <2>2. CASE same[m] # canonical[m]
    <3>1. m = n /\ same[m] = ds /\ ds # canonical[n]
      BY <1>6, <2>2
    <3> QED
      BY <1>3, <1>7, <3>1
  <2> QED
    BY <2>1, <2>2
\* Instances of a node have as many parts as it stands for.
<1>9. \A m \in 1 .. L : \A i \in Instances : def[i] = m => Len(parts[i]) = Len(same[m])
  BY <1>3, <1>6 DEF SepInv, NodesAreInhabited, L, Of
<1>10. parts' = parts
  BY DEF parts
<1>11. LocallyEqual'
  <2>1. \A i, j \in Instances : def'[i] = def'[j] => def[i] = def[j]
    BY <1>1, <1>2, <1>4
  <2>2. \A i, j \in Instances : def[i] = def[j] => Local(program, i) = Local(program, j)
    BY DEF SepInv, LocallyEqual
  <2> QED
    BY <2>1, <2>2 DEF LocallyEqual
<1>12. \A i \in Instances : \A k \in 1 .. Len(parts[i]) : k = 1 /\ parts[i][1] \in Instances /\ parts[i][k] = parts[i][1]
  BY <1>1, PartsAre
\* What stays as it was settled, unless a part of it moves.
<1>13. ASSUME NEW m \in 1 .. L, m # n, m \notin waiting, NEW i \in Instances, def'[i] = m,
              NEW k \in 1 .. Len(parts[i]), def'[parts[i][1]] # same[m][1]
       PROVE  moved # {} /\ m \in hooks[n]
  <2>1. def[i] = m /\ same[m] = canonical[m]
    BY <1>1, <1>2, <1>4, <1>6, <1>13
  <2>2. Settled(m)
    BY <1>1, <1>13 DEF SepInv, L
  <2>3. def[parts[i][1]] = canonical[m][1]
    BY <1>12, <2>1, <2>2 DEF Settled, Of
  <2>4. def[parts[i][1]] = n /\ def'[parts[i][1]] = new
    BY <1>4, <1>12, <1>13, <2>1, <2>3
  <2>5. k \in 1 .. Len(same[m]) /\ k = 1
    BY <1>9, <1>12, <2>1
  <2>6. m \in hooks[same[m][1]]
    BY <1>8, <2>5
  <2> QED
    BY <1>12, <2>1, <2>3, <2>4, <2>6 DEF moved
<1>14. ASSUME NEW i \in Instances, def'[i] = n, NEW k \in 1 .. Len(parts[i]), def'[parts[i][1]] # same[n][1]
       PROVE  moved # {} /\ n \in hooks[n]
  <2>1. def[i] = n
    BY <1>1, <1>2, <1>4, <1>14
  <2>2. same[n] = ds /\ i \in Of(n)
    BY <1>1, <1>6, <2>1 DEF Of
  <2>3. ds[1] = n
    BY <1>4, <1>14, <2>2
  <2>4. k \in 1 .. Len(same[n]) /\ k = 1
    BY <1>1, <1>9, <1>12, <2>1
  <2>5. n \in hooks[n]
    BY <1>1, <1>8, <2>2, <2>3, <2>4
  <2>6. CASE moved = {}
    BY <1>4, <1>12, <1>14, <2>2, <2>6 DEF moved
  <2> QED
    BY <2>5, <2>6
\* The nodes there were.
<1>15. ASSUME NEW m \in 1 .. L, m \notin waiting \/ m = n, moved = {} \/ m \notin hooks[n]
       PROVE  \A i \in Instances : def'[i] = m => \A k \in 1 .. Len(parts[i]) : def'[parts[i][1]] = same[m][1]
  <2>1. CASE m = n
    BY <1>14, <1>15, <2>1
  <2>2. CASE m # n
    BY <1>13, <1>15, <2>2
  <2> QED
    BY <2>1, <2>2
<1>16. \A m \in 1 .. L : \E i \in Instances : def'[i] = m
  <2> SUFFICES ASSUME NEW m \in 1 .. L
               PROVE  \E i \in Instances : def'[i] = m
    OBVIOUS
  <2>1. CASE m = n
    BY <1>4, <2>1 DEF Of
  <2>2. CASE m # n
    <3>1. PICK i \in Instances : def[i] = m
      BY DEF SepInv, NodesAreInhabited, Of, L
    <3> QED
      BY <1>4, <2>2, <3>1
  <2> QED
    BY <2>1, <2>2
<1>17. \A i \in Instances : def'[i] \in 1 .. L => def[i] = def'[i]
  BY <1>2, <1>4
<1>18. CASE moved = {}
  <2>1. c = same /\ succ' = hooks /\ waiting' = waiting \ {n}
    BY <1>5, <1>18
  <2>2. def' \in [Instances -> 1 .. L]
    <3>1. \A i \in Instances : def'[i] \in 1 .. L
      BY <1>2, <1>4, <1>18 DEF moved
    <3> QED
      BY <1>4, <3>1
  <2>3. Shape'
    BY <1>1, <1>6, <1>7, <2>1, <2>2 DEF Shape
  <2>4. NodesAreInhabited'
    <3>1. Len(c) = L
      BY <1>6, <2>1
    <3>2. \A m \in 1 .. L : \E i \in Instances : def'[i] = m
      BY <1>16
    <3>3. \A m \in 1 .. L : \A i \in Instances : def'[i] = m => Len(parts'[i]) = Len(c[m])
      BY <1>9, <1>10, <1>17, <2>1
    <3>4. \A m \in 1 .. L : \A k \in 1 .. Len(c[m]) : c[m][k] \in 1 .. L
      <4> SUFFICES ASSUME NEW m \in 1 .. L, NEW k \in 1 .. Len(c[m])
                   PROVE  c[m][k] \in 1 .. L
        OBVIOUS
      <4>1. m \in Nat /\ k \in Nat
        BY <1>1
      <4> QED
        BY <1>8, <2>1, <4>1
    <3> QED
      BY <3>1, <3>2, <3>3, <3>4 DEF NodesAreInhabited, Of
  <2>5. Hooks'
    BY <1>1, <1>6, <1>8, <2>1 DEF Hooks
  <2>6. \A m \in 1 .. L : m \notin waiting' => Settled(m)'
    BY <1>10, <1>15, <1>18, <2>1 DEF Settled, Of
  <2> QED
    BY <1>6, <1>11, <2>1, <2>3, <2>4, <2>5, <2>6 DEF SepInv
<1>19. CASE moved # {}
  <2> DEFINE i == Min(moved)
             pd == PartDefs(def', i)
             more == Append(hooks, {})
  <2>1. moved \in SUBSET Nat
    BY ProgramAssumption DEF moved, Instances
  <2>2. i \in Instances /\ def'[i] = new
    <3>1. i \in moved
      BY <1>19, <2>1, MinIs
    <3> QED
      BY <3>1 DEF moved
  <2>3. c = Append(same, pd) /\ succ' = Hooked(more, new, c[new]) /\ waiting' = (waiting \ {n}) \cup {new} \cup succ'[n]
    BY <1>5, <1>19
  <2> HIDE DEF i
  <2>4. /\ pd \in Seq(Nat) /\ Len(pd) = Len(parts[i])
        /\ \A k \in 1 .. Len(pd) : k = 1 /\ pd[k] = def'[parts[i][1]] /\ pd[k] \in 1 .. new
    <3> DEFINE K == Len(parts[i])
    <3>1. DOMAIN parts[i] = 1 .. K /\ K \in Nat /\ \A k \in 1 .. K : k = 1 /\ parts[i][1] \in Instances
      BY <1>1, <2>2, PartsAre
    <3>2. pd = [k \in 1 .. K |-> def'[parts[i][k]]]
      BY <1>10, <3>1 DEF PartDefs
    <3>3. \A k \in 1 .. K : def'[parts[i][k]] \in 1 .. new /\ def'[parts[i][k]] = def'[parts[i][1]]
      BY <1>2, <1>4, <3>1
    <3>4. 1 .. new \subseteq Nat
      OBVIOUS
    <3> HIDE DEF K, pd
    <3>5. pd \in [1 .. K -> Nat] /\ \A k \in 1 .. K : pd[k] = def'[parts[i][1]] /\ pd[k] \in 1 .. new
      BY <3>2, <3>3, <3>4
    <3> QED
      BY <3>1, <3>5 DEF K
  <2> HIDE DEF pd
  <2>5. c \in Seq(Seq(Nat)) /\ Len(c) = new /\ c[new] = pd /\ \A m \in 1 .. L : c[m] = same[m]
    <3>1. Len(same) + 1 = new
      BY <1>6 DEF new
    <3> QED
      BY <1>6, <2>3, <2>4, <3>1, AppendProperties
  <2> HIDE DEF c
  <2>6. /\ more \in Seq(SUBSET Nat) /\ Len(more) = new /\ more[new] = {} /\ \A m \in 1 .. L : more[m] = hooks[m]
    <3>1. Len(hooks) + 1 = new /\ {} \in SUBSET Nat
      BY <1>7 DEF new
    <3> QED
      BY <1>7, <3>1, AppendProperties
  <2> HIDE DEF more
  <2>7. /\ succ' \in Seq(SUBSET Nat) /\ Len(succ') = new
        /\ \A m \in 1 .. new : more[m] \subseteq succ'[m] /\ succ'[m] \subseteq more[m] \cup {new}
        /\ \A k \in 1 .. Len(pd) : new \in succ'[pd[k]]
    <3>1. DOMAIN more = 1 .. new /\ Range(pd) = {pd[k] : k \in 1 .. Len(pd)} /\ new \in Nat
      BY <1>2, <2>4, <2>6 DEF Range
    <3>2. succ' = [m \in 1 .. new |-> IF m \in Range(pd) THEN more[m] \cup {new} ELSE more[m]]
      BY <2>3, <2>5, <3>1 DEF Hooked
    <3>3. \A m \in 1 .. new : more[m] \in SUBSET Nat
      BY <1>2, <2>6, ElementOfSeq
    <3>4. \A m \in 1 .. new : succ'[m] = IF m \in Range(pd) THEN more[m] \cup {new} ELSE more[m]
      BY <3>2
    <3>5. succ' \in [1 .. new -> SUBSET Nat]
      BY <3>1, <3>2, <3>3
    <3>6. succ' \in Seq(SUBSET Nat) /\ Len(succ') = new
      BY <3>1, <3>5
    <3> QED
      BY <2>4, <3>1, <3>4, <3>6
  <2>8. /\ \A m \in 1 .. L : hooks[m] \subseteq succ'[m]
        /\ \A m \in 1 .. new : succ'[m] \subseteq 1 .. new
    <3>1. \A m \in 1 .. L : hooks[m] \subseteq 1 .. new
      BY <1>1, <1>2, <1>7
    <3> QED
      BY <1>2, <2>6, <2>7, <3>1
  <2>9. def' \in [Instances -> 1 .. new] /\ new \in Nat
    BY <1>2, <1>4
  <2>10. Shape'
    <3>1. waiting' \subseteq 1 .. new
      BY <1>1, <1>2, <2>3, <2>8
    <3> QED
      BY <1>1, <2>5, <2>7, <2>8, <2>9, <3>1 DEF Shape, c
  <2>11. NodesAreInhabited'
    <3>1. \A m \in 1 .. new : \E j \in Instances : def'[j] = m
      BY <1>2, <1>16, <2>2
    <3>2. \A m \in 1 .. new : \A j \in Instances : def'[j] = m => Len(parts'[j]) = Len(c[m])
      <4> SUFFICES ASSUME NEW m \in 1 .. new, NEW j \in Instances, def'[j] = m
                   PROVE  Len(parts[j]) = Len(c[m])
        BY <1>10
      <4>1. CASE m = new
        <5>1. Local(program', j) = Local(program', i)
          BY <1>11, <2>2, <4>1 DEF LocallyEqual
        <5> QED
          BY <1>1, <2>2, <2>4, <2>5, <4>1, <5>1, PartsAre
      <4>2. CASE m # new
        BY <1>2, <1>9, <1>17, <2>5, <4>2
      <4> QED
        BY <4>1, <4>2
    <3>3. \A m \in 1 .. new : \A k \in 1 .. Len(c[m]) : c[m][k] \in 1 .. new
      <4> SUFFICES ASSUME NEW m \in 1 .. new, NEW k \in 1 .. Len(c[m])
                   PROVE  c[m][k] \in 1 .. new
        OBVIOUS
      <4>1. m \in Nat /\ k \in Nat
        BY <1>2
      <4> QED
        BY <1>2, <1>8, <2>4, <2>5, <4>1
    <3> QED
      BY <2>5, <3>1, <3>2, <3>3 DEF NodesAreInhabited, Of, c
  <2>12. Hooks'
    <3> SUFFICES ASSUME NEW m \in 1 .. new, NEW k \in 1 .. Len(c[m])
                 PROVE  m \in succ'[c[m][k]]
      BY <2>5 DEF Hooks, c
    <3>1. m \in Nat /\ k \in Nat
      BY <1>2
    <3>2. CASE m = new
      BY <2>5, <2>7, <3>2
    <3>3. CASE m # new
      <4>1. m \in 1 .. L /\ c[m] = same[m]
        BY <1>2, <2>5, <3>3
      <4>2. c[m][k] \in 1 .. L /\ m \in hooks[c[m][k]]
        BY <1>8, <3>1, <4>1
      <4> QED
        BY <2>8, <4>2
    <3> QED
      BY <3>2, <3>3
  <2>13. \A m \in 1 .. new : m \notin waiting' => Settled(m)'
    <3> SUFFICES ASSUME NEW m \in 1 .. new, m \notin waiting',
                        NEW j \in Instances, def'[j] = m, NEW k \in 1 .. Len(parts[j])
                 PROVE  def'[parts[j][1]] = c[m][1]
      BY <1>10 DEF Settled, Of, c
    <3>1. m # new /\ m \in 1 .. L /\ m \notin succ'[n] /\ (m \notin waiting \/ m = n)
      BY <1>2, <2>3
    <3>2. m \notin hooks[n]
      BY <1>1, <2>8, <3>1
    <3>3. def'[parts[j][1]] = same[m][1]
      BY <1>15, <3>1, <3>2
    <3> QED
      BY <2>5, <3>1, <3>3
  <2> QED
    BY <1>11, <2>5, <2>10, <2>11, <2>12, <2>13 DEF SepInv, c
<1> QED
  BY <1>18, <1>19

----------------------------------------------------------------------------
(***************************************************************************)
(* The first division.                                                     *)
(***************************************************************************)
Leads(j) == Leader(program, j) = j

\* How many leaders there are up to k: the number of the node of k, if k leads.
Rank(k) == Cardinality({j \in 1 .. k : Leads(j)})

LEMMA RankIs ==
  /\ Rank(0) = 0
  /\ \A k \in Nat : Rank(k) \in Nat /\ Rank(k + 1) = IF Leads(k + 1) THEN Rank(k) + 1 ELSE Rank(k)
<1> DEFINE S(k) == {j \in 1 .. k : Leads(j)}
<1>1. Rank(0) = 0
  <2>1. S(0) = {}
    OBVIOUS
  <2> QED
    BY <2>1, FS_EmptySet DEF Rank
<1>2. ASSUME NEW k \in Nat
      PROVE  Rank(k) \in Nat /\ Rank(k + 1) = IF Leads(k + 1) THEN Rank(k) + 1 ELSE Rank(k)
  <2>1. IsFiniteSet(1 .. k)
    <3>1. 1 \in Int /\ k \in Int
      OBVIOUS
    <3> QED
      BY <3>1, FS_Interval, Zenon
  <2>2. S(k) \subseteq 1 .. k
    OBVIOUS
  <2>3. k + 1 \notin S(k)
    OBVIOUS
  <2>4. S(k + 1) = IF Leads(k + 1) THEN S(k) \cup {k + 1} ELSE S(k)
    OBVIOUS
  <2> DEFINE T == S(k)
  <2>5. Rank(k) = Cardinality(T)
    BY DEF Rank
  <2>6. Rank(k + 1) = IF Leads(k + 1) THEN Cardinality(T \cup {k + 1}) ELSE Cardinality(T)
    BY <2>4 DEF Rank
  <2>7. IsFiniteSet(T)
    BY <2>1, <2>2, FS_Subset
  <2> HIDE DEF S, T
  <2>8. Cardinality(T) \in Nat /\ Cardinality(T \cup {k + 1}) = IF k + 1 \in T THEN Cardinality(T) ELSE Cardinality(T) + 1
    BY <2>7, FS_CardinalityType, FS_AddElement
  <2> QED
    BY <2>3, <2>5, <2>6, <2>8 DEF T
<1> QED
  BY <1>1, <1>2

\* The ranks of leaders are different numbers, and all there are up to theirs.
LEMMA RanksAre ==
  \A k \in Nat :
    /\ \A l \in 1 .. k : Leads(l) => Rank(l) \in 1 .. Rank(k) /\ (l # k /\ Leads(k) => Rank(l) # Rank(k))
    /\ \A n \in 1 .. Rank(k) : \E l \in 1 .. k : Leads(l) /\ Rank(l) = n
<1> DEFINE Right(k) == /\ \A l \in 1 .. k : Leads(l) => Rank(l) \in 1 .. Rank(k) /\ (l # k /\ Leads(k) => Rank(l) # Rank(k))
                       /\ \A n \in 1 .. Rank(k) : \E l \in 1 .. k : Leads(l) /\ Rank(l) = n
           Q == {k \in Nat : Right(k)}
<1>1. 0 \in Q
  <2>1. Rank(0) = 0
    BY RankIs
  <2> QED
    BY <2>1
<1>2. ASSUME NEW k \in Nat, k \in Q
      PROVE  k + 1 \in Q
  <2>1. Right(k)
    BY <1>2
  <2> DEFINE r == Rank(k)
             s == Rank(k + 1)
  <2>2. r \in Nat /\ s = IF Leads(k + 1) THEN r + 1 ELSE r
    BY RankIs
  <2>3. 1 .. k + 1 = 1 .. k \cup {k + 1} /\ k + 1 \notin 1 .. k
    OBVIOUS
  <2>4. \A l \in 1 .. k : Leads(l) => Rank(l) \in 1 .. r
    BY <2>1
  <2>5. \A n \in 1 .. r : \E l \in 1 .. k : Leads(l) /\ Rank(l) = n
    BY <2>1
  <2> HIDE DEF r
  <2>6. ASSUME NEW l \in 1 .. k + 1, Leads(l)
        PROVE  Rank(l) \in 1 .. s /\ (l # k + 1 /\ Leads(k + 1) => Rank(l) # s)
    <3>1. CASE l = k + 1
      BY <2>2, <2>6, <3>1
    <3>2. CASE l # k + 1
      <4>1. Rank(l) \in 1 .. r
        BY <2>3, <2>4, <2>6, <3>2
      <4> HIDE DEF s
      <4> QED
        BY <2>2, <4>1
    <3> QED
      BY <3>1, <3>2
  <2>7. ASSUME NEW n \in 1 .. s
        PROVE  \E l \in 1 .. k + 1 : Leads(l) /\ Rank(l) = n
    <3>1. CASE n \in 1 .. r
      BY <2>3, <2>5, <3>1
    <3>2. CASE n \notin 1 .. r
      <4>1. Leads(k + 1) /\ n = s
        <5> HIDE DEF s
        <5> QED
          BY <2>2, <2>7, <3>2
      <4> QED
        BY <2>3, <4>1
    <3> QED
      BY <3>1, <3>2
  <2>8. Right(k + 1)
    BY <2>6, <2>7
  <2> QED
    BY <2>8
<1> HIDE DEF Q
<1>3. Nat \subseteq Q
  BY <1>1, <1>2, NatSets
<1> QED
  BY <1>3 DEF Q

LEMMA LeaderIs ==
  ASSUME NEW i \in Instances
  PROVE  /\ Leader(program, i) \in Instances /\ Local(program, Leader(program, i)) = Local(program, i)
         /\ Leads(Leader(program, i))
<1> DEFINE S(x) == {j \in Instances : Local(program, j) = Local(program, x)}
           l == Min(S(i))
<1>1. S(i) \in SUBSET Nat /\ i \in S(i)
  BY ProgramAssumption DEF Instances
<1>2. l \in S(i)
  <2> HIDE DEF S
  <2> QED
    BY <1>1, MinIs
<1>3. Leader(program, i) = l
  BY DEF Leader
<1> HIDE DEF l
<1>4. l \in Instances /\ Local(program, l) = Local(program, i)
  BY <1>2
<1>5. S(l) = S(i)
  BY <1>4
<1>6. Leader(program, l) = Min(S(l))
  BY DEF Leader
<1> QED
  BY <1>3, <1>4, <1>5, <1>6 DEF Leads, l

LEMMA InitSep == OnePart /\ Count > 0 /\ Init => SepInv
<1> SUFFICES ASSUME OnePart, Count > 0, Init
             PROVE  SepInv
  OBVIOUS
<1> DEFINE M == Max(Range(def))
           K == Rank(Count)
<1>1. Count \in Nat /\ 1 \in Instances /\ Instances \subseteq Nat /\ program \in Programs
  BY ProgramAssumption DEF Instances, Init
<1>2. ASSUME NEW i \in Instances
      PROVE  def[i] = Rank(Leader(program, i)) /\ def[i] \in 1 .. K
  <2>1. def[i] = Rank(Leader(program, i))
    BY DEF Init, FirstNode, Rank, Leads
  <2>2. Leader(program, i) \in 1 .. Count /\ Leads(Leader(program, i))
    BY LeaderIs DEF Instances
  <2> QED
    BY <1>1, <2>1, <2>2, RanksAre
<1>3. K \in Nat
  BY <1>1, RankIs
<1>4. DOMAIN def = Instances
  BY DEF Init
<1> HIDE DEF K
<1>5. M \in Range(def) /\ \A x \in Range(def) : x <= M
  <2>1. Range(def) \in SUBSET (1 .. K) /\ Range(def) # {}
    BY <1>1, <1>2, <1>4 DEF Range
  <2> QED
    BY <1>3, <2>1, MaxIs
<1> HIDE DEF M
<1>6. M \in 1 .. K /\ M \in Nat /\ \A i \in Instances : def[i] \in 1 .. M
  BY <1>2, <1>4, <1>5 DEF Range
<1>7. ASSUME NEW n \in 1 .. M
      PROVE  \E i \in Instances : def[i] = n
  <2>1. PICK i \in Instances : def[i] = M
    BY <1>4, <1>5 DEF Range
  <2> DEFINE l == Leader(program, i)
  <2>2. l \in Nat /\ l \in 1 .. Count /\ Rank(l) = M
    BY <1>1, <1>2, <2>1, LeaderIs DEF Instances
  <2> HIDE DEF l
  <2>3. PICK j \in 1 .. l : Leads(j) /\ Rank(j) = n
    BY <2>2, RanksAre
  <2>4. j \in Instances
    BY <1>1, <2>2 DEF Instances
  <2>5. def[j] = n
    BY <1>2, <2>3, <2>4 DEF Leads
  <2> QED
    BY <2>4, <2>5
<1>8. /\ canonical = [n \in 1 .. M |-> PartDefs(def, Min(Of(n)))]
      /\ succ = [n \in 1 .. M |-> {m \in 1 .. M : n \in Range(canonical[m])}]
      /\ waiting = {n \in 1 .. M : Cardinality(Of(n)) > 1}
  BY DEF Init, Nodes, M
<1>9. def \in [Instances -> 1 .. M]
  <2>1. def = [i \in Instances |-> def[i]]
    BY DEF Init
  <2> QED
    BY <1>6, <2>1
<1>10. LocallyEqual
  <2> SUFFICES ASSUME NEW i \in Instances, NEW j \in Instances, def[i] = def[j]
               PROVE  Local(program, i) = Local(program, j)
    BY DEF LocallyEqual
  <2> DEFINE a == Leader(program, i)
             b == Leader(program, j)
  <2>1. /\ a \in 1 .. Count /\ a \in Nat /\ Leads(a) /\ Local(program, a) = Local(program, i)
        /\ b \in 1 .. Count /\ b \in Nat /\ Leads(b) /\ Local(program, b) = Local(program, j)
        /\ Rank(a) = Rank(b)
    BY <1>1, <1>2, LeaderIs DEF Instances
  <2> HIDE DEF a, b
  <2>2. a = b
    <3>1. CASE a < b
      <4>1. a \in 1 .. b /\ a # b
        BY <2>1, <3>1
      <4> QED
        BY <2>1, <4>1, RanksAre
    <3>2. CASE b < a
      <4>1. b \in 1 .. a /\ a # b
        BY <2>1, <3>2
      <4> QED
        BY <2>1, <4>1, RanksAre
    <3> QED
      BY <2>1, <3>1, <3>2
  <2> QED
    BY <2>1, <2>2
\* What a node stands for is what is found in its first instance.
<1>11. ASSUME NEW n \in 1 .. M
       PROVE  \E i \in Of(n) :
                /\ canonical[n] \in Seq(Nat) /\ Len(canonical[n]) = Len(parts[i])
                /\ \A k \in 1 .. Len(parts[i]) :
                     k = 1 /\ canonical[n][k] = def[parts[i][1]] /\ canonical[n][k] \in 1 .. M
  <2> DEFINE i == Min(Of(n))
  <2>1. Of(n) \in SUBSET Nat /\ Of(n) # {} /\ Of(n) \subseteq Instances
    BY <1>1, <1>7 DEF Of
  <2>2. i \in Of(n) /\ i \in Instances
    BY <2>1, MinIs
  <2>3. canonical[n] = PartDefs(def, i)
    BY <1>8
  <2> HIDE DEF i
  <2> DEFINE L == Len(parts[i])
  <2>4. L \in Nat /\ DOMAIN parts[i] = 1 .. L /\ \A k \in 1 .. L : k = 1 /\ parts[i][1] \in Instances
    BY <1>1, <2>2, PartsAre
  <2>5. canonical[n] = [k \in 1 .. L |-> def[parts[i][k]]]
    BY <2>3, <2>4 DEF PartDefs
  <2> HIDE DEF L
  <2>6. \A k \in 1 .. L : def[parts[i][k]] \in Nat
    BY <1>6, <2>4
  <2>7. canonical[n] \in Seq(Nat) /\ Len(canonical[n]) = L
    BY <2>4, <2>5, <2>6
  <2>8. \A k \in 1 .. L : canonical[n][k] = def[parts[i][k]]
    BY <2>5
  <2> QED
    BY <1>6, <2>2, <2>4, <2>7, <2>8 DEF L
<1>12. canonical \in Seq(Seq(Nat)) /\ Len(canonical) = M
  <2>1. \A n \in 1 .. M : canonical[n] \in Seq(Nat)
    BY <1>11
  <2>2. canonical \in [1 .. M -> Seq(Nat)]
    BY <1>8, <2>1
  <2> QED
    BY <1>6, <2>2
<1>13. /\ succ \in Seq(SUBSET Nat) /\ Len(succ) = M
       /\ \A n \in 1 .. M : succ[n] = {m \in 1 .. M : n \in Range(canonical[m])}
  <2>1. \A n \in 1 .. M : {m \in 1 .. M : n \in Range(canonical[m])} \in SUBSET Nat
    OBVIOUS
  <2>2. succ \in [1 .. M -> SUBSET Nat]
    BY <1>8, <2>1
  <2> QED
    BY <1>6, <1>8, <2>2
<1>14. Shape
  BY <1>1, <1>8, <1>9, <1>12, <1>13 DEF Shape
<1>15. \A n \in 1 .. M : \A i, j \in Of(n) : Len(parts[i]) = Len(parts[j])
  <2> SUFFICES ASSUME NEW n \in 1 .. M, NEW i \in Of(n), NEW j \in Of(n)
               PROVE  Len(parts[i]) = Len(parts[j])
    OBVIOUS
  <2>1. i \in Instances /\ j \in Instances /\ def[i] = def[j]
    BY DEF Of
  <2>2. Local(program, i) = Local(program, j)
    BY <1>10, <2>1 DEF LocallyEqual
  <2> QED
    BY <1>1, <2>1, <2>2, PartsAre
<1>16. NodesAreInhabited
  <2> SUFFICES ASSUME NEW n \in 1 .. M
               PROVE  /\ Of(n) # {}
                      /\ \A i \in Of(n) : Len(parts[i]) = Len(canonical[n])
                      /\ \A k \in 1 .. Len(canonical[n]) : canonical[n][k] \in 1 .. M
    BY <1>12 DEF NodesAreInhabited
  <2>1. PICK i \in Of(n) : /\ Len(canonical[n]) = Len(parts[i])
                           /\ \A k \in 1 .. Len(parts[i]) : canonical[n][k] \in 1 .. M
    BY <1>11
  <2> QED
    BY <1>15, <2>1
<1>17. Hooks
  <2> SUFFICES ASSUME NEW m \in 1 .. M, NEW k \in 1 .. Len(canonical[m]), canonical[m][k] \in 1 .. M
               PROVE  m \in succ[canonical[m][k]]
    BY <1>12 DEF Hooks
  <2>1. canonical[m] \in Seq(Nat)
    BY <1>11
  <2>2. canonical[m][k] \in Range(canonical[m])
    BY <2>1 DEF Range
  <2> QED
    BY <1>13, <2>2
<1>18. ASSUME NEW n \in 1 .. M, n \notin waiting
       PROVE  Settled(n)
  <2>1. PICK i \in Of(n) : \A k \in 1 .. Len(parts[i]) : k = 1 /\ canonical[n][k] = def[parts[i][1]]
    BY <1>11
  <2>2. IsFiniteSet(Of(n))
    <3>1. IsFiniteSet(1 .. Count)
      <4>1. 1 \in Int /\ Count \in Int
        BY <1>1
      <4> QED
        BY <4>1, FS_Interval, Zenon
    <3> QED
      BY <3>1, FS_Subset DEF Of, Instances
  <2>3. ~ (Cardinality(Of(n)) > 1)
    BY <1>8, <1>18
  <2>4. Cardinality(Of(n)) = 1
    BY <2>1, <2>2, <2>3, FS_CardinalityType, FS_EmptySet
  <2>5. \A j \in Of(n) : j = i
    BY <2>1, <2>2, <2>4, FS_Singleton
  <2> QED
    BY <2>1, <2>5 DEF Settled
<1> QED
  BY <1>10, <1>12, <1>14, <1>16, <1>17, <1>18 DEF SepInv

----------------------------------------------------------------------------
(***************************************************************************)
(* Unfolding.                                                              *)
(***************************************************************************)
Unfold(u) == [i \in Instances |-> <<u[i], [k \in DOMAIN parts[i] |-> u[parts[i][k]]]>>]

Unfolds(n, U) ==
  U = [m \in 0 .. n |-> IF m = 0 THEN [i \in Instances |-> Local(program, i)]
                        ELSE LET u == U[m - 1]
                             IN  [i \in Instances |-> <<u[i], [k \in DOMAIN parts[i] |-> u[parts[i][k]]]>>]]

LEMMA UnfoldedIs == Unfolds(Count, Unfolded)
<1> DEFINE Q == {n \in Nat : \E U : Unfolds(n, U)}
           base == [i \in Instances |-> Local(program, i)]
<1>1. 0 \in Q
  <2> DEFINE U == [m \in 0 .. 0 |-> base]
  <2>1. Unfolds(0, U)
    BY DEF Unfolds
  <2> QED
    BY <2>1
<1>2. ASSUME NEW n \in Nat, n \in Q
      PROVE  n + 1 \in Q
  <2>1. PICK U : Unfolds(n, U)
    BY <1>2
  <2> DEFINE V == [m \in 0 .. n + 1 |-> IF m = n + 1 THEN Unfold(U[n]) ELSE U[m]]
  <2> HIDE DEF base
  <2>2. ASSUME NEW m \in 0 .. n
        PROVE  U[m] = IF m = 0 THEN base ELSE Unfold(U[m - 1])
    BY <2>1 DEF Unfolds, Unfold, base
  <2>3. ASSUME NEW m \in 0 .. n + 1
        PROVE  V[m] = IF m = 0 THEN base ELSE Unfold(V[m - 1])
    <3>1. CASE m = n + 1
      <4>1. m - 1 = n /\ n \in 0 .. n + 1 /\ n # n + 1 /\ m # 0
        BY <3>1
      <4>2. V[m - 1] = U[n] /\ V[m] = Unfold(U[n])
        BY <3>1, <4>1
      <4> HIDE DEF V
      <4> QED
        BY <4>1, <4>2
    <3>2. CASE m # n + 1
      <4>1. m \in 0 .. n
        BY <3>2
      <4>2. V[m] = U[m] /\ (m # 0 => V[m - 1] = U[m - 1])
        BY <3>2, <4>1
      <4> HIDE DEF V
      <4> QED
        BY <2>2, <4>1, <4>2
    <3> QED
      BY <3>1, <3>2
  <2>4. V = [m \in 0 .. n + 1 |-> IF m = 0 THEN base ELSE Unfold(V[m - 1])]
    <3>1. V = [m \in 0 .. n + 1 |-> V[m]]
      OBVIOUS
    <3> HIDE DEF V
    <3> QED
      BY <2>3, <3>1, Zenon
  <2> HIDE DEF V
  <2>5. Unfolds(n + 1, V)
    BY <2>4 DEF Unfolds, Unfold, base
  <2> QED
    BY <2>5
<1> HIDE DEF Q
<1>3. Nat \subseteq Q
  BY <1>1, <1>2, NatSets
<1>4. \E U : Unfolds(Count, U)
  BY <1>3, ProgramAssumption DEF Q
<1> QED
  BY <1>4, Zenon DEF Unfolds, Unfolded

\* When nothing is waiting, the instances of a node agree, however deep one
\* looks.
LEMMA CongruenceIs == OnePart /\ SepInv => SameBindingTimes
<1> SUFFICES ASSUME OnePart, SepInv, waiting = {}
             PROVE  \A i, j \in Instances : def[i] = def[j] =>
                      [x \in Instances |-> Unfolded[Count - 1][x]][i] = [x \in Instances |-> Unfolded[Count - 1][x]][j]
  BY DEF SameBindingTimes
<1>1. ASSUME NEW i \in Instances, NEW j \in Instances, def[i] = def[j]
      PROVE  /\ Local(program, i) = Local(program, j)
             /\ DOMAIN parts[i] = DOMAIN parts[j]
             /\ \A k \in DOMAIN parts[i] :
                  /\ parts[i][k] \in Instances /\ parts[j][k] \in Instances
                  /\ def[parts[i][k]] = def[parts[j][k]]
  <2>1. Local(program, i) = Local(program, j)
    BY <1>1 DEF SepInv, LocallyEqual
  <2>2. program \in Programs /\ def[i] \in 1 .. Len(canonical)
    BY DEF SepInv, Shape
  <2>3. Settled(def[i])
    BY <2>2 DEF SepInv
  <2>4. /\ DOMAIN parts[i] = 1 .. Len(parts[i]) /\ DOMAIN parts[j] = 1 .. Len(parts[j])
        /\ Len(parts[i]) = Len(parts[j])
        /\ \A k \in 1 .. Len(parts[i]) : parts[i][1] \in Instances /\ parts[i][k] = parts[i][1]
        /\ \A k \in 1 .. Len(parts[j]) : parts[j][1] \in Instances /\ parts[j][k] = parts[j][1]
    BY <2>1, <2>2, PartsAre
  <2>5. \A k \in 1 .. Len(parts[i]) : def[parts[i][1]] = canonical[def[i]][1]
    BY <2>3 DEF Settled, Of
  <2>6. \A k \in 1 .. Len(parts[j]) : def[parts[j][1]] = canonical[def[i]][1]
    BY <1>1, <2>3 DEF Settled, Of
  <2> QED
    BY <2>1, <2>4, <2>5, <2>6
<1> DEFINE U == Unfolded
           Same(n) == \A i, j \in Instances : def[i] = def[j] => U[n][i] = U[n][j]
           Q == {n \in Nat : n <= Count => Same(n)}
<1>2. Unfolds(Count, U) /\ Count \in Nat
  BY UnfoldedIs, ProgramAssumption
<1> HIDE DEF U
<1>3. U[0] = [i \in Instances |-> Local(program, i)]
      /\ \A n \in Nat : n + 1 <= Count =>
           U[n + 1] = [i \in Instances |-> <<U[n][i], [k \in DOMAIN parts[i] |-> U[n][parts[i][k]]]>>]
  <2>1. U[0] = [i \in Instances |-> Local(program, i)]
    BY <1>2 DEF Unfolds
  <2>2. ASSUME NEW n \in Nat, n + 1 <= Count
        PROVE  U[n + 1] = [i \in Instances |-> <<U[n][i], [k \in DOMAIN parts[i] |-> U[n][parts[i][k]]]>>]
    <3>1. n + 1 \in 0 .. Count /\ n + 1 # 0 /\ (n + 1) - 1 = n
      BY <1>2, <2>2
    <3> QED
      BY <1>2, <3>1 DEF Unfolds
  <2> QED
    BY <2>1, <2>2
<1>4. 0 \in Q
  BY <1>1, <1>3
<1>5. ASSUME NEW n \in Nat, n \in Q
      PROVE  n + 1 \in Q
  <2> SUFFICES ASSUME n + 1 <= Count, NEW i \in Instances, NEW j \in Instances, def[i] = def[j]
               PROVE  U[n + 1][i] = U[n + 1][j]
    OBVIOUS
  <2>1. Same(n)
    BY <1>2, <1>5
  <2>2. U[n][i] = U[n][j]
    BY <2>1
  <2>3. \A k \in DOMAIN parts[i] : U[n][parts[i][k]] = U[n][parts[j][k]]
    BY <1>1, <2>1
  <2>4. DOMAIN parts[i] = DOMAIN parts[j]
    BY <1>1
  <2>5. [k \in DOMAIN parts[i] |-> U[n][parts[i][k]]] = [k \in DOMAIN parts[j] |-> U[n][parts[j][k]]]
    BY <2>3, <2>4
  <2>6. U[n + 1][i] = <<U[n][i], [k \in DOMAIN parts[i] |-> U[n][parts[i][k]]]>>
    BY <1>3
  <2>7. U[n + 1][j] = <<U[n][j], [k \in DOMAIN parts[j] |-> U[n][parts[j][k]]]>>
    BY <1>3
  <2> QED
    BY <2>2, <2>5, <2>6, <2>7
<1> HIDE DEF Q
<1>6. Nat \subseteq Q
  BY <1>4, <1>5, NatSets
<1> SUFFICES ASSUME NEW i \in Instances, NEW j \in Instances, def[i] = def[j]
             PROVE  U[Count - 1][i] = U[Count - 1][j]
  BY DEF U
<1>7. Count - 1 \in Nat /\ Count - 1 <= Count
  BY <1>2 DEF Instances
<1>8. Count - 1 \in Q
  BY <1>6, <1>7
<1> QED
  BY <1>7, <1>8 DEF Q

----------------------------------------------------------------------------
\* The separation is right for structures of at most one part, as many as
\* there are, whatever they refer to and in whatever order they are looked at:
\* the instances of a definition have the same binding times at every depth.
THEOREM SeparationIsRight ==
  ASSUME OnePart
  PROVE  Spec => []SameBindingTimes
<1>1. CASE Count = 0
  <2>1. \A i, j \in Instances : FALSE
    BY <1>1 DEF Instances
  <2>2. SameBindingTimes
    BY <2>1, Zenon DEF SameBindingTimes
  <2> QED
    BY <2>2, PTL
<1>2. CASE Count # 0
  <2>1. Count > 0
    BY <1>2, ProgramAssumption
  <2>2. Init => SepInv
    BY <2>1, InitSep
  <2>3. SepInv /\ [Next]_vars => SepInv'
    <3> SUFFICES ASSUME SepInv, [Next]_vars
                 PROVE  SepInv'
      OBVIOUS
    <3>1. CASE Next
      BY <3>1, SolveKeeps DEF Next
    <3>2. CASE UNCHANGED vars
      BY <3>2 DEF vars, SepInv, Shape, NodesAreInhabited, LocallyEqual, Hooks, Settled, Of, parts
    <3> QED
      BY <3>1, <3>2
  <2>4. SepInv => SameBindingTimes
    BY CongruenceIs
  <2> QED
    BY <2>2, <2>3, <2>4, PTL DEF Spec
<1> QED
  BY <1>1, <1>2
=============================================================================
