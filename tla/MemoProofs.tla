----------------------------- MODULE MemoProofs -----------------------------
(***************************************************************************)
(* Proofs about the two tables that make memoization work (speclib/mem.c), *)
(* for any blocks and any hash function, and any program.                  *)
(*                                                                         *)
(* The shared copies (MemHash): no copy that is held loses its contents or *)
(* is not found, and none that is shareable is made twice.  Of the buckets *)
(* of a list each comes before the next (Descends), so that the search     *)
(* stops at the bucket of its block if there is one, and otherwise at the  *)
(* place that keeps the order.  Every large copy that is held is in the    *)
(* list of its hash value, with the number of its copies.                  *)
(*                                                                         *)
(* The residual functions (FunShare): one is shared exactly when what the  *)
(* call depends on is what it was made for, and only objects that are      *)
(* alive are restored.  A saved list is a walk (IsWalk): each object in it *)
(* is what the one before points to, or the next root.  Two walks that     *)
(* found the same values found the same objects, but for the address of    *)
(* the parameter (Alike), so that comparing the lists value by value, as   *)
(* far as both go, compares the sets (ComparingIsExact).  Every function   *)
(* of a pool keeps the walk it was made from (Saved).                      *)
(***************************************************************************)
EXTENDS FunShare, MemHash, SequenceLemmas

Bucket == [at : Address, ref_count : Nat \ {0}]

CopiesOK ==
  /\ memory \in [Address -> {<<>>} \cup {<<o>> : o \in Blocks}]
  /\ table \in [Keys -> Seq(Bucket)]
  /\ held \in [Address -> [block : Blocks \cup {<<>>}, copies : Nat]]

Held(a) == held[a].copies > 0
Large(o) == Size(o) >= MinSize

\* What is in the list of the hash value k is held, and counted.
Counts(k) ==
  \A i \in 1 .. Len(table[k]) :
    LET a == table[k][i].at
    IN  /\ held[a].copies = table[k][i].ref_count
        /\ Large(held[a].block) /\ Hash(Size(held[a].block)) = k

Descends(k) ==
  \A i, j \in 1 .. Len(table[k]) :
    i < j => Passes(held[table[k][j].at].block, held[table[k][i].at].block)

\* A large copy is in its list, a small one is not shared.
Listed(a) ==
  Held(a) => IF Large(held[a].block)
             THEN \E i \in 1 .. Len(List(held[a].block)) : List(held[a].block)[i].at = a
             ELSE held[a].copies = 1

TableInv ==
  /\ CopiesOK /\ CopiesAreIntact
  /\ \A k \in Keys : Counts(k) /\ Descends(k)
  /\ \A a \in Address : Listed(a)

----------------------------------------------------------------------------
(***************************************************************************)
(* Searching.                                                              *)
(***************************************************************************)
LEMMA PassesIs ==
  ASSUME NEW o \in Blocks, NEW p \in Blocks
  PROVE  /\ o = p \/ Passes(o, p) \/ Passes(p, o)
         /\ ~ (Passes(o, p) /\ Passes(p, o))
         /\ ~ Passes(o, o)
         /\ \A q \in Blocks : Passes(o, p) /\ Passes(p, q) => Passes(o, q)
<1>1. \A q \in Blocks : Size(q) \in Nat /\ Bytes(q) \in Nat /\ q = <<Size(q), Bytes(q)>>
  BY BlockAssumption DEF Size, Bytes
<1>2. Size(o) = Size(p) /\ Bytes(o) = Bytes(p) => o = p
  BY <1>1
<1> QED
  BY <1>1, <1>2 DEF Passes

\* What is known of a bucket.
LEMMA BucketIs ==
  ASSUME TableInv, NEW k \in Keys, NEW i \in 1 .. Len(table[k])
  PROVE  LET b == table[k][i]
         IN  /\ b \in Bucket /\ b.at \in Address /\ b.ref_count \in Nat /\ b.ref_count > 0
             /\ held[b.at].copies = b.ref_count /\ Held(b.at)
             /\ Obj(b) = held[b.at].block /\ memory[b.at] = <<Obj(b)>>
             /\ Obj(b) \in Blocks /\ Large(Obj(b)) /\ Hash(Size(Obj(b))) = k
<1> DEFINE b == table[k][i]
           o == held[b.at].block
<1>1. b \in Bucket
  <2>1. table[k] \in Seq(Bucket)
    BY DEF TableInv, CopiesOK
  <2> QED
    BY <2>1, ElementOfSeq
<1>2. b.at \in Address /\ b.ref_count \in Nat /\ b.ref_count > 0
  BY <1>1 DEF Bucket
<1>3. held[b.at].copies = b.ref_count /\ Large(o) /\ Hash(Size(o)) = k
  BY DEF TableInv, Counts
<1> HIDE DEF b
<1>4. memory[b.at] = <<o>> /\ memory[b.at] \in {<<>>} \cup {<<x>> : x \in Blocks}
  BY <1>2, <1>3 DEF TableInv, CopiesAreIntact, CopiesOK
<1>5. o \in Blocks /\ Obj(b) = o
  BY <1>4 DEF Obj
<1> QED
  BY <1>1, <1>2, <1>3, <1>4, <1>5 DEF b, Held

LEMMA ListIs ==
  ASSUME TableInv, NEW o \in Blocks
  PROVE  /\ Hash(Size(o)) \in Keys /\ List(o) = table[Hash(Size(o))]
         /\ List(o) \in Seq(Bucket) /\ Len(List(o)) \in Nat
<1>1. Hash(Size(o)) \in Keys
  BY DEF Keys
<1> QED
  BY <1>1 DEF List, TableInv, CopiesOK

\* The search passes by everything before the place it ends at.
LEMMA PlaceIs ==
  ASSUME TableInv, NEW o \in Blocks
  PROVE  /\ Place(o) \in 1 .. Len(List(o)) + 1
         /\ \A i \in 1 .. Place(o) - 1 : Passes(o, Obj(List(o)[i]))
         /\ Place(o) <= Len(List(o)) => ~ Passes(o, Obj(List(o)[Place(o)]))
<1> DEFINE L == Len(List(o))
           S == {i \in 1 .. L + 1 : i <= L => ~ Passes(o, Obj(List(o)[i]))}
           n == Min(S)
<1>1. L \in Nat
  BY ListIs
<1>2. S \in SUBSET Nat /\ L + 1 \in S
  BY <1>1
<1>3. Place(o) = n
  BY DEF Place
<1> HIDE DEF n
<1>4. n \in S /\ \A i \in S : n <= i
  <2> HIDE DEF S
  <2> QED
    BY <1>2, MinIs DEF n
<1>5. n \in 1 .. L + 1 /\ (n <= L => ~ Passes(o, Obj(List(o)[n])))
  BY <1>4
<1>6. ASSUME NEW i \in 1 .. n - 1
      PROVE  Passes(o, Obj(List(o)[i]))
  <2>1. i \in 1 .. L + 1 /\ i <= L /\ ~ (n <= i)
    BY <1>1, <1>5
  <2>2. i \notin S
    BY <1>4, <2>1
  <2> QED
    BY <2>1, <2>2
<1> QED
  BY <1>3, <1>5, <1>6

\* A block that is in the list is found.
LEMMA BucketFound ==
  ASSUME TableInv, NEW o \in Blocks, NEW i \in 1 .. Len(List(o)), Obj(List(o)[i]) = o
  PROVE  Place(o) = i /\ IsThere(o)
<1> DEFINE L == Len(List(o))
           n == Place(o)
           k == Hash(Size(o))
<1>1. k \in Keys /\ List(o) = table[k] /\ L \in Nat
  BY ListIs
<1>2. n \in 1 .. L + 1 /\ (\A j \in 1 .. n - 1 : Passes(o, Obj(List(o)[j])))
      /\ (n <= L => ~ Passes(o, Obj(List(o)[n])))
  BY PlaceIs
<1> HIDE DEF n, k
<1>3. ~ (i < n)
  BY <1>1, <1>2, PassesIs
<1>4. ~ (n < i)
  <2> SUFFICES ASSUME n < i
               PROVE  FALSE
    OBVIOUS
  <2>1. n \in 1 .. L
    BY <1>1, <1>2
  <2>2. Passes(held[table[k][i].at].block, held[table[k][n].at].block)
    BY <1>1, <2>1 DEF TableInv, Descends
  <2>3. Passes(o, Obj(List(o)[n]))
    BY <1>1, <2>1, <2>2, BucketIs
  <2> QED
    BY <1>2, <2>1, <2>3
<1>5. n = i
  BY <1>1, <1>2, <1>3, <1>4
<1> QED
  BY <1>5 DEF n, IsThere

\* One that is not comes before everything from its place on.
LEMMA NotFoundIs ==
  ASSUME TableInv, NEW o \in Blocks, ~ IsThere(o),
         NEW i \in 1 .. Len(List(o)), Place(o) <= i
  PROVE  Passes(Obj(List(o)[i]), o)
<1> DEFINE L == Len(List(o))
           n == Place(o)
           k == Hash(Size(o))
<1>1. k \in Keys /\ List(o) = table[k] /\ L \in Nat
  BY ListIs
<1>2. n \in 1 .. L /\ ~ Passes(o, Obj(List(o)[n]))
  BY <1>1, PlaceIs
<1>3. Obj(List(o)[n]) # o
  BY <1>2 DEF IsThere
<1>4. n <= i
  OBVIOUS
<1> HIDE DEF n, k
<1>5. Obj(List(o)[n]) \in Blocks /\ Obj(List(o)[i]) \in Blocks
  BY <1>1, <1>2, BucketIs
<1>6. Passes(Obj(List(o)[n]), o)
  BY <1>2, <1>3, <1>5, PassesIs
<1>7. CASE n < i
  <2>1. Passes(held[table[k][i].at].block, held[table[k][n].at].block)
    BY <1>1, <1>2, <1>7 DEF TableInv, Descends
  <2>2. Passes(Obj(List(o)[i]), Obj(List(o)[n]))
    BY <1>1, <1>2, <2>1, BucketIs
  <2> QED
    BY <1>5, <1>6, <2>2, PassesIs
<1>8. CASE n = i
  BY <1>6, <1>8
<1> QED
  BY <1>1, <1>2, <1>4, <1>7, <1>8

LEMMA HeldIs ==
  ASSUME TableInv, NEW a \in Address, Held(a)
  PROVE  /\ held[a].block \in Blocks /\ memory[a] = <<held[a].block>> /\ held[a].copies \in Nat
         /\ held[a] = [block |-> held[a].block, copies |-> held[a].copies]
         /\ Large(held[a].block) =>
              \E i \in 1 .. Len(List(held[a].block)) :
                /\ List(held[a].block)[i].at = a /\ Obj(List(held[a].block)[i]) = held[a].block
                /\ i = Place(held[a].block) /\ IsThere(held[a].block)
<1> DEFINE o == held[a].block
<1>1. memory[a] = <<o>> /\ memory[a] \in {<<>>} \cup {<<x>> : x \in Blocks}
  BY DEF TableInv, CopiesOK, CopiesAreIntact, Held
<1>2. o \in Blocks
  BY <1>1
<1>3. held[a] \in [block : Blocks \cup {<<>>}, copies : Nat]
  BY DEF TableInv, CopiesOK
<1>4. held[a].copies \in Nat /\ held[a] = [block |-> held[a].block, copies |-> held[a].copies]
  BY <1>3
<1>5. ASSUME Large(o)
      PROVE  \E i \in 1 .. Len(List(o)) :
                List(o)[i].at = a /\ Obj(List(o)[i]) = o /\ i = Place(o) /\ IsThere(o)
  <2>1. PICK i \in 1 .. Len(List(o)) : List(o)[i].at = a
    BY <1>5 DEF TableInv, Listed
  <2> HIDE DEF o
  <2>2. Obj(List(o)[i]) = o
    BY <1>1, <2>1 DEF Obj
  <2>3. Place(o) = i /\ IsThere(o)
    BY <1>2, <2>2, BucketFound
  <2> QED
    BY <2>1, <2>2, <2>3
<1> QED
  BY <1>1, <1>2, <1>4, <1>5

\* What the invariant says of the copies.
LEMMA KeptFollows == TableInv => CopiesAreKept
<1> SUFFICES ASSUME TableInv
             PROVE  CopiesAreKept
  OBVIOUS
<1>1. CopiesAreIntact
  BY DEF TableInv
<1>2. HeldIsFound
  BY HeldIs DEF HeldIsFound, Held, Large
<1>3. LargeAreShared
  <2> SUFFICES ASSUME NEW a \in Address, NEW b \in Address, Held(a), Held(b),
                      held[a].block = held[b].block, Large(held[a].block)
               PROVE  a = b
    BY DEF LargeAreShared, Held, Large
  <2> DEFINE o == held[a].block
  <2>1. List(o)[Place(o)].at = a
    BY HeldIs
  <2>2. List(o)[Place(o)].at = b
    BY HeldIs
  <2> QED
    BY <2>1, <2>2
<1> QED
  BY <1>1, <1>2, <1>3 DEF CopiesAreKept

----------------------------------------------------------------------------
(***************************************************************************)
(* The steps.                                                              *)
(***************************************************************************)
LEMMA InitTable == MHInit => TableInv
<1> SUFFICES ASSUME MHInit
             PROVE  TableInv
  OBVIOUS
<1>1. <<>> \in Seq(Bucket) /\ Len(<<>>) = 0
  OBVIOUS
<1>2. CopiesOK
  BY <1>1 DEF MHInit, CopiesOK
<1>3. \A a \in Address : held[a].copies = 0 /\ memory[a] = <<>>
  BY DEF MHInit
<1>4. \A k \in Keys : Len(table[k]) = 0
  BY <1>1 DEF MHInit
<1> QED
  BY <1>2, <1>3, <1>4 DEF TableInv, CopiesAreIntact, Counts, Descends, Listed, Held

\* Only the number of the copies of a block changes.
LEMMA Recounted ==
  ASSUME TableInv, NEW o \in Blocks, IsThere(o), NEW c \in Nat \ {0},
         table' = [table EXCEPT ![Hash(Size(o))][Place(o)].ref_count = c],
         held' = [held EXCEPT ![List(o)[Place(o)].at] = [block |-> o, copies |-> c]],
         UNCHANGED memory
  PROVE  TableInv'
<1> DEFINE k == Hash(Size(o))
           n == Place(o)
           b == List(o)[n]
           a == b.at
           b2 == [at |-> a, ref_count |-> c]
<1>1. k \in Keys /\ List(o) = table[k] /\ table[k] \in Seq(Bucket) /\ n \in 1 .. Len(table[k]) /\ Obj(b) = o
  BY ListIs, PlaceIs DEF IsThere
<1>2. b \in Bucket /\ a \in Address /\ Held(a) /\ held[a].block = o /\ memory[a] = <<o>> /\ Large(o)
  <2> HIDE DEF k, n
  <2>1. /\ table[k][n] \in Bucket /\ table[k][n].at \in Address /\ Held(table[k][n].at)
        /\ Obj(table[k][n]) = held[table[k][n].at].block
        /\ memory[table[k][n].at] = <<Obj(table[k][n])>> /\ Large(Obj(table[k][n]))
    BY <1>1, BucketIs
  <2> QED
    BY <1>1, <2>1
<1> HIDE DEF k, n
<1>3. table[k][n] = b /\ b2 \in Bucket /\ [b EXCEPT !.ref_count = c] = b2
  BY <1>1, <1>2 DEF Bucket
<1>4. table' = [table EXCEPT ![k] = [table[k] EXCEPT ![n] = b2]]
  BY <1>1, <1>3 DEF k, n
<1>5. /\ [table[k] EXCEPT ![n] = b2] \in Seq(Bucket)
      /\ Len([table[k] EXCEPT ![n] = b2]) = Len(table[k])
  BY <1>1, <1>3, ExceptSeq
<1> HIDE DEF b, b2
<1>6. ASSUME NEW q \in Keys
      PROVE  /\ table'[q] \in Seq(Bucket) /\ Len(table'[q]) = Len(table[q])
             /\ \A i \in 1 .. Len(table[q]) :
                  table'[q][i] = IF q = k /\ i = n THEN b2 ELSE table[q][i]
  <2>1. table \in [Keys -> Seq(Bucket)]
    BY DEF TableInv, CopiesOK
  <2>2. DOMAIN table[k] = 1 .. Len(table[k])
    BY <1>1
  <2>3. table'[q] = IF q = k THEN [table[k] EXCEPT ![n] = b2] ELSE table[q]
    BY <1>4, <2>1
  <2>4. table[q] \in Seq(Bucket)
    BY <2>1
  <2>5. \A i \in 1 .. Len(table[k]) : [table[k] EXCEPT ![n] = b2][i] = IF i = n THEN b2 ELSE table[k][i]
    BY <1>1, <2>2
  <2>6. CASE q = k
    BY <1>5, <2>3, <2>5, <2>6
  <2>7. CASE q # k
    <3>1. table'[q] = table[q]
      BY <2>3, <2>7, Zenon
    <3>2. table'[q] \in Seq(Bucket) /\ Len(table'[q]) = Len(table[q])
      BY <2>4, <3>1
    <3>3. ASSUME NEW i \in 1 .. Len(table[q])
          PROVE  table'[q][i] = IF q = k /\ i = n THEN b2 ELSE table[q][i]
      <4>1. table'[q][i] = table[q][i]
        BY <3>1, Zenon
      <4>2. ~ (q = k /\ i = n)
        BY <2>7
      <4> QED
        BY <4>1, <4>2, Zenon
    <3> QED
      BY <3>2, <3>3
  <2> QED
    BY <2>6, <2>7
<1> DEFINE h2 == [block |-> o, copies |-> c]
<1>7. \A x \in Address : held'[x] = IF x = a THEN h2 ELSE held[x]
  BY DEF TableInv, CopiesOK, b, n
<1>8. h2 \in [block : Blocks \cup {<<>>}, copies : Nat] /\ h2.block = o /\ h2.copies = c
  OBVIOUS
<1>9. held' \in [Address -> [block : Blocks \cup {<<>>}, copies : Nat]]
  BY <1>8 DEF TableInv, CopiesOK
<1> HIDE DEF h2
<1>10. CopiesOK'
  <2>1. table' \in [Keys -> Seq(Bucket)]
    <3>1. table' = [q \in Keys |-> table'[q]]
      BY <1>4 DEF TableInv, CopiesOK
    <3> QED
      BY <1>6, <3>1
  <2> QED
    BY <1>9, <2>1 DEF TableInv, CopiesOK
<1>11. \A x \in Address : held'[x].block = held[x].block /\ (held'[x].copies > 0 <=> held[x].copies > 0)
  BY <1>2, <1>7, <1>8 DEF Held
<1>12. CopiesAreIntact'
  BY <1>11 DEF TableInv, CopiesAreIntact
<1>13. \A q \in Keys : \A i \in 1 .. Len(table[q]) : table'[q][i].at = table[q][i].at /\ table[q][i].at \in Address
  BY <1>3, <1>6, BucketIs DEF b2
<1>14. ASSUME NEW q \in Keys
       PROVE  Counts(q)'
  <2> SUFFICES ASSUME NEW i \in 1 .. Len(table[q])
               PROVE  LET x == table'[q][i].at
                      IN  /\ held'[x].copies = table'[q][i].ref_count
                          /\ Large(held'[x].block) /\ Hash(Size(held'[x].block)) = q
    BY <1>6 DEF Counts, Large
  <2> DEFINE x == table[q][i].at
  <2>1. x \in Address /\ held[x].copies = table[q][i].ref_count /\ Obj(table[q][i]) = held[x].block
        /\ Large(held[x].block) /\ Hash(Size(held[x].block)) = q
    BY BucketIs
  <2>2. CASE x = a
    <3>1. q = k
      BY <1>2, <2>1, <2>2 DEF k
    <3>2. i = n
      BY <1>1, <1>2, <2>1, <2>2, <3>1, BucketFound DEF n
    <3>3. held'[x].copies = c /\ table'[q][i].ref_count = c
      BY <1>6, <1>7, <1>8, <2>1, <2>2, <3>1, <3>2 DEF b2
    <3> QED
      BY <1>11, <1>13, <2>1, <3>3
  <2>3. CASE x # a
    <3>1. ~ (q = k /\ i = n)
      BY <1>3, <2>3
    <3>2. table'[q][i] = table[q][i]
      BY <1>6, <3>1
    <3> QED
      BY <1>7, <2>1, <2>3, <3>2
  <2> QED
    BY <2>2, <2>3
<1>15. ASSUME NEW q \in Keys
       PROVE  Descends(q)'
  BY <1>6, <1>11, <1>13 DEF TableInv, Descends, Passes
<1>16. ASSUME NEW x \in Address
       PROVE  Listed(x)'
  <2> SUFFICES ASSUME Held(x)
               PROVE  IF Large(held[x].block)
                      THEN \E i \in 1 .. Len(List(held[x].block)') : (List(held[x].block)')[i].at = x
                      ELSE held'[x].copies = 1
    BY <1>11 DEF Listed, Held, Large, List
  <2>1. held[x].block \in Blocks
    BY HeldIs
  <2>2. CASE Large(held[x].block)
    <3>1. PICK i \in 1 .. Len(List(held[x].block)) : List(held[x].block)[i].at = x
      BY <2>2 DEF TableInv, Listed
    <3> DEFINE q == Hash(Size(held[x].block))
    <3>2. q \in Keys /\ List(held[x].block) = table[q]
      BY <2>1, ListIs
    <3>3. List(held[x].block)' = table'[Hash(Size(held'[x].block))]
      BY DEF List
    <3>4. List(held[x].block)' = table'[q]
      BY <1>11, <3>3
    <3> HIDE DEF q
    <3>5. i \in 1 .. Len(table'[q]) /\ table'[q][i].at = x
      BY <1>6, <1>13, <3>1, <3>2
    <3> QED
      BY <2>2, <3>4, <3>5
  <2>3. CASE ~ Large(held[x].block)
    <3>1. held[x].copies = 1 /\ x # a
      BY <1>2, <2>3 DEF TableInv, Listed
    <3> QED
      BY <1>7, <2>3, <3>1
  <2> QED
    BY <2>2, <2>3
<1> QED
  BY <1>10, <1>12, <1>14, <1>15, <1>16 DEF TableInv

\* Memory that belongs to no copy.
LEMMA FreeIs ==
  ASSUME TableInv, NEW a \in Free
  PROVE  /\ a \in Address /\ held[a].copies = 0
         /\ \A k \in Keys : \A i \in 1 .. Len(table[k]) : table[k][i].at # a
<1>1. a \in Address /\ memory[a] = <<>>
  BY DEF Free
<1>2. held[a].copies \in Nat
  BY <1>1 DEF TableInv, CopiesOK
<1>3. ~ (held[a].copies > 0)
  BY <1>1 DEF TableInv, CopiesAreIntact
<1>4. \A k \in Keys : \A i \in 1 .. Len(table[k]) : Held(table[k][i].at)
  BY BucketIs
<1> QED
  BY <1>1, <1>2, <1>3, <1>4 DEF Held

\* Small blocks come and go beside the lists.
LEMMA SmallChanges ==
  ASSUME TableInv, NEW a \in Address,
         \A k \in Keys : \A i \in 1 .. Len(table[k]) : table[k][i].at # a,
         NEW m \in {<<>>} \cup {<<o>> : o \in Blocks},
         NEW h \in [block : Blocks \cup {<<>>}, copies : Nat],
         m = IF h.copies > 0 THEN <<h.block>> ELSE <<>>,
         h.copies > 0 => ~ Large(h.block) /\ h.copies = 1,
         memory' = [memory EXCEPT ![a] = m], held' = [held EXCEPT ![a] = h],
         UNCHANGED table
  PROVE  TableInv'
<1>1. CopiesOK'
  BY DEF TableInv, CopiesOK
<1>2. /\ held'[a] = h /\ \A x \in Address : x # a => held'[x] = held[x]
      /\ memory'[a] = m /\ \A x \in Address : x # a => memory'[x] = memory[x]
  BY DEF TableInv, CopiesOK
<1>3. CopiesAreIntact'
  BY <1>2 DEF TableInv, CopiesAreIntact
<1>4. \A k \in Keys : \A i \in 1 .. Len(table[k]) : table[k][i].at \in Address /\ table[k][i].at # a
  BY BucketIs
<1>5. \A k \in Keys : Counts(k)' /\ Descends(k)'
  BY <1>2, <1>4 DEF TableInv, Counts, Descends, Large
<1>6. ASSUME NEW x \in Address
      PROVE  Listed(x)'
  <2>1. CASE x = a
    BY <1>2, <2>1 DEF Listed, Held, Large
  <2>2. CASE x # a
    BY <1>2, <2>2 DEF TableInv, Listed, Held, Large, List
  <2> QED
    BY <2>1, <2>2
<1> QED
  BY <1>1, <1>3, <1>5, <1>6 DEF TableInv

\* A large block that was not in its list is put where it keeps the order.
LEMMA NewBucket ==
  ASSUME TableInv, NEW o \in Blocks, Large(o), ~ IsThere(o), NEW a \in Free,
         memory' = [memory EXCEPT ![a] = <<o>>],
         held' = [held EXCEPT ![a] = [block |-> o, copies |-> 1]],
         table' = [table EXCEPT ![Hash(Size(o))] =
                     InsertAt(@, Place(o), [at |-> a, ref_count |-> 1])]
  PROVE  TableInv'
<1> DEFINE k == Hash(Size(o))
           p == Place(o) - 1
           b2 == [at |-> a, ref_count |-> 1]
           h2 == [block |-> o, copies |-> 1]
           r == InsertAt(table[k], p + 1, b2)
<1>1. /\ k \in Keys /\ List(o) = table[k] /\ table[k] \in Seq(Bucket) /\ Len(table[k]) \in Nat
      /\ p \in 0 .. Len(table[k]) /\ p + 1 = Place(o)
      /\ \A i \in 1 .. p : Passes(o, Obj(table[k][i]))
      /\ \A i \in p + 1 .. Len(table[k]) : Passes(Obj(table[k][i]), o)
  <2>1. /\ k \in Keys /\ List(o) = table[k] /\ table[k] \in Seq(Bucket) /\ Len(table[k]) \in Nat
    BY ListIs
  <2>2. Place(o) \in 1 .. Len(List(o)) + 1 /\ \A i \in 1 .. Place(o) - 1 : Passes(o, Obj(List(o)[i]))
    BY PlaceIs
  <2>3. \A i \in 1 .. Len(List(o)) : Place(o) <= i => Passes(Obj(List(o)[i]), o)
    BY NotFoundIs
  <2> QED
    BY <2>1, <2>2, <2>3
<1>2. /\ a \in Address /\ held[a].copies = 0
      /\ \A q \in Keys : \A i \in 1 .. Len(table[q]) : table[q][i].at # a
  BY FreeIs
<1>3. b2 \in Bucket /\ b2.at = a /\ b2.ref_count = 1
  BY <1>2 DEF Bucket
<1>4. table' = [table EXCEPT ![k] = r]
  BY <1>1
<1> HIDE DEF k, p, b2, r
<1>5. PutAt(r, Bucket, table[k], p, b2)
  BY <1>1, <1>3, InsertAtIs DEF r
<1>6. table'[k] = r /\ \A q \in Keys : q # k => table'[q] = table[q]
  BY <1>1, <1>4 DEF TableInv, CopiesOK
<1>7. /\ held'[a] = h2 /\ \A x \in Address : x # a => held'[x] = held[x]
      /\ memory'[a] = <<o>> /\ \A x \in Address : x # a => memory'[x] = memory[x]
  BY <1>2 DEF TableInv, CopiesOK
<1>8. CopiesOK'
  <2>1. table' \in [Keys -> Seq(Bucket)]
    BY <1>4, <1>5 DEF TableInv, CopiesOK, PutAt
  <2>2. h2 \in [block : Blocks \cup {<<>>}, copies : Nat]
    OBVIOUS
  <2> HIDE DEF h2
  <2>3. held' \in [Address -> [block : Blocks \cup {<<>>}, copies : Nat]]
    BY <2>2 DEF TableInv, CopiesOK, h2
  <2>4. memory' \in [Address -> {<<>>} \cup {<<x>> : x \in Blocks}]
    BY DEF TableInv, CopiesOK
  <2> QED
    BY <2>1, <2>3, <2>4 DEF CopiesOK
<1>9. h2.block = o /\ h2.copies = 1
  OBVIOUS
<1> HIDE DEF h2
<1>10. CopiesAreIntact'
  BY <1>7, <1>9 DEF TableInv, CopiesAreIntact

\* Where the buckets of the list are now.
<1>11. /\ Len(r) = Len(table[k]) + 1 /\ r[p + 1] = b2
       /\ \A i \in 1 .. p : r[i] = table[k][i]
       /\ \A i \in p + 1 .. Len(table[k]) : r[i + 1] = table[k][i]
       /\ \A i \in p + 2 .. Len(table[k]) + 1 : r[i] = table[k][i - 1]
  BY <1>1, <1>5 DEF PutAt
<1>12. \A q \in Keys : \A i \in 1 .. Len(table[q]) :
         /\ table[q][i].at \in Address /\ table[q][i].at # a
         /\ held'[table[q][i].at] = held[table[q][i].at]
         /\ Obj(table[q][i]) = held[table[q][i].at].block /\ Obj(table[q][i]) \in Blocks
  BY <1>2, <1>7, BucketIs
<1>13. ASSUME NEW q \in Keys
       PROVE  Counts(q)'
  <2>1. CASE q # k
    BY <1>6, <1>12, <2>1 DEF TableInv, Counts, Large
  <2>2. CASE q = k
    <3> SUFFICES ASSUME NEW i \in 1 .. Len(table[k]) + 1
                 PROVE  /\ held'[r[i].at].copies = r[i].ref_count
                        /\ Large(held'[r[i].at].block) /\ Hash(Size(held'[r[i].at].block)) = k
      BY <1>6, <1>11, <2>2 DEF Counts, Large
    <3>1. CASE i = p + 1
      BY <1>3, <1>7, <1>9, <1>11, <3>1 DEF k
    <3>2. ASSUME NEW j \in 1 .. Len(table[k]), r[i] = table[k][j]
          PROVE  /\ held'[r[i].at].copies = r[i].ref_count
                 /\ Large(held'[r[i].at].block) /\ Hash(Size(held'[r[i].at].block)) = k
      BY <1>1, <1>12, <3>2 DEF TableInv, Counts
    <3>3. CASE i \in 1 .. p
      <4>1. i \in 1 .. Len(table[k])
        BY <1>1, <3>3
      <4> QED
        BY <1>11, <3>2, <3>3, <4>1
    <3>4. CASE i \in p + 2 .. Len(table[k]) + 1
      <4>1. i - 1 \in 1 .. Len(table[k])
        BY <1>1, <3>4
      <4> QED
        BY <1>11, <3>2, <3>4, <4>1
    <3> QED
      BY <1>1, <3>1, <3>3, <3>4
  <2> QED
    BY <2>1, <2>2
<1>14. ASSUME NEW q \in Keys
       PROVE  Descends(q)'
  <2>1. CASE q # k
    BY <1>6, <1>12, <2>1 DEF TableInv, Descends
  <2>2. CASE q = k
    <3> DEFINE B(i) == held'[r[i].at].block
    <3>1. SUFFICES ASSUME NEW i \in 1 .. Len(table[k]) + 1, NEW j \in 1 .. Len(table[k]) + 1, i < j
                   PROVE  Passes(B(j), B(i))
      BY <1>6, <1>11, <2>2 DEF Descends
    <3>2. \A x, y \in 1 .. Len(table[k]) : x < y => Passes(Obj(table[k][y]), Obj(table[k][x]))
      BY <1>1, <1>12 DEF TableInv, Descends
    <3>3. /\ \A x \in 1 .. p : B(x) = Obj(table[k][x])
          /\ \A x \in p + 2 .. Len(table[k]) + 1 : B(x) = Obj(table[k][x - 1])
          /\ B(p + 1) = o
      <4>1. ASSUME NEW x \in 1 .. p
            PROVE  B(x) = Obj(table[k][x])
        <5>1. x \in 1 .. Len(table[k])
          BY <1>1
        <5> QED
          BY <1>1, <1>11, <1>12, <5>1
      <4>2. ASSUME NEW x \in p + 2 .. Len(table[k]) + 1
            PROVE  B(x) = Obj(table[k][x - 1])
        <5>1. x - 1 \in 1 .. Len(table[k])
          BY <1>1
        <5>2. r[x] = table[k][x - 1]
          BY <1>11
        <5>3. held'[table[k][x - 1].at].block = Obj(table[k][x - 1])
          BY <1>1, <1>12, <5>1
        <5> QED
          BY <5>2, <5>3, Zenon
      <4>3. B(p + 1) = o
        BY <1>3, <1>7, <1>9, <1>11
      <4> QED
        BY <4>1, <4>2, <4>3
    <3> HIDE DEF B
    <3>4. CASE j \in 1 .. p
      BY <1>1, <3>1, <3>2, <3>3, <3>4
    <3>5. CASE j = p + 1
      BY <1>1, <3>1, <3>3, <3>5
    <3>6. CASE j \in p + 2 .. Len(table[k]) + 1
      <4>1. j - 1 \in p + 1 .. Len(table[k]) /\ j - 1 \in 1 .. Len(table[k])
        BY <1>1, <3>6
      <4>2. CASE i \in 1 .. p
        BY <1>1, <3>2, <3>3, <3>6, <4>1, <4>2
      <4>3. CASE i = p + 1
        BY <1>1, <3>3, <3>6, <4>1, <4>3
      <4>4. CASE i \in p + 2 .. Len(table[k]) + 1
        <5>1. i - 1 \in 1 .. Len(table[k]) /\ i - 1 < j - 1
          BY <1>1, <3>1, <3>6, <4>4
        <5>2. Passes(Obj(table[k][j - 1]), Obj(table[k][i - 1]))
          BY <3>2, <4>1, <5>1
        <5> QED
          BY <3>3, <3>6, <4>4, <5>2
      <4> QED
        BY <1>1, <4>2, <4>3, <4>4
    <3> QED
      BY <1>1, <3>4, <3>5, <3>6
  <2> QED
    BY <2>1, <2>2
<1>15. ASSUME NEW x \in Address
       PROVE  Listed(x)'
  <2>1. CASE x = a
    <3>1. held'[x].block = o /\ List(o)' = r
      BY <1>6, <1>7, <1>9, <2>1 DEF List, k
    <3>2. p + 1 \in 1 .. Len(r) /\ r[p + 1].at = a
      BY <1>1, <1>3, <1>11
    <3>3. List(held[x].block)' = r
      BY <3>1 DEF List
    <3> QED
      BY <2>1, <3>1, <3>2 DEF Listed, Large, List
  <2>2. CASE x # a
    <3> SUFFICES ASSUME Held(x), Large(held[x].block)
                 PROVE  \E i \in 1 .. Len(List(held[x].block)') : (List(held[x].block)')[i].at = x
      BY <1>7, <2>2 DEF TableInv, Listed, Held, Large, List
    <3> DEFINE q == Hash(Size(held[x].block))
    <3>1. q \in Keys /\ List(held[x].block) = table[q]
      BY HeldIs, ListIs
    <3>2. PICK i \in 1 .. Len(table[q]) : table[q][i].at = x
      BY <3>1 DEF TableInv, Listed
    <3>3. List(held[x].block)' = table'[q]
      BY <1>7, <2>2 DEF List
    <3> HIDE DEF q
    <3>4. CASE q # k
      BY <1>6, <3>1, <3>2, <3>3, <3>4
    <3>5. CASE q = k /\ i <= p
      BY <1>1, <1>6, <1>11, <3>2, <3>3, <3>5
    <3>6. CASE q = k /\ ~ (i <= p)
      <4>1. i \in p + 1 .. Len(table[k]) /\ i + 1 \in 1 .. Len(r)
        BY <1>1, <1>11, <3>2, <3>6
      <4>2. r[i + 1].at = x
        BY <1>11, <3>2, <3>6, <4>1
      <4> QED
        BY <1>6, <3>3, <3>6, <4>1, <4>2
    <3> QED
      BY <3>4, <3>5, <3>6
  <2> QED
    BY <2>1, <2>2
<1> QED
  BY <1>8, <1>10, <1>13, <1>14, <1>15 DEF TableInv

\* The last copy of a large block is taken out of its list.
LEMMA BucketGoes ==
  ASSUME TableInv, NEW o \in Blocks, IsThere(o), NEW a \in Address,
         List(o)[Place(o)].at = a,
         memory' = [memory EXCEPT ![a] = <<>>],
         held' = [held EXCEPT ![a] = [block |-> o, copies |-> 0]],
         table' = [table EXCEPT ![Hash(Size(o))] = RemoveAt(@, Place(o))]
  PROVE  TableInv'
<1> DEFINE k == Hash(Size(o))
           n == Place(o)
           r == RemoveAt(table[k], n)
           h2 == [block |-> o, copies |-> 0]
<1>1. /\ k \in Keys /\ List(o) = table[k] /\ table[k] \in Seq(Bucket) /\ Len(table[k]) \in Nat
      /\ n \in 1 .. Len(table[k]) /\ Obj(table[k][n]) = o /\ table[k][n].at = a
  BY ListIs, PlaceIs DEF IsThere
<1>2. table' = [table EXCEPT ![k] = r]
  BY <1>1
<1>3. ASSUME NEW q \in Keys, NEW i \in 1 .. Len(table[q]), table[q][i].at = a
      PROVE  q = k /\ i = n
  <2> HIDE DEF n, k
  <2>1. held[a].block = o
    BY <1>1, BucketIs
  <2>2. Obj(table[q][i]) = o /\ Hash(Size(o)) = q
    BY <1>3, <2>1, BucketIs
  <2>3. q = k
    BY <2>2 DEF k
  <2>4. i = n
    BY <1>1, <2>2, <2>3, BucketFound DEF n
  <2> QED
    BY <2>3, <2>4
<1> HIDE DEF k, n, r
<1>4. /\ r \in Seq(Bucket) /\ Len(r) = Len(table[k]) - 1
      /\ \A i \in 1 .. Len(table[k]) - 1 : r[i] = IF i < n THEN table[k][i] ELSE table[k][i + 1]
  <2>1. TakenFrom(r, Bucket, table[k], n)
    BY <1>1, RemoveAtIs DEF r
  <2> QED
    BY <2>1 DEF TakenFrom
<1>5. table'[k] = r /\ \A q \in Keys : q # k => table'[q] = table[q]
  BY <1>1, <1>2 DEF TableInv, CopiesOK
<1>6. /\ held'[a] = h2 /\ \A x \in Address : x # a => held'[x] = held[x]
      /\ memory'[a] = <<>> /\ \A x \in Address : x # a => memory'[x] = memory[x]
  BY DEF TableInv, CopiesOK
<1>7. h2 \in [block : Blocks \cup {<<>>}, copies : Nat] /\ h2.block = o /\ h2.copies = 0
  OBVIOUS
<1> HIDE DEF h2
<1>8. CopiesOK'
  <2>1. table' \in [Keys -> Seq(Bucket)]
    BY <1>2, <1>4 DEF TableInv, CopiesOK
  <2>2. held' \in [Address -> [block : Blocks \cup {<<>>}, copies : Nat]]
    BY <1>7 DEF TableInv, CopiesOK, h2
  <2>3. memory' \in [Address -> {<<>>} \cup {<<x>> : x \in Blocks}]
    BY DEF TableInv, CopiesOK
  <2> QED
    BY <2>1, <2>2, <2>3 DEF CopiesOK
<1>9. CopiesAreIntact'
  BY <1>6, <1>7 DEF TableInv, CopiesAreIntact
<1>10. \A q \in Keys : \A i \in 1 .. Len(table[q]) :
         ~ (q = k /\ i = n) =>
           table[q][i].at \in Address /\ table[q][i].at # a /\ held'[table[q][i].at] = held[table[q][i].at]
  BY <1>3, <1>6, BucketIs

\* Where the buckets of the list were.
<1>11. ASSUME NEW i \in 1 .. Len(r)
       PROVE  \E j \in 1 .. Len(table[k]) :
                r[i] = table[k][j] /\ j # n /\ j = IF i < n THEN i ELSE i + 1
  <2>1. i \in 1 .. Len(table[k]) - 1
    BY <1>1, <1>4
  <2>2. r[i] = IF i < n THEN table[k][i] ELSE table[k][i + 1]
    BY <1>4, <2>1
  <2>3. CASE i < n
    BY <1>1, <2>1, <2>2, <2>3
  <2>4. CASE ~ (i < n)
    <3>1. i + 1 \in 1 .. Len(table[k]) /\ i + 1 # n
      BY <1>1, <2>1, <2>4
    <3> QED
      BY <2>2, <2>4, <3>1
  <2> QED
    BY <2>3, <2>4
<1>12. ASSUME NEW q \in Keys
       PROVE  Counts(q)'
  <2>1. CASE q # k
    BY <1>5, <1>10, <2>1 DEF TableInv, Counts, Large
  <2>2. CASE q = k
    <3> SUFFICES ASSUME NEW i \in 1 .. Len(r)
                 PROVE  /\ held'[r[i].at].copies = r[i].ref_count
                        /\ Large(held'[r[i].at].block) /\ Hash(Size(held'[r[i].at].block)) = k
      BY <1>5, <2>2 DEF Counts, Large
    <3>1. PICK j \in 1 .. Len(table[k]) : r[i] = table[k][j] /\ j # n
      BY <1>11
    <3> QED
      BY <1>1, <1>10, <3>1 DEF TableInv, Counts
  <2> QED
    BY <2>1, <2>2
<1>13. ASSUME NEW q \in Keys
       PROVE  Descends(q)'
  <2>1. CASE q # k
    BY <1>5, <1>10, <2>1 DEF TableInv, Descends
  <2>2. CASE q = k
    <3> SUFFICES ASSUME NEW i \in 1 .. Len(r), NEW j \in 1 .. Len(r), i < j
                 PROVE  Passes(held'[r[j].at].block, held'[r[i].at].block)
      BY <1>5, <2>2 DEF Descends
    <3>1. PICK x \in 1 .. Len(table[k]) : r[i] = table[k][x] /\ x # n /\ x = IF i < n THEN i ELSE i + 1
      BY <1>11
    <3>2. PICK y \in 1 .. Len(table[k]) : r[j] = table[k][y] /\ y # n /\ y = IF j < n THEN j ELSE j + 1
      BY <1>11
    <3>3. x < y
      BY <1>1, <1>4, <3>1, <3>2
    <3>4. held'[r[i].at] = held[table[k][x].at] /\ held'[r[j].at] = held[table[k][y].at]
      BY <1>1, <1>10, <3>1, <3>2
    <3>5. Passes(held[table[k][y].at].block, held[table[k][x].at].block)
      BY <1>1, <3>3 DEF TableInv, Descends
    <3> QED
      BY <3>4, <3>5
  <2> QED
    BY <2>1, <2>2
<1>14. ASSUME NEW x \in Address
       PROVE  Listed(x)'
  <2>1. CASE x = a
    BY <1>6, <1>7, <2>1 DEF Listed, Held
  <2>2. CASE x # a
    <3> SUFFICES ASSUME Held(x), Large(held[x].block)
                 PROVE  \E i \in 1 .. Len(List(held[x].block)') : (List(held[x].block)')[i].at = x
      BY <1>6, <2>2 DEF TableInv, Listed, Held, Large, List
    <3> DEFINE q == Hash(Size(held[x].block))
    <3>1. q \in Keys /\ List(held[x].block) = table[q]
      BY HeldIs, ListIs
    <3>2. PICK i \in 1 .. Len(table[q]) : table[q][i].at = x
      BY <3>1 DEF TableInv, Listed
    <3>3. List(held[x].block)' = table'[q]
      BY <1>6, <2>2 DEF List
    <3> HIDE DEF q
    <3>4. CASE q # k
      BY <1>5, <3>1, <3>2, <3>3, <3>4
    <3>5. CASE q = k
      <4>1. i # n
        BY <1>1, <2>2, <3>2, <3>5
      <4>2. i \in 1 .. Len(table[k])
        BY <3>5
      <4>3. CASE i < n
        <5>1. i \in 1 .. Len(table[k]) - 1
          BY <1>1, <4>2, <4>3
        <5>2. i \in 1 .. Len(r) /\ r[i] = table[k][i]
          BY <1>1, <1>4, <4>3, <5>1
        <5> QED
          BY <1>5, <3>2, <3>3, <3>5, <5>2
      <4>4. CASE n < i
        <5>1. i - 1 \in 1 .. Len(table[k]) - 1 /\ ~ (i - 1 < n) /\ (i - 1) + 1 = i
          BY <1>1, <4>2, <4>4
        <5>2. i - 1 \in 1 .. Len(r) /\ r[i - 1] = table[k][(i - 1) + 1]
          BY <1>1, <1>4, <5>1
        <5> QED
          BY <1>5, <3>2, <3>3, <3>5, <5>1, <5>2
      <4> QED
        BY <1>1, <4>1, <4>2, <4>3, <4>4
    <3> QED
      BY <3>4, <3>5
  <2> QED
    BY <2>1, <2>2
<1> QED
  BY <1>8, <1>9, <1>12, <1>13, <1>14 DEF TableInv

LEMMA ShareStep == \A o \in Blocks : TableInv /\ ShareCopy(o) => TableInv'
<1> SUFFICES ASSUME NEW o \in Blocks, TableInv, ShareCopy(o)
             PROVE  TableInv'
  OBVIOUS
<1> DEFINE b == List(o)[Place(o)]
           c == b.ref_count + 1
<1>1. IsThere(o) /\ UNCHANGED memory
  BY DEF ShareCopy
<1>2. b.at \in Address /\ b.ref_count \in Nat /\ held[b.at].copies = b.ref_count /\ List(o) = table[Hash(Size(o))]
  <2>1. Hash(Size(o)) \in Keys /\ List(o) = table[Hash(Size(o))] /\ Place(o) \in 1 .. Len(table[Hash(Size(o))])
    BY <1>1, ListIs, PlaceIs DEF IsThere
  <2> DEFINE k == Hash(Size(o))
             n == Place(o)
  <2> HIDE DEF k, n
  <2>2. k \in Keys /\ n \in 1 .. Len(table[k])
    BY <2>1 DEF k, n
  <2>3. table[k][n].at \in Address /\ table[k][n].ref_count \in Nat
        /\ held[table[k][n].at].copies = table[k][n].ref_count
    BY <2>2, BucketIs
  <2> QED
    BY <2>1, <2>3 DEF k, n
<1>3. c \in Nat \ {0}
  BY <1>2
<1>4. table' = [table EXCEPT ![Hash(Size(o))][Place(o)].ref_count = c]
  BY <1>2 DEF ShareCopy
<1>5. held' = [held EXCEPT ![b.at] = [block |-> o, copies |-> c]]
  BY <1>2 DEF ShareCopy, Give
<1> HIDE DEF c
<1> QED
  BY <1>1, <1>3, <1>4, <1>5, Recounted

LEMMA CopyStep == \A o \in Blocks, a \in Free : TableInv /\ MakeCopy(o, a) => TableInv'
<1> SUFFICES ASSUME NEW o \in Blocks, NEW a \in Free, TableInv, MakeCopy(o, a)
             PROVE  TableInv'
  OBVIOUS
<1>1. a \in Address /\ held[a].copies = 0 /\ \A k \in Keys : \A i \in 1 .. Len(table[k]) : table[k][i].at # a
  BY FreeIs
<1>2. memory' = [memory EXCEPT ![a] = <<o>>] /\ held' = [held EXCEPT ![a] = [block |-> o, copies |-> 1]]
  BY <1>1 DEF MakeCopy, Give
<1>3. CASE Large(o)
  <2>1. ~ IsThere(o)
    BY <1>3 DEF MakeCopy, Large
  <2>2. table' = [table EXCEPT ![Hash(Size(o))] = InsertAt(@, Place(o), [at |-> a, ref_count |-> 1])]
    BY <1>3 DEF MakeCopy, Large, Inserted
  <2> QED
    BY <1>2, <1>3, <2>1, <2>2, NewBucket
<1>4. CASE ~ Large(o)
  <2> DEFINE h == [block |-> o, copies |-> 1]
  <2>1. UNCHANGED table
    BY <1>4 DEF MakeCopy, Large
  <2>2. h \in [block : Blocks \cup {<<>>}, copies : Nat] /\ h.block = o /\ h.copies = 1
    OBVIOUS
  <2>3. held' = [held EXCEPT ![a] = h]
    BY <1>2
  <2> HIDE DEF h
  <2>4. <<o>> = IF h.copies > 0 THEN <<h.block>> ELSE <<>>
    BY <2>2
  <2>5. <<o>> \in {<<>>} \cup {<<x>> : x \in Blocks}
    OBVIOUS
  <2> QED
    BY <1>1, <1>2, <1>4, <2>1, <2>2, <2>3, <2>4, <2>5, SmallChanges
<1> QED
  BY <1>3, <1>4

LEMMA ReleaseStep == \A a \in Address : TableInv /\ Release(a) => TableInv'
<1> SUFFICES ASSUME NEW a \in Address, TableInv, Release(a)
             PROVE  TableInv'
  OBVIOUS
<1> DEFINE o == memory[a][1]
           b == List(o)[Place(o)]
<1>1. /\ held[a].copies > 0 /\ held' = [held EXCEPT ![a].copies = @ - 1]
      /\ ~ Large(o) => memory' = [memory EXCEPT ![a] = <<>>] /\ UNCHANGED table
      /\ Large(o) /\ b.ref_count = 1 =>
           /\ memory' = [memory EXCEPT ![b.at] = <<>>]
           /\ table' = [table EXCEPT ![Hash(Size(o))] = RemoveAt(@, Place(o))]
      /\ Large(o) /\ b.ref_count # 1 =>
           /\ table' = [table EXCEPT ![Hash(Size(o))][Place(o)].ref_count = @ - 1]
           /\ UNCHANGED memory
  <2>1. Size(o) \in Nat
    <3>1. memory[a] = <<held[a].block>> /\ held[a].block \in Blocks
      BY HeldIs DEF Release, Held
    <3>2. o = held[a].block
      BY <3>1
    <3> QED
      BY <3>1, <3>2, BlockAssumption DEF Size
  <2>2. Size(o) < MinSize <=> ~ Large(o)
    BY <2>1, BlockAssumption DEF Large
  <2> QED
    BY <2>2 DEF Release, Dies
<1>2. o = held[a].block /\ o \in Blocks
  <2>1. memory[a] = <<held[a].block>> /\ held[a].block \in Blocks
    BY <1>1, HeldIs DEF Held
  <2> QED
    BY <2>1
<1> HIDE DEF o
<1>3. held' = [held EXCEPT ![a] = [block |-> o, copies |-> held[a].copies - 1]]
  <2>1. held[a] = [block |-> o, copies |-> held[a].copies]
    BY <1>1, <1>2, HeldIs DEF Held
  <2>2. [held[a] EXCEPT !.copies = held[a].copies - 1] = [block |-> o, copies |-> held[a].copies - 1]
    BY <2>1
  <2>3. held' = [held EXCEPT ![a] = [held[a] EXCEPT !.copies = held[a].copies - 1]]
    BY <1>1
  <2> QED
    BY <2>2, <2>3
<1>4. CASE Large(o)
  <2>1. List(o) = table[Hash(Size(o))] /\ Hash(Size(o)) \in Keys
    BY <1>2, ListIs
  <2>2. PICK i \in 1 .. Len(List(o)) : List(o)[i].at = a /\ i = Place(o) /\ IsThere(o)
    BY <1>1, <1>2, <1>4, HeldIs DEF Held
  <2>3. b.at = a /\ IsThere(o)
    BY <2>2
  <2>4. b.ref_count = held[a].copies /\ b.ref_count \in Nat /\ b.ref_count > 0
    <3> DEFINE k == Hash(Size(o))
               n == Place(o)
    <3>1. k \in Keys /\ n \in 1 .. Len(table[k]) /\ b = table[k][n]
      BY <2>1, <2>2
    <3> HIDE DEF b, k, n
    <3> QED
      BY <2>3, <3>1, BucketIs
  <2>5. CASE b.ref_count = 1
    <3>1. held' = [held EXCEPT ![a] = [block |-> o, copies |-> 0]]
      BY <1>3, <2>4, <2>5
    <3>2. memory' = [memory EXCEPT ![a] = <<>>]
      BY <1>1, <1>4, <2>3, <2>5
    <3>3. table' = [table EXCEPT ![Hash(Size(o))] = RemoveAt(@, Place(o))]
      BY <1>1, <1>4, <2>5
    <3> QED
      BY <1>2, <2>3, <3>1, <3>2, <3>3, BucketGoes
  <2>6. CASE b.ref_count # 1
    <3> DEFINE c == b.ref_count - 1
    <3>1. UNCHANGED memory
      BY <1>1, <1>4, <2>6
    <3>2. table' = [table EXCEPT ![Hash(Size(o))][Place(o)].ref_count = c]
      BY <1>1, <1>4, <2>1, <2>6
    <3>3. held' = [held EXCEPT ![b.at] = [block |-> o, copies |-> c]]
      BY <1>3, <2>3, <2>4
    <3>4. c \in Nat \ {0}
      BY <2>4, <2>6
    <3> HIDE DEF c
    <3> QED
      BY <1>2, <2>3, <3>1, <3>2, <3>3, <3>4, Recounted
  <2> QED
    BY <2>5, <2>6
<1>5. CASE ~ Large(o)
  <2> DEFINE h == [block |-> o, copies |-> held[a].copies - 1]
  <2>1. memory' = [memory EXCEPT ![a] = <<>>] /\ UNCHANGED table
    BY <1>1, <1>5
  <2>2. held[a].copies = 1
    BY <1>1, <1>2, <1>5 DEF TableInv, Listed, Held
  <2>3. h \in [block : Blocks \cup {<<>>}, copies : Nat] /\ h.copies = 0
    BY <1>2, <2>2
  <2>4. \A k \in Keys : \A i \in 1 .. Len(table[k]) : table[k][i].at # a
    BY <1>2, <1>5, BucketIs
  <2>5. held' = [held EXCEPT ![a] = h]
    BY <1>3
  <2> HIDE DEF h
  <2>6. <<>> = IF h.copies > 0 THEN <<h.block>> ELSE <<>>
    BY <2>3
  <2>7. h.copies > 0 => ~ Large(h.block) /\ h.copies = 1
    BY <2>3
  <2> QED
    BY <2>1, <2>3, <2>4, <2>5, <2>6, <2>7, SmallChanges
<1> QED
  BY <1>4, <1>5

LEMMA NextTable == TableInv /\ [MHNext]_memhash => TableInv'
<1> SUFFICES ASSUME TableInv, [MHNext]_memhash
             PROVE  TableInv'
  OBVIOUS
<1>1. ASSUME NEW o \in Blocks, ShareCopy(o)
      PROVE  TableInv'
  BY <1>1, ShareStep
<1>2. ASSUME NEW o \in Blocks, NEW a \in Free, MakeCopy(o, a)
      PROVE  TableInv'
  BY <1>2, CopyStep
<1>3. ASSUME NEW a \in Address, Release(a)
      PROVE  TableInv'
  BY <1>3, ReleaseStep
<1>4. CASE UNCHANGED memhash
  BY <1>4 DEF memhash, TableInv, CopiesOK, CopiesAreIntact, Counts, Descends, Listed, Held, Large, List
<1> QED
  BY <1>1, <1>2, <1>3, <1>4 DEF MHNext

----------------------------------------------------------------------------
\* A copy that is held keeps its contents, is found again when it is given
\* back, and is shared with every other copy of the same block: whatever the
\* blocks, whatever the hash function, in whatever order copies are made and
\* given back.
THEOREM CopiesAlwaysKept == MHSpec => []CopiesAreKept
<1>1. MHInit => TableInv
  BY InitTable
<1>2. TableInv /\ [MHNext]_memhash => TableInv'
  BY NextTable
<1>3. TableInv => CopiesAreKept
  BY KeptFollows
<1> QED
  BY <1>1, <1>2, <1>3, PTL DEF MHSpec

----------------------------------------------------------------------------
(***************************************************************************)
(* The walks.  The list L of a walk says how it went: after n objects the  *)
(* next is what the last one points to, if that is one of the objects S    *)
(* that the call depends on and has not been seen, and otherwise the first *)
(* of the roots R of which that is true.                                   *)
(***************************************************************************)
Seen(L, n) == {L[j].obj : j \in 1 .. n}

FirstOf(R, T, o) == \E i \in 1 .. Len(R) : R[i] = o /\ o \in T /\ \A j \in 1 .. i - 1 : R[j] \notin T

After(L, n, S, R, o) ==
  LET T == S \ Seen(L, n)
  IN  IF n > 0 /\ L[n].val \in T THEN o = L[n].val ELSE FirstOf(R, T, o)

Goes(L, S, R) == \A n \in 1 .. Len(L) : After(L, n - 1, S, R, L[n].obj)

IsWalk(L, S, R) == Goes(L, S, R) /\ \A o \in S : ~ After(L, Len(L), S, R, o)

\* What the walk finds: the parameter own by value, the rest by identity.
InputOf(L, own) ==
  [arg  |-> {L[k].val : k \in {j \in 1 .. Len(L) : L[j].obj = own}},
   objs |-> {<<L[k].obj, L[k].val>> : k \in {j \in 1 .. Len(L) : L[j].obj # own}}]

\* S and own are the objects and the parameter of a call of fun.
Fits(L, S, own, fun) ==
  /\ own \in Params /\ (own \in S <=> fun \in What(fun))
  /\ \A o \in S : o \in Params \/ (o \in ToSet(Globals) \cup Heap /\ o \in What(fun))
  /\ \A o \in (ToSet(Globals) \cup Heap) \cap What(fun) : o \in S
  /\ \A k \in 1 .. Len(L) : L[k].val \in Params => L[k].val # own /\ L[k].val \in S

\* Two walks of calls of the same function, up to n objects: they have seen the same, but
\* for the parameter's name.
Alike(K, L, own1, own2, n) ==
  \A j \in 1 .. n : /\ K[j].val = L[j].val
                    /\ \/ K[j].obj = L[j].obj /\ K[j].obj # own1 /\ L[j].obj # own2
                       \/ K[j].obj = own1 /\ L[j].obj = own2

LEMMA GoesIn ==
  ASSUME NEW L \in Seq(Copy), NEW S, NEW R, Goes(L, S, R), NEW n \in 1 .. Len(L)
  PROVE  L[n].obj \in S /\ L[n].obj \notin Seen(L, n - 1)
<1>1. After(L, n - 1, S, R, L[n].obj)
  BY DEF Goes
<1> QED
  BY <1>1 DEF After, FirstOf

\* Globals and their parameter, from the first to the last.
LEMMA RootsAre ==
  ASSUME NEW own
  PROVE  LET R == Append(Globals, own)
         IN  /\ Len(R) = Len(Globals) + 1 /\ Len(Globals) \in Nat
             /\ \A i \in 1 .. Len(Globals) : R[i] = Globals[i] /\ R[i] \in ToSet(Globals)
             /\ R[Len(Globals) + 1] = own
<1>1. Globals \in Seq(Objs)
  BY ObjectsAssumption
<1> QED
  BY <1>1 DEF ToSet

\* As long as two walks are alike, they go on alike.
LEMMA AlikeStep ==
  ASSUME NEW fun, NEW K \in Seq(Copy), NEW L \in Seq(Copy), NEW S1, NEW S2, NEW own1, NEW own2,
         Fits(K, S1, own1, fun), Fits(L, S2, own2, fun),
         NEW n \in Nat, n <= Len(K), n <= Len(L), Alike(K, L, own1, own2, n),
         NEW o, After(L, n, S2, Append(Globals, own2), o)
  PROVE  \E x : /\ After(K, n, S1, Append(Globals, own1), x)
                /\ \/ x = o /\ x # own1 /\ o # own2
                   \/ x = own1 /\ o = own2
<1> DEFINE T1 == S1 \ Seen(K, n)
           T2 == S2 \ Seen(L, n)
           R1 == Append(Globals, own1)
           R2 == Append(Globals, own2)
           Fixed == ToSet(Globals) \cup Heap
<1>1. own1 \in Params /\ own2 \in Params /\ Params \cap Fixed = {}
  BY ObjectsAssumption DEF Fits

\* But for the parameters themselves, the same objects have been seen.
<1>2. ASSUME NEW v, v # own1, v # own2
      PROVE  v \in Seen(K, n) <=> v \in Seen(L, n)
  BY <1>2 DEF Seen, Alike
<1>3. own1 \in Seen(K, n) <=> own2 \in Seen(L, n)
  BY DEF Seen, Alike
<1>4. ASSUME NEW v \in Fixed
      PROVE  v \in T1 <=> v \in T2
  <2>1. v \notin Params /\ v # own1 /\ v # own2
    BY <1>1
  <2>2. v \in S1 <=> v \in S2
    BY <2>1 DEF Fits
  <2> QED
    BY <2>1, <2>2, <1>2
<1>5. own1 \in T1 <=> own2 \in T2
  BY <1>3 DEF Fits

\* A pointer that both have found leads both on, or neither.
<1>6. ASSUME n > 0
      PROVE  /\ K[n].val = L[n].val
             /\ K[n].val \in T1 <=> K[n].val \in T2
             /\ K[n].val \in T1 => K[n].val # own1 /\ K[n].val # own2
  <2> DEFINE v == K[n].val
  <2>1. n \in 1 .. n /\ n \in 1 .. Len(K) /\ n \in 1 .. Len(L)
    BY <1>6
  <2>2. K[n].val = L[n].val
    BY <2>1 DEF Alike
  <2>3. CASE v \in Params
    <3>1. v # own1 /\ v \in S1 /\ v # own2 /\ v \in S2
      BY <2>1, <2>2, <2>3 DEF Fits
    <3> HIDE DEF v
    <3>2. v \in T1 <=> v \in T2
      BY <3>1, <1>2
    <3> QED
      BY <3>1, <3>2, <2>2 DEF v
  <2>4. CASE v \notin Params
    <3>1. v \in S1 => v \in Fixed
      BY <2>4 DEF Fits
    <3>2. v \in S2 => v \in Fixed
      BY <2>4 DEF Fits
    <3>3. v # own1 /\ v # own2
      BY <2>4, <1>1
    <3> HIDE DEF v, Fixed
    <3>4. v \in T1 <=> v \in T2
      BY <3>1, <3>2, <1>4
    <3> QED
      BY <3>3, <3>4, <2>2 DEF v
  <2> QED
    BY <2>3, <2>4
<1>7. CASE n > 0 /\ L[n].val \in T2
  <2>1. o = L[n].val
    BY <1>7 DEF After
  <2>2. o \in T1 /\ K[n].val = o /\ o # own1 /\ o # own2
    BY <1>6, <1>7, <2>1
  <2>3. After(K, n, S1, R1, o)
    BY <1>7, <2>2 DEF After
  <2> QED
    BY <2>2, <2>3
<1>8. CASE ~ (n > 0 /\ L[n].val \in T2)
  <2>1. ~ (n > 0 /\ K[n].val \in T1)
    BY <1>6, <1>8
  <2>2. FirstOf(R2, T2, o)
    BY <1>8, Zenon DEF After
  <2>3. \A x : FirstOf(R1, T1, x) => After(K, n, S1, R1, x)
    BY <2>1, Zenon DEF After
  <2>4. PICK i \in 1 .. Len(R2) : R2[i] = o /\ o \in T2 /\ \A j \in 1 .. i - 1 : R2[j] \notin T2
    BY <2>2 DEF FirstOf
  <2>5. /\ Len(R1) = Len(Globals) + 1 /\ Len(R2) = Len(Globals) + 1 /\ Len(Globals) \in Nat
        /\ \A j \in 1 .. Len(Globals) : R1[j] = Globals[j] /\ R2[j] = Globals[j] /\ Globals[j] \in Fixed
        /\ R1[Len(Globals) + 1] = own1 /\ R2[Len(Globals) + 1] = own2
    BY RootsAre
  <2> HIDE DEF R1, R2, T1, T2, Fixed
  <2>6. ASSUME NEW j \in 1 .. i - 1
        PROVE  R1[j] \notin T1
    <3>1. j \in 1 .. Len(Globals)
      BY <2>5
    <3> QED
      BY <3>1, <2>4, <2>5, <1>4
  <2>7. CASE i <= Len(Globals)
    <3>1. i \in 1 .. Len(Globals)
      BY <2>7
    <3>2. o \in Fixed /\ R1[i] = o /\ o \in T1 /\ i \in 1 .. Len(R1)
      BY <3>1, <2>4, <2>5, <1>4
    <3>3. FirstOf(R1, T1, o)
      BY <3>2, <2>6 DEF FirstOf
    <3>4. o # own1 /\ o # own2
      BY <3>2, <1>1
    <3> QED
      BY <2>3, <3>3, <3>4 DEF R1
  <2>8. CASE i > Len(Globals)
    <3>1. i = Len(Globals) + 1
      BY <2>5, <2>8
    <3>2. o = own2 /\ own1 \in T1 /\ R1[i] = own1 /\ i \in 1 .. Len(R1)
      BY <3>1, <2>4, <2>5, <1>5
    <3>3. FirstOf(R1, T1, own1)
      BY <3>2, <2>6 DEF FirstOf
    <3> QED
      BY <2>3, <3>2, <3>3 DEF R1
  <2> QED
    BY <2>5, <2>7, <2>8
<1> QED
  BY <1>7, <1>8

\* And what comes after is only one object.
LEMMA AfterOne ==
  ASSUME NEW L, NEW n, NEW S, NEW R \in Seq(Objs), NEW o, NEW p, After(L, n, S, R, o), After(L, n, S, R, p)
  PROVE  o = p
<1> DEFINE T == S \ Seen(L, n)
<1> HIDE DEF T
<1>1. CASE n > 0 /\ L[n].val \in T
  BY <1>1, Zenon DEF After, T
<1>2. CASE ~ (n > 0 /\ L[n].val \in T)
  <2>1. FirstOf(R, T, o) /\ FirstOf(R, T, p)
    BY <1>2, Zenon DEF After, T
  <2>2. PICK i \in 1 .. Len(R) : R[i] = o /\ o \in T /\ \A j \in 1 .. i - 1 : R[j] \notin T
    BY <2>1 DEF FirstOf
  <2>3. PICK k \in 1 .. Len(R) : R[k] = p /\ p \in T /\ \A j \in 1 .. k - 1 : R[j] \notin T
    BY <2>1 DEF FirstOf
  <2>4. i = k \/ i \in 1 .. k - 1 \/ k \in 1 .. i - 1
    OBVIOUS
  <2> QED
    BY <2>2, <2>3, <2>4
<1> QED
  BY <1>1, <1>2

\* Two walks that agree as far as both go find the same: if one ended
\* before the other, then what the other finds next it would have found too.
Pairs(K, L) == \A k \in 1 .. Len(K) : k <= Len(L) => K[k].val = L[k].val

LEMMA AlikeAll ==
  ASSUME NEW fun, NEW K \in Seq(Copy), NEW L \in Seq(Copy), NEW S1, NEW S2, NEW own1, NEW own2,
         Fits(K, S1, own1, fun), Fits(L, S2, own2, fun),
         Goes(K, S1, Append(Globals, own1)), Goes(L, S2, Append(Globals, own2)),
         Append(Globals, own1) \in Seq(Objs),
         NEW m \in Nat, m <= Len(K), m <= Len(L),
         \A n \in 1 .. m : Alike(K, L, own1, own2, n - 1) /\ K[n].obj # own1 /\ K[n].obj = L[n].obj
                             => K[n].val = L[n].val,
         \A n \in 1 .. m : Alike(K, L, own1, own2, n - 1) /\ K[n].obj = own1 /\ L[n].obj = own2
                             => K[n].val = L[n].val
  PROVE  Alike(K, L, own1, own2, m)
<1> DEFINE Q == {n \in Nat : n <= m => Alike(K, L, own1, own2, n)}
<1>1. 0 \in Q
  BY DEF Alike
<1>2. ASSUME NEW n \in Nat, n \in Q
      PROVE  n + 1 \in Q
  <2> SUFFICES ASSUME n + 1 <= m
               PROVE  Alike(K, L, own1, own2, n + 1)
    OBVIOUS
  <2>1. n <= m /\ n <= Len(K) /\ n <= Len(L) /\ n + 1 \in 1 .. m /\ (n + 1) - 1 = n
        /\ n + 1 \in 1 .. Len(K) /\ n + 1 \in 1 .. Len(L)
    OBVIOUS
  <2>2. Alike(K, L, own1, own2, n)
    BY <1>2, <2>1
  <2>3. After(L, n, S2, Append(Globals, own2), L[n + 1].obj) /\ After(K, n, S1, Append(Globals, own1), K[n + 1].obj)
    BY <2>1 DEF Goes
  <2>4. PICK x : /\ After(K, n, S1, Append(Globals, own1), x)
                 /\ \/ x = L[n + 1].obj /\ x # own1 /\ L[n + 1].obj # own2
                    \/ x = own1 /\ L[n + 1].obj = own2
    BY <2>1, <2>2, <2>3, AlikeStep
  <2>5. x = K[n + 1].obj
    BY <2>3, <2>4, AfterOne
  <2>6. K[n + 1].val = L[n + 1].val
    BY <2>1, <2>2, <2>4, <2>5
  <2>7. ASSUME NEW j \in 1 .. n + 1
        PROVE  /\ K[j].val = L[j].val
               /\ \/ K[j].obj = L[j].obj /\ K[j].obj # own1 /\ L[j].obj # own2
                  \/ K[j].obj = own1 /\ L[j].obj = own2
    <3>1. CASE j \in 1 .. n
      BY <3>1, <2>2 DEF Alike
    <3>2. CASE j = n + 1
      BY <3>2, <2>4, <2>5, <2>6
    <3> QED
      BY <3>1, <3>2
  <2> QED
    BY <2>7 DEF Alike
<1> HIDE DEF Q
<1>3. m \in Q
  BY <1>1, <1>2, NatSets
<1> QED
  BY <1>3 DEF Q

\* One of two walks that are alike does not end before the other.
LEMMA AlikeEnd ==
  ASSUME NEW fun, NEW K \in Seq(Copy), NEW L \in Seq(Copy), NEW S1, NEW S2, NEW own1, NEW own2,
         Fits(K, S1, own1, fun), Fits(L, S2, own2, fun),
         IsWalk(K, S1, Append(Globals, own1)), Goes(L, S2, Append(Globals, own2)),
         Len(K) <= Len(L), Alike(K, L, own1, own2, Len(K))
  PROVE  Len(K) = Len(L)
<1> SUFFICES ASSUME Len(K) < Len(L)
             PROVE  FALSE
  OBVIOUS
<1> DEFINE n == Len(K)
<1>1. n \in Nat /\ n <= Len(K) /\ n <= Len(L) /\ n + 1 \in 1 .. Len(L) /\ (n + 1) - 1 = n
  OBVIOUS
<1>2. After(L, n, S2, Append(Globals, own2), L[n + 1].obj)
  BY <1>1 DEF Goes
<1>3. PICK x : After(K, n, S1, Append(Globals, own1), x)
  BY <1>1, <1>2, AlikeStep
<1>4. x \in S1
  BY <1>3 DEF After, FirstOf
<1> QED
  BY <1>3, <1>4 DEF IsWalk

\* Turned around.
LEMMA AlikeTurned ==
  ASSUME NEW K, NEW L, NEW own1, NEW own2, NEW n, Alike(K, L, own1, own2, n)
  PROVE  Alike(L, K, own2, own1, n)
BY DEF Alike

LEMMA SeenOnce ==
  ASSUME NEW L \in Seq(Copy), NEW S, NEW R, Goes(L, S, R),
         NEW i \in 1 .. Len(L), NEW k \in 1 .. Len(L), L[i].obj = L[k].obj
  PROVE  i = k
<1>1. L[i].obj \notin Seen(L, i - 1) /\ L[k].obj \notin Seen(L, k - 1)
  BY GoesIn
<1>2. i = k \/ i \in 1 .. k - 1 \/ k \in 1 .. i - 1
  OBVIOUS
<1> QED
  BY <1>1, <1>2 DEF Seen

\* Comparing a saved walk with another one, element by element as far as
\* both go, is comparing what the two calls depend on.
LEMMA ComparingIsExact ==
  ASSUME NEW fun, NEW K \in Seq(Copy), NEW L \in Seq(Copy), NEW S1, NEW S2, NEW own1, NEW own2,
         Fits(K, S1, own1, fun), Fits(L, S2, own2, fun),
         IsWalk(K, S1, Append(Globals, own1)), IsWalk(L, S2, Append(Globals, own2))
  PROVE  /\ Pairs(K, L) => InputOf(K, own1) = InputOf(L, own2)
         /\ InputOf(K, own1) = InputOf(L, own2) => Len(K) = Len(L) /\ Pairs(K, L)
<1> DEFINE R1 == Append(Globals, own1)
           R2 == Append(Globals, own2)
           m == IF Len(K) <= Len(L) THEN Len(K) ELSE Len(L)
<1>1. R1 \in Seq(Objs) /\ R2 \in Seq(Objs)
  <2>1. own1 \in Objs /\ own2 \in Objs /\ Globals \in Seq(Objs)
    BY ObjectsAssumption DEF Fits, Objs
  <2> QED
    BY <2>1
<1>2. Goes(K, S1, R1) /\ Goes(L, S2, R2)
  BY DEF IsWalk
<1>3. m \in Nat /\ m <= Len(K) /\ m <= Len(L)
  OBVIOUS

\* If they are alike, they are of the same length.
<1>4. ASSUME Alike(K, L, own1, own2, m)
      PROVE  Len(K) = Len(L) /\ m = Len(K)
  <2>1. CASE Len(K) <= Len(L)
    <3>1. Alike(K, L, own1, own2, Len(K))
      BY <1>4, <2>1
    <3>2. Len(K) = Len(L)
      BY <3>1, <2>1, <1>2, AlikeEnd
    <3> QED
      BY <3>2
  <2>2. CASE ~ (Len(K) <= Len(L))
    <3>1. Len(L) <= Len(K) /\ m = Len(L)
      BY <2>2
    <3>2. Alike(L, K, own2, own1, Len(L))
      BY <1>4, <3>1, AlikeTurned
    <3>3. Len(L) = Len(K)
      BY <3>1, <3>2, <1>2, AlikeEnd
    <3> QED
      BY <3>3, <3>1
  <2> QED
    BY <2>1, <2>2
<1> HIDE DEF R1, R2
<1>5. ASSUME Pairs(K, L)
      PROVE  InputOf(K, own1) = InputOf(L, own2)
  <2>1. \A n \in 1 .. m : K[n].val = L[n].val
    <3>1. \A n \in 1 .. m : n \in 1 .. Len(K) /\ n <= Len(L)
      OBVIOUS
    <3> QED
      BY <3>1, <1>5 DEF Pairs
  <2> HIDE DEF m
  <2>2. Alike(K, L, own1, own2, m)
    BY <2>1, <1>1, <1>2, <1>3, AlikeAll DEF R1, R2
  <2>3. Len(K) = Len(L) /\ m = Len(K)
    BY <2>2, <1>4
  <2>4. \A j \in 1 .. Len(K) : /\ K[j].val = L[j].val
                               /\ \/ K[j].obj = L[j].obj /\ K[j].obj # own1 /\ L[j].obj # own2
                                  \/ K[j].obj = own1 /\ L[j].obj = own2
    BY <2>2, <2>3 DEF Alike
  <2>5. {j \in 1 .. Len(K) : K[j].obj = own1} = {j \in 1 .. Len(L) : L[j].obj = own2}
    BY <2>3, <2>4
  <2>6. {j \in 1 .. Len(K) : K[j].obj # own1} = {j \in 1 .. Len(L) : L[j].obj # own2}
    BY <2>3, <2>4
  <2>7. {K[k].val : k \in {j \in 1 .. Len(K) : K[j].obj = own1}}
          = {L[k].val : k \in {j \in 1 .. Len(L) : L[j].obj = own2}}
    BY <2>4, <2>5
  <2>8. \A k \in {j \in 1 .. Len(K) : K[j].obj # own1} : <<K[k].obj, K[k].val>> = <<L[k].obj, L[k].val>>
    BY <2>4
  <2>9. {<<K[k].obj, K[k].val>> : k \in {j \in 1 .. Len(K) : K[j].obj # own1}}
          = {<<L[k].obj, L[k].val>> : k \in {j \in 1 .. Len(L) : L[j].obj # own2}}
    BY <2>6, <2>8
  <2> QED
    BY <2>7, <2>9 DEF InputOf
<1>6. ASSUME InputOf(K, own1) = InputOf(L, own2)
      PROVE  Len(K) = Len(L) /\ Pairs(K, L)
  <2>1. /\ {K[k].val : k \in {j \in 1 .. Len(K) : K[j].obj = own1}}
             = {L[k].val : k \in {j \in 1 .. Len(L) : L[j].obj = own2}}
        /\ {<<K[k].obj, K[k].val>> : k \in {j \in 1 .. Len(K) : K[j].obj # own1}}
             = {<<L[k].obj, L[k].val>> : k \in {j \in 1 .. Len(L) : L[j].obj # own2}}
    BY <1>6 DEF InputOf
  <2>2. ASSUME NEW n \in 1 .. m, Alike(K, L, own1, own2, n - 1), K[n].obj # own1, K[n].obj = L[n].obj
        PROVE  K[n].val = L[n].val
    <3>1. n \in 1 .. Len(K) /\ n \in 1 .. Len(L)
      OBVIOUS
    <3>2. <<K[n].obj, K[n].val>> \in {<<L[k].obj, L[k].val>> : k \in {j \in 1 .. Len(L) : L[j].obj # own2}}
      BY <2>1, <2>2, <3>1
    <3>3. PICK k \in 1 .. Len(L) : L[k].obj = K[n].obj /\ L[k].val = K[n].val
      BY <3>2
    <3>4. k = n
      BY <3>1, <3>3, <2>2, <1>2, SeenOnce
    <3> QED
      BY <3>3, <3>4
  <2>3. ASSUME NEW n \in 1 .. m, Alike(K, L, own1, own2, n - 1), K[n].obj = own1, L[n].obj = own2
        PROVE  K[n].val = L[n].val
    <3>1. n \in 1 .. Len(K) /\ n \in 1 .. Len(L)
      OBVIOUS
    <3>2. K[n].val \in {L[k].val : k \in {j \in 1 .. Len(L) : L[j].obj = own2}}
      BY <2>1, <2>3, <3>1
    <3>3. PICK k \in 1 .. Len(L) : L[k].obj = own2 /\ L[k].val = K[n].val
      BY <3>2
    <3>4. k = n
      BY <3>1, <3>3, <2>3, <1>2, SeenOnce
    <3> QED
      BY <3>3, <3>4
  <2> HIDE DEF m
  <2>4. Alike(K, L, own1, own2, m)
    BY <2>2, <2>3, <1>1, <1>2, <1>3, AlikeAll DEF R1, R2
  <2>5. Len(K) = Len(L) /\ m = Len(K)
    BY <2>4, <1>4
  <2> QED
    BY <2>4, <2>5 DEF Alike, Pairs
<1> QED
  BY <1>5, <1>6
----------------------------------------------------------------------------
(***************************************************************************)
(* The loop of cmixCopyState makes such a list.                            *)
(***************************************************************************)
Vals    == UNION {ValsOf[o] : o \in Objs}
CallSet == {o \in Objs : InCall(o)}

\* The state in which a call's static state is looked at.
CallReady == store \in [Objs -> Vals] /\ Depth \in 1 .. MaxDepth

Walks == [visit : SUBSET Objs, root : 1 .. Len(Roots), at : Objs \cup Vals, list : Seq(Copy)]

LEMMA ParIs ==
  /\ MaxDepth \in Nat /\ DOMAIN Par = 1 .. MaxDepth /\ \A d \in 1 .. MaxDepth : Par[d] \in Params
  /\ Params \subseteq Objs
BY BoundAssumption DEF MaxDepth, Params, Objs

LEMMA CallIs ==
  ASSUME CallReady
  PROVE  /\ Own \in Params /\ Roots \in Seq(Objs) /\ Roots = Append(Globals, Own)
         /\ Len(Roots) \in Nat \ {0} /\ Roots[1] \in Objs /\ \A i \in 1 .. Len(Roots) : Roots[i] \in Objs
         /\ Tracked \subseteq Objs /\ CallSet \subseteq Objs
         /\ \A v : v \in CallSet <=> InCall(v)
<1>1. Own \in Params /\ Own \in Objs
  BY ParIs DEF CallReady, Own
<1>2. Globals \in Seq(Objs)
  BY ObjectsAssumption
<1>3. /\ Roots \in Seq(Objs) /\ Roots = Append(Globals, Own) /\ Len(Roots) \in Nat \ {0}
      /\ \A i \in 1 .. Len(Roots) : Roots[i] \in Objs
  BY <1>1, <1>2 DEF Roots
<1>4. Tracked \subseteq Objs
  BY ParIs DEF CallReady, Tracked, Objs
<1>5. \A v : v \in CallSet <=> InCall(v)
  BY <1>4 DEF CallSet, InCall
<1> QED
  BY <1>1, <1>3, <1>4, <1>5 DEF CallSet

LEMMA AppendWalk ==
  ASSUME NEW L \in Seq(Copy), NEW e \in Copy, NEW S, NEW R
  PROVE  LET M == Append(L, e)
         IN  /\ M \in Seq(Copy) /\ Len(M) = Len(L) + 1 /\ M[Len(L) + 1] = e
             /\ \A i \in 1 .. Len(L) : M[i] = L[i]
             /\ Seen(M, Len(M)) = Seen(L, Len(L)) \cup {e.obj}
             /\ \A n \in 0 .. Len(L) : \A o : After(M, n, S, R, o) <=> After(L, n, S, R, o)
<1> DEFINE M == Append(L, e)
<1>1. /\ M \in Seq(Copy) /\ Len(M) = Len(L) + 1 /\ M[Len(L) + 1] = e
      /\ \A i \in 1 .. Len(L) : M[i] = L[i]
  BY AppendProperties
<1> HIDE DEF M
<1>2. Seen(M, Len(M)) = Seen(L, Len(L)) \cup {e.obj}
  <2>1. Len(L) \in Nat
    OBVIOUS
  <2>2. 1 .. Len(M) = (1 .. Len(L)) \cup {Len(L) + 1}
    BY <2>1, <1>1
  <2> QED
    BY <2>2, <1>1 DEF Seen
<1>3. ASSUME NEW n \in 0 .. Len(L), NEW o
      PROVE  After(M, n, S, R, o) <=> After(L, n, S, R, o)
  <2>1. 1 .. n \subseteq 1 .. Len(L)
    OBVIOUS
  <2>2. Seen(M, n) = Seen(L, n)
    BY <2>1, <1>1 DEF Seen
  <2>3. n > 0 => M[n] = L[n]
    BY <1>1
  <2> QED
    BY <2>2, <2>3, Zenon DEF After
<1> QED
  BY <1>1, <1>2, <1>3 DEF M

\* Where the walk w is: n rounds have either found an object or begun a root.
WalkInv(w, n) ==
  LET L == w.list
      T == CallSet \ Seen(L, Len(L))
  IN  /\ w \in Walks
      /\ w.visit \cap CallSet = Seen(L, Len(L))
      /\ Goes(L, CallSet, Roots)
      /\ \A k \in 1 .. Len(L) : L[k].val = store[L[k].obj]
      /\ \A i \in 1 .. w.root - 1 : Roots[i] \notin T
      /\ \/ Len(L) > 0 /\ w.at = L[Len(L)].val /\ Roots[w.root] \notin T
         \/ w.at = Roots[w.root] /\ (Len(L) > 0 => L[Len(L)].val \notin T)
      /\ Len(L) + w.root = n + 1 \/ (w.root = Len(Roots) /\ w.at \notin T)

\* The three ways of a round.
Visits(w) == w.at \in CallSet \ w.visit

LEMMA CopyOneIs ==
  ASSUME CallReady, NEW w \in Walks
  PROVE  /\ Visits(w) =>
              CopyOne(w) = [visit |-> w.visit \cup {w.at}, root |-> w.root, at |-> store[w.at],
                            list |-> Append(w.list, [obj |-> w.at, val |-> store[w.at]])]
         /\ ~ Visits(w) =>
              \E V \in SUBSET Objs :
                /\ V \cap CallSet = w.visit \cap CallSet
                /\ CopyOne(w) = [visit |-> V, list |-> w.list,
                                 root |-> IF w.root = Len(Roots) THEN w.root ELSE w.root + 1,
                                 at |-> IF w.root = Len(Roots) THEN w.at ELSE Roots[w.root + 1]]
<1>1. /\ w = [visit |-> w.visit, root |-> w.root, at |-> w.at, list |-> w.list]
      /\ w.visit \in SUBSET Objs
  BY DEF Walks
<1> DEFINE flagged == [w EXCEPT !.visit = @ \cup {w.at}]
<1>2. flagged = [visit |-> w.visit \cup {w.at}, root |-> w.root, at |-> w.at, list |-> w.list]
  BY <1>1
<1>3. Visits(w) <=> Leads(w) /\ w.at \notin w.visit /\ InWhat(w.at)
  BY CallIs DEF Visits, Leads, InCall, InWhat
<1>4. ASSUME Visits(w)
      PROVE  CopyOne(w) = [visit |-> w.visit \cup {w.at}, root |-> w.root, at |-> store[w.at],
                            list |-> Append(w.list, [obj |-> w.at, val |-> store[w.at]])]
  <2>1. CopyOne(w) = [flagged EXCEPT !.list = Append(@, [obj |-> w.at, val |-> store[w.at]]), !.at = store[w.at]]
    BY <1>3, <1>4, Zenon DEF CopyOne
  <2> HIDE DEF flagged
  <2> QED
    BY <2>1, <1>2
<1>5. ASSUME NEW x, NEW V \in SUBSET Objs, x = [visit |-> V, root |-> w.root, at |-> w.at, list |-> w.list]
      PROVE  NextRoot(x) = [visit |-> V, list |-> w.list,
                            root |-> IF w.root = Len(Roots) THEN w.root ELSE w.root + 1,
                            at |-> IF w.root = Len(Roots) THEN w.at ELSE Roots[w.root + 1]]
  BY <1>5 DEF NextRoot
<1>6. ASSUME ~ Visits(w), ~ Leads(w) \/ w.at \in w.visit
      PROVE  CopyOne(w) = NextRoot(w)
  BY <1>6, Zenon DEF CopyOne
<1>7. ASSUME ~ Visits(w), ~ (~ Leads(w) \/ w.at \in w.visit)
      PROVE  /\ CopyOne(w) = NextRoot(flagged)
             /\ w.visit \cup {w.at} \in SUBSET Objs
             /\ (w.visit \cup {w.at}) \cap CallSet = w.visit \cap CallSet
  <2>1. ~ InWhat(w.at)
    BY <1>3, <1>7
  <2>2. CopyOne(w) = NextRoot(flagged)
    BY <2>1, <1>7, Zenon DEF CopyOne
  <2>3. w.at \in Objs /\ w.at \notin CallSet
    BY <2>1, <1>7, CallIs DEF Leads, InCall, InWhat
  <2> QED
    BY <2>2, <2>3, <1>1
<1> HIDE DEF flagged
<1> QED
  BY <1>1, <1>2, <1>4, <1>5, <1>6, <1>7

WalkStart == [visit |-> {}, root |-> 1, at |-> Roots[1], list |-> <<>>]

LEMMA WalkStarts ==
  ASSUME CallReady
  PROVE  WalkInv(WalkStart, 0)
<1> DEFINE w == WalkStart
<1>1. w.visit = {} /\ w.root = 1 /\ w.at = Roots[1] /\ w.list = <<>>
  BY DEF WalkStart
<1>2. w.list \in Seq(Copy) /\ Len(w.list) = 0
  BY <1>1
<1>3. w \in Walks
  BY CallIs DEF Walks, WalkStart
<1> HIDE DEF w
<1>4. Seen(w.list, Len(w.list)) = {}
  BY <1>2 DEF Seen
<1>5. Goes(w.list, CallSet, Roots) /\ \A k \in 1 .. Len(w.list) : w.list[k].val = store[w.list[k].obj]
  BY <1>2 DEF Goes
<1>6. 1 .. w.root - 1 = {} /\ w.at = Roots[w.root] /\ ~ (Len(w.list) > 0) /\ Len(w.list) + w.root = 0 + 1
  BY <1>1, <1>2
<1> QED
  BY <1>1, <1>3, <1>4, <1>5, <1>6 DEF WalkInv, w

LEMMA WalkVisits ==
  ASSUME CallReady, NEW n \in Nat, NEW w, WalkInv(w, n), Visits(w)
  PROVE  WalkInv(CopyOne(w), n + 1)
<1> DEFINE L == w.list
           T == CallSet \ Seen(L, Len(L))
           e == [obj |-> w.at, val |-> store[w.at]]
           M == Append(L, e)
           x == CopyOne(w)
           U == CallSet \ Seen(M, Len(M))
<1>1. /\ w \in Walks /\ L \in Seq(Copy) /\ Len(L) \in Nat /\ w.root \in 1 .. Len(Roots) /\ w.visit \in SUBSET Objs
      /\ Len(Roots) \in Nat
  BY CallIs DEF WalkInv, Walks
<1>2. w.at \in T /\ w.at \in Objs
  BY CallIs DEF WalkInv, Visits
<1>3. store[w.at] \in Vals /\ e \in Copy
  <2>1. store[w.at] \in Vals
    BY <1>2 DEF CallReady
  <2> QED
    BY <2>1, <1>2 DEF Copy, Vals
<1>4. x = [visit |-> w.visit \cup {w.at}, root |-> w.root, at |-> store[w.at], list |-> M]
  BY <1>1, CopyOneIs
<1>5. x.visit = w.visit \cup {w.at} /\ x.root = w.root /\ x.at = store[w.at] /\ x.list = M
  BY <1>4
<1>6. /\ M \in Seq(Copy) /\ Len(M) = Len(L) + 1 /\ M[Len(L) + 1] = e
      /\ \A i \in 1 .. Len(L) : M[i] = L[i]
      /\ Seen(M, Len(M)) = Seen(L, Len(L)) \cup {e.obj}
      /\ \A k \in 0 .. Len(L) : \A o : After(M, k, CallSet, Roots, o) <=> After(L, k, CallSet, Roots, o)
  BY <1>1, <1>3, AppendWalk
<1>7. x \in Walks
  BY <1>1, <1>2, <1>3, <1>4, <1>6 DEF Walks
<1>8. e.obj = w.at /\ e.val = store[w.at] /\ U = T \ {w.at}
  BY <1>6
<1> HIDE DEF M, x, U
<1>9. x.visit \cap CallSet = Seen(M, Len(M))
  <2>1. w.visit \cap CallSet = Seen(L, Len(L))
    BY DEF WalkInv
  <2> QED
    BY <2>1, <1>2, <1>5, <1>6, <1>8
<1>10. After(L, Len(L), CallSet, Roots, w.at)
  <2>1. CASE Len(L) > 0 /\ w.at = L[Len(L)].val
    BY <2>1, <1>2 DEF After
  <2>2. CASE w.at = Roots[w.root] /\ (Len(L) > 0 => L[Len(L)].val \notin T)
    <3>1. \A i \in 1 .. w.root - 1 : Roots[i] \notin T
      BY DEF WalkInv
    <3>2. FirstOf(Roots, T, w.at)
      BY <3>1, <2>2, <1>1, <1>2 DEF FirstOf
    <3> QED
      BY <3>2, <2>2 DEF After
  <2> QED
    BY <2>1, <2>2 DEF WalkInv
<1> HIDE DEF e
<1>11. ASSUME NEW k \in 1 .. Len(M)
       PROVE  After(M, k - 1, CallSet, Roots, M[k].obj) /\ M[k].val = store[M[k].obj]
  <2>1. k - 1 \in 0 .. Len(L)
    BY <1>1, <1>6
  <2>2. CASE k = Len(L) + 1
    BY <2>1, <2>2, <1>1, <1>6, <1>8, <1>10
  <2>3. CASE k # Len(L) + 1
    <3>1. k \in 1 .. Len(L) /\ M[k] = L[k]
      BY <2>3, <1>1, <1>6
    <3>2. After(L, k - 1, CallSet, Roots, L[k].obj) /\ L[k].val = store[L[k].obj]
      BY <3>1 DEF WalkInv, Goes
    <3> QED
      BY <3>1, <3>2, <2>1, <1>6
  <2> QED
    BY <2>2, <2>3
<1>12. Goes(M, CallSet, Roots)
  BY <1>11 DEF Goes
<1>13. \A i \in 1 .. x.root - 1 : Roots[i] \notin U
  <2>1. \A i \in 1 .. w.root - 1 : Roots[i] \notin T
    BY DEF WalkInv
  <2> QED
    BY <2>1, <1>5, <1>8
<1>14. Len(M) > 0 /\ x.at = M[Len(M)].val /\ Roots[x.root] \notin U
  <2>1. Roots[w.root] \notin T \/ w.at = Roots[w.root]
    BY DEF WalkInv
  <2> QED
    BY <2>1, <1>1, <1>5, <1>6, <1>8
<1>15. Len(M) + x.root = (n + 1) + 1
  <2>1. Len(L) + w.root = n + 1
    BY <1>2 DEF WalkInv
  <2> QED
    BY <2>1, <1>1, <1>5, <1>6
<1>16. WalkInv(x, n + 1)
  BY <1>5, <1>7, <1>9, <1>11, <1>12, <1>13, <1>14, <1>15 DEF WalkInv, U
<1> QED
  BY <1>16 DEF x

LEMMA WalkPasses ==
  ASSUME CallReady, NEW n \in Nat, NEW w, WalkInv(w, n), ~ Visits(w)
  PROVE  WalkInv(CopyOne(w), n + 1)
<1> DEFINE L == w.list
           T == CallSet \ Seen(L, Len(L))
           x == CopyOne(w)
<1>1. /\ w \in Walks /\ L \in Seq(Copy) /\ Len(L) \in Nat /\ w.root \in 1 .. Len(Roots) /\ w.visit \in SUBSET Objs
      /\ Len(Roots) \in Nat /\ w.at \in Objs \cup Vals
  BY CallIs DEF WalkInv, Walks
<1>2. w.at \notin T
  BY DEF WalkInv, Visits
<1>3. PICK V \in SUBSET Objs :
        /\ V \cap CallSet = w.visit \cap CallSet
        /\ x = [visit |-> V, list |-> L,
                root |-> IF w.root = Len(Roots) THEN w.root ELSE w.root + 1,
                at |-> IF w.root = Len(Roots) THEN w.at ELSE Roots[w.root + 1]]
  BY <1>1, CopyOneIs
<1>4. /\ x.visit = V /\ x.list = L
      /\ x.root = (IF w.root = Len(Roots) THEN w.root ELSE w.root + 1)
      /\ x.at = (IF w.root = Len(Roots) THEN w.at ELSE Roots[w.root + 1])
  BY <1>3
<1>5. x \in Walks
  <2>1. w.root # Len(Roots) => w.root + 1 \in 1 .. Len(Roots) /\ Roots[w.root + 1] \in Objs
    BY <1>1, CallIs
  <2> QED
    BY <2>1, <1>1, <1>3 DEF Walks
<1> HIDE DEF x
<1>6. /\ V \cap CallSet = Seen(L, Len(L)) /\ Goes(L, CallSet, Roots)
      /\ \A k \in 1 .. Len(L) : L[k].val = store[L[k].obj]
  BY <1>3 DEF WalkInv
<1>7. (\A i \in 1 .. w.root - 1 : Roots[i] \notin T) /\ Roots[w.root] \notin T
  BY <1>2 DEF WalkInv
<1>8. Len(L) > 0 => L[Len(L)].val \notin T
  BY <1>2 DEF WalkInv
<1> HIDE DEF T
<1>9. CASE w.root = Len(Roots)
  <2>1. x.root = w.root /\ x.at = w.at
    BY <1>4, <1>9
  <2>2. \/ Len(L) > 0 /\ w.at = L[Len(L)].val /\ Roots[w.root] \notin T
        \/ w.at = Roots[w.root] /\ (Len(L) > 0 => L[Len(L)].val \notin T)
    BY DEF WalkInv, T
  <2> QED
    BY <2>1, <2>2, <1>2, <1>4, <1>5, <1>6, <1>7, <1>9 DEF WalkInv, T, x
<1>10. CASE w.root # Len(Roots)
  <2>1. x.root = w.root + 1 /\ x.at = Roots[x.root]
    BY <1>4, <1>10
  <2>2. \A i \in 1 .. x.root - 1 : Roots[i] \notin T
    <3>1. \A i \in 1 .. x.root - 1 : i \in 1 .. w.root - 1 \/ i = w.root
      BY <2>1, <1>1
    <3> QED
      BY <3>1, <1>7
  <2>3. Len(L) + x.root = (n + 1) + 1
    <3>1. Len(L) + w.root = n + 1
      BY <1>10 DEF WalkInv
    <3>2. w.root \in Nat
      BY <1>1
    <3> HIDE DEF L
    <3> QED
      BY <3>1, <3>2, <2>1, <1>1
  <2> QED
    BY <2>1, <2>2, <2>3, <1>4, <1>5, <1>6, <1>8 DEF WalkInv, T, x
<1> QED
  BY <1>9, <1>10

\* After so many rounds the walk has come to its end.
LEMMA WalkEnds ==
  ASSUME CallReady, NEW w, WalkInv(w, Turns)
  PROVE  IsWalk(w.list, CallSet, Roots)
<1> DEFINE L == w.list
           T == CallSet \ Seen(L, Len(L))
           C == Cardinality(Objs)
           At == [k \in 1 .. Len(L) |-> L[k].obj]
<1>1. /\ L \in Seq(Copy) /\ Len(L) \in Nat /\ w.root \in 1 .. Len(Roots) /\ Len(Roots) \in Nat
      /\ Goes(L, CallSet, Roots)
  BY CallIs DEF WalkInv, Walks
<1>2. IsFiniteSet(Objs) /\ C \in Nat
  BY ObjectsAssumption, FS_CardinalityType
<1>3. Len(L) <= C
  <2>1. \A i, k \in 1 .. Len(L) : L[i].obj = L[k].obj => i = k
    BY <1>1, SeenOnce
  <2>2. \A i \in 1 .. Len(L) : L[i].obj \in Objs
    <3>1. \A i \in 1 .. Len(L) : L[i] \in Copy
      BY <1>1, ElementOfSeq
    <3> QED
      BY <3>1 DEF Copy
  <2>3. At \in Injection(1 .. Len(L), Objs)
    BY <2>1, <2>2 DEF Injection, IsInjective
  <2>4. IsFiniteSet(1 .. Len(L)) /\ Cardinality(1 .. Len(L)) = Len(L)
    <3>1. IsFiniteSet(1 .. Len(L)) /\ Cardinality(1 .. Len(L)) = IF 1 > Len(L) THEN 0 ELSE Len(L) - 1 + 1
      <4> DEFINE N == Len(L)
      <4>1. N \in Int /\ 1 \in Int
        BY <1>1
      <4> HIDE DEF N
      <4>2. IsFiniteSet(1 .. N) /\ Cardinality(1 .. N) = IF 1 > N THEN 0 ELSE N - 1 + 1
        BY <4>1, FS_Interval
      <4> QED
        BY <4>2 DEF N
    <3> QED
      BY <3>1, <1>1
  <2>5. Cardinality(1 .. Len(L)) <= C
    BY <2>3, <1>2, FS_Injection
  <2> QED
    BY <2>4, <2>5
<1> HIDE DEF C
<1>4. Turns = C + Len(Roots)
  BY DEF Turns, C
<1>5. w.root = Len(Roots) /\ w.at \notin T
  <2>1. ~ (Len(L) + w.root = Turns + 1)
    BY <1>1, <1>2, <1>3, <1>4
  <2> QED
    BY <2>1 DEF WalkInv
<1>6. \A i \in 1 .. Len(Roots) : Roots[i] \notin T
  <2>1. \A i \in 1 .. Len(Roots) : i \in 1 .. w.root - 1 \/ i = w.root
    BY <1>1, <1>5
  <2>2. (\A i \in 1 .. w.root - 1 : Roots[i] \notin T) /\ Roots[w.root] \notin T
    BY <1>5 DEF WalkInv
  <2> QED
    BY <2>1, <2>2
<1>7. Len(L) > 0 => L[Len(L)].val \notin T
  BY <1>5 DEF WalkInv
<1>8. ASSUME NEW o, After(L, Len(L), CallSet, Roots, o)
      PROVE  FALSE
  <2> HIDE DEF L
  <2>1. FirstOf(Roots, T, o)
    BY <1>7, <1>8, Zenon DEF After
  <2> HIDE DEF T
  <2> QED
    BY <2>1, <1>6 DEF FirstOf
<1> QED
  BY <1>1, <1>8 DEF IsWalk

LEMMA CopyOneType ==
  ASSUME CallReady, NEW w \in Walks
  PROVE  CopyOne(w) \in Walks
<1>1. /\ w.visit \in SUBSET Objs /\ w.root \in 1 .. Len(Roots) /\ w.at \in Objs \cup Vals /\ w.list \in Seq(Copy)
      /\ Len(Roots) \in Nat
  BY CallIs DEF Walks
<1>2. CASE Visits(w)
  <2>1. w.at \in Objs
    BY <1>2, CallIs DEF Visits
  <2>2. store[w.at] \in Vals
    BY <2>1 DEF CallReady
  <2>3. [obj |-> w.at, val |-> store[w.at]] \in Copy
    BY <2>1, <2>2 DEF Copy, Vals
  <2>4. Append(w.list, [obj |-> w.at, val |-> store[w.at]]) \in Seq(Copy)
    BY <1>1, <2>3, AppendProperties
  <2> DEFINE M == Append(w.list, [obj |-> w.at, val |-> store[w.at]])
             V == w.visit \cup {w.at}
  <2>5. CopyOne(w) = [visit |-> V, root |-> w.root, at |-> store[w.at], list |-> M]
    BY <1>2, CopyOneIs
  <2>6. M \in Seq(Copy) /\ V \in SUBSET Objs
    BY <1>1, <2>1, <2>4
  <2> HIDE DEF M, V
  <2> QED
    BY <1>1, <2>2, <2>5, <2>6 DEF Walks
<1>3. CASE ~ Visits(w)
  <2>1. PICK V \in SUBSET Objs :
          CopyOne(w) = [visit |-> V, list |-> w.list,
                        root |-> IF w.root = Len(Roots) THEN w.root ELSE w.root + 1,
                        at |-> IF w.root = Len(Roots) THEN w.at ELSE Roots[w.root + 1]]
    BY <1>3, CopyOneIs
  <2>2. w.root # Len(Roots) => w.root + 1 \in 1 .. Len(Roots) /\ Roots[w.root + 1] \in Objs
    BY <1>1, CallIs
  <2> QED
    BY <1>1, <2>1, <2>2 DEF Walks
<1> QED
  BY <1>2, <1>3

\* The walks after each round.
CopyLoop(W) ==
  /\ W \in [0 .. Turns -> Walks] /\ W[0] = WalkStart
  /\ \A n \in 1 .. Turns : W[n] = CopyOne(W[n - 1])
  /\ \A n \in 0 .. Turns : WalkInv(W[n], n)

LEMMA CopyLoopIs ==
  ASSUME CallReady
  PROVE  Turns \in Nat /\ \E W : CopyLoop(W) /\ CopyState = W[Turns].list
<1> DEFINE Body(W) == [n \in 0 .. Turns |-> IF n = 0 THEN WalkStart ELSE CopyOne(W[n - 1])]
           Walk == CHOOSE W : W = Body(W)
           N == {n \in Nat : n <= Turns => WalkInv(Walk[n], n)}
<1>1. Turns \in Nat
  <2>1. Cardinality(Objs) \in Nat
    BY ObjectsAssumption, FS_CardinalityType
  <2> QED
    BY <2>1, CallIs DEF Turns
<1>2. WalkInv(WalkStart, 0) /\ WalkStart \in Walks
  BY WalkStarts DEF WalkInv
<1>3. PICK H : H \in [0 .. Turns -> Walks] /\ H = Body(H)
  <2> DEFINE f == [p \in Walks \X (1 .. Turns) |-> CopyOne(p[1])]
  <2>1. f \in [Walks \X (1 .. Turns) -> Walks]
    BY CopyOneType
  <2>2. \A w \in Walks : \A n \in 1 .. Turns : f[<<w, n>>] = CopyOne(w)
    OBVIOUS
  <2> HIDE DEF f
  <2>3. \E H : Rounds(H, Turns, Walks, WalkStart, f)
    BY <1>1, <1>2, <2>1, LoopExists
  <2>4. PICK H \in [0 .. Turns -> Walks] :
          \A n \in 0 .. Turns : H[n] = IF n = 0 THEN WalkStart ELSE f[<<H[n - 1], n>>]
    BY <2>3 DEF Rounds
  <2>5. ASSUME NEW n \in 0 .. Turns
        PROVE  H[n] = IF n = 0 THEN WalkStart ELSE CopyOne(H[n - 1])
    <3>1. n # 0 => n \in 1 .. Turns /\ n - 1 \in 0 .. Turns
      BY <1>1
    <3> QED
      BY <2>2, <2>4, <3>1
  <2>6. H = [n \in 0 .. Turns |-> H[n]]
    BY <2>4
  <2> DEFINE B == Body(H)
  <2>7. B = [n \in 0 .. Turns |-> B[n]]
    OBVIOUS
  <2>8. \A n \in 0 .. Turns : B[n] = IF n = 0 THEN WalkStart ELSE CopyOne(H[n - 1])
    OBVIOUS
  <2> HIDE DEF B
  <2>9. \A n \in 0 .. Turns : B[n] = H[n]
    BY <2>5, <2>8
  <2>10. B = H
    BY <2>6, <2>7, <2>9
  <2>11. H = Body(H)
    BY <2>10 DEF B
  <2> QED
    BY <2>4, <2>11
<1>4. Walk = Body(Walk)
  BY <1>3
<1>5. CopyState = Walk[Turns].list
  BY DEF CopyState, WalkStart
<1> HIDE DEF Walk
<1>6. \A n \in 0 .. Turns : Walk[n] = IF n = 0 THEN WalkStart ELSE CopyOne(Walk[n - 1])
  BY <1>4
<1>7. DOMAIN Walk = 0 .. Turns /\ Walk = [n \in 0 .. Turns |-> Walk[n]]
  BY <1>4
<1>8. 0 \in N
  BY <1>1, <1>2, <1>6
<1>9. ASSUME NEW n \in Nat, n \in N
      PROVE  n + 1 \in N
  <2> SUFFICES ASSUME n + 1 <= Turns
               PROVE  WalkInv(Walk[n + 1], n + 1)
    OBVIOUS
  <2>1. n + 1 \in 0 .. Turns /\ n + 1 # 0 /\ (n + 1) - 1 = n /\ n <= Turns
    BY <1>1
  <2>2. Walk[n + 1] = CopyOne(Walk[n]) /\ WalkInv(Walk[n], n)
    BY <1>6, <1>9, <2>1
  <2> QED
    BY <2>2, WalkVisits, WalkPasses
<1> HIDE DEF N
<1>10. Nat \subseteq N
  BY <1>8, <1>9, NatSets
<1>11. \A n \in 0 .. Turns : WalkInv(Walk[n], n)
  BY <1>1, <1>10 DEF N
<1>12. Walk \in [0 .. Turns -> Walks]
  <2>1. \A n \in 0 .. Turns : Walk[n] \in Walks
    BY <1>11 DEF WalkInv
  <2> QED
    BY <1>7, <2>1
<1>13. \A n \in 1 .. Turns : Walk[n] = CopyOne(Walk[n - 1])
  <2>1. \A n \in 1 .. Turns : n \in 0 .. Turns /\ n # 0
    BY <1>1
  <2> QED
    BY <1>6, <2>1
<1>14. Walk[0] = WalkStart
  BY <1>1, <1>6
<1>15. CopyLoop(Walk)
  BY <1>11, <1>12, <1>13, <1>14 DEF CopyLoop
<1> QED
  BY <1>1, <1>5, <1>15

LEMMA CopyStateIs ==
  ASSUME CallReady
  PROVE  /\ CopyState \in Seq(Copy) /\ IsWalk(CopyState, CallSet, Roots)
         /\ \A k \in 1 .. Len(CopyState) : CopyState[k].val = store[CopyState[k].obj]
<1>1. Turns \in Nat /\ \E W : CopyLoop(W) /\ CopyState = W[Turns].list
  BY CopyLoopIs
<1>2. PICK W : CopyLoop(W) /\ CopyState = W[Turns].list
  BY <1>1
<1>3. WalkInv(W[Turns], Turns)
  BY <1>1, <1>2 DEF CopyLoop
<1> QED
  BY <1>2, <1>3, WalkEnds DEF WalkInv, Walks

----------------------------------------------------------------------------
(***************************************************************************)
(* The loop of cmixCmpState goes the same way as long as it finds what it  *)
(* compares with.                                                          *)
(***************************************************************************)
Compares(list) ==
  [visit : SUBSET Objs, root : 1 .. Len(Roots), at : Objs \cup Vals, ok : BOOLEAN, k : 1 .. Len(list)]

Whole(v) == v = [visit |-> v.visit, root |-> v.root, at |-> v.at, ok |-> v.ok, k |-> v.k]

LEMMA FlaggedCopy ==
  ASSUME NEW w \in Walks
  PROVE  [w EXCEPT !.visit = @ \cup {w.at}]
           = [visit |-> w.visit \cup {w.at}, root |-> w.root, at |-> w.at, list |-> w.list]
<1>1. w = [visit |-> w.visit, root |-> w.root, at |-> w.at, list |-> w.list] /\ w.visit \in SUBSET Objs
  BY DEF Walks
<1> QED
  BY <1>1

LEMMA FlaggedCompare ==
  ASSUME NEW list, NEW v \in Compares(list)
  PROVE  [v EXCEPT !.visit = @ \cup {v.at}]
           = [visit |-> v.visit \cup {v.at}, root |-> v.root, at |-> v.at, ok |-> v.ok, k |-> v.k]
<1>1. v = [visit |-> v.visit, root |-> v.root, at |-> v.at, ok |-> v.ok, k |-> v.k] /\ v.visit \in SUBSET Objs
  BY DEF Compares
<1> QED
  BY <1>1

\* x and y are a round of v and of w.
Keeps(x, y, v, w, list) ==
  /\ x.visit = y.visit /\ x.root = y.root /\ x.at = y.at
  /\ IF Visits(w)
     THEN x.ok = (list[v.k].val = store[w.at]) /\ x.k = (v.k % Len(list)) + 1
     ELSE x.ok = v.ok /\ x.k = v.k
  /\ Whole(x)

LEMMA CmpOneIs ==
  ASSUME CallReady, NEW list \in Seq(Copy), list # <<>>, NEW v \in Compares(list),
         NEW w \in Walks, v.visit = w.visit, v.root = w.root, v.at = w.at, v.ok
  PROVE  Keeps(CmpOne(v, list), CopyOne(w), v, w, list)
<1> DEFINE fv == [v EXCEPT !.visit = @ \cup {v.at}]
           fw == [w EXCEPT !.visit = @ \cup {w.at}]
<1>1. /\ w = [visit |-> w.visit, root |-> w.root, at |-> w.at, list |-> w.list]
      /\ v = [visit |-> v.visit, root |-> v.root, at |-> v.at, ok |-> v.ok, k |-> v.k]
  BY DEF Walks, Compares
<1>2. /\ fw = [visit |-> w.visit \cup {w.at}, root |-> w.root, at |-> w.at, list |-> w.list]
      /\ fv = [visit |-> w.visit \cup {w.at}, root |-> w.root, at |-> w.at, ok |-> v.ok, k |-> v.k]
  <2>1. fw = [visit |-> w.visit \cup {w.at}, root |-> w.root, at |-> w.at, list |-> w.list]
    BY FlaggedCopy
  <2>2. fv = [visit |-> v.visit \cup {v.at}, root |-> v.root, at |-> v.at, ok |-> v.ok, k |-> v.k]
    BY FlaggedCompare
  <2> QED
    BY <2>1, <2>2
<1>3. Leads(v) <=> Leads(w)
  BY DEF Leads
<1>4. Visits(w) <=> Leads(w) /\ w.at \notin w.visit /\ InWhat(w.at)
  BY CallIs DEF Visits, Leads, InCall, InWhat
<1>5. ASSUME NEW V, NEW x, x = [visit |-> V, root |-> w.root, at |-> w.at, list |-> w.list],
             NEW y, y = [visit |-> V, root |-> w.root, at |-> w.at, ok |-> v.ok, k |-> v.k]
      PROVE  /\ NextRoot(y).visit = NextRoot(x).visit /\ NextRoot(y).root = NextRoot(x).root
             /\ NextRoot(y).at = NextRoot(x).at /\ NextRoot(y).ok = v.ok /\ NextRoot(y).k = v.k
             /\ Whole(NextRoot(y))
  BY <1>5 DEF NextRoot, Whole
<1>6. CASE ~ Leads(w) \/ w.at \in w.visit
  <2>1. CopyOne(w) = NextRoot(w)
    BY <1>6, Zenon DEF CopyOne
  <2>2. CmpOne(v, list) = NextRoot(v)
    BY <1>3, <1>6, Zenon DEF CmpOne
  <2>3. ~ Visits(w)
    BY <1>4, <1>6
  <2>4. v = [visit |-> w.visit, root |-> w.root, at |-> w.at, ok |-> v.ok, k |-> v.k]
    BY <1>1
  <2>5. /\ NextRoot(v).visit = NextRoot(w).visit /\ NextRoot(v).root = NextRoot(w).root
        /\ NextRoot(v).at = NextRoot(w).at /\ NextRoot(v).ok = v.ok /\ NextRoot(v).k = v.k
        /\ Whole(NextRoot(v))
    BY <1>1, <1>5, <2>4
  <2> QED
    BY <2>1, <2>2, <2>3, <2>5, Zenon DEF Keeps
<1>7. CASE ~ (~ Leads(w) \/ w.at \in w.visit) /\ ~ InWhat(w.at)
  <2>1. CopyOne(w) = NextRoot(fw)
    BY <1>7, Zenon DEF CopyOne
  <2>2. ~ (~ v.ok) /\ ~ (~ Leads(v) \/ v.at \in v.visit) /\ ~ InWhat(v.at)
    BY <1>3, <1>7
  <2>3. CmpOne(v, list) = NextRoot(fv)
    BY <2>2, Zenon DEF CmpOne
  <2>4. ~ Visits(w)
    BY <1>4, <1>7
  <2> DEFINE V == w.visit \cup {w.at}
  <2>6. /\ fw = [visit |-> V, root |-> w.root, at |-> w.at, list |-> w.list]
        /\ fv = [visit |-> V, root |-> w.root, at |-> w.at, ok |-> v.ok, k |-> v.k]
    BY <1>2
  <2> HIDE DEF fv, fw, V
  <2>5. /\ NextRoot(fv).visit = NextRoot(fw).visit /\ NextRoot(fv).root = NextRoot(fw).root
        /\ NextRoot(fv).at = NextRoot(fw).at /\ NextRoot(fv).ok = v.ok /\ NextRoot(fv).k = v.k
        /\ Whole(NextRoot(fv))
    BY <2>6 DEF NextRoot, Whole
  <2> QED
    BY <2>1, <2>3, <2>4, <2>5, Zenon DEF Keeps
<1>8. CASE ~ (~ Leads(w) \/ w.at \in w.visit) /\ InWhat(w.at)
  <2>1. Visits(w)
    BY <1>4, <1>8
  <2>2. ~ (~ v.ok) /\ ~ (~ Leads(v) \/ v.at \in v.visit) /\ ~ (~ InWhat(v.at))
    BY <1>3, <1>8
  <2>3. CmpOne(v, list) = [fv EXCEPT !.ok = list[v.k].val = store[v.at], !.k = (@ % Len(list)) + 1, !.at = store[v.at]]
    <3>1. CmpOne(v, list) = [fv EXCEPT !.ok = list[v.k].val = store[v.at],
                                       !.k = (@ % Len(list)) + 1, !.at = store[v.at]]
      BY <2>2, Zenon DEF CmpOne
    <3> QED
      BY <3>1
  <2>4. CopyOne(w) = [visit |-> w.visit \cup {w.at}, root |-> w.root, at |-> store[w.at],
                      list |-> Append(w.list, [obj |-> w.at, val |-> store[w.at]])]
    BY <2>1, CopyOneIs
  <2> HIDE DEF fv, fw
  <2>5. Whole(CmpOne(v, list))
    BY <1>2, <2>3 DEF Whole
  <2> QED
    BY <1>2, <2>1, <2>3, <2>4, <2>5 DEF Keeps
<1> QED
  BY <1>6, <1>7, <1>8

LEMMA CmpOneType ==
  ASSUME CallReady, NEW list \in Seq(Copy), list # <<>>, NEW v \in Compares(list)
  PROVE  CmpOne(v, list) \in Compares(list)
<1>1. CASE ~ v.ok
  BY <1>1 DEF CmpOne
<1>2. CASE v.ok
  <2> DEFINE w == [visit |-> v.visit, root |-> v.root, at |-> v.at, list |-> <<>>]
             x == CmpOne(v, list)
             y == CopyOne(w)
             R == 1 .. Len(Roots)
             N == Len(list)
  <2>1. w \in Walks /\ w.visit = v.visit /\ w.root = v.root /\ w.at = v.at /\ v.k \in 1 .. N /\ v.ok \in BOOLEAN
    <3>1. <<>> \in Seq(Copy)
      OBVIOUS
    <3>2. v.visit \in SUBSET Objs /\ v.root \in R /\ v.at \in Objs \cup Vals
      BY DEF Compares
    <3> HIDE DEF R
    <3>3. w \in Walks
      BY <3>1, <3>2 DEF Walks, R
    <3> QED
      BY <3>3 DEF Compares
  <2>2. N \in Nat /\ N # 0
    OBVIOUS
  <2>3. y \in Walks
    BY <2>1, CopyOneType
  <2> HIDE DEF w
  <2>4. /\ x.visit = y.visit /\ x.root = y.root /\ x.at = y.at /\ Whole(x)
        /\ IF Visits(w)
           THEN x.ok = (list[v.k].val = store[w.at]) /\ x.k = (v.k % Len(list)) + 1
           ELSE x.ok = v.ok /\ x.k = v.k
    BY <1>2, <2>1, CmpOneIs DEF Keeps
  <2> HIDE DEF x, y, N
  <2>5. y.visit \in SUBSET Objs /\ y.root \in R /\ y.at \in Objs \cup Vals
    BY <2>3 DEF Walks
  <2>6. (v.k % N) + 1 \in 1 .. N
    BY <2>1, <2>2
  <2>7. x.ok \in BOOLEAN /\ x.k \in 1 .. N
    <3>1. (list[v.k].val = store[w.at]) \in BOOLEAN
      OBVIOUS
    <3> QED
      BY <2>1, <2>4, <2>6, <3>1 DEF N
  <2> HIDE DEF R
  <2> QED
    BY <2>4, <2>5, <2>7 DEF Compares, Whole, x, N, R
<1> QED
  BY <1>1, <1>2

\* How the comparison v stands when the walk is w.
Along(v, w, list) ==
  /\ v \in Compares(list)
  /\ v.ok => /\ v.visit = w.visit /\ v.root = w.root /\ v.at = w.at
             /\ Pairs(w.list, list)
             /\ Len(w.list) < Len(list) => v.k = Len(w.list) + 1
  /\ Len(w.list) <= Len(list) /\ Pairs(w.list, list) => v.ok

LEMMA AlongStep ==
  ASSUME CallReady, NEW list \in Seq(Copy), list # <<>>, NEW w, NEW n, WalkInv(w, n),
         NEW v, Along(v, w, list)
  PROVE  Along(CmpOne(v, list), CopyOne(w), list)
<1> DEFINE x == CmpOne(v, list)
           y == CopyOne(w)
           L == w.list
           N == Len(list)
           e == [obj |-> w.at, val |-> store[w.at]]
<1>1. v \in Compares(list) /\ w \in Walks /\ L \in Seq(Copy) /\ Len(L) \in Nat /\ N \in Nat /\ N # 0
  BY DEF Along, WalkInv, Walks
<1>2. x \in Compares(list)
  BY <1>1, CmpOneType
<1>3. ASSUME Visits(w)
      PROVE  /\ Len(y.list) = Len(L) + 1 /\ y.list[Len(L) + 1] = e /\ \A i \in 1 .. Len(L) : y.list[i] = L[i]
  <2>1. y = [visit |-> w.visit \cup {w.at}, root |-> w.root, at |-> store[w.at], list |-> Append(L, e)]
    BY <1>1, <1>3, CopyOneIs
  <2>2. w.at \in Objs /\ store[w.at] \in Vals
    BY <1>3, CallIs DEF Visits, CallReady
  <2>3. e \in Copy
    BY <2>2 DEF Copy, Vals
  <2>4. y.list = Append(L, e)
    BY <2>1
  <2> HIDE DEF e, y, L
  <2> QED
    BY <1>1, <2>3, <2>4, AppendProperties
<1>4. ASSUME ~ Visits(w)
      PROVE  y.list = L
  <2>1. PICK V \in SUBSET Objs : y = [visit |-> V, list |-> w.list,
                        root |-> IF w.root = Len(Roots) THEN w.root ELSE w.root + 1,
                        at |-> IF w.root = Len(Roots) THEN w.at ELSE Roots[w.root + 1]]
    BY <1>1, <1>4, CopyOneIs
  <2> QED
    BY <2>1
<1>5. e.val = store[w.at]
  OBVIOUS
<1> HIDE DEF y, e
<1>6. Pairs(y.list, list) => Pairs(L, list)
  <2>1. CASE Visits(w)
    BY <1>1, <1>3, <2>1 DEF Pairs
  <2>2. CASE ~ Visits(w)
    BY <1>4, <2>2
  <2> QED
    BY <2>1, <2>2
<1>7. Len(y.list) <= N => Len(L) <= N
  BY <1>1, <1>3, <1>4
<1>8. CASE ~ v.ok
  <2>1. x = v
    BY <1>8 DEF CmpOne
  <2>2. ~ (Len(y.list) <= N /\ Pairs(y.list, list))
    BY <1>6, <1>7, <1>8 DEF Along
  <2> QED
    BY <1>2, <1>8, <2>1, <2>2 DEF Along, y
<1>9. CASE v.ok
  <2>1. /\ v.visit = w.visit /\ v.root = w.root /\ v.at = w.at /\ Pairs(L, list) /\ (Len(L) < N => v.k = Len(L) + 1)
    BY <1>9 DEF Along
  <2>a. v \in Compares(list) /\ w \in Walks /\ v.ok /\ v.visit = w.visit /\ v.root = w.root /\ v.at = w.at
    BY <1>1, <1>9, <2>1
  <2> HIDE DEF x, L, N
  <2>2. /\ x.visit = y.visit /\ x.root = y.root /\ x.at = y.at
        /\ IF Visits(w)
           THEN x.ok = (list[v.k].val = store[w.at]) /\ x.k = (v.k % Len(list)) + 1
           ELSE x.ok = v.ok /\ x.k = v.k
    <3>1. Keeps(CmpOne(v, list), CopyOne(w), v, w, list)
      BY <2>a, CmpOneIs
    <3> QED
      BY <3>1, Zenon DEF x, y, Keeps
  <2>3. CASE ~ Visits(w)
    <3>1. x.ok /\ x.k = v.k /\ y.list = L
      BY <1>4, <1>9, <2>2, <2>3
    <3> QED
      BY <1>2, <1>9, <2>1, <2>2, <3>1 DEF Along, x, y, N, L
  <2>4. CASE Visits(w)
    <3>1. /\ x.ok = (list[v.k].val = e.val) /\ x.k = (v.k % N) + 1
          /\ Len(y.list) = Len(L) + 1 /\ y.list[Len(L) + 1] = e /\ \A i \in 1 .. Len(L) : y.list[i] = L[i]
      BY <1>3, <1>5, <2>2, <2>4 DEF N
    <3>2. ASSUME x.ok
          PROVE  Pairs(y.list, list) /\ (Len(y.list) < N => x.k = Len(y.list) + 1)
      <4>1. ASSUME NEW k \in 1 .. Len(y.list), k <= N
            PROVE  y.list[k].val = list[k].val
        <5>1. CASE k = Len(L) + 1
          <6>1. Len(L) < N
            BY <1>1, <4>1, <5>1
          <6>2. v.k = k
            BY <2>1, <5>1, <6>1
          <6> QED
            BY <3>1, <3>2, <5>1, <6>2
        <5>2. CASE k # Len(L) + 1
          <6>1. k \in 1 .. Len(L)
            BY <1>1, <3>1, <5>2
          <6> QED
            BY <2>1, <3>1, <4>1, <6>1 DEF Pairs, N
        <5> QED
          BY <5>1, <5>2
      <4>2. ASSUME Len(y.list) < N
            PROVE  x.k = Len(y.list) + 1
        <5>1. v.k = Len(L) + 1 /\ Len(L) + 1 < N
          BY <1>1, <2>1, <3>1, <4>2
        <5>2. v.k % N = v.k
          BY <1>1, <5>1
        <5> QED
          BY <3>1, <5>1, <5>2
      <4> QED
        BY <1>1, <4>1, <4>2 DEF Pairs, N
    <3>3. ASSUME Len(y.list) <= N, Pairs(y.list, list)
          PROVE  x.ok
      <4>1. Len(L) < N /\ Len(L) + 1 \in 1 .. Len(y.list) /\ Len(L) + 1 <= N
        BY <1>1, <3>1, <3>3
      <4>2. v.k = Len(L) + 1 /\ y.list[Len(L) + 1].val = list[Len(L) + 1].val
        BY <2>1, <3>3, <4>1 DEF Pairs, N
      <4> QED
        BY <3>1, <4>2
    <3> QED
      BY <1>2, <2>2, <3>2, <3>3 DEF Along, x, y, N
  <2> QED
    BY <2>3, <2>4
<1> QED
  BY <1>8, <1>9

CmpStart == [visit |-> {}, root |-> 1, at |-> Roots[1], ok |-> TRUE, k |-> 1]

LEMMA CmpStarts ==
  ASSUME CallReady, NEW list \in Seq(Copy), list # <<>>
  PROVE  CmpStart \in Compares(list) /\ Along(CmpStart, WalkStart, list)
<1>1. /\ CmpStart.visit = {} /\ CmpStart.root = 1 /\ CmpStart.at = Roots[1] /\ CmpStart.ok /\ CmpStart.k = 1
      /\ CmpStart.ok \in BOOLEAN
  BY DEF CmpStart
<1>2. WalkStart.visit = {} /\ WalkStart.root = 1 /\ WalkStart.at = Roots[1] /\ WalkStart.list = <<>>
  BY DEF WalkStart
<1>3. Len(list) \in Nat /\ Len(list) # 0
  OBVIOUS
<1>4. CmpStart \in Compares(list)
  <2> DEFINE R == 1 .. Len(Roots)
             N == 1 .. Len(list)
  <2>1. 1 \in R /\ Roots[1] \in Objs \cup Vals /\ 1 \in N
    BY <1>3, CallIs
  <2> HIDE DEF R, N
  <2>2. CmpStart \in [visit : SUBSET Objs, root : R, at : Objs \cup Vals, ok : BOOLEAN, k : N]
    BY <2>1 DEF CmpStart
  <2> QED
    BY <2>2 DEF Compares, R, N
<1>5. Len(WalkStart.list) = 0
  BY <1>2
<1>6. Pairs(WalkStart.list, list)
  BY <1>5 DEF Pairs
<1> QED
  BY <1>1, <1>2, <1>4, <1>5, <1>6 DEF Along

\* So comparing with a list that is not empty is comparing with what a copy of
\* the state would be.
LEMMA CmpIs ==
  ASSUME CallReady, NEW list \in Seq(Copy), list # <<>>
  PROVE  /\ CmpState(list) => Pairs(CopyState, list)
         /\ Len(CopyState) <= Len(list) /\ Pairs(CopyState, list) => CmpState(list)
<1> DEFINE C == Compares(list)
           Body(W) == [n \in 0 .. Turns |-> IF n = 0 THEN CmpStart ELSE CmpOne(W[n - 1], list)]
           Walk == CHOOSE W : W = Body(W)
<1>1. Turns \in Nat /\ \E W : CopyLoop(W) /\ CopyState = W[Turns].list
  BY CopyLoopIs
<1>2. CmpStart \in C
  BY CmpStarts
<1>3. PICK H : H = Body(H)
  <2> DEFINE f == [p \in C \X (1 .. Turns) |-> CmpOne(p[1], list)]
  <2>1. f \in [C \X (1 .. Turns) -> C]
    BY CmpOneType
  <2>2. \A w \in C : \A n \in 1 .. Turns : f[<<w, n>>] = CmpOne(w, list)
    OBVIOUS
  <2> HIDE DEF f, C
  <2>3. \E H : Rounds(H, Turns, C, CmpStart, f)
    BY <1>1, <1>2, <2>1, LoopExists
  <2>4. PICK H \in [0 .. Turns -> C] :
          \A n \in 0 .. Turns : H[n] = IF n = 0 THEN CmpStart ELSE f[<<H[n - 1], n>>]
    BY <2>3 DEF Rounds
  <2>5. ASSUME NEW n \in 0 .. Turns
        PROVE  H[n] = IF n = 0 THEN CmpStart ELSE CmpOne(H[n - 1], list)
    <3>1. n # 0 => n \in 1 .. Turns /\ n - 1 \in 0 .. Turns
      BY <1>1
    <3> QED
      BY <2>2, <2>4, <3>1
  <2>6. H = [n \in 0 .. Turns |-> H[n]]
    BY <2>4
  <2> DEFINE B == Body(H)
  <2>7. B = [n \in 0 .. Turns |-> B[n]]
    OBVIOUS
  <2>8. \A n \in 0 .. Turns : B[n] = IF n = 0 THEN CmpStart ELSE CmpOne(H[n - 1], list)
    OBVIOUS
  <2> HIDE DEF B
  <2>9. \A n \in 0 .. Turns : B[n] = H[n]
    BY <2>5, <2>8
  <2>10. B = H
    BY <2>6, <2>7, <2>9
  <2>11. H = Body(H)
    BY <2>10 DEF B
  <2> QED
    BY <2>11
<1>4. Walk = Body(Walk)
  BY <1>3
<1>5. CmpState(list) <=> (list = <<>> \/ Walk[Turns].ok)
  BY DEF CmpState, CmpStart
<1> HIDE DEF Walk
<1>6. \A n \in 0 .. Turns : Walk[n] = IF n = 0 THEN CmpStart ELSE CmpOne(Walk[n - 1], list)
  BY <1>4
<1>7. PICK W : CopyLoop(W) /\ CopyState = W[Turns].list
  BY <1>1
<1> DEFINE N == {n \in Nat : n <= Turns => Along(Walk[n], W[n], list)}
<1>8. 0 \in N
  <2>1. Walk[0] = CmpStart
    BY <1>1, <1>6
  <2>2. W[0] = WalkStart
    BY <1>7 DEF CopyLoop
  <2> QED
    BY <2>1, <2>2, CmpStarts
<1>9. ASSUME NEW n \in Nat, n \in N
      PROVE  n + 1 \in N
  <2> SUFFICES ASSUME n + 1 <= Turns
               PROVE  Along(Walk[n + 1], W[n + 1], list)
    OBVIOUS
  <2>1. n + 1 \in 0 .. Turns /\ n + 1 \in 1 .. Turns /\ n + 1 # 0 /\ (n + 1) - 1 = n /\ n \in 0 .. Turns
    BY <1>1
  <2>2. Walk[n + 1] = CmpOne(Walk[n], list) /\ Along(Walk[n], W[n], list)
    BY <1>6, <1>9, <2>1
  <2>3. WalkInv(W[n], n) /\ W[n + 1] = CopyOne(W[n])
    BY <1>7, <2>1 DEF CopyLoop
  <2> QED
    BY <2>2, <2>3, AlongStep
<1> HIDE DEF N
<1>10. Turns \in N
  BY <1>1, <1>8, <1>9, NatSets
<1>11. Along(Walk[Turns], W[Turns], list)
  BY <1>1, <1>10 DEF N
<1> QED
  BY <1>5, <1>7, <1>11 DEF Along

----------------------------------------------------------------------------
(***************************************************************************)
(* What a walk finds is what can be reached.                               *)
(***************************************************************************)
\* When the walk has ended, no root is left and no pointer leads on.
LEMMA WalkIsClosed ==
  ASSUME NEW L \in Seq(Copy), NEW S, NEW R \in Seq(Objs), IsWalk(L, S, R)
  PROVE  /\ \A i \in 1 .. Len(R) : R[i] \in S => R[i] \in Seen(L, Len(L))
         /\ \A k \in 1 .. Len(L) : L[k].val \in S => L[k].val \in Seen(L, Len(L))
<1> DEFINE Z == Seen(L, Len(L))
           T == S \ Z
<1>1. Goes(L, S, R) /\ (\A o \in S : ~ After(L, Len(L), S, R, o)) /\ Len(L) \in Nat /\ Len(R) \in Nat
  BY DEF IsWalk
<1>2. ~ (Len(L) > 0 /\ L[Len(L)].val \in T)
  <2>1. SUFFICES ASSUME Len(L) > 0 /\ L[Len(L)].val \in T
                 PROVE  FALSE
    OBVIOUS
  <2>2. After(L, Len(L), S, R, L[Len(L)].val)
    BY <2>1, Zenon DEF After
  <2> QED
    BY <1>1, <2>1, <2>2
<1>3. ASSUME NEW o, FirstOf(R, T, o)
      PROVE  FALSE
  <2>1. After(L, Len(L), S, R, o)
    BY <1>2, <1>3, Zenon DEF After
  <2>2. o \in S
    BY <1>3 DEF FirstOf
  <2> QED
    BY <1>1, <2>1, <2>2
<1> HIDE DEF T
<1>4. ASSUME NEW i \in 1 .. Len(R), R[i] \in T
      PROVE  FALSE
  <2> DEFINE N == {j \in 1 .. Len(R) : R[j] \in T}
  <2>1. N \in SUBSET Nat /\ N # {}
    BY <1>1, <1>4
  <2> DEFINE m == Min(N)
  <2>2. m \in N /\ \A j \in N : m <= j
    BY <2>1, MinIs
  <2> HIDE DEF m
  <2>3. m \in 1 .. Len(R) /\ R[m] \in T
    BY <2>2
  <2>4. \A j \in 1 .. m - 1 : R[j] \notin T
    BY <1>1, <2>2, <2>3
  <2>5. FirstOf(R, T, R[m])
    BY <2>3, <2>4 DEF FirstOf
  <2> QED
    BY <1>3, <2>5
<1>5. ASSUME NEW k \in 1 .. Len(L), L[k].val \in S
      PROVE  L[k].val \in Z
  <2>1. CASE k = Len(L)
    BY <1>1, <1>2, <1>5, <2>1 DEF T
  <2>2. CASE k # Len(L)
    <3>1. k + 1 \in 1 .. Len(L) /\ (k + 1) - 1 = k /\ k > 0
      BY <1>1, <2>2
    <3>2. After(L, k, S, R, L[k + 1].obj)
      BY <1>1, <3>1 DEF Goes
    <3>3. CASE L[k].val \in Seen(L, k)
      <4>1. 1 .. k \subseteq 1 .. Len(L)
        BY <1>1
      <4> QED
        BY <3>3, <4>1 DEF Seen
    <3>4. CASE L[k].val \notin Seen(L, k)
      <4>1. L[k + 1].obj = L[k].val
        BY <1>5, <3>1, <3>2, <3>4 DEF After
      <4> QED
        BY <3>1, <4>1 DEF Seen
    <3> QED
      BY <3>3, <3>4
  <2> QED
    BY <2>1, <2>2
<1> QED
  BY <1>4, <1>5 DEF T

\* Whatever holds the roots and what their pointers lead to holds all of the walk.
LEMMA WalkIsLeast ==
  ASSUME NEW L \in Seq(Copy), NEW S, NEW R \in Seq(Objs), Goes(L, S, R), NEW T,
         \A i \in 1 .. Len(R) : R[i] \in S => R[i] \in T,
         \A k \in 1 .. Len(L) : L[k].obj \in T /\ L[k].val \in S => L[k].val \in T
  PROVE  Seen(L, Len(L)) \subseteq T
<1> DEFINE N == {n \in Nat : n >= 1 /\ n <= Len(L) => L[n].obj \in T}
<1>1. 0 \in N
  OBVIOUS
<1>2. ASSUME NEW n \in Nat, n \in N
      PROVE  n + 1 \in N
  <2> SUFFICES ASSUME n + 1 <= Len(L)
               PROVE  L[n + 1].obj \in T
    OBVIOUS
  <2>1. n + 1 \in 1 .. Len(L) /\ (n + 1) - 1 = n
    OBVIOUS
  <2>2. After(L, n, S, R, L[n + 1].obj)
    BY <2>1 DEF Goes
  <2>3. CASE n > 0 /\ L[n].val \in S \ Seen(L, n)
    <3>1. L[n + 1].obj = L[n].val
      BY <2>2, <2>3, Zenon DEF After
    <3>2. n \in 1 .. Len(L) /\ L[n].obj \in T
      BY <1>2, <2>1, <2>3
    <3> QED
      BY <2>3, <3>1, <3>2
  <2>4. CASE ~ (n > 0 /\ L[n].val \in S \ Seen(L, n))
    <3>1. FirstOf(R, S \ Seen(L, n), L[n + 1].obj)
      BY <2>2, <2>4, Zenon DEF After
    <3> QED
      BY <3>1 DEF FirstOf
  <2> QED
    BY <2>3, <2>4
<1> HIDE DEF N
<1>3. \A n \in 1 .. Len(L) : n \in N
  BY <1>1, <1>2, NatSets
<1> QED
  BY <1>3 DEF N, Seen

LEMMA ReachedIs ==
  ASSUME CallReady
  PROVE  Reached = Seen(CopyState, Len(CopyState))
<1> DEFINE next == [o \in Objs |-> {v \in {store[o]} : InCall(v)}]
           Body(G) == [S \in SUBSET Objs |-> LET more == (UNION {next[d] : d \in S}) \ S
                                             IN  IF more = {} THEN S ELSE G[S \cup more]]
           Grow == CHOOSE G : G = Body(G)
           From == {o \in ToSet(Roots) : InCall(o)}
           L == CopyState
           Z == Seen(L, Len(L))
<1>1. next \in [Objs -> SUBSET Objs]
  <2>1. \A o \in Objs : {v \in {store[o]} : InCall(v)} \in SUBSET Objs
    BY CallIs
  <2> QED
    BY <2>1
<1>2. From \in SUBSET Objs
  BY CallIs
<1>3. \E G : Grows(Objs, next, G)
  <2> HIDE DEF next
  <2> QED
    BY <1>1, GrowsExists
<1>4. Grow = Body(Grow)
  <2>1. PICK G : Grows(Objs, next, G)
    BY <1>3
  <2>2. G = Body(G)
    BY <2>1 DEF Grows
  <2> QED
    BY <2>2
<1>5. Reached = Grow[From]
  BY DEF Reached
<1> HIDE DEF Grow
<1>6. Grows(Objs, next, Grow)
  BY <1>4 DEF Grows
<1>7. IsFiniteSet(Objs)
  BY ObjectsAssumption
<1>8. /\ L \in Seq(Copy) /\ IsWalk(L, CallSet, Roots) /\ \A k \in 1 .. Len(L) : L[k].val = store[L[k].obj]
      /\ Goes(L, CallSet, Roots)
  BY CopyStateIs DEF IsWalk
<1>9. Roots \in Seq(Objs) /\ (\A v : v \in CallSet <=> InCall(v)) /\ CallSet \subseteq Objs
  BY CallIs
<1>10. \A o \in Objs : next[o] = {v \in {store[o]} : InCall(v)}
  OBVIOUS
<1>11. \A v : v \in From <=> v \in CallSet /\ \E i \in 1 .. Len(Roots) : Roots[i] = v
  BY <1>9 DEF ToSet
<1> HIDE DEF L, From, next
<1>12. /\ Grow[From] \in SUBSET Objs /\ From \subseteq Grow[From] /\ Closed(next, Grow[From])
       /\ \A T \in SUBSET Objs : From \subseteq T /\ Closed(next, T) => Grow[From] \subseteq T
  BY <1>1, <1>2, <1>6, <1>7, GrowsIs
<1>13. Z \in SUBSET Objs
  <2>1. \A k \in 1 .. Len(L) : L[k] \in Copy
    BY <1>8, ElementOfSeq
  <2> QED
    BY <2>1 DEF Seen, Copy
<1>14. From \subseteq Z /\ Closed(next, Z)
  <2>1. /\ \A i \in 1 .. Len(Roots) : Roots[i] \in CallSet => Roots[i] \in Z
        /\ \A k \in 1 .. Len(L) : L[k].val \in CallSet => L[k].val \in Z
    BY <1>8, <1>9, WalkIsClosed
  <2>2. From \subseteq Z
    BY <1>11, <2>1
  <2>3. ASSUME NEW o \in Z, NEW v \in next[o]
        PROVE  v \in Z
    <3>1. PICK k \in 1 .. Len(L) : L[k].obj = o
      BY DEF Seen
    <3>2. v = L[k].val /\ v \in CallSet
      BY <1>8, <1>9, <1>10, <1>13, <3>1
    <3> QED
      BY <2>1, <3>2
  <2> QED
    BY <2>2, <2>3 DEF Closed
<1>15. Z \subseteq Grow[From]
  <2>1. \A i \in 1 .. Len(Roots) : Roots[i] \in CallSet => Roots[i] \in Grow[From]
    BY <1>11, <1>12
  <2>2. \A k \in 1 .. Len(L) : L[k].obj \in Grow[From] /\ L[k].val \in CallSet => L[k].val \in Grow[From]
    <3>1. SUFFICES ASSUME NEW k \in 1 .. Len(L), L[k].obj \in Grow[From], L[k].val \in CallSet
                   PROVE  L[k].val \in Grow[From]
      OBVIOUS
    <3>2. L[k].val \in next[L[k].obj]
      BY <1>8, <1>9, <1>10, <1>12, <3>1
    <3> QED
      BY <1>12, <3>1, <3>2 DEF Closed
  <2> QED
    BY <1>8, <1>9, <2>1, <2>2, WalkIsLeast
<1> QED
  BY <1>5, <1>12, <1>13, <1>14, <1>15 DEF L

\* The input of a call, for the reference, is what the walk finds.
LEMMA InputIs ==
  ASSUME CallReady
  PROVE  Input = InputOf(CopyState, Own)
<1> DEFINE L == CopyState
<1>1. /\ L \in Seq(Copy) /\ \A k \in 1 .. Len(L) : L[k].val = store[L[k].obj]
      /\ Reached = Seen(L, Len(L))
  BY CopyStateIs, ReachedIs
<1> HIDE DEF L
<1>2. {store[o] : o \in Reached \cap {Own}} = {L[k].val : k \in {j \in 1 .. Len(L) : L[j].obj = Own}}
  BY <1>1 DEF Seen
<1>3. {<<o, store[o]>> : o \in Reached \ {Own}}
        = {<<L[k].obj, L[k].val>> : k \in {j \in 1 .. Len(L) : L[j].obj # Own}}
  <2>1. ASSUME NEW o \in Reached \ {Own}
        PROVE  \E k \in {j \in 1 .. Len(L) : L[j].obj # Own} : <<o, store[o]>> = <<L[k].obj, L[k].val>>
    <3>1. PICK k \in 1 .. Len(L) : L[k].obj = o
      BY <1>1 DEF Seen
    <3>2. L[k].val = store[o] /\ L[k].obj # Own
      BY <1>1, <3>1
    <3> QED
      BY <3>1, <3>2
  <2>2. ASSUME NEW k \in {j \in 1 .. Len(L) : L[j].obj # Own}
        PROVE  \E o \in Reached \ {Own} : <<L[k].obj, L[k].val>> = <<o, store[o]>>
    <3>1. L[k].obj \in Reached \ {Own}
      BY <1>1 DEF Seen
    <3> QED
      BY <1>1, <3>1
  <2> QED
    BY <2>1, <2>2
<1> QED
  BY <1>2, <1>3 DEF Input, InputOf, L

\* A call whose pointers are sound fits.
LEMMA CallFits ==
  ASSUME CallReady, InPrologue, PointersAreSound
  PROVE  Fits(CopyState, CallSet, Own, Top.fun)
<1> DEFINE L == CopyState
           Fixed == ToSet(Globals) \cup Heap
           fun == Top.fun
<1>1. /\ L \in Seq(Copy) /\ \A k \in 1 .. Len(L) : L[k].val = store[L[k].obj]
      /\ Reached = Seen(L, Len(L))
  BY CopyStateIs, ReachedIs
<1>2. Depth \in 1 .. MaxDepth /\ Own \in Params /\ Own = Par[Depth] /\ Depth \in DOMAIN Par
  BY CallIs, ParIs DEF CallReady, Own
<1>3. Params \cap Fixed = {} /\ \A d, e \in DOMAIN Par : Par[d] = Par[e] => d = e
  BY ObjectsAssumption
<1>4. \A v : v \in CallSet <=> v \in Tracked /\ DeclOf(v) \in What(fun)
  BY CallIs DEF InCall, InWhat
<1>5. DeclOf(Own) = fun
  <2>1. (CHOOSE d \in DOMAIN Par : Par[d] = Own) = Depth
    BY <1>2, <1>3
  <2> QED
    BY <1>2, <2>1 DEF DeclOf, Top
<1>6. Tracked \subseteq Fixed \cup Params /\ Fixed \subseteq Tracked /\ Own \in Tracked
  <2>1. 1 .. Depth \subseteq 1 .. MaxDepth /\ Depth \in 1 .. Depth
    BY <1>2, ParIs
  <2> QED
    BY <1>2, <2>1 DEF Tracked, Params
<1>7. \A o : o \notin Params => DeclOf(o) = o
  BY DEF DeclOf
<1> HIDE DEF L, Fixed, fun
<1>8. Own \in CallSet <=> fun \in What(fun)
  BY <1>4, <1>5, <1>6
<1>9. \A o \in CallSet : o \in Params \/ (o \in Fixed /\ o \in What(fun))
  BY <1>4, <1>6, <1>7
<1>10. \A o \in Fixed \cap What(fun) : o \in CallSet
  BY <1>3, <1>4, <1>6, <1>7
<1>11. ASSUME NEW k \in 1 .. Len(L), L[k].val \in Params
       PROVE  L[k].val # Own /\ L[k].val \in CallSet
  <2>1. L[k].obj \in Reached /\ store[L[k].obj] \in Params
    BY <1>1, <1>11 DEF Seen
  <2>2. store[L[k].obj] # Own /\ InCall(store[L[k].obj])
    BY <2>1 DEF PointersAreSound
  <2> QED
    BY <1>1, <2>2, CallIs
<1> QED
  BY <1>2, <1>8, <1>9, <1>10, <1>11 DEF Fits, L, Fixed, fun

\* What is known of a residual function that was made for a call with the parameter own:
\* its state is a walk, and its input what that walk has found.
Saved(r, own) ==
  /\ r.state \in Seq(Copy)
  /\ r.input = InputOf(r.state, own)
  /\ \E S : IsWalk(r.state, S, Append(Globals, own)) /\ Fits(r.state, S, own, r.fun)

\* What cmixCmpState says of such a function.
LEMMA SharedIsRight ==
  ASSUME CallReady, InPrologue, PointersAreSound,
         NEW r, NEW own, Saved(r, own), r.fun = Top.fun
  PROVE  CmpState(r.state) <=> r.input = Input
<1> DEFINE K == CopyState
           L == r.state
<1>1. /\ K \in Seq(Copy) /\ L \in Seq(Copy)
      /\ Fits(K, CallSet, Own, Top.fun) /\ IsWalk(K, CallSet, Append(Globals, Own))
      /\ Input = InputOf(K, Own) /\ r.input = InputOf(L, own)
  BY CallFits, CopyStateIs, CallIs, InputIs DEF Saved
<1>2. PICK S : IsWalk(L, S, Append(Globals, own)) /\ Fits(L, S, own, Top.fun)
  BY DEF Saved
<1>3. /\ ~ (L = <<>>) => (CmpState(L) => Pairs(K, L)) /\ (Len(K) <= Len(L) /\ Pairs(K, L) => CmpState(L))
      /\ L = <<>> => CmpState(L)
  <2>1. L # <<>> => /\ CmpState(L) => Pairs(K, L)
                    /\ Len(K) <= Len(L) /\ Pairs(K, L) => CmpState(L)
    BY <1>1, CmpIs
  <2>2. L = <<>> => CmpState(L)
    BY Zenon DEF CmpState
  <2> QED
    BY <2>1, <2>2
<1> HIDE DEF K, L
<1>4. /\ Pairs(K, L) => InputOf(K, Own) = InputOf(L, own)
      /\ InputOf(K, Own) = InputOf(L, own) => Len(K) = Len(L) /\ Pairs(K, L)
  BY <1>1, <1>2, ComparingIsExact
<1>5. CASE L = <<>>
  <2>1. Pairs(K, L)
    BY <1>1, <1>5 DEF Pairs
  <2> QED
    BY <1>1, <1>3, <1>4, <1>5, <2>1 DEF L
<1>6. CASE ~ (L = <<>>)
  <2>1. Len(K) = Len(L) => Len(K) <= Len(L)
    BY <1>1
  <2>2. CmpState(L) <=> InputOf(K, Own) = InputOf(L, own)
    <3>1. (CmpState(L) => Pairs(K, L)) /\ (Len(K) <= Len(L) /\ Pairs(K, L) => CmpState(L))
      BY <1>3, <1>6
    <3>2. CmpState(L) => InputOf(K, Own) = InputOf(L, own)
      BY <3>1, <1>4
    <3>3. InputOf(K, Own) = InputOf(L, own) => CmpState(L)
      BY <3>1, <2>1, <1>4
    <3> QED
      BY <3>2, <3>3, Zenon DEF CmpState
  <2>3. Input = InputOf(K, Own) /\ r.input = InputOf(L, own)
    BY <1>1
  <2> QED
    BY <2>2, <2>3, Zenon DEF L
<1> QED
  BY <1>5, <1>6

----------------------------------------------------------------------------
(***************************************************************************)
(* The invariant.  Its parts are about given values of the variables, so   *)
(* that a lemma about them can be used after a step as well as before it.  *)
(***************************************************************************)
Frames    == [fun : Funs, res : Nat]
Pairings  == Objs \X Vals
Inputs    == [arg : SUBSET Vals, objs : SUBSET Pairings]
Residuals == [fun : Funs, state : Seq(Copy), end : Seq(Copy), shared : BOOLEAN,
              complete : BOOLEAN, input : Inputs, effect : SUBSET Pairings]

\* Nothing is restored but what the function has found, its own parameter excepted.
Ended(r) == \A k \in 1 .. Len(r.end) : \E x \in r.input.objs : x[1] = r.end[k].obj

Unique(rs) ==
  \A m, n \in 1 .. Len(rs) : rs[m].fun = rs[n].fun /\ rs[m].input = rs[n].input => m = n

ResOK(rs) ==
  /\ rs \in Seq(Residuals) /\ Unique(rs)
  /\ \A n \in 1 .. Len(rs) : Ended(rs[n]) /\ \E own : Saved(rs[n], own)

\* The activation a at depth d is in its prologue, or makes a function from its own state.
FrameOK(a, d, rs) ==
  /\ a.res \in 0 .. Len(rs)
  /\ a.res # 0 => rs[a.res].fun = a.fun /\ Saved(rs[a.res], Par[d])

StackOK(st, rs) ==
  /\ st \in Seq(Frames) /\ Len(st) <= MaxDepth
  /\ \A d \in 1 .. Len(st) : FrameOK(st[d], d, rs)

\* Every residual function is in the pool of its function, and nothing else is there.
PoolOK(pl, rs) ==
  /\ pl \in [Funs -> Seq(Nat)]
  /\ \A f \in Funs : \A k \in 1 .. Len(pl[f]) : pl[f][k] \in 1 .. Len(rs) /\ rs[pl[f][k]].fun = f
  /\ \A n \in 1 .. Len(rs) : \E k \in 1 .. Len(pl[rs[n].fun]) : pl[rs[n].fun][k] = n

ShareInv ==
  /\ store \in [Objs -> Vals]
  /\ ResOK(res) /\ StackOK(stack, res) /\ PoolOK(pool, res)

\* A residual function of which only what has become of it has changed.
Same(q, r) == q.fun = r.fun /\ q.state = r.state /\ q.input = r.input

LEMMA Updated ==
  ASSUME NEW rs, ResOK(rs), NEW qs \in Seq(Residuals), Len(qs) = Len(rs),
         \A n \in 1 .. Len(rs) : Same(qs[n], rs[n]) /\ Ended(qs[n])
  PROVE  /\ ResOK(qs)
         /\ \A st : StackOK(st, rs) => StackOK(st, qs)
         /\ \A pl : PoolOK(pl, rs) => PoolOK(pl, qs)
<1>1. \A n \in 1 .. Len(rs) : \A own : Saved(rs[n], own) => Saved(qs[n], own)
  BY DEF Same, Saved
<1>2. \A n \in 1 .. Len(rs) : qs[n].fun = rs[n].fun /\ qs[n].input = rs[n].input
  BY DEF Same
<1>3. rs \in Seq(Residuals) /\ Len(rs) \in Nat
  BY DEF ResOK
<1>4. ResOK(qs)
  BY <1>1, <1>2 DEF ResOK, Unique
<1>5. ASSUME NEW st, StackOK(st, rs)
      PROVE  StackOK(st, qs)
  <2>1. ASSUME NEW d \in 1 .. Len(st)
        PROVE  FrameOK(st[d], d, qs)
    <3>1. FrameOK(st[d], d, rs)
      BY <1>5 DEF StackOK
    <3>2. st[d].res # 0 => st[d].res \in 1 .. Len(rs)
      BY <1>3, <3>1 DEF FrameOK
    <3> QED
      BY <1>1, <1>2, <3>1, <3>2 DEF FrameOK
  <2> QED
    BY <1>5, <2>1 DEF StackOK
<1>6. ASSUME NEW pl, PoolOK(pl, rs)
      PROVE  PoolOK(pl, qs)
  BY <1>2, <1>6 DEF PoolOK
<1> QED
  BY <1>4, <1>5, <1>6

LEMMA PopIs ==
  ASSUME NEW X, NEW st \in Seq(X), st # <<>>
  PROVE  /\ Pop(st) \in Seq(X) /\ Len(Pop(st)) = Len(st) - 1
         /\ \A d \in 1 .. Len(st) - 1 : Pop(st)[d] = st[d]
<1> DEFINE L == Len(st)
           p == Pop(st)
<1>1. L \in Nat /\ L >= 1
  OBVIOUS
<1>2. \A i \in 1 .. L - 1 : st[i] \in X
  BY ElementOfSeq
<1>3. p = SubSeq(st, 1, L - 1)
  BY DEF Pop
<1>4. /\ p \in Seq(X) /\ Len(p) = (IF 1 <= L - 1 THEN (L - 1) - 1 + 1 ELSE 0)
      /\ \A i \in 1 .. (L - 1) - 1 + 1 : p[i] = st[1 + i - 1]
  BY <1>1, <1>2, <1>3, SubSeqProperties
<1> HIDE DEF p, L
<1>5. Len(p) = L - 1 /\ \A i \in 1 .. L - 1 : p[i] = st[i]
  BY <1>1, <1>4
<1> QED
  BY <1>4, <1>5 DEF p, L

\* A return leaves the callers as they were.
LEMMA Popped ==
  ASSUME NEW st, NEW rs, StackOK(st, rs), st # <<>>
  PROVE  StackOK(Pop(st), rs)
<1>1. st \in Seq(Frames) /\ Len(st) \in Nat /\ Len(st) <= MaxDepth /\ MaxDepth \in Nat
  BY ParIs DEF StackOK
<1>2. /\ Pop(st) \in Seq(Frames) /\ Len(Pop(st)) = Len(st) - 1
      /\ \A d \in 1 .. Len(st) - 1 : Pop(st)[d] = st[d]
  BY <1>1, PopIs
<1>3. \A d \in 1 .. Len(st) - 1 : d \in 1 .. Len(st) /\ FrameOK(st[d], d, rs)
  BY <1>1 DEF StackOK
<1> QED
  BY <1>1, <1>2, <1>3 DEF StackOK

\* One more residual function.
LEMMA Extended ==
  ASSUME NEW rs, ResOK(rs), NEW r \in Residuals, Ended(r), NEW own, Saved(r, own),
         \A n \in 1 .. Len(rs) : ~ (rs[n].fun = r.fun /\ rs[n].input = r.input)
  PROVE  LET qs == Append(rs, r)
         IN  /\ ResOK(qs) /\ Len(qs) = Len(rs) + 1 /\ Len(rs) \in Nat /\ qs[Len(rs) + 1] = r
             /\ \A n \in 1 .. Len(rs) : qs[n] = rs[n]
<1> DEFINE qs == Append(rs, r)
<1>1. rs \in Seq(Residuals) /\ Len(rs) \in Nat
  BY DEF ResOK
<1>2. /\ qs \in Seq(Residuals) /\ Len(qs) = Len(rs) + 1 /\ qs[Len(rs) + 1] = r
      /\ \A n \in 1 .. Len(rs) : qs[n] = rs[n]
  BY <1>1, AppendProperties
<1> HIDE DEF qs
<1>3. \A n \in 1 .. Len(qs) : n \in 1 .. Len(rs) \/ n = Len(rs) + 1
  BY <1>1, <1>2
<1>4. Unique(qs)
  <2>1. ASSUME NEW m \in 1 .. Len(qs), NEW n \in 1 .. Len(qs),
               qs[m].fun = qs[n].fun, qs[m].input = qs[n].input
        PROVE  m = n
    <3>1. CASE m \in 1 .. Len(rs) /\ n \in 1 .. Len(rs)
      <4>1. rs[m].fun = rs[n].fun /\ rs[m].input = rs[n].input
        BY <1>2, <2>1, <3>1
      <4> QED
        BY <3>1, <4>1 DEF ResOK, Unique
    <3>2. CASE m \in 1 .. Len(rs) /\ n = Len(rs) + 1
      BY <1>2, <2>1, <3>2
    <3>3. CASE m = Len(rs) + 1 /\ n \in 1 .. Len(rs)
      BY <1>2, <2>1, <3>3
    <3> QED
      BY <1>3, <3>1, <3>2, <3>3
  <2> QED
    BY <2>1 DEF Unique
<1>5. \A n \in 1 .. Len(qs) : Ended(qs[n]) /\ \E x : Saved(qs[n], x)
  BY <1>2, <1>3 DEF ResOK
<1> QED
  BY <1>1, <1>2, <1>4, <1>5 DEF ResOK, qs

----------------------------------------------------------------------------
LEMMA ShareInit == Init => ShareInv
<1> SUFFICES ASSUME Init
             PROVE  ShareInv
  OBVIOUS
<1>1. store \in [Objs -> Vals]
  <2>1. \A o \in Objs : (CHOOSE v \in ValsOf[o] : TRUE) \in Vals
    BY ObjectsAssumption DEF Vals
  <2> QED
    BY <2>1 DEF Init
<1>2. stack = <<>> /\ res = <<>> /\ pool = [f \in Funs |-> <<>>]
  BY DEF Init
<1>3. res \in Seq(Residuals) /\ Len(res) = 0 /\ stack \in Seq(Frames) /\ Len(stack) = 0
  BY <1>2
<1>4. ResOK(res)
  BY <1>3 DEF ResOK, Unique
<1>5. StackOK(stack, res)
  BY <1>3, ParIs DEF StackOK
<1>6. PoolOK(pool, res)
  <2>1. <<>> \in Seq(Nat) /\ \A f \in Funs : pool[f] = <<>>
    BY <1>2
  <2>2. pool \in [Funs -> Seq(Nat)] /\ \A f \in Funs : Len(pool[f]) = 0
    BY <1>2, <2>1
  <2> QED
    BY <1>3, <2>2 DEF PoolOK
<1> QED
  BY <1>1, <1>4, <1>5, <1>6 DEF ShareInv

LEMMA ReadyIs ==
  ASSUME ShareInv, stack # <<>>
  PROVE  /\ CallReady /\ Top \in Frames /\ FrameOK(Top, Depth, res) /\ Depth \in 1 .. Len(stack)
         /\ Own = Par[Depth] /\ Own \in Params /\ Len(stack) \in Nat
         /\ Top.fun \in Funs
<1>1. stack \in Seq(Frames) /\ Len(stack) \in Nat /\ Len(stack) <= MaxDepth /\ MaxDepth \in Nat
  BY ParIs DEF ShareInv, StackOK
<1>2. Depth \in 1 .. Len(stack) /\ Depth \in 1 .. MaxDepth
  BY <1>1 DEF Depth
<1>3. Top \in Frames /\ Top = stack[Depth]
  BY <1>1, <1>2, ElementOfSeq DEF Top
<1>4. FrameOK(Top, Depth, res)
  BY <1>2, <1>3 DEF ShareInv, StackOK
<1>5. CallReady
  BY <1>2 DEF CallReady, ShareInv
<1>6. Top.fun \in Funs
  BY <1>3 DEF Frames
<1> QED
  BY <1>1, <1>2, <1>3, <1>4, <1>5, <1>6, CallIs DEF Own

LEMMA AssignKeeps ==
  ASSUME ShareInv, NEW o \in Objs, NEW v \in ValsOf[o], Assign(o, v)
  PROVE  ShareInv'
<1>1. store' = [store EXCEPT ![o] = v] /\ stack' = stack /\ pool' = pool /\ res' = res
  BY DEF Assign
<1>2. store' \in [Objs -> Vals]
  BY <1>1 DEF ShareInv, Vals
<1> QED
  BY <1>1, <1>2 DEF ShareInv

LEMMA EnterKeeps ==
  ASSUME ShareInv, NEW f \in Funs, NEW v, Enter(f, v)
  PROVE  ShareInv'
<1> DEFINE a == [fun |-> f, res |-> 0]
<1>1. /\ stack' = Append(stack, a) /\ store' = [store EXCEPT ![Par[Depth + 1]] = v]
      /\ pool' = pool /\ res' = res /\ Depth < MaxDepth /\ v \in ValsOf[Par[Depth + 1]]
  BY DEF Enter
<1>2. stack \in Seq(Frames) /\ Len(stack) \in Nat /\ MaxDepth \in Nat /\ Len(stack) < MaxDepth
  BY <1>1, ParIs DEF ShareInv, StackOK, Depth
<1>3. store' \in [Objs -> Vals]
  <2>1. Par[Depth + 1] \in Objs
    BY <1>2, ParIs DEF Depth
  <2>2. v \in Vals
    BY <1>1, <2>1 DEF Vals
  <2> QED
    BY <1>1, <2>2 DEF ShareInv
<1>4. a \in Frames /\ a.res = 0
  BY DEF Frames
<1> HIDE DEF a
<1>5. /\ stack' \in Seq(Frames) /\ Len(stack') = Len(stack) + 1 /\ stack'[Len(stack) + 1] = a
      /\ \A d \in 1 .. Len(stack) : stack'[d] = stack[d]
  BY <1>1, <1>2, <1>4, AppendProperties
<1>6. ASSUME NEW d \in 1 .. Len(stack')
      PROVE  FrameOK(stack'[d], d, res)
  <2>1. CASE d \in 1 .. Len(stack)
    BY <1>5, <2>1 DEF ShareInv, StackOK
  <2>2. CASE d = Len(stack) + 1
    <3>1. Len(res) \in Nat
      BY DEF ShareInv, ResOK
    <3> QED
      BY <1>4, <1>5, <2>2, <3>1 DEF FrameOK
  <2> QED
    BY <1>2, <1>5, <2>1, <2>2
<1>7. Len(stack') <= MaxDepth
  BY <1>2, <1>5
<1>8. StackOK(stack', res)
  BY <1>5, <1>6, <1>7 DEF StackOK
<1> QED
  BY <1>1, <1>3, <1>8 DEF ShareInv

\* The function that cmixFindOrPushFun finds.
LEMMA FoundIs ==
  ASSUME ShareInv, stack # <<>>, Matches # {}
  PROVE  /\ Found \in 1 .. Len(res) /\ res[Found].fun = Top.fun /\ CmpState(res[Found].state)
<1>1. Top.fun \in Funs /\ pool[Top.fun] \in Seq(Nat)
  BY ReadyIs DEF ShareInv, PoolOK
<1>2. Matches \in SUBSET Nat
  BY <1>1 DEF Matches
<1>3. \E k \in Matches : \A j \in Matches : k <= j
  BY <1>2, MinIs
<1> DEFINE k == CHOOSE k \in Matches : \A j \in Matches : k <= j
<1>4. k \in Matches
  BY <1>3
<1>5. Found = pool[Top.fun][k]
  BY DEF Found
<1> HIDE DEF k
<1>6. k \in 1 .. Len(pool[Top.fun]) /\ CmpState(res[pool[Top.fun][k]].state)
  BY <1>1, <1>4 DEF Matches
<1> QED
  BY <1>1, <1>5, <1>6 DEF ShareInv, PoolOK

LEMMA ShareKeeps ==
  ASSUME ShareInv, Share
  PROVE  ShareInv'
<1> DEFINE r == res[Found]
           qs == [res EXCEPT ![Found].shared = TRUE]
<1>1. stack # <<>> /\ Matches # {} /\ store' = Restored(r.end) /\ res' = qs /\ stack' = Pop(stack) /\ pool' = pool
  BY DEF Share, InPrologue
<1>2. Found \in 1 .. Len(res)
  BY <1>1, FoundIs
<1>3. res \in Seq(Residuals) /\ Len(res) \in Nat /\ ResOK(res) /\ store \in [Objs -> Vals]
  BY DEF ShareInv, ResOK
<1>4. \A n \in 1 .. Len(res) : res[n] \in Residuals
  BY <1>3, ElementOfSeq
<1>5. store' \in [Objs -> Vals]
  <2>1. r.end \in Seq(Copy)
    BY <1>2, <1>4 DEF Residuals
  <2> DEFINE L == r.end
  <2>2. store' = [o \in Objs |-> IF o \in Copied(L) THEN (CHOOSE c \in ToSet(L) : c.obj = o).val ELSE store[o]]
    BY <1>1 DEF Restored
  <2> HIDE DEF L
  <2>3. ASSUME NEW o \in Copied(L)
        PROVE  (CHOOSE c \in ToSet(L) : c.obj = o).val \in Vals
    <3>1. \A c \in ToSet(L) : c \in Copy
      BY <2>1, ElementOfSeq DEF ToSet, L
    <3>2. \E c \in ToSet(L) : c.obj = o
      BY <2>1 DEF Copied, ToSet, L
    <3>3. (CHOOSE c \in ToSet(L) : c.obj = o) \in Copy
      BY <3>1, <3>2
    <3> QED
      BY <3>3 DEF Copy, Vals
  <2> QED
    BY <1>3, <2>2, <2>3
<1>6. /\ qs \in Seq(Residuals) /\ Len(qs) = Len(res)
      /\ \A n \in 1 .. Len(res) : n # Found => qs[n] = res[n]
      /\ Same(qs[Found], r) /\ qs[Found].end = r.end
  <2> DEFINE q == [r EXCEPT !.shared = TRUE]
  <2>1. r \in Residuals
    BY <1>2, <1>4
  <2>2. q \in Residuals /\ q.fun = r.fun /\ q.state = r.state /\ q.input = r.input /\ q.end = r.end
    <3> HIDE DEF r
    <3> QED
      BY <2>1 DEF Residuals
  <2>3. qs = [res EXCEPT ![Found] = q]
    OBVIOUS
  <2> HIDE DEF q, qs, r
  <2>4. qs \in Seq(Residuals) /\ Len(qs) = Len(res) /\ qs[Found] = q /\ \A n \in 1 .. Len(res) : n # Found => qs[n] = res[n]
    BY <1>2, <1>3, <2>2, <2>3, ExceptSeq
  <2> QED
    BY <2>2, <2>4 DEF Same
<1> HIDE DEF qs
<1>7. \A n \in 1 .. Len(res) : Same(qs[n], res[n]) /\ Ended(qs[n])
  <2>1. \A n \in 1 .. Len(res) : Same(qs[n], res[n]) /\ qs[n].end = res[n].end
    BY <1>6 DEF Same
  <2> QED
    BY <2>1, <1>3 DEF ResOK, Ended, Same
<1>8. ResOK(qs) /\ StackOK(stack, qs) /\ PoolOK(pool, qs)
  BY <1>3, <1>6, <1>7, Updated DEF ShareInv
<1>9. StackOK(Pop(stack), qs)
  BY <1>1, <1>8, Popped
<1> QED
  BY <1>1, <1>5, <1>8, <1>9 DEF ShareInv

\* A residual function joins its pool.
LEMMA Linked ==
  ASSUME NEW pl, NEW rs, PoolOK(pl, rs), NEW qs, NEW f \in Funs, NEW r, Len(rs) \in Nat,
         r = Len(rs) + 1, Len(qs) = r, qs[r].fun = f, \A n \in 1 .. Len(rs) : qs[n] = rs[n],
         \A n \in 1 .. Len(rs) : rs[n].fun \in Funs
  PROVE  PoolOK([pl EXCEPT ![f] = <<r>> \o @], qs)
<1> DEFINE new == [pl EXCEPT ![f] = <<r>> \o @]
           N == Len(pl[f])
<1>1. pl \in [Funs -> Seq(Nat)] /\ r \in Nat /\ pl[f] \in Seq(Nat) /\ N \in Nat
  BY DEF PoolOK
<1>2. /\ <<r>> \o pl[f] \in Seq(Nat) /\ Len(<<r>> \o pl[f]) = 1 + N
      /\ \A k \in 1 .. 1 + N : (<<r>> \o pl[f])[k] = IF k <= 1 THEN <<r>>[k] ELSE pl[f][k - 1]
  <2>1. <<r>> \in Seq(Nat) /\ Len(<<r>>) = 1
    BY <1>1
  <2> QED
    BY <1>1, <2>1, ConcatProperties
<1>3. new \in [Funs -> Seq(Nat)] /\ new[f] = <<r>> \o pl[f] /\ \A g \in Funs : g # f => new[g] = pl[g]
  BY <1>1, <1>2
<1>4. /\ Len(new[f]) = N + 1 /\ new[f][1] = r
      /\ \A k \in 2 .. N + 1 : new[f][k] = pl[f][k - 1]
  <2>1. \A k \in 1 .. N + 1 : k \in 1 .. 1 + N /\ (k \in 2 .. N + 1 => ~ (k <= 1))
    BY <1>1
  <2>2. 1 \in 1 .. N + 1 /\ 1 <= 1 /\ <<r>>[1] = r
    BY <1>1
  <2>3. 2 .. N + 1 \subseteq 1 .. N + 1
    BY <1>1
  <2> HIDE DEF new
  <2> QED
    BY <1>1, <1>2, <1>3, <2>1, <2>2, <2>3
<1> HIDE DEF new
<1>5. ASSUME NEW g \in Funs, NEW k \in 1 .. Len(new[g])
      PROVE  new[g][k] \in 1 .. Len(qs) /\ qs[new[g][k]].fun = g
  <2>1. ASSUME NEW j \in 1 .. Len(pl[g])
        PROVE  pl[g][j] \in 1 .. Len(qs) /\ qs[pl[g][j]].fun = g
    <3>1. pl[g][j] \in 1 .. Len(rs) /\ rs[pl[g][j]].fun = g
      BY DEF PoolOK
    <3> QED
      BY <3>1
  <2>2. CASE g # f
    BY <1>3, <1>5, <2>1, <2>2
  <2>3. CASE g = f /\ k = 1
    <3>1. r \in 1 .. Len(qs)
      BY <1>1
    <3> QED
      BY <1>4, <2>3, <3>1
  <2>4. CASE g = f /\ k # 1
    <3>1. k \in 2 .. N + 1 /\ k - 1 \in 1 .. N
      BY <1>1, <1>4, <1>5, <2>4
    <3>2. new[g][k] = pl[g][k - 1] /\ k - 1 \in 1 .. Len(pl[g])
      BY <1>4, <2>4, <3>1
    <3> QED
      BY <2>1, <3>2
  <2> QED
    BY <2>2, <2>3, <2>4
<1>6. ASSUME NEW n \in 1 .. Len(qs)
      PROVE  \E k \in 1 .. Len(new[qs[n].fun]) : new[qs[n].fun][k] = n
  <2>1. CASE n = r
    <3>1. 1 \in 1 .. Len(new[f])
      BY <1>1, <1>4
    <3> QED
      BY <1>4, <2>1, <3>1
  <2>2. CASE n # r
    <3>1. n \in 1 .. Len(rs) /\ qs[n] = rs[n]
      BY <2>2
    <3>2. PICK j \in 1 .. Len(pl[rs[n].fun]) : pl[rs[n].fun][j] = n
      BY <3>1 DEF PoolOK
    <3>3. CASE rs[n].fun = f
      <4>1. j + 1 \in 2 .. N + 1 /\ j + 1 \in 1 .. Len(new[f]) /\ (j + 1) - 1 = j
        BY <1>1, <1>4, <3>2, <3>3
      <4>2. new[f][j + 1] = n
        BY <1>4, <3>2, <3>3, <4>1
      <4> QED
        BY <3>1, <3>3, <4>1, <4>2
    <3>4. CASE rs[n].fun # f
      <4>1. new[rs[n].fun] = pl[rs[n].fun]
        BY <1>3, <3>1, <3>4
      <4> QED
        BY <3>1, <3>2, <4>1
    <3> QED
      BY <3>3, <3>4
  <2> QED
    BY <2>1, <2>2
<1>7. PoolOK(new, qs)
  BY <1>3, <1>5, <1>6 DEF PoolOK
<1> QED
  BY <1>7 DEF new

\* The input of a call has its type.
LEMMA InputType ==
  ASSUME CallReady
  PROVE  Input \in Inputs
<1> DEFINE L == CopyState
<1>1. Input = InputOf(L, Own) /\ L \in Seq(Copy)
  BY InputIs, CopyStateIs
<1> HIDE DEF L
<1>2. \A k \in 1 .. Len(L) : L[k].obj \in Objs /\ L[k].val \in Vals
  <2>1. \A k \in 1 .. Len(L) : L[k] \in Copy
    BY <1>1, ElementOfSeq
  <2> QED
    BY <2>1 DEF Copy, Vals
<1>3. {L[k].val : k \in {j \in 1 .. Len(L) : L[j].obj = Own}} \in SUBSET Vals
  BY <1>2
<1>4. {<<L[k].obj, L[k].val>> : k \in {j \in 1 .. Len(L) : L[j].obj # Own}} \in SUBSET Pairings
  BY <1>2 DEF Pairings
<1> QED
  BY <1>1, <1>3, <1>4 DEF InputOf, Inputs

LEMMA SpecializeKeeps ==
  ASSUME ShareInv, PointersAreSound, Specialize
  PROVE  ShareInv'
<1> DEFINE r == Len(res) + 1
           new == [fun |-> Top.fun, state |-> CopyState, end |-> <<>>, shared |-> FALSE,
                   complete |-> FALSE, input |-> Input, effect |-> {}]
           qs == Append(res, new)
<1>1. /\ InPrologue /\ stack # <<>> /\ Matches = {} /\ res' = qs
      /\ pool' = [pool EXCEPT ![Top.fun] = <<r>> \o @]
      /\ stack' = [stack EXCEPT ![Depth].res = r] /\ store' = store
  BY DEF Specialize, Link, InPrologue
<1>2. /\ CallReady /\ Top \in Frames /\ Depth \in 1 .. Len(stack) /\ Own = Par[Depth]
      /\ Len(stack) \in Nat /\ Top.fun \in Funs
  BY <1>1, ReadyIs
<1>3. /\ new.fun = Top.fun /\ new.state = CopyState /\ new.end = <<>> /\ new.input = Input
      /\ CopyState \in Seq(Copy) /\ Input \in Inputs
  BY <1>2, CopyStateIs, InputType
<1>4. new \in Residuals
  <2>1. <<>> \in Seq(Copy) /\ {} \in SUBSET Pairings
    OBVIOUS
  <2> QED
    BY <1>2, <1>3, <2>1 DEF Residuals
<1>5. Ended(new)
  BY <1>3 DEF Ended
<1> HIDE DEF new
<1>6. Saved(new, Own)
  <2>1. IsWalk(CopyState, CallSet, Append(Globals, Own)) /\ Fits(CopyState, CallSet, Own, Top.fun)
    BY <1>1, <1>2, CopyStateIs, CallIs, CallFits
  <2>2. Input = InputOf(CopyState, Own)
    BY <1>2, InputIs
  <2> QED
    BY <1>3, <2>1, <2>2 DEF Saved
<1>7. /\ ResOK(res) /\ PoolOK(pool, res) /\ StackOK(stack, res) /\ res \in Seq(Residuals) /\ Len(res) \in Nat
      /\ stack \in Seq(Frames)
  BY DEF ShareInv, ResOK, StackOK
<1>8. \A n \in 1 .. Len(res) : res[n].fun \in Funs
  <2>1. \A n \in 1 .. Len(res) : res[n] \in Residuals
    BY <1>7, ElementOfSeq
  <2> QED
    BY <2>1 DEF Residuals

\* All functions of the pool have been compared, and none was made for this input.
<1>9. ASSUME NEW n \in 1 .. Len(res), res[n].fun = new.fun, res[n].input = new.input
      PROVE  FALSE
  <2>1. PICK k \in 1 .. Len(pool[Top.fun]) : pool[Top.fun][k] = n
    <3>1. new.fun = Top.fun /\ PoolOK(pool, res)
      BY <1>3, <1>7
    <3>2. res[n].fun = Top.fun
      BY <1>9, <3>1
    <3>3. \E k \in 1 .. Len(pool[res[n].fun]) : pool[res[n].fun][k] = n
      BY <3>1 DEF PoolOK
    <3> QED
      BY <3>2, <3>3
  <2>2. PICK own : Saved(res[n], own)
    BY <1>7 DEF ResOK
  <2>3. CmpState(res[n].state)
    BY <1>1, <1>2, <1>3, <1>9, <2>2, SharedIsRight
  <2>4. k \in DOMAIN pool[Top.fun]
    BY <1>2, <1>7 DEF PoolOK
  <2>5. k \in Matches
    BY <2>1, <2>3, <2>4 DEF Matches
  <2> QED
    BY <1>1, <2>5
<1>10. /\ ResOK(qs) /\ Len(qs) = Len(res) + 1 /\ qs[r] = new
       /\ \A n \in 1 .. Len(res) : qs[n] = res[n]
  BY <1>4, <1>5, <1>6, <1>7, <1>9, Extended
<1> HIDE DEF qs
<1>11. PoolOK(pool', qs)
  BY <1>1, <1>2, <1>3, <1>7, <1>8, <1>10, Linked
<1> DEFINE a == [Top EXCEPT !.res = r]
<1>12. a \in Frames /\ a.res = r /\ a.fun = Top.fun
  <2>1. Top = [fun |-> Top.fun, res |-> Top.res]
    BY <1>2 DEF Frames
  <2>2. r \in Nat
    BY <1>7
  <2> HIDE DEF r
  <2> QED
    BY <1>2, <2>1, <2>2 DEF Frames
<1>13. stack' = [stack EXCEPT ![Depth] = a]
  BY <1>1 DEF Top
<1> HIDE DEF a
<1>14. /\ stack' \in Seq(Frames) /\ Len(stack') = Len(stack) /\ stack'[Depth] = a
       /\ \A d \in 1 .. Len(stack) : d # Depth => stack'[d] = stack[d]
  BY <1>2, <1>7, <1>12, <1>13, ExceptSeq
<1>15. ASSUME NEW d \in 1 .. Len(stack)
       PROVE  FrameOK(stack'[d], d, qs)
  <2>1. CASE d = Depth
    <3>1. r \in 0 .. Len(qs) /\ r # 0
      BY <1>7, <1>10
    <3> QED
      BY <1>2, <1>3, <1>6, <1>10, <1>12, <1>14, <2>1, <3>1 DEF FrameOK
  <2>2. CASE d # Depth
    <3>1. FrameOK(stack[d], d, res)
      BY <1>7 DEF StackOK
    <3>2. stack[d].res # 0 => stack[d].res \in 1 .. Len(res)
      BY <1>7, <3>1 DEF FrameOK
    <3>3. stack[d].res \in 0 .. Len(qs)
      BY <1>7, <1>10, <3>1 DEF FrameOK
    <3> QED
      BY <1>10, <1>14, <2>2, <3>1, <3>2, <3>3 DEF FrameOK
  <2> QED
    BY <2>1, <2>2
<1>16. StackOK(stack', qs)
  BY <1>7, <1>14, <1>15 DEF StackOK
<1> QED
  BY <1>1, <1>10, <1>11, <1>16 DEF ShareInv

\* What cmixExtractEndState makes of a list: copies of objects in it that are not
\* the function's own parameter.
Taken(e, list) ==
  /\ e \in Seq(Copy)
  /\ \A k \in 1 .. Len(e) : e[k].obj # Own /\ \E j \in 1 .. Len(list) : list[j].obj = e[k].obj

LEMMA EndStateIs ==
  ASSUME store \in [Objs -> Vals], NEW list \in Seq(Copy)
  PROVE  Taken(EndState(list), list)
<1> DEFINE L == Len(list)
           X == Seq(Copy)
           e(n) == [obj |-> list[n].obj, val |-> store[list[n].obj]]
           Step(E, n) == IF ~ Changed(list[n]) THEN E ELSE Append(E, e(n))
           Body(E) == [n \in 0 .. L |->
                         IF n = 0 THEN <<>>
                         ELSE IF ~ Changed(list[n]) THEN E[n - 1]
                         ELSE Append(E[n - 1], [obj |-> list[n].obj, val |-> store[list[n].obj]])]
           End == CHOOSE E : E = Body(E)
<1>1. L \in Nat /\ <<>> \in X
  OBVIOUS
<1>2. \A n \in 1 .. L : e(n) \in Copy /\ e(n).obj = list[n].obj
  <2>1. \A n \in 1 .. L : list[n] \in Copy
    BY ElementOfSeq
  <2>2. \A n \in 1 .. L : list[n].obj \in Objs
    BY <2>1 DEF Copy
  <2>3. \A n \in 1 .. L : store[list[n].obj] \in Vals
    BY <2>2
  <2> QED
    BY <2>2, <2>3 DEF Copy, Vals
<1>3. ASSUME NEW E \in X, NEW n \in 1 .. L
      PROVE  Step(E, n) \in X
  <2> HIDE DEF e
  <2>1. Append(E, e(n)) \in X
    BY <1>2, AppendProperties
  <2> QED
    BY <2>1
<1>4. PICK H : H \in [0 .. L -> X] /\ H = Body(H)
  <2> DEFINE f == [p \in X \X (1 .. L) |-> Step(p[1], p[2])]
  <2>1. f \in [X \X (1 .. L) -> X]
    <3> HIDE DEF Step, X
    <3> QED
      BY <1>3
  <2>2. \A E \in X : \A n \in 1 .. L : f[<<E, n>>] = Step(E, n)
    <3> HIDE DEF Step, X
    <3> QED
      OBVIOUS
  <2> HIDE DEF f, X
  <2>3. \E H : Rounds(H, L, X, <<>>, f)
    BY <1>1, <2>1, LoopExists
  <2>4. PICK H \in [0 .. L -> X] : \A n \in 0 .. L : H[n] = IF n = 0 THEN <<>> ELSE f[<<H[n - 1], n>>]
    BY <2>3 DEF Rounds
  <2> HIDE DEF Step
  <2>5. ASSUME NEW n \in 0 .. L
        PROVE  H[n] = IF n = 0 THEN <<>> ELSE Step(H[n - 1], n)
    <3>1. n # 0 => n \in 1 .. L /\ n - 1 \in 0 .. L
      BY <1>1
    <3> QED
      BY <2>2, <2>4, <3>1
  <2>6. H = [n \in 0 .. L |-> H[n]]
    BY <2>4
  <2> DEFINE B == Body(H)
  <2>7. B = [n \in 0 .. L |-> B[n]]
    OBVIOUS
  <2>8. \A n \in 0 .. L : B[n] = IF n = 0 THEN <<>> ELSE Step(H[n - 1], n)
    BY DEF Step
  <2> HIDE DEF B
  <2>9. \A n \in 0 .. L : B[n] = H[n]
    BY <2>5, <2>8
  <2>10. B = H
    BY <2>6, <2>7, <2>9
  <2>11. H = Body(H)
    BY <2>10 DEF B
  <2> QED
    BY <2>4, <2>11
<1>5. End = Body(End)
  BY <1>4
<1>6. EndState(list) = End[L]
  BY DEF EndState
<1> HIDE DEF End
<1>7. \A n \in 0 .. L : End[n] = IF n = 0 THEN <<>> ELSE Step(End[n - 1], n)
  BY <1>5
<1> HIDE DEF Step, e, Body
<1> DEFINE N == {n \in Nat : n <= L => Taken(End[n], list)}
<1>8. 0 \in N
  <2>1. End[0] = <<>>
    BY <1>1, <1>7
  <2>2. Taken(<<>>, list)
    BY DEF Taken
  <2>3. Taken(End[0], list)
    BY <2>1, <2>2
  <2> QED
    BY <2>3
<1>9. ASSUME NEW n \in Nat, n \in N
      PROVE  n + 1 \in N
  <2> SUFFICES ASSUME n + 1 <= L
               PROVE  Taken(End[n + 1], list)
    OBVIOUS
  <2>1. n + 1 \in 0 .. L /\ n + 1 # 0 /\ (n + 1) - 1 = n /\ n + 1 \in 1 .. L
    BY <1>1
  <2>2. End[n + 1] = Step(End[n], n + 1) /\ Taken(End[n], list)
    BY <1>7, <1>9, <2>1
  <2>3. CASE ~ Changed(list[n + 1])
    BY <2>2, <2>3 DEF Step
  <2>4. CASE Changed(list[n + 1])
    <3> DEFINE E == End[n]
               c == e(n + 1)
               M == Append(E, c)
    <3>1. End[n + 1] = M
      BY <2>2, <2>4 DEF Step
    <3>2. E \in Seq(Copy) /\ Len(E) \in Nat /\ c \in Copy /\ c.obj = list[n + 1].obj
      BY <1>2, <2>1, <2>2 DEF Taken
    <3>3. c.obj # Own
      BY <2>4, <3>2 DEF Changed
    <3> HIDE DEF c, E
    <3>4. /\ M \in Seq(Copy) /\ Len(M) = Len(E) + 1 /\ M[Len(E) + 1] = c
          /\ \A i \in 1 .. Len(E) : M[i] = E[i]
      BY <3>2, AppendProperties
    <3>5. Taken(E, list)
      BY <2>2 DEF E
    <3> HIDE DEF M
    <3>6. ASSUME NEW k \in 1 .. Len(M)
          PROVE  M[k].obj # Own /\ \E j \in 1 .. Len(list) : list[j].obj = M[k].obj
      <4>1. CASE k \in 1 .. Len(E)
        BY <3>4, <3>5, <4>1 DEF Taken
      <4>2. CASE k = Len(E) + 1
        <5>1. M[k].obj = list[n + 1].obj /\ M[k].obj # Own
          BY <3>2, <3>3, <3>4, <4>2
        <5> QED
          BY <2>1, <5>1
      <4> QED
        BY <3>2, <3>4, <4>1, <4>2
    <3> QED
      BY <3>1, <3>4, <3>6 DEF Taken
  <2> QED
    BY <2>3, <2>4
<1> HIDE DEF N
<1>10. L \in N
  BY <1>1, <1>8, <1>9, NatSets
<1> QED
  BY <1>1, <1>6, <1>10 DEF N

LEMMA ReturnKeeps ==
  ASSUME ShareInv, Return
  PROVE  ShareInv'
<1> DEFINE i == Top.res
           r == res[i]
           end == IF Top.fun \in DynFuns THEN <<>> ELSE EndState(r.state)
           effect == {<<x[1], store[x[1]]>> : x \in r.input.objs}
           q == [r EXCEPT !.end = end, !.complete = TRUE, !.effect = effect]
           qs == [res EXCEPT ![i] = q]
<1>1. stack # <<>> /\ InBody /\ res' = qs /\ stack' = Pop(stack) /\ store' = store /\ pool' = pool
  BY DEF Return
<1>2. FrameOK(Top, Depth, res) /\ Own = Par[Depth]
  BY <1>1, ReadyIs
<1>3. res \in Seq(Residuals) /\ Len(res) \in Nat /\ ResOK(res) /\ store \in [Objs -> Vals]
  BY DEF ShareInv, ResOK
<1>4. i \in 1 .. Len(res) /\ Saved(r, Own)
  <2>1. i # 0
    BY <1>1 DEF InBody, InPrologue
  <2> QED
    BY <1>2, <1>3, <2>1 DEF FrameOK
<1>5. r \in Residuals
  BY <1>3, <1>4, ElementOfSeq
<1>6. end \in Seq(Copy) /\ \A k \in 1 .. Len(end) : \E x \in r.input.objs : x[1] = end[k].obj
  <2>1. CASE Top.fun \in DynFuns
    <3>1. end = <<>>
      BY <2>1
    <3> HIDE DEF end
    <3> QED
      BY <3>1
  <2>2. CASE Top.fun \notin DynFuns
    <3> DEFINE L == r.state
    <3>1. end = EndState(L) /\ L \in Seq(Copy)
      BY <1>5, <2>2 DEF Residuals
    <3>2. Taken(end, L)
      BY <1>3, <3>1, EndStateIs
    <3>3. r.input = InputOf(L, Own)
      BY <1>4 DEF Saved
    <3> HIDE DEF end, L
    <3>4. ASSUME NEW k \in 1 .. Len(end)
          PROVE  \E x \in r.input.objs : x[1] = end[k].obj
      <4>1. PICK j \in 1 .. Len(L) : L[j].obj = end[k].obj /\ L[j].obj # Own
        BY <3>2 DEF Taken
      <4>2. <<L[j].obj, L[j].val>> \in r.input.objs
        BY <3>3, <4>1 DEF InputOf
      <4> QED
        BY <4>1, <4>2
    <3> QED
      BY <3>2, <3>4 DEF Taken
  <2> QED
    BY <2>1, <2>2
<1>7. effect \in SUBSET Pairings
  <2>1. r.input.objs \in SUBSET (Objs \X Vals)
    BY <1>5 DEF Residuals, Inputs, Pairings
  <2>2. \A x \in r.input.objs : x[1] \in Objs
    BY <2>1
  <2>3. \A x \in r.input.objs : <<x[1], store[x[1]]>> \in Pairings
    BY <1>3, <2>2 DEF Pairings
  <2> QED
    BY <2>3
<1> HIDE DEF end, effect, i
<1>8. q \in Residuals /\ Same(q, r) /\ Ended(q)
  <2>1. q \in Residuals /\ q.fun = r.fun /\ q.state = r.state /\ q.input = r.input /\ q.end = end
    <3> HIDE DEF r
    <3> QED
      BY <1>5, <1>6, <1>7 DEF Residuals
  <2> HIDE DEF q, r
  <2> QED
    BY <1>6, <2>1 DEF Same, Ended
<1> HIDE DEF q
<1>9. /\ qs \in Seq(Residuals) /\ Len(qs) = Len(res) /\ qs[i] = q
      /\ \A n \in 1 .. Len(res) : n # i => qs[n] = res[n]
  BY <1>3, <1>4, <1>8, ExceptSeq
<1> HIDE DEF qs
<1>10. \A n \in 1 .. Len(res) : Same(qs[n], res[n]) /\ Ended(qs[n])
  <2>1. \A n \in 1 .. Len(res) : Ended(res[n]) /\ Same(res[n], res[n])
    BY <1>3 DEF ResOK, Same
  <2> QED
    BY <1>8, <1>9, <2>1
<1>11. ResOK(qs) /\ StackOK(stack, qs) /\ PoolOK(pool, qs)
  BY <1>3, <1>9, <1>10, Updated DEF ShareInv
<1>12. StackOK(Pop(stack), qs)
  BY <1>1, <1>11, Popped
<1> QED
  BY <1>1, <1>3, <1>11, <1>12 DEF ShareInv

LEMMA ShareNext == ShareInv /\ PointersAreSound /\ [Next]_vars => ShareInv'
<1> SUFFICES ASSUME ShareInv, PointersAreSound, [Next]_vars
             PROVE  ShareInv'
  OBVIOUS
<1>1. CASE UNCHANGED vars
  BY <1>1 DEF vars, ShareInv
<1>2. CASE Next
  BY <1>2, AssignKeeps, EnterKeeps, ShareKeeps, SpecializeKeeps, ReturnKeeps DEF Next
<1> QED
  BY <1>1, <1>2

LEMMA ShareAlways == Spec /\ []PointersAreSound => []ShareInv
<1>1. Init => ShareInv
  BY ShareInit
<1>2. ShareInv /\ PointersAreSound /\ [Next]_vars => ShareInv'
  BY ShareNext
<1> QED
  BY <1>1, <1>2, PTL DEF Spec

\* A residual function is shared exactly when what the call depends on is what it was made
\* for, and no two are made for one input: cmixFindOrPushFun over the whole of a run, for
\* any program whose pointers are sound.
THEOREM SharingAlwaysExact == Spec /\ []PointersAreSound => []SharingIsExact
<1>1. ShareInv /\ PointersAreSound => SharingIsExact
  <2> SUFFICES ASSUME ShareInv, PointersAreSound
               PROVE  SharingIsExact
    OBVIOUS
  <2>1. ASSUME InPrologue, NEW k \in DOMAIN pool[Top.fun]
        PROVE  CmpState(res[pool[Top.fun][k]].state) <=> res[pool[Top.fun][k]].input = Input
    <3>1. stack # <<>>
      BY <2>1 DEF InPrologue
    <3>2. CallReady /\ Top.fun \in Funs
      BY <3>1, ReadyIs
    <3>3. pool[Top.fun][k] \in 1 .. Len(res) /\ res[pool[Top.fun][k]].fun = Top.fun
      <4>1. pool[Top.fun] \in Seq(Nat)
        BY <3>2 DEF ShareInv, PoolOK
      <4>2. k \in 1 .. Len(pool[Top.fun])
        BY <2>1, <4>1
      <4> QED
        BY <3>2, <4>2 DEF ShareInv, PoolOK
    <3> DEFINE r == res[pool[Top.fun][k]]
    <3>4. PICK own : Saved(r, own)
      BY <3>3 DEF ShareInv, ResOK
    <3> HIDE DEF r
    <3>5. r.fun = Top.fun
      BY <3>3 DEF r
    <3>6. CmpState(r.state) <=> r.input = Input
      BY <2>1, <3>2, <3>4, <3>5, SharedIsRight
    <3> QED
      BY <3>6, Zenon DEF r
  <2>2. NoDuplicateSpecialization
    <3>1. res \in Seq(Residuals) /\ Unique(res)
      BY DEF ShareInv, ResOK
    <3>2. DOMAIN res = 1 .. Len(res)
      BY <3>1
    <3> QED
      BY <3>1, <3>2, Zenon DEF NoDuplicateSpecialization, Unique
  <2> QED
    BY <2>1, <2>2, Zenon DEF SharingIsExact, SharedIffSameInput
<1> QED
  BY <1>1, ShareAlways, PTL

\* cmixRestoreState writes to objects that are alive and not the parameter of the function
\* that it stands for: to what the function it is shared with has found, and
\* that is what the call can reach.
THEOREM RestoresAreAlive == Spec /\ []PointersAreSound => NoRestoreIntoDeadObject
<1>1. ShareInv /\ PointersAreSound /\ [Next]_vars
        => [InPrologue /\ Len(stack') < Len(stack) => Copied(res[Found].end) \subseteq Tracked \ {Own}]_vars
  <2> SUFFICES ASSUME ShareInv, PointersAreSound, Next, InPrologue, Len(stack') < Len(stack)
               PROVE  Copied(res[Found].end) \subseteq Tracked \ {Own}
    OBVIOUS
  <2>1. /\ stack # <<>> /\ stack \in Seq(Frames) /\ Len(stack) \in Nat
        /\ Depth \in 1 .. Len(stack) /\ Own = Par[Depth]
    <3>1. stack # <<>> /\ stack \in Seq(Frames)
      BY DEF InPrologue, ShareInv, StackOK
    <3> QED
      BY <3>1, ReadyIs
  <2>2. Share
    <3>1. CASE \E o \in Objs : \E v \in ValsOf[o] : Assign(o, v)
      BY <3>1 DEF Assign, InBody
    <3>2. CASE \E f \in Funs, v \in UNION {ValsOf[p] : p \in Params} : Enter(f, v)
      BY <3>2 DEF Enter, InBody
    <3>3. CASE Specialize
      <4>1. Len(stack') = Len(stack)
        <5>1. stack' = [stack EXCEPT ![Depth] = [stack[Depth] EXCEPT !.res = Len(res) + 1]]
          BY <3>3 DEF Specialize
        <5> DEFINE a == [stack[Depth] EXCEPT !.res = Len(res) + 1]
        <5> HIDE DEF a
        <5>2. stack' = [stack EXCEPT ![Depth] = a]
          BY <5>1 DEF a
        <5>3. DOMAIN stack' = 1 .. Len(stack)
          BY <2>1, <5>2
        <5> QED
          BY <2>1, <5>2, <5>3
      <4> QED
        BY <2>1, <4>1
    <3>4. CASE Return
      BY <3>4 DEF Return, InBody
    <3> QED
      BY <3>1, <3>2, <3>3, <3>4 DEF Next
  <2>3. Matches # {}
    BY <2>2 DEF Share
  <2> DEFINE r == res[Found]
  <2>4. Found \in 1 .. Len(res) /\ r.fun = Top.fun /\ CmpState(r.state)
    BY <2>1, <2>3, FoundIs
  <2>5. Ended(r) /\ r \in Residuals /\ \E own : Saved(r, own)
    <3>1. res \in Seq(Residuals)
      BY DEF ShareInv, ResOK
    <3> QED
      BY <2>4, <3>1, ElementOfSeq DEF ShareInv, ResOK
  <2> HIDE DEF r
  <2>6. CallReady
    BY <2>1, ReadyIs
  <2>7. r.input = Input
    BY <2>4, <2>5, <2>6, SharedIsRight
  <2>8. Input.objs = {<<o, store[o]>> : o \in Reached \ {Own}}
    BY DEF Input
  <2>9. Reached \subseteq Tracked
    <3>1. /\ Reached = Seen(CopyState, Len(CopyState)) /\ CopyState \in Seq(Copy)
          /\ Goes(CopyState, CallSet, Roots)
      BY <2>6, ReachedIs, CopyStateIs DEF IsWalk
    <3>2. \A k \in 1 .. Len(CopyState) : CopyState[k].obj \in CallSet
      BY <3>1, GoesIn
    <3>3. Reached \subseteq CallSet
      BY <3>1, <3>2 DEF Seen
    <3> QED
      BY <3>3, <2>6, CallIs DEF InCall
  <2>10. r.end \in Seq(Copy)
    BY <2>5 DEF Residuals
  <2>11. ASSUME NEW o \in Copied(r.end)
         PROVE  o \in Tracked \ {Own}
    <3>1. PICK k \in 1 .. Len(r.end) : r.end[k].obj = o
      BY <2>10 DEF Copied
    <3>2. PICK x \in Input.objs : x[1] = o
      BY <2>5, <2>7, <3>1 DEF Ended
    <3>3. PICK p \in Reached \ {Own} : x = <<p, store[p]>>
      BY <2>8, <3>2
    <3>4. p = o
      BY <3>2, <3>3
    <3> QED
      BY <2>9, <3>3, <3>4
  <2> QED
    BY <2>11 DEF r
<1> QED
  BY <1>1, ShareAlways, PTL DEF Spec, NoRestoreIntoDeadObject
=============================================================================
