---------------------------- MODULE DataFlowProofs ----------------------------
(***************************************************************************)
(* Proofs about the call graph, the truly local objects and the data-flow  *)
(* analyses, for any set of declarations, calls, points-to relation and    *)
(* code: callers are the transitive ones; in every execution an object of  *)
(* a truly local declaration belongs to the activation that uses it; and   *)
(* what an execution reads and writes is in the sets of the analyses.      *)
(*                                                                         *)
(* The last of these is proved about one watched block of any execution    *)
(* (watch).  An object is seen from an activation unless it is the truly   *)
(* local object of an older one (Visible).  Whatever the activations since *)
(* the watched one have yet to use is in the set Use of the block, or has  *)
(* been written (ReadsSound); what they are sure to write has been written *)
(* or is written by what remains of their blocks (KillsSound); and what    *)
(* they may write is in the set Wmay of the watched function (WritesSound).*)
(***************************************************************************)
EXTENDS DataFlow, SequenceLemmas

\* The closures of the code are closed, and the least such sets.
LEMMA LeastIs ==
  ASSUME NEW D, IsFiniteSet(D), NEW next \in [D -> SUBSET D], NEW From \in SUBSET D
  PROVE  /\ Least(D, next, From) \in SUBSET D
         /\ From \subseteq Least(D, next, From)
         /\ Closed(next, Least(D, next, From))
         /\ \A T \in SUBSET D : From \subseteq T /\ Closed(next, T) => Least(D, next, From) \subseteq T
<1> DEFINE More(S) == (UNION {next[d] : d \in S}) \ S
           Unfold(G) == [S \in SUBSET D |-> IF More(S) = {} THEN S ELSE G[S \cup More(S)]]
<1>1. PICK H : Grows(D, next, H)
  BY GrowsExists
<1>a. H = Unfold(H)
  BY <1>1 DEF Grows
<1> DEFINE G == CHOOSE G : G = Unfold(G)
<1>2. G = Unfold(G)
  BY <1>a
<1>3. Grows(D, next, G) /\ Least(D, next, From) = G[From]
  BY <1>2 DEF Grows, Least
<1> HIDE DEF G
<1>4. /\ G[From] \in SUBSET D /\ From \subseteq G[From] /\ Closed(next, G[From])
      /\ \A T \in SUBSET D : From \subseteq T /\ Closed(next, T) => G[From] \subseteq T
  BY <1>3, GrowsIs, Zenon
<1> QED
  BY <1>3, <1>4, Zenon

----------------------------------------------------------------------------
(***************************************************************************)
(* The closures of declarations.                                           *)
(***************************************************************************)
LEMMA PartsAre ==
  ASSUME NEW S \in SUBSET Objs, NEW exclude
  PROVE  /\ S \ exclude \subseteq Parts(S, exclude)
         /\ \A d \in Parts(S, exclude) : d \in Objs \ exclude /\ Members[d] \ exclude \subseteq Parts(S, exclude)
         /\ \A T \in SUBSET Objs : S \ exclude \subseteq T /\ (\A d \in T : Members[d] \ exclude \subseteq T)
                                     => Parts(S, exclude) \subseteq T
<1> DEFINE next == [d \in Objs |-> Members[d] \ exclude]
           From == S \ exclude
<1>1. next \in [Objs -> SUBSET Objs] /\ From \in SUBSET Objs
  BY OwnerAssumption
<1>2. IsFiniteSet(Objs)
  BY FiniteAssumption
<1>3. Parts(S, exclude) = Least(Objs, next, From)
  BY DEF Parts
<1>4. \A T \in SUBSET Objs : Closed(next, T) <=> \A d \in T : Members[d] \ exclude \subseteq T
  BY DEF Closed
<1>5. From \subseteq Objs \ exclude /\ \A d \in Objs \ exclude : Members[d] \ exclude \subseteq Objs \ exclude
  BY OwnerAssumption
<1> HIDE DEF next, From
<1>6. /\ Parts(S, exclude) \in SUBSET Objs
      /\ From \subseteq Parts(S, exclude)
      /\ Closed(next, Parts(S, exclude))
      /\ \A T \in SUBSET Objs : From \subseteq T /\ Closed(next, T) => Parts(S, exclude) \subseteq T
  BY <1>1, <1>2, <1>3, LeastIs
<1>7. Parts(S, exclude) \subseteq Objs \ exclude
  BY <1>4, <1>5, <1>6
<1> QED
  BY <1>4, <1>6, <1>7 DEF From

LEMMA ReachableIs ==
  ASSUME pt \in [Objs -> SUBSET Objs], NEW S \in SUBSET Objs, NEW exclude
  PROVE  /\ Reachable(S, exclude) \subseteq Objs
         /\ S \ exclude \subseteq Reachable(S, exclude)
         /\ \A d \in Reachable(S, exclude) : (Members[d] \cup pt[d]) \ exclude \subseteq Reachable(S, exclude)
<1> DEFINE next == [d \in Objs |-> (Members[d] \cup pt[d]) \ exclude]
           From == S \ exclude
<1>1. next \in [Objs -> SUBSET Objs] /\ From \in SUBSET Objs
  BY OwnerAssumption
<1>2. IsFiniteSet(Objs)
  BY FiniteAssumption
<1>3. Reachable(S, exclude) = Least(Objs, next, From)
  BY DEF Reachable
<1>4. \A T \in SUBSET Objs : Closed(next, T) <=> \A d \in T : (Members[d] \cup pt[d]) \ exclude \subseteq T
  BY DEF Closed
<1> HIDE DEF next, From
<1>5. /\ Reachable(S, exclude) \in SUBSET Objs
      /\ From \subseteq Reachable(S, exclude)
      /\ Closed(next, Reachable(S, exclude))
  BY <1>1, <1>2, <1>3, LeastIs
<1> QED
  BY <1>4, <1>5 DEF From

\* What the objects in S and their parts point to is in the closure, but for
\* what is excluded, and it leads to nothing else.
LEMMA PointedToIs ==
  ASSUME pt \in [Objs -> SUBSET Objs], NEW S \in SUBSET Objs, NEW exclude
  PROVE  /\ PointedTo(S, exclude) \subseteq Objs
         /\ \A d \in PointedTo(S, exclude) : (Members[d] \cup pt[d]) \ exclude \subseteq PointedTo(S, exclude)
         /\ \A d \in Parts(S, exclude) : pt[d] \ exclude \subseteq PointedTo(S, exclude)
<1> DEFINE From == UNION {pt[d] : d \in Parts(S, exclude)}
<1>1. From \in SUBSET Objs /\ \A d \in Parts(S, exclude) : pt[d] \subseteq From
  BY PartsAre
<1>2. PointedTo(S, exclude) = Reachable(From, exclude)
  BY DEF PointedTo
<1> HIDE DEF From
<1> QED
  BY <1>1, <1>2, ReachableIs

\* Declarations whose objects a function may get hold of wherever they are,
\* and those the program begins with.
Public(f) == GlobalClosure \cup ParamClosure(f)
Named     == GlobalClosure \cup Parts(TopLevel(External), {})

\* Whatever is public leads to what is public only.
LEMMA PublicIs ==
  ASSUME pt \in [Objs -> SUBSET Objs]
  PROVE  /\ TopLevel(Global) \subseteq Named /\ TopLevel(External) \subseteq Named
         /\ \A d \in Named : d \in Objs /\ Members[d] \subseteq Named /\ pt[d] \subseteq GlobalClosure
         /\ \A f \in Funs : \A d \in Public(f) : d \in Objs /\ Members[d] \cup pt[d] \subseteq Public(f)
         /\ \A f \in Funs : \A d \in TopLevel(f) \cap Params : pt[d] \subseteq Public(f)
<1> DEFINE none == {}
           named == TopLevel(Global)
           extern == TopLevel(External)
<1>1. /\ GlobalClosure = Reachable(named, none) \cup PointedTo(extern, none)
      /\ Named = GlobalClosure \cup Parts(extern, none)
  BY DEF GlobalClosure, Named
<1>2. named \in SUBSET Objs /\ extern \in SUBSET Objs
  BY DEF TopLevel, Roots
<1>3. \A S : S \ none = S
  OBVIOUS
<1> HIDE DEF none, named, extern
<1>4. /\ Reachable(named, none) \subseteq Objs /\ named \subseteq Reachable(named, none)
      /\ \A d \in Reachable(named, none) : Members[d] \cup pt[d] \subseteq Reachable(named, none)
  BY <1>2, <1>3, ReachableIs
<1>5. /\ PointedTo(extern, none) \subseteq Objs
      /\ \A d \in PointedTo(extern, none) : Members[d] \cup pt[d] \subseteq PointedTo(extern, none)
      /\ \A d \in Parts(extern, none) : pt[d] \subseteq PointedTo(extern, none)
  BY <1>2, <1>3, PointedToIs
<1>6. /\ extern \subseteq Parts(extern, none)
      /\ \A d \in Parts(extern, none) : d \in Objs /\ Members[d] \subseteq Parts(extern, none)
  BY <1>2, <1>3, PartsAre
<1>7. GlobalClosure \subseteq Objs /\ \A d \in GlobalClosure : Members[d] \cup pt[d] \subseteq GlobalClosure
  BY <1>1, <1>4, <1>5
<1>8. ASSUME NEW f \in Funs
      PROVE  /\ \A d \in Public(f) : d \in Objs /\ Members[d] \cup pt[d] \subseteq Public(f)
             /\ \A d \in TopLevel(f) \cap Params : pt[d] \subseteq Public(f)
  <2> DEFINE formals == TopLevel(f) \cap Params
             global == GlobalClosure
  <2>1. formals \in SUBSET Objs
    BY DEF TopLevel, Roots
  <2>2. Public(f) = global \cup PointedTo(formals, global)
    BY DEF ParamClosure, Public
  <2>3. global \subseteq Objs /\ \A d \in global : Members[d] \cup pt[d] \subseteq global
    BY <1>7
  <2> HIDE DEF formals, global
  <2>4. /\ PointedTo(formals, global) \subseteq Objs
        /\ \A d \in PointedTo(formals, global) :
             (Members[d] \cup pt[d]) \ global \subseteq PointedTo(formals, global)
        /\ \A d \in Parts(formals, global) : pt[d] \ global \subseteq PointedTo(formals, global)
    BY <2>1, PointedToIs
  <2>5. formals \ global \subseteq Parts(formals, global)
    BY <2>1, PartsAre
  <2>6. \A d \in formals : pt[d] \subseteq Public(f)
    BY <2>2, <2>3, <2>4, <2>5
  <2>7. \A d \in Public(f) : d \in Objs /\ Members[d] \cup pt[d] \subseteq Public(f)
    BY <2>2, <2>3, <2>4
  <2> QED
    BY <2>6, <2>7 DEF formals
<1> QED
  BY <1>1, <1>4, <1>5, <1>6, <1>7, <1>8 DEF named, extern

\* What a function is said to have to itself is its own, and not public if
\* the function may call itself.
LEMMA LocalsOfIs ==
  ASSUME pt \in [Objs -> SUBSET Objs], NEW f
  PROVE  \A d \in LocalsOf(f) : /\ d \in Objs /\ Owner[d] = f
                                /\ Recursive(f) => d \notin Public(f)
<1> DEFINE own == TopLevel(f)
           exclude == IF Recursive(f) THEN GlobalClosure \cup ParamClosure(f) ELSE {}
           mine == {d \in Objs : Owner[d] = f}
<1>1. own \in SUBSET Objs /\ own \subseteq mine
  BY DEF TopLevel, Roots
<1>2. LocalsOf(f) = Parts(own, exclude)
  BY DEF LocalsOf
<1>3. mine \in SUBSET Objs /\ \A d \in mine : Members[d] \subseteq mine
  BY OwnerAssumption
<1>4. Recursive(f) => exclude = Public(f)
  BY DEF Public
<1> HIDE DEF own, exclude, mine
<1>5. Parts(own, exclude) \subseteq mine /\ Parts(own, exclude) \subseteq Objs \ exclude
  BY <1>1, <1>3, PartsAre
<1> QED
  BY <1>2, <1>4, <1>5 DEF mine

\* So is what is said to be a single object: there is one in each activation
\* that has it.
LEMMA NotInArray ==
  \A d \in Objs : ~ InArray(d) => d \notin Elements
<1> SUFFICES ASSUME NEW d \in Objs, d \in Elements
             PROVE  InArray(d)
  OBVIOUS
<1>1. PICK c \in Arrays : d \in Members[c]
  BY DEF Elements
<1> DEFINE inside == Members[c]
           none == {}
<1>2. inside \in SUBSET Objs
  BY OwnerAssumption
<1>3. InArray(d) <=> \E b \in Arrays : d \in Parts(Members[b], none)
  BY DEF InArray
<1>4. inside \ none = inside
  OBVIOUS
<1> HIDE DEF none
<1>5. d \in inside
  BY <1>1
<1>6. inside \ none \subseteq Parts(inside, none)
  <2> HIDE DEF inside
  <2> QED
    BY <1>2, PartsAre
<1> QED
  BY <1>3, <1>4, <1>5, <1>6

LEMMA GlobalUniqueIs ==
  \A d \in GlobalUnique : d \in Objs /\ Owner[d] = Global /\ ~ InArray(d)
<1> DEFINE own == TopLevel(Global)
           none == {}
           mine == {d \in Objs : Owner[d] = Global}
<1>1. own \in SUBSET Objs /\ own \subseteq mine
  BY DEF TopLevel, Roots
<1>2. GlobalUnique = {d \in Parts(own, none) : ~ InArray(d)}
  BY DEF GlobalUnique
<1>3. mine \in SUBSET Objs /\ \A d \in mine : Members[d] \subseteq mine
  BY OwnerAssumption
<1> HIDE DEF own, none, mine
<1>4. Parts(own, none) \subseteq mine
  BY <1>1, <1>3, PartsAre
<1> QED
  BY <1>2, <1>4 DEF mine

\* What belongs to external functions is theirs with its parts.
LEMMA ExternalParts ==
  \A d \in Parts(TopLevel(External), {}) : d \in Objs /\ Owner[d] = External
<1> DEFINE own == TopLevel(External)
           none == {}
           theirs == {d \in Objs : Owner[d] = External}
<1>1. own \in SUBSET Objs /\ own \subseteq theirs
  BY DEF TopLevel, Roots
<1>2. theirs \in SUBSET Objs /\ \A d \in theirs : Members[d] \subseteq theirs
  BY OwnerAssumption
<1> HIDE DEF own, none, theirs
<1>3. Parts(own, none) \subseteq theirs
  BY <1>1, <1>2, PartsAre
<1> QED
  BY <1>3 DEF own, none, theirs

----------------------------------------------------------------------------
(***************************************************************************)
(* The objects.                                                            *)
(***************************************************************************)
Objects == UNION {Instances(d, l) : d \in Objs, l \in 0 .. MaxDepth}

LEMMA ObjectsAre ==
  /\ \A d \in Objs : \A l \in 0 .. MaxDepth : Instances(d, l) \subseteq Objects
  /\ \A o \in Objects : /\ Decl(o) \in Objs /\ Level(o) \in 0 .. MaxDepth
                        /\ o = <<Decl(o), Level(o), o[3]>>
                        /\ o[3] \in {1, 2} /\ (Decl(o) \notin Elements => o[3] = 1)
                        /\ Level(o) = 0 <=> Owner[Decl(o)] \notin Funs \cup {Gen}
  /\ \A d, l : \A o \in Instances(d, l) : Decl(o) = d /\ Level(o) = l
  /\ IsFiniteSet(Objects)
<1>1. \A d \in Objs : \A l \in 0 .. MaxDepth : Instances(d, l) \subseteq Objects
  BY DEF Objects
<1>2. ASSUME NEW d, NEW l, NEW o \in Instances(d, l)
      PROVE  /\ Decl(o) = d /\ Level(o) = l /\ o = <<d, l, o[3]>>
             /\ o[3] \in {1, 2} /\ (d \notin Elements => o[3] = 1)
             /\ l = 0 <=> Owner[d] \notin Funs \cup {Gen}
  BY DEF Instances, Decl, Level
<1>3. ASSUME NEW o \in Objects
      PROVE  /\ Decl(o) \in Objs /\ Level(o) \in 0 .. MaxDepth
             /\ o = <<Decl(o), Level(o), o[3]>>
             /\ o[3] \in {1, 2} /\ (Decl(o) \notin Elements => o[3] = 1)
             /\ Level(o) = 0 <=> Owner[Decl(o)] \notin Funs \cup {Gen}
  <2>1. PICK d \in Objs, l \in 0 .. MaxDepth : o \in Instances(d, l)
    BY DEF Objects
  <2> QED
    BY <1>2, <2>1
<1>4. IsFiniteSet(Objects)
  <2> DEFINE levels == 0 .. MaxDepth
             coded == levels \X {1, 2}
             all == Objs \X coded
             f == [c \in all |-> <<c[1], c[2][1], c[2][2]>>]
             triples == {f[c] : c \in all}
  <2>1. IsFiniteSet(levels) /\ IsFiniteSet({1, 2})
    <3>0. 0 \in Int /\ 1 \in Int /\ 2 \in Int /\ MaxDepth \in Int
      BY FiniteAssumption
    <3>1. IsFiniteSet(0 .. MaxDepth) /\ IsFiniteSet(1 .. 2)
      BY <3>0, FS_Interval, Zenon
    <3>2. 1 .. 2 = {1, 2}
      OBVIOUS
    <3> QED
      BY <3>1, <3>2
  <2>2. IsFiniteSet(coded)
    <3> HIDE DEF levels
    <3> QED
      BY <2>1, FS_Product
  <2>3. IsFiniteSet(all)
    <3> HIDE DEF coded
    <3> QED
      BY <2>2, FiniteAssumption, FS_Product
  <2>4. Objects \subseteq triples
    <3> SUFFICES ASSUME NEW o \in Objects
                 PROVE  \E c \in all : o = f[c]
      OBVIOUS
    <3>1. /\ Decl(o) \in Objs /\ Level(o) \in levels /\ o[3] \in {1, 2}
          /\ o = <<Decl(o), Level(o), o[3]>>
      BY <1>3
    <3> DEFINE c == <<Decl(o), <<Level(o), o[3]>>>>
    <3>2. c \in all
      BY <3>1
    <3>3. f[c] = <<c[1], c[2][1], c[2][2]>>
      BY <3>2
    <3>4. f[c] = o
      BY <3>1, <3>3
    <3> QED
      BY <3>2, <3>4
  <2>5. f \in Surjection(all, triples)
    <3> HIDE DEF all
    <3> QED
      BY DEF Surjection
  <2> HIDE DEF f, triples, all
  <2>6. IsFiniteSet(triples)
    BY <2>3, <2>5, FS_Surjection
  <2> QED
    BY <2>4, <2>6, FS_Subset
<1> QED
  BY <1>1, <1>2, <1>3, <1>4

----------------------------------------------------------------------------
(***************************************************************************)
(* The invariant of a run.  An object p that something of level l points   *)
(* to may be older than the activation at level l.  Then it has come down  *)
(* through all activations in between, by their parameters or by what is   *)
(* global, so that its declaration is public to each of them.              *)
(*                                                                         *)
(* That holds of allocated objects, too, if they are taken to belong to    *)
(* the activation that has allocated them, and to its caller when it is    *)
(* over: age[o] is the level of the activation to which o belongs.         *)
(***************************************************************************)
Alive(sk, age, p) ==
  /\ age[p] <= Len(sk)
  /\ age[p] = 0 => Decl(p) \in Named
  /\ Level(p) # 0 => Owner[Decl(p)] = sk[Level(p)]

Passed(sk, age, p, l) ==
  \A k \in 2 .. Len(sk) : age[p] # 0 /\ age[p] < k /\ k <= l => Decl(p) \in Public(sk[k])

\* The parts of an object are not older than the whole.
Aged(sk, age) ==
  /\ age \in [Objects -> 0 .. MaxDepth]
  /\ \A o \in Objects :
       /\ Level(o) # 0 => age[o] = Level(o)
       /\ Level(o) = 0 /\ age[o] # 0 => age[o] <= Len(sk) /\ Owner[Decl(o)] \notin {Global, External}
       /\ \A d \in Members[Decl(o)] : \A q \in Instances(d, Level(o)) : age[o] <= age[q]

\* As long as nothing has been allocated.
Levels == [o \in Objects |-> Level(o)]

\* The activations call each other, so that a function that is there twice is
\* known to call itself.
StackSound(sk) ==
  /\ sk \in Seq(Funs \cup {Gen}) /\ Len(sk) \in 1 .. MaxDepth /\ sk[1] = Gen
  /\ \A i \in 2 .. Len(sk) : sk[i] \in Funs
  /\ \A i, j \in 2 .. Len(sk) : i < j => sk[i] \in preds[sk[j]]

StoreSound(sk, st, age) ==
  /\ DOMAIN st = Objects
  /\ Aged(sk, age)
  /\ \A o \in Objects :
       /\ st[o] \subseteq Objects
       /\ Level(o) > Len(sk) => st[o] = {}
       /\ \A p \in st[o] : Allowed(o, p) /\ Alive(sk, age, p) /\ Passed(sk, age, p, age[o])

\* What the activation at level l may get hold of.
Meetable(sk, age, l) == {o \in Objects : Alive(sk, age, o) /\ Passed(sk, age, o, l)}

ProgramType == calls \in [Funs -> SUBSET Funs] /\ pt \in [Objs -> SUBSET Objs]

LEMMA LevelsAged == \A sk : Aged(sk, Levels)
<1>1. Levels \in [Objects -> 0 .. MaxDepth] /\ \A o \in Objects : Levels[o] = Level(o)
  BY ObjectsAre DEF Levels
<1>2. ASSUME NEW o \in Objects, NEW d \in Members[Decl(o)], NEW q \in Instances(d, Level(o))
      PROVE  Levels[o] <= Levels[q]
  <2>1. d \in Objs /\ Level(o) \in 0 .. MaxDepth
    BY ObjectsAre, OwnerAssumption
  <2>2. q \in Objects /\ Level(q) = Level(o)
    BY <2>1, ObjectsAre
  <2> QED
    BY <1>1, <2>1, <2>2, FiniteAssumption
<1> QED
  BY <1>1, <1>2 DEF Aged

\* From what it may get hold of, an activation goes on to what it may get hold of.
LEMMA MemberMeets ==
  ASSUME ProgramType, StackSound(stack), NEW age, Aged(stack, age), NEW l \in 1 .. Depth,
         NEW o \in Meetable(stack, age, l), NEW d \in Members[Decl(o)], NEW q \in Instances(d, Level(o))
  PROVE  q \in Meetable(stack, age, l)
<1> USE DEF ProgramType
<1>1. /\ o \in Objects /\ Alive(stack, age, o) /\ Passed(stack, age, o, l)
      /\ Decl(o) \in Objs /\ Level(o) \in 0 .. MaxDepth /\ Depth \in Nat
  BY ObjectsAre, FiniteAssumption DEF Meetable, StackSound, Depth
<1>2. \A k \in 2 .. Depth : stack[k] \in Funs
  BY DEF StackSound, Depth
<1>3. d \in Objs /\ Owner[d] = Owner[Decl(o)]
  BY <1>1, OwnerAssumption
<1>4. q \in Objects /\ Decl(q) = d /\ Level(q) = Level(o)
  BY <1>1, <1>3, ObjectsAre
<1>5. /\ age[o] \in 0 .. MaxDepth /\ age[q] \in 0 .. MaxDepth /\ age[o] <= age[q]
      /\ Level(q) # 0 => age[q] = age[o]
      /\ Level(q) = 0 /\ age[q] # 0 => age[q] <= Depth /\ Owner[d] \notin {Global, External}
  BY <1>1, <1>4 DEF Aged, Depth
<1>6. Alive(stack, age, q)
  <2>1. age[q] = 0 => d \in Named
    BY <1>1, <1>5, PublicIs, FiniteAssumption DEF Alive
  <2>2. age[q] <= Depth
    BY <1>1, <1>5, FiniteAssumption DEF Alive, Depth
  <2> QED
    BY <1>1, <1>3, <1>4, <2>1, <2>2 DEF Alive, Depth
<1>7. ASSUME NEW k \in 2 .. Depth, age[q] # 0, age[q] < k, k <= l
      PROVE  d \in Public(stack[k])
  <2>1. CASE age[o] # 0
    <3>1. Decl(o) \in Public(stack[k])
      BY <1>1, <1>5, <1>7, <2>1, FiniteAssumption DEF Passed, Depth
    <3> QED
      BY <1>2, <3>1, PublicIs
  <2>2. CASE age[o] = 0
    <3>1. Decl(o) \in Named /\ Level(q) = 0 /\ Owner[Decl(o)] # External
      BY <1>1, <1>3, <1>5, <1>7, <2>2 DEF Alive
    <3>2. Decl(o) \in GlobalClosure
      BY <1>1, <3>1, ExternalParts DEF Named
    <3> QED
      BY <1>2, <3>2, PublicIs DEF Public
  <2> QED
    BY <2>1, <2>2
<1> QED
  BY <1>4, <1>6, <1>7 DEF Meetable, Passed, Depth

LEMMA PointerMeets ==
  ASSUME ProgramType, StackSound(stack), NEW age, StoreSound(stack, store, age), NEW l \in 1 .. Depth,
         NEW o \in Meetable(stack, age, l), NEW q \in store[o]
  PROVE  q \in Meetable(stack, age, l) /\ Allowed(o, q)
<1> USE DEF ProgramType
<1>1. /\ o \in Objects /\ Alive(stack, age, o) /\ Passed(stack, age, o, l)
      /\ Decl(o) \in Objs /\ Level(o) \in 0 .. MaxDepth /\ Depth \in Nat
  BY ObjectsAre, FiniteAssumption DEF Meetable, StackSound, Depth
<1>2. \A k \in 2 .. Depth : stack[k] \in Funs
  BY DEF StackSound, Depth
<1>3. q \in Objects /\ Allowed(o, q) /\ Alive(stack, age, q) /\ Passed(stack, age, q, age[o])
  BY <1>1 DEF StoreSound
<1>4. Decl(q) \in pt[Decl(o)] /\ age[q] \in 0 .. MaxDepth /\ age[o] \in 0 .. MaxDepth
  BY <1>1, <1>3 DEF Allowed, StoreSound, Aged
<1>5. ASSUME NEW k \in 2 .. Depth, age[q] # 0, age[q] < k, k <= l
      PROVE  Decl(q) \in Public(stack[k])
  <2>1. CASE k <= age[o]
    BY <1>3, <1>5, <2>1 DEF Passed, Depth
  <2>2. CASE age[o] = 0
    BY <1>1, <1>4, <2>2, PublicIs DEF Alive, Public
  <2>3. CASE age[o] # 0 /\ age[o] < k
    <3>1. Decl(o) \in Public(stack[k])
      BY <1>1, <1>5, <2>3 DEF Passed, Depth
    <3> QED
      BY <1>2, <1>4, <3>1, PublicIs
  <2> QED
    BY <1>1, <1>4, <2>1, <2>2, <2>3, FiniteAssumption
<1> QED
  BY <1>3, <1>5 DEF Meetable, Passed, Depth

\* Where nothing has been allocated, it also goes on to the other elements of an array.
LEMMA NextToMeets ==
  ASSUME ProgramType, StackSound(stack), StoreSound(stack, store, Levels),
         NEW o \in Meetable(stack, Levels, Depth)
  PROVE  NextTo(o) \subseteq Meetable(stack, Levels, Depth)
<1>1. /\ o \in Objects /\ Alive(stack, Levels, o) /\ Passed(stack, Levels, o, Depth)
      /\ Decl(o) \in Objs /\ Level(o) \in 0 .. MaxDepth /\ Depth \in 1 .. MaxDepth
  BY ObjectsAre DEF Meetable, StackSound, Depth
<1>2. Depth \in 1 .. Depth
  BY <1>1, FiniteAssumption
<1>3. ASSUME NEW q \in Instances(Decl(o), Level(o))
      PROVE  q \in Meetable(stack, Levels, Depth)
  <2>1. q \in Objects /\ Decl(q) = Decl(o) /\ Level(q) = Level(o) /\ Levels[q] = Levels[o]
    BY <1>1, ObjectsAre DEF Levels
  <2> QED
    BY <1>1, <2>1 DEF Meetable, Alive, Passed
<1>4. ASSUME NEW q \in store[o]
      PROVE  q \in Meetable(stack, Levels, Depth)
  BY <1>2, PointerMeets
<1>5. ASSUME NEW d \in Members[Decl(o)], NEW q \in Instances(d, Level(o))
      PROVE  q \in Meetable(stack, Levels, Depth)
  BY <1>2, LevelsAged, MemberMeets
<1> QED
  BY <1>3, <1>4, <1>5 DEF NextTo

\* The variables that the activation at level l knows by name.
LEMMA HereMeets ==
  ASSUME ProgramType, StackSound(stack), NEW age, Aged(stack, age), NEW l \in 1 .. Depth,
         NEW d \in TopLevel(Global) \cup TopLevel(External) \cup TopLevel(stack[l]),
         NEW o \in Instances(d, IF d \in TopLevel(stack[l]) THEN l ELSE 0)
  PROVE  o \in Meetable(stack, age, l)
<1>1. Depth \in 1 .. MaxDepth /\ stack[l] \in Funs \cup {Gen} /\ MaxDepth \in Nat
  BY FiniteAssumption DEF Depth, StackSound
<1>2. d \in Objs /\ Owner[d] \in {Global, External, stack[l]} /\ (d \in TopLevel(stack[l]) <=> Owner[d] = stack[l])
  BY DEF TopLevel, Roots
<1>3. CASE d \in TopLevel(stack[l])
  <2>1. o \in Objects /\ Decl(o) = d /\ Level(o) = l /\ age[o] = l
    BY <1>1, <1>2, <1>3, ObjectsAre DEF Aged
  <2>2. Alive(stack, age, o)
    BY <1>1, <1>2, <1>3, <2>1 DEF Alive, Depth
  <2> QED
    BY <1>1, <2>1, <2>2 DEF Meetable, Passed
<1>4. CASE d \notin TopLevel(stack[l])
  <2>1. o \in Objects /\ Decl(o) = d /\ Level(o) = 0
    BY <1>1, <1>2, <1>4, ObjectsAre
  <2>2. age[o] = 0
    BY <1>2, <1>4, <2>1 DEF Aged
  <2>3. d \in Named
    BY <1>2, <1>4, PublicIs DEF ProgramType, TopLevel
  <2> QED
    BY <1>1, <2>1, <2>2, <2>3 DEF Meetable, Alive, Passed, Depth
<1> QED
  BY <1>3, <1>4

LEMMA InScopeMeets ==
  ASSUME ProgramType, StackSound(stack), NEW age, Aged(stack, age)
  PROVE  InScope \subseteq Meetable(stack, age, Depth)
<1>1. Depth \in 1 .. Depth /\ Last(stack) = stack[Depth] /\ stack[Depth] \in Funs \cup {Gen}
  BY FiniteAssumption DEF Depth, StackSound, Last
<1>2. ASSUME NEW d \in TopLevel(Global) \cup TopLevel(External), NEW o \in Instances(d, 0)
      PROVE  o \in Meetable(stack, age, Depth)
  <2>1. d \notin TopLevel(stack[Depth])
    BY <1>1, OwnerAssumption DEF TopLevel
  <2> QED
    BY <1>1, <1>2, <2>1, HereMeets
<1>3. ASSUME NEW d \in TopLevel(Last(stack)), NEW o \in Instances(d, Depth)
      PROVE  o \in Meetable(stack, age, Depth)
  BY <1>1, <1>3, HereMeets
<1> QED
  BY <1>2, <1>3 DEF InScope

\* What is in reach is no more than that.
LEMMA Reached ==
  ASSUME ProgramType, StackSound(stack), StoreSound(stack, store, Levels)
  PROVE  InReach \subseteq Meetable(stack, Levels, Depth) /\ InReach \subseteq Objects
<1> DEFINE next == [o \in Objects |-> NextTo(o)]
           scope == InScope
           meets == Meetable(stack, Levels, Depth)
<1>1. \A o \in Objects : NextTo(o) \subseteq Objects
  <2> SUFFICES ASSUME NEW o \in Objects
               PROVE  NextTo(o) \subseteq Objects
    OBVIOUS
  <2>1. store[o] \subseteq Objects
    BY DEF StoreSound
  <2>2. Decl(o) \in Objs /\ Level(o) \in 0 .. MaxDepth
    BY ObjectsAre
  <2>3. \A d \in Members[Decl(o)] \cup {Decl(o)} : Instances(d, Level(o)) \subseteq Objects
    BY <2>2, ObjectsAre, OwnerAssumption
  <2> QED
    BY <2>1, <2>3 DEF NextTo
<1>2. meets \in SUBSET Objects /\ scope \subseteq meets /\ Closed(next, meets)
  BY InScopeMeets, NextToMeets, LevelsAged DEF Closed, Meetable
<1>3. InReach = Least(Objects, next, scope)
  BY DEF InReach, StoreSound
<1>4. next \in [Objects -> SUBSET Objects] /\ IsFiniteSet(Objects)
  BY <1>1, ObjectsAre
<1> HIDE DEF next, scope, meets
<1>5. Least(Objects, next, scope) \subseteq meets
  BY <1>2, <1>4, LeastIs
<1> QED
  BY <1>2, <1>3, <1>5 DEF meets

----------------------------------------------------------------------------
(***************************************************************************)
(* The inductive invariant.                                                *)
(***************************************************************************)
\* Whoever is found to call a function does so.  A function that is not
\* waiting has handed on its callers to all it calls.
CallsSound ==
  /\ ProgramType
  /\ preds \in [Funs -> SUBSET Funs] /\ waiting \subseteq Funs
  /\ \A f \in Funs : Callers(f) \subseteq preds[f]
  /\ \A f \in Funs \ waiting : \A g \in calls[f] : preds[f] \subseteq preds[g]
  /\ \A f \in Funs : \A g \in preds[f] : f \in Least(Funs, calls, calls[g])
  /\ phase # "calls" => waiting = {}

LocalsKnown ==
  /\ truly = [f \in Funs \cup {Gen} |-> LocalsOf(f)]
  /\ unique \subseteq {d \in UNION {LocalsOf(f) : f \in Funs \cup {Gen}} : ~ InArray(d)} \cup GlobalUnique

LocalsInv ==
  /\ CallsSound
  /\ phase = "run" => LocalsKnown /\ StackSound(stack) /\ StoreSound(stack, store, Levels)

LEMMA CallersFollow ==
  ASSUME CallsSound, phase = "locals"
  PROVE  CallersAreFound
<1> SUFFICES ASSUME NEW f \in Funs, NEW g \in Funs
             PROVE  g \in preds[f] <=> f \in Least(Funs, calls, calls[g])
  BY DEF CallersAreFound
<1>1. g \in preds[f] => f \in Least(Funs, calls, calls[g])
  BY DEF CallsSound
<1>2. f \in Least(Funs, calls, calls[g]) => g \in preds[f]
  <2> DEFINE below == {c \in Funs : g \in preds[c]}
             direct == calls[g]
  <2>1. calls \in [Funs -> SUBSET Funs] /\ direct \in SUBSET Funs /\ IsFiniteSet(Funs)
    BY FiniteAssumption DEF CallsSound, ProgramType
  <2>2. direct \subseteq below
    BY <2>1 DEF CallsSound, Callers
  <2>3. below \in SUBSET Funs /\ Closed(calls, below)
    BY <2>1 DEF CallsSound, Closed
  <2> HIDE DEF below, direct
  <2>4. Least(Funs, calls, direct) \subseteq below
    BY <2>1, <2>2, <2>3, LeastIs
  <2> QED
    BY <2>4 DEF below, direct
<1> QED
  BY <1>1, <1>2

----------------------------------------------------------------------------
(***************************************************************************)
(* Assignments, calls and returns keep the store sound.                    *)
(***************************************************************************)
LEMMA AgesAre ==
  ASSUME NEW sk, sk \in Seq(Funs \cup {Gen}), NEW age, Aged(sk, age), NEW o \in Objects
  PROVE  /\ age[o] \in Nat /\ Level(o) \in Nat /\ Len(sk) \in Nat
         /\ Level(o) # 0 => age[o] = Level(o)
         /\ Level(o) = 0 => age[o] <= Len(sk)
<1>1. age[o] \in 0 .. MaxDepth /\ Level(o) \in 0 .. MaxDepth /\ Len(sk) \in Nat
  BY ObjectsAre DEF Aged
<1> QED
  BY <1>1, FiniteAssumption DEF Aged

\* Objects that belong to activations get what the current one may get hold of.
LEMMA StoreChanged ==
  ASSUME StackSound(stack), NEW age, StoreSound(stack, store, age), NEW st, DOMAIN st = Objects,
         \A x \in Objects : \/ st[x] = store[x]
                            \/ /\ Level(x) <= Depth
                               /\ \A p \in st[x] : p \in Meetable(stack, age, Depth) /\ Allowed(x, p)
  PROVE  StoreSound(stack, st, age)
<1>1. stack \in Seq(Funs \cup {Gen}) /\ Len(stack) = Depth /\ Depth \in Nat
  BY DEF StackSound, Depth
<1>2. ASSUME NEW x \in Objects
      PROVE  /\ st[x] \subseteq Objects
             /\ Level(x) > Depth => st[x] = {}
             /\ \A p \in st[x] : Allowed(x, p) /\ Alive(stack, age, p) /\ Passed(stack, age, p, age[x])
  <2>1. age[x] \in Nat /\ Level(x) \in Nat
    BY <1>1, AgesAre DEF StoreSound
  <2>2. CASE st[x] = store[x]
    BY <1>1, <2>2 DEF StoreSound
  <2>3. CASE /\ Level(x) <= Depth
             /\ \A p \in st[x] : p \in Meetable(stack, age, Depth) /\ Allowed(x, p)
    <3>1. ASSUME NEW p \in st[x]
          PROVE  p \in Objects /\ Allowed(x, p) /\ Alive(stack, age, p) /\ Passed(stack, age, p, age[x])
      <4>1. p \in Objects /\ Allowed(x, p) /\ Alive(stack, age, p) /\ Passed(stack, age, p, Depth)
        BY <2>3 DEF Meetable
      <4>2. \A k \in 2 .. Len(stack) : k <= Depth
        BY <1>1
      <4> QED
        BY <4>1, <4>2 DEF Passed
    <3>2. ~ (Level(x) > Depth)
      BY <1>1, <2>1, <2>3
    <3> QED
      BY <3>1, <3>2
  <2> QED
    BY <2>2, <2>3
<1> QED
  BY <1>1, <1>2 DEF StoreSound

\* A function is called, and its parameters get what the caller may get hold of.
LEMMA PushSound ==
  ASSUME CallsSound, waiting = {}, StackSound(stack), NEW age, StoreSound(stack, store, age),
         Depth < MaxDepth, NEW f \in Funs, Depth > 1 => f \in calls[stack[Depth]],
         NEW st, DOMAIN st = Objects,
         \A x \in Objects : \/ st[x] = store[x]
                            \/ /\ Level(x) = Depth + 1
                               /\ \A p \in st[x] : /\ p \in Meetable(stack, age, Depth) /\ Allowed(x, p)
                                                   /\ Decl(p) \in Public(f)
  PROVE  StackSound(Append(stack, f)) /\ StoreSound(Append(stack, f), st, age)
<1> DEFINE more == Append(stack, f)
<1>1. /\ stack \in Seq(Funs \cup {Gen}) /\ Len(stack) = Depth /\ Depth \in 1 .. MaxDepth
      /\ Depth \in Nat /\ MaxDepth \in Nat
  BY FiniteAssumption DEF StackSound, Depth
<1>2. /\ more \in Seq(Funs \cup {Gen}) /\ Len(more) = Depth + 1
      /\ more[Depth + 1] = f /\ \A i \in 1 .. Depth : more[i] = stack[i]
  BY <1>1
<1> HIDE DEF more
<1>3. StackSound(more)
  <2>1. ASSUME NEW i \in 2 .. Depth
        PROVE  stack[i] \in preds[f]
    <3>1. Depth \in 2 .. Depth /\ stack[Depth] \in Funs /\ f \in calls[stack[Depth]]
      BY <1>1 DEF StackSound
    <3>2. stack[Depth] \in preds[f]
      BY <3>1 DEF CallsSound, Callers
    <3>3. preds[stack[Depth]] \subseteq preds[f]
      BY <3>1 DEF CallsSound
    <3>4. i = Depth \/ stack[i] \in preds[stack[Depth]]
      BY <1>1, <3>1 DEF StackSound
    <3> QED
      BY <3>2, <3>3, <3>4
  <2>2. ASSUME NEW i \in 2 .. Depth + 1
        PROVE  more[i] \in Funs
    BY <1>1, <1>2 DEF StackSound
  <2>3. ASSUME NEW i \in 2 .. Depth + 1, NEW j \in 2 .. Depth + 1, i < j
        PROVE  more[i] \in preds[more[j]]
    <3>1. i \in 2 .. Depth
      BY <1>1, <2>3
    <3>2. CASE j = Depth + 1
      BY <1>2, <2>1, <3>1, <3>2
    <3>3. CASE j \in 2 .. Depth
      BY <1>1, <1>2, <2>3, <3>1, <3>3 DEF StackSound
    <3> QED
      BY <1>1, <3>2, <3>3
  <2> QED
    BY <1>1, <1>2, <2>2, <2>3 DEF StackSound
<1>4. Aged(more, age)
  <2>1. \A n : n \in Nat /\ n <= Len(stack) => n <= Len(more)
    BY <1>1, <1>2
  <2>2. Aged(stack, age)
    BY DEF StoreSound
  <2>3. \A o \in Objects : age[o] \in Nat
    BY <1>1, <2>2, AgesAre
  <2> QED
    BY <2>1, <2>2, <2>3 DEF Aged
<1>5. \A p \in Objects : /\ age[p] \in Nat /\ Level(p) \in Nat
                         /\ Level(p) # 0 => age[p] = Level(p)
                         /\ Level(p) = 0 => age[p] <= Depth
  BY <1>1, AgesAre DEF StoreSound
<1>6. \A p \in Objects : Alive(stack, age, p) => Alive(more, age, p)
  BY <1>1, <1>2, <1>5 DEF Alive
<1>7. ASSUME NEW x \in Objects
      PROVE  /\ st[x] \subseteq Objects
             /\ Level(x) > Depth + 1 => st[x] = {}
             /\ \A p \in st[x] : Allowed(x, p) /\ Alive(more, age, p) /\ Passed(more, age, p, age[x])
  <2>1. CASE st[x] = store[x]
    <3>1. /\ store[x] \subseteq Objects
          /\ Level(x) > Depth => store[x] = {}
          /\ \A p \in store[x] : Allowed(x, p) /\ Alive(stack, age, p) /\ Passed(stack, age, p, age[x])
      BY <1>1 DEF StoreSound
    <3>2. ASSUME NEW p \in store[x]
          PROVE  Passed(more, age, p, age[x])
      <4>1. age[x] <= Depth /\ age[x] \in Nat
        BY <1>1, <1>5, <3>1, <3>2
      <4> QED
        BY <1>1, <1>2, <3>1, <3>2, <4>1 DEF Passed
    <3> QED
      BY <1>1, <1>5, <1>6, <2>1, <3>1, <3>2
  <2>2. CASE /\ Level(x) = Depth + 1
             /\ \A p \in st[x] : /\ p \in Meetable(stack, age, Depth) /\ Allowed(x, p)
                                 /\ Decl(p) \in Public(f)
    <3>1. ASSUME NEW p \in st[x]
          PROVE  p \in Objects /\ Allowed(x, p) /\ Alive(more, age, p) /\ Passed(more, age, p, age[x])
      <4>1. /\ p \in Objects /\ Allowed(x, p) /\ Alive(stack, age, p) /\ Passed(stack, age, p, Depth)
            /\ Decl(p) \in Public(f)
        BY <2>2 DEF Meetable
      <4>2. ASSUME NEW k \in 2 .. Depth + 1, age[p] # 0, age[p] < k
            PROVE  Decl(p) \in Public(more[k])
        <5>1. CASE k = Depth + 1
          BY <1>2, <4>1, <5>1
        <5>2. CASE k \in 2 .. Depth
          BY <1>1, <1>2, <4>1, <4>2, <5>2 DEF Passed
        <5> QED
          BY <1>1, <5>1, <5>2
      <4> QED
        BY <1>2, <1>6, <4>1, <4>2 DEF Passed
    <3> QED
      BY <1>1, <2>2, <3>1
  <2> QED
    BY <2>1, <2>2
<1>8. StoreSound(more, st, age)
  BY <1>2, <1>4, <1>7 DEF StoreSound
<1> QED
  BY <1>3, <1>8 DEF more

\* The activation at level n ends, and with it its objects; what it has
\* allocated belongs to its caller.
Kept(st, n)  == [o \in DOMAIN st |-> IF Level(o) < n THEN {p \in st[o] : Level(p) < n} ELSE {}]
Sunk(age, n) == [o \in Objects |-> IF Level(o) = 0 /\ age[o] > n - 1 THEN n - 1 ELSE age[o]]

LEMMA PopStack ==
  ASSUME StackSound(stack), Depth > 1
  PROVE  /\ StackSound(Front(stack)) /\ Len(Front(stack)) = Depth - 1
         /\ \A i \in 1 .. Depth - 1 : Front(stack)[i] = stack[i]
<1> DEFINE less == Front(stack)
<1>1. /\ stack \in Seq(Funs \cup {Gen}) /\ Depth \in 2 .. MaxDepth /\ Len(stack) = Depth
      /\ MaxDepth \in Nat /\ Depth \in Nat
  BY FiniteAssumption DEF StackSound, Depth
<1>2. /\ less \in Seq(Funs \cup {Gen}) /\ Len(less) = Depth - 1
      /\ \A i \in 1 .. Depth - 1 : less[i] = stack[i]
  <2>1. less = SubSeq(stack, 1, Depth - 1)
    BY <1>1 DEF Front
  <2> QED
    BY <1>1, <2>1
<1> HIDE DEF less
<1>3. Len(less) \in 1 .. MaxDepth /\ less[1] = Gen
  BY <1>1, <1>2 DEF StackSound
<1>4. \A i \in 2 .. Depth - 1 : less[i] = stack[i] /\ i \in 2 .. Depth
  BY <1>1, <1>2
<1>5. StackSound(less)
  BY <1>1, <1>2, <1>3, <1>4 DEF StackSound
<1> QED
  BY <1>2, <1>5 DEF less

LEMMA PopSound ==
  ASSUME StackSound(stack), Depth > 1, NEW age, NEW st, StoreSound(stack, st, age)
  PROVE  StoreSound(Front(stack), Kept(st, Depth), Sunk(age, Depth))
<1> DEFINE less == Front(stack)
           kept == Kept(st, Depth)
           sunk == Sunk(age, Depth)
<1>1. /\ stack \in Seq(Funs \cup {Gen}) /\ Depth \in 2 .. MaxDepth /\ Len(stack) = Depth
      /\ MaxDepth \in Nat /\ Depth \in Nat
  BY FiniteAssumption DEF StackSound, Depth
<1>2. /\ StackSound(less) /\ less \in Seq(Funs \cup {Gen}) /\ Len(less) = Depth - 1
      /\ \A i \in 1 .. Depth - 1 : less[i] = stack[i]
  BY PopStack DEF StackSound
<1> HIDE DEF less
<1>3. \A p \in Objects : /\ age[p] \in Nat /\ Level(p) \in Nat
                         /\ Level(p) # 0 => age[p] = Level(p)
                         /\ Level(p) = 0 => age[p] <= Depth
  BY <1>1, AgesAre DEF StoreSound
<1>4. \A p \in Objects : sunk[p] = IF Level(p) = 0 /\ age[p] > Depth - 1 THEN Depth - 1 ELSE age[p]
  BY DEF Sunk
<1>5. \A p \in Objects : /\ sunk[p] \in Nat /\ sunk[p] <= age[p]
                         /\ sunk[p] < Depth - 1 => sunk[p] = age[p]
                         /\ Level(p) = 0 => sunk[p] <= Depth - 1
                         /\ Level(p) # 0 => sunk[p] = Level(p)
                         /\ sunk[p] = 0 <=> age[p] = 0
  BY <1>1, <1>3, <1>4
<1> HIDE DEF sunk
<1>6. Aged(less, sunk)
  <2>1. Aged(stack, age)
    BY DEF StoreSound
  <2>2. ASSUME NEW o \in Objects
        PROVE  sunk[o] \in 0 .. MaxDepth
    BY <1>3, <1>5, <2>1, FiniteAssumption DEF Aged
  <2>3. ASSUME NEW o \in Objects, Level(o) = 0, sunk[o] # 0
        PROVE  sunk[o] <= Len(less) /\ Owner[Decl(o)] \notin {Global, External}
    BY <1>2, <1>5, <2>1, <2>3 DEF Aged
  <2>4. ASSUME NEW o \in Objects, NEW d \in Members[Decl(o)], NEW q \in Instances(d, Level(o))
        PROVE  sunk[o] <= sunk[q]
    <3>1. d \in Objs /\ Level(o) \in 0 .. MaxDepth
      BY ObjectsAre, OwnerAssumption
    <3>2. q \in Objects /\ Level(q) = Level(o) /\ age[o] <= age[q]
      BY <2>1, <3>1, ObjectsAre DEF Aged
    <3> QED
      BY <1>1, <1>3, <1>4, <3>2
  <2>5. sunk \in [Objects -> 0 .. MaxDepth]
    BY <2>2 DEF sunk, Sunk
  <2> QED
    BY <1>5, <2>3, <2>4, <2>5 DEF Aged
<1>7. \A p \in Objects : Level(p) < Depth /\ Alive(stack, age, p) => Alive(less, sunk, p)
  BY <1>1, <1>2, <1>3, <1>5 DEF Alive
<1>8. \A p, o \in Objects : Passed(stack, age, p, age[o]) => Passed(less, sunk, p, sunk[o])
  BY <1>1, <1>2, <1>3, <1>5 DEF Passed
<1>9. DOMAIN kept = Objects /\ DOMAIN st = Objects
  BY DEF StoreSound, Kept
<1>10. ASSUME NEW o \in Objects
       PROVE  /\ kept[o] \subseteq Objects
              /\ Level(o) > Depth - 1 => kept[o] = {}
              /\ \A p \in kept[o] : Allowed(o, p) /\ Alive(less, sunk, p) /\ Passed(less, sunk, p, sunk[o])
  <2>1. kept[o] = IF Level(o) < Depth THEN {p \in st[o] : Level(p) < Depth} ELSE {}
    BY <1>9 DEF Kept
  <2>2. /\ st[o] \subseteq Objects
        /\ \A p \in st[o] : Allowed(o, p) /\ Alive(stack, age, p) /\ Passed(stack, age, p, age[o])
    BY DEF StoreSound
  <2>3. \A p \in kept[o] : p \in st[o] /\ Level(p) < Depth /\ Level(o) < Depth
    BY <2>1
  <2>4. Level(o) > Depth - 1 => ~ (Level(o) < Depth)
    BY <1>1, <1>3
  <2> HIDE DEF kept
  <2> QED
    BY <1>7, <1>8, <2>1, <2>2, <2>3, <2>4
<1> HIDE DEF kept
<1>11. StoreSound(less, kept, sunk)
  BY <1>2, <1>6, <1>9, <1>10 DEF StoreSound
<1> QED
  BY <1>11 DEF less, kept, sunk

----------------------------------------------------------------------------
(***************************************************************************)
(* The invariant says what is to be shown.                                 *)
(***************************************************************************)
\* An object that is not public to its function is of the current activation,
\* or no activation of its function is above it.
LEMMA OneActivation ==
  ASSUME ProgramType, StackSound(stack), NEW age, Aged(stack, age), NEW l \in 1 .. Depth,
         NEW o \in Meetable(stack, age, l), NEW f \in Funs \cup {Gen}, Decl(o) \in LocalsOf(f)
  PROVE  /\ Level(o) \in 1 .. Depth /\ stack[Level(o)] = f
         /\ \A k \in 1 .. l : stack[k] = f => k <= Level(o)
<1>1. /\ o \in Objects /\ Alive(stack, age, o) /\ Passed(stack, age, o, l)
      /\ Level(o) \in 0 .. MaxDepth /\ Depth \in Nat
  BY ObjectsAre, FiniteAssumption DEF Meetable, StackSound, Depth
<1>2. Decl(o) \in Objs /\ Owner[Decl(o)] = f /\ (Recursive(f) => Decl(o) \notin Public(f))
  BY LocalsOfIs DEF ProgramType
<1>3. Level(o) # 0 /\ age[o] = Level(o)
  BY <1>1, <1>2, ObjectsAre DEF Aged
<1>4. Level(o) \in 1 .. Depth /\ stack[Level(o)] = f
  BY <1>1, <1>2, <1>3, FiniteAssumption DEF Alive, Depth
<1>5. ASSUME NEW k \in 1 .. l, stack[k] = f, ~ (k <= Level(o))
      PROVE  FALSE
  <2>1. k \in 2 .. Depth /\ Level(o) < k
    BY <1>1, <1>4, <1>5
  <2>2. f \in Funs
    BY <1>5, <2>1 DEF StackSound, Depth
  <2>3. Level(o) # 1
    BY <1>4, <2>2, OwnerAssumption DEF StackSound
  <2>4. stack[Level(o)] \in preds[stack[k]]
    BY <1>4, <2>1, <2>3 DEF StackSound, Depth
  <2>5. Recursive(f)
    BY <1>4, <1>5, <2>2, <2>4 DEF Recursive
  <2>6. Decl(o) \in Public(stack[k])
    BY <1>1, <1>3, <1>5, <2>1 DEF Passed, Depth
  <2> QED
    BY <1>2, <1>5, <2>5, <2>6
<1> QED
  BY <1>4, <1>5

LEMMA TrulyLocalsFollow ==
  ASSUME LocalsInv
  PROVE  TrulyLocalsAreOwn
<1> SUFFICES ASSUME phase = "run", NEW o \in InReach, Decl(o) \in truly[Last(stack)]
             PROVE  Level(o) = Depth
  BY DEF TrulyLocalsAreOwn
<1>1. ProgramType /\ StackSound(stack) /\ StoreSound(stack, store, Levels) /\ LocalsKnown
  BY DEF LocalsInv, CallsSound
<1>2. o \in Meetable(stack, Levels, Depth)
  BY <1>1, Reached
<1>3. Depth \in 1 .. MaxDepth /\ Last(stack) = stack[Depth] /\ Last(stack) \in Funs \cup {Gen}
  BY <1>1 DEF StackSound, Depth, Last
<1>4. Decl(o) \in LocalsOf(Last(stack))
  BY <1>1, <1>3 DEF LocalsKnown
<1>5. Level(o) \in 1 .. Depth /\ \A k \in 1 .. Depth : stack[k] = Last(stack) => k <= Level(o)
  BY <1>1, <1>2, <1>3, <1>4, OneActivation, LevelsAged, FiniteAssumption
<1> QED
  BY <1>3, <1>5, FiniteAssumption

LEMMA UniqueFollows ==
  ASSUME LocalsInv
  PROVE  UniqueIsSingle
<1> SUFFICES ASSUME phase = "run", NEW o \in InReach, NEW p \in InReach,
                    Decl(o) = Decl(p), Decl(o) \in unique
             PROVE  o = p
  BY DEF UniqueIsSingle
<1>1. ProgramType /\ StackSound(stack) /\ StoreSound(stack, store, Levels) /\ LocalsKnown
  BY DEF LocalsInv, CallsSound
<1>2. o \in Meetable(stack, Levels, Depth) /\ p \in Meetable(stack, Levels, Depth) /\ o \in Objects /\ p \in Objects
  BY <1>1, Reached
<1>3. Decl(o) \in Objs /\ ~ InArray(Decl(o))
  BY <1>1, <1>2, ObjectsAre, GlobalUniqueIs DEF LocalsKnown
<1>4. o[3] = 1 /\ p[3] = 1
  BY <1>2, <1>3, NotInArray, ObjectsAre
<1>6. Depth \in 1 .. Depth
  BY <1>1, FiniteAssumption DEF StackSound, Depth
<1>5. Level(o) = Level(p)
  <2>1. CASE Decl(o) \in GlobalUnique
    <3>1. Owner[Decl(o)] \notin Funs \cup {Gen}
      BY <2>1, GlobalUniqueIs, OwnerAssumption
    <3> QED
      BY <1>2, <3>1, ObjectsAre
  <2>2. ASSUME NEW f \in Funs \cup {Gen}, Decl(o) \in LocalsOf(f)
        PROVE  Level(o) = Level(p)
    <3>1. /\ Level(o) \in 1 .. Depth /\ stack[Level(o)] = f
          /\ \A k \in 1 .. Depth : stack[k] = f => k <= Level(o)
      BY <1>1, <1>2, <1>6, <2>2, OneActivation, LevelsAged
    <3>2. /\ Level(p) \in 1 .. Depth /\ stack[Level(p)] = f
          /\ \A k \in 1 .. Depth : stack[k] = f => k <= Level(p)
      BY <1>1, <1>2, <1>6, <2>2, OneActivation, LevelsAged
    <3> QED
      BY <3>1, <3>2
  <2> QED
    BY <1>1, <2>1, <2>2 DEF LocalsKnown
<1> QED
  BY <1>2, <1>4, <1>5, ObjectsAre

----------------------------------------------------------------------------
(***************************************************************************)
(* The steps keep the invariant.                                           *)
(***************************************************************************)
\* The call graph and the sets stay as they are in a run.
LEMMA RunKeeps ==
  ASSUME LocalsInv, phase = "run",
         UNCHANGED <<phase, program, preds, waiting, truly, unique>>,
         StackSound(stack'), StoreSound(stack', store', Levels)
  PROVE  LocalsInv'
<1>1. calls' = calls /\ pt' = pt /\ preds' = preds /\ phase' = "run"
  BY DEF program
<1>2. CallsSound'
  BY <1>1 DEF LocalsInv, CallsSound, ProgramType, Callers
<1>3. GlobalClosure' = GlobalClosure
  BY <1>1 DEF GlobalClosure, PointedTo, Reachable
<1>4. \A f : ParamClosure(f)' = ParamClosure(f)
  BY <1>1, <1>3 DEF ParamClosure, PointedTo, Reachable
<1>5. \A f : Public(f)' = Public(f)
  BY <1>3, <1>4 DEF Public
<1>6. Named' = Named
  BY <1>3 DEF Named
<1>7. \A f : LocalsOf(f)' = LocalsOf(f)
  BY <1>1, <1>3, <1>4 DEF LocalsOf, Recursive
<1>8. LocalsKnown'
  BY <1>1, <1>7 DEF LocalsInv, LocalsKnown
<1>9. StackSound(stack)'
  BY <1>1 DEF StackSound
<1>10. StoreSound(stack, store, Levels)'
  BY <1>1, <1>5, <1>6 DEF StoreSound, Aged, Levels, Alive, Passed, Allowed
<1> QED
  BY <1>2, <1>8, <1>9, <1>10 DEF LocalsInv

LEMMA SolveCallsKeeps ==
  ASSUME LocalsInv, SolveCalls
  PROVE  LocalsInv'
<1>1. PICK f \in waiting : preds' = Grown(f) /\ waiting' = (waiting \ {f}) \cup Woken(f)
  BY DEF SolveCalls
<1>2. calls' = calls /\ pt' = pt /\ phase' = "calls" /\ phase = "calls"
  BY DEF SolveCalls, program
<1>3. /\ f \in Funs /\ calls \in [Funs -> SUBSET Funs] /\ preds \in [Funs -> SUBSET Funs]
      /\ waiting \subseteq Funs
  BY DEF LocalsInv, CallsSound, ProgramType
<1>4. /\ preds' \in [Funs -> SUBSET Funs]
      /\ \A g \in Funs : preds'[g] = IF g \in calls[f] THEN preds[g] \cup preds[f] ELSE preds[g]
  BY <1>1, <1>3 DEF Grown
<1>5. waiting' \subseteq Funs
  BY <1>1, <1>3 DEF Woken
<1>6. \A g \in Funs : Callers(g)' \subseteq preds'[g]
  BY <1>2, <1>4 DEF LocalsInv, CallsSound, Callers
<1>7. ASSUME NEW e \in Funs \ waiting', NEW g \in calls'[e]
      PROVE  preds'[e] \subseteq preds'[g]
  <2>1. g \in Funs /\ g \in calls[e]
    BY <1>2, <1>3, <1>7
  <2>2. preds'[e] = preds[e]
    <3>1. CASE Grown(f) = preds
      BY <1>1, <3>1
    <3>2. CASE Grown(f) # preds
      BY <1>1, <1>4, <1>7, <3>2 DEF Woken
    <3> QED
      BY <3>1, <3>2
  <2>3. CASE e = f
    BY <1>4, <2>1, <2>2, <2>3
  <2>4. CASE e # f
    <3>1. preds[e] \subseteq preds[g]
      BY <1>1, <1>7, <2>1, <2>4 DEF LocalsInv, CallsSound
    <3> QED
      BY <1>4, <2>1, <2>2, <3>1
  <2> QED
    BY <2>3, <2>4
<1>8. ASSUME NEW e \in Funs, NEW g \in preds'[e]
      PROVE  e \in Least(Funs, calls, calls[g])
  <2>1. CASE g \in preds[e]
    BY <2>1 DEF LocalsInv, CallsSound
  <2>2. CASE e \in calls[f] /\ g \in preds[f]
    <3> DEFINE direct == calls[g]
    <3>1. g \in Funs /\ direct \in SUBSET Funs /\ IsFiniteSet(Funs)
      BY <1>3, <2>2, FiniteAssumption
    <3>2. f \in Least(Funs, calls, direct)
      BY <1>3, <2>2 DEF LocalsInv, CallsSound
    <3> HIDE DEF direct
    <3>3. Closed(calls, Least(Funs, calls, direct))
      BY <1>3, <3>1, LeastIs
    <3>4. e \in Least(Funs, calls, direct)
      BY <2>2, <3>2, <3>3 DEF Closed
    <3> QED
      BY <3>4 DEF direct
  <2> QED
    BY <1>4, <1>8, <2>1, <2>2
<1>9. CallsSound'
  BY <1>2, <1>3, <1>4, <1>5, <1>6, <1>7, <1>8 DEF LocalsInv, CallsSound, ProgramType
<1> QED
  BY <1>2, <1>9 DEF LocalsInv

LEMMA CallsDoneKeeps ==
  ASSUME LocalsInv, CallsDone
  PROVE  LocalsInv'
BY DEF LocalsInv, CallsSound, ProgramType, Callers, CallsDone, program

LEMMA TrulyLocalKeeps ==
  ASSUME LocalsInv, TrulyLocal
  PROVE  LocalsInv'
<1>1. /\ calls' = calls /\ pt' = pt /\ preds' = preds /\ waiting' = waiting
      /\ phase = "locals" /\ phase' = "run"
      /\ truly' = [f \in Funs \cup {Gen} |-> LocalsOf(f)]
      /\ unique' = {d \in UNION Range(truly') : ~ InArray(d)} \cup GlobalUnique
      /\ stack' = <<Gen>> /\ store' = [o \in Objects |-> {}]
  BY DEF TrulyLocal, program, Objects
<1>2. CallsSound'
  BY <1>1 DEF LocalsInv, CallsSound, ProgramType, Callers
<1>3. GlobalClosure' = GlobalClosure
  BY <1>1 DEF GlobalClosure, PointedTo, Reachable
<1>4. \A f : ParamClosure(f)' = ParamClosure(f)
  BY <1>1, <1>3 DEF ParamClosure, PointedTo, Reachable
<1>5. \A f : LocalsOf(f)' = LocalsOf(f)
  BY <1>1, <1>3, <1>4 DEF LocalsOf, Recursive
<1>6. LocalsKnown'
  <2>1. Range(truly') = {LocalsOf(f) : f \in Funs \cup {Gen}}
    BY <1>1 DEF Range
  <2> QED
    BY <1>1, <1>5, <2>1 DEF LocalsKnown
<1>7. StackSound(stack)'
  BY <1>1, FiniteAssumption DEF StackSound
<1>8. StoreSound(stack, store, Levels)'
  BY <1>1, LevelsAged DEF StoreSound, Levels
<1> QED
  BY <1>2, <1>6, <1>7, <1>8 DEF LocalsInv

LEMMA AssignKeeps ==
  ASSUME LocalsInv, Assign
  PROVE  LocalsInv'
<1>1. PICK o \in InReach, p \in InReach : Allowed(o, p) /\ store' = [store EXCEPT ![o] = {p}]
  BY DEF Assign
<1>2. phase = "run" /\ stack' = stack /\ UNCHANGED <<phase, program, preds, waiting, truly, unique>>
  BY DEF Assign
<1>3. ProgramType /\ StackSound(stack) /\ StoreSound(stack, store, Levels)
  BY <1>2 DEF LocalsInv, CallsSound
<1>4. p \in Meetable(stack, Levels, Depth) /\ o \in Objects /\ Alive(stack, Levels, o) /\ Levels[o] = Level(o)
  BY <1>3, Reached DEF Meetable, Levels
<1>5. DOMAIN store = Objects /\ Level(o) <= Depth
  BY <1>3, <1>4 DEF StoreSound, Alive, Depth
<1>6. DOMAIN store' = Objects /\ \A x \in Objects : store'[x] = IF x = o THEN {p} ELSE store[x]
  BY <1>1, <1>5
<1>7. StoreSound(stack, store', Levels)
  BY <1>1, <1>3, <1>4, <1>5, <1>6, StoreChanged
<1> QED
  BY <1>2, <1>3, <1>7, RunKeeps

\* The arguments are public to the function that is called: the formal
\* parameters point to them.
LEMMA CallKeeps ==
  ASSUME LocalsInv, Call
  PROVE  LocalsInv'
<1>1. phase = "run" /\ Depth < MaxDepth /\ UNCHANGED <<phase, program, preds, waiting, truly, unique>>
  BY DEF Call
<1>2. PICK f \in (IF Last(stack) = Gen THEN Funs ELSE calls[Last(stack)]) :
        LET formals == UNION {Instances(d, Depth + 1) : d \in TopLevel(f) \cap Params}
            actuals == {{}} \cup {{p} : p \in InReach}
        IN \E arg \in [formals -> actuals] :
             /\ \A o \in formals : \A p \in arg[o] : Allowed(o, p)
             /\ stack' = Append(stack, f)
             /\ store' = [o \in DOMAIN store |-> IF o \in formals THEN arg[o] ELSE store[o]]
  BY DEF Call
<1> DEFINE formals == UNION {Instances(d, Depth + 1) : d \in TopLevel(f) \cap Params}
           actuals == {{}} \cup {{p} : p \in InReach}
<1>3. PICK arg \in [formals -> actuals] :
        /\ \A o \in formals : \A p \in arg[o] : Allowed(o, p)
        /\ stack' = Append(stack, f)
        /\ store' = [o \in DOMAIN store |-> IF o \in formals THEN arg[o] ELSE store[o]]
  BY <1>2
<1>4. ProgramType /\ CallsSound /\ StackSound(stack) /\ StoreSound(stack, store, Levels) /\ waiting = {}
  BY <1>1 DEF LocalsInv, CallsSound
<1>5. /\ Depth \in 1 .. MaxDepth /\ MaxDepth \in Nat /\ Depth \in Nat /\ Depth + 1 \in 0 .. MaxDepth
      /\ Last(stack) = stack[Depth] /\ Last(stack) \in Funs \cup {Gen}
  BY <1>1, <1>4, FiniteAssumption DEF StackSound, Depth, Last
<1>6. /\ f \in Funs
      /\ Depth > 1 => f \in calls[stack[Depth]]
  BY <1>2, <1>4, <1>5, OwnerAssumption DEF StackSound, ProgramType, Depth
<1>7. \A o \in formals : Level(o) = Depth + 1 /\ Decl(o) \in TopLevel(f) \cap Params
  BY <1>5, ObjectsAre DEF TopLevel, Roots
<1>8. DOMAIN store' = Objects /\ \A x \in Objects : store'[x] = IF x \in formals THEN arg[x] ELSE store[x]
  BY <1>3, <1>4 DEF StoreSound
<1>9. ASSUME NEW x \in formals, NEW p \in arg[x]
      PROVE  p \in Meetable(stack, Levels, Depth) /\ Allowed(x, p) /\ Decl(p) \in Public(f)
  <2>1. p \in Meetable(stack, Levels, Depth) /\ Allowed(x, p)
    BY <1>3, <1>4, <1>9, Reached
  <2> QED
    BY <1>4, <1>6, <1>7, <2>1, PublicIs DEF ProgramType, Allowed
<1> HIDE DEF formals, actuals
<1>10. StackSound(stack') /\ StoreSound(stack', store', Levels)
  BY <1>1, <1>3, <1>4, <1>6, <1>7, <1>8, <1>9, PushSound
<1> QED
  BY <1>1, <1>10, RunKeeps

\* The objects of the activation that ends are gone, and the caller gets
\* what it may have had hold of before.
LEMMA ReturnKeeps ==
  ASSUME LocalsInv, Return
  PROVE  LocalsInv'
<1> DEFINE alive(S) == {p \in S : Level(p) < Depth}
           kept == [o \in DOMAIN store |-> IF Level(o) < Depth THEN alive(store[o]) ELSE {}]
<1>1. /\ phase = "run" /\ Depth > 1 /\ stack' = Front(stack)
      /\ UNCHANGED <<phase, program, preds, waiting, truly, unique>>
      /\ \/ store' = kept
         \/ \E o \in alive(DOMAIN store), p \in alive(InReach) :
              /\ Allowed(o, p)
              /\ Level(o) # 0 => Level(o) = Depth - 1 /\ Owner[Decl(o)] = stack[Depth - 1]
              /\ store' = [kept EXCEPT ![o] = {p}]
  BY DEF Return
<1>2. ProgramType /\ StackSound(stack) /\ StoreSound(stack, store, Levels)
  BY <1>1 DEF LocalsInv, CallsSound
<1>3. StackSound(stack')
  BY <1>1, <1>2, PopStack
<1>4. Depth \in 2 .. MaxDepth /\ DOMAIN store = Objects /\ \A o \in Objects : Level(o) \in Nat
  BY <1>1, <1>2, ObjectsAre, FiniteAssumption DEF StackSound, StoreSound, Depth
<1>5. Sunk(Levels, Depth) = Levels
  BY <1>4 DEF Sunk, Levels
<1>6. kept = Kept(store, Depth)
  BY DEF Kept
<1>7. StoreSound(stack', kept, Levels)
  <2> HIDE DEF kept
  <2> QED
    BY <1>1, <1>2, <1>5, <1>6, PopSound
<1>8. ASSUME NEW o \in alive(DOMAIN store), NEW p \in alive(InReach), Allowed(o, p)
      PROVE  StoreSound(stack', [kept EXCEPT ![o] = {p}], Levels)
  <2> DEFINE st == [store EXCEPT ![o] = {p}]
             new == [kept EXCEPT ![o] = {p}]
  <2>1. o \in Objects /\ Level(o) < Depth /\ p \in Meetable(stack, Levels, Depth) /\ Level(p) < Depth
    BY <1>2, <1>4, <1>8, Reached
  <2>2. DOMAIN st = Objects /\ \A x \in Objects : st[x] = IF x = o THEN {p} ELSE store[x]
    BY <1>4
  <2>3. Level(o) <= Depth
    BY <1>4, <2>1
  <2> HIDE DEF st
  <2>4. StoreSound(stack, st, Levels)
    BY <1>2, <1>8, <2>1, <2>2, <2>3, StoreChanged
  <2>5. DOMAIN new = Objects /\ DOMAIN kept = Objects
    BY <1>4
  <2>6. ASSUME NEW x \in Objects
        PROVE  new[x] = IF Level(x) < Depth THEN {q \in st[x] : Level(q) < Depth} ELSE {}
    <3>1. CASE x = o
      BY <2>1, <2>2, <2>5, <3>1
    <3>2. CASE x # o
      BY <1>4, <2>2, <2>5, <3>2
    <3> QED
      BY <3>1, <3>2
  <2>7. new = Kept(st, Depth)
    <3> HIDE DEF kept
    <3> QED
      BY <2>2, <2>5, <2>6 DEF Kept
  <2> HIDE DEF new
  <2>8. StoreSound(stack', new, Levels)
    BY <1>1, <1>2, <1>5, <2>4, <2>7, PopSound
  <2> QED
    BY <2>8 DEF new
<1>9. StoreSound(stack', store', Levels)
  <2> HIDE DEF kept
  <2> QED
    BY <1>1, <1>7, <1>8
<1> QED
  BY <1>1, <1>3, <1>9, RunKeeps

LEMMA InitKeeps == Init => LocalsInv
<1> SUFFICES ASSUME Init
             PROVE  LocalsInv
  OBVIOUS
<1>1. PICK P \in Programs : calls = P[1] /\ pt = P[2]
  BY DEF Init
<1>2. /\ ProgramType /\ phase = "calls" /\ waiting = Funs
      /\ preds = [f \in Funs |-> Callers(f)]
  BY <1>1, ProgramsAssumption DEF Init, ProgramType
<1>3. preds \in [Funs -> SUBSET Funs]
  BY <1>2 DEF Callers
<1>4. ASSUME NEW f \in Funs, NEW g \in preds[f]
      PROVE  f \in Least(Funs, calls, calls[g])
  <2> DEFINE direct == calls[g]
  <2>1. g \in Funs /\ f \in direct
    BY <1>2, <1>4 DEF Callers
  <2>2. direct \in SUBSET Funs /\ calls \in [Funs -> SUBSET Funs] /\ IsFiniteSet(Funs)
    BY <1>2, <2>1, FiniteAssumption DEF ProgramType
  <2> HIDE DEF direct
  <2>3. direct \subseteq Least(Funs, calls, direct)
    BY <2>2, LeastIs
  <2> QED
    BY <2>1, <2>3 DEF direct
<1> QED
  BY <1>2, <1>3, <1>4 DEF LocalsInv, CallsSound

LEMMA NextKeeps == LocalsInv /\ [Next]_vars => LocalsInv'
<1> SUFFICES ASSUME LocalsInv, [Next]_vars
             PROVE  LocalsInv'
  OBVIOUS
<1>1. CASE SolveCalls
  BY <1>1, SolveCallsKeeps
<1>2. CASE CallsDone
  BY <1>2, CallsDoneKeeps
<1>3. CASE TrulyLocal
  BY <1>3, TrulyLocalKeeps
<1>4. CASE Assign
  BY <1>4, AssignKeeps
<1>5. CASE Call
  BY <1>5, CallKeeps
<1>6. CASE Return
  BY <1>6, ReturnKeeps
<1>7. CASE UNCHANGED vars
  <2>1. calls' = calls /\ pt' = pt /\ UNCHANGED <<phase, program, preds, waiting, truly, unique>>
    BY <1>7 DEF vars, program
  <2>2. stack' = stack /\ store' = store
    BY <1>7 DEF vars
  <2>3. CASE phase = "run"
    BY <2>1, <2>2, <2>3, RunKeeps DEF LocalsInv
  <2>4. CASE phase # "run"
    <3>1. CallsSound'
      BY <2>1 DEF LocalsInv, CallsSound, ProgramType, Callers
    <3> QED
      BY <2>1, <2>4, <3>1 DEF LocalsInv
  <2> QED
    BY <2>3, <2>4
<1> QED
  BY <1>1, <1>2, <1>3, <1>4, <1>5, <1>6, <1>7 DEF Next, Run

\* The callers of a function are exactly those that lead to it (mkCallGraph),
\* and whatever a run of the program does with its pointers, an object of a
\* truly local declaration that a function gets hold of is its own, and what
\* is said to be a single object is one (TrulyLocal).
THEOREM LocalsAlwaysOwn == Spec => []LocalsAreOwn
<1>1. LocalsInv => LocalsAreOwn
  <2> SUFFICES ASSUME LocalsInv
               PROVE  LocalsAreOwn
    OBVIOUS
  <2>1. CallersAreFound
    BY CallersFollow DEF LocalsInv, CallersAreFound
  <2> QED
    BY <2>1, TrulyLocalsFollow, UniqueFollows DEF LocalsAreOwn
<1> QED
  BY <1>1, InitKeeps, NextKeeps, PTL DEF Spec

----------------------------------------------------------------------------
(***************************************************************************)
(* The code, and the sets that belong to it.                               *)
(***************************************************************************)
CodeKnown == <<calls, pt>> \in Programs /\ code \in Codes(<<calls, pt>>) \ {NoCode}

LEMMA CodeIs ==
  ASSUME CodeKnown
  PROVE  /\ ProgramType /\ DOMAIN code = Funs \cup {Gen}
         /\ \A f \in DOMAIN code : /\ Len(code[f]) \in Nat /\ DOMAIN code[f] = 1 .. Len(code[f])
                                   /\ 1 \in DOMAIN code[f]
         /\ \A f \in DOMAIN code : \A b \in DOMAIN code[f] :
              /\ Len(Stmts(f, b)) \in Nat /\ DOMAIN Stmts(f, b) = 1 .. Len(Stmts(f, b))
              /\ \A i \in DOMAIN Stmts(f, b) : /\ IsStmt(Stmts(f, b)[i], f, <<calls, pt>>)
                                               /\ Returned(<<calls, pt>>, code, Stmts(f, b)[i])
              /\ \A e \in Jump(f, b).rhs : IsExpr(e, f)
              /\ Jump(f, b).to \subseteq DOMAIN code[f]
              /\ Jump(f, b).op = "return" <=> Jump(f, b).to = {}
<1> DEFINE P == <<calls, pt>>
<1>1. P \in Programs /\ IsCode(code, P)
  BY CodesAssumption DEF CodeKnown
<1>2. ProgramType
  BY <1>1, ProgramsAssumption DEF ProgramType
<1> HIDE DEF P
<1>3. DOMAIN code = Funs \cup {Gen}
  BY <1>1 DEF IsCode
<1>4. ASSUME NEW f \in DOMAIN code
      PROVE  /\ Len(code[f]) \in Nat /\ DOMAIN code[f] = 1 .. Len(code[f]) /\ 1 \in DOMAIN code[f]
             /\ \A b \in DOMAIN code[f] : code[f][b] \in Range(code[f])
  <2>1. code[f] # <<>> /\ code[f] \in Seq(Range(code[f]))
    BY <1>1 DEF IsCode
  <2> QED
    BY <2>1 DEF Range
<1>5. ASSUME NEW f \in DOMAIN code, NEW b \in DOMAIN code[f]
      PROVE  /\ Len(Stmts(f, b)) \in Nat /\ DOMAIN Stmts(f, b) = 1 .. Len(Stmts(f, b))
             /\ \A i \in DOMAIN Stmts(f, b) : IsStmt(Stmts(f, b)[i], f, P) /\ Returned(P, code, Stmts(f, b)[i])
             /\ \A e \in Jump(f, b).rhs : IsExpr(e, f)
             /\ Jump(f, b).to \subseteq DOMAIN code[f]
             /\ Jump(f, b).op = "return" <=> Jump(f, b).to = {}
  <2> DEFINE block == code[f][b]
  <2>1. block \in Range(code[f])
    BY <1>4
  <2>2. IsBlock(block, f, P, DOMAIN code[f]) /\ \A s \in Range(block.stmts) : Returned(P, code, s)
    BY <1>1, <2>1 DEF IsCode
  <2>3. Stmts(f, b) = block.stmts /\ Jump(f, b) = block.jump
    BY DEF Stmts, Jump
  <2> HIDE DEF block
  <2>4. \A i \in DOMAIN Stmts(f, b) : Stmts(f, b)[i] \in Range(block.stmts)
    BY <2>3 DEF Range
  <2> QED
    BY <2>2, <2>3, <2>4 DEF IsBlock
<1> QED
  BY <1>2, <1>3, <1>4, <1>5 DEF P

Nodes == FunNodes \cup BlockNodes \cup StmtNodes \cup JumpNodes

LEMMA NodesAre ==
  ASSUME CodeKnown
  PROVE  /\ \A n : n \in FunNodes <=> n[1] \in DOMAIN code /\ n = <<n[1], 0, 0>>
         /\ \A n : n \in BlockNodes <=>
                     n[1] \in DOMAIN code /\ n[2] \in DOMAIN code[n[1]] /\ n = <<n[1], n[2], 0>>
         /\ \A n : n \in StmtNodes <=>
                     /\ n[1] \in DOMAIN code /\ n[2] \in DOMAIN code[n[1]] /\ n = <<n[1], n[2], n[3]>>
                     /\ n[3] \in 1 .. Len(Stmts(n[1], n[2]))
         /\ \A n : n \in JumpNodes <=>
                     /\ n[1] \in DOMAIN code /\ n[2] \in DOMAIN code[n[1]] /\ n = <<n[1], n[2], n[3]>>
                     /\ n[3] = Len(Stmts(n[1], n[2])) + 1
<1>1. \A n : n \in FunNodes <=> n[1] \in DOMAIN code /\ n = <<n[1], 0, 0>>
  BY DEF FunNodes
<1>2. \A n : n \in BlockNodes <=>
               n[1] \in DOMAIN code /\ n[2] \in DOMAIN code[n[1]] /\ n = <<n[1], n[2], 0>>
  BY DEF BlockNodes
<1>3. \A n : n \in StmtNodes <=>
               /\ n[1] \in DOMAIN code /\ n[2] \in DOMAIN code[n[1]] /\ n = <<n[1], n[2], n[3]>>
               /\ n[3] \in DOMAIN Stmts(n[1], n[2])
  <2>1. ASSUME NEW n \in StmtNodes
        PROVE  /\ n[1] \in DOMAIN code /\ n[2] \in DOMAIN code[n[1]] /\ n = <<n[1], n[2], n[3]>>
               /\ n[3] \in DOMAIN Stmts(n[1], n[2])
    <3>1. PICK c \in BlockNodes : n \in {<<c[1], c[2], i>> : i \in DOMAIN Stmts(c[1], c[2])}
      BY DEF StmtNodes
    <3>2. PICK i \in DOMAIN Stmts(c[1], c[2]) : n = <<c[1], c[2], i>>
      BY <3>1
    <3> QED
      BY <1>2, <3>1, <3>2
  <2>2. ASSUME NEW n, n[1] \in DOMAIN code, n[2] \in DOMAIN code[n[1]], n = <<n[1], n[2], n[3]>>,
               n[3] \in DOMAIN Stmts(n[1], n[2])
        PROVE  n \in StmtNodes
    <3> DEFINE c == <<n[1], n[2], 0>>
    <3>1. c \in BlockNodes /\ c[1] = n[1] /\ c[2] = n[2]
      BY <2>2 DEF BlockNodes
    <3> HIDE DEF c
    <3>2. n \in {<<c[1], c[2], i>> : i \in DOMAIN Stmts(c[1], c[2])}
      BY <2>2, <3>1
    <3> QED
      BY <3>1, <3>2 DEF StmtNodes
  <2> QED
    BY <2>1, <2>2
<1>4. ASSUME NEW n
      PROVE  n \in JumpNodes <=>
               /\ n[1] \in DOMAIN code /\ n[2] \in DOMAIN code[n[1]] /\ n = <<n[1], n[2], n[3]>>
               /\ n[3] = Len(Stmts(n[1], n[2])) + 1
  <2>1. ASSUME n \in JumpNodes
        PROVE  /\ n[1] \in DOMAIN code /\ n[2] \in DOMAIN code[n[1]] /\ n = <<n[1], n[2], n[3]>>
               /\ n[3] = Len(Stmts(n[1], n[2])) + 1
    <3>1. PICK c \in BlockNodes : n = <<c[1], c[2], Len(Stmts(c[1], c[2])) + 1>>
      BY <2>1 DEF JumpNodes
    <3> QED
      BY <1>2, <3>1
  <2>2. ASSUME n[1] \in DOMAIN code, n[2] \in DOMAIN code[n[1]], n = <<n[1], n[2], n[3]>>,
               n[3] = Len(Stmts(n[1], n[2])) + 1
        PROVE  n \in JumpNodes
    <3> DEFINE c == <<n[1], n[2], 0>>
    <3>1. c \in BlockNodes /\ c[1] = n[1] /\ c[2] = n[2]
      BY <2>2 DEF BlockNodes
    <3> HIDE DEF c
    <3> QED
      BY <2>2, <3>1 DEF JumpNodes
  <2> QED
    BY <2>1, <2>2
<1> QED
  BY <1>1, <1>2, <1>3, <1>4, CodeIs

\* A node is of one kind.
LEMMA NodesDiffer ==
  ASSUME CodeKnown
  PROVE  /\ FunNodes \cap BlockNodes = {} /\ FunNodes \cap (StmtNodes \cup JumpNodes) = {}
         /\ BlockNodes \cap (StmtNodes \cup JumpNodes) = {} /\ StmtNodes \cap JumpNodes = {}
         /\ CallNodes \subseteq StmtNodes
<1>1. \A n \in FunNodes : n[2] = 0
  BY NodesAre
<1>2. \A n \in BlockNodes \cup StmtNodes \cup JumpNodes : n[2] \in Nat /\ n[2] # 0
  BY NodesAre, CodeIs
<1>3. \A n \in BlockNodes : n[3] = 0
  BY NodesAre
<1>4. \A n \in StmtNodes : n[3] \in Nat /\ n[3] # 0 /\ n[3] <= Len(Stmts(n[1], n[2])) /\ Len(Stmts(n[1], n[2])) \in Nat
  BY NodesAre, CodeIs
<1>5. \A n \in JumpNodes : n[3] # 0 /\ n[3] = Len(Stmts(n[1], n[2])) + 1 /\ Len(Stmts(n[1], n[2])) \in Nat
  BY NodesAre, CodeIs
<1> QED
  BY <1>1, <1>2, <1>3, <1>4, <1>5 DEF CallNodes

\* Where a node leads to, there is a node.
LEMMA NodesLead ==
  ASSUME CodeKnown
  PROVE  /\ \A n \in FunNodes : Body(n) \in BlockNodes
         /\ \A n \in BlockNodes \cup StmtNodes : Following(n) \in StmtNodes \cup JumpNodes
         /\ \A n \in BlockNodes : Within(n) \subseteq StmtNodes \cup JumpNodes
         /\ \A n \in CallNodes : Called(n) \subseteq FunNodes
         /\ \A n \in JumpNodes : Targets(n) \subseteq BlockNodes
<1>1. ASSUME NEW n \in FunNodes
      PROVE  Body(n) \in BlockNodes
  <2>1. n[1] \in DOMAIN code /\ 1 \in DOMAIN code[n[1]]
    BY NodesAre, CodeIs
  <2> QED
    BY <2>1, NodesAre DEF Body
<1>2. ASSUME NEW n \in BlockNodes \cup StmtNodes
      PROVE  Following(n) \in StmtNodes \cup JumpNodes
  <2> DEFINE f == n[1]
             b == n[2]
             i == n[3] + 1
  <2>1. /\ f \in DOMAIN code /\ b \in DOMAIN code[f] /\ Len(Stmts(f, b)) \in Nat
        /\ i \in 1 .. Len(Stmts(f, b)) + 1
    BY NodesAre, CodeIs
  <2>2. Following(n) = <<f, b, i>>
    BY DEF Following
  <2> HIDE DEF f, b, i
  <2>3. CASE i \in 1 .. Len(Stmts(f, b))
    BY <2>1, <2>2, <2>3, NodesAre
  <2>4. CASE i = Len(Stmts(f, b)) + 1
    BY <2>1, <2>2, <2>4, NodesAre
  <2> QED
    BY <2>1, <2>3, <2>4
<1>3. \A n : Within(n) \subseteq StmtNodes \cup JumpNodes
  BY DEF Within
<1>4. ASSUME NEW n \in CallNodes, NEW m \in Called(n)
      PROVE  m \in FunNodes
  <2>1. /\ n \in StmtNodes /\ StmtAt(n).op = "call"
        /\ n[1] \in DOMAIN code /\ n[2] \in DOMAIN code[n[1]] /\ n[3] \in DOMAIN Stmts(n[1], n[2])
    BY NodesAre, CodeIs DEF CallNodes
  <2>2. IsStmt(StmtAt(n), n[1], <<calls, pt>>)
    BY <2>1, CodeIs DEF StmtAt
  <2>3. FunDfs(StmtAt(n)) \subseteq Funs
    BY <2>1, <2>2 DEF IsStmt
  <2>4. PICK g \in FunDfs(StmtAt(n)) : m = <<g, 0, 0>>
    BY <1>4 DEF Called
  <2> QED
    BY <2>3, <2>4, CodeIs DEF FunNodes
<1>5. ASSUME NEW n \in JumpNodes, NEW m \in Targets(n)
      PROVE  m \in BlockNodes
  <2>1. PICK b \in Jump(n[1], n[2]).to : m = <<n[1], b, 0>>
    BY <1>5 DEF Targets
  <2>2. n[1] \in DOMAIN code /\ n[2] \in DOMAIN code[n[1]]
    BY NodesAre
  <2>3. b \in DOMAIN code[n[1]]
    BY <2>1, <2>2, CodeIs
  <2> QED
    BY <2>1, <2>2, <2>3, NodesAre
<1> QED
  BY <1>1, <1>2, <1>3, <1>4, <1>5

SetNames == ({"Wdef", "Wmay", "Use"} \X Nodes) \cup ({"called"} \X CallNodes) \cup ({"after"} \X StmtNodes)

\* Constraints on sets of some kinds.
IsName(y, kinds) == y \in SetNames /\ y[1] \in kinds

ConOn(v, kinds) ==
  /\ v.form \in {"union", "include", "superset", "subset"}
  /\ IsName(v.x, kinds) /\ \A y \in v.ys : IsName(y, kinds)

ConsOn(S, kinds) == (\A v \in S : ConOn(v, kinds)) /\ \A u, v \in S : u.x = v.x => u = v

\* What the parts of a constraint are.
LEMMA ConIs ==
  \A x, form, ys, w : LET v == Con(x, form, ys, w)
                      IN  v.x = x /\ v.form = form /\ v.ys = ys /\ v.with = w
BY DEF Con

LEMMA WdefConsAre ==
  ASSUME CodeKnown
  PROVE  /\ ConsOn(WdefCons, {"Wdef", "called"})
         /\ \A v \in WdefCons : \A n \in (StmtNodes \ CallNodes) \cup {m \in JumpNodes : Targets(m) = {}} :
              v.x # <<"Wdef", n>>
<1> DEFINE F(n) == Con(<<"Wdef", n>>, "include", {<<"Wdef", Body(n)>>}, truly[n[1]])
           B(n) == Con(<<"Wdef", n>>, "union", Of("Wdef", Within(n)), {})
           C(n) == Con(<<"Wdef", n>>, "union", {<<"called", n>>}, Kills(StmtAt(n)))
           D(n) == Con(<<"called", n>>, "subset", Of("Wdef", Called(n)),
                       IF ExtFuns(StmtAt(n)) = {} THEN Everything ELSE {})
           J(n) == Con(<<"Wdef", n>>, "subset", Of("Wdef", Targets(n)), Everything)
<1>1. \A v \in WdefCons : \/ \E n \in FunNodes : v = F(n)
                          \/ \E n \in BlockNodes : v = B(n)
                          \/ \E n \in CallNodes : v = C(n)
                          \/ \E n \in CallNodes : v = D(n)
                          \/ \E n \in JumpNodes : v = J(n) /\ Targets(n) # {}
  BY DEF WdefCons
<1>2. \A n : /\ F(n).x = <<"Wdef", n>> /\ F(n).form = "include" /\ (\A y \in F(n).ys : y = <<"Wdef", Body(n)>>)
             /\ B(n).x = <<"Wdef", n>> /\ B(n).form = "union" /\ (\A y \in B(n).ys : \E m \in Within(n) : y = <<"Wdef", m>>)
             /\ C(n).x = <<"Wdef", n>> /\ C(n).form = "union" /\ (\A y \in C(n).ys : y = <<"called", n>>)
             /\ D(n).x = <<"called", n>> /\ D(n).form = "subset" /\ (\A y \in D(n).ys : \E m \in Called(n) : y = <<"Wdef", m>>)
             /\ J(n).x = <<"Wdef", n>> /\ J(n).form = "subset" /\ (\A y \in J(n).ys : \E m \in Targets(n) : y = <<"Wdef", m>>)
  BY ConIs DEF Of
<1> HIDE DEF F, B, C, D, J
<1>3. /\ \A n \in Nodes : IsName(<<"Wdef", n>>, {"Wdef", "called"})
      /\ \A n \in CallNodes : IsName(<<"called", n>>, {"Wdef", "called"})
  BY DEF SetNames, IsName
<1>4. /\ FunNodes \subseteq Nodes /\ BlockNodes \subseteq Nodes /\ CallNodes \subseteq Nodes /\ JumpNodes \subseteq Nodes
      /\ \A n \in FunNodes : Body(n) \in Nodes
      /\ \A n \in BlockNodes : Within(n) \subseteq Nodes
      /\ \A n \in CallNodes : Called(n) \subseteq Nodes
      /\ \A n \in JumpNodes : Targets(n) \subseteq Nodes
  BY NodesLead, NodesDiffer DEF Nodes
<1>5. ASSUME NEW v \in WdefCons
      PROVE  ConOn(v, {"Wdef", "called"})
  <2>1. ASSUME NEW n \in FunNodes
        PROVE  ConOn(F(n), {"Wdef", "called"})
    BY <1>2, <1>3, <1>4 DEF ConOn
  <2>2. ASSUME NEW n \in BlockNodes
        PROVE  ConOn(B(n), {"Wdef", "called"})
    <3>1. \A m \in Within(n) : m \in Nodes
      BY <1>4
    <3>2. \A y \in B(n).ys : IsName(y, {"Wdef", "called"})
      BY <1>2, <1>3, <3>1
    <3> QED
      BY <1>2, <1>3, <1>4, <3>2 DEF ConOn
  <2>3. ASSUME NEW n \in CallNodes
        PROVE  ConOn(C(n), {"Wdef", "called"})
    BY <1>2, <1>3, <1>4 DEF ConOn
  <2>4. ASSUME NEW n \in CallNodes
        PROVE  ConOn(D(n), {"Wdef", "called"})
    <3>1. \A m \in Called(n) : m \in Nodes
      BY <1>4
    <3>2. \A y \in D(n).ys : IsName(y, {"Wdef", "called"})
      BY <1>2, <1>3, <3>1
    <3> QED
      BY <1>2, <1>3, <1>4, <3>2 DEF ConOn
  <2>5. ASSUME NEW n \in JumpNodes
        PROVE  ConOn(J(n), {"Wdef", "called"})
    <3>1. \A m \in Targets(n) : m \in Nodes
      BY <1>4
    <3>2. \A y \in J(n).ys : IsName(y, {"Wdef", "called"})
      BY <1>2, <1>3, <3>1
    <3> QED
      BY <1>2, <1>3, <1>4, <3>2 DEF ConOn
  <2> QED
    BY <1>1, <2>1, <2>2, <2>3, <2>4, <2>5
<1>6. ASSUME NEW u \in WdefCons, NEW v \in WdefCons, u.x = v.x
      PROVE  u = v
  <2>1. \A n, m : <<"Wdef", n>> # <<"called", m>> /\ (<<"Wdef", n>> = <<"Wdef", m>> => n = m)
                  /\ (<<"called", n>> = <<"called", m>> => n = m)
    OBVIOUS
  <2>2. CASE \E n \in FunNodes : v = F(n)
    BY <1>1, <1>2, <1>6, <2>1, <2>2, NodesDiffer
  <2>3. CASE \E n \in BlockNodes : v = B(n)
    BY <1>1, <1>2, <1>6, <2>1, <2>3, NodesDiffer
  <2>4. CASE \E n \in CallNodes : v = C(n)
    BY <1>1, <1>2, <1>6, <2>1, <2>4, NodesDiffer
  <2>5. CASE \E n \in CallNodes : v = D(n)
    BY <1>1, <1>2, <1>6, <2>1, <2>5
  <2>6. CASE \E n \in JumpNodes : v = J(n)
    BY <1>1, <1>2, <1>6, <2>1, <2>6, NodesDiffer
  <2> QED
    BY <1>1, <2>2, <2>3, <2>4, <2>5, <2>6
<1>7. ASSUME NEW v \in WdefCons, NEW n \in (StmtNodes \ CallNodes) \cup {m \in JumpNodes : Targets(m) = {}}
      PROVE  v.x # <<"Wdef", n>>
  <2>1. \A k, m : <<"Wdef", k>> # <<"called", m>> /\ (<<"Wdef", k>> = <<"Wdef", m>> => k = m)
    OBVIOUS
  <2> QED
    BY <1>1, <1>2, <2>1, NodesDiffer
<1> QED
  BY <1>5, <1>6, <1>7 DEF ConsOn

\* What a statement may write at least, and what it has in use at least, is only added to.
LEMMA WmayConsAre ==
  ASSUME CodeKnown
  PROVE  /\ ConsOn(WmayCons, {"Wmay"})
         /\ \A v \in WmayCons : \A n \in StmtNodes : v.x = <<"Wmay", n>> => v.form = "superset"
<1> DEFINE F(n) == Con(<<"Wmay", n>>, "include", {<<"Wmay", Body(n)>>}, truly[n[1]])
           B(n) == Con(<<"Wmay", n>>, "superset", Of("Wmay", Within(n)), {})
           C(n) == Con(<<"Wmay", n>>, "superset", Of("Wmay", Called(n)), {})
           J(n) == Con(<<"Wmay", n>>, "superset", Of("Wmay", Targets(n)), {})
<1>1. \A v \in WmayCons : \/ \E n \in FunNodes : v = F(n)
                          \/ \E n \in BlockNodes : v = B(n)
                          \/ \E n \in CallNodes : v = C(n)
                          \/ \E n \in JumpNodes : v = J(n)
  BY DEF WmayCons
<1>2. \A n : /\ F(n).x = <<"Wmay", n>> /\ F(n).form = "include" /\ (\A y \in F(n).ys : y = <<"Wmay", Body(n)>>)
             /\ B(n).x = <<"Wmay", n>> /\ B(n).form = "superset" /\ (\A y \in B(n).ys : \E m \in Within(n) : y = <<"Wmay", m>>)
             /\ C(n).x = <<"Wmay", n>> /\ C(n).form = "superset" /\ (\A y \in C(n).ys : \E m \in Called(n) : y = <<"Wmay", m>>)
             /\ J(n).x = <<"Wmay", n>> /\ J(n).form = "superset" /\ (\A y \in J(n).ys : \E m \in Targets(n) : y = <<"Wmay", m>>)
  BY ConIs DEF Of
<1> HIDE DEF F, B, C, J
<1>3. /\ \A n \in Nodes : IsName(<<"Wmay", n>>, {"Wmay"})
  BY DEF SetNames, IsName
<1>4. /\ FunNodes \subseteq Nodes /\ BlockNodes \subseteq Nodes /\ CallNodes \subseteq Nodes /\ JumpNodes \subseteq Nodes
      /\ \A n \in FunNodes : Body(n) \in Nodes
      /\ \A n \in BlockNodes : Within(n) \subseteq Nodes
      /\ \A n \in CallNodes : Called(n) \subseteq Nodes
      /\ \A n \in JumpNodes : Targets(n) \subseteq Nodes
  BY NodesLead, NodesDiffer DEF Nodes
<1>5. ASSUME NEW v \in WmayCons
      PROVE  ConOn(v, {"Wmay"})
  <2>1. ASSUME NEW n \in FunNodes
        PROVE  ConOn(F(n), {"Wmay"})
    BY <1>2, <1>3, <1>4 DEF ConOn
  <2>2. ASSUME NEW n \in BlockNodes
        PROVE  ConOn(B(n), {"Wmay"})
    <3>1. \A m \in Within(n) : m \in Nodes
      BY <1>4
    <3>2. \A y \in B(n).ys : IsName(y, {"Wmay"})
      BY <1>2, <1>3, <3>1
    <3> QED
      BY <1>2, <1>3, <1>4, <3>2 DEF ConOn
  <2>3. ASSUME NEW n \in CallNodes
        PROVE  ConOn(C(n), {"Wmay"})
    <3>1. \A m \in Called(n) : m \in Nodes
      BY <1>4
    <3>2. \A y \in C(n).ys : IsName(y, {"Wmay"})
      BY <1>2, <1>3, <3>1
    <3> QED
      BY <1>2, <1>3, <1>4, <3>2 DEF ConOn
  <2>4. ASSUME NEW n \in JumpNodes
        PROVE  ConOn(J(n), {"Wmay"})
    <3>1. \A m \in Targets(n) : m \in Nodes
      BY <1>4
    <3>2. \A y \in J(n).ys : IsName(y, {"Wmay"})
      BY <1>2, <1>3, <3>1
    <3> QED
      BY <1>2, <1>3, <1>4, <3>2 DEF ConOn
  <2> QED
    BY <1>1, <2>1, <2>2, <2>3, <2>4
<1>6. \A n, m : <<"Wmay", n>> = <<"Wmay", m>> => n = m
  OBVIOUS
<1>7. ASSUME NEW u \in WmayCons, NEW v \in WmayCons, u.x = v.x
      PROVE  u = v
  <2>1. CASE \E n \in FunNodes : v = F(n)
    BY <1>1, <1>2, <1>6, <1>7, <2>1, NodesDiffer
  <2>2. CASE \E n \in BlockNodes : v = B(n)
    BY <1>1, <1>2, <1>6, <1>7, <2>2, NodesDiffer
  <2>3. CASE \E n \in CallNodes : v = C(n)
    BY <1>1, <1>2, <1>6, <1>7, <2>3, NodesDiffer
  <2>4. CASE \E n \in JumpNodes : v = J(n)
    BY <1>1, <1>2, <1>6, <1>7, <2>4, NodesDiffer
  <2> QED
    BY <1>1, <2>1, <2>2, <2>3, <2>4
<1>8. ASSUME NEW v \in WmayCons, NEW n \in StmtNodes, v.x = <<"Wmay", n>>
      PROVE  v.form = "superset"
  BY <1>1, <1>2, <1>6, <1>8, NodesDiffer
<1> QED
  BY <1>5, <1>7, <1>8 DEF ConsOn

LEMMA UseConsAre ==
  ASSUME CodeKnown
  PROVE  /\ ConsOn(UseCons, {"Use", "after"})
         /\ \A v \in UseCons : \A n \in StmtNodes \cup JumpNodes : v.x = <<"Use", n>> => v.form = "superset"
<1> DEFINE F(n) == Con(<<"Use", n>>, "superset", {<<"Use", Body(n)>>}, {})
           B(n) == Con(<<"Use", n>>, "superset", {<<"Use", Following(n)>>}, {})
           A(n) == Con(<<"after", n>>, "include", {<<"Use", Following(n)>>}, sets[<<"Wdef", n>>])
           ys(n) == {<<"after", n>>} \cup (IF n \in CallNodes THEN Of("Use", Called(n)) ELSE {})
           S(n) == Con(<<"Use", n>>, "superset", ys(n), {})
           J(n) == Con(<<"Use", n>>, "superset", Of("Use", Targets(n)), {})
<1>1. \A v \in UseCons : \/ \E n \in FunNodes : v = F(n)
                         \/ \E n \in BlockNodes : v = B(n)
                         \/ \E n \in StmtNodes : v = A(n)
                         \/ \E n \in StmtNodes : v = S(n)
                         \/ \E n \in JumpNodes : v = J(n)
  BY DEF UseCons
<1> HIDE DEF ys
<1>2. \A n : /\ F(n).x = <<"Use", n>> /\ F(n).form = "superset" /\ (\A y \in F(n).ys : y = <<"Use", Body(n)>>)
             /\ B(n).x = <<"Use", n>> /\ B(n).form = "superset" /\ (\A y \in B(n).ys : y = <<"Use", Following(n)>>)
             /\ A(n).x = <<"after", n>> /\ A(n).form = "include" /\ (\A y \in A(n).ys : y = <<"Use", Following(n)>>)
             /\ S(n).x = <<"Use", n>> /\ S(n).form = "superset" /\ S(n).ys = ys(n)
             /\ J(n).x = <<"Use", n>> /\ J(n).form = "superset" /\ (\A y \in J(n).ys : \E m \in Targets(n) : y = <<"Use", m>>)
  BY ConIs DEF Of
<1> HIDE DEF F, B, A, S, J
<1>3. /\ \A n \in Nodes : IsName(<<"Use", n>>, {"Use", "after"})
      /\ \A n \in StmtNodes : IsName(<<"after", n>>, {"Use", "after"})
  BY DEF SetNames, IsName
<1>4. /\ FunNodes \subseteq Nodes /\ BlockNodes \subseteq Nodes /\ StmtNodes \subseteq Nodes /\ JumpNodes \subseteq Nodes
      /\ \A n \in FunNodes : Body(n) \in Nodes
      /\ \A n \in BlockNodes \cup StmtNodes : Following(n) \in Nodes
      /\ \A n \in CallNodes : Called(n) \subseteq Nodes
      /\ \A n \in JumpNodes : Targets(n) \subseteq Nodes
  BY NodesLead, NodesDiffer DEF Nodes
<1>5. ASSUME NEW n \in StmtNodes
      PROVE  \A y \in ys(n) : IsName(y, {"Use", "after"})
  <2>1. CASE n \in CallNodes
    <3>1. \A y \in ys(n) : y = <<"after", n>> \/ \E m \in Called(n) : y = <<"Use", m>>
      BY <2>1 DEF ys, Of
    <3> QED
      BY <1>3, <1>4, <2>1, <3>1
  <2>2. CASE n \notin CallNodes
    BY <1>3, <2>2 DEF ys
  <2> QED
    BY <2>1, <2>2
<1>6. ASSUME NEW v \in UseCons
      PROVE  ConOn(v, {"Use", "after"})
  <2>1. ASSUME NEW n \in FunNodes
        PROVE  ConOn(F(n), {"Use", "after"})
    BY <1>2, <1>3, <1>4 DEF ConOn
  <2>2. ASSUME NEW n \in BlockNodes
        PROVE  ConOn(B(n), {"Use", "after"})
    BY <1>2, <1>3, <1>4 DEF ConOn
  <2>3. ASSUME NEW n \in StmtNodes
        PROVE  ConOn(A(n), {"Use", "after"})
    BY <1>2, <1>3, <1>4 DEF ConOn
  <2>4. ASSUME NEW n \in StmtNodes
        PROVE  ConOn(S(n), {"Use", "after"})
    BY <1>2, <1>3, <1>4, <1>5 DEF ConOn
  <2>5. ASSUME NEW n \in JumpNodes
        PROVE  ConOn(J(n), {"Use", "after"})
    <3>1. \A m \in Targets(n) : m \in Nodes
      BY <1>4
    <3>2. \A y \in J(n).ys : IsName(y, {"Use", "after"})
      BY <1>2, <1>3, <3>1
    <3> QED
      BY <1>2, <1>3, <1>4, <3>2 DEF ConOn
  <2> QED
    BY <1>1, <2>1, <2>2, <2>3, <2>4, <2>5
<1>7. \A n, m : /\ <<"Use", n>> # <<"after", m>>
                /\ <<"Use", n>> = <<"Use", m>> => n = m
                /\ <<"after", n>> = <<"after", m>> => n = m
  OBVIOUS
<1>8. ASSUME NEW u \in UseCons, NEW v \in UseCons, u.x = v.x
      PROVE  u = v
  <2>1. CASE \E n \in FunNodes : v = F(n)
    BY <1>1, <1>2, <1>7, <1>8, <2>1, NodesDiffer
  <2>2. CASE \E n \in BlockNodes : v = B(n)
    BY <1>1, <1>2, <1>7, <1>8, <2>2, NodesDiffer
  <2>3. CASE \E n \in StmtNodes : v = A(n)
    BY <1>1, <1>2, <1>7, <1>8, <2>3, NodesDiffer
  <2>4. CASE \E n \in StmtNodes : v = S(n)
    BY <1>1, <1>2, <1>7, <1>8, <2>4, NodesDiffer
  <2>5. CASE \E n \in JumpNodes : v = J(n)
    BY <1>1, <1>2, <1>7, <1>8, <2>5, NodesDiffer
  <2> QED
    BY <1>1, <2>1, <2>2, <2>3, <2>4, <2>5
<1>9. ASSUME NEW v \in UseCons, NEW n \in StmtNodes \cup JumpNodes, v.x = <<"Use", n>>
      PROVE  v.form = "superset"
  BY <1>1, <1>2, <1>7, <1>9, NodesDiffer
<1> QED
  BY <1>6, <1>8, <1>9 DEF ConsOn

----------------------------------------------------------------------------
(***************************************************************************)
(* The solvers.                                                            *)
(***************************************************************************)
\* A constraint holds, if it gives its set what that has already.
Holds(v) == sets[v.x] = Solved(v)

SolverSound ==
  /\ dirty \subseteq cons /\ DOMAIN stamp = cons
  /\ \E m \in Nat : \A v \in cons : stamp[v] \in 0 .. m
  /\ \A v \in cons \ dirty : Holds(v)

LEMMA FirstIs ==
  ASSUME SolverSound, NEW S \in SUBSET cons, S # {}
  PROVE  First(S) \in S
<1> DEFINE T == {stamp[v] : v \in S}
<1>1. T \in SUBSET Nat /\ T # {}
  BY DEF SolverSound
<1>2. Min(T) \in T /\ \A n \in T : Min(T) <= n
  BY <1>1, MinIs
<1>3. PICK v \in S : stamp[v] = Min(T)
  BY <1>2
<1>4. \A u \in S : stamp[v] <= stamp[u]
  BY <1>2, <1>3
<1> QED
  BY <1>3, <1>4 DEF First

LEMMA BeginKeeps ==
  ASSUME NEW S, Begin(S)
  PROVE  SolverSound' /\ cons' = S
BY DEF Begin, SolverSound

\* What a constraint gives depends on its own sets.
LEMMA SolvedSame ==
  ASSUME NEW v, sets'[v.x] = sets[v.x], \A y \in v.ys : sets'[y] = sets[y]
  PROVE  Solved(v)' = Solved(v)
<1>1. All(v.ys)' = All(v.ys)
  BY DEF All
<1>2. {d \in sets'[v.x] \cap v.with : \A y \in v.ys : d \in sets'[y]}
        = {d \in sets[v.x] \cap v.with : \A y \in v.ys : d \in sets[y]}
  OBVIOUS
<1> QED
  BY <1>1, <1>2 DEF Solved

\* A step changes one set, and wakes up the constraints that it is part of.
LEMMA SolveKeeps ==
  ASSUME DOMAIN sets = SetNames, SolverSound, NEW kinds, ConsOn(cons, kinds), SolveFlow
  PROVE  /\ SolverSound' /\ DOMAIN sets' = DOMAIN sets
         /\ \A x \in SetNames :
              /\ x[1] \notin kinds \/ (\A v \in cons : v.x # x) => sets'[x] = sets[x]
              /\ (\A v \in cons : v.x = x => v.form = "superset") => sets[x] \subseteq sets'[x]
<1> DEFINE con == First(dirty)
           changed == con.form \in {"union", "include"} \/ Solved(con) # sets[con.x]
           woken == IF changed THEN {u \in cons : con.x \in u.ys} ELSE {}
<1>1. /\ dirty # {} /\ cons' = cons
      /\ sets' = [sets EXCEPT ![con.x] = Solved(con)]
      /\ dirty' = (dirty \ {con}) \cup woken
      /\ stamp' = [stamp EXCEPT ![con] = 1 + Max(Range(stamp))]
  BY DEF SolveFlow
<1>2. con \in dirty /\ con \in cons
  BY <1>1, FirstIs DEF SolverSound
<1>3. ConOn(con, kinds) /\ \A v \in cons : v.x = con.x => v = con
  BY <1>2 DEF ConsOn
<1> HIDE DEF con
<1>4. con.x \in SetNames /\ con.x[1] \in kinds /\ con.form \in {"union", "include", "superset", "subset"}
  BY <1>3 DEF ConOn, IsName
<1>5. DOMAIN sets' = DOMAIN sets /\ \A x \in SetNames : sets'[x] = IF x = con.x THEN Solved(con) ELSE sets[x]
  BY <1>1, <1>4
<1>6. \E m \in Nat : \A v \in cons : stamp'[v] \in 0 .. m
  <2>1. PICK m \in Nat : \A v \in cons : stamp[v] \in 0 .. m
    BY DEF SolverSound
  <2> DEFINE T == Range(stamp)
  <2>2. T \in SUBSET (0 .. m) /\ T # {} /\ \A v \in cons : stamp[v] \in T
    BY <1>2, <2>1 DEF SolverSound, Range
  <2> HIDE DEF T
  <2>3. Max(T) \in T
    BY <2>2, GreatestIs
  <2>4. Max(T) \in 0 .. m
    BY <2>2, <2>3
  <2>5. \A v \in cons : stamp'[v] = IF v = con THEN 1 + Max(T) ELSE stamp[v]
    BY <1>1, <1>2 DEF SolverSound, T
  <2>6. m + 1 \in Nat /\ \A v \in cons : stamp'[v] \in 0 .. m + 1
    BY <2>1, <2>4, <2>5
  <2> QED
    BY <2>6
<1>7. ASSUME NEW v \in cons, v \notin dirty'
      PROVE  Holds(v)'
  <2>1. v \notin dirty \/ v = con
    BY <1>1, <1>7
  <2>2. CASE ~ changed
    <3>1. \A x \in SetNames : sets'[x] = sets[x]
      BY <1>5, <2>2
    <3>2. Holds(v)
      BY <2>1, <2>2, <1>2 DEF SolverSound, Holds
    <3>3. IsName(v.x, kinds) /\ \A y \in v.ys : IsName(y, kinds)
      BY DEF ConsOn, ConOn
    <3>4. sets'[v.x] = sets[v.x] /\ \A y \in v.ys : sets'[y] = sets[y]
      BY <3>1, <3>3 DEF IsName
    <3> QED
      BY <3>2, <3>4, SolvedSame DEF Holds
  <2>3. CASE changed
    <3>1. con.x \notin v.ys
      BY <1>1, <1>7, <2>3
    <3>2. ConOn(v, kinds)
      BY DEF ConsOn
    <3>3. \A y \in v.ys : y \in SetNames /\ y # con.x
      BY <3>1, <3>2 DEF ConOn, IsName
    <3>4. \A y \in v.ys : sets'[y] = sets[y]
      BY <1>5, <3>3
    <3>5. CASE v = con
      <4>1. sets'[con.x] = Solved(con)
        BY <1>4, <1>5
      <4>2. All(v.ys)' = All(v.ys)
        BY <3>4 DEF All
      <4>3. \A d, y : y \in v.ys => (d \in sets'[y] <=> d \in sets[y])
        BY <3>4
      <4>4. CASE con.form = "union"
        BY <3>5, <4>1, <4>2, <4>4 DEF Holds, Solved
      <4>5. CASE con.form = "include"
        BY <3>5, <4>1, <4>2, <4>5 DEF Holds, Solved
      <4>6. CASE con.form = "superset"
        BY <3>5, <4>1, <4>2, <4>6 DEF Holds, Solved
      <4>7. CASE con.form = "subset"
        BY <3>5, <4>1, <4>3, <4>7 DEF Holds, Solved
      <4> QED
        BY <1>4, <4>4, <4>5, <4>6, <4>7
    <3>6. CASE v # con
      <4>1. v.x # con.x /\ v.x \in SetNames
        BY <1>3, <3>2, <3>6 DEF ConOn, IsName
      <4>2. sets'[v.x] = sets[v.x]
        BY <1>5, <4>1
      <4>3. Holds(v)
        BY <2>1, <3>6 DEF SolverSound
      <4> QED
        BY <3>4, <4>2, <4>3, SolvedSame DEF Holds
    <3> QED
      BY <3>5, <3>6
  <2> QED
    BY <2>2, <2>3
<1>8. SolverSound'
  <2>1. dirty' \subseteq cons' /\ DOMAIN stamp' = cons'
    BY <1>1 DEF SolverSound
  <2> QED
    BY <1>1, <1>6, <1>7, <2>1 DEF SolverSound
<1>9. ASSUME NEW x \in SetNames, x[1] \notin kinds \/ (\A v \in cons : v.x # x)
      PROVE  sets'[x] = sets[x]
  BY <1>2, <1>4, <1>5, <1>9
<1>10. ASSUME NEW x \in SetNames, \A v \in cons : v.x = x => v.form = "superset"
       PROVE  sets[x] \subseteq sets'[x]
  <2>1. CASE x = con.x
    <3>1. Solved(con) = sets[x] \cup All(con.ys)
      BY <1>2, <1>10, <2>1 DEF Solved
    <3> QED
      BY <1>5, <2>1, <3>1
  <2>2. CASE x # con.x
    BY <1>5, <2>2
  <2> QED
    BY <2>1, <2>2
<1> QED
  BY <1>5, <1>8, <1>9, <1>10

\* What the analyses start from.
MayWrite(s) == (UNION {SubObjects(PT(e)) : e \in Target(s)}) \cup UNION {ExtWrites[g] : g \in ExtFuns(s)}
Needs(s)    == DFexpr(Target(s) \cup Evaluated(s)) \cup UNION {ExtReads[g] : g \in ExtFuns(s)}

LEMMA StartIs ==
  ASSUME CodeKnown
  PROVE  /\ DOMAIN Start = SetNames
         /\ \A n \in StmtNodes \ CallNodes : Start[<<"Wdef", n>>] = Kills(StmtAt(n))
         /\ \A n \in JumpNodes : Targets(n) = {} => Start[<<"Wdef", n>>] = {}
         /\ \A n \in StmtNodes : Start[<<"Wmay", n>>] = MayWrite(StmtAt(n))
         /\ \A n \in StmtNodes : Start[<<"Use", n>>] = Needs(StmtAt(n))
         /\ \A n \in JumpNodes : Start[<<"Use", n>>] = DFexpr(Jump(n[1], n[2]).rhs)
<1> DEFINE value(x) ==
     LET node == x[2]
         st == StmtAt(node)
         isStmt == node \in StmtNodes
         jump == Jump(node[1], node[2])
     IN  CASE x[1] = "called" -> Everything
           [] x[1] = "after"  -> {}
           [] x[1] = "Wdef"   -> IF node \in StmtNodes \ CallNodes THEN Kills(st)
                                 ELSE IF node \in JumpNodes /\ jump.op = "return" THEN {}
                                 ELSE Everything
           [] x[1] = "Wmay"   -> IF isStmt THEN MayWrite(st) ELSE {}
           [] x[1] = "Use"    -> IF isStmt THEN Needs(st)
                                 ELSE IF node \in JumpNodes THEN DFexpr(jump.rhs)
                                 ELSE {}
<1>1. Start = [x \in SetNames |-> value(x)]
  BY Zenon DEF Start, SetNames, Nodes, MayWrite, Needs
<1>2. \A n \in Nodes : <<"Wdef", n>> \in SetNames /\ <<"Wmay", n>> \in SetNames /\ <<"Use", n>> \in SetNames
  BY DEF SetNames
<1>3. /\ StmtNodes \subseteq Nodes /\ JumpNodes \subseteq Nodes
      /\ \A n \in JumpNodes : n \notin StmtNodes
  BY NodesDiffer DEF Nodes
<1>4. ASSUME NEW n \in JumpNodes, Targets(n) = {}
      PROVE  Jump(n[1], n[2]).op = "return"
  <2>1. n[1] \in DOMAIN code /\ n[2] \in DOMAIN code[n[1]]
    BY NodesAre
  <2>2. Jump(n[1], n[2]).to = {}
    BY <1>4 DEF Targets
  <2> QED
    BY <2>1, <2>2, CodeIs
<1>5. \A n \in Nodes : /\ value(<<"Wdef", n>>) = IF n \in StmtNodes \ CallNodes THEN Kills(StmtAt(n))
                                                 ELSE IF n \in JumpNodes /\ Jump(n[1], n[2]).op = "return" THEN {}
                                                 ELSE Everything
                       /\ value(<<"Wmay", n>>) = IF n \in StmtNodes THEN MayWrite(StmtAt(n)) ELSE {}
                       /\ value(<<"Use", n>>) = IF n \in StmtNodes THEN Needs(StmtAt(n))
                                                ELSE IF n \in JumpNodes THEN DFexpr(Jump(n[1], n[2]).rhs)
                                                ELSE {}
  OBVIOUS
<1> HIDE DEF value
<1> QED
  BY <1>1, <1>2, <1>3, <1>4, <1>5

LEMMA CodeSame ==
  ASSUME UNCHANGED <<locals, code>>
  PROVE  /\ StmtNodes' = StmtNodes /\ JumpNodes' = JumpNodes
         /\ CallNodes' = CallNodes /\ SetNames' = SetNames
         /\ \A n : StmtAt(n)' = StmtAt(n) /\ Targets(n)' = Targets(n) /\ Jump(n[1], n[2])' = Jump(n[1], n[2])
         /\ \A s : Kills(s)' = Kills(s) /\ MayWrite(s)' = MayWrite(s) /\ Needs(s)' = Needs(s)
         /\ \A E : DFexpr(E)' = DFexpr(E)
         /\ WdefCons' = WdefCons /\ WmayCons' = WmayCons
         /\ (\A n \in StmtNodes : sets'[<<"Wdef", n>>] = sets[<<"Wdef", n>>]) => UseCons' = UseCons
<1>1. code' = code /\ pt' = pt /\ calls' = calls /\ unique' = unique /\ truly' = truly
  BY DEF locals, program
<1>2. FunNodes' = FunNodes /\ BlockNodes' = BlockNodes
  BY <1>1 DEF FunNodes, BlockNodes
<1>3. StmtNodes' = StmtNodes /\ JumpNodes' = JumpNodes
  BY <1>1, <1>2 DEF StmtNodes, JumpNodes, Stmts
<1>4. \A n : StmtAt(n)' = StmtAt(n) /\ Targets(n)' = Targets(n) /\ Jump(n[1], n[2])' = Jump(n[1], n[2])
  BY <1>1 DEF StmtAt, Stmts, Targets, Jump
<1>5. CallNodes' = CallNodes
  BY <1>3, <1>4 DEF CallNodes
<1>6. SetNames' = SetNames
  BY <1>2, <1>3, <1>5 DEF SetNames, Nodes
<1>7. \A e : PT(e)' = PT(e)
  BY <1>1 DEF PT
<1>8. \A e : One(PT(e))' = One(PT(e))
  BY <1>1, <1>7 DEF One
<1>9. \A s : Kills(s)' = Kills(s)
  BY <1>8 DEF Kills
<1>10. \A e, n : PT(SubSeq(e, 1, n - 1))' = PT(SubSeq(e, 1, n - 1))
  BY <1>7
<1>11. \A E : DFexpr(E)' = DFexpr(E)
  BY <1>10 DEF DFexpr
<1>12. \A s : MayWrite(s)' = MayWrite(s)
  BY <1>7 DEF MayWrite
<1>13. \A s : Needs(s)' = Needs(s)
  BY <1>11 DEF Needs
<1>14. \A n : Within(n)' = Within(n) /\ Called(n)' = Called(n) /\ Kills(StmtAt(n))' = Kills(StmtAt(n))
              /\ ExtFuns(StmtAt(n))' = ExtFuns(StmtAt(n))
  BY <1>1, <1>3, <1>4, <1>9 DEF Within, Called
<1>15. WdefCons' = WdefCons
  BY <1>1, <1>2, <1>3, <1>4, <1>5, <1>14 DEF WdefCons
<1>16. WmayCons' = WmayCons
  BY <1>1, <1>2, <1>3, <1>4, <1>5, <1>14 DEF WmayCons
<1>17. ASSUME \A n \in StmtNodes : sets'[<<"Wdef", n>>] = sets[<<"Wdef", n>>]
       PROVE  UseCons' = UseCons
  BY <1>1, <1>2, <1>3, <1>4, <1>5, <1>14, <1>17 DEF UseCons
<1> QED
  BY <1>3, <1>4, <1>5, <1>6, <1>9, <1>11, <1>12, <1>13, <1>15, <1>16, <1>17

\* The sets of one solver are not changed by the others, and what the analyses start from is
\* not lost.
FlowSound ==
  /\ CodeKnown /\ DOMAIN sets = SetNames
  /\ \A n \in StmtNodes \ CallNodes : sets[<<"Wdef", n>>] = Kills(StmtAt(n))
  /\ \A n \in JumpNodes : Targets(n) = {} => sets[<<"Wdef", n>>] = {}
  /\ \A n \in StmtNodes : /\ MayWrite(StmtAt(n)) \subseteq sets[<<"Wmay", n>>]
                          /\ Needs(StmtAt(n)) \subseteq sets[<<"Use", n>>]
  /\ \A n \in JumpNodes : DFexpr(Jump(n[1], n[2]).rhs) \subseteq sets[<<"Use", n>>]
  /\ phase \in {"Wdef", "Wmay", "Use", "exec"}
  /\ phase # "exec" => SolverSound
  /\ phase = "Wdef" => cons = WdefCons
  /\ phase = "Wmay" => cons = WmayCons
  /\ phase = "Use"  => cons = UseCons
  /\ phase # "Wdef" => \A v \in WdefCons : Holds(v)
  /\ phase \in {"Use", "exec"} => \A v \in WmayCons : Holds(v)
  /\ phase = "exec" => \A v \in UseCons : Holds(v)

LEMMA AnalyseFlow ==
  ASSUME CodeKnown, Analyse
  PROVE  FlowSound'
<1>1. phase' = "Wdef" /\ sets' = Start /\ UNCHANGED <<locals, code>> /\ Begin(WdefCons)
  BY DEF Analyse
<1>2. SolverSound' /\ cons' = WdefCons
  BY <1>1, BeginKeeps
<1>3. CodeKnown'
  BY <1>1 DEF CodeKnown, locals, program
<1> QED
  BY <1>1, <1>2, <1>3, StartIs, CodeSame DEF FlowSound

\* As long as the sets it is about are not changed, a constraint holds.
LEMMA OthersHold ==
  ASSUME NEW S, NEW kinds, ConsOn(S, kinds), \A v \in S : Holds(v),
         \A x \in SetNames : x[1] \in kinds => sets'[x] = sets[x]
  PROVE  \A v \in S : Holds(v)'
<1> SUFFICES ASSUME NEW v \in S
             PROVE  Holds(v)'
  OBVIOUS
<1>1. IsName(v.x, kinds) /\ \A y \in v.ys : IsName(y, kinds)
  BY DEF ConsOn, ConOn
<1>2. sets'[v.x] = sets[v.x] /\ \A y \in v.ys : sets'[y] = sets[y]
  BY <1>1 DEF IsName
<1> QED
  BY <1>2, SolvedSame DEF Holds

LEMMA SolveFlowKeeps ==
  ASSUME FlowSound, SolveFlow
  PROVE  FlowSound'
<1> DEFINE kinds == IF phase = "Wdef" THEN {"Wdef", "called"} ELSE IF phase = "Wmay" THEN {"Wmay"} ELSE {"Use", "after"}
<1>1. /\ phase \in {"Wdef", "Wmay", "Use"} /\ phase' = phase /\ cons' = cons
      /\ UNCHANGED <<locals, code>> /\ CodeKnown /\ SolverSound /\ DOMAIN sets = SetNames
  BY DEF SolveFlow, FlowSound
<1>2. ConsOn(cons, kinds)
  BY <1>1, WdefConsAre, WmayConsAre, UseConsAre DEF FlowSound
<1>3. /\ SolverSound' /\ DOMAIN sets' = DOMAIN sets
      /\ \A x \in SetNames :
           /\ x[1] \notin kinds \/ (\A v \in cons : v.x # x) => sets'[x] = sets[x]
           /\ (\A v \in cons : v.x = x => v.form = "superset") => sets[x] \subseteq sets'[x]
  <2> HIDE DEF kinds
  <2> QED
    BY <1>1, <1>2, SolveKeeps
<1>4. CodeKnown'
  BY <1>1 DEF CodeKnown, locals, program
<1>5. /\ \A n \in StmtNodes \cup JumpNodes : /\ <<"Wdef", n>> \in SetNames /\ <<"Wmay", n>> \in SetNames
                                             /\ <<"Use", n>> \in SetNames
      /\ CallNodes \subseteq StmtNodes
  BY NodesDiffer, <1>1 DEF SetNames, Nodes
<1>6. ASSUME NEW n \in (StmtNodes \ CallNodes) \cup {m \in JumpNodes : Targets(m) = {}}
      PROVE  sets'[<<"Wdef", n>>] = sets[<<"Wdef", n>>]
  <2>1. <<"Wdef", n>> \in SetNames
    BY <1>5
  <2>2. CASE phase = "Wdef"
    <3>1. \A v \in cons : v.x # <<"Wdef", n>>
      BY <1>1, <2>2, WdefConsAre DEF FlowSound
    <3> QED
      BY <1>3, <2>1, <3>1
  <2>3. CASE phase # "Wdef"
    BY <1>1, <1>3, <2>1, <2>3
  <2> QED
    BY <2>2, <2>3
<1>7. ASSUME NEW n \in StmtNodes
      PROVE  sets[<<"Wmay", n>>] \subseteq sets'[<<"Wmay", n>>]
  <2>1. CASE phase = "Wmay"
    <3>1. \A v \in cons : v.x = <<"Wmay", n>> => v.form = "superset"
      BY <1>1, <2>1, WmayConsAre DEF FlowSound
    <3> QED
      BY <1>3, <1>5, <3>1
  <2>2. CASE phase # "Wmay"
    BY <1>1, <1>3, <1>5, <2>2
  <2> QED
    BY <2>1, <2>2
<1>8. ASSUME NEW n \in StmtNodes \cup JumpNodes
      PROVE  sets[<<"Use", n>>] \subseteq sets'[<<"Use", n>>]
  <2>1. CASE phase = "Use"
    <3>1. \A v \in cons : v.x = <<"Use", n>> => v.form = "superset"
      BY <1>1, <2>1, UseConsAre DEF FlowSound
    <3> QED
      BY <1>3, <1>5, <3>1
  <2>2. CASE phase # "Use"
    BY <1>1, <1>3, <1>5, <2>2
  <2> QED
    BY <2>1, <2>2
<1>9. phase # "Wdef" => \A v \in WdefCons : Holds(v)'
  <2> SUFFICES ASSUME phase # "Wdef"
               PROVE  \A v \in WdefCons : Holds(v)'
    OBVIOUS
  <2>1. \A x \in SetNames : x[1] \in {"Wdef", "called"} => sets'[x] = sets[x]
    BY <1>1, <1>3
  <2>2. ConsOn(WdefCons, {"Wdef", "called"}) /\ \A v \in WdefCons : Holds(v)
    BY <1>1, WdefConsAre DEF FlowSound
  <2> QED
    BY <2>1, <2>2, OthersHold
<1>10. phase = "Use" => \A v \in WmayCons : Holds(v)'
  <2> SUFFICES ASSUME phase = "Use"
               PROVE  \A v \in WmayCons : Holds(v)'
    OBVIOUS
  <2>1. \A x \in SetNames : x[1] \in {"Wmay"} => sets'[x] = sets[x]
    BY <1>1, <1>3
  <2>2. ConsOn(WmayCons, {"Wmay"}) /\ \A v \in WmayCons : Holds(v)
    BY <1>1, WmayConsAre DEF FlowSound
  <2> QED
    BY <2>1, <2>2, OthersHold
<1>11. phase = "Use" => UseCons' = UseCons
  <2> SUFFICES ASSUME phase = "Use"
               PROVE  UseCons' = UseCons
    OBVIOUS
  <2>1. \A n \in StmtNodes : sets'[<<"Wdef", n>>] = sets[<<"Wdef", n>>]
    BY <1>1, <1>3, <1>5
  <2> QED
    BY <1>1, <2>1, CodeSame
<1>12. /\ \A n \in StmtNodes \ CallNodes : sets'[<<"Wdef", n>>] = Kills(StmtAt(n))
       /\ \A n \in JumpNodes : Targets(n) = {} => sets'[<<"Wdef", n>>] = {}
       /\ \A n \in StmtNodes : /\ MayWrite(StmtAt(n)) \subseteq sets'[<<"Wmay", n>>]
                               /\ Needs(StmtAt(n)) \subseteq sets'[<<"Use", n>>]
       /\ \A n \in JumpNodes : DFexpr(Jump(n[1], n[2]).rhs) \subseteq sets'[<<"Use", n>>]
  BY <1>6, <1>7, <1>8 DEF FlowSound
<1>13. phase' = "Wdef" => cons' = WdefCons
  BY <1>1 DEF FlowSound
<1>14. phase' = "Wmay" => cons' = WmayCons
  BY <1>1 DEF FlowSound
<1>15. phase' = "Use" => cons' = UseCons
  BY <1>1 DEF FlowSound
<1> QED
  BY <1>1, <1>3, <1>4, <1>9, <1>10, <1>11, <1>12, <1>13, <1>14, <1>15, CodeSame DEF FlowSound

LEMMA NextSolverFlow ==
  ASSUME FlowSound, NextSolver \/ Execute
  PROVE  FlowSound'
<1>1. /\ dirty = {} /\ UNCHANGED <<locals, code, sets>>
      /\ \/ phase = "Wdef" /\ phase' = "Wmay" /\ Begin(WmayCons)
         \/ phase = "Wmay" /\ phase' = "Use" /\ Begin(UseCons)
         \/ phase = "Use" /\ phase' = "exec" /\ UNCHANGED <<cons, dirty, stamp>>
  BY DEF NextSolver, Execute
<1>2. phase # "exec" /\ SolverSound
  BY <1>1 DEF FlowSound
<1>3. \A v \in cons : Holds(v)
  BY <1>1, <1>2 DEF SolverSound
<1>4. \A v : Holds(v)' <=> Holds(v)
  BY <1>1, SolvedSame DEF Holds
<1>5. CodeKnown'
  BY <1>1 DEF CodeKnown, FlowSound, locals, program
<1>6. UseCons' = UseCons
  BY <1>1, CodeSame
<1>7. /\ DOMAIN sets' = SetNames
      /\ \A n \in StmtNodes \ CallNodes : sets'[<<"Wdef", n>>] = Kills(StmtAt(n))
      /\ \A n \in JumpNodes : Targets(n) = {} => sets'[<<"Wdef", n>>] = {}
      /\ \A n \in StmtNodes : /\ MayWrite(StmtAt(n)) \subseteq sets'[<<"Wmay", n>>]
                              /\ Needs(StmtAt(n)) \subseteq sets'[<<"Use", n>>]
      /\ \A n \in JumpNodes : DFexpr(Jump(n[1], n[2]).rhs) \subseteq sets'[<<"Use", n>>]
  BY <1>1 DEF FlowSound
<1>8. CASE phase = "Wdef"
  <2>1. phase' = "Wmay" /\ SolverSound' /\ cons' = WmayCons
    BY <1>1, <1>8, BeginKeeps
  <2>2. \A v \in WdefCons : Holds(v)'
    BY <1>3, <1>4, <1>8 DEF FlowSound
  <2> QED
    BY <1>1, <1>5, <1>7, <2>1, <2>2, CodeSame DEF FlowSound
<1>9. CASE phase = "Wmay"
  <2>1. phase' = "Use" /\ SolverSound' /\ cons' = UseCons
    BY <1>1, <1>9, BeginKeeps
  <2>2. (\A v \in WdefCons : Holds(v)') /\ \A v \in WmayCons : Holds(v)'
    BY <1>3, <1>4, <1>9 DEF FlowSound
  <2> QED
    BY <1>1, <1>5, <1>6, <1>7, <2>1, <2>2, CodeSame DEF FlowSound
<1>10. CASE phase = "Use"
  <2>1. phase' = "exec"
    BY <1>1, <1>10
  <2>2. (\A v \in WdefCons : Holds(v)') /\ (\A v \in WmayCons : Holds(v)') /\ \A v \in UseCons : Holds(v)'
    BY <1>3, <1>4, <1>10 DEF FlowSound
  <2> QED
    BY <1>1, <1>5, <1>6, <1>7, <2>1, <2>2, CodeSame DEF FlowSound
<1> QED
  BY <1>1, <1>8, <1>9, <1>10

\* What the sets say in the end.
LEMMA UseKnown ==
  ASSUME FlowSound, phase = "exec"
  PROVE  /\ \A f \in DOMAIN code : sets[<<"Use", <<f, 1, 0>>>>] \subseteq sets[<<"Use", <<f, 0, 0>>>>]
         /\ \A n \in BlockNodes : sets[<<"Use", Following(n)>>] \subseteq sets[<<"Use", n>>]
         /\ \A n \in StmtNodes : /\ sets[<<"Use", Following(n)>>] \ sets[<<"Wdef", n>>] \subseteq sets[<<"Use", n>>]
                                 /\ Needs(StmtAt(n)) \subseteq sets[<<"Use", n>>]
         /\ \A n \in CallNodes : \A g \in FunDfs(StmtAt(n)) :
              sets[<<"Use", <<g, 0, 0>>>>] \subseteq sets[<<"Use", n>>]
         /\ \A n \in JumpNodes : /\ DFexpr(Jump(n[1], n[2]).rhs) \subseteq sets[<<"Use", n>>]
                                 /\ \A b \in Jump(n[1], n[2]).to :
                                      sets[<<"Use", <<n[1], b, 0>>>>] \subseteq sets[<<"Use", n>>]
<1>1. \A v \in UseCons : Holds(v)
  BY DEF FlowSound
<1>2. ASSUME NEW x, NEW ys, NEW w, Con(x, "superset", ys, w) \in UseCons, NEW y \in ys
      PROVE  sets[y] \subseteq sets[x]
  <2>1. sets[x] = sets[x] \cup All(ys)
    BY <1>1, <1>2 DEF Holds, Solved, Con
  <2> QED
    BY <1>2, <2>1 DEF All
<1>3. ASSUME NEW f \in DOMAIN code
      PROVE  sets[<<"Use", <<f, 1, 0>>>>] \subseteq sets[<<"Use", <<f, 0, 0>>>>]
  <2> DEFINE n == <<f, 0, 0>>
  <2>1. n \in FunNodes /\ Body(n) = <<f, 1, 0>>
    BY DEF FunNodes, Body
  <2> HIDE DEF n
  <2>2. Con(<<"Use", n>>, "superset", {<<"Use", Body(n)>>}, {}) \in UseCons
    BY <2>1 DEF UseCons
  <2>3. sets[<<"Use", Body(n)>>] \subseteq sets[<<"Use", n>>]
    BY <1>2, <2>2
  <2> QED
    BY <2>1, <2>3 DEF n
<1>4. ASSUME NEW n \in BlockNodes
      PROVE  sets[<<"Use", Following(n)>>] \subseteq sets[<<"Use", n>>]
  <2>1. Con(<<"Use", n>>, "superset", {<<"Use", Following(n)>>}, {}) \in UseCons
    BY DEF UseCons
  <2> QED
    BY <1>2, <2>1
<1>5. ASSUME NEW n \in StmtNodes
      PROVE  sets[<<"Use", Following(n)>>] \ sets[<<"Wdef", n>>] \subseteq sets[<<"Use", n>>]
  <2> DEFINE ys == {<<"after", n>>} \cup (IF n \in CallNodes THEN Of("Use", Called(n)) ELSE {})
             v == Con(<<"after", n>>, "include", {<<"Use", Following(n)>>}, sets[<<"Wdef", n>>])
  <2>1. v \in UseCons /\ Con(<<"Use", n>>, "superset", ys, {}) \in UseCons
    BY DEF UseCons
  <2>2. sets[<<"after", n>>] = All({<<"Use", Following(n)>>}) \ sets[<<"Wdef", n>>]
    BY <1>1, <2>1 DEF Holds, Solved, Con
  <2>3. sets[<<"after", n>>] \subseteq sets[<<"Use", n>>]
    BY <1>2, <2>1
  <2> QED
    BY <2>2, <2>3 DEF All
<1>6. ASSUME NEW n \in CallNodes, NEW g \in FunDfs(StmtAt(n))
      PROVE  sets[<<"Use", <<g, 0, 0>>>>] \subseteq sets[<<"Use", n>>]
  <2> DEFINE ys == {<<"after", n>>} \cup (IF n \in CallNodes THEN Of("Use", Called(n)) ELSE {})
  <2>1. n \in StmtNodes
    BY DEF CallNodes
  <2>2. Con(<<"Use", n>>, "superset", ys, {}) \in UseCons
    BY <2>1 DEF UseCons
  <2>3. <<"Use", <<g, 0, 0>>>> \in ys
    BY DEF Of, Called
  <2> QED
    BY <1>2, <2>2, <2>3
<1>7. ASSUME NEW n \in JumpNodes, NEW b \in Jump(n[1], n[2]).to
      PROVE  sets[<<"Use", <<n[1], b, 0>>>>] \subseteq sets[<<"Use", n>>]
  <2>1. <<n[1], b, 0>> \in Targets(n) /\ <<"Use", <<n[1], b, 0>>>> \in Of("Use", Targets(n))
    BY DEF Of, Targets
  <2>2. Con(<<"Use", n>>, "superset", Of("Use", Targets(n)), {}) \in UseCons
    BY <2>1 DEF UseCons
  <2> QED
    BY <1>2, <2>1, <2>2
<1> QED
  BY <1>3, <1>4, <1>5, <1>6, <1>7 DEF FlowSound

LEMMA WmayKnown ==
  ASSUME FlowSound, phase = "exec"
  PROVE  /\ \A f \in DOMAIN code : sets[<<"Wmay", <<f, 1, 0>>>>] \ truly[f] \subseteq sets[<<"Wmay", <<f, 0, 0>>>>]
         /\ \A n \in BlockNodes : \A m \in Within(n) : sets[<<"Wmay", m>>] \subseteq sets[<<"Wmay", n>>]
         /\ \A n \in StmtNodes : MayWrite(StmtAt(n)) \subseteq sets[<<"Wmay", n>>]
         /\ \A n \in CallNodes : \A g \in FunDfs(StmtAt(n)) :
              sets[<<"Wmay", <<g, 0, 0>>>>] \subseteq sets[<<"Wmay", n>>]
         /\ \A n \in JumpNodes : \A b \in Jump(n[1], n[2]).to :
              sets[<<"Wmay", <<n[1], b, 0>>>>] \subseteq sets[<<"Wmay", n>>]
<1>1. \A v \in WmayCons : Holds(v)
  BY DEF FlowSound
<1>2. ASSUME NEW x, NEW ys, NEW w, Con(x, "superset", ys, w) \in WmayCons, NEW y \in ys
      PROVE  sets[y] \subseteq sets[x]
  <2>1. sets[x] = sets[x] \cup All(ys)
    BY <1>1, <1>2 DEF Holds, Solved, Con
  <2> QED
    BY <1>2, <2>1 DEF All
<1>3. ASSUME NEW f \in DOMAIN code
      PROVE  sets[<<"Wmay", <<f, 1, 0>>>>] \ truly[f] \subseteq sets[<<"Wmay", <<f, 0, 0>>>>]
  <2> DEFINE n == <<f, 0, 0>>
  <2>1. n \in FunNodes /\ Body(n) = <<f, 1, 0>> /\ n[1] = f
    BY DEF FunNodes, Body
  <2> HIDE DEF n
  <2>2. Con(<<"Wmay", n>>, "include", {<<"Wmay", Body(n)>>}, truly[n[1]]) \in WmayCons
    BY <2>1 DEF WmayCons
  <2>3. sets[<<"Wmay", n>>] = All({<<"Wmay", Body(n)>>}) \ truly[n[1]]
    BY <1>1, <2>2 DEF Holds, Solved, Con
  <2>4. sets[<<"Wmay", Body(n)>>] \ truly[f] \subseteq sets[<<"Wmay", n>>]
    BY <2>1, <2>3 DEF All
  <2> QED
    BY <2>1, <2>4 DEF n
<1>4. ASSUME NEW n \in BlockNodes, NEW m \in Within(n)
      PROVE  sets[<<"Wmay", m>>] \subseteq sets[<<"Wmay", n>>]
  <2>1. Con(<<"Wmay", n>>, "superset", Of("Wmay", Within(n)), {}) \in WmayCons
    BY DEF WmayCons
  <2>2. <<"Wmay", m>> \in Of("Wmay", Within(n))
    BY DEF Of
  <2> QED
    BY <1>2, <2>1, <2>2
<1>5. ASSUME NEW n \in CallNodes, NEW g \in FunDfs(StmtAt(n))
      PROVE  sets[<<"Wmay", <<g, 0, 0>>>>] \subseteq sets[<<"Wmay", n>>]
  <2>1. Con(<<"Wmay", n>>, "superset", Of("Wmay", Called(n)), {}) \in WmayCons
    BY DEF WmayCons
  <2>2. <<"Wmay", <<g, 0, 0>>>> \in Of("Wmay", Called(n))
    BY DEF Of, Called
  <2> QED
    BY <1>2, <2>1, <2>2
<1>6. ASSUME NEW n \in JumpNodes, NEW b \in Jump(n[1], n[2]).to
      PROVE  sets[<<"Wmay", <<n[1], b, 0>>>>] \subseteq sets[<<"Wmay", n>>]
  <2>1. <<n[1], b, 0>> \in Targets(n) /\ <<"Wmay", <<n[1], b, 0>>>> \in Of("Wmay", Targets(n))
    BY DEF Of, Targets
  <2>2. Con(<<"Wmay", n>>, "superset", Of("Wmay", Targets(n)), {}) \in WmayCons
    BY <2>1 DEF WmayCons
  <2> QED
    BY <1>2, <2>1, <2>2
<1> QED
  BY <1>3, <1>4, <1>5, <1>6 DEF FlowSound

LEMMA WdefKnown ==
  ASSUME FlowSound, phase = "exec"
  PROVE  /\ \A f \in DOMAIN code : sets[<<"Wdef", <<f, 0, 0>>>>] \subseteq sets[<<"Wdef", <<f, 1, 0>>>>] \ truly[f]
         /\ \A n \in BlockNodes : \A d \in sets[<<"Wdef", n>>] : \E m \in Within(n) : d \in sets[<<"Wdef", m>>]
         /\ \A n \in StmtNodes : \A d \in sets[<<"Wdef", n>>] :
              \/ d \in Kills(StmtAt(n))
              \/ /\ n \in CallNodes /\ ExtFuns(StmtAt(n)) = {}
                 /\ \A g \in FunDfs(StmtAt(n)) : d \in sets[<<"Wdef", <<g, 0, 0>>>>]
         /\ \A n \in JumpNodes : /\ Jump(n[1], n[2]).to = {} => sets[<<"Wdef", n>>] = {}
                                 /\ \A b \in Jump(n[1], n[2]).to :
                                      sets[<<"Wdef", n>>] \subseteq sets[<<"Wdef", <<n[1], b, 0>>>>]
<1>1. \A v \in WdefCons : Holds(v)
  BY DEF FlowSound
<1>2. ASSUME NEW x, NEW ys, NEW w, Con(x, "subset", ys, w) \in WdefCons, NEW d \in sets[x]
      PROVE  d \in w /\ \A y \in ys : d \in sets[y]
  <2>1. sets[x] = {c \in sets[x] \cap w : \A y \in ys : c \in sets[y]}
    BY <1>1, <1>2 DEF Holds, Solved, Con
  <2> QED
    BY <2>1
<1>3. ASSUME NEW f \in DOMAIN code
      PROVE  sets[<<"Wdef", <<f, 0, 0>>>>] \subseteq sets[<<"Wdef", <<f, 1, 0>>>>] \ truly[f]
  <2> DEFINE n == <<f, 0, 0>>
  <2>1. n \in FunNodes /\ Body(n) = <<f, 1, 0>> /\ n[1] = f
    BY DEF FunNodes, Body
  <2> HIDE DEF n
  <2>2. Con(<<"Wdef", n>>, "include", {<<"Wdef", Body(n)>>}, truly[n[1]]) \in WdefCons
    BY <2>1 DEF WdefCons
  <2>3. sets[<<"Wdef", n>>] = All({<<"Wdef", Body(n)>>}) \ truly[n[1]]
    BY <1>1, <2>2 DEF Holds, Solved, Con
  <2>4. sets[<<"Wdef", n>>] \subseteq sets[<<"Wdef", Body(n)>>] \ truly[f]
    BY <2>1, <2>3 DEF All
  <2> QED
    BY <2>1, <2>4 DEF n
<1>4. ASSUME NEW n \in BlockNodes, NEW d \in sets[<<"Wdef", n>>]
      PROVE  \E m \in Within(n) : d \in sets[<<"Wdef", m>>]
  <2>1. Con(<<"Wdef", n>>, "union", Of("Wdef", Within(n)), {}) \in WdefCons
    BY DEF WdefCons
  <2>2. sets[<<"Wdef", n>>] = All(Of("Wdef", Within(n))) \cup {}
    BY <1>1, <2>1 DEF Holds, Solved, Con
  <2>3. PICK y \in Of("Wdef", Within(n)) : d \in sets[y]
    BY <1>4, <2>2 DEF All
  <2>4. PICK m \in Within(n) : y = <<"Wdef", m>>
    BY <2>3 DEF Of
  <2> QED
    BY <2>3, <2>4
<1>5. ASSUME NEW n \in StmtNodes, NEW d \in sets[<<"Wdef", n>>], d \notin Kills(StmtAt(n))
      PROVE  /\ n \in CallNodes /\ ExtFuns(StmtAt(n)) = {}
             /\ \A g \in FunDfs(StmtAt(n)) : d \in sets[<<"Wdef", <<g, 0, 0>>>>]
  <2>1. n \in CallNodes
    BY <1>5 DEF FlowSound
  <2>2. Con(<<"Wdef", n>>, "union", {<<"called", n>>}, Kills(StmtAt(n))) \in WdefCons
    BY <2>1 DEF WdefCons
  <2>3. sets[<<"Wdef", n>>] = All({<<"called", n>>}) \cup Kills(StmtAt(n))
    BY <1>1, <2>2 DEF Holds, Solved, Con
  <2>4. d \in sets[<<"called", n>>]
    BY <1>5, <2>3 DEF All
  <2> DEFINE w == IF ExtFuns(StmtAt(n)) = {} THEN Everything ELSE {}
  <2>5. Con(<<"called", n>>, "subset", Of("Wdef", Called(n)), w) \in WdefCons
    BY <2>1 DEF WdefCons
  <2>6. d \in w /\ \A y \in Of("Wdef", Called(n)) : d \in sets[y]
    BY <1>2, <2>4, <2>5
  <2>7. \A g \in FunDfs(StmtAt(n)) : <<"Wdef", <<g, 0, 0>>>> \in Of("Wdef", Called(n))
    BY DEF Of, Called
  <2> QED
    BY <2>1, <2>6, <2>7
<1>6. ASSUME NEW n \in JumpNodes, NEW b \in Jump(n[1], n[2]).to
      PROVE  sets[<<"Wdef", n>>] \subseteq sets[<<"Wdef", <<n[1], b, 0>>>>]
  <2>1. <<n[1], b, 0>> \in Targets(n) /\ <<"Wdef", <<n[1], b, 0>>>> \in Of("Wdef", Targets(n))
    BY DEF Of, Targets
  <2>2. Con(<<"Wdef", n>>, "subset", Of("Wdef", Targets(n)), Everything) \in WdefCons
    BY <2>1 DEF WdefCons
  <2> QED
    BY <1>2, <2>1, <2>2
<1>7. ASSUME NEW n \in JumpNodes, Jump(n[1], n[2]).to = {}
      PROVE  sets[<<"Wdef", n>>] = {}
  BY <1>7 DEF FlowSound, Targets
<1> QED
  BY <1>3, <1>4, <1>5, <1>6, <1>7

----------------------------------------------------------------------------
(***************************************************************************)
(* Wholes and their parts.                                                 *)
(***************************************************************************)
LEMMA SubObjectsAre ==
  ASSUME NEW S \in SUBSET Objs
  PROVE  /\ SubObjects(S) \subseteq Objs /\ S \subseteq SubObjects(S) /\ SubObjects(S) = Parts(S, {})
         /\ \A d \in SubObjects(S) : Members[d] \subseteq SubObjects(S)
         /\ \A T \in SUBSET Objs : S \subseteq T /\ (\A d \in T : Members[d] \subseteq T) => SubObjects(S) \subseteq T
<1> DEFINE none == {}
<1>1. SubObjects(S) = Parts(S, none)
  BY DEF SubObjects
<1>2. \A T : T \ none = T
  OBVIOUS
<1> HIDE DEF none
<1>3. /\ S \ none \subseteq Parts(S, none)
      /\ \A d \in Parts(S, none) : d \in Objs \ none /\ Members[d] \ none \subseteq Parts(S, none)
      /\ \A T \in SUBSET Objs : S \ none \subseteq T /\ (\A d \in T : Members[d] \ none \subseteq T)
                                  => Parts(S, none) \subseteq T
  BY PartsAre
<1> QED
  BY <1>1, <1>2, <1>3 DEF none

\* An object is a part of itself, and has the owner of the whole.
LEMMA PartsOfOne ==
  ASSUME NEW d \in Objs
  PROVE  /\ SubObjects({d}) = {d} \cup SubObjects(Members[d])
         /\ \A c \in SubObjects({d}) : c \in Objs /\ Owner[c] = Owner[d]
         /\ \A S \in SUBSET Objs : d \in S => SubObjects({d}) \subseteq SubObjects(S)
         /\ Members[d] = {} => SubObjects(Members[d]) = {}
<1> DEFINE inside == Members[d]
           one == {d}
<1>1. inside \in SUBSET Objs /\ one \in SUBSET Objs
  BY OwnerAssumption
<1>2. one \cup SubObjects(inside) \subseteq SubObjects(one)
  BY <1>1, SubObjectsAre
<1>3. SubObjects(one) \subseteq one \cup SubObjects(inside)
  <2> DEFINE T == one \cup SubObjects(inside)
  <2>1. T \in SUBSET Objs /\ one \subseteq T /\ \A c \in T : Members[c] \subseteq T
    BY <1>1, SubObjectsAre
  <2> HIDE DEF T, one
  <2>2. SubObjects(one) \subseteq T
    BY <1>1, <2>1, SubObjectsAre
  <2> QED
    BY <2>2 DEF T
<1>4. \A c \in SubObjects(one) : c \in Objs /\ Owner[c] = Owner[d]
  <2> DEFINE T == {c \in Objs : Owner[c] = Owner[d]}
  <2>1. T \in SUBSET Objs /\ one \subseteq T /\ \A c \in T : Members[c] \subseteq T
    BY OwnerAssumption
  <2> HIDE DEF T, one
  <2>2. SubObjects(one) \subseteq T
    BY <1>1, <2>1, SubObjectsAre
  <2> QED
    BY <2>2 DEF T
<1>5. ASSUME NEW S \in SUBSET Objs, d \in S
      PROVE  SubObjects(one) \subseteq SubObjects(S)
  <2>1. one \subseteq SubObjects(S) /\ SubObjects(S) \in SUBSET Objs /\ \A c \in SubObjects(S) : Members[c] \subseteq SubObjects(S)
    BY <1>5, SubObjectsAre
  <2> HIDE DEF one
  <2> QED
    BY <1>1, <2>1, SubObjectsAre
<1>6. ASSUME inside = {}
      PROVE  SubObjects(inside) = {}
  <2> DEFINE T == {}
  <2>1. T \in SUBSET Objs /\ inside \subseteq T /\ \A c \in T : Members[c] \subseteq T
    BY <1>6
  <2> HIDE DEF T, inside
  <2>2. SubObjects(inside) \subseteq T
    BY <1>1, <2>1, SubObjectsAre
  <2> QED
    BY <2>2 DEF T
<1> HIDE DEF inside, one
<1> QED
  BY <1>2, <1>3, <1>4, <1>5, <1>6 DEF inside, one

LEMMA InstanceIs ==
  \A o \in Objects : o \in Instances(Decl(o), Level(o))
<1> SUFFICES ASSUME NEW o \in Objects
             PROVE  o \in Instances(Decl(o), Level(o))
  OBVIOUS
<1>1. PICK d \in Objs, l \in 0 .. MaxDepth : o \in Instances(d, l)
  BY DEF Objects
<1> QED
  BY <1>1, ObjectsAre

LEMMA WholeIs ==
  ASSUME NEW o \in Objects
  PROVE  /\ \A x : x \in Whole(o) <=> /\ x \in Objects /\ Level(x) = Level(o)
                                      /\ x = o \/ Decl(x) \in SubObjects(Members[Decl(o)])
         /\ \A x \in Whole(o) : Decl(x) \in SubObjects({Decl(o)}) /\ Owner[Decl(x)] = Owner[Decl(o)]
<1> DEFINE inside == SubObjects(Members[Decl(o)])
<1>1. Decl(o) \in Objs /\ Members[Decl(o)] \in SUBSET Objs /\ Level(o) \in 0 .. MaxDepth
  BY ObjectsAre, OwnerAssumption
<1>2. inside \subseteq Objs
  BY <1>1, SubObjectsAre
<1>3. Whole(o) = {o} \cup UNION {Instances(d, Level(o)) : d \in inside}
  BY DEF Whole, SubObjects
<1> HIDE DEF inside
<1>4. \A x : x \in Whole(o) <=> x = o \/ \E d \in inside : x \in Instances(d, Level(o))
  BY <1>3
<1>5. \A d \in inside : \A x \in Instances(d, Level(o)) : x \in Objects /\ Decl(x) = d /\ Level(x) = Level(o)
  BY <1>1, <1>2, ObjectsAre
<1>6. \A x : x \in Whole(o) <=> /\ x \in Objects /\ Level(x) = Level(o)
                                /\ x = o \/ Decl(x) \in inside
  BY <1>4, <1>5, InstanceIs
<1>7. ASSUME NEW x \in Whole(o)
      PROVE  Decl(x) \in SubObjects({Decl(o)}) /\ Owner[Decl(x)] = Owner[Decl(o)]
  <2>1. Decl(x) \in {Decl(o)} \cup inside
    BY <1>6
  <2>2. SubObjects({Decl(o)}) = {Decl(o)} \cup inside
    BY <1>1, PartsOfOne DEF inside
  <2> QED
    BY <1>1, <2>1, <2>2, PartsOfOne
<1> QED
  BY <1>6, <1>7 DEF inside

LEMMA WholeMeets ==
  ASSUME ProgramType, StackSound(stack), NEW age, Aged(stack, age), NEW l \in 1 .. Depth,
         NEW o \in Meetable(stack, age, l)
  PROVE  Whole(o) \subseteq Meetable(stack, age, l)
<1> DEFINE inside == Members[Decl(o)]
           T == {d \in Objs : Owner[d] = Owner[Decl(o)] /\ Instances(d, Level(o)) \subseteq Meetable(stack, age, l)}
<1>1. o \in Objects /\ Decl(o) \in Objs /\ inside \in SUBSET Objs /\ Level(o) \in 0 .. MaxDepth
  BY ObjectsAre, OwnerAssumption DEF Meetable
<1>2. inside \subseteq T
  <2> SUFFICES ASSUME NEW d \in inside
               PROVE  d \in T
    OBVIOUS
  <2>1. \A q \in Instances(d, Level(o)) : q \in Meetable(stack, age, l)
    BY MemberMeets
  <2> QED
    BY <1>1, <2>1, OwnerAssumption
<1>3. ASSUME NEW c \in T, NEW d \in Members[c]
      PROVE  d \in T
  <2>1. c \in Objs /\ d \in Objs /\ Owner[d] = Owner[c] /\ Owner[c] = Owner[Decl(o)]
    BY <1>3, OwnerAssumption
  <2> DEFINE k == <<c, Level(o), 1>>
  <2>2. k \in Instances(c, Level(o))
    <3>1. Level(o) = 0 <=> Owner[c] \notin Funs \cup {Gen}
      BY <1>1, <2>1, ObjectsAre
    <3> QED
      BY <3>1 DEF Instances
  <2>3. k \in Meetable(stack, age, l) /\ Decl(k) = c /\ Level(k) = Level(o)
    BY <1>3, <2>2 DEF Decl, Level
  <2> HIDE DEF k
  <2>4. \A q \in Instances(d, Level(k)) : q \in Meetable(stack, age, l)
    BY <1>3, <2>3, MemberMeets
  <2> QED
    BY <2>1, <2>3, <2>4
<1>4. T \in SUBSET Objs /\ \A c \in T : Members[c] \subseteq T
  BY <1>3
<1>5. \A d \in T : Instances(d, Level(o)) \subseteq Meetable(stack, age, l)
  OBVIOUS
<1> HIDE DEF inside, T
<1>6. SubObjects(inside) \subseteq T
  BY <1>1, <1>2, <1>4, SubObjectsAre
<1>7. ASSUME NEW x \in Whole(o)
      PROVE  x \in Meetable(stack, age, l)
  <2>1. x \in Objects /\ Level(x) = Level(o) /\ (x = o \/ Decl(x) \in T)
    BY <1>1, <1>6, WholeIs DEF inside
  <2> QED
    BY <1>5, <2>1, InstanceIs
<1> QED
  BY <1>7

----------------------------------------------------------------------------
(***************************************************************************)
(* Expressions.                                                            *)
(***************************************************************************)
\* What a step of an expression leads to.
PTStep(S, k) ==
  IF k = "*" THEN UNION {pt[d] : d \in S}
  ELSE {Select[d][k] : d \in {c \in S : k \in DOMAIN Select[c]}}

PTSteps(e, T) == T = [n \in 1 .. Len(e) |-> IF n = 1 THEN {e[1]} ELSE PTStep(T[n - 1], e[n])]

LEMMA PTStepsAre ==
  ASSUME NEW e, Len(e) \in Nat \ {0}, NEW T, PTSteps(e, T)
  PROVE  /\ T[1] = {e[1]} /\ DOMAIN T = 1 .. Len(e) /\ T = [n \in 1 .. Len(e) |-> T[n]]
         /\ \A n \in Nat : n + 1 \in 2 .. Len(e) => T[n + 1] = PTStep(T[n], e[n + 1])
<1> DEFINE F == [n \in 1 .. Len(e) |-> IF n = 1 THEN {e[1]} ELSE PTStep(T[n - 1], e[n])]
<1>1. /\ DOMAIN F = 1 .. Len(e) /\ F[1] = {e[1]} /\ F = [n \in 1 .. Len(e) |-> F[n]]
      /\ \A n \in 2 .. Len(e) : F[n] = PTStep(T[n - 1], e[n])
  OBVIOUS
<1>2. T = F
  BY DEF PTSteps
<1> HIDE DEF F
<1>3. \A n \in Nat : n + 1 \in 2 .. Len(e) => (n + 1) - 1 = n
  OBVIOUS
<1> QED
  BY <1>1, <1>2, <1>3

LEMMA PTStepIs ==
  ASSUME ProgramType, NEW S \in SUBSET Objs, NEW k
  PROVE  PTStep(S, k) \in SUBSET Objs
<1>1. ASSUME NEW d \in S, k \in DOMAIN Select[d]
      PROVE  Select[d][k] \in Objs
  <2>1. Members[d] = Range(Select[d]) /\ Members[d] \in SUBSET Objs
    BY SelectAssumption, OwnerAssumption
  <2> QED
    BY <1>1, <2>1 DEF Range
<1> QED
  BY <1>1 DEF PTStep, ProgramType

LEMMA PTIs ==
  ASSUME ProgramType, NEW e, Len(e) \in Nat \ {0}, e[1] \in Objs
  PROVE  \E T \in [1 .. Len(e) -> SUBSET Objs] : PTSteps(e, T) /\ PT(e) = T[Len(e)]
<1> DEFINE L == Len(e) - 1
           X == SUBSET Objs
           first == {e[1]}
           f == [c \in X \X (1 .. L) |-> PTStep(c[1], e[c[2] + 1])]
           Steps(T) == [n \in 1 .. Len(e) |->
                          IF n = 1 THEN {e[1]}
                          ELSE IF e[n] = "*" THEN UNION {pt[d] : d \in T[n - 1]}
                          ELSE {Select[d][e[n]] : d \in {c \in T[n - 1] : e[n] \in DOMAIN Select[c]}}]
<1>1. \A T : PTSteps(e, T) <=> T = Steps(T)
  BY DEF PTSteps, PTStep
<1>2. L \in Nat /\ first \in X
  OBVIOUS
<1>3. f \in [X \X (1 .. L) -> X]
  <2>1. ASSUME NEW c \in X \X (1 .. L)
        PROVE  PTStep(c[1], e[c[2] + 1]) \in X
    BY PTStepIs
  <2> QED
    BY <2>1
<1>4. \A S \in X, n \in 1 .. L : f[<<S, n>>] = PTStep(S, e[n + 1])
  OBVIOUS
<1> HIDE DEF f, X, L, first
<1>5. PICK Q : Rounds(Q, L, X, first, f)
  BY <1>2, <1>3, LoopExists
<1> DEFINE R == [n \in 1 .. Len(e) |-> Q[n - 1]]
<1>6. PTSteps(e, R)
  <2>1. ASSUME NEW n \in 1 .. Len(e)
        PROVE  R[n] = IF n = 1 THEN {e[1]} ELSE PTStep(R[n - 1], e[n])
    <3>1. CASE n = 1
      <4>1. 0 \in 0 .. L /\ 1 \in 1 .. Len(e)
        BY <1>2
      <4>2. Q[0] = first
        BY <1>5, <4>1 DEF Rounds
      <4>3. R[1] = Q[1 - 1]
        BY <4>1
      <4> QED
        BY <3>1, <4>2, <4>3 DEF first
    <3>2. CASE n # 1
      <4>1. n - 1 \in 1 .. L /\ n - 1 \in 0 .. L /\ n - 2 \in 0 .. L /\ (n - 1) - 1 = n - 2 /\ n - 1 \in 1 .. Len(e)
            /\ (n - 1) + 1 = n /\ n - 1 # 0
        BY <1>2, <3>2 DEF L
      <4>2. Q[n - 1] = f[<<Q[n - 2], n - 1>>] /\ Q[n - 2] \in X
        BY <1>5, <4>1 DEF Rounds
      <4>3. f[<<Q[n - 2], n - 1>>] = PTStep(Q[n - 2], e[n])
        BY <1>4, <4>1, <4>2
      <4>4. R[n] = Q[n - 1] /\ R[n - 1] = Q[n - 2]
        BY <4>1
      <4> QED
        BY <3>2, <4>2, <4>3, <4>4
    <3> QED
      BY <3>1, <3>2
  <2>2. R = [n \in 1 .. Len(e) |-> R[n]]
    OBVIOUS
  <2> HIDE DEF R
  <2>3. R = [n \in 1 .. Len(e) |-> IF n = 1 THEN {e[1]} ELSE PTStep(R[n - 1], e[n])]
    BY <2>1, <2>2
  <2> QED
    BY <2>3 DEF PTSteps
<1>7. R = Steps(R)
  BY <1>1, <1>6
<1> DEFINE T == CHOOSE T : T = Steps(T)
<1>8. T = Steps(T)
  BY <1>7
<1>9. PTSteps(e, T) /\ PT(e) = T[Len(e)]
  BY <1>1, <1>8 DEF PT, PTin
<1> HIDE DEF T, Steps
<1>10. T \in [1 .. Len(e) -> SUBSET Objs]
  <2> DEFINE N == {n \in Nat : n \in 1 .. Len(e) => T[n] \in SUBSET Objs}
  <2>1. 0 \in N
    OBVIOUS
  <2>2. ASSUME NEW n \in Nat, n \in N
        PROVE  n + 1 \in N
    <3> SUFFICES ASSUME n + 1 \in 1 .. Len(e)
                 PROVE  T[n + 1] \in SUBSET Objs
      OBVIOUS
    <3>1. T[1] = {e[1]} /\ (n + 1 \in 2 .. Len(e) => T[n + 1] = PTStep(T[n], e[n + 1]))
      BY <1>9, PTStepsAre
    <3>2. CASE n = 0
      BY <3>1, <3>2
    <3>3. CASE n # 0
      <4>1. T[n] \in SUBSET Objs
        BY <2>2, <3>3
      <4> QED
        BY <3>1, <3>3, <4>1, PTStepIs
    <3> QED
      BY <3>2, <3>3
  <2> HIDE DEF N
  <2>3. Nat \subseteq N
    BY <2>1, <2>2, NatSets
  <2>4. \A n \in 1 .. Len(e) : T[n] \in SUBSET Objs
    BY <2>3 DEF N
  <2>5. T = [n \in 1 .. Len(e) |-> T[n]]
    BY <1>9, PTStepsAre
  <2> QED
    BY <2>4, <2>5
<1> QED
  BY <1>9, <1>10

\* An expression that begins like another one designates what that does on the way.
LEMMA PTPrefix ==
  ASSUME ProgramType, NEW e, e \in Seq(Range(e)), e # <<>>, e[1] \in Objs
  PROVE  /\ PT(SubSeq(e, 1, 1)) = {e[1]} /\ PT(SubSeq(e, 1, Len(e))) = PT(e)
         /\ \A n \in 1 .. Len(e) : PT(SubSeq(e, 1, n)) \in SUBSET Objs
         /\ \A n \in 2 .. Len(e) : PT(SubSeq(e, 1, n)) = PTStep(PT(SubSeq(e, 1, n - 1)), e[n])
<1>1. Len(e) \in Nat \ {0}
  OBVIOUS
<1>2. PICK T \in [1 .. Len(e) -> SUBSET Objs] : PTSteps(e, T) /\ PT(e) = T[Len(e)]
  BY <1>1, PTIs
<1>3. ASSUME NEW m \in 1 .. Len(e)
      PROVE  PT(SubSeq(e, 1, m)) = T[m]
  <2> DEFINE p == SubSeq(e, 1, m)
  <2>1. Len(p) = m /\ \A n \in 1 .. m : p[n] = e[n]
    OBVIOUS
  <2> HIDE DEF p
  <2>2. Len(p) \in Nat \ {0} /\ p[1] \in Objs
    BY <2>1
  <2>3. PICK U \in [1 .. Len(p) -> SUBSET Objs] : PTSteps(p, U) /\ PT(p) = U[Len(p)]
    BY <2>2, PTIs
  <2> DEFINE N == {n \in Nat : n \in 1 .. m => U[n] = T[n]}
  <2>4. 0 \in N
    OBVIOUS
  <2>5. ASSUME NEW n \in Nat, n \in N
        PROVE  n + 1 \in N
    <3> SUFFICES ASSUME n + 1 \in 1 .. m
                 PROVE  U[n + 1] = T[n + 1]
      OBVIOUS
    <3>1. U[1] = {p[1]} /\ (n + 1 \in 2 .. Len(p) => U[n + 1] = PTStep(U[n], p[n + 1]))
      BY <2>2, <2>3, PTStepsAre
    <3>2. T[1] = {e[1]} /\ (n + 1 \in 2 .. Len(e) => T[n + 1] = PTStep(T[n], e[n + 1]))
      BY <1>1, <1>2, PTStepsAre
    <3>3. CASE n = 0
      <4>1. n + 1 = 1 /\ 1 \in 1 .. m /\ p[1] = e[1]
        BY <2>1, <3>3
      <4> QED
        BY <3>1, <3>2, <4>1
    <3>4. CASE n # 0
      <4>1. n + 1 \in 2 .. Len(p) /\ n + 1 \in 2 .. Len(e) /\ p[n + 1] = e[n + 1] /\ U[n] = T[n]
        BY <2>1, <2>5, <3>4
      <4> QED
        BY <3>1, <3>2, <4>1
    <3> QED
      BY <3>3, <3>4
  <2> HIDE DEF N
  <2>6. Nat \subseteq N
    BY <2>4, <2>5, NatSets
  <2>7. U[m] = T[m]
    BY <2>6 DEF N
  <2> QED
    BY <2>1, <2>3, <2>7 DEF p
<1>4. T[1] = {e[1]} /\ \A n \in 2 .. Len(e) : T[n] = PTStep(T[n - 1], e[n])
  <2>1. \A n \in 2 .. Len(e) : n - 1 \in Nat /\ (n - 1) + 1 = n
    OBVIOUS
  <2> QED
    BY <1>1, <1>2, <2>1, PTStepsAre
<1>5. \A n \in 2 .. Len(e) : n - 1 \in 1 .. Len(e)
  OBVIOUS
<1> QED
  BY <1>1, <1>2, <1>3, <1>4, <1>5

\* The objects an expression goes through, one after the other.
Pointers == \A o \in Objects : store[o] \subseteq Objects

LEMMA OneStepIs ==
  ASSUME Pointers, NEW o \in Objects, NEW k
  PROVE  /\ OneStep(o, k) \subseteq Objects
         /\ k # "*" => \A p \in OneStep(o, k) : /\ k \in DOMAIN Select[Decl(o)] /\ Decl(p) = Select[Decl(o)][k]
                                                /\ Decl(p) \in Members[Decl(o)] /\ p \in Instances(Decl(p), Level(o))
<1>1. CASE k = "*"
  BY <1>1 DEF OneStep, Pointers
<1>2. CASE k # "*"
  <2>1. SUFFICES ASSUME NEW p \in OneStep(o, k)
                 PROVE  /\ p \in Objects
                        /\ k \in DOMAIN Select[Decl(o)] /\ Decl(p) = Select[Decl(o)][k]
                        /\ Decl(p) \in Members[Decl(o)] /\ p \in Instances(Decl(p), Level(o))
    BY <1>2
  <2>2. k \in DOMAIN Select[Decl(o)] /\ p \in Instances(Select[Decl(o)][k], Level(o))
    BY <1>2 DEF OneStep
  <2>3. Decl(o) \in Objs /\ Level(o) \in 0 .. MaxDepth /\ Members[Decl(o)] = Range(Select[Decl(o)])
        /\ Members[Decl(o)] \subseteq Objs
    BY ObjectsAre, SelectAssumption, OwnerAssumption
  <2>4. Select[Decl(o)][k] \in Members[Decl(o)]
    BY <2>2, <2>3 DEF Range
  <2>5. p \in Objects /\ Decl(p) = Select[Decl(o)][k]
    BY <2>2, <2>3, <2>4, ObjectsAre
  <2> QED
    BY <2>2, <2>4, <2>5
<1> QED
  BY <1>1, <1>2

WalkOn(w, e, l, n) ==
  /\ w \in Seq(Objects) /\ Len(w) = n /\ n >= 1 /\ w[1] \in Here(e[1], l)
  /\ \A i \in 2 .. n : w[i] \in OneStep(w[i - 1], e[i])

WalkMore(W, k) == UNION {{Append(w, o) : o \in OneStep(Last(w), k)} : w \in W}

LEMMA WalksAre ==
  ASSUME Pointers, NEW e, Places(e) \in Nat \ {0}, NEW l, Here(e[1], l) \subseteq Objects
  PROVE  \A w \in Walks(e, l) : WalkOn(w, e, l, Places(e))
<1> DEFINE P == Places(e)
           L == P - 1
           some == {w \in Seq(Objects) : Len(w) >= 1}
           X == SUBSET some
           first == {<<o>> : o \in Here(e[1], l)}
           f == [c \in X \X (1 .. L) |-> WalkMore(c[1], e[c[2] + 1])]
           Steps(T) == [n \in 1 .. P |->
                          IF n = 1 THEN {<<o>> : o \in Here(e[1], l)}
                          ELSE UNION {{Append(w, o) : o \in OneStep(Last(w), e[n])} : w \in T[n - 1]}]
<1>1. L \in Nat /\ P \in Nat \ {0}
  OBVIOUS
<1>2. first \in X
  <2>1. \A o \in Here(e[1], l) : <<o>> \in Seq(Objects) /\ Len(<<o>>) = 1
    OBVIOUS
  <2> QED
    BY <2>1
<1>3. ASSUME NEW W \in X, NEW k
      PROVE  WalkMore(W, k) \in X
  <2>1. ASSUME NEW w \in W, NEW o \in OneStep(Last(w), k)
        PROVE  Append(w, o) \in some
    <3>1. w \in Seq(Objects) /\ Len(w) >= 1 /\ Last(w) = w[Len(w)] /\ w[Len(w)] \in Objects
      BY DEF Last
    <3>2. o \in Objects
      BY <2>1, <3>1, OneStepIs
    <3> QED
      BY <3>1, <3>2
  <2> QED
    BY <2>1 DEF WalkMore
<1>4. f \in [X \X (1 .. L) -> X]
  BY <1>3
<1>5. \A W \in X, n \in 1 .. L : f[<<W, n>>] = WalkMore(W, e[n + 1])
  OBVIOUS
<1> HIDE DEF f, X, L, first, P
<1>6. PICK Q : Rounds(Q, L, X, first, f)
  BY <1>1, <1>2, <1>4, LoopExists
<1> DEFINE R == [n \in 1 .. P |-> Q[n - 1]]
<1>7. R = Steps(R)
  <2>1. ASSUME NEW n \in 1 .. P
        PROVE  R[n] = IF n = 1 THEN first ELSE WalkMore(R[n - 1], e[n])
    <3>1. CASE n = 1
      <4>1. 0 \in 0 .. L /\ 1 \in 1 .. P
        BY <1>1
      <4>2. Q[0] = first
        BY <1>6, <4>1 DEF Rounds
      <4>3. R[1] = Q[1 - 1]
        BY <4>1
      <4> QED
        BY <3>1, <4>2, <4>3
    <3>2. CASE n # 1
      <4>1. n - 1 \in 1 .. L /\ n - 1 \in 0 .. L /\ n - 2 \in 0 .. L /\ (n - 1) - 1 = n - 2 /\ n - 1 \in 1 .. P
            /\ (n - 1) + 1 = n /\ n - 1 # 0
        BY <1>1, <3>2 DEF L
      <4>2. Q[n - 1] = f[<<Q[n - 2], n - 1>>] /\ Q[n - 2] \in X
        BY <1>6, <4>1 DEF Rounds
      <4>3. f[<<Q[n - 2], n - 1>>] = WalkMore(Q[n - 2], e[n])
        BY <1>5, <4>1, <4>2
      <4>4. R[n] = Q[n - 1] /\ R[n - 1] = Q[n - 2]
        BY <4>1
      <4> QED
        BY <3>2, <4>2, <4>3, <4>4
    <3> QED
      BY <3>1, <3>2
  <2>2. R = [n \in 1 .. P |-> R[n]]
    OBVIOUS
  <2> HIDE DEF R
  <2>3. R = [n \in 1 .. P |-> IF n = 1 THEN first ELSE WalkMore(R[n - 1], e[n])]
    BY <2>1, <2>2
  <2> QED
    BY <2>3 DEF WalkMore, first
<1> DEFINE T == CHOOSE T : T = Steps(T)
<1>8. T = Steps(T)
  BY <1>7
<1>9. Walks(e, l) = T[P]
  BY DEF Walks, P
<1> HIDE DEF T
<1>10. T[1] = first /\ \A n \in 2 .. P : T[n] = WalkMore(T[n - 1], e[n])
  <2> DEFINE F == Steps(T)
  <2>1. F[1] = first /\ \A n \in 2 .. P : F[n] = WalkMore(T[n - 1], e[n])
    BY <1>1 DEF WalkMore, first
  <2>2. T = F
    BY <1>8
  <2> HIDE DEF F
  <2> QED
    BY <2>1, <2>2
<1> HIDE DEF Steps
<1> DEFINE N == {n \in Nat : n \in 1 .. P => \A w \in T[n] : WalkOn(w, e, l, n)}
<1>11. 0 \in N
  OBVIOUS
<1>12. ASSUME NEW n \in Nat, n \in N
       PROVE  n + 1 \in N
  <2> SUFFICES ASSUME n + 1 \in 1 .. P, NEW w \in T[n + 1]
               PROVE  WalkOn(w, e, l, n + 1)
    OBVIOUS
  <2>1. CASE n = 0
    <3>1. PICK o \in Here(e[1], l) : w = <<o>>
      BY <1>10, <2>1 DEF first
    <3> QED
      BY <2>1, <3>1 DEF WalkOn
  <2>2. CASE n # 0
    <3>1. n \in 1 .. P /\ n + 1 \in 2 .. P /\ (n + 1) - 1 = n
      BY <1>1, <2>2
    <3>2. T[n + 1] = WalkMore(T[n], e[n + 1])
      BY <1>10, <3>1
    <3>3. PICK v \in T[n] : w \in {Append(v, o) : o \in OneStep(Last(v), e[n + 1])}
      BY <3>2 DEF WalkMore
    <3>4. PICK o \in OneStep(Last(v), e[n + 1]) : w = Append(v, o)
      BY <3>3
    <3>5. WalkOn(v, e, l, n)
      BY <1>12, <3>1
    <3>6. /\ v \in Seq(Objects) /\ Len(v) = n /\ v[1] \in Here(e[1], l) /\ Last(v) = v[n] /\ v[n] \in Objects
          /\ \A i \in 2 .. n : v[i] \in OneStep(v[i - 1], e[i])
      BY <3>1, <3>5 DEF WalkOn, Last
    <3>7. o \in Objects
      BY <3>6, OneStepIs
    <3>8. w \in Seq(Objects) /\ Len(w) = n + 1 /\ w[n + 1] = o /\ \A i \in 1 .. n : w[i] = v[i]
      BY <3>4, <3>6, <3>7
    <3>9. ASSUME NEW i \in 2 .. n + 1
          PROVE  w[i] \in OneStep(w[i - 1], e[i])
      <4>1. CASE i = n + 1
        BY <3>1, <3>4, <3>6, <3>8, <4>1
      <4>2. CASE i # n + 1
        <5>1. i \in 2 .. n /\ i \in 1 .. n /\ i - 1 \in 1 .. n
          BY <3>1, <4>2
        <5> QED
          BY <3>6, <3>8, <5>1
      <4> QED
        BY <4>1, <4>2
    <3> QED
      BY <3>1, <3>6, <3>8, <3>9 DEF WalkOn
  <2> QED
    BY <2>1, <2>2
<1> HIDE DEF N
<1>13. Nat \subseteq N
  BY <1>11, <1>12, NatSets
<1>14. \A w \in T[P] : WalkOn(w, e, l, P)
  BY <1>1, <1>13 DEF N
<1> QED
  BY <1>9, <1>14 DEF P

LEMMA ExprIs ==
  ASSUME ProgramType, StackSound(stack), NEW age, Aged(stack, age), NEW l \in 1 .. Depth,
         NEW e, IsExpr(e, stack[l])
  PROVE  /\ e \in Seq(Range(e)) /\ e # <<>> /\ e[1] \in Objs /\ e[1] # "*" /\ Len(e) \in Nat \ {0}
         /\ Places(e) \in 1 .. Len(e) /\ Last(e) = e[Len(e)]
         /\ Last(e) = "*" => Len(e) \in 2 .. Len(e) /\ Places(e) = Len(e) - 1 /\ Front(e) = SubSeq(e, 1, Len(e) - 1)
         /\ Last(e) # "*" => Places(e) = Len(e)
         /\ Here(e[1], l) \subseteq Meetable(stack, age, l)
         /\ \A o \in Here(e[1], l) : Decl(o) = e[1]
<1>1. /\ e \in Seq(Range(e)) /\ e # <<>>
      /\ e[1] \in TopLevel(stack[l]) \cup TopLevel(Global) \cup TopLevel(External)
  BY DEF IsExpr
<1>2. e[1] \in Objs /\ e[1] # "*"
  BY <1>1, NamesAssumption DEF TopLevel, Roots
<1>3. Len(e) \in Nat \ {0} /\ Last(e) = e[Len(e)]
  BY <1>1 DEF Last
<1>4. Last(e) = "*" => Len(e) \in 2 .. Len(e) /\ Places(e) = Len(e) - 1 /\ Front(e) = SubSeq(e, 1, Len(e) - 1)
  <2> SUFFICES ASSUME Last(e) = "*"
               PROVE  Len(e) \in 2 .. Len(e) /\ Places(e) = Len(e) - 1 /\ Front(e) = SubSeq(e, 1, Len(e) - 1)
    OBVIOUS
  <2>1. Len(e) # 1
    BY <1>2, <1>3
  <2>2. Len(e) \in 2 .. Len(e)
    BY <1>3, <2>1
  <2> QED
    BY <2>2 DEF Places, Front
<1>5. Last(e) # "*" => Places(e) = Len(e)
  BY DEF Places
<1>6. Places(e) \in 1 .. Len(e)
  BY <1>3, <1>4, <1>5
<1>7. stack[l] \in Funs \cup {Gen}
  BY DEF StackSound, Depth
<1>8. ASSUME NEW o \in Here(e[1], l)
      PROVE  o \in Meetable(stack, age, l) /\ Decl(o) = e[1]
  <2>1. o \in Instances(e[1], IF e[1] \in TopLevel(stack[l]) THEN l ELSE 0)
    BY <1>1, <1>7, <1>8, OwnerAssumption DEF Here, TopLevel
  <2>2. Decl(o) = e[1]
    BY <2>1, ObjectsAre
  <2> QED
    BY <1>1, <2>1, <2>2, HereMeets
<1> QED
  BY <1>1, <1>2, <1>3, <1>4, <1>5, <1>6, <1>8

\* What an expression comes across, its activation may get hold of, and the points-to
\* analysis knows of it.
LEMMA WalkMeets ==
  ASSUME ProgramType, StackSound(stack), NEW age, StoreSound(stack, store, age), NEW l \in 1 .. Depth,
         NEW e, IsExpr(e, stack[l]), NEW w \in Walks(e, l)
  PROVE  /\ WalkOn(w, e, l, Places(e))
         /\ \A n \in 1 .. Places(e) : w[n] \in Meetable(stack, age, l) /\ Decl(w[n]) \in PT(SubSeq(e, 1, n))
<1> DEFINE P == Places(e)
<1>1. /\ e \in Seq(Range(e)) /\ e # <<>> /\ e[1] \in Objs /\ Len(e) \in Nat \ {0} /\ P \in 1 .. Len(e)
      /\ Here(e[1], l) \subseteq Meetable(stack, age, l) /\ \A o \in Here(e[1], l) : Decl(o) = e[1]
  BY ExprIs DEF StoreSound
<1>2. Pointers
  BY DEF Pointers, StoreSound
<1> HIDE DEF P
<1>3. WalkOn(w, e, l, P)
  <2>1. P \in Nat \ {0} /\ Here(e[1], l) \subseteq Objects
    BY <1>1 DEF Meetable
  <2> QED
    BY <1>2, <2>1, WalksAre DEF P
<1> DEFINE N == {n \in Nat : n \in 1 .. P => w[n] \in Meetable(stack, age, l) /\ Decl(w[n]) \in PT(SubSeq(e, 1, n))}
<1>4. 0 \in N
  OBVIOUS
<1>5. ASSUME NEW n \in Nat, n \in N
      PROVE  n + 1 \in N
  <2> SUFFICES ASSUME n + 1 \in 1 .. P
               PROVE  w[n + 1] \in Meetable(stack, age, l) /\ Decl(w[n + 1]) \in PT(SubSeq(e, 1, n + 1))
    OBVIOUS
  <2>1. CASE n = 0
    <3>1. w[1] \in Here(e[1], l) /\ PT(SubSeq(e, 1, 1)) = {e[1]}
      BY <1>1, <1>3, PTPrefix DEF WalkOn
    <3>2. n + 1 = 1
      BY <2>1
    <3> QED
      BY <1>1, <3>1, <3>2
  <2>2. CASE n # 0
    <3> DEFINE o == w[n]
               p == w[n + 1]
               k == e[n + 1]
               S == PT(SubSeq(e, 1, n))
    <3>1. n \in 1 .. P /\ n + 1 \in 2 .. P /\ n + 1 \in 2 .. Len(e) /\ (n + 1) - 1 = n /\ n \in 1 .. Len(e)
      BY <1>1, <2>2
    <3>2. p \in OneStep(o, k)
      BY <1>3, <3>1 DEF WalkOn
    <3>3. o \in Meetable(stack, age, l) /\ o \in Objects /\ Decl(o) \in S
      BY <1>5, <3>1 DEF Meetable
    <3>4. PT(SubSeq(e, 1, n + 1)) = PTStep(S, k) /\ S \in SUBSET Objs
      BY <1>1, <3>1, PTPrefix
    <3> HIDE DEF o, p, k, S
    <3>5. CASE k = "*"
      <4>1. p \in store[o]
        BY <3>2, <3>5 DEF OneStep
      <4>2. p \in Meetable(stack, age, l) /\ Allowed(o, p)
        BY <3>3, <4>1, PointerMeets
      <4>3. Decl(p) \in PTStep(S, k)
        BY <3>3, <3>5, <4>2 DEF PTStep, Allowed
      <4> QED
        BY <3>4, <4>2, <4>3 DEF p
    <3>6. CASE k # "*"
      <4>1. /\ k \in DOMAIN Select[Decl(o)] /\ Decl(p) = Select[Decl(o)][k]
            /\ Decl(p) \in Members[Decl(o)] /\ p \in Instances(Decl(p), Level(o))
        BY <1>2, <3>2, <3>3, <3>6, OneStepIs
      <4>2. p \in Meetable(stack, age, l)
        BY <3>3, <4>1, MemberMeets DEF StoreSound
      <4>3. Decl(p) \in PTStep(S, k)
        BY <3>3, <3>6, <4>1 DEF PTStep
      <4> QED
        BY <3>4, <4>2, <4>3 DEF p
    <3> QED
      BY <3>5, <3>6
  <2> QED
    BY <2>1, <2>2
<1> HIDE DEF N
<1>6. Nat \subseteq N
  BY <1>4, <1>5, NatSets
<1>7. \A n \in 1 .. P : n \in N
  BY <1>6
<1> QED
  BY <1>3, <1>7 DEF N, P

LEMMA ValueMeets ==
  ASSUME ProgramType, StackSound(stack), NEW age, StoreSound(stack, store, age), NEW l \in 1 .. Depth,
         NEW e, IsExpr(e, stack[l]), NEW w \in Walks(e, l)
  PROVE  /\ \A p \in Value(e, w) : p \in Meetable(stack, age, l) /\ Decl(p) \in PT(e)
         /\ Last(w) \in Meetable(stack, age, l)
         /\ Last(e) = "*" => Decl(Last(w)) \in PT(Front(e)) /\ Front(e) = SubSeq(e, 1, Len(e) - 1)
         /\ PT(e) \in SUBSET Objs
<1>1. /\ e \in Seq(Range(e)) /\ e # <<>> /\ e[1] \in Objs /\ Len(e) \in Nat \ {0} /\ Places(e) \in 1 .. Len(e)
      /\ Last(e) = e[Len(e)]
      /\ Last(e) = "*" => Len(e) \in 2 .. Len(e) /\ Places(e) = Len(e) - 1 /\ Front(e) = SubSeq(e, 1, Len(e) - 1)
      /\ Last(e) # "*" => Places(e) = Len(e)
  BY ExprIs DEF StoreSound
<1>2. /\ WalkOn(w, e, l, Places(e))
      /\ \A n \in 1 .. Places(e) : w[n] \in Meetable(stack, age, l) /\ Decl(w[n]) \in PT(SubSeq(e, 1, n))
  BY WalkMeets
<1>3. Last(w) = w[Places(e)] /\ Places(e) \in 1 .. Places(e)
  BY <1>1, <1>2 DEF WalkOn, Last
<1>4. Last(w) \in Meetable(stack, age, l) /\ Decl(Last(w)) \in PT(SubSeq(e, 1, Places(e)))
  BY <1>2, <1>3
<1>5. /\ PT(SubSeq(e, 1, Len(e))) = PT(e) /\ PT(e) \in SUBSET Objs
      /\ \A n \in 2 .. Len(e) : PT(SubSeq(e, 1, n)) = PTStep(PT(SubSeq(e, 1, n - 1)), e[n])
  <2>1. Len(e) \in 1 .. Len(e)
    BY <1>1
  <2> QED
    BY <1>1, <2>1, PTPrefix
<1>6. CASE Last(e) = "*"
  <2>1. PT(e) = PTStep(PT(Front(e)), "*")
    BY <1>1, <1>5, <1>6
  <2>2. Decl(Last(w)) \in PT(Front(e))
    BY <1>1, <1>4, <1>6
  <2>3. ASSUME NEW p \in Value(e, w)
        PROVE  p \in Meetable(stack, age, l) /\ Decl(p) \in PT(e)
    <3>1. p \in store[Last(w)]
      BY <1>6, <2>3 DEF Value
    <3>2. p \in Meetable(stack, age, l) /\ Allowed(Last(w), p)
      BY <1>4, <3>1, PointerMeets
    <3> QED
      BY <2>1, <2>2, <3>2 DEF PTStep, Allowed
  <2> QED
    BY <1>1, <1>4, <1>5, <1>6, <2>2, <2>3
<1>7. CASE Last(e) # "*"
  BY <1>1, <1>4, <1>5, <1>7 DEF Value
<1> QED
  BY <1>6, <1>7

----------------------------------------------------------------------------
(***************************************************************************)
(* What objects get.                                                       *)
(***************************************************************************)
\* The parts of two structures that have the same names are parts of both.
LEMMA AlikeIs ==
  ASSUME NEW d \in Objs, NEW c \in Objs, NEW p \in Alike[<<d, c>>]
  PROVE  p = <<d, c>> \/ (p[1] \in SubObjects(Members[d]) /\ p[2] \in SubObjects(Members[c]))
<1> DEFINE D == Objs \X Objs
           From == {<<d, c>>}
           A == SubObjects(Members[d])
           B == SubObjects(Members[c])
           T == {q \in D : q = <<d, c>> \/ (q[1] \in A /\ q[2] \in B)}
<1>1. Alike[<<d, c>>] = Least(D, SameNames, From)
  BY DEF Alike
<1>2. IsFiniteSet(D)
  BY FiniteAssumption, FS_Product
<1>3. /\ A \subseteq Objs /\ B \subseteq Objs /\ Members[d] \subseteq A /\ Members[c] \subseteq B
      /\ (\A a \in A : Members[a] \subseteq A) /\ (\A b \in B : Members[b] \subseteq B)
  <2>1. Members[d] \in SUBSET Objs /\ Members[c] \in SUBSET Objs
    BY OwnerAssumption
  <2> QED
    BY <2>1, SubObjectsAre
<1> HIDE DEF A, B
<1>4. ASSUME NEW q \in D, NEW r \in SameNames[q]
      PROVE  r \in D /\ r[1] \in Members[q[1]] /\ r[2] \in Members[q[2]]
  <2>1. PICK k \in DOMAIN Select[q[1]] \cap DOMAIN Select[q[2]] : r = <<Select[q[1]][k], Select[q[2]][k]>>
    BY <1>4 DEF SameNames
  <2>2. q[1] \in Objs /\ q[2] \in Objs
    OBVIOUS
  <2>3. Members[q[1]] = Range(Select[q[1]]) /\ Members[q[2]] = Range(Select[q[2]])
    BY <2>2, SelectAssumption
  <2>4. Select[q[1]][k] \in Members[q[1]] /\ Select[q[2]][k] \in Members[q[2]]
    BY <2>3 DEF Range
  <2>5. Members[q[1]] \subseteq Objs /\ Members[q[2]] \subseteq Objs
    BY <2>2, OwnerAssumption
  <2> QED
    BY <2>1, <2>4, <2>5
<1>5. SameNames \in [D -> SUBSET D]
  <2>1. \A q \in D : SameNames[q] \subseteq D
    BY <1>4
  <2> QED
    BY <2>1 DEF SameNames
<1>6. From \in SUBSET D /\ T \in SUBSET D /\ From \subseteq T
  OBVIOUS
<1>7. \A q \in T : SameNames[q] \subseteq T
  <2> SUFFICES ASSUME NEW q \in T, NEW r \in SameNames[q]
               PROVE  r \in T
    OBVIOUS
  <2>1. Members[q[1]] \subseteq A /\ Members[q[2]] \subseteq B
    BY <1>3
  <2>2. r \in D /\ r[1] \in Members[q[1]] /\ r[2] \in Members[q[2]]
    BY <1>4
  <2> QED
    BY <2>1, <2>2
<1> HIDE DEF D, From, T
<1>8. Closed(SameNames, T)
  BY <1>7 DEF Closed
<1>9. Least(D, SameNames, From) \subseteq T
  BY <1>2, <1>5, <1>6, <1>8, LeastIs
<1>10. p \in T
  BY <1>1, <1>9
<1> QED
  BY <1>10 DEF T, A, B

\* An object gets what the activation may get hold of, and what it may point to.
LEMMA GivenMeets ==
  ASSUME ProgramType, StackSound(stack), NEW age, StoreSound(stack, store, age), NEW l \in 1 .. Depth,
         NEW e, NEW c, e # <<>> => IsExpr(e, stack[l]) /\ c[e] \in Walks(e, l),
         NEW o \in Objects, NEW r, Decl(o) \in PT(r), e # <<>> => Covers(pt, r, e),
         NEW x \in Whole(o), NEW p \in Given(x, o, e, c)
  PROVE  p \in Meetable(stack, age, l) /\ Allowed(x, p)
<1>1. IsExpr(e, stack[l]) /\ c[e] \in Walks(e, l) /\ Covers(pt, r, e) /\ e # <<>>
  BY DEF Given
<1>2. Decl(o) \in Objs /\ x \in Objects /\ Decl(x) \in Objs
  BY WholeIs, ObjectsAre
<1>3. /\ PT(e) \subseteq pt[Decl(o)]
      /\ IF Last(e) # "*" THEN Members[Decl(o)] = {}
         ELSE \A d \in PT(Front(e)) : \A q \in Alike[<<Decl(o), d>>] : pt[q[2]] \subseteq pt[q[1]]
  BY <1>1 DEF Covers, PT
<1>4. /\ \A q \in Value(e, c[e]) : q \in Meetable(stack, age, l) /\ Decl(q) \in PT(e)
      /\ Last(c[e]) \in Meetable(stack, age, l)
      /\ Last(e) = "*" => Decl(Last(c[e])) \in PT(Front(e))
  BY <1>1, ValueMeets
<1>5. CASE x = o
  <2>1. p \in Value(e, c[e])
    BY <1>1, <1>5 DEF Given
  <2> QED
    BY <1>3, <1>4, <1>5, <2>1 DEF Allowed
<1>6. CASE x # o
  <2> DEFINE from == Last(c[e])
  <2>1. PICK y \in DOMAIN store : /\ <<Decl(x), Decl(y)>> \in Alike[<<Decl(o), Decl(from)>>]
                                  /\ Level(y) = Level(from) /\ p \in store[y]
    BY <1>1, <1>6 DEF Given
  <2>2. from \in Objects /\ Decl(from) \in Objs /\ y \in Objects
    BY <1>4, <2>1, ObjectsAre DEF Meetable, StoreSound
  <2>3. Decl(x) \in SubObjects(Members[Decl(o)])
    BY <1>6, WholeIs
  <2>4. Members[Decl(o)] # {}
    BY <1>2, <2>3, PartsOfOne
  <2>5. Decl(x) # Decl(o)
    BY <1>2, <2>3, WholeAssumption DEF SubObjects
  <2>6. Decl(y) \in SubObjects(Members[Decl(from)])
    BY <1>2, <2>1, <2>2, <2>5, AlikeIs
  <2>7. y \in Whole(from)
    BY <2>1, <2>2, <2>6, WholeIs
  <2>8. y \in Meetable(stack, age, l)
    BY <1>4, <2>7, WholeMeets DEF StoreSound
  <2>9. p \in Meetable(stack, age, l) /\ Allowed(y, p)
    BY <2>1, <2>8, PointerMeets
  <2>10. pt[Decl(y)] \subseteq pt[Decl(x)]
    <3>1. \A q \in Alike[<<Decl(o), Decl(from)>>] : pt[q[2]] \subseteq pt[q[1]]
      BY <1>3, <1>4, <2>4
    <3> DEFINE q == <<Decl(x), Decl(y)>>
    <3>2. pt[q[2]] \subseteq pt[q[1]]
      BY <2>1, <3>1
    <3> QED
      BY <3>2
  <2> QED
    BY <2>9, <2>10 DEF Allowed
<1> QED
  BY <1>5, <1>6

Evaluable(E, c, l) == \A e \in E : IsExpr(e, stack[l]) /\ c[e] \in Walks(e, l)
Takes(To, E)       == \A o \in To : \E r : Decl(o) \in PT(r) /\ \A e \in E : Covers(pt, r, e)

LEMMA StoredMeets ==
  ASSUME ProgramType, StackSound(stack), NEW age, StoreSound(stack, store, age), NEW l \in 1 .. Depth,
         NEW E, NEW c, Evaluable(E, c, l), NEW To \in SUBSET Objects, Takes(To, E),
         NEW st \in Stored(To, E, c)
  PROVE  /\ DOMAIN st = Objects
         /\ \A x \in Objects : x \notin Written(To) => st[x] = store[x]
         /\ \A x \in Written(To) : \A p \in st[x] : p \in Meetable(stack, age, l) /\ Allowed(x, p)
<1>1. DOMAIN store = Objects
  BY DEF StoreSound
<1>2. PICK from \in [To -> IF E = {} THEN {<<>>} ELSE E] :
        st = [x \in DOMAIN store |->
                IF x \in Written(To) THEN LET o == CHOOSE o \in To : x \in Whole(o) IN Given(x, o, from[o], c)
                ELSE store[x]]
  BY DEF Stored
<1>3. DOMAIN st = Objects /\ \A x \in Objects : x \notin Written(To) => st[x] = store[x]
  BY <1>1, <1>2
<1>4. ASSUME NEW x \in Written(To), NEW p \in st[x]
      PROVE  p \in Meetable(stack, age, l) /\ Allowed(x, p)
  <2> DEFINE o == CHOOSE o \in To : x \in Whole(o)
  <2>1. o \in To /\ x \in Whole(o)
    BY DEF Written
  <2>2. x \in Objects /\ o \in Objects
    BY <2>1, WholeIs
  <2>3. p \in Given(x, o, from[o], c)
    BY <1>1, <1>2, <1>4, <2>2
  <2> HIDE DEF o
  <2>4. PICK r : Decl(o) \in PT(r) /\ \A e \in E : Covers(pt, r, e)
    BY <2>1 DEF Takes
  <2> DEFINE e == from[o]
  <2>5. e = <<>> \/ e \in E
    BY <1>2, <2>1
  <2>6. e # <<>> => IsExpr(e, stack[l]) /\ c[e] \in Walks(e, l) /\ Covers(pt, r, e)
    BY <2>4, <2>5 DEF Evaluable
  <2>7. p \in Given(x, o, e, c)
    BY <2>3
  <2> HIDE DEF e
  <2> QED
    BY <2>1, <2>2, <2>4, <2>6, <2>7, GivenMeets
<1> QED
  BY <1>3, <1>4

----------------------------------------------------------------------------
(***************************************************************************)
(* What an activation may come across, and what it reads and kills there.  *)
(***************************************************************************)
\* Objects that there are, and that no activation up to level l has for its own by the same
\* name.
Visible(sk, l) ==
  {o \in Objects : /\ Level(o) # 0 => Level(o) <= Len(sk) /\ Owner[Decl(o)] = sk[Level(o)]
                   /\ \A k \in 1 .. l : Level(o) < k => Decl(o) \notin truly[sk[k]]}

LEMMA TrulyIs ==
  ASSUME ProgramType, LocalsKnown, NEW f \in Funs \cup {Gen}
  PROVE  truly[f] = LocalsOf(f) /\ \A d \in truly[f] : d \in Objs /\ Owner[d] = f
<1>1. truly[f] = LocalsOf(f)
  BY DEF LocalsKnown
<1> QED
  BY <1>1, LocalsOfIs DEF ProgramType

LEMMA VisibleIs ==
  ASSUME ProgramType, LocalsKnown, StackSound(stack), NEW age, Aged(stack, age), NEW l \in 1 .. Depth
  PROVE  Meetable(stack, age, l) \subseteq Visible(stack, l)
<1> SUFFICES ASSUME NEW o \in Meetable(stack, age, l)
             PROVE  o \in Visible(stack, l)
  OBVIOUS
<1>1. o \in Objects /\ Alive(stack, age, o)
  BY DEF Meetable
<1>2. Level(o) # 0 => Level(o) <= Depth /\ Owner[Decl(o)] = stack[Level(o)]
  <2>1. stack \in Seq(Funs \cup {Gen})
    BY DEF StackSound
  <2>2. Level(o) # 0 => age[o] = Level(o)
    BY <1>1, <2>1, AgesAre
  <2> QED
    BY <1>1, <2>2 DEF Alive, Depth
<1>3. ASSUME NEW k \in 1 .. l, Level(o) < k, Decl(o) \in truly[stack[k]]
      PROVE  FALSE
  <2>1. stack[k] \in Funs \cup {Gen} /\ Depth \in Nat
    BY DEF StackSound, Depth
  <2>2. Decl(o) \in LocalsOf(stack[k])
    BY <1>3, <2>1, TrulyIs
  <2>3. \A j \in 1 .. l : stack[j] = stack[k] => j <= Level(o)
    BY <2>1, <2>2, OneActivation
  <2>4. k <= Level(o)
    BY <2>3
  <2>5. Level(o) \in Nat
    BY <1>1, ObjectsAre
  <2> QED
    BY <1>3, <2>4, <2>5
<1> QED
  BY <1>1, <1>2, <1>3 DEF Visible, Depth

\* What belongs to no activation is no activation's own.
LEMMA OthersVisible ==
  ASSUME ProgramType, LocalsKnown, StackSound(stack), NEW l \in 1 .. Depth,
         NEW o \in Objects, Level(o) = 0
  PROVE  o \in Visible(stack, l)
<1>1. Owner[Decl(o)] \notin Funs \cup {Gen}
  BY ObjectsAre
<1>2. \A k \in 1 .. l : stack[k] \in Funs \cup {Gen}
  BY DEF StackSound, Depth
<1> QED
  BY <1>1, <1>2, TrulyIs DEF Visible

\* What expressions read is in use where they are evaluated.
LEMMA ReadsAre ==
  ASSUME ProgramType, LocalsKnown, StackSound(stack), NEW age, StoreSound(stack, store, age),
         NEW l \in 1 .. Depth, NEW E, \A e \in E : IsExpr(e, stack[l]), NEW c \in Evals(E, l)
  PROVE  \A o \in Reads(c) : o \in Visible(stack, l) /\ Decl(o) \in DFexpr(E)
<1>1. DOMAIN c = E /\ \A e \in E : c[e] \in Walks(e, l)
  BY DEF Evals
<1> SUFFICES ASSUME NEW o \in Reads(c)
             PROVE  o \in Visible(stack, l) /\ Decl(o) \in DFexpr(E)
  OBVIOUS
<1>2. PICK e \in E : o \in UNION {Whole(c[e][n - 1]) : n \in {k \in DOMAIN e : e[k] = "*"}}
  BY <1>1 DEF Reads
<1>3. PICK n \in DOMAIN e : e[n] = "*" /\ o \in Whole(c[e][n - 1])
  BY <1>2
<1>4. Aged(stack, age)
  BY DEF StoreSound
<1>5. /\ e \in Seq(Range(e)) /\ e # <<>> /\ e[1] \in Objs /\ e[1] # "*" /\ Len(e) \in Nat \ {0}
      /\ Places(e) \in 1 .. Len(e) /\ Last(e) = e[Len(e)]
      /\ Last(e) = "*" => Places(e) = Len(e) - 1
      /\ Last(e) # "*" => Places(e) = Len(e)
  BY <1>4, ExprIs
<1>6. n \in 2 .. Len(e) /\ n - 1 \in 1 .. Places(e) /\ n - 1 \in 1 .. Len(e)
  <2>1. n \in 1 .. Len(e) /\ n # 1
    BY <1>3, <1>5
  <2>2. n # Len(e) \/ Last(e) = "*"
    BY <1>3, <1>5
  <2>3. Places(e) = Len(e) \/ (Places(e) = Len(e) - 1 /\ Len(e) \in Nat)
    BY <1>5
  <2>4. CASE n = Len(e)
    BY <1>5, <2>1, <2>2, <2>4
  <2>5. CASE n # Len(e)
    BY <1>5, <2>1, <2>3, <2>5
  <2> QED
    BY <2>4, <2>5
<1> DEFINE p == c[e][n - 1]
<1>7. p \in Meetable(stack, age, l) /\ Decl(p) \in PT(SubSeq(e, 1, n - 1))
  BY <1>1, <1>6, WalkMeets
<1>8. p \in Objects /\ o \in Whole(p)
  BY <1>3, <1>7 DEF Meetable
<1> HIDE DEF p
<1>9. o \in Visible(stack, l)
  BY <1>4, <1>7, <1>8, WholeMeets, VisibleIs
<1>10. Decl(o) \in SubObjects({Decl(p)}) /\ Decl(p) \in Objs
  BY <1>8, WholeIs, ObjectsAre
<1>11. PT(SubSeq(e, 1, n - 1)) \in SUBSET Objs
  BY <1>5, <1>6, PTPrefix
<1>12. Decl(o) \in SubObjects(PT(SubSeq(e, 1, n - 1)))
  BY <1>7, <1>10, <1>11, PartsOfOne
<1>13. Decl(o) \in DFexpr(E)
  BY <1>3, <1>12 DEF DFexpr
<1> QED
  BY <1>9, <1>13

\* What is said to be single stands for the object that is written.
OwnKills(s) == \A d \in Kills(s) : Owner[d] \in Funs \cup {Gen} => d \in truly[Owner[d]]

LEMMA OneIs ==
  ASSUME NEW S \in SUBSET Objs, NEW d \in One(S)
  PROVE  S = {d} /\ d \in unique
<1>1. Cardinality(S) = 1 /\ d \in S /\ d \in unique
  BY DEF One
<1>2. IsFiniteSet(S)
  BY FiniteAssumption, FS_Subset
<1>3. PICK x : S = {x}
  BY <1>1, <1>2, FS_Singleton
<1> QED
  BY <1>1, <1>3

\* An object whose declaration is killed is written, whatever the target is found to be.
LEMMA KillsHit ==
  ASSUME ProgramType, LocalsKnown, StackSound(stack), NEW age, StoreSound(stack, store, age),
         NEW l \in 1 .. Depth, NEW s, OwnKills(s), s.lhs # <<>>, IsExpr(s.lhs, stack[l]),
         NEW w \in Walks(s.lhs, l), NEW p \in Value(s.lhs, w), Level(p) <= l,
         NEW o \in Visible(stack, l), Level(o) <= l, Decl(o) \in Kills(s)
  PROVE  o \in Whole(p)
<1> DEFINE e == s.lhs
           S == PT(e)
           d == Decl(p)
<1>1. p \in Meetable(stack, age, l) /\ d \in S /\ S \in SUBSET Objs
  BY ValueMeets
<1>2. p \in Objects /\ o \in Objects /\ d \in Objs
  BY <1>1, ObjectsAre DEF Meetable, Visible
<1>3. Kills(s) = SubObjects(One(S))
  BY DEF Kills, Target
<1>4. One(S) # {}
  <2>1. SUFFICES ASSUME One(S) = {}
                 PROVE  FALSE
    OBVIOUS
  <2>2. \A T \in SUBSET Objs : (\A c \in T : Members[c] \subseteq T) => SubObjects({}) \subseteq T
    BY SubObjectsAre
  <2>3. SubObjects({}) \subseteq {}
    BY <2>2
  <2> QED
    BY <1>3, <2>1, <2>3
<1>5. PICK x \in One(S) : TRUE
  BY <1>4
<1>6. S = {d} /\ d \in unique /\ One(S) = {d}
  <2>1. S = {x} /\ x \in unique
    BY <1>1, <1>5, OneIs
  <2>2. x = d
    BY <1>1, <2>1
  <2>3. \A y \in One(S) : y = d
    BY <1>1, <2>1, <2>2 DEF One
  <2> QED
    BY <1>5, <2>1, <2>2, <2>3
<1> HIDE DEF d, S
<1>7. /\ Decl(o) \in SubObjects({d}) /\ SubObjects({d}) = {d} \cup SubObjects(Members[d])
      /\ Owner[Decl(o)] = Owner[d] /\ d \in Kills(s)
  <2>1. d \in Objs /\ {d} \in SUBSET Objs
    BY <1>2
  <2>2. d \in SubObjects({d})
    BY <2>1, SubObjectsAre
  <2>3. /\ SubObjects({d}) = {d} \cup SubObjects(Members[d])
        /\ \A c \in SubObjects({d}) : Owner[c] = Owner[d]
    BY <2>1, PartsOfOne
  <2>4. Kills(s) = SubObjects({d})
    BY <1>3, <1>6
  <2> HIDE DEF d
  <2> QED
    BY <2>2, <2>3, <2>4
<1>8. Level(o) = Level(p)
  <2>1. CASE Owner[d] \notin Funs \cup {Gen}
    <3>1. Level(o) = 0 /\ Level(p) = 0
      BY <1>2, <1>7, <2>1, ObjectsAre DEF d
    <3> QED
      BY <3>1
  <2>2. CASE Owner[d] \in Funs \cup {Gen}
    <3> DEFINE f == Owner[d]
    <3>1. d \in truly[f] /\ Decl(o) \in truly[f]
      BY <1>7, <2>2 DEF OwnKills
    <3>2. d \in LocalsOf(f)
      BY <2>2, <3>1, TrulyIs
    <3>3. Aged(stack, age)
      BY DEF StoreSound
    <3>4. /\ Level(p) \in 1 .. Depth /\ stack[Level(p)] = f
          /\ \A k \in 1 .. l : stack[k] = f => k <= Level(p)
      <4> HIDE DEF f
      <4> QED
        BY <1>1, <2>2, <3>2, <3>3, OneActivation DEF d, f
    <3>5. Level(o) # 0 /\ Level(o) \in Nat /\ Level(p) \in Nat
      BY <1>2, <1>7, <2>2, ObjectsAre
    <3>6. stack[Level(o)] = f
      BY <1>7, <3>5 DEF Visible
    <3>7. l \in Nat
      BY DEF StackSound, Depth
    <3>8. Level(o) \in 1 .. l /\ Level(p) \in 1 .. l
      BY <3>4, <3>5, <3>7
    <3>9. Level(o) <= Level(p)
      BY <3>4, <3>6, <3>8
    <3>10. ~ (Level(o) < Level(p))
      BY <3>1, <3>4, <3>8 DEF Visible
    <3> QED
      BY <3>5, <3>9, <3>10
  <2> QED
    BY <2>1, <2>2
<1>9. CASE Decl(o) = d
  <2>1. d \notin Elements
    <3>1. ~ InArray(d)
      BY <1>6, GlobalUniqueIs DEF LocalsKnown
    <3> QED
      BY <1>2, <3>1, NotInArray
  <2>2. o = <<d, Level(o), 1>> /\ p = <<d, Level(p), 1>>
    BY <1>2, <1>9, <2>1, ObjectsAre DEF d
  <2>3. o = p
    BY <1>8, <2>2
  <2> QED
    BY <1>2, <2>3, WholeIs
<1>10. CASE Decl(o) # d
  <2>1. Decl(o) \in SubObjects(Members[d])
    BY <1>7, <1>10
  <2> QED
    BY <1>2, <1>8, <2>1, WholeIs DEF d
<1> QED
  BY <1>9, <1>10

\* What a target is found to be may be written, it says.
LEMMA TargetsMayBe ==
  ASSUME ProgramType, LocalsKnown, StackSound(stack), NEW age, StoreSound(stack, store, age),
         NEW l \in 1 .. Depth, NEW s, s.lhs # <<>>, IsExpr(s.lhs, stack[l]),
         NEW w \in Walks(s.lhs, l), NEW p \in Value(s.lhs, w)
  PROVE  /\ p \in Objects /\ p \in Meetable(stack, age, l) /\ Level(p) \in Nat /\ Level(p) <= Depth
         /\ Decl(p) \in PT(s.lhs)
         /\ \A o \in Whole(p) : o \in Visible(stack, l) /\ o \in Objects /\ Decl(o) \in MayWrite(s)
<1>1. p \in Meetable(stack, age, l) /\ Decl(p) \in PT(s.lhs) /\ PT(s.lhs) \in SUBSET Objs
  BY ValueMeets
<1>2. p \in Objects
  BY <1>1 DEF Meetable
<1>3. Aged(stack, age)
  BY DEF StoreSound
<1>4. Level(p) \in Nat /\ Level(p) <= Depth
  <2>1. stack \in Seq(Funs \cup {Gen}) /\ Depth \in Nat
    BY DEF StackSound, Depth
  <2>2. Level(p) # 0 => age[p] = Level(p)
    BY <1>2, <1>3, <2>1, AgesAre
  <2>3. Level(p) \in Nat
    BY <1>2, ObjectsAre
  <2> QED
    BY <1>1, <2>1, <2>2, <2>3 DEF Meetable, Alive, Depth
<1>5. ASSUME NEW o \in Whole(p)
      PROVE  o \in Visible(stack, l) /\ o \in Objects /\ Decl(o) \in MayWrite(s)
  <2>1. o \in Visible(stack, l)
    BY <1>1, <1>3, WholeMeets, VisibleIs
  <2>2. Decl(o) \in SubObjects({Decl(p)}) /\ Decl(p) \in Objs
    BY <1>2, WholeIs, ObjectsAre
  <2>3. Decl(o) \in SubObjects(PT(s.lhs))
    BY <1>1, <2>2, PartsOfOne
  <2>4. s.lhs \in Target(s)
    BY DEF Target
  <2>5. Decl(o) \in MayWrite(s)
    BY <2>3, <2>4 DEF MayWrite
  <2> QED
    BY <2>1, <2>5 DEF Visible
<1> QED
  BY <1>1, <1>2, <1>4, <1>5

----------------------------------------------------------------------------
(***************************************************************************)
(* Where the activations are.                                              *)
(***************************************************************************)
Place == Nat \X Nat

\* Where an activation is: in a block; each but the last one is at a call of the next one.
NodeAt(sk, pl, k)  == <<sk[k], pl[k][1], pl[k][2]>>
BlockAt(sk, pl, k) == <<sk[k], pl[k][1], 0>>

AtNode(sk, pl, k) ==
  /\ sk[k] \in DOMAIN code /\ pl[k][1] \in DOMAIN code[sk[k]]
  /\ pl[k][2] \in 1 .. Len(Stmts(sk[k], pl[k][1])) + 1

AtCall(sk, pl, k) ==
  NodeAt(sk, pl, k) \in CallNodes /\ sk[k + 1] \in FunDfs(StmtAt(NodeAt(sk, pl, k)))

PlacesSound(sk, pl) ==
  /\ Len(pl) = Len(sk) /\ pl \in Seq(Place)
  /\ \A k \in 1 .. Len(sk) : AtNode(sk, pl, k)
  /\ \A k \in 1 .. Len(sk) - 1 : AtCall(sk, pl, k)

LEMMA PlaceIs ==
  /\ \A b, i \in Nat : <<b, i>> \in Place
  /\ \A x \in Place : x = <<x[1], x[2]>> /\ x[1] \in Nat /\ x[2] \in Nat
BY DEF Place

LEMMA FrontIs ==
  ASSUME NEW S, NEW s \in Seq(S), NEW n \in Nat, Len(s) = n + 1
  PROVE  Front(s) \in Seq(S) /\ Len(Front(s)) = n /\ \A i \in 1 .. n : Front(s)[i] = s[i]
<1>1. Front(s) = SubSeq(s, 1, n)
  BY DEF Front
<1> QED
  BY <1>1

LEMMA MovedIs ==
  ASSUME NEW pl \in Seq(Place), NEW n \in Nat \ {0}, Len(pl) = n
  PROVE  /\ Moved(pl) \in Seq(Place) /\ Len(Moved(pl)) = n
         /\ \A k \in 1 .. n : Moved(pl)[k][1] = pl[k][1]
         /\ \A k \in 1 .. n - 1 : Moved(pl)[k] = pl[k]
         /\ Moved(pl)[n][2] = pl[n][2] + 1
<1>1. DOMAIN pl = 1 .. n /\ \A k \in 1 .. n : pl[k] \in Place
  OBVIOUS
<1> DEFINE x == pl[n]
           y == [x EXCEPT ![2] = @ + 1]
<1>2. x = <<x[1], x[2]>> /\ x[1] \in Nat /\ x[2] \in Nat
  BY <1>1, PlaceIs
<1>3. y = <<x[1], x[2] + 1>>
  BY <1>2
<1>4. y \in Place /\ y[1] = x[1] /\ y[2] = x[2] + 1
  BY <1>2, <1>3, PlaceIs
<1>5. Moved(pl) = [pl EXCEPT ![n] = y]
  BY DEF Moved
<1> HIDE DEF x, y
<1>6. Moved(pl)[n] = y /\ \A k \in 1 .. n - 1 : Moved(pl)[k] = pl[k]
  BY <1>1, <1>5
<1>7. Moved(pl) \in Seq(Place) /\ Len(Moved(pl)) = n
  BY <1>1, <1>4, <1>5
<1>8. \A k \in 1 .. n : Moved(pl)[k][1] = pl[k][1]
  <2> SUFFICES ASSUME NEW k \in 1 .. n
               PROVE  Moved(pl)[k][1] = pl[k][1]
    OBVIOUS
  <2>1. CASE k = n
    BY <1>4, <1>6, <2>1 DEF x
  <2>2. CASE k \in 1 .. n - 1
    BY <1>6, <2>2
  <2> QED
    BY <2>1, <2>2
<1> QED
  BY <1>4, <1>6, <1>7, <1>8 DEF x

\* What an activation is at.
LEMMA AtNodeIs ==
  ASSUME CodeKnown, NEW sk, NEW pl, NEW k, AtNode(sk, pl, k)
  PROVE  LET n == NodeAt(sk, pl, k)
             b == BlockAt(sk, pl, k)
         IN  /\ n \in StmtNodes \cup JumpNodes /\ b \in BlockNodes /\ n \in Within(b)
             /\ n[1] = sk[k] /\ n[2] = pl[k][1] /\ n[3] = pl[k][2]
             /\ pl[k][1] \in Nat /\ pl[k][2] \in Nat \ {0} /\ Len(Stmts(sk[k], pl[k][1])) \in Nat
             /\ n \in StmtNodes <=> pl[k][2] <= Len(Stmts(sk[k], pl[k][1]))
             /\ n \in JumpNodes <=> pl[k][2] > Len(Stmts(sk[k], pl[k][1]))
<1> DEFINE n == NodeAt(sk, pl, k)
           b == BlockAt(sk, pl, k)
           L == Len(Stmts(sk[k], pl[k][1]))
<1>1. n = <<n[1], n[2], n[3]>> /\ n[1] = sk[k] /\ n[2] = pl[k][1] /\ n[3] = pl[k][2]
  BY DEF NodeAt
<1>2. b = <<b[1], b[2], 0>> /\ b[1] = sk[k] /\ b[2] = pl[k][1]
  BY DEF BlockAt
<1>3. /\ sk[k] \in DOMAIN code /\ pl[k][1] \in DOMAIN code[sk[k]] /\ pl[k][2] \in 1 .. L + 1
  BY DEF AtNode
<1>4. L \in Nat /\ pl[k][1] \in Nat
  BY <1>3, CodeIs
<1> HIDE DEF n, b
<1>5. b \in BlockNodes
  BY <1>2, <1>3, NodesAre
<1>6. n \in StmtNodes <=> n[3] \in 1 .. Len(Stmts(n[1], n[2]))
  BY <1>1, <1>3, NodesAre
<1>7. n \in JumpNodes <=> n[3] = Len(Stmts(n[1], n[2])) + 1
  BY <1>1, <1>3, NodesAre
<1> HIDE DEF L
<1>8. n \in StmtNodes <=> pl[k][2] <= L
  BY <1>1, <1>3, <1>4, <1>6 DEF L
<1>9. n \in JumpNodes <=> pl[k][2] > L
  BY <1>1, <1>3, <1>4, <1>7 DEF L
<1>10. n \in StmtNodes \cup JumpNodes
  BY <1>3, <1>4, <1>8, <1>9
<1>11. n \in Within(b)
  BY <1>1, <1>2, <1>10 DEF Within
<1> QED
  BY <1>1, <1>3, <1>4, <1>5, <1>8, <1>9, <1>10, <1>11 DEF n, b, L

\* The statement has been executed; the jump has been taken; a call has begun and ended.
LEMMA MovePlaces ==
  ASSUME CodeKnown, NEW sk, NEW pl, PlacesSound(sk, pl), Len(sk) \in Nat \ {0},
         NodeAt(sk, pl, Len(sk)) \in StmtNodes
  PROVE  /\ PlacesSound(sk, Moved(pl))
         /\ NodeAt(sk, Moved(pl), Len(sk)) = Following(NodeAt(sk, pl, Len(sk)))
         /\ \A k \in 1 .. Len(sk) : BlockAt(sk, Moved(pl), k) = BlockAt(sk, pl, k)
         /\ \A k \in 1 .. Len(sk) - 1 : NodeAt(sk, Moved(pl), k) = NodeAt(sk, pl, k)
<1> DEFINE n == Len(sk)
           mv == Moved(pl)
<1>1. Len(pl) = n /\ pl \in Seq(Place) /\ n \in Nat \ {0}
  BY DEF PlacesSound
<1>2. /\ mv \in Seq(Place) /\ Len(mv) = n
      /\ \A k \in 1 .. n : mv[k][1] = pl[k][1]
      /\ \A k \in 1 .. n - 1 : mv[k] = pl[k]
      /\ mv[n][2] = pl[n][2] + 1
  BY <1>1, MovedIs
<1> HIDE DEF mv
<1>3. \A k \in 1 .. n : BlockAt(sk, mv, k) = BlockAt(sk, pl, k)
  BY <1>2 DEF BlockAt
<1>4. \A k \in 1 .. n - 1 : NodeAt(sk, mv, k) = NodeAt(sk, pl, k)
  BY <1>2 DEF NodeAt
<1>5. NodeAt(sk, mv, n) = Following(NodeAt(sk, pl, n))
  <2>1. n \in 1 .. n
    BY <1>1
  <2> QED
    BY <1>2, <2>1 DEF NodeAt, Following
<1>6. \A k \in 1 .. n - 1 : AtCall(sk, mv, k) /\ AtNode(sk, mv, k)
  <2> SUFFICES ASSUME NEW k \in 1 .. n - 1
               PROVE  AtCall(sk, mv, k) /\ AtNode(sk, mv, k)
    OBVIOUS
  <2>1. k \in 1 .. n /\ AtCall(sk, pl, k) /\ AtNode(sk, pl, k)
    BY <1>1 DEF PlacesSound
  <2>2. AtCall(sk, mv, k)
    BY <1>4, <2>1 DEF AtCall
  <2>3. AtNode(sk, mv, k)
    BY <1>2, <2>1 DEF AtNode
  <2> QED
    BY <2>2, <2>3
<1>7. AtNode(sk, mv, n)
  <2>1. n \in 1 .. n
    BY <1>1
  <2>2. AtNode(sk, pl, n)
    BY <2>1 DEF PlacesSound
  <2>3. /\ pl[n][2] \in Nat \ {0} /\ pl[n][2] <= Len(Stmts(sk[n], pl[n][1]))
        /\ Len(Stmts(sk[n], pl[n][1])) \in Nat
    BY <2>2, AtNodeIs
  <2>4. mv[n][1] = pl[n][1]
    BY <1>2, <2>1
  <2>5. mv[n][2] \in 1 .. Len(Stmts(sk[n], mv[n][1])) + 1
    BY <1>2, <2>3, <2>4
  <2> QED
    BY <2>2, <2>4, <2>5 DEF AtNode
<1>8. PlacesSound(sk, mv)
  <2>1. \A k \in 1 .. n : AtNode(sk, mv, k)
    BY <1>1, <1>6, <1>7
  <2> QED
    BY <1>2, <1>6, <2>1 DEF PlacesSound
<1> QED
  BY <1>3, <1>4, <1>5, <1>8 DEF mv

LEMMA JumpPlaces ==
  ASSUME CodeKnown, NEW sk, NEW pl, PlacesSound(sk, pl), Len(sk) \in Nat \ {0},
         NEW b \in DOMAIN code[sk[Len(sk)]]
  PROVE  LET jp == [pl EXCEPT ![Len(sk)] = <<b, 1>>]
         IN  /\ PlacesSound(sk, jp)
             /\ NodeAt(sk, jp, Len(sk)) = <<sk[Len(sk)], b, 1>>
             /\ BlockAt(sk, jp, Len(sk)) = <<sk[Len(sk)], b, 0>>
             /\ \A k \in 1 .. Len(sk) - 1 : /\ BlockAt(sk, jp, k) = BlockAt(sk, pl, k)
                                            /\ NodeAt(sk, jp, k) = NodeAt(sk, pl, k)
<1> DEFINE n == Len(sk)
           jp == [pl EXCEPT ![n] = <<b, 1>>]
<1>1. Len(pl) = n /\ pl \in Seq(Place) /\ n \in Nat \ {0} /\ n \in 1 .. n
  BY DEF PlacesSound
<1>2. AtNode(sk, pl, n)
  BY <1>1 DEF PlacesSound
<1>3. b \in Nat /\ Len(Stmts(sk[n], b)) \in Nat
  BY <1>2, CodeIs DEF AtNode
<1>4. <<b, 1>> \in Place
  BY <1>3, PlaceIs
<1>5. jp \in Seq(Place) /\ Len(jp) = n /\ jp[n] = <<b, 1>> /\ \A k \in 1 .. n - 1 : jp[k] = pl[k]
  BY <1>1, <1>4
<1> HIDE DEF jp
<1>6. \A k \in 1 .. n - 1 : BlockAt(sk, jp, k) = BlockAt(sk, pl, k) /\ NodeAt(sk, jp, k) = NodeAt(sk, pl, k)
  BY <1>5 DEF BlockAt, NodeAt
<1>7. NodeAt(sk, jp, n) = <<sk[n], b, 1>> /\ BlockAt(sk, jp, n) = <<sk[n], b, 0>>
  BY <1>5 DEF BlockAt, NodeAt
<1>8. \A k \in 1 .. n - 1 : AtCall(sk, jp, k) /\ AtNode(sk, jp, k)
  <2> SUFFICES ASSUME NEW k \in 1 .. n - 1
               PROVE  AtCall(sk, jp, k) /\ AtNode(sk, jp, k)
    OBVIOUS
  <2>1. k \in 1 .. n /\ AtCall(sk, pl, k) /\ AtNode(sk, pl, k)
    BY <1>1 DEF PlacesSound
  <2>2. AtCall(sk, jp, k)
    BY <1>6, <2>1 DEF AtCall
  <2>3. AtNode(sk, jp, k)
    BY <1>5, <2>1 DEF AtNode
  <2> QED
    BY <2>2, <2>3
<1>9. AtNode(sk, jp, n)
  <2>1. 1 \in 1 .. Len(Stmts(sk[n], b)) + 1
    BY <1>3
  <2> QED
    BY <1>2, <1>5, <2>1 DEF AtNode
<1>10. PlacesSound(sk, jp)
  <2>1. \A k \in 1 .. n : AtNode(sk, jp, k)
    BY <1>1, <1>8, <1>9
  <2> QED
    BY <1>5, <1>8, <2>1 DEF PlacesSound
<1> QED
  BY <1>6, <1>7, <1>10 DEF jp

LEMMA PushPlaces ==
  ASSUME CodeKnown, NEW sk \in Seq(Funs \cup {Gen}), NEW pl, PlacesSound(sk, pl), Len(sk) \in Nat \ {0},
         NodeAt(sk, pl, Len(sk)) \in CallNodes, NEW f \in FunDfs(StmtAt(NodeAt(sk, pl, Len(sk)))), f \in Funs
  PROVE  LET sk2 == Append(sk, f)
             pl2 == Append(pl, <<1, 1>>)
         IN  /\ PlacesSound(sk2, pl2) /\ Len(sk2) = Len(sk) + 1
             /\ sk2[Len(sk) + 1] = f /\ \A k \in 1 .. Len(sk) : sk2[k] = sk[k]
             /\ NodeAt(sk2, pl2, Len(sk) + 1) = <<f, 1, 1>>
             /\ BlockAt(sk2, pl2, Len(sk) + 1) = <<f, 1, 0>>
             /\ \A k \in 1 .. Len(sk) : /\ BlockAt(sk2, pl2, k) = BlockAt(sk, pl, k)
                                        /\ NodeAt(sk2, pl2, k) = NodeAt(sk, pl, k)
<1> DEFINE n == Len(sk)
           sk2 == Append(sk, f)
           pl2 == Append(pl, <<1, 1>>)
<1>1. Len(pl) = n /\ pl \in Seq(Place) /\ n \in Nat \ {0} /\ <<1, 1>> \in Place
  BY PlaceIs DEF PlacesSound
<1>2. /\ pl2 \in Seq(Place) /\ Len(pl2) = n + 1 /\ pl2[n + 1] = <<1, 1>>
      /\ \A k \in 1 .. n : pl2[k] = pl[k]
  BY <1>1
<1>3. Len(sk2) = n + 1 /\ sk2[n + 1] = f /\ \A k \in 1 .. n : sk2[k] = sk[k]
  BY <1>1
<1> HIDE DEF sk2, pl2
<1>4. \A k \in 1 .. n : BlockAt(sk2, pl2, k) = BlockAt(sk, pl, k) /\ NodeAt(sk2, pl2, k) = NodeAt(sk, pl, k)
  BY <1>2, <1>3 DEF BlockAt, NodeAt
<1>5. NodeAt(sk2, pl2, n + 1) = <<f, 1, 1>> /\ BlockAt(sk2, pl2, n + 1) = <<f, 1, 0>>
  BY <1>2, <1>3 DEF BlockAt, NodeAt
<1>6. \A k \in 1 .. n : AtNode(sk2, pl2, k)
  <2> SUFFICES ASSUME NEW k \in 1 .. n
               PROVE  AtNode(sk2, pl2, k)
    OBVIOUS
  <2>1. AtNode(sk, pl, k) /\ sk2[k] = sk[k] /\ pl2[k] = pl[k]
    BY <1>2, <1>3 DEF PlacesSound
  <2> QED
    BY <2>1 DEF AtNode
<1>7. AtNode(sk2, pl2, n + 1)
  <2>1. f \in DOMAIN code /\ 1 \in DOMAIN code[f] /\ Len(Stmts(f, 1)) \in Nat
    BY CodeIs
  <2>2. 1 \in 1 .. Len(Stmts(f, 1)) + 1
    BY <2>1
  <2> QED
    BY <1>2, <1>3, <2>1, <2>2 DEF AtNode
<1>8. \A k \in 1 .. n : AtCall(sk2, pl2, k)
  <2> SUFFICES ASSUME NEW k \in 1 .. n
               PROVE  AtCall(sk2, pl2, k)
    OBVIOUS
  <2>1. CASE k = n
    BY <1>3, <1>4, <2>1 DEF AtCall
  <2>2. CASE k # n
    <3>1. k \in 1 .. n - 1 /\ k + 1 \in 1 .. n
      BY <1>1, <2>2
    <3>2. AtCall(sk, pl, k) /\ sk2[k + 1] = sk[k + 1]
      BY <1>3, <3>1 DEF PlacesSound
    <3> QED
      BY <1>4, <3>2 DEF AtCall
  <2> QED
    BY <2>1, <2>2
<1>9. PlacesSound(sk2, pl2)
  <2>1. \A k \in 1 .. n + 1 : AtNode(sk2, pl2, k)
    BY <1>1, <1>6, <1>7
  <2>2. \A k \in 1 .. (n + 1) - 1 : AtCall(sk2, pl2, k)
    BY <1>1, <1>8
  <2> QED
    BY <1>2, <1>3, <2>1, <2>2 DEF PlacesSound
<1> QED
  BY <1>3, <1>4, <1>5, <1>9 DEF sk2, pl2

LEMMA PopPlaces ==
  ASSUME CodeKnown, NEW sk \in Seq(Funs \cup {Gen}), NEW pl, PlacesSound(sk, pl),
         NEW n \in Nat \ {0}, Len(sk) = n + 1
  PROVE  /\ PlacesSound(Front(sk), Front(pl)) /\ Len(Front(sk)) = n
         /\ \A k \in 1 .. n : /\ Front(sk)[k] = sk[k]
                              /\ BlockAt(Front(sk), Front(pl), k) = BlockAt(sk, pl, k)
                              /\ NodeAt(Front(sk), Front(pl), k) = NodeAt(sk, pl, k)
         /\ AtCall(sk, pl, n)
<1> DEFINE sk2 == Front(sk)
           pl2 == Front(pl)
<1>1. Len(pl) = n + 1 /\ pl \in Seq(Place)
  BY DEF PlacesSound
<1>2. pl2 \in Seq(Place) /\ Len(pl2) = n /\ \A k \in 1 .. n : pl2[k] = pl[k]
  BY <1>1, FrontIs
<1>3. Len(sk2) = n /\ \A k \in 1 .. n : sk2[k] = sk[k]
  BY FrontIs
<1> HIDE DEF sk2, pl2
<1>4. \A k \in 1 .. n : BlockAt(sk2, pl2, k) = BlockAt(sk, pl, k) /\ NodeAt(sk2, pl2, k) = NodeAt(sk, pl, k)
  BY <1>2, <1>3 DEF BlockAt, NodeAt
<1>5. \A k \in 1 .. n : AtNode(sk2, pl2, k) /\ AtCall(sk, pl, k)
  <2> SUFFICES ASSUME NEW k \in 1 .. n
               PROVE  AtNode(sk2, pl2, k) /\ AtCall(sk, pl, k)
    OBVIOUS
  <2>1. k \in 1 .. n + 1 /\ k \in 1 .. (n + 1) - 1
    OBVIOUS
  <2>2. AtNode(sk, pl, k) /\ AtCall(sk, pl, k) /\ sk2[k] = sk[k] /\ pl2[k] = pl[k]
    BY <1>2, <1>3, <2>1 DEF PlacesSound
  <2> QED
    BY <2>2 DEF AtNode
<1>6. \A k \in 1 .. n - 1 : AtCall(sk2, pl2, k)
  <2> SUFFICES ASSUME NEW k \in 1 .. n - 1
               PROVE  AtCall(sk2, pl2, k)
    OBVIOUS
  <2>1. k \in 1 .. n /\ k + 1 \in 1 .. n
    OBVIOUS
  <2>2. AtCall(sk, pl, k) /\ sk2[k + 1] = sk[k + 1]
    BY <1>3, <1>5, <2>1
  <2> QED
    BY <1>4, <2>1, <2>2 DEF AtCall
<1>7. PlacesSound(sk2, pl2)
  BY <1>2, <1>3, <1>5, <1>6 DEF PlacesSound
<1>8. n \in 1 .. n
  OBVIOUS
<1> QED
  BY <1>3, <1>4, <1>5, <1>7, <1>8 DEF sk2, pl2

----------------------------------------------------------------------------
(***************************************************************************)
(* What is seen of the run.                                                *)
(***************************************************************************)
WatchType ==
  [on : BOOLEAN, level : Nat, node : Nodes, entry : BOOLEAN,
   read : SUBSET Objects, written : SUBSET Objects, wrote : SUBSET Objects]

UseOf(n)  == sets[<<"Use", n>>]
WdefOf(n) == sets[<<"Wdef", n>>]
WmayOf(n) == sets[<<"Wmay", n>>]

\* What is going to be executed before the block is left.
Remains(n) == {m \in Within(n) : m[3] >= n[3]}

\* Of an activation that is seen: what is in use where it is has been in use from the
\* start, if nobody has written it; what a call that has begun since is sure to write is
\* written or remains to be; and what its block may write, the call that is watched may.
ReadsSound(sk, pl, w, k) ==
  \A o \in Visible(sk, k) :
    Level(o) <= w.level /\ o \notin w.written /\ Decl(o) \in UseOf(NodeAt(sk, pl, k))
      => Decl(o) \in UseOf(w.node)

KillsSound(sk, pl, w, k) ==
  \A o \in Visible(sk, k) :
    Level(o) <= w.level /\ Decl(o) \in WdefOf(<<sk[k], 1, 0>>)
      => o \in w.written \/ \E m \in Remains(NodeAt(sk, pl, k)) : Decl(o) \in WdefOf(m)

WritesSound(sk, pl, w, k) ==
  \A o \in Visible(sk, k) :
    Level(o) < w.level /\ Decl(o) \in WmayOf(BlockAt(sk, pl, k))
      => Decl(o) \in WmayOf(<<w.node[1], 0, 0>>)

\* As long as the activation that is watched is there.
WatchOn(sk, pl, w) ==
  /\ w.level \in 1 .. Len(sk) /\ w.node[1] = sk[w.level]
  /\ \A k \in w.level .. Len(sk) : /\ ReadsSound(sk, pl, w, k)
                                   /\ k > w.level => KillsSound(sk, pl, w, k)
                                   /\ w.entry => WritesSound(sk, pl, w, k)

\* What has been seen.
WatchKept(w) ==
  /\ w \in WatchType
  /\ w.entry => w.node = <<w.node[1], 1, 0>>
  /\ \A o \in w.read : /\ Decl(o) \in UseOf(w.node)
                       /\ w.level # 0 /\ Level(o) = w.level => Owner[Decl(o)] = w.node[1]
  /\ w.entry => \A o \in w.wrote : Decl(o) \in WmayOf(<<w.node[1], 0, 0>>)

WatchSound(sk, pl, w) == WatchKept(w) /\ (w.on => WatchOn(sk, pl, w))

LEMMA UnwatchedIs ==
  ASSUME CodeKnown
  PROVE  \A sk, pl : WatchSound(sk, pl, Unwatched)
<1> DEFINE w == Unwatched
<1>1. /\ w.on = FALSE /\ w.level = 0 /\ w.node = <<Gen, 0, 0>> /\ w.entry = FALSE
      /\ w.read = {} /\ w.written = {} /\ w.wrote = {}
  BY DEF Unwatched
<1>2. <<Gen, 0, 0>> \in Nodes
  <2> DEFINE n == <<Gen, 0, 0>>
  <2>1. n[1] \in DOMAIN code /\ n = <<n[1], 0, 0>>
    BY CodeIs
  <2> HIDE DEF n
  <2>2. n \in FunNodes
    BY <2>1, NodesAre
  <2> QED
    BY <2>2 DEF Nodes, n
<1>3. w \in WatchType
  BY <1>2 DEF Unwatched, WatchType
<1> HIDE DEF w
<1>4. WatchKept(w)
  BY <1>1, <1>3 DEF WatchKept
<1> QED
  BY <1>1, <1>4 DEF WatchSound, w

Old(S, l)   == {o \in S : Level(o) <= l}
Older(S, l) == {o \in S : Level(o) < l}

\* What is seen in addition.
Sees(w, reads, writes, v) ==
  /\ v \in WatchType
  /\ v.on /\ v.level = w.level /\ v.node = w.node /\ v.entry = w.entry
  /\ v.read = w.read \cup (Old(reads, w.level) \ w.written)
  /\ v.written = w.written \cup Old(writes, w.level)
  /\ v.wrote = w.wrote \cup Older(writes, w.level)

LEMMA ObservedIs ==
  ASSUME NEW w \in WatchType, NEW reads \in SUBSET Objects, NEW writes \in SUBSET Objects,
         NEW v, v = Observed(w, reads, writes)
  PROVE  /\ ~ w.on => v = Unwatched
         /\ w.on => Sees(w, reads, writes, v)
<1> DEFINE R == Old(reads, w.level) \ w.written
           W == Old(writes, w.level)
           V == Older(writes, w.level)
<1>1. ~ w.on => v = Unwatched
  BY DEF Observed
<1>2. w.on => v = [w EXCEPT !.read = @ \cup R, !.written = @ \cup W, !.wrote = @ \cup V]
  BY DEF Observed, Old, Older
<1>3. R \in SUBSET Objects /\ W \in SUBSET Objects /\ V \in SUBSET Objects
  BY DEF Old, Older
<1> HIDE DEF R, W, V
<1>4. ASSUME w.on
      PROVE  /\ v \in WatchType
             /\ v.on /\ v.level = w.level /\ v.node = w.node /\ v.entry = w.entry
             /\ v.read = w.read \cup R /\ v.written = w.written \cup W /\ v.wrote = w.wrote \cup V
  BY <1>2, <1>3, <1>4 DEF WatchType
<1> QED
  BY <1>1, <1>4 DEF Sees, R, W, V

\* What is read and written in the activation at level k while it is seen.
LEMMA ObserveKeeps ==
  ASSUME CodeKnown, NEW sk, NEW pl, NEW w \in WatchType, WatchSound(sk, pl, w),
         NEW reads \in SUBSET Objects, NEW writes \in SUBSET Objects,
         NEW k, w.on => k \in w.level .. Len(sk),
         w.on => \A o \in reads : Level(o) <= w.level =>
                   o \in Visible(sk, k) /\ Decl(o) \in UseOf(NodeAt(sk, pl, k)),
         w.on => \A o \in writes : Level(o) < w.level =>
                   o \in Visible(sk, k) /\ Decl(o) \in WmayOf(BlockAt(sk, pl, k))
  PROVE  WatchSound(sk, pl, Observed(w, reads, writes))
<1> DEFINE v == Observed(w, reads, writes)
<1>1. w \in WatchType /\ v = Observed(w, reads, writes)
  BY DEF WatchSound, WatchKept
<1> HIDE DEF v
<1>2. CASE ~ w.on
  <2>1. v = Unwatched
    BY <1>1, <1>2, ObservedIs
  <2> QED
    BY <2>1, UnwatchedIs DEF v
<1>3. CASE w.on
  <2>1. /\ v \in WatchType
        /\ v.on /\ v.level = w.level /\ v.node = w.node /\ v.entry = w.entry
        /\ v.read = w.read \cup (Old(reads, w.level) \ w.written)
        /\ v.written = w.written \cup Old(writes, w.level)
        /\ v.wrote = w.wrote \cup Older(writes, w.level)
    <3>1. Sees(w, reads, writes, v)
      BY <1>1, <1>3, ObservedIs
    <3> QED
      BY <3>1 DEF Sees
  <2>2. /\ k \in w.level .. Len(sk) /\ w.level \in 1 .. Len(sk) /\ w.node[1] = sk[w.level]
        /\ \A j \in w.level .. Len(sk) : /\ ReadsSound(sk, pl, w, j)
                                         /\ j > w.level => KillsSound(sk, pl, w, j)
                                         /\ w.entry => WritesSound(sk, pl, w, j)
    BY <1>3 DEF WatchSound, WatchOn
  <2>3. ASSUME NEW o \in v.read
        PROVE  /\ Decl(o) \in UseOf(v.node)
               /\ v.level # 0 /\ Level(o) = v.level => Owner[Decl(o)] = v.node[1]
    <3>1. CASE o \in w.read
      BY <2>1, <3>1 DEF WatchSound, WatchKept
    <3>2. CASE o \notin w.read
      <4>1. o \in reads /\ Level(o) <= w.level /\ o \notin w.written
        BY <2>1, <3>2 DEF Old
      <4>2. o \in Visible(sk, k) /\ Decl(o) \in UseOf(NodeAt(sk, pl, k))
        BY <1>3, <4>1
      <4>3. Decl(o) \in UseOf(w.node)
        BY <2>2, <4>1, <4>2 DEF ReadsSound
      <4>4. w.level # 0 /\ Level(o) = w.level => Owner[Decl(o)] = w.node[1]
        BY <2>2, <4>2 DEF Visible
      <4> QED
        BY <2>1, <4>3, <4>4
    <3> QED
      BY <3>1, <3>2
  <2>4. ASSUME v.entry, NEW o \in v.wrote
        PROVE  Decl(o) \in WmayOf(<<v.node[1], 0, 0>>)
    <3>1. CASE o \in w.wrote
      BY <2>1, <2>4, <3>1 DEF WatchSound, WatchKept
    <3>2. CASE o \notin w.wrote
      <4>1. o \in writes /\ Level(o) < w.level
        BY <2>1, <2>4, <3>2 DEF Older
      <4>2. o \in Visible(sk, k) /\ Decl(o) \in WmayOf(BlockAt(sk, pl, k))
        BY <1>3, <4>1
      <4> QED
        BY <2>1, <2>2, <2>4, <4>1, <4>2 DEF WritesSound
    <3> QED
      BY <3>1, <3>2
  <2>5. WatchKept(v)
    <3>1. v.entry => v.node = <<v.node[1], 1, 0>>
      BY <2>1 DEF WatchSound, WatchKept
    <3> QED
      BY <2>1, <2>3, <2>4, <3>1 DEF WatchKept
  <2>6. ASSUME NEW j \in v.level .. Len(sk)
        PROVE  /\ ReadsSound(sk, pl, v, j)
               /\ j > v.level => KillsSound(sk, pl, v, j)
               /\ v.entry => WritesSound(sk, pl, v, j)
    <3>1. j \in w.level .. Len(sk)
      BY <2>1
    <3>2. ReadsSound(sk, pl, v, j)
      BY <2>1, <2>2, <3>1 DEF ReadsSound
    <3>3. j > v.level => KillsSound(sk, pl, v, j)
      BY <2>1, <2>2, <3>1 DEF KillsSound
    <3>4. v.entry => WritesSound(sk, pl, v, j)
      BY <2>1, <2>2, <3>1 DEF WritesSound
    <3> QED
      BY <3>2, <3>3, <3>4
  <2>7. WatchOn(sk, pl, v)
    BY <2>1, <2>2, <2>6 DEF WatchOn
  <2> QED
    BY <2>1, <2>5, <2>7 DEF WatchSound, v
<1> QED
  BY <1>2, <1>3 DEF v

\* The current activation goes on to the next statement, if what its statement is sure to
\* write has been written.
LEMMA MoveKeeps ==
  ASSUME FlowSound, phase = "exec", NEW sk, NEW pl, PlacesSound(sk, pl), Len(sk) \in Nat \ {0},
         NodeAt(sk, pl, Len(sk)) \in StmtNodes, NEW w \in WatchType, WatchSound(sk, pl, w),
         w.on => \A o \in Visible(sk, Len(sk)) :
           Level(o) <= w.level /\ Decl(o) \in WdefOf(NodeAt(sk, pl, Len(sk))) => o \in w.written
  PROVE  WatchSound(sk, Moved(pl), w)
<1> DEFINE n == Len(sk)
           mv == Moved(pl)
           at0 == NodeAt(sk, pl, n)
           at1 == NodeAt(sk, mv, n)
<1>1. CASE ~ w.on
  BY <1>1 DEF WatchSound
<1>2. CASE w.on
  <2>1. CodeKnown
    BY DEF FlowSound
  <2>2. /\ at1 = Following(at0) /\ at0 \in StmtNodes
        /\ \A k \in 1 .. n : BlockAt(sk, mv, k) = BlockAt(sk, pl, k)
        /\ \A k \in 1 .. n - 1 : NodeAt(sk, mv, k) = NodeAt(sk, pl, k)
    BY <2>1, MovePlaces
  <2>3. UseOf(at1) \ WdefOf(at0) \subseteq UseOf(at0)
    BY <2>2, UseKnown DEF UseOf, WdefOf
  <2>4. Remains(at0) \subseteq Remains(at1) \cup {at0}
    <3> SUFFICES ASSUME NEW m \in Within(at0), m[3] >= at0[3], m # at0
                 PROVE  m \in Remains(at1)
      BY DEF Remains
    <3>1. m[1] = at0[1] /\ m[2] = at0[2] /\ m \in StmtNodes \cup JumpNodes
      BY DEF Within
    <3>2. /\ m = <<m[1], m[2], m[3]>> /\ at0 = <<at0[1], at0[2], at0[3]>> /\ at0[3] \in Nat
          /\ m[1] \in DOMAIN code /\ m[2] \in DOMAIN code[m[1]]
          /\ m[3] \in 1 .. Len(Stmts(m[1], m[2])) \/ m[3] = Len(Stmts(m[1], m[2])) + 1
      <4> HIDE DEF at0
      <4> QED
        BY <2>1, <2>2, <3>1, NodesAre
    <3>3. Len(Stmts(m[1], m[2])) \in Nat
      BY <2>1, <3>2, CodeIs
    <3>4. m[3] \in Nat
      <4> DEFINE L == Len(Stmts(m[1], m[2]))
                 i == m[3]
      <4>1. L \in Nat /\ (i \in 1 .. L \/ i = L + 1)
        BY <3>2, <3>3
      <4> HIDE DEF L, i
      <4>2. i \in Nat
        BY <4>1
      <4> QED
        BY <4>2 DEF i
    <3>5. m[3] # at0[3]
      BY <3>1, <3>2
    <3>6. m[3] >= at0[3] + 1
      <4> DEFINE i == m[3]
                 j == at0[3]
      <4>1. i \in Nat /\ j \in Nat /\ i >= j /\ i # j
        BY <3>2, <3>4, <3>5
      <4> HIDE DEF i, j
      <4>2. i >= j + 1
        BY <4>1
      <4> QED
        BY <4>2 DEF i, j
    <3>7. at1[1] = at0[1] /\ at1[2] = at0[2] /\ at1[3] = at0[3] + 1
      BY <2>2 DEF Following
    <3> QED
      BY <3>1, <3>6, <3>7 DEF Within, Remains
  <2>5. /\ w.level \in 1 .. n /\ w.node[1] = sk[w.level]
        /\ \A k \in w.level .. n : /\ ReadsSound(sk, pl, w, k)
                                   /\ k > w.level => KillsSound(sk, pl, w, k)
                                   /\ w.entry => WritesSound(sk, pl, w, k)
    BY <1>2 DEF WatchSound, WatchOn
  <2>6. \A o \in Visible(sk, n) : Level(o) <= w.level /\ Decl(o) \in WdefOf(at0) => o \in w.written
    BY <1>2
  <2>7. ASSUME NEW k \in w.level .. n
        PROVE  /\ ReadsSound(sk, mv, w, k)
               /\ k > w.level => KillsSound(sk, mv, w, k)
               /\ w.entry => WritesSound(sk, mv, w, k)
    <3>1. k \in 1 .. n
      BY <2>5
    <3>2. w.entry => WritesSound(sk, mv, w, k)
      BY <2>2, <2>5, <3>1 DEF WritesSound
    <3>3. CASE k # n
      <4>1. NodeAt(sk, mv, k) = NodeAt(sk, pl, k)
        BY <2>2, <3>1, <3>3
      <4>2. ReadsSound(sk, mv, w, k)
        BY <2>5, <4>1 DEF ReadsSound
      <4>3. k > w.level => KillsSound(sk, mv, w, k)
        BY <2>5, <4>1 DEF KillsSound
      <4> QED
        BY <3>2, <4>2, <4>3
    <3>4. CASE k = n
      <4> HIDE DEF at0, at1
      <4>1. ReadsSound(sk, mv, w, n)
        BY <2>3, <2>5, <2>6, <3>4 DEF ReadsSound, at0, at1
      <4>2. n > w.level => KillsSound(sk, mv, w, n)
        BY <2>4, <2>5, <2>6, <3>4 DEF KillsSound, at0, at1
      <4> QED
        BY <3>2, <3>4, <4>1, <4>2
    <3> QED
      BY <3>3, <3>4
  <2>8. WatchOn(sk, mv, w)
    BY <2>5, <2>7 DEF WatchOn
  <2> QED
    BY <2>8 DEF WatchSound
<1> QED
  BY <1>1, <1>2

\* What is visible from a stack is visible from another one that is the same so far.
LEMMA VisibleSame ==
  ASSUME NEW sk, NEW sk2, NEW l \in Nat, NEW m \in Nat, l <= m, m <= Len(sk), Len(sk) \in Nat,
         \A i \in 1 .. m : sk[i] = sk2[i],
         NEW o \in Visible(sk2, l), Level(o) <= m
  PROVE  o \in Visible(sk, l)
<1>1. o \in Objects /\ Level(o) \in Nat
  BY ObjectsAre DEF Visible
<1>2. Level(o) # 0 => Level(o) <= Len(sk) /\ Owner[Decl(o)] = sk[Level(o)]
  BY <1>1 DEF Visible
<1>3. \A k \in 1 .. l : Level(o) < k => Decl(o) \notin truly[sk[k]]
  BY DEF Visible
<1> QED
  BY <1>1, <1>2, <1>3 DEF Visible

LEMMA VisibleLess ==
  ASSUME NEW sk, NEW l \in Nat, NEW o \in Visible(sk, l + 1)
  PROVE  o \in Visible(sk, l)
BY DEF Visible

\* The beginning of a block.
LEMMA BlockBegins ==
  ASSUME FlowSound, phase = "exec", NEW f \in DOMAIN code, NEW b \in DOMAIN code[f]
  PROVE  /\ UseOf(<<f, b, 1>>) \subseteq UseOf(<<f, b, 0>>)
         /\ \A d \in WdefOf(<<f, b, 0>>) : \E m \in Remains(<<f, b, 1>>) : d \in WdefOf(m)
         /\ <<f, b, 0>> \in Nodes
<1> DEFINE n == <<f, b, 0>>
           i == <<f, b, 1>>
<1>1. CodeKnown
  BY DEF FlowSound
<1>2. n = <<n[1], n[2], 0>> /\ n[1] = f /\ n[2] = b /\ n[3] = 0
  OBVIOUS
<1>3. i = Following(n) /\ i[1] = f /\ i[2] = b /\ i[3] = 1
  BY DEF Following
<1> HIDE DEF n, i
<1>4. n \in BlockNodes
  BY <1>1, <1>2, NodesAre
<1>5. UseOf(i) \subseteq UseOf(n)
  BY <1>3, <1>4, UseKnown DEF UseOf
<1>6. ASSUME NEW d \in WdefOf(n)
      PROVE  \E m \in Remains(i) : d \in WdefOf(m)
  <2>1. PICK m \in Within(n) : d \in WdefOf(m)
    BY <1>4, WdefKnown DEF WdefOf
  <2>2. m \in Within(i)
    BY <1>2, <1>3, <2>1 DEF Within
  <2>3. m \in StmtNodes \cup JumpNodes /\ m[1] = f /\ m[2] = b
    BY <1>2, <2>1 DEF Within
  <2>4. m[3] \in 1 .. Len(Stmts(f, b)) \/ m[3] = Len(Stmts(f, b)) + 1
    BY <1>1, <2>3, NodesAre
  <2>5. Len(Stmts(f, b)) \in Nat
    BY <1>1, CodeIs
  <2>6. m[3] >= 1
    <3> DEFINE L == Len(Stmts(f, b))
               j == m[3]
    <3>1. L \in Nat /\ (j \in 1 .. L \/ j = L + 1)
      BY <2>4, <2>5
    <3> HIDE DEF L, j
    <3>2. j >= 1
      BY <3>1
    <3> QED
      BY <3>2 DEF j
  <2> QED
    BY <1>3, <2>1, <2>2, <2>6 DEF Remains
<1> QED
  BY <1>4, <1>5, <1>6 DEF n, i, Nodes

\* At the jump, nothing remains but what is written wherever it leads.
LEMMA AtJump ==
  ASSUME FlowSound, phase = "exec", NEW sk, NEW pl, NEW k, AtNode(sk, pl, k),
         NodeAt(sk, pl, k) \in JumpNodes
  PROVE  LET n == NodeAt(sk, pl, k)
             jump == Jump(sk[k], pl[k][1])
         IN  /\ Remains(n) = {n}
             /\ DFexpr(jump.rhs) \subseteq UseOf(n)
             /\ jump.to = {} => WdefOf(n) = {}
             /\ \A b \in jump.to : /\ b \in DOMAIN code[sk[k]]
                                   /\ UseOf(<<sk[k], b, 0>>) \subseteq UseOf(n)
                                   /\ WdefOf(n) \subseteq WdefOf(<<sk[k], b, 0>>)
                                   /\ WmayOf(<<sk[k], b, 0>>) \subseteq WmayOf(BlockAt(sk, pl, k))
<1> DEFINE n == NodeAt(sk, pl, k)
           B == BlockAt(sk, pl, k)
           jump == Jump(sk[k], pl[k][1])
<1>1. CodeKnown
  BY DEF FlowSound
<1>2. /\ n \in JumpNodes /\ B \in BlockNodes /\ n \in Within(B)
      /\ n[1] = sk[k] /\ n[2] = pl[k][1] /\ n[3] = pl[k][2]
  BY <1>1, AtNodeIs
<1>3. jump = Jump(n[1], n[2])
  BY <1>2
<1> HIDE DEF n, B, jump
<1>4. /\ n[1] \in DOMAIN code /\ n[2] \in DOMAIN code[n[1]] /\ n = <<n[1], n[2], n[3]>>
      /\ n[3] = Len(Stmts(n[1], n[2])) + 1
  BY <1>1, <1>2, NodesAre
<1>5. Len(Stmts(n[1], n[2])) \in Nat
  BY <1>1, <1>4, CodeIs
<1>6. Remains(n) = {n}
  <2>1. n \in Remains(n)
    BY <1>2, <1>4, <1>5 DEF Within, Remains
  <2>2. ASSUME NEW m \in Remains(n)
        PROVE  m = n
    <3>1. m[1] = n[1] /\ m[2] = n[2] /\ m \in StmtNodes \cup JumpNodes /\ m[3] >= n[3]
      BY DEF Remains, Within
    <3>2. m[3] \in 1 .. Len(Stmts(n[1], n[2])) \/ m[3] = Len(Stmts(n[1], n[2])) + 1
      BY <1>1, <3>1, NodesAre
    <3>3. m = <<m[1], m[2], m[3]>>
      BY <1>1, <3>1, NodesAre
    <3>4. m[3] = n[3]
      <4> DEFINE L == Len(Stmts(n[1], n[2]))
                 i == m[3]
                 j == n[3]
      <4>1. L \in Nat /\ (i \in 1 .. L \/ i = L + 1) /\ j = L + 1 /\ i >= j
        BY <1>4, <1>5, <3>1, <3>2
      <4> HIDE DEF L, i, j
      <4>2. i = j
        BY <4>1
      <4> QED
        BY <4>2 DEF i, j
    <3> QED
      BY <1>4, <3>1, <3>3, <3>4
  <2> QED
    BY <2>1, <2>2
<1>7. DFexpr(jump.rhs) \subseteq UseOf(n)
  BY <1>2, <1>3, UseKnown DEF UseOf
<1>8. jump.to = {} => WdefOf(n) = {}
  BY <1>2, <1>3, WdefKnown DEF WdefOf
<1>9. ASSUME NEW b \in jump.to
      PROVE  /\ b \in DOMAIN code[sk[k]]
             /\ UseOf(<<sk[k], b, 0>>) \subseteq UseOf(n)
             /\ WdefOf(n) \subseteq WdefOf(<<sk[k], b, 0>>)
             /\ WmayOf(<<sk[k], b, 0>>) \subseteq WmayOf(B)
  <2>1. b \in DOMAIN code[sk[k]]
    BY <1>1, <1>2, <1>3, <1>4, CodeIs
  <2>2. UseOf(<<sk[k], b, 0>>) \subseteq UseOf(n)
    BY <1>2, <1>3, UseKnown DEF UseOf
  <2>3. WdefOf(n) \subseteq WdefOf(<<sk[k], b, 0>>)
    BY <1>2, <1>3, WdefKnown DEF WdefOf
  <2>4. WmayOf(<<sk[k], b, 0>>) \subseteq WmayOf(n)
    BY <1>2, <1>3, WmayKnown DEF WmayOf
  <2>5. WmayOf(n) \subseteq WmayOf(B)
    BY <1>2, WmayKnown DEF WmayOf
  <2> QED
    BY <2>1, <2>2, <2>3, <2>4, <2>5
<1> QED
  BY <1>6, <1>7, <1>8, <1>9 DEF n, B, jump

\* The current activation goes on to another block.
LEMMA JumpKeeps ==
  ASSUME FlowSound, phase = "exec", NEW sk, NEW pl, PlacesSound(sk, pl), Len(sk) \in Nat \ {0},
         NodeAt(sk, pl, Len(sk)) \in JumpNodes, NEW b \in Jump(sk[Len(sk)], pl[Len(sk)][1]).to,
         NEW w \in WatchType, WatchSound(sk, pl, w)
  PROVE  WatchSound(sk, [pl EXCEPT ![Len(sk)] = <<b, 1>>], w)
<1> DEFINE n == Len(sk)
           jp == [pl EXCEPT ![n] = <<b, 1>>]
           at0 == NodeAt(sk, pl, n)
<1>1. CASE ~ w.on
  BY <1>1 DEF WatchSound
<1>2. CASE w.on
  <2>1. CodeKnown /\ AtNode(sk, pl, n) /\ n \in 1 .. n
    BY DEF FlowSound, PlacesSound
  <2>2. /\ Remains(at0) = {at0}
        /\ b \in DOMAIN code[sk[n]]
        /\ UseOf(<<sk[n], b, 0>>) \subseteq UseOf(at0)
        /\ WdefOf(at0) \subseteq WdefOf(<<sk[n], b, 0>>)
        /\ WmayOf(<<sk[n], b, 0>>) \subseteq WmayOf(BlockAt(sk, pl, n))
    BY <2>1, AtJump
  <2>3. /\ NodeAt(sk, jp, n) = <<sk[n], b, 1>>
        /\ BlockAt(sk, jp, n) = <<sk[n], b, 0>>
        /\ \A k \in 1 .. n - 1 : /\ BlockAt(sk, jp, k) = BlockAt(sk, pl, k)
                                 /\ NodeAt(sk, jp, k) = NodeAt(sk, pl, k)
    BY <2>1, <2>2, JumpPlaces
  <2>4. /\ UseOf(<<sk[n], b, 1>>) \subseteq UseOf(<<sk[n], b, 0>>)
        /\ \A d \in WdefOf(<<sk[n], b, 0>>) : \E m \in Remains(<<sk[n], b, 1>>) : d \in WdefOf(m)
    BY <2>1, <2>2, BlockBegins DEF AtNode
  <2> HIDE DEF jp, at0
  <2>5. /\ w.level \in 1 .. n /\ w.node[1] = sk[w.level]
        /\ \A k \in w.level .. n : /\ ReadsSound(sk, pl, w, k)
                                   /\ k > w.level => KillsSound(sk, pl, w, k)
                                   /\ w.entry => WritesSound(sk, pl, w, k)
    BY <1>2 DEF WatchSound, WatchOn
  <2>6. ASSUME NEW k \in w.level .. n
        PROVE  /\ ReadsSound(sk, jp, w, k)
               /\ k > w.level => KillsSound(sk, jp, w, k)
               /\ w.entry => WritesSound(sk, jp, w, k)
    <3>1. CASE k # n
      <4>1. k \in 1 .. n - 1
        BY <2>1, <2>5, <3>1
      <4>2. ReadsSound(sk, jp, w, k)
        BY <2>3, <2>5, <4>1 DEF ReadsSound
      <4>3. k > w.level => KillsSound(sk, jp, w, k)
        BY <2>3, <2>5, <4>1 DEF KillsSound
      <4>4. w.entry => WritesSound(sk, jp, w, k)
        BY <2>3, <2>5, <4>1 DEF WritesSound
      <4> QED
        BY <4>2, <4>3, <4>4
    <3>2. CASE k = n
      <4>1. ReadsSound(sk, jp, w, n)
        BY <2>2, <2>3, <2>4, <2>5, <3>2 DEF ReadsSound, at0
      <4>2. n > w.level => KillsSound(sk, jp, w, n)
        BY <2>2, <2>3, <2>4, <2>5, <3>2 DEF KillsSound, at0
      <4>3. w.entry => WritesSound(sk, jp, w, n)
        BY <2>2, <2>3, <2>5, <3>2 DEF WritesSound
      <4> QED
        BY <3>2, <4>1, <4>2, <4>3
    <3> QED
      BY <3>1, <3>2
  <2>7. WatchOn(sk, jp, w)
    BY <2>5, <2>6 DEF WatchOn
  <2> QED
    BY <2>7 DEF WatchSound, jp
<1> QED
  BY <1>1, <1>2

\* The block that is entered is watched from now on.
LEMMA EnterSound ==
  ASSUME FlowSound, phase = "exec", ProgramType, LocalsKnown, NEW sk, NEW pl, NEW l \in Nat \ {0}, Len(sk) = l,
         sk[l] \in Funs \cup {Gen}, NEW b \in DOMAIN code[sk[l]],
         NodeAt(sk, pl, l) = <<sk[l], b, 1>>, BlockAt(sk, pl, l) = <<sk[l], b, 0>>,
         NEW entry \in BOOLEAN, entry => b = 1
  PROVE  LET w == [Unwatched EXCEPT !.on = TRUE, !.level = l, !.node = <<sk[l], b, 0>>, !.entry = entry]
         IN  w \in WatchType /\ WatchSound(sk, pl, w)
<1> DEFINE w == [Unwatched EXCEPT !.on = TRUE, !.level = l, !.node = <<sk[l], b, 0>>, !.entry = entry]
           n == <<sk[l], b, 0>>
<1>1. /\ w.on = TRUE /\ w.level = l /\ w.node = n /\ w.entry = entry
      /\ w.read = {} /\ w.written = {} /\ w.wrote = {}
  BY DEF Unwatched
<1>2. sk[l] \in DOMAIN code
  BY CodeIs DEF FlowSound
<1>3. UseOf(<<sk[l], b, 1>>) \subseteq UseOf(n) /\ n \in Nodes
  BY <1>2, BlockBegins
<1>4. w \in WatchType
  BY <1>3 DEF Unwatched, WatchType
<1>5. n[1] = sk[l] /\ (entry => n = <<n[1], 1, 0>>)
  OBVIOUS
<1> HIDE DEF w, n
<1>6. WatchKept(w)
  BY <1>1, <1>4, <1>5 DEF WatchKept
<1>7. ReadsSound(sk, pl, w, l)
  BY <1>1, <1>3 DEF ReadsSound
<1>8. ASSUME entry
      PROVE  WritesSound(sk, pl, w, l)
  <2> SUFFICES ASSUME NEW o \in Visible(sk, l), Level(o) < l, Decl(o) \in WmayOf(<<sk[l], 1, 0>>)
               PROVE  Decl(o) \in WmayOf(<<sk[l], 0, 0>>)
    BY <1>1, <1>5, <1>8 DEF WritesSound
  <2>1. Decl(o) \notin truly[sk[l]]
    BY DEF Visible
  <2> QED
    BY <1>2, <2>1, WmayKnown DEF WmayOf
<1>9. WatchOn(sk, pl, w)
  <2>1. \A k \in w.level .. Len(sk) : k = l
    BY <1>1
  <2>2. w.level \in 1 .. Len(sk) /\ w.node[1] = sk[w.level]
    BY <1>1, <1>5
  <2>3. w.entry => WritesSound(sk, pl, w, l)
    BY <1>1, <1>8
  <2>4. w.level = l
    BY <1>1
  <2> QED
    BY <1>7, <2>1, <2>2, <2>3, <2>4 DEF WatchOn
<1> QED
  BY <1>4, <1>6, <1>9 DEF WatchSound, w

\* A call begins: what it may write, but for its own, the calling block may.
LEMMA PushKeeps ==
  ASSUME FlowSound, phase = "exec", ProgramType, LocalsKnown, NEW sk \in Seq(Funs \cup {Gen}), NEW pl,
         PlacesSound(sk, pl), NEW n \in Nat \ {0}, Len(sk) = n,
         NodeAt(sk, pl, n) \in CallNodes, NEW f \in FunDfs(StmtAt(NodeAt(sk, pl, n))), f \in Funs,
         NEW w \in WatchType, WatchSound(sk, pl, w)
  PROVE  WatchSound(Append(sk, f), Append(pl, <<1, 1>>), w)
<1> DEFINE sk2 == Append(sk, f)
           pl2 == Append(pl, <<1, 1>>)
           at0 == NodeAt(sk, pl, n)
<1>1. CASE ~ w.on
  BY <1>1 DEF WatchSound
<1>2. CASE w.on
  <2>1. CodeKnown /\ AtNode(sk, pl, n) /\ n \in 1 .. n
    BY DEF FlowSound, PlacesSound
  <2>2. /\ Len(sk2) = n + 1 /\ sk2[n + 1] = f /\ \A k \in 1 .. n : sk2[k] = sk[k]
        /\ NodeAt(sk2, pl2, n + 1) = <<f, 1, 1>>
        /\ BlockAt(sk2, pl2, n + 1) = <<f, 1, 0>>
        /\ \A k \in 1 .. n : /\ BlockAt(sk2, pl2, k) = BlockAt(sk, pl, k)
                             /\ NodeAt(sk2, pl2, k) = NodeAt(sk, pl, k)
    BY <2>1, PushPlaces
  <2>3. f \in DOMAIN code /\ 1 \in DOMAIN code[f]
    BY <2>1, CodeIs
  <2>4. /\ UseOf(<<f, 1, 1>>) \subseteq UseOf(<<f, 1, 0>>)
        /\ \A d \in WdefOf(<<f, 1, 0>>) : \E m \in Remains(<<f, 1, 1>>) : d \in WdefOf(m)
    BY <2>3, BlockBegins
  <2>5. UseOf(<<f, 1, 0>>) \subseteq UseOf(<<f, 0, 0>>) /\ UseOf(<<f, 0, 0>>) \subseteq UseOf(at0)
    BY <2>3, UseKnown DEF UseOf
  <2>6. /\ WmayOf(<<f, 1, 0>>) \ truly[f] \subseteq WmayOf(<<f, 0, 0>>)
        /\ WmayOf(<<f, 0, 0>>) \subseteq WmayOf(at0)
    BY <2>3, WmayKnown DEF WmayOf
  <2>7. WmayOf(at0) \subseteq WmayOf(BlockAt(sk, pl, n))
    <3>1. BlockAt(sk, pl, n) \in BlockNodes /\ at0 \in Within(BlockAt(sk, pl, n))
      BY <2>1, AtNodeIs
    <3> QED
      BY <3>1, WmayKnown DEF WmayOf
  <2> HIDE DEF sk2, pl2, at0
  <2>8. /\ w.level \in 1 .. n /\ w.node[1] = sk[w.level]
        /\ \A k \in w.level .. n : /\ ReadsSound(sk, pl, w, k)
                                   /\ k > w.level => KillsSound(sk, pl, w, k)
                                   /\ w.entry => WritesSound(sk, pl, w, k)
    BY <1>2 DEF WatchSound, WatchOn
  <2>9. \A k \in 1 .. n : \A o \in Visible(sk2, k) : Level(o) <= w.level => o \in Visible(sk, k)
    <3> SUFFICES ASSUME NEW k \in 1 .. n, NEW o \in Visible(sk2, k), Level(o) <= w.level
                 PROVE  o \in Visible(sk, k)
      OBVIOUS
    <3>1. Level(o) \in Nat
      BY ObjectsAre DEF Visible
    <3>2. Level(o) <= n /\ k <= n /\ n <= Len(sk) /\ \A i \in 1 .. n : sk[i] = sk2[i]
      BY <2>2, <2>8, <3>1
    <3> QED
      BY <3>2, VisibleSame
  <2>10. ASSUME NEW k \in w.level .. n
         PROVE  /\ ReadsSound(sk2, pl2, w, k)
                /\ k > w.level => KillsSound(sk2, pl2, w, k)
                /\ w.entry => WritesSound(sk2, pl2, w, k)
    <3>1. k \in 1 .. n
      BY <2>8
    <3>2. NodeAt(sk2, pl2, k) = NodeAt(sk, pl, k) /\ BlockAt(sk2, pl2, k) = BlockAt(sk, pl, k) /\ sk2[k] = sk[k]
      BY <2>2, <3>1
    <3>3. ReadsSound(sk2, pl2, w, k)
      BY <2>8, <2>9, <3>1, <3>2 DEF ReadsSound
    <3>4. k > w.level => KillsSound(sk2, pl2, w, k)
      BY <2>8, <2>9, <3>1, <3>2 DEF KillsSound
    <3>5. w.entry => WritesSound(sk2, pl2, w, k)
      <4> SUFFICES ASSUME w.entry, NEW o \in Visible(sk2, k), Level(o) < w.level,
                          Decl(o) \in WmayOf(BlockAt(sk2, pl2, k))
                   PROVE  Decl(o) \in WmayOf(<<w.node[1], 0, 0>>)
        BY DEF WritesSound
      <4>1. Level(o) \in Nat
        BY ObjectsAre DEF Visible
      <4>2. o \in Visible(sk, k)
        BY <2>8, <2>9, <3>1, <4>1
      <4> QED
        BY <2>8, <3>2, <4>2 DEF WritesSound
    <3> QED
      BY <3>3, <3>4, <3>5
  <2>11. \A o \in Visible(sk2, n + 1) : Level(o) <= w.level =>
           o \in Visible(sk2, n) /\ o \in Visible(sk, n) /\ Decl(o) \notin truly[f]
    <3> SUFFICES ASSUME NEW o \in Visible(sk2, n + 1), Level(o) <= w.level
                 PROVE  o \in Visible(sk2, n) /\ o \in Visible(sk, n) /\ Decl(o) \notin truly[f]
      OBVIOUS
    <3>1. o \in Visible(sk2, n)
      BY VisibleLess
    <3>2. Level(o) \in Nat
      BY ObjectsAre DEF Visible
    <3>3. Level(o) < n + 1 /\ n + 1 \in 1 .. n + 1
      BY <2>8, <3>2
    <3>4. Decl(o) \notin truly[f]
      BY <2>2, <3>3 DEF Visible
    <3> QED
      BY <2>1, <2>9, <3>1, <3>4
  <2>12. ReadsSound(sk2, pl2, w, n + 1)
    BY <2>1, <2>2, <2>4, <2>5, <2>8, <2>11 DEF ReadsSound, at0
  <2>13. KillsSound(sk2, pl2, w, n + 1)
    BY <2>2, <2>4 DEF KillsSound
  <2>14. w.entry => WritesSound(sk2, pl2, w, n + 1)
    <3> SUFFICES ASSUME w.entry, NEW o \in Visible(sk2, n + 1), Level(o) < w.level,
                        Decl(o) \in WmayOf(<<f, 1, 0>>)
                 PROVE  Decl(o) \in WmayOf(<<w.node[1], 0, 0>>)
      BY <2>2 DEF WritesSound
    <3>1. Level(o) \in Nat
      BY ObjectsAre DEF Visible
    <3>2. o \in Visible(sk, n) /\ Decl(o) \notin truly[f]
      BY <2>8, <2>11, <3>1
    <3>3. Decl(o) \in WmayOf(BlockAt(sk, pl, n))
      BY <2>6, <2>7, <3>2
    <3>4. n \in w.level .. n
      BY <2>8
    <3> QED
      BY <2>8, <3>2, <3>3, <3>4 DEF WritesSound
  <2>15. WatchOn(sk2, pl2, w)
    <3>1. w.level \in 1 .. n + 1 /\ w.node[1] = sk2[w.level]
      BY <2>2, <2>8
    <3>2. \A k \in w.level .. n + 1 : k \in w.level .. n \/ k = n + 1
      BY <2>8
    <3> QED
      BY <2>2, <2>10, <2>12, <2>13, <2>14, <3>1, <3>2 DEF WatchOn
  <2> QED
    BY <2>15 DEF WatchSound, sk2, pl2
<1> QED
  BY <1>1, <1>2

\* A call ends that has begun since: what it is sure to write has been written.
LEMMA PopKeeps ==
  ASSUME FlowSound, phase = "exec", NEW sk \in Seq(Funs \cup {Gen}), NEW pl,
         PlacesSound(sk, pl), NEW n \in Nat \ {0}, Len(sk) = n + 1,
         NodeAt(sk, pl, n + 1) \in JumpNodes, Jump(sk[n + 1], pl[n + 1][1]).to = {},
         NEW w \in WatchType, WatchSound(sk, pl, w), w.on => w.level <= n
  PROVE  /\ WatchSound(Front(sk), Front(pl), w)
         /\ w.on => \A o \in Visible(Front(sk), n) :
                      Level(o) <= w.level /\ Decl(o) \in WdefOf(<<sk[n + 1], 0, 0>>) => o \in w.written
<1> DEFINE sk2 == Front(sk)
           pl2 == Front(pl)
           g == sk[n + 1]
<1>1. CASE ~ w.on
  BY <1>1 DEF WatchSound
<1>2. CASE w.on
  <2>1. CodeKnown /\ AtNode(sk, pl, n + 1)
    BY DEF FlowSound, PlacesSound
  <2>2. /\ Len(sk2) = n
        /\ \A k \in 1 .. n : /\ sk2[k] = sk[k]
                             /\ BlockAt(sk2, pl2, k) = BlockAt(sk, pl, k)
                             /\ NodeAt(sk2, pl2, k) = NodeAt(sk, pl, k)
    BY <2>1, PopPlaces
  <2>3. Remains(NodeAt(sk, pl, n + 1)) = {NodeAt(sk, pl, n + 1)} /\ WdefOf(NodeAt(sk, pl, n + 1)) = {}
    BY <2>1, AtJump
  <2>4. g \in DOMAIN code
    BY <2>1 DEF AtNode
  <2>5. WdefOf(<<g, 0, 0>>) \subseteq WdefOf(<<g, 1, 0>>) \ truly[g]
    BY <2>4, WdefKnown DEF WdefOf
  <2> HIDE DEF sk2, pl2
  <2>6. /\ w.level \in 1 .. n /\ w.node[1] = sk[w.level]
        /\ \A k \in w.level .. n + 1 : /\ ReadsSound(sk, pl, w, k)
                                       /\ k > w.level => KillsSound(sk, pl, w, k)
                                       /\ w.entry => WritesSound(sk, pl, w, k)
    <3>1. /\ w.level \in 1 .. n + 1 /\ w.node[1] = sk[w.level]
          /\ \A k \in w.level .. n + 1 : /\ ReadsSound(sk, pl, w, k)
                                         /\ k > w.level => KillsSound(sk, pl, w, k)
                                         /\ w.entry => WritesSound(sk, pl, w, k)
      BY <1>2 DEF WatchSound, WatchOn
    <3>2. w.level \in 1 .. n
      BY <1>2, <3>1
    <3> QED
      BY <3>1, <3>2
  <2>7. \A k \in 1 .. n : \A o \in Visible(sk2, k) : o \in Visible(sk, k)
    <3> SUFFICES ASSUME NEW k \in 1 .. n, NEW o \in Visible(sk2, k)
                 PROVE  o \in Visible(sk, k)
      OBVIOUS
    <3>1. Level(o) \in Nat /\ Level(o) <= n
      BY <2>2, ObjectsAre DEF Visible
    <3>2. n \in Nat /\ k <= n /\ n <= Len(sk) /\ \A i \in 1 .. n : sk[i] = sk2[i]
      BY <2>2
    <3> QED
      BY <3>1, <3>2, VisibleSame
  <2>8. ASSUME NEW k \in w.level .. n
        PROVE  /\ ReadsSound(sk2, pl2, w, k)
               /\ k > w.level => KillsSound(sk2, pl2, w, k)
               /\ w.entry => WritesSound(sk2, pl2, w, k)
    <3>1. k \in 1 .. n /\ k \in w.level .. n + 1
      BY <2>6
    <3>2. NodeAt(sk2, pl2, k) = NodeAt(sk, pl, k) /\ BlockAt(sk2, pl2, k) = BlockAt(sk, pl, k) /\ sk2[k] = sk[k]
      BY <2>2, <3>1
    <3>3. ReadsSound(sk2, pl2, w, k)
      BY <2>6, <2>7, <3>1, <3>2 DEF ReadsSound
    <3>4. k > w.level => KillsSound(sk2, pl2, w, k)
      BY <2>6, <2>7, <3>1, <3>2 DEF KillsSound
    <3>5. w.entry => WritesSound(sk2, pl2, w, k)
      BY <2>6, <2>7, <3>1, <3>2 DEF WritesSound
    <3> QED
      BY <3>3, <3>4, <3>5
  <2>9. WatchOn(sk2, pl2, w)
    BY <2>2, <2>6, <2>8 DEF WatchOn
  <2>10. ASSUME NEW o \in Visible(sk2, n), Level(o) <= w.level, Decl(o) \in WdefOf(<<g, 0, 0>>)
         PROVE  o \in w.written
    <3>1. o \in Visible(sk, n) /\ Level(o) \in Nat
      BY <2>7, ObjectsAre DEF Visible
    <3>2. Decl(o) \in WdefOf(<<g, 1, 0>>) /\ Decl(o) \notin truly[g]
      BY <2>5, <2>10
    <3>3. o \in Visible(sk, n + 1)
      <4>1. \A k \in 1 .. n + 1 : k \in 1 .. n \/ k = n + 1
        OBVIOUS
      <4> QED
        BY <3>1, <3>2, <4>1 DEF Visible
    <3>4. KillsSound(sk, pl, w, n + 1)
      BY <2>6
    <3> QED
      BY <2>3, <2>10, <3>2, <3>3, <3>4 DEF KillsSound
  <2> QED
    BY <2>9, <2>10 DEF WatchSound, sk2, pl2
<1> QED
  BY <1>1, <1>2

----------------------------------------------------------------------------
(***************************************************************************)
(* Steps of the program that is executed.                                  *)
(***************************************************************************)
Running ==
  /\ phase = "exec" /\ CallsSound /\ FlowSound /\ LocalsKnown
  /\ StackSound(stack) /\ PlacesSound(stack, at)
  /\ watch \in WatchType /\ WatchSound(stack, at, watch)

\* What does not depend on the places.
LEMMA LocalsSame ==
  ASSUME UNCHANGED <<locals, stack, store>>
  PROVE  /\ CallsSound /\ phase # "calls" /\ phase' # "calls" => CallsSound'
         /\ LocalsKnown => LocalsKnown'
         /\ StackSound(stack) => StackSound(stack)'
         /\ StoreSound(stack, store, Levels) => StoreSound(stack, store, Levels)'
<1>1. /\ calls' = calls /\ pt' = pt /\ preds' = preds /\ waiting' = waiting
      /\ truly' = truly /\ unique' = unique /\ stack' = stack /\ store' = store
  BY DEF locals, program
<1>2. CallsSound /\ phase # "calls" /\ phase' # "calls" => CallsSound'
  BY <1>1 DEF CallsSound, ProgramType, Callers
<1>3. GlobalClosure' = GlobalClosure
  BY <1>1 DEF GlobalClosure, PointedTo, Reachable
<1>4. \A f : ParamClosure(f)' = ParamClosure(f)
  BY <1>1, <1>3 DEF ParamClosure, PointedTo, Reachable
<1>5. (\A f : Public(f)' = Public(f)) /\ Named' = Named
  BY <1>3, <1>4 DEF Public, Named
<1>6. \A f : LocalsOf(f)' = LocalsOf(f)
  BY <1>1, <1>3, <1>4 DEF LocalsOf, Recursive
<1>7. LocalsKnown => LocalsKnown'
  BY <1>1, <1>6 DEF LocalsKnown
<1>8. StackSound(stack) => StackSound(stack)'
  BY <1>1 DEF StackSound
<1>9. StoreSound(stack, store, Levels) => StoreSound(stack, store, Levels)'
  BY <1>1, <1>5 DEF StoreSound, Aged, Levels, Alive, Passed, Allowed
<1> QED
  BY <1>2, <1>7, <1>8, <1>9

LEMMA FlowSame ==
  ASSUME FlowSound, UNCHANGED <<phase, locals, code, flow>>
  PROVE  FlowSound'
<1>1. /\ calls' = calls /\ pt' = pt /\ phase' = phase /\ code' = code /\ UNCHANGED <<locals, code>>
      /\ sets' = sets /\ cons' = cons /\ dirty' = dirty /\ stamp' = stamp
  BY DEF locals, program, flow
<1>2. /\ StmtNodes' = StmtNodes /\ JumpNodes' = JumpNodes /\ CallNodes' = CallNodes /\ SetNames' = SetNames
      /\ \A n : StmtAt(n)' = StmtAt(n) /\ Targets(n)' = Targets(n) /\ Jump(n[1], n[2])' = Jump(n[1], n[2])
      /\ \A s : Kills(s)' = Kills(s) /\ MayWrite(s)' = MayWrite(s) /\ Needs(s)' = Needs(s)
      /\ \A E : DFexpr(E)' = DFexpr(E)
      /\ WdefCons' = WdefCons /\ WmayCons' = WmayCons /\ UseCons' = UseCons
  BY <1>1, CodeSame
<1>3. CodeKnown'
  BY <1>1 DEF FlowSound, CodeKnown
<1>4. \A v : Holds(v)' = Holds(v)
  BY <1>1 DEF Holds, Solved, All
<1>5. \A n \in JumpNodes : Targets(n)' = Targets(n) /\ DFexpr(Jump(n[1], n[2]).rhs)' = DFexpr(Jump(n[1], n[2]).rhs)
  BY <1>2
<1>6. \A n \in StmtNodes : /\ Kills(StmtAt(n))' = Kills(StmtAt(n))
                           /\ MayWrite(StmtAt(n))' = MayWrite(StmtAt(n))
                           /\ Needs(StmtAt(n))' = Needs(StmtAt(n))
  BY <1>2
<1>7. SolverSound' = SolverSound
  BY <1>1, <1>4 DEF SolverSound
<1> QED
  BY <1>1, <1>2, <1>3, <1>4, <1>5, <1>6, <1>7 DEF FlowSound

\* Sameness of what the places are sound for.
LEMMA PlacesSame ==
  ASSUME UNCHANGED <<locals, code>>
  PROVE  /\ PlacesSound(stack', at') => PlacesSound(stack, at)'
         /\ Nodes' = Nodes /\ WatchType' = WatchType
<1>1. code' = code /\ UNCHANGED <<locals, code>>
  OBVIOUS
<1>2. StmtNodes' = StmtNodes /\ JumpNodes' = JumpNodes /\ CallNodes' = CallNodes
  BY <1>1, CodeSame
<1>3. \A k : AtNode(stack, at, k)' = AtNode(stack', at', k)
  BY <1>1 DEF AtNode, Stmts
<1>4. \A k : AtCall(stack, at, k)' = AtCall(stack', at', k)
  BY <1>1, <1>2 DEF AtCall, NodeAt, StmtAt, Stmts
<1>5. FunNodes' = FunNodes /\ BlockNodes' = BlockNodes
  BY <1>1 DEF FunNodes, BlockNodes
<1>6. Nodes' = Nodes
  BY <1>2, <1>5 DEF Nodes
<1>7. WatchType' = WatchType
  BY <1>6 DEF WatchType
<1> QED
  BY <1>3, <1>4, <1>6, <1>7 DEF PlacesSound

LEMMA RunningOn ==
  ASSUME Running, UNCHANGED <<phase, locals, code, flow>>,
         StackSound(stack'), NEW age, StoreSound(stack', store', age),
         PlacesSound(stack', at'), watch' \in WatchType, WatchSound(stack', at', watch')
  PROVE  Running' /\ StoreSound(stack, store, age)'
<1>1. /\ calls' = calls /\ pt' = pt /\ preds' = preds /\ phase' = phase /\ waiting' = waiting
      /\ truly' = truly /\ unique' = unique /\ code' = code /\ UNCHANGED <<locals, code>>
      /\ sets' = sets /\ cons' = cons /\ dirty' = dirty /\ stamp' = stamp
  BY DEF locals, program, flow
<1>2. CallsSound' /\ phase' = "exec"
  BY <1>1 DEF Running, CallsSound, ProgramType, Callers
<1>3. GlobalClosure' = GlobalClosure
  BY <1>1 DEF GlobalClosure, PointedTo, Reachable
<1>4. \A f : ParamClosure(f)' = ParamClosure(f)
  BY <1>1, <1>3 DEF ParamClosure, PointedTo, Reachable
<1>5. \A f : Public(f)' = Public(f)
  BY <1>3, <1>4 DEF Public
<1>6. Named' = Named
  BY <1>3 DEF Named
<1>7. \A f : LocalsOf(f)' = LocalsOf(f)
  BY <1>1, <1>3, <1>4 DEF LocalsOf, Recursive
<1>8. LocalsKnown'
  BY <1>1, <1>7 DEF Running, LocalsKnown
<1>9. StackSound(stack)'
  BY <1>1 DEF StackSound
<1>10. StoreSound(stack, store, age)'
  BY <1>1, <1>5, <1>6 DEF StoreSound, Aged, Levels, Alive, Passed, Allowed
<1>11. /\ StmtNodes' = StmtNodes /\ JumpNodes' = JumpNodes /\ CallNodes' = CallNodes /\ SetNames' = SetNames
       /\ \A n : StmtAt(n)' = StmtAt(n) /\ Targets(n)' = Targets(n) /\ Jump(n[1], n[2])' = Jump(n[1], n[2])
       /\ \A s : Kills(s)' = Kills(s) /\ MayWrite(s)' = MayWrite(s) /\ Needs(s)' = Needs(s)
       /\ \A E : DFexpr(E)' = DFexpr(E)
       /\ WdefCons' = WdefCons /\ WmayCons' = WmayCons /\ UseCons' = UseCons
  BY <1>1, CodeSame
<1>12. FlowSound'
  BY FlowSame DEF Running
<1>13. PlacesSound(stack, at)'
  BY <1>1, PlacesSame
<1>15. watch' \in WatchType'
  BY <1>1, PlacesSame
<1>16. WatchSound(stack, at, watch)'
  <2>1. WatchKept(watch)'
    BY <1>1, <1>15 DEF WatchSound, WatchKept, UseOf, WmayOf
  <2>2. \A k : Visible(stack, k)' = Visible(stack', k)
    BY <1>1 DEF Visible
  <2>3. \A k : NodeAt(stack, at, k)' = NodeAt(stack', at', k) /\ BlockAt(stack, at, k)' = BlockAt(stack', at', k)
    BY DEF NodeAt, BlockAt
  <2>4. \A k : ReadsSound(stack, at, watch, k)' = ReadsSound(stack', at', watch', k)
    BY <1>1, <2>2, <2>3 DEF ReadsSound, UseOf
  <2>5. \A k : Remains(NodeAt(stack, at, k))' = Remains(NodeAt(stack', at', k))
    BY <1>11, <2>3 DEF Remains, Within
  <2>6. \A k : KillsSound(stack, at, watch, k)' = KillsSound(stack', at', watch', k)
    BY <1>1, <2>2, <2>5 DEF KillsSound, WdefOf
  <2>7. \A k : WritesSound(stack, at, watch, k)' = WritesSound(stack', at', watch', k)
    BY <1>1, <2>2, <2>3 DEF WritesSound, WmayOf
  <2>8. watch'.on => WatchOn(stack, at, watch)'
    BY <2>4, <2>6, <2>7 DEF WatchSound, WatchOn
  <2> QED
    BY <2>1, <2>8 DEF WatchSound
<1> QED
  BY <1>2, <1>8, <1>9, <1>10, <1>12, <1>13, <1>15, <1>16 DEF Running

\* Where the current activation is.
LEMMA AtNow ==
  ASSUME Running
  PROVE  /\ ProgramType /\ CodeKnown /\ Depth \in Nat \ {0} /\ Len(stack) = Depth
         /\ Depth \in 1 .. Depth /\ Depth <= MaxDepth
         /\ stack[Depth] \in Funs \cup {Gen} /\ stack[Depth] \in DOMAIN code
         /\ fun = stack[Depth] /\ Now = at[Depth] /\ AtNode(stack, at, Depth)
         /\ NodeAt(stack, at, Depth) = <<fun, Now[1], Now[2]>>
<1>1. CodeKnown /\ StackSound(stack) /\ PlacesSound(stack, at)
  BY DEF Running, FlowSound
<1>2. ProgramType
  BY <1>1, CodeIs
<1>3. Depth \in Nat \ {0} /\ Len(stack) = Depth /\ Depth \in 1 .. Depth /\ Depth <= MaxDepth /\ Len(at) = Depth
  BY <1>1, FiniteAssumption DEF StackSound, PlacesSound, Depth
<1>4. stack[Depth] \in Funs \cup {Gen} /\ AtNode(stack, at, Depth)
  BY <1>1, <1>3 DEF StackSound, PlacesSound
<1>5. fun = stack[Depth] /\ Now = at[Depth]
  BY <1>3 DEF fun, Now, Last
<1> QED
  BY <1>1, <1>2, <1>3, <1>4, <1>5 DEF NodeAt, AtNode

LEMMA AtStmt ==
  ASSUME Running, NEW op, OnStmt(op)
  PROVE  LET n == NodeAt(stack, at, Depth)
         IN  /\ n \in StmtNodes /\ StmtAt(n) = stmt /\ stmt.op = op
             /\ n \in CallNodes <=> op = "call"
             /\ IsStmt(stmt, stack[Depth], <<calls, pt>>) /\ Returned(<<calls, pt>>, code, stmt)
             /\ \A e \in Target(stmt) \cup Evaluated(stmt) : IsExpr(e, stack[Depth])
<1> DEFINE n == NodeAt(stack, at, Depth)
<1>1. /\ CodeKnown /\ fun = stack[Depth] /\ Now = at[Depth] /\ AtNode(stack, at, Depth)
      /\ stack[Depth] \in DOMAIN code /\ n = <<fun, Now[1], Now[2]>>
  BY AtNow
<1>2. Now[2] <= Len(Stmts(fun, Now[1])) /\ stmt.op = op
  BY DEF OnStmt
<1>3. n \in StmtNodes
  BY <1>1, <1>2, AtNodeIs
<1>4. StmtAt(n) = stmt
  BY <1>1 DEF StmtAt, stmt
<1>5. Now[1] \in DOMAIN code[fun] /\ Now[2] \in DOMAIN Stmts(fun, Now[1])
  <2>1. Now[1] \in DOMAIN code[fun] /\ Now[2] \in 1 .. Len(Stmts(fun, Now[1])) + 1
    BY <1>1 DEF AtNode
  <2>2. Len(Stmts(fun, Now[1])) \in Nat /\ DOMAIN Stmts(fun, Now[1]) = 1 .. Len(Stmts(fun, Now[1]))
    BY <1>1, <2>1, CodeIs
  <2>3. Now[2] \in 1 .. Len(Stmts(fun, Now[1]))
    <3> DEFINE L == Len(Stmts(fun, Now[1]))
               i == Now[2]
    <3>1. L \in Nat /\ i \in 1 .. L + 1 /\ i <= L
      BY <1>2, <2>1, <2>2
    <3> HIDE DEF L, i
    <3>2. i \in 1 .. L
      BY <3>1
    <3> QED
      BY <3>2 DEF L, i
  <2> QED
    BY <2>1, <2>2, <2>3
<1>6. IsStmt(stmt, stack[Depth], <<calls, pt>>) /\ Returned(<<calls, pt>>, code, stmt)
  BY <1>1, <1>5, CodeIs DEF stmt
<1>7. \A e \in Target(stmt) \cup Evaluated(stmt) : IsExpr(e, stack[Depth])
  BY <1>6 DEF IsStmt
<1>8. n \in CallNodes <=> op = "call"
  BY <1>2, <1>3, <1>4 DEF CallNodes
<1> QED
  BY <1>2, <1>3, <1>4, <1>6, <1>7, <1>8 DEF n

\* A statement has been executed, and written what it is sure to write.
LEMMA StmtDone ==
  ASSUME Running, NEW n \in StmtNodes, n = NodeAt(stack, at, Depth),
         NEW reads, \A o \in reads : o \in Visible(stack, Depth) /\ Decl(o) \in Needs(StmtAt(n)),
         NEW writes, \A o \in writes : o \in Visible(stack, Depth) /\ Decl(o) \in MayWrite(StmtAt(n)),
         \A o \in Visible(stack, Depth) : Level(o) <= Depth /\ Decl(o) \in WdefOf(n) => o \in writes
  PROVE  LET w == Observed(watch, reads, writes)
         IN  w \in WatchType /\ PlacesSound(stack, Moved(at)) /\ WatchSound(stack, Moved(at), w)
<1> DEFINE w == Observed(watch, reads, writes)
           B == BlockAt(stack, at, Depth)
<1>1. /\ CodeKnown /\ Depth \in Nat \ {0} /\ Len(stack) = Depth /\ Depth \in 1 .. Depth
      /\ AtNode(stack, at, Depth)
  BY AtNow
<1>2. /\ phase = "exec" /\ FlowSound /\ PlacesSound(stack, at) /\ watch \in WatchType
      /\ WatchSound(stack, at, watch)
  BY DEF Running
<1>3. reads \in SUBSET Objects /\ writes \in SUBSET Objects
  BY DEF Visible
<1>4. Needs(StmtAt(n)) \subseteq UseOf(n) /\ MayWrite(StmtAt(n)) \subseteq WmayOf(n)
  BY <1>2, UseKnown, WmayKnown DEF UseOf, WmayOf
<1>5. WmayOf(n) \subseteq WmayOf(B)
  <2>1. B \in BlockNodes /\ n \in Within(B)
    BY <1>1, AtNodeIs
  <2> QED
    BY <1>2, <2>1, WmayKnown DEF WmayOf
<1>6. watch.on => Depth \in watch.level .. Len(stack)
  <2> SUFFICES ASSUME watch.on
               PROVE  Depth \in watch.level .. Len(stack)
    OBVIOUS
  <2>1. watch.level \in 1 .. Len(stack)
    BY <1>2 DEF WatchSound, WatchOn
  <2> QED
    BY <1>1, <2>1
<1>7. WatchSound(stack, at, w)
  <2>1. \A o \in reads : o \in Visible(stack, Depth) /\ Decl(o) \in UseOf(NodeAt(stack, at, Depth))
    BY <1>4
  <2>2. \A o \in writes : o \in Visible(stack, Depth) /\ Decl(o) \in WmayOf(BlockAt(stack, at, Depth))
    BY <1>4, <1>5
  <2> QED
    BY <1>1, <1>2, <1>3, <1>6, <2>1, <2>2, ObserveKeeps
<1>8. w \in WatchType
  BY <1>7 DEF WatchSound, WatchKept
<1>9. w.on => \A o \in Visible(stack, Depth) : Level(o) <= w.level /\ Decl(o) \in WdefOf(n) => o \in w.written
  <2>1. CASE ~ watch.on
    <3>1. w = Unwatched
      BY <1>2, <1>3, <2>1, ObservedIs
    <3> QED
      BY <3>1 DEF Unwatched
  <2>2. CASE watch.on
    <3>1. Sees(watch, reads, writes, w)
      BY <1>2, <1>3, <2>2, ObservedIs
    <3>2. w.level = watch.level /\ w.written = watch.written \cup Old(writes, watch.level)
      BY <3>1 DEF Sees
    <3>3. watch.level \in 1 .. Depth
      BY <1>1, <1>2, <2>2 DEF WatchSound, WatchOn
    <3> HIDE DEF w
    <3> SUFFICES ASSUME NEW o \in Visible(stack, Depth), Level(o) <= watch.level, Decl(o) \in WdefOf(n)
                 PROVE  o \in Old(writes, watch.level)
      BY <3>2
    <3>4. Level(o) \in Nat
      BY ObjectsAre DEF Visible
    <3>5. Level(o) <= Depth
      BY <1>1, <3>3, <3>4
    <3> QED
      BY <3>5 DEF Old
  <2> QED
    BY <2>1, <2>2
<1> HIDE DEF w
<1>10. WatchSound(stack, Moved(at), w)
  BY <1>1, <1>2, <1>7, <1>8, <1>9, MoveKeeps
<1>11. PlacesSound(stack, Moved(at))
  BY <1>1, <1>2, MovePlaces
<1> QED
  BY <1>8, <1>10, <1>11 DEF w

\* What a statement that is executed is said to overwrite is the activation's own.
LEMMA StmtKillsOwn ==
  ASSUME Running, KillsAreOwn, NEW n \in StmtNodes
  PROVE  OwnKills(StmtAt(n))
BY DEF Running, KillsAreOwn, OwnKills

\* A statement that is no call is sure to write what it kills.
LEMMA NoCallKills ==
  ASSUME Running, NEW n \in StmtNodes, n \notin CallNodes \/ ExtFuns(StmtAt(n)) # {}
  PROVE  WdefOf(n) \subseteq Kills(StmtAt(n))
BY WdefKnown DEF Running, WdefOf

LEMMA ExecAssignKeeps ==
  ASSUME Running, KillsAreOwn, NEW age, StoreSound(stack, store, age), ExecAssign
  PROVE  Running' /\ \E a : StoreSound(stack, store, a)'
<1> DEFINE n == NodeAt(stack, at, Depth)
           E == Target(stmt) \cup stmt.rhs
<1>1. /\ OnStmt("assign") /\ UNCHANGED <<phase, locals, code, flow>> /\ stack' = stack /\ at' = Moved(at)
  BY DEF ExecAssign
<1>2. PICK c \in Evals(E, Depth) : \E o \in Value(stmt.lhs, c[stmt.lhs]) :
        /\ store' \in Stored({o}, stmt.rhs, c)
        /\ watch' = Observed(watch, Reads(c), Whole(o))
  BY DEF ExecAssign
<1>3. PICK o \in Value(stmt.lhs, c[stmt.lhs]) :
        /\ store' \in Stored({o}, stmt.rhs, c)
        /\ watch' = Observed(watch, Reads(c), Whole(o))
  BY <1>2
<1>4. /\ ProgramType /\ Depth \in Nat \ {0} /\ Len(stack) = Depth /\ Depth \in 1 .. Depth
  BY AtNow
<1>5. /\ n \in StmtNodes /\ StmtAt(n) = stmt /\ stmt.op = "assign" /\ n \notin CallNodes
      /\ IsStmt(stmt, stack[Depth], <<calls, pt>>)
      /\ \A e \in Target(stmt) \cup Evaluated(stmt) : IsExpr(e, stack[Depth])
  BY <1>1, AtStmt
<1>6. stmt.lhs # <<>> /\ \A e \in stmt.rhs : Covers(pt, stmt.lhs, e)
  BY <1>5 DEF IsStmt
<1>7. Evaluated(stmt) = stmt.rhs /\ Target(stmt) = {stmt.lhs} /\ E = Target(stmt) \cup Evaluated(stmt)
  BY <1>5, <1>6 DEF Evaluated, Target
<1>8. \A e \in E : IsExpr(e, stack[Depth]) /\ c[e] \in Walks(e, Depth)
  BY <1>5, <1>7 DEF Evals
<1> HIDE DEF n
<1>9. LocalsKnown /\ StackSound(stack) /\ FlowSound /\ phase = "exec"
  BY DEF Running
<1>10. \A x \in Reads(c) : x \in Visible(stack, Depth) /\ Decl(x) \in DFexpr(E)
  BY <1>4, <1>8, <1>9, ReadsAre
<1>11. \A x \in Reads(c) : x \in Visible(stack, Depth) /\ Decl(x) \in Needs(StmtAt(n))
  BY <1>5, <1>7, <1>10 DEF Needs
<1> HIDE DEF E
<1>12. IsExpr(stmt.lhs, stack[Depth]) /\ c[stmt.lhs] \in Walks(stmt.lhs, Depth) /\ stmt.lhs \in E
  BY <1>7, <1>8
<1>13. /\ o \in Objects /\ Level(o) \in Nat /\ Level(o) <= Depth /\ Decl(o) \in PT(stmt.lhs)
       /\ \A x \in Whole(o) : x \in Visible(stack, Depth) /\ x \in Objects /\ Decl(x) \in MayWrite(stmt)
  BY <1>4, <1>6, <1>9, <1>12, TargetsMayBe
<1>14. \A x \in Visible(stack, Depth) : Level(x) <= Depth /\ Decl(x) \in WdefOf(n) => x \in Whole(o)
  <2> SUFFICES ASSUME NEW x \in Visible(stack, Depth), Level(x) <= Depth, Decl(x) \in WdefOf(n)
               PROVE  x \in Whole(o)
    OBVIOUS
  <2>1. OwnKills(stmt) /\ Decl(x) \in Kills(stmt)
    BY <1>5, StmtKillsOwn, NoCallKills
  <2> QED
    BY <1>4, <1>6, <1>9, <1>12, <1>13, <2>1, KillsHit
<1>15. watch' \in WatchType /\ PlacesSound(stack, at') /\ WatchSound(stack, at', watch')
  BY <1>1, <1>3, <1>5, <1>11, <1>13, <1>14, StmtDone DEF n
<1>16. /\ DOMAIN store' = Objects
       /\ \A x \in Objects : x \notin Written({o}) => store'[x] = store[x]
       /\ \A x \in Written({o}) : \A p \in store'[x] : p \in Meetable(stack, age, Depth) /\ Allowed(x, p)
  <2> DEFINE To == {o}
             R == stmt.rhs
  <2>1. To \in SUBSET Objects
    BY <1>13
  <2>2. Takes(To, R)
    BY <1>6, <1>13 DEF Takes
  <2>3. Evaluable(R, c, Depth)
    BY <1>8 DEF Evaluable, E
  <2>4. store' \in Stored(To, R, c)
    BY <1>3
  <2> HIDE DEF To, R
  <2>5. /\ DOMAIN store' = Objects
        /\ \A x \in Objects : x \notin Written(To) => store'[x] = store[x]
        /\ \A x \in Written(To) : \A p \in store'[x] : p \in Meetable(stack, age, Depth) /\ Allowed(x, p)
    BY <1>4, <1>9, <2>1, <2>2, <2>3, <2>4, StoredMeets
  <2> QED
    BY <2>5 DEF To
<1>17. \A x \in Written({o}) : Level(x) <= Depth
  BY <1>13, WholeIs DEF Written
<1>18. StoreSound(stack, store', age)
  BY <1>9, <1>16, <1>17, StoreChanged
<1> QED
  BY <1>1, <1>9, <1>15, <1>18, RunningOn

LEMMA ExecFreeKeeps ==
  ASSUME Running, KillsAreOwn, NEW age, StoreSound(stack, store, age), ExecFree
  PROVE  Running' /\ \E a : StoreSound(stack, store, a)'
<1> DEFINE n == NodeAt(stack, at, Depth)
<1>1. /\ OnStmt("free") \/ OnStmt("sequence")
      /\ UNCHANGED <<phase, locals, code, flow>> /\ stack' = stack /\ store' = store /\ at' = Moved(at)
      /\ watch' = watch
  BY DEF ExecFree
<1>2. PICK op \in {"free", "sequence"} : OnStmt(op)
  BY <1>1
<1>3. /\ Depth \in Nat \ {0} /\ Len(stack) = Depth /\ CodeKnown
  BY AtNow
<1>4. /\ n \in StmtNodes /\ StmtAt(n) = stmt /\ stmt.op = op /\ n \notin CallNodes
      /\ IsStmt(stmt, stack[Depth], <<calls, pt>>)
  BY <1>2, AtStmt
<1>5. Target(stmt) = {}
  BY <1>2, <1>4 DEF IsStmt, Target
<1>6. Kills(stmt) = {}
  BY <1>5 DEF Kills
<1>7. WdefOf(n) = {}
  BY <1>4, <1>6, NoCallKills
<1>8. /\ FlowSound /\ phase = "exec" /\ PlacesSound(stack, at) /\ StackSound(stack)
      /\ watch \in WatchType /\ WatchSound(stack, at, watch)
  BY DEF Running
<1>9. PlacesSound(stack, at') /\ WatchSound(stack, at', watch')
  <2> HIDE DEF n
  <2>1. PlacesSound(stack, Moved(at))
    BY <1>3, <1>4, <1>8, MovePlaces DEF n
  <2>2. WatchSound(stack, Moved(at), watch)
    BY <1>3, <1>4, <1>7, <1>8, MoveKeeps DEF n
  <2> QED
    BY <1>1, <2>1, <2>2
<1> QED
  BY <1>1, <1>8, <1>9, RunningOn

\* The object that takes the result of a call.
LEMMA ResultsAre ==
  ASSUME ProgramType, LocalsKnown, StackSound(stack), NEW age, StoreSound(stack, store, age),
         NEW l \in 1 .. Depth, NEW s, NEW c, Evaluable(Target(s), c, l), NEW to \in Results(s, c)
  PROVE  /\ to \in SUBSET Objects
         /\ \A o \in to : s.lhs # <<>> /\ Decl(o) \in PT(s.lhs)
         /\ \A x \in Written(to) : /\ x \in Visible(stack, l) /\ x \in Objects /\ Decl(x) \in MayWrite(s)
                                   /\ Level(x) \in Nat /\ Level(x) <= Depth
                                   /\ \E o \in to : Level(x) = Level(o)
         /\ OwnKills(s) /\ (\A o \in to : Level(o) <= l) =>
              \A x \in Visible(stack, l) : Level(x) <= l /\ Decl(x) \in Kills(s) => x \in Written(to)
<1>1. CASE s.lhs = <<>>
  <2>1. to = {} /\ Target(s) = {}
    BY <1>1 DEF Results, Target
  <2>2. Written(to) = {} /\ Kills(s) = {}
    BY <2>1 DEF Written, Kills
  <2> QED
    BY <2>1, <2>2
<1>2. CASE s.lhs # <<>>
  <2> DEFINE w == c[s.lhs]
  <2>1. PICK o \in Value(s.lhs, w) : to = {o}
    BY <1>2 DEF Results
  <2>2. s.lhs \in Target(s)
    BY <1>2 DEF Target
  <2>3. IsExpr(s.lhs, stack[l]) /\ w \in Walks(s.lhs, l)
    BY <2>2 DEF Evaluable
  <2> HIDE DEF w
  <2>4. /\ o \in Objects /\ Level(o) \in Nat /\ Level(o) <= Depth /\ Decl(o) \in PT(s.lhs)
        /\ \A x \in Whole(o) : x \in Visible(stack, l) /\ x \in Objects /\ Decl(x) \in MayWrite(s)
    BY <1>2, <2>3, TargetsMayBe
  <2>5. Written(to) = Whole(o)
    BY <2>1 DEF Written
  <2>6. \A x \in Whole(o) : Level(x) = Level(o)
    BY <2>4, WholeIs
  <2>7. ASSUME OwnKills(s), Level(o) <= l, NEW x \in Visible(stack, l), Level(x) <= l, Decl(x) \in Kills(s)
        PROVE  x \in Whole(o)
    BY <1>2, <2>3, <2>7, KillsHit
  <2> QED
    BY <1>2, <2>1, <2>4, <2>5, <2>6, <2>7
<1> QED
  BY <1>1, <1>2

LEMMA ExternalMay ==
  ASSUME NEW s, NEW f \in ExtFuns(s)
  PROVE  ExtWrites[f] \subseteq MayWrite(s) /\ ExtReads[f] \subseteq Needs(s)
<1>1. ExtWrites[f] \subseteq MayWrite(s)
  <2> SUFFICES ASSUME NEW x \in ExtWrites[f]
               PROVE  x \in MayWrite(s)
    OBVIOUS
  <2>1. x \in UNION {ExtWrites[g] : g \in ExtFuns(s)}
    OBVIOUS
  <2> QED
    BY <2>1, Zenon DEF MayWrite
<1>2. ExtReads[f] \subseteq Needs(s)
  <2> SUFFICES ASSUME NEW x \in ExtReads[f]
               PROVE  x \in Needs(s)
    OBVIOUS
  <2>1. x \in UNION {ExtReads[g] : g \in ExtFuns(s)}
    OBVIOUS
  <2> QED
    BY <2>1, Zenon DEF Needs
<1> QED
  BY <1>1, <1>2

LEMMA ExecExternalKeeps ==
  ASSUME Running, KillsAreOwn, NEW age, StoreSound(stack, store, age), ExecExternal
  PROVE  Running' /\ \E a : StoreSound(stack, store, a)'
<1> DEFINE n == NodeAt(stack, at, Depth)
           E == stmt.fun \cup stmt.arg \cup Target(stmt)
<1>1. /\ OnStmt("call") /\ UNCHANGED <<phase, locals, code, flow>> /\ stack' = stack /\ at' = Moved(at)
  BY DEF ExecExternal
<1>2. PICK f \in ExtFuns(stmt) : \E c \in Evals(E, Depth) :
        \E R \in SUBSET UNION {Instances(d, 0) : d \in ExtReads[f]} :
        \E W \in SUBSET UNION {Instances(d, 0) : d \in ExtWrites[f]} :
        \E to \in Results(stmt, c) :
          /\ store' = [o \in DOMAIN store |-> IF o \in W \cup Written(to) THEN {} ELSE store[o]]
          /\ watch' = Observed(watch, Reads(c) \cup R, W \cup Written(to))
  BY DEF ExecExternal
<1>3. PICK c \in Evals(E, Depth), R \in SUBSET UNION {Instances(d, 0) : d \in ExtReads[f]},
           W \in SUBSET UNION {Instances(d, 0) : d \in ExtWrites[f]} :
        \E to \in Results(stmt, c) :
          /\ store' = [o \in DOMAIN store |-> IF o \in W \cup Written(to) THEN {} ELSE store[o]]
          /\ watch' = Observed(watch, Reads(c) \cup R, W \cup Written(to))
  BY <1>2
<1>4. PICK to \in Results(stmt, c) :
          /\ store' = [o \in DOMAIN store |-> IF o \in W \cup Written(to) THEN {} ELSE store[o]]
          /\ watch' = Observed(watch, Reads(c) \cup R, W \cup Written(to))
  BY <1>3
<1>5. /\ ProgramType /\ Depth \in Nat \ {0} /\ Len(stack) = Depth /\ Depth \in 1 .. Depth
  BY AtNow
<1>6. /\ n \in StmtNodes /\ StmtAt(n) = stmt /\ stmt.op = "call"
      /\ \A e \in Target(stmt) \cup Evaluated(stmt) : IsExpr(e, stack[Depth])
  BY <1>1, AtStmt
<1>7. E = Target(stmt) \cup Evaluated(stmt)
  BY <1>6 DEF Evaluated
<1>8. Evaluable(E, c, Depth) /\ Evaluable(Target(stmt), c, Depth) /\ \A e \in E : IsExpr(e, stack[Depth])
  BY <1>6, <1>7 DEF Evals, Evaluable
<1>9. LocalsKnown /\ StackSound(stack) /\ FlowSound /\ phase = "exec"
  BY DEF Running
<1> HIDE DEF n
<1>10. \A x \in Reads(c) : x \in Visible(stack, Depth) /\ Decl(x) \in DFexpr(E)
  BY <1>5, <1>8, <1>9, ReadsAre
<1>11. ExtReads[f] \subseteq Objs /\ ExtWrites[f] \subseteq Objs
  BY ExtAssumption DEF ExtFuns
<1>12. \A x \in R : x \in Visible(stack, Depth) /\ Decl(x) \in ExtReads[f]
  <2> SUFFICES ASSUME NEW x \in R
               PROVE  x \in Visible(stack, Depth) /\ Decl(x) \in ExtReads[f]
    OBVIOUS
  <2>1. PICK d \in ExtReads[f] : x \in Instances(d, 0)
    OBVIOUS
  <2>2. 0 \in 0 .. MaxDepth
    BY FiniteAssumption
  <2>3. x \in Objects /\ Level(x) = 0 /\ Decl(x) = d
    BY <1>11, <2>1, <2>2, ObjectsAre
  <2> QED
    BY <1>5, <1>9, <2>3, OthersVisible
<1>13. \A x \in W : x \in Visible(stack, Depth) /\ Decl(x) \in ExtWrites[f] /\ Level(x) = 0
  <2> SUFFICES ASSUME NEW x \in W
               PROVE  x \in Visible(stack, Depth) /\ Decl(x) \in ExtWrites[f] /\ Level(x) = 0
    OBVIOUS
  <2>1. PICK d \in ExtWrites[f] : x \in Instances(d, 0)
    OBVIOUS
  <2>2. 0 \in 0 .. MaxDepth
    BY FiniteAssumption
  <2>3. x \in Objects /\ Level(x) = 0 /\ Decl(x) = d
    BY <1>11, <2>1, <2>2, ObjectsAre
  <2> QED
    BY <1>5, <1>9, <2>3, OthersVisible
<1>14. /\ \A x \in Written(to) : /\ x \in Visible(stack, Depth) /\ x \in Objects /\ Decl(x) \in MayWrite(stmt)
                                 /\ Level(x) \in Nat /\ Level(x) <= Depth
       /\ to \in SUBSET Objects
       /\ OwnKills(stmt) /\ (\A o \in to : Level(o) <= Depth) =>
            \A x \in Visible(stack, Depth) : Level(x) <= Depth /\ Decl(x) \in Kills(stmt) => x \in Written(to)
  BY <1>5, <1>8, <1>9, ResultsAre
<1>15. \A o \in to : Level(o) <= Depth
  <2> SUFFICES ASSUME NEW o \in to
               PROVE  Level(o) <= Depth
    OBVIOUS
  <2>1. o \in Objects
    BY <1>14
  <2>2. o \in Whole(o)
    BY <2>1, WholeIs
  <2>3. o \in Written(to)
    BY <2>2 DEF Written
  <2> QED
    BY <1>14, <2>3
<1> DEFINE reads == Reads(c) \cup R
           writes == W \cup Written(to)
<1>16. \A x \in reads : x \in Visible(stack, Depth) /\ Decl(x) \in Needs(StmtAt(n))
  BY <1>6, <1>7, <1>10, <1>12 DEF Needs
<1>17. \A x \in writes : x \in Visible(stack, Depth) /\ Decl(x) \in MayWrite(StmtAt(n))
  <2> SUFFICES ASSUME NEW x \in writes
               PROVE  x \in Visible(stack, Depth) /\ Decl(x) \in MayWrite(stmt)
    BY <1>6
  <2>1. CASE x \in W
    BY <1>13, <2>1, ExternalMay
  <2>2. CASE x \in Written(to)
    BY <1>14, <2>2
  <2> QED
    BY <2>1, <2>2
<1>18. \A x \in Visible(stack, Depth) : Level(x) <= Depth /\ Decl(x) \in WdefOf(n) => x \in writes
  <2> SUFFICES ASSUME NEW x \in Visible(stack, Depth), Level(x) <= Depth, Decl(x) \in WdefOf(n)
               PROVE  x \in writes
    OBVIOUS
  <2>1. OwnKills(stmt) /\ Decl(x) \in Kills(stmt)
    BY <1>2, <1>6, StmtKillsOwn, NoCallKills
  <2> QED
    BY <1>14, <1>15, <2>1
<1>19. store' = [o \in DOMAIN store |-> IF o \in writes THEN {} ELSE store[o]] /\ watch' = Observed(watch, reads, writes)
  BY <1>4
<1>20. \A x \in writes : Level(x) <= Depth
  BY <1>5, <1>13, <1>14
<1> HIDE DEF reads, writes
<1>21. watch' \in WatchType /\ PlacesSound(stack, at') /\ WatchSound(stack, at', watch')
  BY <1>1, <1>6, <1>16, <1>17, <1>18, <1>19, StmtDone DEF n
<1>22. DOMAIN store' = Objects /\ \A x \in Objects : store'[x] = IF x \in writes THEN {} ELSE store[x]
  BY <1>19 DEF StoreSound
<1>23. StoreSound(stack, store', age)
  BY <1>9, <1>20, <1>22, StoreChanged
<1> QED
  BY <1>1, <1>9, <1>21, <1>23, RunningOn

\* The ages when p and its parts are of the current activation.
Younger(age, p) == [x \in Objects |-> IF x \in Whole(p) THEN Depth ELSE age[x]]
Unpointed(p)    == \A x \in Objects : store[x] \cap Whole(p) = {}
Pointing(st, o, p) ==
  /\ DOMAIN st = Objects
  /\ \A x \in Objects : st[x] = IF x = o THEN {p} ELSE IF x \in Whole(p) THEN {} ELSE store[x]

\* What is allocated belongs to the current activation: it is younger than all that the
\* others may know.
LEMMA AllocSound ==
  ASSUME StackSound(stack), NEW age, StoreSound(stack, store, age),
         NEW p \in Objects, Level(p) = 0, Owner[Decl(p)] \notin {Global, External},
         Unpointed(p), NEW o \in Objects, Level(o) <= Depth, Allowed(o, p),
         NEW st, Pointing(st, o, p)
  PROVE  StoreSound(stack, st, Younger(age, p))
<1> DEFINE new == Younger(age, p)
<1>0. /\ \A x \in Objects : store[x] \cap Whole(p) = {}
      /\ DOMAIN st = Objects
      /\ \A x \in Objects : st[x] = IF x = o THEN {p} ELSE IF x \in Whole(p) THEN {} ELSE store[x]
  BY DEF Unpointed, Pointing
<1>1. /\ stack \in Seq(Funs \cup {Gen}) /\ Depth \in 1 .. MaxDepth /\ Len(stack) = Depth
      /\ MaxDepth \in Nat /\ Depth \in Nat
  BY FiniteAssumption DEF StackSound, Depth
<1>2. \A x \in Objects : /\ age[x] \in Nat /\ Level(x) \in Nat
                         /\ Level(x) # 0 => age[x] = Level(x)
                         /\ Level(x) = 0 => age[x] <= Depth
  BY <1>1, AgesAre DEF StoreSound
<1>3. /\ \A x \in Whole(p) : x \in Objects /\ Level(x) = 0 /\ Owner[Decl(x)] = Owner[Decl(p)]
      /\ p \in Whole(p)
  BY WholeIs
<1>4. \A x \in Objects : new[x] = IF x \in Whole(p) THEN Depth ELSE age[x]
  BY DEF Younger
<1>5. Aged(stack, age) /\ \A x \in Objects : age[x] \in 0 .. MaxDepth
  BY DEF StoreSound, Aged
<1>6. ASSUME NEW x \in Whole(p), NEW d \in Members[Decl(x)], NEW q \in Instances(d, Level(x))
      PROVE  q \in Whole(p)
  <2>1. x \in Objects /\ Level(x) = 0 /\ Decl(x) \in Objs /\ Decl(p) \in Objs /\ 0 \in 0 .. MaxDepth
    BY <1>1, <1>3, ObjectsAre
  <2>2. d \in Objs
    BY <2>1, OwnerAssumption
  <2>3. q \in Objects /\ Level(q) = 0 /\ Decl(q) = d
    BY <2>1, <2>2, ObjectsAre
  <2>4. x = p \/ Decl(x) \in SubObjects(Members[Decl(p)])
    BY WholeIs
  <2>5. Members[Decl(p)] \in SUBSET Objs
    BY <2>1, OwnerAssumption
  <2>6. d \in SubObjects(Members[Decl(p)])
    BY <2>4, <2>5, SubObjectsAre
  <2> QED
    BY <2>3, <2>6, WholeIs
<1> HIDE DEF new
<1>7. Aged(stack, new)
  <2>1. new \in [Objects -> 0 .. MaxDepth]
    <3>1. new = [x \in Objects |-> new[x]]
      BY DEF new, Younger
    <3>2. \A x \in Objects : new[x] \in 0 .. MaxDepth
      BY <1>1, <1>4, <1>5
    <3> QED
      BY <3>1, <3>2
  <2>2. ASSUME NEW x \in Objects
        PROVE  /\ Level(x) # 0 => new[x] = Level(x)
               /\ Level(x) = 0 /\ new[x] # 0 => new[x] <= Len(stack) /\ Owner[Decl(x)] \notin {Global, External}
               /\ \A d \in Members[Decl(x)] : \A q \in Instances(d, Level(x)) : new[x] <= new[q]
    <3>1. Level(x) # 0 => new[x] = Level(x)
      BY <1>2, <1>3, <1>4
    <3>2. Level(x) = 0 /\ new[x] # 0 => new[x] <= Len(stack) /\ Owner[Decl(x)] \notin {Global, External}
      <4>1. CASE x \in Whole(p)
        BY <1>1, <1>3, <1>4, <4>1
      <4>2. CASE x \notin Whole(p)
        BY <1>4, <1>5, <4>2 DEF Aged
      <4> QED
        BY <4>1, <4>2
    <3>3. ASSUME NEW d \in Members[Decl(x)], NEW q \in Instances(d, Level(x))
          PROVE  new[x] <= new[q]
      <4>1. Level(x) \in 0 .. MaxDepth /\ Decl(x) \in Objs
        BY ObjectsAre
      <4>2. d \in Objs
        BY <4>1, OwnerAssumption
      <4>3. q \in Objects /\ Level(q) = Level(x)
        BY <4>1, <4>2, ObjectsAre
      <4>4. CASE x \in Whole(p)
        BY <1>1, <1>4, <1>6, <4>3, <4>4
      <4>5. CASE x \notin Whole(p) /\ q \in Whole(p)
        <5>1. Level(x) = 0
          BY <1>3, <4>3, <4>5
        <5> QED
          BY <1>1, <1>2, <1>4, <4>3, <4>5, <5>1
      <4>6. CASE x \notin Whole(p) /\ q \notin Whole(p)
        <5>1. age[x] <= age[q]
          BY <1>5 DEF Aged
        <5> QED
          BY <1>4, <4>3, <4>6, <5>1
      <4> QED
        BY <4>4, <4>5, <4>6
    <3> QED
      BY <3>1, <3>2, <3>3
  <2> QED
    BY <2>1, <2>2 DEF Aged
<1>8. ASSUME NEW x \in Objects
      PROVE  /\ st[x] \subseteq Objects
             /\ Level(x) > Len(stack) => st[x] = {}
             /\ \A q \in st[x] : Allowed(x, q) /\ Alive(stack, new, q) /\ Passed(stack, new, q, new[x])
  <2>1. /\ store[x] \subseteq Objects
        /\ Level(x) > Len(stack) => store[x] = {}
        /\ \A q \in store[x] : Allowed(x, q) /\ Alive(stack, age, q) /\ Passed(stack, age, q, age[x])
    BY DEF StoreSound
  <2>2. CASE x = o
    <3>1. st[x] = {p} /\ new[p] = Depth
      BY <1>0, <1>3, <1>4, <2>2
    <3>2. Alive(stack, new, p)
      BY <1>1, <3>1 DEF Alive
    <3>3. Passed(stack, new, p, new[x])
      BY <1>1, <3>1 DEF Passed
    <3>4. ~ (Level(x) > Len(stack))
      BY <1>1, <1>2, <2>2
    <3> QED
      BY <2>2, <3>1, <3>2, <3>3, <3>4
  <2>3. CASE x # o /\ x \in Whole(p)
    BY <1>0, <2>3
  <2>4. CASE x # o /\ x \notin Whole(p)
    <3>1. st[x] = store[x] /\ new[x] = age[x]
      BY <1>0, <1>4, <2>4
    <3>2. ASSUME NEW q \in store[x]
          PROVE  Alive(stack, new, q) /\ Passed(stack, new, q, new[x])
      <4>1. q \in Objects /\ q \notin Whole(p)
        BY <1>0, <2>1
      <4>2. new[q] = age[q]
        BY <1>4, <4>1
      <4>3. Alive(stack, new, q)
        BY <2>1, <4>2 DEF Alive
      <4>4. Passed(stack, new, q, new[x])
        BY <2>1, <3>1, <4>2 DEF Passed
      <4> QED
        BY <4>3, <4>4
    <3> QED
      BY <2>1, <3>1, <3>2
  <2> QED
    BY <2>2, <2>3, <2>4
<1>9. StoreSound(stack, st, new)
  BY <1>0, <1>7, <1>8 DEF StoreSound
<1> QED
  BY <1>9 DEF new

LEMMA ExecAllocKeeps ==
  ASSUME Running, KillsAreOwn, NEW age, StoreSound(stack, store, age), ExecAlloc
  PROVE  Running' /\ \E a : StoreSound(stack, store, a)'
<1> DEFINE n == NodeAt(stack, at, Depth)
           E == Target(stmt) \cup stmt.size
<1>1. /\ OnStmt("alloc") /\ UNCHANGED <<phase, locals, code, flow>> /\ stack' = stack /\ at' = Moved(at)
  BY DEF ExecAlloc
<1>2. PICK c \in Evals(E, Depth) : \E o \in Value(stmt.lhs, c[stmt.lhs]) : \E p \in Fresh(stmt.obj) :
        /\ store' = [x \in DOMAIN store |-> IF x = o THEN {p} ELSE IF x \in Whole(p) THEN {} ELSE store[x]]
        /\ watch' = Observed(watch, Reads(c), {o})
  BY DEF ExecAlloc
<1>3. PICK o \in Value(stmt.lhs, c[stmt.lhs]), p \in Fresh(stmt.obj) :
        /\ store' = [x \in DOMAIN store |-> IF x = o THEN {p} ELSE IF x \in Whole(p) THEN {} ELSE store[x]]
        /\ watch' = Observed(watch, Reads(c), {o})
  BY <1>2
<1>4. /\ ProgramType /\ Depth \in Nat \ {0} /\ Len(stack) = Depth /\ Depth \in 1 .. Depth
  BY AtNow
<1>5. /\ n \in StmtNodes /\ StmtAt(n) = stmt /\ stmt.op = "alloc" /\ n \notin CallNodes
      /\ IsStmt(stmt, stack[Depth], <<calls, pt>>)
      /\ \A e \in Target(stmt) \cup Evaluated(stmt) : IsExpr(e, stack[Depth])
  BY <1>1, AtStmt
<1>6. /\ stmt.lhs # <<>> /\ \A d \in PT(stmt.lhs) : stmt.obj \in pt[d] /\ Members[d] = {}
      /\ stmt.obj \in Objs /\ Owner[stmt.obj] \notin Funs \cup {Gen, Global, External}
  BY <1>5 DEF IsStmt, PT
<1>7. Target(stmt) = {stmt.lhs} /\ E = Target(stmt) \cup Evaluated(stmt)
  BY <1>5, <1>6 DEF Evaluated, Target
<1>8. Evaluable(Target(stmt), c, Depth) /\ \A e \in E : IsExpr(e, stack[Depth])
  BY <1>5, <1>7 DEF Evals, Evaluable
<1> HIDE DEF n
<1>9. LocalsKnown /\ StackSound(stack) /\ FlowSound /\ phase = "exec"
  BY DEF Running
<1>10. \A x \in Reads(c) : x \in Visible(stack, Depth) /\ Decl(x) \in DFexpr(E)
  BY <1>4, <1>8, <1>9, ReadsAre
<1>11. \A x \in Reads(c) : x \in Visible(stack, Depth) /\ Decl(x) \in Needs(StmtAt(n))
  BY <1>5, <1>7, <1>10 DEF Needs
<1>12. IsExpr(stmt.lhs, stack[Depth]) /\ c[stmt.lhs] \in Walks(stmt.lhs, Depth)
  BY <1>7, <1>8 DEF Evaluable
<1>13. /\ o \in Objects /\ Level(o) \in Nat /\ Level(o) <= Depth /\ Decl(o) \in PT(stmt.lhs)
       /\ \A x \in Whole(o) : x \in Visible(stack, Depth) /\ x \in Objects /\ Decl(x) \in MayWrite(stmt)
  BY <1>4, <1>6, <1>9, <1>12, TargetsMayBe
<1>14. Whole(o) = {o}
  <2>1. Members[Decl(o)] = {} /\ Decl(o) \in Objs
    BY <1>6, <1>13, ObjectsAre
  <2>2. SubObjects(Members[Decl(o)]) = {}
    BY <2>1, PartsOfOne
  <2> QED
    BY <1>13, <2>2, WholeIs
<1>15. \A x \in Visible(stack, Depth) : Level(x) <= Depth /\ Decl(x) \in WdefOf(n) => x \in {o}
  <2> SUFFICES ASSUME NEW x \in Visible(stack, Depth), Level(x) <= Depth, Decl(x) \in WdefOf(n)
               PROVE  x \in {o}
    OBVIOUS
  <2>1. OwnKills(stmt) /\ Decl(x) \in Kills(stmt)
    BY <1>5, StmtKillsOwn, NoCallKills
  <2> QED
    BY <1>4, <1>6, <1>9, <1>12, <1>13, <1>14, <2>1, KillsHit
<1>16. \A x \in {o} : x \in Visible(stack, Depth) /\ Decl(x) \in MayWrite(StmtAt(n))
  BY <1>5, <1>13, <1>14
<1>17. watch' \in WatchType /\ PlacesSound(stack, at') /\ WatchSound(stack, at', watch')
  BY <1>1, <1>3, <1>5, <1>11, <1>15, <1>16, StmtDone DEF n
<1>18. DOMAIN store = Objects
  BY DEF StoreSound
<1>19. p \in Objects /\ Level(p) = 0 /\ Decl(p) = stmt.obj /\ \A x \in Objects : store[x] \cap Whole(p) = {}
  <2>1. p \in Instances(stmt.obj, 0) /\ \A x \in Objects : store[x] \cap Whole(p) = {}
    BY <1>18 DEF Fresh
  <2>2. 0 \in 0 .. MaxDepth
    BY FiniteAssumption
  <2> QED
    BY <1>6, <2>1, <2>2, ObjectsAre
<1>20. Allowed(o, p) /\ Owner[Decl(p)] \notin {Global, External}
  BY <1>6, <1>13, <1>19 DEF Allowed
<1>21. /\ DOMAIN store' = Objects
       /\ \A x \in Objects : store'[x] = IF x = o THEN {p} ELSE IF x \in Whole(p) THEN {} ELSE store[x]
  BY <1>3, <1>18
<1>22. Pointing(store', o, p) /\ Unpointed(p)
  BY <1>19, <1>21 DEF Pointing, Unpointed
<1>23. StoreSound(stack, store', Younger(age, p))
  BY <1>6, <1>9, <1>13, <1>19, <1>20, <1>22, AllocSound
<1> QED
  BY <1>1, <1>9, <1>17, <1>23, RunningOn

\* What is read is seen, and nothing is written.
LEMMA ReadsSeen ==
  ASSUME Running, NEW reads,
         \A o \in reads : o \in Visible(stack, Depth) /\ Decl(o) \in UseOf(NodeAt(stack, at, Depth))
  PROVE  LET w == Observed(watch, reads, {})
         IN  w \in WatchType /\ WatchSound(stack, at, w)
<1> DEFINE w == Observed(watch, reads, {})
<1>1. CodeKnown /\ Depth \in Nat \ {0} /\ Len(stack) = Depth /\ watch \in WatchType /\ WatchSound(stack, at, watch)
  BY AtNow DEF Running
<1>2. reads \in SUBSET Objects /\ {} \in SUBSET Objects
  BY DEF Visible
<1>3. watch.on => Depth \in watch.level .. Len(stack)
  <2> SUFFICES ASSUME watch.on
               PROVE  Depth \in watch.level .. Len(stack)
    OBVIOUS
  <2>1. watch.level \in 1 .. Len(stack)
    BY <1>1 DEF WatchSound, WatchOn
  <2> QED
    BY <1>1, <2>1
<1>4. WatchSound(stack, at, w)
  BY <1>1, <1>2, <1>3, ObserveKeeps
<1> QED
  BY <1>4 DEF WatchSound, WatchKept

LEMMA EnteringIs ==
  ASSUME NEW w, NEW level, NEW node, NEW entry, NEW v \in Entering(w, level, node, entry)
  PROVE  v = w \/ v = [Unwatched EXCEPT !.on = TRUE, !.level = level, !.node = node, !.entry = entry]
BY DEF Entering

\* What the parameters and their parts may point to.
LEMMA FormalsPublic ==
  ASSUME ProgramType, NEW f \in Funs, NEW d \in TopLevel(f) \cap Params
  PROVE  d \in Objs /\ \A c \in SubObjects({d}) : c \in Objs /\ pt[c] \subseteq Public(f)
<1> DEFINE S == TopLevel(f) \cap Params
           P == Parts(S, GlobalClosure)
           T == P \cup Named
<1>1. pt \in [Objs -> SUBSET Objs] /\ S \in SUBSET Objs /\ d \in Objs
  BY DEF ProgramType, TopLevel, Roots
<1> HIDE DEF S
<1>2. /\ S \ GlobalClosure \subseteq P
      /\ \A c \in P : c \in Objs \ GlobalClosure /\ Members[c] \ GlobalClosure \subseteq P
  BY <1>1, PartsAre
<1>3. \A c \in P : pt[c] \ GlobalClosure \subseteq PointedTo(S, GlobalClosure)
  BY <1>1, PointedToIs
<1>4. ParamClosure(f) = PointedTo(S, GlobalClosure)
  BY DEF ParamClosure, S
<1> HIDE DEF P
<1>5. GlobalClosure \subseteq Named /\ GlobalClosure \subseteq Public(f) /\ ParamClosure(f) \subseteq Public(f)
  BY DEF Named, Public
<1>6. \A c \in Named : c \in Objs /\ Members[c] \subseteq Named /\ pt[c] \subseteq GlobalClosure
  BY <1>1, PublicIs
<1>7. T \in SUBSET Objs /\ d \in T /\ \A c \in T : Members[c] \subseteq T
  <2>1. d \in S
    BY DEF S
  <2>2. \A c \in P : Members[c] \subseteq T
    BY <1>2, <1>5
  <2> QED
    BY <1>2, <1>5, <1>6, <2>1, <2>2
<1>8. SubObjects({d}) \subseteq T
  <2>1. {d} \in SUBSET Objs /\ {d} \subseteq T
    BY <1>1, <1>7
  <2> DEFINE A == {d}
  <2>2. A \in SUBSET Objs /\ A \subseteq T
    BY <2>1
  <2> HIDE DEF A, T
  <2>3. SubObjects(A) \subseteq T
    BY <1>7, <2>2, SubObjectsAre
  <2> QED
    BY <2>3 DEF A
<1>9. \A c \in T : c \in Objs /\ pt[c] \subseteq Public(f)
  <2>1. \A c \in P : pt[c] \subseteq Public(f)
    BY <1>3, <1>4, <1>5
  <2>2. \A c \in Named : pt[c] \subseteq Public(f)
    BY <1>5, <1>6
  <2> QED
    BY <1>2, <1>6, <2>1, <2>2
<1> QED
  BY <1>1, <1>8, <1>9

Formals(f) == UNION {Instances(d, Depth + 1) : d \in TopLevel(f) \cap Params}

LEMMA FormalsAre ==
  ASSUME Running, Depth < MaxDepth, NEW f \in Funs, NEW o \in Formals(f)
  PROVE  /\ o \in Objects /\ Level(o) = Depth + 1 /\ Decl(o) \in TopLevel(f) \cap Params
         /\ PT(<<Decl(o)>>) = {Decl(o)}
         /\ \A x \in Whole(o) : Level(x) = Depth + 1 /\ x \in Objects /\ pt[Decl(x)] \subseteq Public(f)
<1>1. ProgramType /\ Depth \in Nat \ {0}
  BY AtNow
<1>2. PICK d \in TopLevel(f) \cap Params : o \in Instances(d, Depth + 1)
  BY DEF Formals
<1>3. d \in Objs /\ \A c \in SubObjects({d}) : c \in Objs /\ pt[c] \subseteq Public(f)
  BY <1>1, FormalsPublic
<1>4. Depth + 1 \in 0 .. MaxDepth
  BY <1>1, FiniteAssumption
<1>5. o \in Objects /\ Decl(o) = d /\ Level(o) = Depth + 1
  BY <1>2, <1>3, <1>4, ObjectsAre
<1>6. PT(<<d>>) = {d}
  <2> DEFINE e == <<d>>
  <2>1. Len(e) = 1 /\ e[1] = d
    OBVIOUS
  <2> HIDE DEF e
  <2>2. Len(e) \in Nat \ {0} /\ e[1] \in Objs
    BY <1>3, <2>1
  <2>3. PICK T \in [1 .. Len(e) -> SUBSET Objs] : PTSteps(e, T) /\ PT(e) = T[Len(e)]
    BY <1>1, <2>2, PTIs
  <2>4. T[1] = {e[1]}
    BY <2>2, <2>3, PTStepsAre
  <2>5. PT(e) = {d}
    BY <2>1, <2>3, <2>4
  <2> QED
    BY <2>5 DEF e
<1>7. ASSUME NEW x \in Whole(o)
      PROVE  Level(x) = Depth + 1 /\ x \in Objects /\ pt[Decl(x)] \subseteq Public(f)
  <2>1. x \in Objects /\ Level(x) = Level(o) /\ Decl(x) \in SubObjects({Decl(o)})
    BY <1>5, WholeIs
  <2> QED
    BY <1>3, <1>5, <2>1
<1> QED
  BY <1>2, <1>5, <1>6, <1>7

LEMMA ExecCallKeeps ==
  ASSUME Running, KillsAreOwn, NEW age, StoreSound(stack, store, age), ExecCall
  PROVE  Running' /\ \E a : StoreSound(stack, store, a)'
<1> DEFINE n == NodeAt(stack, at, Depth)
           E == stmt.fun \cup stmt.arg
<1>1. OnStmt("call") /\ Depth < MaxDepth /\ UNCHANGED <<phase, locals, code, flow>>
  BY DEF ExecCall
<1>2. PICK f \in FunDfs(stmt) : \E c \in Evals(E, Depth) :
        /\ store' \in Stored(Formals(f), stmt.arg, c)
        /\ stack' = Append(stack, f)
        /\ at' = Append(at, <<1, 1>>)
        /\ watch' \in Entering(Observed(watch, Reads(c), {}), Depth + 1, <<f, 1, 0>>, TRUE)
  BY DEF ExecCall, Formals
<1>3. PICK c \in Evals(E, Depth) :
        /\ store' \in Stored(Formals(f), stmt.arg, c)
        /\ stack' = Append(stack, f)
        /\ at' = Append(at, <<1, 1>>)
        /\ watch' \in Entering(Observed(watch, Reads(c), {}), Depth + 1, <<f, 1, 0>>, TRUE)
  BY <1>2
<1>4. /\ ProgramType /\ CodeKnown /\ Depth \in Nat \ {0} /\ Len(stack) = Depth /\ Depth \in 1 .. Depth
      /\ stack[Depth] \in Funs \cup {Gen}
  BY AtNow
<1>5. /\ n \in StmtNodes /\ StmtAt(n) = stmt /\ stmt.op = "call" /\ n \in CallNodes
      /\ IsStmt(stmt, stack[Depth], <<calls, pt>>)
      /\ \A e \in Target(stmt) \cup Evaluated(stmt) : IsExpr(e, stack[Depth])
  BY <1>1, AtStmt
<1>6. /\ f \in Funs /\ (stack[Depth] # Gen => f \in calls[stack[Depth]])
      /\ \A e \in stmt.arg : \A d \in TopLevel(f) \cap Params : Covers(pt, <<d>>, e)
  BY <1>5 DEF IsStmt
<1>7. Evaluated(stmt) = E
  BY <1>5 DEF Evaluated
<1>8. \A e \in E : IsExpr(e, stack[Depth]) /\ c[e] \in Walks(e, Depth)
  BY <1>5, <1>7 DEF Evals
<1> HIDE DEF n
<1>9. /\ LocalsKnown /\ StackSound(stack) /\ FlowSound /\ phase = "exec" /\ CallsSound /\ PlacesSound(stack, at)
      /\ StoreSound(stack, store, age)
  BY DEF Running
<1>10. \A x \in Reads(c) : x \in Visible(stack, Depth) /\ Decl(x) \in DFexpr(E)
  BY <1>4, <1>8, <1>9, ReadsAre
<1>11. DFexpr(E) \subseteq UseOf(n)
  <2>1. Needs(stmt) \subseteq UseOf(n)
    BY <1>5, <1>9, UseKnown DEF UseOf
  <2>2. DFexpr(E) \subseteq DFexpr(Target(stmt) \cup Evaluated(stmt))
    BY <1>7 DEF DFexpr
  <2> QED
    BY <2>1, <2>2 DEF Needs
<1> DEFINE w == Observed(watch, Reads(c), {})
<1>12. w \in WatchType /\ WatchSound(stack, at, w)
  <2>1. \A x \in Reads(c) : x \in Visible(stack, Depth) /\ Decl(x) \in UseOf(NodeAt(stack, at, Depth))
    BY <1>10, <1>11 DEF n
  <2> QED
    BY <2>1, ReadsSeen
<1> HIDE DEF w
<1>13. stack \in Seq(Funs \cup {Gen})
  BY <1>9 DEF StackSound
<1>14. /\ PlacesSound(stack', at') /\ Len(stack') = Depth + 1 /\ stack'[Depth + 1] = f
       /\ NodeAt(stack', at', Depth + 1) = <<f, 1, 1>> /\ BlockAt(stack', at', Depth + 1) = <<f, 1, 0>>
  <2>1. Len(stack) \in Nat \ {0} /\ NodeAt(stack, at, Len(stack)) = n
    BY <1>4 DEF n
  <2> DEFINE sk2 == Append(stack, f)
             pl2 == Append(at, <<1, 1>>)
  <2>2. /\ PlacesSound(sk2, pl2) /\ Len(sk2) = Len(stack) + 1 /\ sk2[Len(stack) + 1] = f
        /\ NodeAt(sk2, pl2, Len(stack) + 1) = <<f, 1, 1>> /\ BlockAt(sk2, pl2, Len(stack) + 1) = <<f, 1, 0>>
    BY <1>4, <1>5, <1>6, <1>9, <1>13, <2>1, PushPlaces
  <2>3. stack' = sk2 /\ at' = pl2
    BY <1>3
  <2> HIDE DEF sk2, pl2
  <2> QED
    BY <1>4, <2>2, <2>3
<1>15. watch' \in WatchType /\ WatchSound(stack', at', watch')
  <2>1. watch' \in Entering(w, Depth + 1, <<f, 1, 0>>, TRUE)
    BY <1>3 DEF w
  <2>2. CASE watch' = w
    <3>1. WatchSound(Append(stack, f), Append(at, <<1, 1>>), w)
      BY <1>4, <1>5, <1>6, <1>9, <1>12, <1>13, PushKeeps DEF n
    <3> QED
      BY <1>3, <1>12, <2>2, <3>1
  <2>3. CASE watch' = [Unwatched EXCEPT !.on = TRUE, !.level = Depth + 1, !.node = <<f, 1, 0>>, !.entry = TRUE]
    <3>1. f \in DOMAIN code /\ 1 \in DOMAIN code[f]
      BY <1>4, <1>6, CodeIs
    <3> DEFINE k == Depth + 1
    <3>2. /\ k \in Nat \ {0} /\ Len(stack') = k /\ stack'[k] = f
          /\ NodeAt(stack', at', k) = <<f, 1, 1>> /\ BlockAt(stack', at', k) = <<f, 1, 0>>
      BY <1>4, <1>14
    <3>3. watch' = [Unwatched EXCEPT !.on = TRUE, !.level = k, !.node = <<stack'[k], 1, 0>>, !.entry = TRUE]
      BY <2>3, <3>2
    <3> HIDE DEF k
    <3>4. \A sk, pl : /\ Len(sk) = k /\ sk[k] = f
                      /\ NodeAt(sk, pl, k) = <<f, 1, 1>> /\ BlockAt(sk, pl, k) = <<f, 1, 0>>
                      => LET v == [Unwatched EXCEPT !.on = TRUE, !.level = k, !.node = <<sk[k], 1, 0>>, !.entry = TRUE]
                         IN  v \in WatchType /\ WatchSound(sk, pl, v)
      BY <1>4, <1>6, <1>9, <3>1, <3>2, EnterSound
    <3> QED
      BY <3>2, <3>3, <3>4
  <2> QED
    BY <2>1, <2>2, <2>3, EnteringIs
<1>16. /\ DOMAIN store' = Objects
       /\ \A x \in Objects : x \notin Written(Formals(f)) => store'[x] = store[x]
       /\ \A x \in Written(Formals(f)) : \A p \in store'[x] : p \in Meetable(stack, age, Depth) /\ Allowed(x, p)
  <2> DEFINE To == Formals(f)
             R == stmt.arg
  <2>1. To \in SUBSET Objects
    BY <1>1, <1>6, FormalsAre
  <2>2. Takes(To, R)
    <3> SUFFICES ASSUME NEW o \in To
                 PROVE  \E r : Decl(o) \in PT(r) /\ \A e \in R : Covers(pt, r, e)
      BY DEF Takes
    <3>1. Decl(o) \in TopLevel(f) \cap Params /\ PT(<<Decl(o)>>) = {Decl(o)}
      BY <1>1, <1>6, FormalsAre
    <3> QED
      BY <1>6, <3>1
  <2>3. Evaluable(R, c, Depth)
    BY <1>8 DEF Evaluable
  <2>4. store' \in Stored(To, R, c)
    BY <1>3
  <2> HIDE DEF To, R
  <2>5. /\ DOMAIN store' = Objects
        /\ \A x \in Objects : x \notin Written(To) => store'[x] = store[x]
        /\ \A x \in Written(To) : \A p \in store'[x] : p \in Meetable(stack, age, Depth) /\ Allowed(x, p)
    BY <1>4, <1>9, <2>1, <2>2, <2>3, <2>4, StoredMeets
  <2> QED
    BY <2>5 DEF To
<1>17. ASSUME NEW x \in Objects, x \in Written(Formals(f))
       PROVE  /\ Level(x) = Depth + 1
              /\ \A p \in store'[x] : /\ p \in Meetable(stack, age, Depth) /\ Allowed(x, p)
                                      /\ Decl(p) \in Public(f)
  <2>1. PICK o \in Formals(f) : x \in Whole(o)
    BY <1>17 DEF Written
  <2>2. Level(x) = Depth + 1 /\ pt[Decl(x)] \subseteq Public(f)
    BY <1>1, <1>6, <2>1, FormalsAre
  <2> QED
    BY <1>16, <1>17, <2>2 DEF Allowed
<1>18. waiting = {}
  BY <1>9 DEF CallsSound
<1>19. Depth > 1 => f \in calls[stack[Depth]]
  <2> SUFFICES ASSUME Depth > 1
               PROVE  stack[Depth] # Gen
    BY <1>6
  <2>1. stack[Depth] \in Funs
    BY <1>4, <1>9 DEF StackSound
  <2> QED
    BY <2>1, OwnerAssumption
<1>20. StackSound(stack') /\ StoreSound(stack', store', age)
  <2>1. \A x \in Objects : \/ store'[x] = store[x]
                           \/ /\ Level(x) = Depth + 1
                              /\ \A p \in store'[x] : /\ p \in Meetable(stack, age, Depth) /\ Allowed(x, p)
                                                      /\ Decl(p) \in Public(f)
    BY <1>16, <1>17
  <2>2. StackSound(Append(stack, f)) /\ StoreSound(Append(stack, f), store', age)
    BY <1>1, <1>6, <1>9, <1>16, <1>18, <1>19, <2>1, PushSound
  <2> QED
    BY <1>3, <2>2
<1> QED
  BY <1>1, <1>14, <1>15, <1>20, RunningOn

\* The activation is at the end of a block.
LEMMA AtEnd ==
  ASSUME Running, OnJump
  PROVE  LET n == NodeAt(stack, at, Depth)
             jump == Jump(fun, Now[1])
         IN  /\ n \in JumpNodes /\ n[1] = fun /\ n[2] = Now[1]
             /\ fun = stack[Depth] /\ Now = at[Depth] /\ Now[1] \in DOMAIN code[fun]
             /\ \A e \in jump.rhs : IsExpr(e, stack[Depth])
             /\ DFexpr(jump.rhs) \subseteq UseOf(n)
             /\ jump.to \subseteq DOMAIN code[stack[Depth]]
             /\ jump.op = "return" <=> jump.to = {}
<1> DEFINE n == NodeAt(stack, at, Depth)
<1>1. /\ CodeKnown /\ fun = stack[Depth] /\ Now = at[Depth] /\ AtNode(stack, at, Depth)
      /\ stack[Depth] \in DOMAIN code /\ n = <<fun, Now[1], Now[2]>>
  BY AtNow
<1>2. FlowSound /\ phase = "exec"
  BY DEF Running
<1>3. Now[2] > Len(Stmts(fun, Now[1]))
  BY DEF OnJump
<1>4. n \in JumpNodes
  BY <1>1, <1>3, AtNodeIs
<1>5. n[1] = fun /\ n[2] = Now[1]
  BY <1>1
<1> HIDE DEF n
<1>6. Now[1] \in DOMAIN code[fun]
  BY <1>1 DEF AtNode
<1>7. DFexpr(Jump(n[1], n[2]).rhs) \subseteq UseOf(n)
  BY <1>2, <1>4, UseKnown DEF UseOf
<1>8. /\ \A e \in Jump(fun, Now[1]).rhs : IsExpr(e, stack[Depth])
      /\ Jump(fun, Now[1]).to \subseteq DOMAIN code[stack[Depth]]
      /\ Jump(fun, Now[1]).op = "return" <=> Jump(fun, Now[1]).to = {}
  BY <1>1, <1>6, CodeIs
<1> QED
  BY <1>1, <1>4, <1>5, <1>6, <1>7, <1>8 DEF n

LEMMA ExecJumpKeeps ==
  ASSUME Running, KillsAreOwn, NEW age, StoreSound(stack, store, age), ExecJump
  PROVE  Running' /\ \E a : StoreSound(stack, store, a)'
<1> DEFINE n == NodeAt(stack, at, Depth)
           jump == Jump(fun, Now[1])
           E == jump.rhs
<1>1. /\ OnJump /\ UNCHANGED <<phase, locals, code, flow>> /\ stack' = stack /\ store' = store
  BY DEF ExecJump
<1>2. PICK c \in Evals(E, Depth) : \E b \in jump.to :
        /\ at' = [at EXCEPT ![Depth] = <<b, 1>>]
        /\ watch' \in Entering(Observed(watch, Reads(c), {}), Depth, <<fun, b, 0>>, FALSE)
  BY DEF ExecJump
<1>3. PICK b \in jump.to :
        /\ at' = [at EXCEPT ![Depth] = <<b, 1>>]
        /\ watch' \in Entering(Observed(watch, Reads(c), {}), Depth, <<fun, b, 0>>, FALSE)
  BY <1>2
<1>4. /\ ProgramType /\ CodeKnown /\ Depth \in Nat \ {0} /\ Len(stack) = Depth /\ Depth \in 1 .. Depth
      /\ stack[Depth] \in Funs \cup {Gen}
  BY AtNow
<1>5. /\ n \in JumpNodes /\ n[1] = fun /\ n[2] = Now[1] /\ fun = stack[Depth] /\ Now = at[Depth]
      /\ \A e \in E : IsExpr(e, stack[Depth])
      /\ DFexpr(E) \subseteq UseOf(n) /\ b \in DOMAIN code[stack[Depth]]
  BY <1>1, <1>3, AtEnd
<1>6. b \in Jump(stack[Depth], at[Depth][1]).to
  BY <1>3, <1>5
<1> HIDE DEF n, jump
<1>7. /\ LocalsKnown /\ StackSound(stack) /\ FlowSound /\ phase = "exec" /\ PlacesSound(stack, at)
      /\ StoreSound(stack, store, age)
  BY DEF Running
<1> HIDE DEF E
<1>8. \A x \in Reads(c) : x \in Visible(stack, Depth) /\ Decl(x) \in DFexpr(E)
  BY <1>4, <1>5, <1>7, ReadsAre
<1> DEFINE w == Observed(watch, Reads(c), {})
<1>9. w \in WatchType /\ WatchSound(stack, at, w)
  <2>1. \A x \in Reads(c) : x \in Visible(stack, Depth) /\ Decl(x) \in UseOf(NodeAt(stack, at, Depth))
    BY <1>5, <1>8 DEF n
  <2> QED
    BY <2>1, ReadsSeen
<1>10. watch' \in Entering(w, Depth, <<stack[Depth], b, 0>>, FALSE)
  BY <1>3, <1>5
<1> HIDE DEF w
<1> DEFINE l == Depth
           jp == [at EXCEPT ![l] = <<b, 1>>]
<1>11. /\ l \in Nat \ {0} /\ Len(stack) = l /\ at' = jp /\ NodeAt(stack, at, l) \in JumpNodes
       /\ b \in DOMAIN code[stack[l]] /\ b \in Jump(stack[l], at[l][1]).to /\ stack[l] \in Funs \cup {Gen}
       /\ watch' \in Entering(w, l, <<stack[l], b, 0>>, FALSE)
  BY <1>3, <1>4, <1>5, <1>6, <1>10 DEF n
<1> HIDE DEF l
<1>12. /\ PlacesSound(stack, jp) /\ NodeAt(stack, jp, l) = <<stack[l], b, 1>>
       /\ BlockAt(stack, jp, l) = <<stack[l], b, 0>>
  BY <1>4, <1>7, <1>11, JumpPlaces
<1>13. watch' \in WatchType /\ WatchSound(stack, jp, watch')
  <2>1. CASE watch' = w
    <3>1. WatchSound(stack, jp, w)
      BY <1>7, <1>9, <1>11, JumpKeeps
    <3> QED
      BY <1>9, <2>1, <3>1
  <2>2. CASE watch' = [Unwatched EXCEPT !.on = TRUE, !.level = l, !.node = <<stack[l], b, 0>>, !.entry = FALSE]
    <3> HIDE DEF jp
    <3> DEFINE v == [Unwatched EXCEPT !.on = TRUE, !.level = l, !.node = <<stack[l], b, 0>>, !.entry = FALSE]
    <3>1. v \in WatchType /\ WatchSound(stack, jp, v)
      BY <1>4, <1>7, <1>11, <1>12, EnterSound
    <3> QED
      BY <2>2, <3>1
  <2> QED
    BY <1>11, <2>1, <2>2, EnteringIs
<1> QED
  BY <1>1, <1>7, <1>11, <1>12, <1>13, RunningOn

LEMMA WatchOff ==
  ASSUME NEW w \in WatchType, NEW sk, NEW pl, WatchSound(sk, pl, w)
  PROVE  LET v == [w EXCEPT !.on = FALSE]
         IN  v \in WatchType /\ \A sk2, pl2 : WatchSound(sk2, pl2, v)
<1> DEFINE v == [w EXCEPT !.on = FALSE]
<1>1. v \in WatchType
  BY DEF WatchType
<1>2. /\ ~ v.on /\ v.level = w.level /\ v.node = w.node /\ v.entry = w.entry /\ v.read = w.read
      /\ v.wrote = w.wrote
  BY DEF WatchType
<1> HIDE DEF v
<1>3. WatchKept(v)
  BY <1>1, <1>2 DEF WatchSound, WatchKept
<1>4. \A sk2, pl2 : WatchSound(sk2, pl2, v)
  BY <1>2, <1>3 DEF WatchSound
<1> QED
  BY <1>1, <1>4 DEF v

\* The call that the activation returns to.
CallNode == NodeAt(stack, at, Depth - 1)

LEMMA CallIs ==
  ASSUME Running, Depth > 1
  PROVE  /\ Depth - 1 \in Nat \ {0} /\ Len(stack) = (Depth - 1) + 1 /\ Depth - 1 \in 1 .. Depth
         /\ CallNode \in CallNodes /\ CallNode \in StmtNodes
         /\ StmtAt(CallNode) = Stmts(stack[Depth - 1], at[Depth - 1][1])[at[Depth - 1][2]]
         /\ stack[Depth] \in FunDfs(StmtAt(CallNode))
         /\ stack \in Seq(Funs \cup {Gen})
         /\ PlacesSound(Front(stack), Front(at)) /\ Len(Front(stack)) = Depth - 1
         /\ \A k \in 1 .. Depth - 1 : Front(stack)[k] = stack[k]
         /\ NodeAt(Front(stack), Front(at), Depth - 1) = CallNode
         /\ AtNode(Front(stack), Front(at), Depth - 1)
         /\ \A e \in Target(StmtAt(CallNode)) : IsExpr(e, stack[Depth - 1])
         /\ Returned(<<calls, pt>>, code, StmtAt(CallNode))
<1> DEFINE m == Depth - 1
<1>1. CodeKnown /\ StackSound(stack) /\ PlacesSound(stack, at)
  BY DEF Running, FlowSound
<1>2. /\ m \in Nat \ {0} /\ Len(stack) = m + 1 /\ m \in 1 .. Depth /\ Depth = m + 1 /\ m \in 1 .. m
      /\ stack \in Seq(Funs \cup {Gen})
  BY <1>1, AtNow DEF StackSound
<1> HIDE DEF m
<1>3. /\ PlacesSound(Front(stack), Front(at)) /\ Len(Front(stack)) = m
      /\ \A k \in 1 .. m : /\ Front(stack)[k] = stack[k]
                           /\ NodeAt(Front(stack), Front(at), k) = NodeAt(stack, at, k)
      /\ AtCall(stack, at, m)
  BY <1>1, <1>2, PopPlaces
<1>4. CallNode = NodeAt(stack, at, m)
  BY DEF CallNode, m
<1>5. CallNode \in CallNodes /\ stack[m + 1] \in FunDfs(StmtAt(CallNode)) /\ CallNode \in StmtNodes
  BY <1>1, <1>3, <1>4, NodesDiffer DEF AtCall
<1>6. CallNode[1] = stack[m] /\ CallNode[2] = at[m][1] /\ CallNode[3] = at[m][2]
  BY <1>4 DEF NodeAt
<1>7. StmtAt(CallNode) = Stmts(stack[m], at[m][1])[at[m][2]]
  BY <1>6 DEF StmtAt
<1>8. AtNode(Front(stack), Front(at), m)
  BY <1>2, <1>3 DEF PlacesSound
<1>9. /\ IsStmt(StmtAt(CallNode), stack[m], <<calls, pt>>)
      /\ Returned(<<calls, pt>>, code, StmtAt(CallNode))
  <2> DEFINE q == CallNode
  <2>1. /\ q[1] \in DOMAIN code /\ q[2] \in DOMAIN code[q[1]]
        /\ q[3] \in 1 .. Len(Stmts(q[1], q[2]))
    BY <1>1, <1>5, NodesAre
  <2>2. DOMAIN Stmts(q[1], q[2]) = 1 .. Len(Stmts(q[1], q[2]))
    BY <1>1, <2>1, CodeIs
  <2>3. /\ IsStmt(Stmts(q[1], q[2])[q[3]], q[1], <<calls, pt>>)
        /\ Returned(<<calls, pt>>, code, Stmts(q[1], q[2])[q[3]])
    BY <1>1, <2>1, <2>2, CodeIs
  <2> QED
    BY <1>6, <2>3 DEF StmtAt
<1>10. \A e \in Target(StmtAt(CallNode)) : IsExpr(e, stack[m])
  BY <1>9 DEF IsStmt
<1>11. NodeAt(Front(stack), Front(at), m) = CallNode
  BY <1>2, <1>3, <1>4
<1> QED
  BY <1>2, <1>3, <1>5, <1>7, <1>8, <1>9, <1>10, <1>11 DEF m

\* What is returned, and where: the store of the caller.
LEMMA ReturnStore ==
  ASSUME Running, NEW age, StoreSound(stack, store, age), OnJump, Depth > 1,
         Jump(fun, Now[1]).op = "return",
         NEW c \in Evals(Jump(fun, Now[1]).rhs, Depth), NEW d \in Evals(Target(StmtAt(CallNode)), Depth - 1),
         NEW to \in Results(StmtAt(CallNode), d), NEW st \in Stored(to, Jump(fun, Now[1]).rhs, c)
  PROVE  StackSound(Front(stack)) /\ StoreSound(Front(stack), Kept(st, Depth), Sunk(age, Depth))
<1> DEFINE E == Jump(fun, Now[1]).rhs
           call == StmtAt(CallNode)
           m == Depth - 1
<1>1. /\ ProgramType /\ CodeKnown /\ Depth \in Nat \ {0} /\ Len(stack) = Depth /\ Depth \in 1 .. Depth
      /\ stack[Depth] \in DOMAIN code
  BY AtNow
<1>2. LocalsKnown /\ StackSound(stack)
  BY DEF Running
<1>3. /\ fun = stack[Depth] /\ Now[1] \in DOMAIN code[fun] /\ \A e \in E : IsExpr(e, stack[Depth])
  BY AtEnd
<1>4. /\ m \in 1 .. Depth /\ stack[Depth] \in FunDfs(call)
      /\ \A e \in Target(call) : IsExpr(e, stack[m])
      /\ Returned(<<calls, pt>>, code, call)
  BY CallIs
<1>5. Evaluable(Target(call), d, m) /\ Evaluable(E, c, Depth)
  BY <1>3, <1>4 DEF Evals, Evaluable
<1>6. \A r \in E : \A e \in Target(call) : Covers(pt, e, r)
  <2>1. code[fun][Now[1]] \in Range(code[fun])
    BY <1>3 DEF Range
  <2>2. code[fun][Now[1]].jump = Jump(fun, Now[1])
    BY DEF Jump
  <2> QED
    BY <1>3, <1>4, <2>1, <2>2 DEF Returned
<1> HIDE DEF E, call, m
<1>7. /\ to \in SUBSET Objects
      /\ \A o \in to : call.lhs # <<>> /\ Decl(o) \in PT(call.lhs)
      /\ \A x \in Written(to) : x \in Objects /\ Level(x) \in Nat /\ Level(x) <= Depth
  <2>1. to \in Results(call, d)
    BY DEF call
  <2> QED
    BY <1>1, <1>2, <1>4, <1>5, <2>1, ResultsAre
<1>8. Takes(to, E)
  <2> SUFFICES ASSUME NEW o \in to
               PROVE  \E r : Decl(o) \in PT(r) /\ \A e \in E : Covers(pt, r, e)
    BY DEF Takes
  <2>1. call.lhs \in Target(call)
    BY <1>7 DEF Target
  <2> QED
    BY <1>6, <1>7, <2>1
<1>9. /\ DOMAIN st = Objects
      /\ \A x \in Objects : x \notin Written(to) => st[x] = store[x]
      /\ \A x \in Written(to) : \A p \in st[x] : p \in Meetable(stack, age, Depth) /\ Allowed(x, p)
  <2>1. st \in Stored(to, E, c)
    BY DEF E
  <2> QED
    BY <1>1, <1>2, <1>5, <1>7, <1>8, <2>1, StoredMeets
<1>10. StoreSound(stack, st, age)
  BY <1>2, <1>7, <1>9, StoreChanged
<1> QED
  BY <1>2, <1>10, PopStack, PopSound

\* What is seen of it.
LEMMA ReturnWatch ==
  ASSUME Running, KillsAreOwn, NEW age, StoreSound(stack, store, age), OnJump, Depth > 1,
         Jump(fun, Now[1]).op = "return",
         NEW d \in Evals(Target(StmtAt(CallNode)), Depth - 1),
         NEW to \in Results(StmtAt(CallNode), d), \A o \in to : Level(o) < Depth,
         NEW w \in WatchType, WatchSound(stack, at, w), w.on => w.level # Depth
  PROVE  LET v == Observed(w, Reads(d), Written(to))
         IN  v \in WatchType /\ WatchSound(Front(stack), Moved(Front(at)), v)
<1> DEFINE call == StmtAt(CallNode)
           m == Depth - 1
           sk == Front(stack)
           pl == Front(at)
           reads == Reads(d)
           writes == Written(to)
           v == Observed(w, reads, writes)
           E == Target(call)
<1>1. /\ ProgramType /\ CodeKnown /\ Depth \in Nat \ {0} /\ Len(stack) = Depth /\ Depth = m + 1
  BY AtNow
<1>2. /\ LocalsKnown /\ StackSound(stack) /\ FlowSound /\ phase = "exec" /\ PlacesSound(stack, at)
  BY DEF Running
<1>3. /\ m \in Nat \ {0} /\ Len(stack) = m + 1 /\ m \in 1 .. Depth
      /\ CallNode \in CallNodes /\ CallNode \in StmtNodes
      /\ stack[m + 1] \in FunDfs(call) /\ stack \in Seq(Funs \cup {Gen})
      /\ PlacesSound(sk, pl) /\ Len(sk) = m /\ \A k \in 1 .. m : sk[k] = stack[k]
      /\ NodeAt(sk, pl, m) = CallNode /\ AtNode(sk, pl, m)
      /\ \A e \in E : IsExpr(e, stack[m])
  BY <1>1, CallIs
<1>4. NodeAt(stack, at, m + 1) \in JumpNodes /\ Jump(stack[m + 1], at[m + 1][1]).to = {}
  BY <1>1, AtEnd
<1>5. Evaluable(E, d, m)
  BY <1>3 DEF Evals, Evaluable
<1>6. \A x \in reads : x \in Visible(stack, m) /\ Decl(x) \in DFexpr(E)
  <2>1. d \in Evals(E, m)
    OBVIOUS
  <2> HIDE DEF E, m
  <2> QED
    BY <1>1, <1>2, <1>3, <2>1, ReadsAre
<1>7. /\ \A x \in writes : x \in Visible(stack, m) /\ Decl(x) \in MayWrite(call)
      /\ OwnKills(call) /\ (\A o \in to : Level(o) <= m) =>
           \A x \in Visible(stack, m) : Level(x) <= m /\ Decl(x) \in Kills(call) => x \in writes
  <2>1. to \in Results(call, d)
    OBVIOUS
  <2> HIDE DEF E, call, m
  <2>2. Evaluable(Target(call), d, m)
    BY <1>5 DEF E
  <2> QED
    BY <1>1, <1>2, <1>3, <2>1, <2>2, ResultsAre
<1> HIDE DEF E
<1>8. \A o \in to : Level(o) <= m
  <2> SUFFICES ASSUME NEW o \in to
               PROVE  Level(o) <= m
    OBVIOUS
  <2>1. to \in SUBSET Objects
    <3>1. Evaluable(Target(call), d, m)
      BY <1>5 DEF E
    <3> HIDE DEF m
    <3> QED
      BY <1>1, <1>2, <1>3, <3>1, ResultsAre
  <2>2. Level(o) \in Nat /\ Level(o) < Depth
    BY <2>1, ObjectsAre
  <2> QED
    BY <1>1, <1>3, <2>2
<1>9. DFexpr(E) \subseteq UseOf(CallNode) /\ MayWrite(call) \subseteq WmayOf(CallNode)
  <2>1. Needs(call) \subseteq UseOf(CallNode) /\ MayWrite(call) \subseteq WmayOf(CallNode)
    BY <1>2, <1>3, UseKnown, WmayKnown DEF UseOf, WmayOf
  <2>2. DFexpr(E) \subseteq DFexpr(Target(call) \cup Evaluated(call))
    BY DEF DFexpr, E
  <2> QED
    BY <2>1, <2>2 DEF Needs
<1>10. OwnKills(call)
  BY <1>3, StmtKillsOwn
<1> HIDE DEF call, m, reads, writes
<1>11. WmayOf(CallNode) \subseteq WmayOf(BlockAt(sk, pl, m))
  <2>1. BlockAt(sk, pl, m) \in BlockNodes /\ CallNode \in Within(BlockAt(sk, pl, m))
    BY <1>1, <1>3, AtNodeIs
  <2> QED
    BY <1>2, <2>1, WmayKnown DEF WmayOf
<1>12. /\ \A o \in Visible(stack, m) : Level(o) <= m => o \in Visible(sk, m)
       /\ \A o \in Visible(sk, m) : Level(o) <= m => o \in Visible(stack, m)
  <2> HIDE DEF sk, pl
  <2>1. /\ m \in Nat /\ m <= m /\ m <= Len(sk) /\ m <= Len(stack) /\ Len(sk) \in Nat /\ Len(stack) \in Nat
        /\ \A i \in 1 .. m : sk[i] = stack[i] /\ stack[i] = sk[i]
    BY <1>3
  <2> QED
    BY <2>1, VisibleSame
<1>13. w.on => w.level \in 1 .. m /\ w.level <= m
  <2> SUFFICES ASSUME w.on
               PROVE  w.level \in 1 .. m /\ w.level <= m
    OBVIOUS
  <2>1. w.level \in 1 .. Len(stack)
    BY DEF WatchSound, WatchOn
  <2> QED
    BY <1>1, <1>3, <2>1
<1>14. /\ WatchSound(sk, pl, w)
       /\ w.on => \A o \in Visible(sk, m) :
                    Level(o) <= w.level /\ Decl(o) \in WdefOf(<<stack[m + 1], 0, 0>>) => o \in w.written
  BY <1>2, <1>3, <1>4, <1>13, PopKeeps
<1> HIDE DEF sk, pl
<1>15. reads \in SUBSET Objects /\ writes \in SUBSET Objects
  BY <1>6, <1>7 DEF Visible
<1>16. \A o \in Objects : Level(o) \in Nat
  BY ObjectsAre
<1>17. WatchSound(sk, pl, v)
  <2>1. w.on => m \in w.level .. Len(sk)
    BY <1>3, <1>13
  <2>2. w.on => \A o \in reads : Level(o) <= w.level =>
                  o \in Visible(sk, m) /\ Decl(o) \in UseOf(NodeAt(sk, pl, m))
    <3> SUFFICES ASSUME w.on, NEW o \in reads, Level(o) <= w.level
                 PROVE  o \in Visible(sk, m) /\ Decl(o) \in UseOf(NodeAt(sk, pl, m))
      OBVIOUS
    <3>1. Level(o) <= m
      BY <1>3, <1>13, <1>15, <1>16
    <3> QED
      BY <1>3, <1>6, <1>9, <1>12, <3>1
  <2>3. w.on => \A o \in writes : Level(o) < w.level =>
                  o \in Visible(sk, m) /\ Decl(o) \in WmayOf(BlockAt(sk, pl, m))
    <3> SUFFICES ASSUME w.on, NEW o \in writes, Level(o) < w.level
                 PROVE  o \in Visible(sk, m) /\ Decl(o) \in WmayOf(BlockAt(sk, pl, m))
      OBVIOUS
    <3>1. Level(o) <= m
      BY <1>3, <1>13, <1>15, <1>16
    <3> QED
      BY <1>7, <1>9, <1>11, <1>12, <3>1
  <2> QED
    BY <1>1, <1>14, <1>15, <2>1, <2>2, <2>3, ObserveKeeps
<1>18. v \in WatchType
  BY <1>17 DEF WatchSound, WatchKept
<1>19. v.on => \A o \in Visible(sk, m) : Level(o) <= v.level /\ Decl(o) \in WdefOf(CallNode) => o \in v.written
  <2>1. CASE ~ w.on
    <3>1. v = Unwatched
      BY <1>15, <2>1, ObservedIs
    <3> QED
      BY <3>1 DEF Unwatched
  <2>2. CASE w.on
    <3>1. Sees(w, reads, writes, v)
      BY <1>15, <2>2, ObservedIs
    <3>2. v.level = w.level /\ v.written = w.written \cup Old(writes, w.level)
      BY <3>1 DEF Sees
    <3> HIDE DEF v
    <3> SUFFICES ASSUME NEW o \in Visible(sk, m), Level(o) <= w.level, Decl(o) \in WdefOf(CallNode)
                 PROVE  o \in w.written \/ o \in Old(writes, w.level)
      BY <3>2
    <3>3. Level(o) \in Nat /\ Level(o) <= m
      BY <1>3, <1>13, <1>16, <2>2 DEF Visible
    <3>4. Decl(o) \in Kills(call) \/ Decl(o) \in WdefOf(<<stack[m + 1], 0, 0>>)
      BY <1>2, <1>3, WdefKnown DEF WdefOf, call
    <3>5. CASE Decl(o) \in Kills(call)
      <4>1. o \in writes
        BY <1>7, <1>8, <1>10, <1>12, <3>3, <3>5
      <4> QED
        BY <4>1 DEF Old
    <3>6. CASE Decl(o) \in WdefOf(<<stack[m + 1], 0, 0>>)
      BY <1>14, <2>2, <3>6
    <3> QED
      BY <3>4, <3>5, <3>6
  <2> QED
    BY <2>1, <2>2
<1> HIDE DEF v
<1>20. WatchSound(sk, Moved(pl), v)
  <2>1. Len(sk) \in Nat \ {0} /\ NodeAt(sk, pl, Len(sk)) \in StmtNodes
    BY <1>3
  <2> QED
    BY <1>2, <1>3, <1>17, <1>18, <1>19, <2>1, MoveKeeps
<1> QED
  BY <1>18, <1>20 DEF v, sk, pl, reads, writes

LEMMA ExecReturnKeeps ==
  ASSUME Running, KillsAreOwn, NEW age, StoreSound(stack, store, age), ExecReturn
  PROVE  Running' /\ \E a : StoreSound(stack, store, a)'
<1> DEFINE E == Jump(fun, Now[1]).rhs
           call == Stmts(stack[Depth - 1], at[Depth - 1][1])[at[Depth - 1][2]]
<1>1. /\ OnJump /\ Jump(fun, Now[1]).op = "return" /\ Depth > 1
      /\ UNCHANGED <<phase, locals, code, flow>> /\ stack' = Front(stack) /\ at' = Moved(Front(at))
  BY DEF ExecReturn
<1>2. call = StmtAt(CallNode)
  BY <1>1, CallIs
<1>3. PICK c \in Evals(E, Depth), d \in Evals(Target(call), Depth - 1) :
        \E to \in Results(call, d) :
          /\ to = {o \in to : Level(o) < Depth}
          /\ store' \in {Kept(st, Depth) : st \in Stored(to, E, c)}
          /\ watch' = IF Observed(watch, Reads(c), {}).level = Depth
                      THEN [Observed(watch, Reads(c), {}) EXCEPT !.on = FALSE]
                      ELSE Observed(Observed(watch, Reads(c), {}), Reads(d), Written(to))
  BY DEF ExecReturn, Kept
<1>4. PICK to \in Results(call, d) :
          /\ to = {o \in to : Level(o) < Depth}
          /\ store' \in {Kept(st, Depth) : st \in Stored(to, E, c)}
          /\ watch' = IF Observed(watch, Reads(c), {}).level = Depth
                      THEN [Observed(watch, Reads(c), {}) EXCEPT !.on = FALSE]
                      ELSE Observed(Observed(watch, Reads(c), {}), Reads(d), Written(to))
  BY <1>3
<1>5. PICK st \in Stored(to, E, c) : store' = Kept(st, Depth)
  BY <1>4
<1>6. StackSound(stack') /\ StoreSound(stack', store', Sunk(age, Depth))
  <2>1. /\ d \in Evals(Target(StmtAt(CallNode)), Depth - 1) /\ to \in Results(StmtAt(CallNode), d)
        /\ c \in Evals(Jump(fun, Now[1]).rhs, Depth) /\ st \in Stored(to, Jump(fun, Now[1]).rhs, c)
    BY <1>2
  <2> HIDE DEF E, call
  <2>2. StackSound(Front(stack)) /\ StoreSound(Front(stack), Kept(st, Depth), Sunk(age, Depth))
    BY <1>1, <2>1, ReturnStore
  <2> QED
    BY <1>1, <1>5, <2>2
<1>7. /\ ProgramType /\ CodeKnown /\ Depth \in Nat \ {0} /\ Depth \in 1 .. Depth
  BY AtNow
<1>8. LocalsKnown /\ StackSound(stack)
  BY DEF Running
<1>9. (\A e \in E : IsExpr(e, stack[Depth])) /\ DFexpr(E) \subseteq UseOf(NodeAt(stack, at, Depth))
  BY <1>1, AtEnd
<1> DEFINE w == Observed(watch, Reads(c), {})
<1>10. w \in WatchType /\ WatchSound(stack, at, w)
  <2> HIDE DEF E
  <2>1. \A x \in Reads(c) : x \in Visible(stack, Depth) /\ Decl(x) \in DFexpr(E)
    BY <1>7, <1>8, <1>9, ReadsAre
  <2>2. \A x \in Reads(c) : x \in Visible(stack, Depth) /\ Decl(x) \in UseOf(NodeAt(stack, at, Depth))
    BY <1>9, <2>1
  <2> QED
    BY <2>2, ReadsSeen
<1>11. watch' = IF w.level = Depth THEN [w EXCEPT !.on = FALSE] ELSE Observed(w, Reads(d), Written(to))
  BY <1>4
<1> HIDE DEF w
<1>12. watch' \in WatchType /\ WatchSound(stack', at', watch')
  <2>1. CASE w.level = Depth
    BY <1>10, <1>11, <2>1, WatchOff
  <2>2. CASE w.level # Depth
    <3>1. \A o \in to : Level(o) < Depth
      BY <1>4
    <3>2. d \in Evals(Target(StmtAt(CallNode)), Depth - 1) /\ to \in Results(StmtAt(CallNode), d)
      BY <1>2
    <3> DEFINE v == Observed(w, Reads(d), Written(to))
    <3>3. v \in WatchType /\ WatchSound(Front(stack), Moved(Front(at)), v)
      BY <1>1, <1>10, <2>2, <3>1, <3>2, ReturnWatch
    <3> QED
      BY <1>1, <1>11, <2>2, <3>3
  <2> QED
    BY <2>1, <2>2
<1>13. PlacesSound(stack', at')
  <2>1. /\ PlacesSound(Front(stack), Front(at)) /\ Len(Front(stack)) = Depth - 1 /\ Depth - 1 \in Nat \ {0}
        /\ NodeAt(Front(stack), Front(at), Depth - 1) = CallNode /\ CallNode \in StmtNodes
    BY <1>1, CallIs
  <2>2. PlacesSound(Front(stack), Moved(Front(at)))
    <3> DEFINE sk == Front(stack)
               pl == Front(at)
    <3>1. PlacesSound(sk, pl) /\ Len(sk) \in Nat \ {0} /\ NodeAt(sk, pl, Len(sk)) \in StmtNodes
      BY <2>1
    <3> HIDE DEF sk, pl
    <3>2. PlacesSound(sk, Moved(pl))
      BY <1>7, <3>1, MovePlaces
    <3> QED
      BY <3>2 DEF sk, pl
  <2> QED
    BY <1>1, <2>2
<1> QED
  BY <1>1, <1>6, <1>12, <1>13, RunningOn

----------------------------------------------------------------------------
(***************************************************************************)
(* The invariant.                                                          *)
(***************************************************************************)
Ready ==
  /\ stack = <<Gen>> /\ LocalsKnown
  /\ StackSound(stack) /\ StoreSound(stack, store, Levels)

DFInv ==
  /\ CallsSound /\ <<calls, pt>> \in Programs /\ code \in Codes(<<calls, pt>>)
  /\ phase \in {"calls", "locals", "run", "Wdef", "Wmay", "Use", "exec"}
  /\ phase = "run" => LocalsInv
  /\ phase \in {"run", "Wdef", "Wmay", "Use"} => code = NoCode \/ Ready
  /\ phase \in {"Wdef", "Wmay", "Use"} => code # NoCode /\ FlowSound
  /\ phase # "exec" => watch = Unwatched
  /\ phase = "exec" => Running /\ \E age : StoreSound(stack, store, age)

LEMMA DFInitKeeps == DFInit => DFInv
<1> SUFFICES ASSUME DFInit
             PROVE  DFInv
  OBVIOUS
<1>1. LocalsInv /\ phase = "calls" /\ watch = Unwatched /\ code \in Codes(<<calls, pt>>)
  BY InitKeeps DEF DFInit, Init
<1>2. <<calls, pt>> \in Programs
  <2>1. PICK P \in Programs : calls = P[1] /\ pt = P[2]
    BY DEF DFInit, Init
  <2>2. P = <<P[1], P[2]>>
    BY <2>1, ProgramsAssumption
  <2> QED
    BY <2>1, <2>2
<1> QED
  BY <1>1, <1>2 DEF DFInv, LocalsInv

LEMMA LocalsStepKeeps ==
  ASSUME DFInv, SolveCalls \/ CallsDone \/ TrulyLocal \/ (code = NoCode /\ Run),
         UNCHANGED <<code, flow, run>>
  PROVE  DFInv'
<1>1. /\ calls' = calls /\ pt' = pt /\ code' = code /\ watch' = watch
  BY DEF SolveCalls, CallsDone, TrulyLocal, Run, Assign, Call, Return, program, run
<1>2. <<calls, pt>>' \in Programs /\ code' \in Codes(<<calls, pt>>)'
  BY <1>1 DEF DFInv
<1>3. CASE SolveCalls
  <2>1. phase = "calls" /\ phase' = "calls"
    BY <1>3 DEF SolveCalls
  <2>2. LocalsInv
    BY <2>1 DEF DFInv, LocalsInv
  <2>3. LocalsInv'
    BY <1>3, <2>2, SolveCallsKeeps
  <2> QED
    BY <1>1, <1>2, <2>1, <2>3 DEF DFInv, LocalsInv
<1>4. CASE CallsDone
  <2>1. phase = "calls" /\ phase' = "locals"
    BY <1>4 DEF CallsDone
  <2>2. LocalsInv
    BY <2>1 DEF DFInv, LocalsInv
  <2>3. LocalsInv'
    BY <1>4, <2>2, CallsDoneKeeps
  <2> QED
    BY <1>1, <1>2, <2>1, <2>3 DEF DFInv, LocalsInv
<1>5. CASE TrulyLocal
  <2>1. phase = "locals" /\ phase' = "run" /\ stack' = <<Gen>>
    BY <1>5 DEF TrulyLocal
  <2>2. LocalsInv
    BY <2>1 DEF DFInv, LocalsInv
  <2>3. LocalsInv'
    BY <1>5, <2>2, TrulyLocalKeeps
  <2>4. Ready'
    BY <2>1, <2>3 DEF LocalsInv, Ready
  <2> QED
    BY <1>1, <1>2, <2>1, <2>3, <2>4 DEF DFInv, LocalsInv
<1>6. CASE code = NoCode /\ Run
  <2>1. phase = "run" /\ phase' = "run"
    BY <1>6 DEF Run, Assign, Call, Return
  <2>2. LocalsInv
    BY <2>1 DEF DFInv
  <2>3. LocalsInv'
    BY <1>6, <2>2, AssignKeeps, CallKeeps, ReturnKeeps DEF Run
  <2> QED
    BY <1>1, <1>2, <1>6, <2>1, <2>3 DEF DFInv, LocalsInv
<1> QED
  BY <1>3, <1>4, <1>5, <1>6

\* What the analysis leaves as it was.
LEMMA ReadySame ==
  ASSUME DFInv, phase \in {"run", "Wdef", "Wmay", "Use"}, code # NoCode,
         phase' \in {"Wdef", "Wmay", "Use", "exec"}, UNCHANGED <<locals, stack, store, code>>
  PROVE  /\ CallsSound' /\ <<calls, pt>>' \in Programs /\ code' \in Codes(<<calls, pt>>)'
         /\ code' # NoCode /\ Ready'
<1>1. calls' = calls /\ pt' = pt /\ code' = code /\ stack' = stack /\ UNCHANGED <<locals, stack, store>>
  BY DEF locals, program
<1>2. <<calls, pt>>' \in Programs /\ code' \in Codes(<<calls, pt>>)' /\ code' # NoCode
  BY <1>1 DEF DFInv
<1>3. CallsSound /\ Ready
  BY DEF DFInv
<1>4. CallsSound'
  BY <1>1, <1>3, LocalsSame
<1>5. Ready'
  BY <1>1, <1>3, LocalsSame DEF Ready
<1> QED
  BY <1>2, <1>4, <1>5

LEMMA AnalysisKeeps ==
  ASSUME DFInv, Analyse \/ SolveFlow \/ NextSolver
  PROVE  DFInv'
<1>1. /\ UNCHANGED <<locals, stack, store, code>> /\ watch' = watch
      /\ phase \in {"run", "Wdef", "Wmay", "Use"} /\ phase' \in {"Wdef", "Wmay", "Use"}
  BY DEF Analyse, SolveFlow, NextSolver, run
<1>2. code # NoCode
  BY DEF DFInv, Analyse, SolveFlow, NextSolver
<1>3. /\ CallsSound' /\ <<calls, pt>>' \in Programs /\ code' \in Codes(<<calls, pt>>)'
      /\ code' # NoCode /\ Ready'
  BY <1>1, <1>2, ReadySame
<1>4. FlowSound'
  <2>1. CASE Analyse
    BY <1>2, <2>1, AnalyseFlow DEF DFInv, CodeKnown
  <2>2. CASE SolveFlow
    BY <2>2, SolveFlowKeeps DEF DFInv, SolveFlow
  <2>3. CASE NextSolver
    BY <2>3, NextSolverFlow DEF DFInv, NextSolver
  <2> QED
    BY <2>1, <2>2, <2>3
<1>5. watch' = Unwatched
  BY <1>1 DEF DFInv
<1> QED
  BY <1>1, <1>3, <1>4, <1>5 DEF DFInv

LEMMA ExecuteKeeps ==
  ASSUME DFInv, Execute
  PROVE  DFInv'
<1>1. /\ UNCHANGED <<locals, stack, store, code>> /\ watch' = watch
      /\ phase = "Use" /\ phase' = "exec" /\ at' = <<<<1, 1>>>>
  BY DEF Execute
<1>2. code # NoCode /\ FlowSound /\ watch = Unwatched
  BY <1>1 DEF DFInv
<1>3. /\ CallsSound' /\ <<calls, pt>>' \in Programs /\ code' \in Codes(<<calls, pt>>)'
      /\ code' # NoCode /\ Ready'
  BY <1>1, <1>2, ReadySame
<1>4. FlowSound'
  BY <1>2, NextSolverFlow
<1>5. PlacesSound(stack', at')
  <2>1. stack' = <<Gen>>
    BY <1>3 DEF Ready
  <2>2. CodeKnown
    BY <1>2 DEF FlowSound
  <2>3. Gen \in DOMAIN code /\ 1 \in DOMAIN code[Gen] /\ Len(Stmts(Gen, 1)) \in Nat
    BY <2>2, CodeIs
  <2>4. 1 \in 1 .. Len(Stmts(Gen, 1)) + 1
    BY <2>3
  <2>5. <<1, 1>> \in Place
    BY PlaceIs
  <2>6. /\ Len(stack') = 1 /\ stack'[1] = Gen /\ Len(at') = 1 /\ at' \in Seq(Place)
        /\ at'[1][1] = 1 /\ at'[1][2] = 1
    BY <1>1, <2>1, <2>5
  <2>7. AtNode(stack', at', 1)
    BY <2>3, <2>4, <2>6 DEF AtNode
  <2> QED
    BY <2>6, <2>7 DEF PlacesSound
<1>6. PlacesSound(stack, at)'
  BY <1>1, <1>5, PlacesSame
<1>7. watch' = Unwatched /\ watch' \in WatchType'
  <2>1. Unwatched \in WatchType
    BY <1>2, UnwatchedIs DEF FlowSound, WatchSound, WatchKept
  <2> QED
    BY <1>1, <1>2, <2>1, PlacesSame
<1>8. WatchSound(stack, at, watch)'
  <2>1. ~ watch'.on /\ watch'.entry = FALSE /\ watch'.read = {} /\ watch'.wrote = {}
    BY <1>7 DEF Unwatched
  <2>2. WatchKept(watch)'
    BY <1>7, <2>1 DEF WatchKept
  <2> QED
    BY <2>1, <2>2 DEF WatchSound
<1>9. Running'
  BY <1>1, <1>3, <1>4, <1>6, <1>7, <1>8 DEF Running, Ready
<1>10. (\E age : StoreSound(stack, store, age))'
  <2>1. StoreSound(stack, store, Levels)'
    BY <1>3 DEF Ready
  <2> QED
    BY <2>1
<1> QED
  BY <1>1, <1>3, <1>9, <1>10 DEF DFInv

LEMMA ExecKeeps ==
  ASSUME DFInv, KillsAreOwn,
         ExecAssign \/ ExecAlloc \/ ExecFree \/ ExecCall \/ ExecExternal \/ ExecJump \/ ExecReturn
  PROVE  DFInv'
<1>1. phase = "exec"
  BY DEF ExecAssign, ExecAlloc, ExecFree, ExecCall, ExecExternal, ExecJump, ExecReturn, OnStmt, OnJump
<1>2. Running
  BY <1>1 DEF DFInv
<1>3. PICK age : StoreSound(stack, store, age)
  BY <1>1 DEF DFInv
<1>4. Running' /\ \E a : StoreSound(stack, store, a)'
  BY <1>2, <1>3, ExecAssignKeeps, ExecAllocKeeps, ExecFreeKeeps, ExecCallKeeps, ExecExternalKeeps,
     ExecJumpKeeps, ExecReturnKeeps
<1>5. <<calls, pt>>' \in Programs /\ code' \in Codes(<<calls, pt>>)'
  BY <1>4 DEF Running, FlowSound, CodeKnown
<1> QED
  BY <1>4, <1>5 DEF DFInv, Running

LEMMA DFStutters ==
  ASSUME DFInv, UNCHANGED <<vars, code, flow, run>>
  PROVE  DFInv'
<1>1. /\ UNCHANGED <<phase, locals, code, flow>> /\ UNCHANGED <<locals, stack, store>>
      /\ UNCHANGED vars /\ calls' = calls /\ pt' = pt /\ code' = code /\ phase' = phase
      /\ stack' = stack /\ store' = store /\ watch' = watch /\ at' = at
  BY DEF vars, locals, program, run
<1>2. CASE phase = "exec"
  <2>1. Running
    BY <1>2 DEF DFInv
  <2>2. PICK age : StoreSound(stack, store, age)
    BY <1>2 DEF DFInv
  <2>3. StackSound(stack) /\ PlacesSound(stack, at) /\ watch \in WatchType /\ WatchSound(stack, at, watch)
    BY <2>1 DEF Running
  <2>4. Running' /\ StoreSound(stack, store, age)'
    BY <1>1, <2>1, <2>2, <2>3, RunningOn
  <2>5. <<calls, pt>>' \in Programs /\ code' \in Codes(<<calls, pt>>)'
    BY <1>1 DEF DFInv
  <2> QED
    BY <2>4, <2>5 DEF DFInv, Running
<1>3. CASE phase \in {"calls", "locals"}
  <2>1. LocalsInv
    BY <1>3 DEF DFInv, LocalsInv
  <2>2. LocalsInv'
    BY <1>1, <2>1, NextKeeps
  <2> QED
    BY <1>1, <1>3, <2>2 DEF DFInv, LocalsInv
<1>4. CASE phase \in {"run", "Wdef", "Wmay", "Use"}
  <2>1. CallsSound'
    BY <1>1, <1>4, LocalsSame DEF DFInv
  <2>2. phase = "run" => LocalsInv'
    BY <1>1, NextKeeps DEF DFInv
  <2>3. code = NoCode \/ Ready'
    BY <1>1, <1>4, LocalsSame DEF DFInv, Ready
  <2>4. phase # "run" => FlowSound'
    BY <1>1, <1>4, FlowSame DEF DFInv
  <2> QED
    BY <1>1, <1>4, <2>1, <2>2, <2>3, <2>4 DEF DFInv
<1> QED
  BY <1>2, <1>3, <1>4 DEF DFInv

LEMMA DFNextKeeps ==
  ASSUME DFInv, KillsAreOwn, [DFNext]_<<vars, code, flow, run>>
  PROVE  DFInv'
BY LocalsStepKeeps, AnalysisKeeps, ExecuteKeeps, ExecKeeps, DFStutters DEF DFNext

\* outerMostContainer finds the variable that the part belongs to.
LEMMA OutermostIs ==
  ASSUME NEW d \in Objs
  PROVE  Outermost(d) \in Roots /\ Owner[Outermost(d)] = Owner[d]
<1>1. \E r \in Roots : d \in Parts({r}, {})
  BY WholeAssumption
<1>2. Outermost(d) \in Roots /\ d \in Parts({Outermost(d)}, {})
  BY <1>1 DEF Outermost
<1> DEFINE r == Outermost(d)
<1>3. r \in Objs /\ d \in SubObjects({r})
  BY <1>2 DEF Roots, SubObjects
<1> HIDE DEF r
<1>4. Owner[d] = Owner[r]
  BY <1>3, PartsOfOne
<1> QED
  BY <1>2, <1>4 DEF r

LEMMA WatchShows ==
  ASSUME DFInv
  PROVE  CallsAreCovered /\ ResumedReadsAreMemoized
<1> SUFFICES ASSUME phase = "exec"
             PROVE  CallsAreCovered /\ ResumedReadsAreMemoized
  BY DEF CallsAreCovered, CallReadsAreCompared, CallWritesAreReplayed, ResumedReadsAreMemoized
<1> DEFINE f == watch.node[1]
<1>1. FlowSound /\ watch \in WatchType /\ WatchKept(watch) /\ CodeKnown
  BY DEF DFInv, Running, WatchSound, FlowSound
<1>2. /\ watch.entry => watch.node = <<f, 1, 0>>
      /\ \A o \in watch.read : /\ Decl(o) \in UseOf(watch.node)
                               /\ watch.level # 0 /\ Level(o) = watch.level => Owner[Decl(o)] = f
      /\ watch.entry => \A o \in watch.wrote : Decl(o) \in WmayOf(<<f, 0, 0>>)
  BY <1>1 DEF WatchKept
<1>3. watch.node \in Nodes /\ watch.read \subseteq Objects
  BY <1>1 DEF WatchType
<1>4. f \in DOMAIN code
  <2>1. \A n \in Nodes : n[1] \in DOMAIN code
    BY <1>1, NodesAre DEF Nodes
  <2> QED
    BY <1>3, <2>1
<1>5. UseOf(<<f, 1, 0>>) \subseteq UseOf(<<f, 0, 0>>)
  BY <1>1, <1>4, UseKnown DEF UseOf
<1>6. CallReadsAreCompared
  BY <1>2, <1>5 DEF CallReadsAreCompared, UseOf
<1>7. CallWritesAreReplayed
  BY <1>2 DEF CallWritesAreReplayed, WmayOf
<1>8. ASSUME watch.level # 0, NEW o \in watch.read, Level(o) = watch.level
      PROVE  Outermost(Decl(o)) \in MemoSet(watch.node)
  <2> DEFINE d == Decl(o)
  <2>1. d \in Objs
    BY <1>3, ObjectsAre
  <2>2. d \in UseOf(watch.node) /\ Owner[d] = f
    BY <1>2, <1>8
  <2> HIDE DEF d
  <2>3. Outermost(d) \in TopLevel(f)
    BY <2>1, <2>2, OutermostIs DEF TopLevel
  <2>4. Outermost(d) \in MemoSet(watch.node)
    BY <2>1, <2>2, <2>3 DEF MemoSet, UseOf
  <2> QED
    BY <2>4 DEF d
<1> QED
  BY <1>6, <1>7, <1>8 DEF CallsAreCovered, ResumedReadsAreMemoized

\* The sets of the data-flow analyses (dataflow.cc) are what the generating extensions take
\* them for.  Whatever of a parameter or of another object a call reads before it has
\* written it itself, is in the set that is compared when the call may be shared; whatever
\* it writes that outlives it, in the set that is replayed; and a block that is resumed
\* reads no local that is not memoized with it.  This is so as long as what a statement is
\* said to overwrite is the activation's own.
THEOREM CallsAlwaysCovered == DFSpec /\ []KillsAreOwn => [](CallsAreCovered /\ ResumedReadsAreMemoized)
<1>1. DFInit => DFInv
  BY DFInitKeeps
<1>2. DFInv /\ KillsAreOwn /\ [DFNext]_<<vars, code, flow, run>> => DFInv'
  BY DFNextKeeps
<1>3. DFInv => CallsAreCovered /\ ResumedReadsAreMemoized
  BY WatchShows
<1> QED
  BY <1>1, <1>2, <1>3, PTL DEF DFSpec

\* No local variable of the program is a structure or an array.
SimpleLocals == \A d \in Objs : Owner[d] \in Funs \cup {Gen} => Members[d] = {}

LEMMA SimpleKills ==
  ASSUME SimpleLocals, DFInv
  PROVE  KillsAreOwn
<1> SUFFICES ASSUME phase = "exec", NEW n \in StmtNodes, NEW d \in Kills(StmtAt(n)), Owner[d] \in Funs \cup {Gen}
             PROVE  d \in truly[Owner[d]]
  BY DEF KillsAreOwn
<1>1. LocalsKnown /\ ProgramType
  BY DEF DFInv, Running, CallsSound
<1> DEFINE T == {x \in Objs : Owner[x] \in Funs \cup {Gen} => x \in truly[Owner[x]]}
<1>2. unique \subseteq T
  <2> SUFFICES ASSUME NEW x \in unique
               PROVE  x \in T
    OBVIOUS
  <2>1. (\E f \in Funs \cup {Gen} : x \in LocalsOf(f)) \/ x \in GlobalUnique
    BY <1>1 DEF LocalsKnown
  <2>2. ASSUME NEW f \in Funs \cup {Gen}, x \in LocalsOf(f)
        PROVE  x \in T
    <3>1. x \in Objs /\ Owner[x] = f /\ truly[f] = LocalsOf(f)
      BY <1>1, <2>2, LocalsOfIs, TrulyIs DEF ProgramType
    <3> QED
      BY <2>2, <3>1
  <2>3. CASE x \in GlobalUnique
    BY <2>3, GlobalUniqueIs, OwnerAssumption
  <2> QED
    BY <2>1, <2>2, <2>3
<1>3. \A x \in T : Members[x] \subseteq T
  BY OwnerAssumption DEF SimpleLocals
<1>4. PICK e \in Target(StmtAt(n)) : d \in SubObjects(One(PT(e)))
  BY DEF Kills
<1> DEFINE S == One(PT(e))
<1>5. S \in SUBSET Objs /\ S \subseteq T /\ T \in SUBSET Objs
  BY <1>2 DEF One
<1> HIDE DEF S, T
<1>6. SubObjects(S) \subseteq T
  BY <1>3, <1>5, SubObjectsAre
<1>7. d \in T
  BY <1>4, <1>6 DEF S
<1> QED
  BY <1>7 DEF T

\* In particular, nothing else is needed for programs without local structures (dataflow.cc,
\* closures.cc): of a variable that is truly local no part can be left out, so what is said
\* to be overwritten is the activation's own, and what a resumed block reads is memoized.
THEOREM SimpleMemoizationSuffices ==
  ASSUME SimpleLocals
  PROVE  DFSpec => []MemoizationSuffices
<1>1. DFInit => DFInv
  BY DFInitKeeps
<1>2. DFInv /\ [DFNext]_<<vars, code, flow, run>> => DFInv'
  BY SimpleKills, DFNextKeeps
<1>3. DFInv => MemoizationSuffices
  BY SimpleKills, WatchShows DEF MemoizationSuffices
<1> QED
  BY <1>1, <1>2, <1>3, PTL DEF DFSpec

\* For the same programs every call is compared by all it reads, and shared with all its writes.
THEOREM SimpleCallsCovered ==
  ASSUME SimpleLocals
  PROVE  DFSpec => []CallsAreCovered
<1>1. DFSpec => []KillsAreOwn
  <2>1. MemoizationSuffices => KillsAreOwn
    BY DEF MemoizationSuffices
  <2> QED
    BY <2>1, SimpleMemoizationSuffices, PTL
<1>2. CallsAreCovered /\ ResumedReadsAreMemoized => CallsAreCovered
  OBVIOUS
<1> QED
  BY <1>1, <1>2, CallsAlwaysCovered, PTL
=============================================================================
