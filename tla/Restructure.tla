----------------------------- MODULE Restructure -----------------------------
(***************************************************************************)
(* From the statements of a residual function to its text: the reduction   *)
(* of the control-flow graph, the search for loops and conditionals        *)
(* (speclib/restruct.c), and printing, with restructuring or without       *)
(* (speclib/unparse.c).  The graph is built with the functions of          *)
(* speclib/code.c.  The text is a sequence of tokens; once it is there, it *)
(* is executed side by side with the graph.                                *)
(*                                                                         *)
(* Blocks and their basic intervals are numbers; 0 stands for NULL.        *)
(***************************************************************************)
EXTENDS Integers, Sequences, SequencesExt, FiniteSets, FiniteSetsExt, Functions, TLC

CONSTANTS
  MaxBlocks,   \* blocks of a residual function, at most
  Shapes       \* k |-> what the k-th block may look like

ShapesAssumption ==
  \A k \in 1 .. MaxBlocks :
    Shapes[k] \subseteq [plain : BOOLEAN, ctl : {"return", "abort", "goto", "if"},
                         a : 1 .. MaxBlocks, b : 1 .. MaxBlocks]

VARIABLES
  phase,       \* what comes next
  program,     \* the blocks as they were emitted
  block,       \* the blocks after compression, with their reference counts
  entry,       \* the first block
  forw, back,  \* references of each interval, in the order of the lists
  order,       \* the blocks in reverse postorder
  immDom,      \* the immediate dominators
  top,         \* block |-> the header of its toplevel interval
  loop,        \* block |-> the header of its innermost loop
  latch, outerLoop, type, follow,   \* header of a loop |-> ...
  ifFollow,    \* block |-> what follows the conditional
  failed,      \* the assertions that have failed
  text, nest,  \* the tokens; for each the structures it is in
  at, pc       \* the block executed last, and the token to come

graph == <<block, entry, forw, back, order, immDom>>
loops == <<top, loop, latch, outerLoop, type, follow, ifFollow>>
exec  == <<at, pc>>
vars  == <<phase, program, graph, loops, failed, text, nest, exec>>

Blocks == 1 .. Len(program)

Init ==
  /\ phase = "emit" /\ program = <<>>
  /\ block = <<>> /\ entry = 0 /\ forw = <<>> /\ back = <<>>
  /\ order = <<>> /\ immDom = <<>>
  /\ top = <<>> /\ loop = <<>> /\ latch = <<>> /\ outerLoop = <<>>
  /\ type = <<>> /\ follow = <<>> /\ ifFollow = <<>>
  /\ failed = {} /\ text = <<>> /\ nest = <<>> /\ at = 0 /\ pc = 1

----------------------------------------------------------------------------
(***************************************************************************)
(* Emission.  Labels have numbers in the order in which jumps to them are  *)
(* made.  An abort stands where an expression could not be made residual,  *)
(* also in place of a conditional, whose labels are then emitted without a *)
(* jump to them.                                                           *)
(***************************************************************************)
Targets(s) == CASE s.ctl = "return" -> <<>>
                [] s.ctl = "goto"   -> <<s.a>>
                [] OTHER            -> <<s.a, s.b>>

Made(p) == Max({1} \cup UNION {Range(Targets(p[k])) : k \in DOMAIN p})

InOrder(s) ==
  \A i \in DOMAIN Targets(s) :
    Targets(s)[i] <= 1 + Max({Made(program)} \cup {Targets(s)[j] : j \in 1 .. i - 1})

Emit ==
  /\ phase = "emit" /\ Len(program) < Made(program)
  /\ \E s \in Shapes[Len(program) + 1] :
       InOrder(s) /\ program' = Append(program, s)
  /\ UNCHANGED <<phase, graph, loops, failed, text, nest, exec>>

\* mentionFun: the function's heading refers to the first label, too.
Jumps(s) == IF s.ctl = "abort" THEN <<>> ELSE Targets(s)

References(l) ==
  (IF l = 1 THEN 1 ELSE 0)
  + Cardinality({r \in Blocks \X {1, 2} :
                   LET js == Jumps(program[r[1]]) IN r[2] \in DOMAIN js /\ js[r[2]] = l})

Emitted ==
  /\ phase = "emit" /\ Len(program) = Made(program)
  /\ phase' = "compress"
  /\ block' = [l \in Blocks |->
                 LET s == program[l]
                 IN  [plain |-> s.plain, ctl |-> s.ctl, a |-> s.a, b |-> s.b,
                      cond |-> <<"test", l>>, ref |-> References(l), seen |-> FALSE]]
  /\ UNCHANGED <<program, entry, forw, back, order, immDom, loops, failed, text, nest, exec>>

----------------------------------------------------------------------------
(***************************************************************************)
(* compress: jumps to jumps are shortened, conditionals of conditionals    *)
(* with a branch in common become one.  s is the store of blocks.  What    *)
(* collapseCompounds does next depends on the two targets of l only, so it *)
(* goes on for ever if it makes more rounds than there are pairs of them.  *)
(***************************************************************************)
IsIf(x) == ~ x.plain /\ x.ctl = "if"

Not(c) == <<"not", c>>

RECURSIVE Collapse(_, _, _)
Collapse(s, l, rounds) ==
  LET x == s[l]
      y == s[x.a]
      z == s[x.b]
      To(c, a, b) == Collapse([s EXCEPT ![l].cond = c, ![l].a = a, ![l].b = b], l, rounds + 1)
      Then == IsIf(y) /\ y.ref = 1
      Else == IsIf(z) /\ z.ref = 1
  IN  IF rounds > Len(s) * Len(s) THEN [s EXCEPT ![l].ctl = "hung"]
      ELSE IF Then /\ y.b = x.b /\ y.a # x.a THEN To(<<"and", x.cond, y.cond>>, y.a, x.b)
      ELSE IF Then /\ y.a = x.b /\ y.b # x.a THEN To(<<"or", Not(x.cond), y.cond>>, y.a, y.b)
      ELSE IF Else /\ z.a = x.a /\ z.b # x.b THEN To(<<"or", x.cond, z.cond>>, x.a, z.b)
      ELSE IF Else /\ z.b = x.a /\ z.a # x.b THEN To(<<"and", Not(x.cond), z.cond>>, z.a, z.b)
      ELSE s

\* What a label is replaced with where it is jumped to.
Result(s, l) == IF ~ s[l].plain /\ s[l].ctl = "goto" THEN s[l].a ELSE l

RECURSIVE Compress(_, _)
Compress(s, l) ==
  LET Then(st) == LET t == st[l].a
                      c == Compress([st EXCEPT ![t].ref = @ - 1], t)
                      r == Result(c, t)
                  IN  [c EXCEPT ![l].a = r, ![r].ref = @ + 1]
      Else(st) == LET t == st[l].b
                      c == Compress([st EXCEPT ![t].ref = @ - 1], t)
                      r == Result(c, t)
                  IN  [c EXCEPT ![l].b = r, ![r].ref = @ + 1]
      Degenerate(st) == IF st[l].a = st[l].b
                        THEN [st EXCEPT ![st[l].a].ref = @ - 1, ![l].ctl = "goto"]
                        ELSE st
      first == [s EXCEPT ![l].seen = TRUE]
  IN  IF s[l].seen                         THEN s
      ELSE IF s[l].ctl \in {"return", "abort"} THEN first
      ELSE IF s[l].ctl = "goto"            THEN Then(first)
      ELSE Degenerate(Collapse(Else(Then(first)), l, 0))

CompressFun ==
  /\ phase = "compress"
  /\ LET s == Compress(block, 1)
     IN  /\ block' = s /\ entry' = Result(s, 1)
         /\ phase' = IF \E l \in Blocks : s[l].ctl = "hung" THEN "hung" ELSE "intervals"
  /\ UNCHANGED <<program, forw, back, order, immDom, loops, failed, text, nest, exec>>

----------------------------------------------------------------------------
(***************************************************************************)
(* makeInterval, enumIntervals, findDominators.                            *)
(***************************************************************************)
RECURSIVE PostOrder(_, _, _)
PostOrder(succ, acc, l) ==
  IF l \in acc.seen THEN acc
  ELSE LET Visit(x, m) == PostOrder(succ, x, m)
           all == FoldLeft(Visit, [acc EXCEPT !.seen = @ \cup {l}], succ[l])
       IN  [all EXCEPT !.out = Append(@, l)]

Sorted(succ) == PostOrder(succ, [seen |-> {}, out |-> <<>>], entry).out

\* The then-branch, then the else-branch, and the other way round.
Branches(l) == LET x == block[l]
               IN  CASE x.ctl = "goto" -> <<x.a>>
                     [] x.ctl = "if"   -> <<x.a, x.b>>
                     [] OTHER          -> <<>>

Forw == [l \in Blocks |-> Reverse(Branches(l))]

\* Variant with a defect: references back are put last.
Back_last ==
  LET Refer(acc, l) ==
        LET One(x, m) == [x EXCEPT ![m] = Append(@, l)]
        IN  FoldLeft(One, acc, Branches(l))
  IN  FoldLeft(Refer, [l \in Blocks |-> <<>>], Sorted([l \in Blocks |-> Branches(l)]))

\* References back are added when all below an interval is done, in front.
Back ==
  LET Refer(acc, l) ==
        LET One(x, m) == [x EXCEPT ![m] = <<l>> \o @]
        IN  FoldLeft(One, acc, Branches(l))
  IN  FoldLeft(Refer, [l \in Blocks |-> <<>>], Sorted([l \in Blocks |-> Branches(l)]))

Number(l) == CHOOSE i \in DOMAIN order : order[i] = l
Length    == Len(order)

MakeIntervals ==
  /\ phase = "intervals" /\ failed = {}
  /\ forw' = Forw /\ back' = Back
  /\ order' = Reverse(Sorted(Forw))
  /\ failed' = {"then_target != else_target" :
                  l \in {m \in Range(order') : block[m].ctl = "if" /\ block[m].a = block[m].b}}
  /\ phase' = "dominators"
  /\ UNCHANGED <<program, block, entry, immDom, loops, text, nest, exec>>

\* commonDom: the walk depends on its two ends only, so it goes on for ever if
\* it has more steps than there are pairs of them.
RECURSIVE Walk(_, _, _, _)
Walk(dom, x, y, steps) ==
  IF steps > Length * Length THEN -1
  ELSE IF x <= 0 \/ y <= 0 \/ x = y THEN x
  ELSE IF Number(x) < Number(y) THEN Walk(dom, x, dom[y], steps + 1)
  ELSE Walk(dom, dom[x], y, steps + 1)

CommonDom(dom, x, y) == IF x = 0 THEN y ELSE Walk(dom, x, y, 0)

FindDominators ==
  /\ phase = "dominators"
  /\ immDom' =
       LET One(dom, l) ==
             LET Ref(d, m) == [d EXCEPT ![l] = CommonDom(d, @, m)]
             IN  FoldLeft(Ref, dom, back[l])
       IN  FoldLeft(One, [l \in Blocks |-> 0], order)
  /\ top' = [l \in Blocks |-> l]
  /\ loop' = [l \in Blocks |-> 0] /\ latch' = loop' /\ outerLoop' = loop'
  /\ follow' = loop' /\ ifFollow' = loop' /\ type' = [l \in Blocks |-> "none"]
  /\ phase' = IF -1 \in Range(immDom') THEN "hung" ELSE "loops"
  /\ UNCHANGED <<program, block, entry, forw, back, order, failed, text, nest, exec>>

----------------------------------------------------------------------------
(***************************************************************************)
(* Loops are looked for in the intervals of each generation; an interval   *)
(* is known by its header.  L threads the loops found so far.              *)
(***************************************************************************)
Reached == Range(order)
Above(l) == {m \in Range(back[l]) : Number(m) < Number(l)}

\* Where markLoop goes on from: the header if the interval is in a loop.
Outermost(L, h, x) == IF L.loop[x] \in {0, h} THEN x ELSE L.loop[x]

RECURSIVE Marked(_, _, _, _)
Marked(L, h, S, new) ==
  LET more == {m \in UNION {Above(Outermost(L, h, x)) : x \in new} : L.loop[m] # h} \ S
  IN  IF new = {} THEN S ELSE Marked(L, h, S \cup new, more)

MarkLoop(L, h, la) ==
  LET K     == [L EXCEPT !.loop[h] = h, !.latch[h] = la]
      S     == IF la = h THEN {} ELSE Marked(K, h, {}, {la})
      inner == {L.loop[x] : x \in {m \in S : L.loop[m] # 0}}
  IN  [K EXCEPT
        !.loop  = [x \in Blocks |-> IF x \in S /\ K.loop[x] = 0 THEN h ELSE K.loop[x]],
        !.outer = [x \in Blocks |-> IF x \in inner THEN h ELSE K.outer[x]],
        !.bad   = @ \/ \E x \in inner : K.outer[x] \notin {0, h}]

\* Variant with a defect: also from other intervals.
Latches_any(L, h) == {l \in Range(back[h]) : L.loop[l] = 0 /\ Number(h) <= Number(l)}

Latches(L, h) == {l \in Range(back[h]) : top[l] = h /\ L.loop[l] = 0}

Furthest(S) == CHOOSE l \in S : \A m \in S : Number(m) <= Number(l)

LoopDetect(L, h) ==
  IF top[h] = h /\ L.loop[h] = 0 /\ Latches(L, h) # {}
  THEN MarkLoop(L, h, Furthest(Latches(L, h)))
  ELSE L

\* iterateIntervals: an interval takes in what is reached only from it; what
\* is reached from it and others becomes the header of another.  A block that
\* jumps to itself refers to itself as long as the intervals are the blocks.
Basic == \A l \in Reached : top[l] = l

Absorbs(S, own) ==
  {t \in {top[l] : l \in Reached} \ own :
     \A l \in {k \in Reached : top[k] = t} : \A m \in Range(back[l]) :
       (top[m] # t \/ Basic) => top[m] \in S}

RECURSIVE Interval(_, _)
Interval(S, own) == LET more == Absorbs(S, own) \ S
                    IN  IF more = {} THEN S ELSE Interval(S \cup more, own)

RECURSIVE Iterate(_, _)
Iterate(t, done) ==
  IF t \in DOMAIN done THEN done
  ELSE LET S    == Interval({t}, DOMAIN done)
           outs == {top[m] : m \in UNION {Range(forw[l]) : l \in {k \in Reached : top[k] \in S}}}
       IN  FoldSet(Iterate, [x \in S |-> t] @@ done, outs)

Coarser == LET parent == Iterate(entry, <<>>)
           IN  [l \in Blocks |-> IF l \in Reached THEN parent[top[l]] ELSE l]

FindLoops ==
  /\ phase = "loops"
  /\ LET L == FoldLeft(LoopDetect,
                       [loop |-> loop, latch |-> latch, outer |-> outerLoop, bad |-> FALSE],
                       order)
     IN  /\ loop' = L.loop /\ latch' = L.latch /\ outerLoop' = L.outer
         /\ failed' = IF L.bad THEN {"outerLoop == NULL || outerLoop == loop"} ELSE failed
  /\ top' = Coarser
  /\ phase' = IF Cardinality(Range(top')) = Cardinality(Range(top)) THEN "structure" ELSE phase
  /\ UNCHANGED <<program, graph, type, follow, ifFollow, text, nest, exec>>

----------------------------------------------------------------------------
(***************************************************************************)
(* structLoops.                                                            *)
(***************************************************************************)
ThenOf(l) == forw[l][2]
ElseOf(l) == forw[l][1]

RECURSIVE InLoop(_, _)
InLoop(l, h) == loop[l] = h \/ (loop[l] # 0 /\ outerLoop[loop[l]] # 0
                                /\ InLoop(outerLoop[loop[l]], h))

InOuter(l, h) == outerLoop[h] = 0 \/ InLoop(l, outerLoop[h])

WhileFollow(h) == IF InLoop(ThenOf(h), h) THEN ElseOf(h) ELSE ThenOf(h)

IsWhile(h) == /\ IsIf(block[h])
              /\ ~ (InLoop(ThenOf(h), h) /\ InLoop(ElseOf(h), h))
              /\ InOuter(WhileFollow(h), h)

DoFollow(h) == IF ThenOf(latch[h]) = h THEN ElseOf(latch[h]) ELSE ThenOf(latch[h])

IsDoWhile(h) == block[latch[h]].ctl = "if" /\ InOuter(DoFollow(h), h)

\* findFollow: the first exit of the blocks above the latch; of a loop inside
\* only the header counts.
RECURSIVE Upwards(_, _, _)
Upwards(h, S, new) ==
  LET in  == {IF loop[x] = h THEN x ELSE loop[x] : x \in {m \in new : InLoop(m, h)}} \ S
  IN  IF in = {} THEN S ELSE Upwards(h, S \cup in, UNION {Above(x) : x \in in})

FindFollow(h) ==
  LET exits == {m \in UNION {Range(forw[x]) : x \in Upwards(h, {}, {latch[h]})} : ~ InLoop(m, h)}
  IN  IF exits = {} THEN 0 ELSE CHOOSE m \in exits : \A n \in exits : Number(m) <= Number(n)

Headers == {h \in Reached : loop[h] = h}

\* swapBranches.
SwappedRefs(S)   == [l \in Blocks |-> IF l \in S THEN Reverse(forw[l]) ELSE forw[l]]
SwappedBlocks(S) == [l \in Blocks |->
                       IF l \in S THEN [block[l] EXCEPT !.cond = Not(@), !.a = block[l].b,
                                                        !.b = block[l].a]
                       ELSE block[l]]

StructLoops ==
  /\ phase = "structure" /\ failed = {}
  /\ type' = [h \in Blocks |-> IF h \notin Headers THEN "none" ELSE IF IsWhile(h) THEN "while"
                               ELSE IF IsDoWhile(h) THEN "dowhile" ELSE "endless"]
  /\ follow' = [h \in Blocks |-> CASE type'[h] = "while"   -> WhileFollow(h)
                                   [] type'[h] = "dowhile" -> DoFollow(h)
                                   [] type'[h] = "endless" -> FindFollow(h)
                                   [] OTHER                -> 0]
  /\ LET S == {h \in Headers : type'[h] = "while" /\ follow'[h] = ThenOf(h)}
              \cup {latch[h] : h \in {k \in Headers : type'[k] = "dowhile"
                                                      /\ follow'[k] = ThenOf(latch[k])}}
     IN  forw' = SwappedRefs(S) /\ block' = SwappedBlocks(S)
  /\ phase' = "conditionals"
  /\ UNCHANGED <<program, entry, back, order, immDom, top, loop, latch, outerLoop, ifFollow,
                 failed, text, nest, exec>>

----------------------------------------------------------------------------
(***************************************************************************)
(* condDetect.                                                             *)
(***************************************************************************)
\* pathExists: along references to higher numbers.
RECURSIVE Below(_, _)
Below(S, new) ==
  LET more == {m \in UNION {Range(forw[l]) : l \in new} :
                 \E l \in new : m \in Range(forw[l]) /\ Number(m) > Number(l)} \ S
  IN  IF more = {} THEN S ELSE Below(S \cup more, more)

PathExists(l, m) == m \in Below({l}, {l})

HeadOrLatch(l) == loop[l] # 0 /\ \/ type[loop[l]] = "while" /\ l = loop[l]
                                 \/ type[loop[l]] = "dowhile" /\ l = latch[loop[l]]

Stays(l, m) == loop[l] = 0 \/ InLoop(m, loop[l])

Follows(l) == {m \in Reached : /\ Number(m) > Number(l) /\ immDom[m] = l
                               /\ Len(back[m]) > 1 /\ Stays(l, m)}

Conditional(c, l) ==
  IF block[l].ctl # "if" \/ HeadOrLatch(l) THEN c
  ELSE LET open == c.open \cup {l}
           f    == Furthest(Follows(l))
           to   == {u \in open : Number(u) < Number(f) /\ Stays(u, f) /\ PathExists(u, f)}
       IN  IF Follows(l) = {} THEN [c EXCEPT !.open = open]
           ELSE [open |-> open \ to, if |-> [u \in Blocks |-> IF u \in to THEN f ELSE c.if[u]]]

\* Conditionals in loops that are left over get the else-branch for a follow:
\* the one that leaves the loop is then the then-branch, or that to the header.
Forced(l) ==
  InLoop(ThenOf(l), loop[l])
  /\ (InLoop(ElseOf(l), loop[l]) => ElseOf(l) = loop[l])

CondDetect ==
  /\ phase = "conditionals"
  /\ LET c == FoldRight(LAMBDA l, d : Conditional(d, l), order, [open |-> {}, if |-> ifFollow])
         late == {l \in c.open : loop[l] # 0}
         S == {l \in late : Forced(l)} \cup {l \in Reached : c.if[l] # 0 /\ ThenOf(l) = c.if[l]}
     IN  /\ forw' = SwappedRefs(S) /\ block' = SwappedBlocks(S)
         /\ ifFollow' = [l \in Blocks |-> IF l \in late THEN forw'[l][1] ELSE c.if[l]]
         /\ failed' = {"then == header" :
                         l \in {m \in late : /\ InLoop(ThenOf(m), loop[m]) /\ ~ Forced(m)
                                             /\ ThenOf(m) # loop[m]}}
  /\ phase' = "print"
  /\ UNCHANGED <<program, entry, back, order, immDom, top, loop, latch, outerLoop, type, follow,
                 text, nest, exec>>

----------------------------------------------------------------------------
(***************************************************************************)
(* Properties.                                                             *)
(***************************************************************************)
\* The blocks of B reached from S within B.
RECURSIVE Within(_, _, _)
Within(B, S, new) ==
  LET more == (UNION {Range(forw[l]) : l \in new} \cap B) \ S
  IN  IF more = {} THEN S ELSE Within(B, S \cup more, more)

Dominators(l) == {d \in Reached : d = l \/ d = entry \/ l \notin Within(Reached \ {d}, {entry}, {entry})}

Reducible == \A l \in Reached : \A m \in Range(forw[l]) :
               Number(m) <= Number(l) => m \in Dominators(l)

\* One pass over the blocks finds the immediate dominators, although it meets
\* references back to which it has no answer yet: they come last in the lists.
DominatorsAreRight ==
  phase = "loops" /\ Reducible =>
    \A l \in Reached \ {entry} :
      LET above == Dominators(l) \ {l}
      IN  immDom[l] \in above /\ above = Dominators(immDom[l])

\* "The header of this loop must be dominated by the header of the current
\* loop": all the blocks of a loop are dominated by its header, and reach the
\* header again within the loop.  Loops have their blocks in common with the
\* loops around them only.
LoopsAreNatural ==
  phase = "conditionals" =>
    \A h \in Headers :
      LET body == {l \in Reached : InLoop(l, h)}
      IN  \A l \in body :
            /\ h \in Dominators(l)
            /\ h \in Within(body, {l}, {l})
            /\ \A k \in Headers : InLoop(l, k) => InLoop(k, h) \/ InLoop(h, k)

\* The structure that the printer goes by is the one the graph has.
StructureIsRight == DominatorsAreRight /\ LoopsAreNatural
=============================================================================
