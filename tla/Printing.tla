------------------------------- MODULE Printing -------------------------------
(***************************************************************************)
(* The text of a residual function (speclib/unparse.c), printed from the   *)
(* loops and conditionals that Restructure has found, or straight from the *)
(* statements if cmixRestruct is off; then the execution of the text.      *)
(***************************************************************************)
EXTENDS Restructure

Block(l, s)  == (IF s.plain THEN <<<<"stmt", l>>>> ELSE <<>>)
                \o (IF s.ctl \in {"return", "abort"} THEN <<<<s.ctl, l>>>> ELSE <<>>)

----------------------------------------------------------------------------
(***************************************************************************)
(* Printing without restructuring: blocks with one reference are printed   *)
(* where they are jumped to.                                               *)
(***************************************************************************)
Important(l)   == References(l) > 1
LabelNumber(l) == Cardinality({m \in 1 .. l : Important(m)})

RECURSIVE PrintStmtSeq(_)
PrintStmtSeq(l) ==
  LET s == program[l]
      Jump(m) == IF Important(m) THEN <<<<"goto", LabelNumber(m)>>>> ELSE PrintStmtSeq(m)
  IN  Block(l, s) \o CASE s.ctl = "goto" -> Jump(s.a)
                       [] s.ctl = "if"   -> <<<<"if", l>>>> \o Jump(s.a) \o <<<<"else", l>>>>
                                            \o Jump(s.b) \o <<<<"fi", l>>>>
                       [] OTHER          -> <<>>

PrintStmts ==
  LET Labelled(acc, l) ==
        IF Important(l) THEN acc \o <<<<"label", LabelNumber(l)>>>> \o PrintStmtSeq(l) ELSE acc
      start == IF Important(1) THEN <<<<"goto", LabelNumber(1)>>>> ELSE PrintStmtSeq(1)
  IN  FoldLeft(Labelled, start, [l \in Blocks |-> l])

----------------------------------------------------------------------------
(***************************************************************************)
(* Printing of structures.  p threads what is printed: out, the blocks     *)
(* done, the numbers of labels, the next one, the assertions that fail.    *)
(* control lists the structures around, the innermost first.  All is       *)
(* printed twice, the first time to see which labels there are jumps to.   *)
(***************************************************************************)
Put(p, kind, l) == [p EXCEPT !.out = Append(@, <<kind, l>>)]

Check(p, name, holds) == IF holds THEN p ELSE [p EXCEPT !.bad = @ \cup {name}]

PrintBB(p, l) ==
  LET q == Check(p, "! printed", l \notin p.printed)
  IN  [q EXCEPT !.printed = @ \cup {l},
                !.out = @ \o (IF p.number[l] > 0 THEN <<<<"label", p.number[l]>>>> ELSE <<>>)
                          \o Block(l, block[l])]

\* Variant with a defect: falling out of structures further out counts.
TrivialJump_out(l, control) ==
  \E i \in DOMAIN control :
    control[i] = <<"cond", l>> \/ (control[i][1] = "loop" /\ l = latch[control[i][2]])

TrivialJump(l, control) ==
  /\ control # <<>>
  /\ \/ control[1] = <<"cond", l>>
     \/ control[1][1] = "loop" /\ l = latch[control[1][2]]

\* break and continue concern the innermost loop.
PrintJump(p, l, control) ==
  LET around == SelectSeq(control, LAMBDA c : c[1] = "loop")
      h      == around[1][2]
      q == IF p.first /\ p.number[l] = 0
           THEN [p EXCEPT !.number[l] = p.next, !.next = @ + 1] ELSE p
  IN  IF TrivialJump(l, control) THEN p
      ELSE IF around # <<>> /\ l = follow[h] THEN Put(p, "break", l)
      ELSE IF around # <<>> /\ l = (IF type[h] = "dowhile" THEN latch[h] ELSE h)
           THEN Put(p, "continue", l)
      ELSE Put(Check(q, "target->number > 0", q.number[l] > 0), "goto", q.number[l])

\* Variant with a defect: the latch is printed where it is reached.
PrintElsewhere_latch(p, l, control) ==
  \/ l \in p.printed
  \/ \E i \in DOMAIN control :
       control[i] = <<"cond", l>> \/ (control[i][1] = "loop" /\ follow[control[i][2]] = l)

PrintElsewhere(p, l, control) ==
  \/ l \in p.printed
  \/ loop[l] # 0 /\ l = latch[loop[l]] /\ l # loop[l]
  \/ \E i \in DOMAIN control :
       control[i] = <<"cond", l>> \/ (control[i][1] = "loop" /\ follow[control[i][2]] = l)

RECURSIVE PrintInterval(_, _, _)
PrintConditional(p, l, control) ==
  LET f     == ifFollow[l]
      inner == IF f = 0 THEN control ELSE <<<<"cond", f>>>> \o control
      then  == PrintInterval(Put(PrintBB(p, l), "if", l), ThenOf(l), inner)
      both  == IF f # 0 /\ ElseOf(l) = f THEN then
               ELSE PrintInterval(Put(then, "else", l), ElseOf(l), inner)
      end   == Put(both, "fi", l)
  IN  IF f = 0 THEN end ELSE PrintInterval(end, f, control)

PrintPlain(p, l, control) ==
  LET q == PrintBB(p, l)
  IN  IF forw[l] = <<>> THEN q ELSE PrintInterval(q, forw[l][1], control)

PrintLoop(p, h, control) ==
  LET inner == <<<<"loop", h>>>> \o control
      la    == latch[h]
      isIf(l) == block[l].ctl = "if"
      head  == CASE type[h] = "while"   -> Put(PrintBB(p, h), "while", h)
                 [] type[h] = "dowhile" ->
                      IF isIf(h) /\ la # h THEN PrintConditional(Put(p, "do", h), h, inner)
                      ELSE PrintBB(Put(p, "do", h), h)
                 [] OTHER ->
                      IF isIf(h) THEN PrintConditional(Put(p, "for", h), h, inner)
                      ELSE PrintBB(Put(p, "for", h), h)
      body  == IF type[h] = "while" THEN PrintInterval(head, ThenOf(h), inner)
               ELSE IF ~ isIf(h) THEN PrintInterval(head, forw[h][1], inner)
               ELSE head
      last  == IF isIf(la) /\ type[h] # "dowhile" THEN PrintConditional(body, la, inner)
               ELSE PrintBB(body, la)
      all   == IF la = h THEN head ELSE last
      end   == Put(Check(all, "printed( loopLatch )", la \in all.printed),
                   IF type[h] = "dowhile" THEN "until" ELSE "done", la)
  IN  IF follow[h] = 0 THEN end ELSE PrintInterval(end, follow[h], control)

PrintInterval(p, l, control) ==
  IF PrintElsewhere(p, l, control)  THEN PrintJump(p, l, control)
  ELSE IF loop[l] = l               THEN PrintLoop(p, l, control)
  ELSE IF block[l].ctl = "if"       THEN PrintConditional(p, l, control)
  ELSE PrintPlain(p, l, control)

PrintFun ==
  LET p1 == PrintInterval([out |-> <<>>, printed |-> {}, number |-> [l \in Blocks |-> 0],
                           next |-> 1, first |-> TRUE, bad |-> {}], entry, <<>>)
  IN  PrintInterval([p1 EXCEPT !.out = <<>>, !.printed = {}, !.first = FALSE], entry, <<>>)

----------------------------------------------------------------------------
(***************************************************************************)
(* The structures around each token, the innermost last, by the place of   *)
(* their first token.                                                      *)
(***************************************************************************)
Opens(t)  == t[1] \in {"if", "while", "do", "for"}
Closes(t) == t[1] \in {"fi", "done", "until"}

Nest(out) ==
  LET Around(acc, i) ==
        LET around == IF i = 1 THEN <<>>
                      ELSE IF Opens(out[i - 1])  THEN Append(acc[i - 1], i - 1)
                      ELSE IF Closes(out[i - 1]) THEN Front(acc[i - 1])
                      ELSE acc[i - 1]
        IN  Append(acc, around)
  IN  FoldLeft(Around, <<>>, [i \in DOMAIN out |-> i])

Done(out, bad) ==
  /\ text' = out /\ nest' = Nest(out)
  /\ failed' = failed \cup bad
  /\ phase' = "run"
  /\ at' = 0 /\ pc' = 1
  /\ UNCHANGED <<program, graph, loops>>

\* cmixRestruct = 1.
PrintRestructured == /\ phase = "print" /\ failed = {}
                     /\ LET p == PrintFun IN Done(p.out, p.bad)

\* cmixRestruct = 0.
PrintUnrestructured == phase = "compress" /\ Done(PrintStmts, {})

----------------------------------------------------------------------------
(***************************************************************************)
(* Execution.  The value of conditions is open, but stays the same between *)
(* two statements; the evaluation of one of them may go wrong.             *)
(***************************************************************************)
Tests == {l \in Blocks : program[l].ctl = "if"}
Envs(w) == {[true |-> T, wrong |-> w] : T \in SUBSET (Tests \ {w})}

RECURSIVE Eval(_, _)
Eval(c, e) ==
  LET x == Eval(c[2], e)
  IN  CASE c[1] = "test" -> IF c[2] = e.wrong THEN "wrong" ELSE IF c[2] \in e.true THEN "yes" ELSE "no"
        [] c[1] = "not"  -> IF x = "yes" THEN "no" ELSE IF x = "no" THEN "yes" ELSE x
        [] c[1] = "and"  -> IF x = "yes" THEN Eval(c[3], e) ELSE x
        [] c[1] = "or"   -> IF x = "no" THEN Eval(c[3], e) ELSE x

\* The next thing block l does, or a block after it.  n is for those that go
\* round and round.
RECURSIVE GraphEvent(_, _, _)
After(l, e, n) ==
  LET s == program[l]
  IN  CASE s.ctl \in {"return", "abort"} -> <<s.ctl, l>>
        [] s.ctl = "goto"    -> GraphEvent(s.a, e, n)
        [] l = e.wrong       -> <<"wrong", l>>
        [] OTHER             -> GraphEvent(IF l \in e.true THEN s.a ELSE s.b, e, n)
GraphEvent(l, e, n) ==
  IF program[l].plain THEN <<"stmt", l>>
  ELSE IF n = 0 THEN <<"silence", 0>>
  ELSE After(l, e, n - 1)

GraphNext(e) == IF at = 0 THEN GraphEvent(1, e, Len(program))
                ELSE After(at, e, Len(program))

\* Where the structure ends that begins at i; where it goes on if its test fails.
Ends(i, kinds) == Min({j \in DOMAIN text : nest[j] # <<>> /\ Last(nest[j]) = i
                                           /\ text[j][1] \in kinds})
EndOf(i)  == Ends(i, {"fi", "done", "until"})
SkipOf(i) == Ends(i, {"else", "fi", "done"})

LoopAt(i) == LET S == {j \in Range(nest[i]) : text[j][1] # "if"} IN Max(S)

Succ(i, test) ==
  LET k == text[i][1]
  IN  CASE k \in {"label", "do", "for", "fi"} -> i + 1
        [] k = "if"       -> IF test = "yes" THEN i + 1 ELSE SkipOf(i) + 1
        [] k = "else"     -> EndOf(Last(nest[i]))
        [] k = "while"    -> IF test = "yes" THEN i + 1 ELSE SkipOf(i) + 1
        [] k = "done"     -> Last(nest[i])
        [] k = "until"    -> IF test = "yes" THEN Last(nest[i]) ELSE i + 1
        [] k = "break"    -> EndOf(LoopAt(i)) + 1
        [] k = "continue" -> LET j == LoopAt(i) IN IF text[j][1] = "do" THEN EndOf(j) ELSE j
        [] k = "goto"     -> CHOOSE j \in DOMAIN text : text[j] = <<"label", text[i][2]>>

Lost(i) == i > Len(text) \/ (text[i][1] = "goto" /\ <<"label", text[i][2]>> \notin Range(text))

RECURSIVE TextEvent(_, _, _)
TextEvent(i, e, n) ==
  IF Lost(i) THEN <<"lost", 0, i>>
  ELSE IF text[i][1] \in {"stmt", "return", "abort"} THEN <<text[i][1], text[i][2], i>>
  ELSE IF n = 0 THEN <<"silence", 0, i>>
  ELSE LET test == IF text[i][1] \in {"if", "while", "until"} THEN Eval(block[text[i][2]].cond, e) ELSE "no"
       IN  IF test = "wrong" THEN <<"wrong", e.wrong, i>>
           ELSE TextEvent(Succ(i, test), e, n - 1)

\* Each token comes at most once between two statements, unless for ever.
TextNext(e) == TextEvent(pc, e, Len(text) + 1)

Run ==
  /\ phase = "run" /\ failed = {}
  /\ \E e \in Envs(0) :
       LET g == GraphNext(e)  t == TextNext(e)
       IN  /\ g[1] = "stmt" /\ t[1] = "stmt" /\ g[2] = t[2]
           /\ at' = g[2] /\ pc' = t[3] + 1
  /\ UNCHANGED <<phase, program, graph, loops, failed, text, nest>>

Next ==
  \/ Emit \/ Emitted
  \/ CompressFun \/ MakeIntervals \/ FindDominators \/ FindLoops \/ StructLoops \/ CondDetect
  \/ PrintRestructured \/ PrintUnrestructured \/ Run

Spec == Init /\ [][Next]_vars

----------------------------------------------------------------------------
\* What control can get to.
RECURSIVE Reachable(_, _)
Reachable(S, new) ==
  LET more == UNION {Range(Jumps(program[l])) : l \in new} \ S
  IN  IF more = {} THEN S ELSE Reachable(S \cup more, more)

\* The text does what the graph does: whatever the conditions are, the same
\* statement comes next, both end, or neither, and no condition goes wrong
\* that the graph does not evaluate.
TextBehavesAsGraph ==
  phase = "run" /\ failed = {} =>
    \A w \in {0} \cup Tests : \A e \in Envs(w) :
      GraphNext(e) \in {<<"wrong", e.wrong>>, SubSeq(TextNext(e), 1, 2)}

\* Each statement of the program that can be reached is printed once, and
\* where the printer expects a block not to be printed, or a label to have a
\* number, it is so.
PrintedOnce ==
  phase = "run" =>
    /\ failed = {}
    /\ LET reachable == Reachable({1}, {1})
           Times(l) == Cardinality({i \in DOMAIN text : text[i] = <<"stmt", l>>})
       IN  \A l \in Blocks : program[l].plain =>
             IF l \in reachable THEN Times(l) = 1 ELSE Times(l) <= 1

\* What residual code is printed for: the text is the program.
TextIsTheProgram == TextBehavesAsGraph /\ PrintedOnce

\* The assertions of restruct.c and unparse.c hold.
AssertionsHold == failed = {}
=============================================================================
