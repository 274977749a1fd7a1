---------------------------- MODULE PendingList ----------------------------
(***************************************************************************)
(* The pending list of a generating extension: speclib/pending.c, driven   *)
(* by the code that analyzer/gg-code.cc writes into every generating       *)
(* function that has dynamic control flow.                                 *)
(*                                                                         *)
(* A generating function runs its own static computations and emits        *)
(* residual code.  A dynamic jump leads to specialization points: a block  *)
(* of the subject function together with the values of the static locals   *)
(* in the block's memoization set.  cmixPendinsert names such a point with *)
(* a residual label, the same label for the same values, and puts a point  *)
(* it has not seen before on the pending list; the loop                    *)
(*                                                                         *)
(*     cmix_loop: switch(cmixPending()) { case 0: ... case 1: ... }        *)
(*                                                                         *)
(* takes points off the list, restores their values into the locals and    *)
(* specializes their block, until the list is empty.                       *)
(*                                                                         *)
(* Generating functions call each other in the middle of a block, so there *)
(* is a stack of pending lists (cmixPushPend, cmixPopPend), but only ONE   *)
(* flag pendingIsCurrent, with which cmixPending skips the restoring of a  *)
(* point whose values are still in the locals.                             *)
(***************************************************************************)
EXTENDS Naturals, Sequences, FiniteSets

CONSTANTS
  Funs,      \* generating functions that use a pending list
  Points,    \* specialization points of a function, numbered from 1
  Objs,      \* static locals and parameters of a generating function
  Vals,      \* the values they take
  InitVal,   \* what they hold when the function has been entered
  MemoSet,   \* MemoSet[f][p]: the locals memoized at point p of f
  First,     \* First[f]: the point of the first block, 0 when it has none
  Unfold,    \* Unfold[f]: f is unfolded into its caller's residual function
  MaxCalls   \* bound: calls of generating functions in a run

ASSUME PointsAssumption == Points \subseteq Nat \ {0}
ASSUME ValsAssumption   == InitVal \in Vals
ASSUME MemoAssumption   == MemoSet \in [Funs -> [Points -> SUBSET Objs]]
ASSUME FirstAssumption  == First \in [Funs -> Points \cup {0}]
ASSUME UnfoldAssumption == Unfold \in [Funs -> BOOLEAN]
ASSUME CallsAssumption  == MaxCalls \in Nat

VARIABLES
  stack,             \* activations of generating functions, innermost last
  pendingIsCurrent,  \* the flag of pending.c, shared by all activations
  nextLabel,         \* labels 1 .. nextLabel-1 have been made
  curFun,            \* cmixCurFun: residual functions are numbered from 0
  nextFun,           \* functions 0 .. nextFun-1 have been started
  defs,              \* <<label, function it was emitted in>>
  refs,              \* <<label, function holding a jump to it>>
  calls,             \* calls made so far
  pc                 \* "block", "loop", "done" or "fatal"

vars == <<stack, pendingIsCurrent, nextLabel, curFun, nextFun,
          defs, refs, calls, pc>>

Labels == Nat \ {0}
Stores == [Objs -> Vals]

----------------------------------------------------------------------------
(***************************************************************************)
(* The innermost activation, and the stack with another one in its place.  *)
(***************************************************************************)
Top == stack[Len(stack)]
WithTop(fr) == [stack EXCEPT ![Len(stack)] = fr]

\* Variants with a defect: everything is copied; nothing is put back.
Snapshot_all(f, p, st)  == st
Restore_nothing(st, node) == st

(***************************************************************************)
(* The copy of the memoized locals that cmixPendinsert makes, and the      *)
(* locals after a copy has been put back: objects outside the memoization  *)
(* set keep whatever the block specialized last has left in them.          *)
(***************************************************************************)
Snapshot(f, p, st)   == [o \in MemoSet[f][p] |-> st[o]]
Restore(st, node)    == [o \in Objs |-> IF o \in DOMAIN node.block
                                        THEN node.block[o] ELSE st[o]]

\* Variants with a defect: only points still pending are found; finding a point
\* sets the flag; the new node is not linked to the rest of the list.
Known_pending(fr, p) ==
  {n \in fr.memo : /\ n.label = p /\ n.block = Snapshot(fr.fun, p, fr.locals)
                   /\ \E k \in DOMAIN fr.pending : fr.pending[k] = n}
Found_current(acc, node) ==
  [acc EXCEPT !.tags = @ \cup {node.reslab}, !.current = TRUE]

(***************************************************************************)
(* cmixPendinsert(p): the memo list of p is searched for a node with the   *)
(* same values; a new node goes to the memo list and on top of the pending *)
(* list, and its label is fresh.  acc threads the part of the state the    *)
(* call changes, because cmixIf evaluates two calls.                       *)
(***************************************************************************)
Known(fr, p) ==
  {n \in fr.memo : n.label = p /\ n.block = Snapshot(fr.fun, p, fr.locals)}

NewNode(fr, p, lab) ==
  [label |-> p, reslab |-> lab, block |-> Snapshot(fr.fun, p, fr.locals)]

Found(acc, node) == [acc EXCEPT !.tags = @ \cup {node.reslab}]

Linked(node, list) == <<node>> \o list

Pendinsert(acc, p) ==
  LET known == Known(acc.fr, p)
      node  == NewNode(acc.fr, p, acc.next)
  IN  IF known # {}
      THEN Found(acc, CHOOSE n \in known : TRUE)
      ELSE [fr      |-> [acc.fr EXCEPT !.memo    = @ \cup {node},
                                       !.pending = Linked(node, @)],
            next    |-> acc.next + 1,
            current |-> TRUE,
            tags    |-> acc.tags \cup {acc.next}]

Now(st) == [fr |-> [Top EXCEPT !.locals = st], next |-> nextLabel,
            current |-> pendingIsCurrent, tags |-> {}]

Inserted(acc) ==
  /\ stack' = WithTop(acc.fr)
  /\ nextLabel' = acc.next
  /\ pendingIsCurrent' = acc.current

----------------------------------------------------------------------------
Init ==
  /\ stack = <<>>
  /\ pendingIsCurrent = FALSE
  /\ nextLabel = 1
  /\ curFun = 0
  /\ nextFun = 1
  /\ defs = {}
  /\ refs = {}
  /\ calls = 0
  /\ pc = "block"

(***************************************************************************)
(* A block (or, when the stack is empty, the entry point) calls f.  The    *)
(* prologue of f: an unfolded f makes the label its returns jump to, any   *)
(* other f opens a residual function (cmixFunHeading); then cmixPushPend,  *)
(* and the first block is run at once or, if it is a point itself, goes    *)
(* through the pending list without a jump being emitted.                  *)
(***************************************************************************)
Call(f) ==
  LET end == IF Unfold[f] THEN nextLabel ELSE 0
      fr  == [fun |-> f, memo |-> {}, pending |-> <<>>,
              locals |-> [o \in Objs |-> InitVal],
              end |-> end, prevCur |-> curFun]
      acc == [fr |-> fr, next |-> nextLabel + (IF Unfold[f] THEN 1 ELSE 0),
              current |-> pendingIsCurrent, tags |-> {}]
      ins == IF First[f] = 0 THEN acc ELSE Pendinsert(acc, First[f])
  IN  /\ pc = "block"
      /\ calls < MaxCalls
      /\ stack # <<>> \/ calls = 0
      /\ stack' = Append(stack, ins.fr)
      /\ nextLabel' = ins.next
      /\ pendingIsCurrent' = ins.current
      /\ IF Unfold[f] THEN UNCHANGED <<curFun, nextFun>>
                      ELSE curFun' = nextFun /\ nextFun' = nextFun + 1
      /\ calls' = calls + 1
      /\ pc' = IF First[f] = 0 THEN "block" ELSE "loop"
      /\ UNCHANGED <<defs, refs>>

(***************************************************************************)
(* The rest of a block: its static statements leave the locals at st (they *)
(* may assign any of them), and its jump ends it.  A jump between blocks   *)
(* that are no points is an ordinary goto inside the generating function   *)
(* and belongs to those statements.                                        *)
(***************************************************************************)
InBlock == pc = "block" /\ stack # <<>>

Refer(tags) == refs' = refs \cup (tags \X {curFun})

\* cmixGoto(cmixPendinsert(p)); goto cmix_loop
JumpGoto(p, st) ==
  LET ins == Pendinsert(Now(st), p)
  IN  /\ InBlock
      /\ Inserted(ins)
      /\ Refer(ins.tags)
      /\ pc' = "loop"
      /\ UNCHANGED <<curFun, nextFun, defs, calls>>

\* cmixIf(cmixPendinsert(p), cmixPendinsert(q), ...); goto cmix_loop.
\* C leaves the order in which the two arguments are evaluated open, so
\* <<p, q>> ranges over both orders.
JumpIf(p, q, st) ==
  LET ins == Pendinsert(Pendinsert(Now(st), p), q)
  IN  /\ InBlock
      /\ Inserted(ins)
      /\ Refer(ins.tags)
      /\ pc' = "loop"
      /\ UNCHANGED <<curFun, nextFun, defs, calls>>

\* cmixGoto(cmixEndLabel) or cmixReturn; goto cmix_loop
JumpReturn(st) ==
  /\ InBlock
  /\ stack' = WithTop([Top EXCEPT !.locals = st])
  /\ IF Unfold[Top.fun] THEN Refer({Top.end}) ELSE UNCHANGED refs
  /\ pc' = "loop"
  /\ UNCHANGED <<pendingIsCurrent, nextLabel, curFun, nextFun, defs, calls>>

----------------------------------------------------------------------------
(***************************************************************************)
(* cmixLabel: a label that was emitted before is a fatal error.            *)
(***************************************************************************)
Defined(lab) == \E d \in defs : d[1] = lab

Label(lab) == defs' = defs \cup {<<lab, curFun>>}

\* Variants with a defect: the point stays on the list; the residual function
\* of the callee stays current.
Popped_not(list)   == list
PopFun_not(fr)     == curFun

Popped(list) == Tail(list)
PopFun(fr)   == fr.prevCur

\* switch(cmixPending()) with a non-empty list
Pending ==
  /\ pc = "loop"
  /\ Top.pending # <<>>
  /\ LET node == Head(Top.pending)
         fr   == [Top EXCEPT
                    !.pending = Popped(@),
                    !.locals  = IF pendingIsCurrent THEN @ ELSE Restore(@, node)]
     IN /\ stack' = WithTop(fr)
        /\ IF Defined(node.reslab)
           THEN pc' = "fatal" /\ UNCHANGED <<defs, pendingIsCurrent>>
           ELSE /\ Label(node.reslab)
                /\ pendingIsCurrent' = FALSE
                /\ pc' = "block"
  /\ UNCHANGED <<nextLabel, curFun, nextFun, refs, calls>>

\* case 0: cmixPopPend(), the end label of an unfolded function, the
\* epilogue, and back into the block of the caller or the entry point
PopPend ==
  /\ pc = "loop"
  /\ Top.pending = <<>>
  /\ stack' = SubSeq(stack, 1, Len(stack) - 1)
  /\ IF Unfold[Top.fun]
     THEN /\ UNCHANGED curFun
          /\ IF Defined(Top.end)
             THEN pc' = "fatal" /\ UNCHANGED defs
             ELSE /\ Label(Top.end)
                  /\ pc' = IF Len(stack) = 1 THEN "done" ELSE "block"
     ELSE /\ curFun' = PopFun(Top)
          /\ pc' = IF Len(stack) = 1 THEN "done" ELSE "block"
          /\ UNCHANGED defs
  /\ UNCHANGED <<pendingIsCurrent, nextLabel, nextFun, refs, calls>>

Next ==
  \/ \E f \in Funs : Call(f)
  \/ \E st \in Stores :
       \/ \E p \in Points : JumpGoto(p, st)
       \/ \E p, q \in Points : JumpIf(p, q, st)
       \/ JumpReturn(st)
  \/ Pending
  \/ PopPend

Spec == Init /\ [][Next]_vars

\* The generator is a sequential program: as long as it can take a step it
\* does.  A block's static statements are taken to terminate.
FairSpec == Spec /\ WF_vars(Next)

----------------------------------------------------------------------------
(***************************************************************************)
(* Properties.                                                             *)
(***************************************************************************)
Blocks == UNION {[S -> Vals] : S \in SUBSET Objs}

Node == [label : Points, reslab : Labels, block : Blocks]

NodeOf(f) == {n \in Node : n.block \in [MemoSet[f][n.label] -> Vals]}

FrameWith(F, N) == [fun : F, memo : SUBSET N, pending : Seq(N),
                    locals : Stores, end : Nat, prevCur : Nat]

FrameOf(f) == FrameWith({f}, NodeOf(f))

Frame == {fr \in FrameWith(Funs, Node) : fr \in FrameOf(fr.fun)}

\* Every variable has its type (the state of pending.c and of the part of
\* code.c that holds labels and the current residual function).
TypeOK ==
  /\ stack \in Seq(Frame)
  /\ pendingIsCurrent \in BOOLEAN
  /\ nextLabel \in Labels
  /\ curFun \in Nat
  /\ nextFun \in Nat
  /\ defs \subseteq Nat \X Nat
  /\ refs \subseteq Nat \X Nat
  /\ calls \in Nat
  /\ pc \in {"block", "loop", "done", "fatal"}
  /\ pc = "loop" => stack # <<>>

\* While pendingIsCurrent is set, the point that cmixPending will take is the
\* one whose values the locals hold: the flag, which all activations share,
\* is never seen by an activation other than the one that set it (pending.c,
\* lines 48, 123, 141 and 153).
Matches(fr) ==
  /\ fr.pending # <<>>
  /\ LET n == Head(fr.pending)
     IN  n.block = Snapshot(fr.fun, n.label, fr.locals)

FlagSound ==
  pendingIsCurrent /\ pc # "fatal" => pc = "loop" /\ stack # <<>> /\ Matches(Top)

\* A block is specialized with the values it was inserted with, whether
\* cmixPending restores them or not: when a point is taken off the list the
\* memoized locals are what its memo copy says.
ResumeFaithful ==
  [][pc = "loop" /\ pc' = "block" /\ Len(stack') = Len(stack)
     => LET n == Head(Top.pending)
        IN  Snapshot(Top.fun, n.label, Top'.locals) = n.block]_vars

\* Polyvariance without duplicates: in one activation a residual label stands
\* for exactly one point with one combination of values, and such a
\* combination has exactly one label.
OneLabelPerConfiguration ==
  \A i \in 1 .. Len(stack) : \A m, n \in stack[i].memo :
    (m.label = n.label /\ m.block = n.block) <=> (m.reslab = n.reslab)

\* cmixLabel never meets a label a second time, so the generator never stops
\* with "label multiply defined" (code.c, lines 258-259).
NeverMultiplyDefined == pc # "fatal"

\* No label is lost: a jump that has been emitted leads to a label that has
\* been emitted, or that a live activation still has on its pending list or
\* will emit when its list is empty.
NoDanglingJump ==
  \A r \in refs :
    \/ Defined(r[1])
    \/ \E i \in 1 .. Len(stack) :
         \/ \E k \in DOMAIN stack[i].pending : stack[i].pending[k].reslab = r[1]
         \/ Unfold[stack[i].fun] /\ stack[i].end = r[1]

\* A residual jump never leaves its residual function: where both a jump and
\* its label have been emitted they are in the same function, although the
\* activations of unfolded functions interleave with those of others.
JumpsStayInFunction ==
  \A r \in refs, d \in defs : r[1] = d[1] => r[2] = d[2]

\* What the printing of residual code relies on.
LabelsAreSound ==
  OneLabelPerConfiguration /\ NeverMultiplyDefined /\ NoDanglingJump /\ JumpsStayInFunction

\* The pending loop ends: with finitely many values, every activation runs
\* out of new points, and the entry point returns.
Terminates == <>(pc = "done")
----------------------------------------------------------------------------
(***************************************************************************)
(* Refinement: lists become sets of configurations, labels and the flag    *)
(* disappear.  The fatal error has no counterpart.                         *)
(***************************************************************************)
Configs(nodes) == {<<n.label, n.block>> : n \in nodes}

AbsActs ==
  [i \in DOMAIN stack |->
     [fun    |-> stack[i].fun,
      seen   |-> Configs(stack[i].memo),
      todo   |-> Configs({stack[i].pending[k] : k \in DOMAIN stack[i].pending}),
      locals |-> stack[i].locals]]

AbsPhase == CASE pc = "block" -> "run" [] pc = "loop" -> "pick" [] OTHER -> pc

Abs == INSTANCE Polyvariant WITH acts <- AbsActs, phase <- AbsPhase

\* The pending lists implement polyvariant specialization with a work set: a
\* memo list that is searched, a list that is popped and a restore that is
\* skipped are together as good as a set of configurations and a restore that
\* is never skipped.
ImplementsPolyvariant == Abs!Spec
============================================================================
