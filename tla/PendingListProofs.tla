------------------------- MODULE PendingListProofs -------------------------
(***************************************************************************)
(* Proofs about the pending list: its type invariant, the soundness of the *)
(* flag pendingIsCurrent, that every block is specialized with the values  *)
(* it was inserted with, that the labels of the residual program are sound *)
(* (every jump has its block, and only one), and that the pending lists    *)
(* are polyvariant specialization as Polyvariant states it.  The last part *)
(* is about the literals that tell the list what to memoize (MemoText):    *)
(* that reading them gives back the set that was written.                  *)
(***************************************************************************)
EXTENDS PendingList, MemoText, SequenceLemmas

\* The state a call of cmixPendinsert works on, and what callers know of it.
Acc == [fr : Frame, next : Labels, current : BOOLEAN, tags : SUBSET Labels]
AccSound(acc) == acc.current => Matches(acc.fr)

\* The frames of a function are frames; every frame belongs to its function.
LEMMA FrameType ==
  /\ \A f \in Funs : FrameOf(f) \subseteq Frame
  /\ \A fr \in Frame : \E f \in Funs : fr \in FrameOf(f)
<1>1. ASSUME NEW f \in Funs, NEW fr \in FrameOf(f)
      PROVE  fr \in Frame
  <2>1. NodeOf(f) \subseteq Node
    BY DEF NodeOf
  <2>2. fr.pending \in Seq(Node) /\ fr.memo \subseteq Node
    BY <2>1, SeqDef DEF FrameOf, FrameWith
  <2>3. fr \in FrameWith(Funs, Node) /\ fr.fun = f
    BY <2>2 DEF FrameOf, FrameWith
  <2> QED
    BY <2>3 DEF Frame
<1>2. ASSUME NEW fr \in Frame
      PROVE  \E f \in Funs : fr \in FrameOf(f)
  BY DEF Frame, FrameWith
<1> QED
  BY <1>1, <1>2

\* A snapshot of a store at a point is a block of that point.
LEMMA SnapshotType ==
  ASSUME NEW f \in Funs, NEW p \in Points, NEW st \in Stores
  PROVE  Snapshot(f, p, st) \in [MemoSet[f][p] -> Vals]
BY MemoAssumption DEF Snapshot, Stores

\* The node cmixPendinsert builds is a node of the activation's function.
LEMMA NewNodeType ==
  ASSUME NEW f \in Funs, NEW fr \in FrameOf(f), NEW p \in Points, NEW lab \in Labels
  PROVE  NewNode(fr, p, lab) \in NodeOf(f)
<1>1. fr.fun = f /\ fr.locals \in Stores
  BY DEF FrameOf, FrameWith
<1>2. Snapshot(f, p, fr.locals) \in [MemoSet[f][p] -> Vals]
  BY <1>1, SnapshotType
<1>3. MemoSet[f][p] \in SUBSET Objs
  BY MemoAssumption
<1>4. Snapshot(f, p, fr.locals) \in Blocks
  BY <1>2, <1>3 DEF Blocks
<1> QED
  BY <1>1, <1>2, <1>4 DEF NewNode, NodeOf, Node

\* cmixPendinsert keeps the type of the state it works on, the function and
\* the locals of the activation, and the soundness of the flag.
LEMMA PendinsertSound ==
  ASSUME NEW acc \in Acc, NEW p \in Points
  PROVE  /\ Pendinsert(acc, p) \in Acc
         /\ Pendinsert(acc, p).fr.fun = acc.fr.fun
         /\ Pendinsert(acc, p).fr.locals = acc.fr.locals
         /\ AccSound(acc) => AccSound(Pendinsert(acc, p))
<1> DEFINE fr == acc.fr
           known == Known(fr, p)
           node == NewNode(fr, p, acc.next)
           fr2 == [fr EXCEPT !.memo = @ \cup {node}, !.pending = Linked(node, @)]
           ins == Pendinsert(acc, p)
<1>1. PICK f \in Funs : fr \in FrameOf(f)
  BY FrameType DEF Acc
<1>2. acc.next \in Labels
  BY DEF Acc
<1>3. CASE known # {}
  <2>1. PICK n \in known : n = CHOOSE m \in known : TRUE
    BY <1>3
  <2>2. n \in fr.memo
    BY <2>1 DEF Known
  <2>3. n.reslab \in Labels
    BY <1>1, <2>2 DEF FrameOf, FrameWith, NodeOf, Node
  <2>4. ins = [acc EXCEPT !.tags = @ \cup {n.reslab}]
    BY <1>3, <2>1 DEF Pendinsert, Found
  <2> QED
    BY <2>3, <2>4 DEF Acc, AccSound, Matches
<1>4. CASE known = {}
  <2>1. ins = [fr |-> fr2, next |-> acc.next + 1, current |-> TRUE,
               tags |-> acc.tags \cup {acc.next}]
    BY <1>4 DEF Pendinsert, Found
  <2>2. node \in NodeOf(f)
    BY <1>1, <1>2, NewNodeType
  <2>3. fr.pending \in Seq(NodeOf(f))
    BY <1>1 DEF FrameOf, FrameWith
  <2>4. /\ <<node>> \o fr.pending \in Seq(NodeOf(f))
        /\ <<node>> \o fr.pending # <<>>
        /\ Head(<<node>> \o fr.pending) = node
    BY <2>2, <2>3
  <2>5. /\ fr2 \in FrameOf(f)
        /\ fr2.fun = fr.fun
        /\ fr2.locals = fr.locals
        /\ fr2.pending = <<node>> \o fr.pending
    BY <1>1, <2>2, <2>4 DEF FrameOf, FrameWith, Linked
  <2>6. fr2 \in Frame
    BY <2>5, FrameType
  <2>7. acc.next + 1 \in Labels
    BY <1>2 DEF Labels
  <2>8. ins \in Acc
    BY <2>1, <2>6, <2>7, <1>2 DEF Acc
  <2>9. node.block = Snapshot(fr2.fun, node.label, fr2.locals)
    BY <2>5 DEF NewNode
  <2>10. ins.fr = fr2
    BY <2>1
  <2>11. Matches(ins.fr)
    <3> HIDE DEF ins, fr2, node
    <3> QED  BY <2>4, <2>5, <2>9, <2>10 DEF Matches
  <2> QED
    <3> HIDE DEF fr2
    <3> QED  BY <2>5, <2>8, <2>10, <2>11 DEF AccSound
<1> QED
  BY <1>3, <1>4

\* The state at the start of a jump is well typed; the flag is off there.
LEMMA NowSound ==
  ASSUME TypeOK, FlagSound, InBlock, NEW st \in Stores
  PROVE  /\ Now(st) \in Acc
         /\ AccSound(Now(st))
         /\ Top \in Frame
<1>1. Len(stack) \in 1 .. Len(stack)
  BY DEF TypeOK, InBlock
<1>2. Top \in Frame
  BY <1>1 DEF TypeOK, Top
<1>3. PICK f \in Funs : Top \in FrameOf(f)
  BY <1>2, FrameType
<1>4. [Top EXCEPT !.locals = st] \in FrameOf(f)
  BY <1>3 DEF FrameOf, FrameWith
<1>5. [Top EXCEPT !.locals = st] \in Frame
  BY <1>4, FrameType
<1>6. pendingIsCurrent = FALSE
  BY DEF TypeOK, FlagSound, InBlock
<1> QED
  BY <1>2, <1>5, <1>6 DEF Now, Acc, AccSound, TypeOK

\* Putting a frame in the place of the innermost one.
LEMMA WithTopType ==
  ASSUME TypeOK, stack # <<>>, NEW fr \in Frame
  PROVE  /\ WithTop(fr) \in Seq(Frame)
         /\ WithTop(fr) # <<>>
         /\ Len(WithTop(fr)) = Len(stack)
         /\ WithTop(fr)[Len(WithTop(fr))] = fr
<1>1. stack \in Seq(Frame) /\ Len(stack) \in 1 .. Len(stack)
  BY DEF TypeOK
<1> QED
  BY <1>1 DEF WithTop

\* Both invariants hold after any number of insertions made by one jump.
LEMMA InsertedSound ==
  ASSUME TypeOK, stack # <<>>, NEW acc \in Acc, AccSound(acc), Inserted(acc)
  PROVE  /\ stack' \in Seq(Frame)
         /\ stack' # <<>>
         /\ nextLabel' \in Labels
         /\ pendingIsCurrent' \in BOOLEAN
         /\ pendingIsCurrent' => Matches(Top')
<1>1. acc.fr \in Frame
  BY DEF Acc
<1>2. stack' \in Seq(Frame) /\ stack' # <<>> /\ Top' = acc.fr
  BY <1>1, WithTopType DEF Inserted, Top
<1> QED
  BY <1>2 DEF Inserted, Acc, AccSound, Matches

----------------------------------------------------------------------------
(***************************************************************************)
(* The invariant.  Neither conjunct needs more than both of them.          *)
(***************************************************************************)
Inv == TypeOK /\ FlagSound

LEMMA InitInv == Init => Inv
<1> SUFFICES ASSUME Init PROVE Inv
  OBVIOUS
<1>1. stack \in Seq(Frame)
  BY EmptySeq DEF Init
<1>2. defs \subseteq Nat \X Nat /\ refs \subseteq Nat \X Nat
  BY DEF Init
<1>3. nextLabel \in Labels /\ {curFun, nextFun, calls} \subseteq Nat
  BY DEF Init, Labels
<1>4. pendingIsCurrent \in BOOLEAN /\ pc = "block"
  BY DEF Init
<1>5. TypeOK
  BY <1>1, <1>2, <1>3, <1>4 DEF TypeOK
<1>6. FlagSound
  BY DEF Init, FlagSound
<1> QED
  BY <1>5, <1>6 DEF Inv

LEMMA CallInv ==
  ASSUME Inv, NEW f \in Funs, Call(f)
  PROVE  Inv'
<1> DEFINE fr == [fun |-> f, memo |-> {}, pending |-> <<>>,
                  locals |-> [o \in Objs |-> InitVal],
                  end |-> IF Unfold[f] THEN nextLabel ELSE 0, prevCur |-> curFun]
           acc == [fr |-> fr, next |-> nextLabel + (IF Unfold[f] THEN 1 ELSE 0),
                   current |-> pendingIsCurrent, tags |-> {}]
           ins == IF First[f] = 0 THEN acc ELSE Pendinsert(acc, First[f])
<1> USE DEF Inv
<1>1. /\ pc = "block"
      /\ stack' = Append(stack, ins.fr)
      /\ nextLabel' = ins.next
      /\ pendingIsCurrent' = ins.current
      /\ pc' = IF First[f] = 0 THEN "block" ELSE "loop"
      /\ UNCHANGED <<defs, refs>>
      /\ calls' = calls + 1
      /\ IF Unfold[f] THEN UNCHANGED <<curFun, nextFun>>
                      ELSE curFun' = nextFun /\ nextFun' = nextFun + 1
  BY DEF Call
<1>2. pendingIsCurrent = FALSE
  BY <1>1 DEF FlagSound, TypeOK
<1>3. fr.locals \in Stores /\ fr.end \in Nat
  BY ValsAssumption DEF Stores, TypeOK, Labels
<1>4. fr \in FrameOf(f)
  BY <1>3 DEF FrameOf, FrameWith, TypeOK
<1>5. fr \in Frame
  BY <1>4, FrameType
<1>6. nextLabel + (IF Unfold[f] THEN 1 ELSE 0) \in Labels
  BY DEF TypeOK, Labels
<1>7. acc \in Acc /\ AccSound(acc)
  BY <1>2, <1>5, <1>6 DEF Acc, AccSound
<1> HIDE DEF fr, acc
<1>8. ins \in Acc /\ AccSound(ins)
  <2>1. CASE First[f] = 0
    BY <1>7, <2>1
  <2>2. CASE First[f] # 0
    <3>1. First[f] \in Points
      BY <2>2, FirstAssumption
    <3> QED
      BY <1>7, <2>2, <3>1, PendinsertSound
  <2> QED
    BY <2>1, <2>2
<1>9. First[f] = 0 => ins.current = FALSE
  BY <1>2 DEF acc
<1> HIDE DEF ins
<1>10. ins.fr \in Frame /\ ins.next \in Labels /\ ins.current \in BOOLEAN
  BY <1>8 DEF Acc
<1>11. stack' \in Seq(Frame) /\ stack' # <<>> /\ Top' = ins.fr
  BY <1>1, <1>10 DEF TypeOK, Top
<1>12. curFun' \in Nat /\ nextFun' \in Nat /\ calls' \in Nat
  BY <1>1 DEF TypeOK
<1>13. TypeOK'
  BY <1>1, <1>10, <1>11, <1>12 DEF TypeOK
<1>14. Matches(ins.fr) => Matches(Top')
  BY <1>11 DEF Matches
<1>15. FlagSound'
  BY <1>1, <1>8, <1>9, <1>11, <1>14 DEF FlagSound, AccSound, Matches
<1> QED
  BY <1>13, <1>15

\* The jumps: what they emit is well typed, and what they insert is sound.
LEMMA JumpInv ==
  ASSUME Inv, InBlock, NEW acc \in Acc, AccSound(acc), Inserted(acc),
         Refer(acc.tags), pc' = "loop", UNCHANGED <<curFun, nextFun, defs, calls>>
  PROVE  Inv'
<1> USE DEF Inv
<1>1. stack # <<>>
  BY DEF InBlock
<1>2. /\ stack' \in Seq(Frame)
      /\ stack' # <<>>
      /\ nextLabel' \in Labels
      /\ pendingIsCurrent' \in BOOLEAN
      /\ pendingIsCurrent' => Matches(Top')
  BY <1>1, InsertedSound
<1>3. refs' \subseteq Nat \X Nat
  BY DEF Refer, Acc, TypeOK, Labels
<1>4. TypeOK'
  BY <1>2, <1>3 DEF TypeOK
<1> QED
  BY <1>2, <1>4 DEF FlagSound, Matches

LEMMA JumpReturnInv ==
  ASSUME Inv, NEW st \in Stores, JumpReturn(st)
  PROVE  Inv'
<1> USE DEF Inv
<1>1. InBlock /\ stack # <<>> /\ stack' = WithTop([Top EXCEPT !.locals = st])
  BY DEF JumpReturn, InBlock
<1>2. PICK f \in Funs : Top \in FrameOf(f)
  BY <1>1, NowSound, FrameType
<1>3. /\ [Top EXCEPT !.locals = st] \in Frame
      /\ Top.fun = f
      /\ Top.end \in Nat
  BY <1>2, FrameType DEF FrameOf, FrameWith
<1>4. stack' \in Seq(Frame) /\ stack' # <<>>
  BY <1>1, <1>3, WithTopType
<1>5. pendingIsCurrent' = FALSE
  BY <1>1 DEF JumpReturn, InBlock, FlagSound, TypeOK
<1>6. refs' \subseteq Nat \X Nat
  BY <1>3 DEF JumpReturn, Refer, TypeOK, Labels
<1>7. TypeOK'
  BY <1>4, <1>5, <1>6 DEF TypeOK, JumpReturn
<1> QED
  BY <1>5, <1>7 DEF FlagSound
LEMMA PendingInv ==
  ASSUME Inv, Pending
  PROVE  /\ Inv'
         /\ pc' = "block" =>
              LET n == Head(Top.pending)
              IN  Snapshot(Top.fun, n.label, Top'.locals) = n.block
<1> USE DEF Inv
<1> DEFINE node == Head(Top.pending)
           loc  == IF pendingIsCurrent THEN Top.locals ELSE Restore(Top.locals, node)
           fr   == [Top EXCEPT !.pending = Popped(@), !.locals = loc]
<1>1. stack # <<>> /\ pc = "loop"
  BY DEF Pending, TypeOK
<1>2. Top \in Frame
  BY <1>1 DEF TypeOK, Top
<1>3. PICK f \in Funs : Top \in FrameOf(f)
  BY <1>2, FrameType
<1>4. /\ Top.fun = f
      /\ Top.locals \in Stores
      /\ Top.pending \in Seq(NodeOf(f))
  BY <1>3 DEF FrameOf, FrameWith
<1>5. Top.pending # <<>> /\ stack' = WithTop(fr)
  BY DEF Pending
<1>6. node \in NodeOf(f) /\ Tail(Top.pending) \in Seq(NodeOf(f))
  BY <1>4, <1>5
<1>7. /\ node.label \in Points
      /\ node.reslab \in Labels
      /\ node.block \in [MemoSet[f][node.label] -> Vals]
      /\ MemoSet[f][node.label] \subseteq Objs
  BY <1>6, MemoAssumption DEF NodeOf, Node
<1>8. Restore(Top.locals, node) \in Stores
  BY <1>4, <1>7 DEF Restore, Stores
<1>9. loc \in Stores
  BY <1>4, <1>8
<1>10. fr \in FrameOf(f) /\ fr.locals = loc
  BY <1>3, <1>6, <1>9 DEF FrameOf, FrameWith, Popped
<1>11. fr \in Frame
  BY <1>10, FrameType
<1>12. stack' \in Seq(Frame) /\ stack' # <<>> /\ Top' = fr
  BY <1>1, <1>5, <1>11, WithTopType DEF Top
<1>13. Snapshot(f, node.label, loc) = node.block
  <2>1. CASE pendingIsCurrent
    BY <1>1, <1>4, <2>1 DEF FlagSound, Matches
  <2>2. CASE ~pendingIsCurrent
    BY <1>4, <1>7, <2>2 DEF Snapshot, Restore
  <2> QED
    BY <2>1, <2>2
<1>14. Top'.locals = loc
  BY <1>10, <1>12
<1> HIDE DEF fr, loc
<1>15. /\ defs' \subseteq Nat \X Nat
       /\ pendingIsCurrent' \in BOOLEAN
       /\ pc' \in {"block", "fatal"}
       /\ pc' = "block" => pendingIsCurrent' = FALSE
  <2>1. IF Defined(node.reslab)
        THEN pc' = "fatal" /\ UNCHANGED <<defs, pendingIsCurrent>>
        ELSE Label(node.reslab) /\ pendingIsCurrent' = FALSE /\ pc' = "block"
    BY DEF Pending
  <2>2. Label(node.reslab) => defs' \subseteq Nat \X Nat
    BY <1>7 DEF Label, TypeOK, Labels
  <2> QED
    BY <2>1, <2>2 DEF TypeOK
<1>16. TypeOK'
  BY <1>12, <1>15 DEF TypeOK, Pending
<1>17. FlagSound'
  BY <1>15 DEF FlagSound
<1> QED
  BY <1>4, <1>13, <1>14, <1>16, <1>17

LEMMA PopPendInv ==
  ASSUME Inv, PopPend
  PROVE  Inv'
<1> USE DEF Inv
<1>1. stack # <<>> /\ pc = "loop" /\ Top.pending = <<>>
  BY DEF PopPend, TypeOK
<1>2. PICK f \in Funs : Top \in FrameOf(f)
  BY <1>1, FrameType DEF TypeOK, Top
<1>3. Top.fun = f /\ Top.end \in Nat
  BY <1>2 DEF FrameOf, FrameWith
<1>4. stack' \in Seq(Frame)
  BY <1>1 DEF PopPend, TypeOK
<1>5. pendingIsCurrent' = FALSE
  BY <1>1 DEF PopPend, FlagSound, Matches, TypeOK
<1>6. /\ defs' \subseteq Nat \X Nat
      /\ curFun' \in Nat
      /\ pc' \in {"block", "done", "fatal"}
  <2>1. Top.prevCur \in Nat
    BY <1>2 DEF FrameOf, FrameWith
  <2> QED
    BY <1>3, <2>1 DEF PopPend, PopFun, Label, TypeOK
<1>7. TypeOK'
  BY <1>4, <1>5, <1>6 DEF TypeOK, PopPend
<1> QED
  BY <1>5, <1>7 DEF FlagSound

LEMMA NextInv ==
  ASSUME Inv, [Next]_vars
  PROVE  Inv'
<1> USE DEF Inv
<1>1. CASE \E f \in Funs : Call(f)
  BY <1>1, CallInv
<1>2. ASSUME NEW st \in Stores, NEW p \in Points, JumpGoto(p, st)
      PROVE  Inv'
  <2>1. InBlock
    BY <1>2 DEF JumpGoto
  <2>2. Now(st) \in Acc /\ AccSound(Now(st))
    BY <2>1, NowSound
  <2>3. Pendinsert(Now(st), p) \in Acc /\ AccSound(Pendinsert(Now(st), p))
    BY <2>2, PendinsertSound
  <2> QED
    BY <1>2, <2>1, <2>3, JumpInv DEF JumpGoto
<1>3. ASSUME NEW st \in Stores, NEW p \in Points, NEW q \in Points, JumpIf(p, q, st)
      PROVE  Inv'
  <2> DEFINE one == Pendinsert(Now(st), p)
             two == Pendinsert(one, q)
  <2>1. InBlock
    BY <1>3 DEF JumpIf
  <2>2. Now(st) \in Acc /\ AccSound(Now(st))
    BY <2>1, NowSound
  <2>3. one \in Acc /\ AccSound(one)
    BY <2>2, PendinsertSound
  <2>4. two \in Acc /\ AccSound(two)
    BY <2>3, PendinsertSound
  <2>5. /\ Inserted(two)
        /\ Refer(two.tags)
        /\ pc' = "loop"
        /\ UNCHANGED <<curFun, nextFun, defs, calls>>
    BY <1>3 DEF JumpIf
  <2> QED
    BY <2>1, <2>4, <2>5, JumpInv
<1>4. ASSUME NEW st \in Stores, JumpReturn(st)
      PROVE  Inv'
  BY <1>4, JumpReturnInv
<1>5. CASE Pending
  BY <1>5, PendingInv
<1>6. CASE PopPend
  BY <1>6, PopPendInv
<1>7. CASE UNCHANGED vars
  BY <1>7 DEF vars, TypeOK, FlagSound, Matches, Top
<1> QED
  BY <1>1, <1>2, <1>3, <1>4, <1>5, <1>6, <1>7 DEF Next

----------------------------------------------------------------------------
\* The variables of pending.c and of the label part of code.c always have
\* their types, whatever functions, memoization sets and values there are.
THEOREM TypeCorrect == Spec => []TypeOK
<1>1. Inv => TypeOK
  BY DEF Inv
<1> QED
  BY <1>1, InitInv, NextInv, PTL DEF Spec

\* The flag that lets cmixPending skip the restoring is sound: whenever it is
\* set, the locals hold the values of the point at the head of the list.
THEOREM FlagIsSound == Spec => []FlagSound
<1>1. Inv => FlagSound
  BY DEF Inv
<1> QED
  BY <1>1, InitInv, NextInv, PTL DEF Spec

\* Every block is specialized with exactly the values of the memoized locals
\* it was inserted with, in every program.
THEOREM BlocksResumeFaithfully == Spec => ResumeFaithful
<1> DEFINE Resume ==
      pc = "loop" /\ pc' = "block" /\ Len(stack') = Len(stack)
      => LET n == Head(Top.pending)
         IN  Snapshot(Top.fun, n.label, Top'.locals) = n.block
<1>1. Inv /\ [Next]_vars => [Resume]_vars
  <2> SUFFICES ASSUME Inv, Next, pc = "loop", pc' = "block",
                      Len(stack') = Len(stack)
               PROVE  LET n == Head(Top.pending)
                      IN  Snapshot(Top.fun, n.label, Top'.locals) = n.block
    OBVIOUS
  <2>1. Pending \/ PopPend
    BY DEF Next, Call, JumpGoto, JumpIf, JumpReturn, InBlock
  <2>2. ~PopPend
    BY DEF PopPend, Inv, TypeOK
  <2> QED
    BY <2>1, <2>2, PendingInv
<1> QED
  BY <1>1, InitInv, NextInv, PTL DEF Spec, ResumeFaithful

----------------------------------------------------------------------------
(***************************************************************************)
(* The labels.  An activation owns the labels of its memo lists and, when  *)
(* its function is unfolded, its end label; those that are still on the    *)
(* pending list, and the end label, are due: it has yet to emit them.      *)
(***************************************************************************)
Own(fr, lab) ==
  \/ \E n \in fr.memo : n.reslab = lab
  \/ Unfold[fr.fun] /\ fr.end = lab

Due(fr, lab) ==
  \/ \E k \in DOMAIN fr.pending : fr.pending[k].reslab = lab
  \/ Unfold[fr.fun] /\ fr.end = lab

\* Within one activation: every label has been made, the pending points are
\* memoized and have different labels, labels and configurations correspond.
MemoSound(fr, next) ==
  /\ \A n \in fr.memo : n.reslab < next
  /\ \A m, n \in fr.memo :
       (m.label = n.label /\ m.block = n.block) <=> (m.reslab = n.reslab)
  /\ \A k \in DOMAIN fr.pending : fr.pending[k] \in fr.memo
  /\ \A j, k \in DOMAIN fr.pending :
       fr.pending[j].reslab = fr.pending[k].reslab => j = k

EndSound(fr, next) ==
  Unfold[fr.fun] => fr.end < next /\ \A n \in fr.memo : n.reslab # fr.end

\* The residual function an activation emits its blocks in.
Acts == 1 .. Len(stack)

ResFun(i) == IF i = Len(stack) THEN curFun ELSE stack[i + 1].prevCur

FramesSound ==
  \A i \in Acts : MemoSound(stack[i], nextLabel) /\ EndSound(stack[i], nextLabel)

OwnersDiffer ==
  \A i, j \in Acts, lab \in Nat :
    Own(stack[i], lab) /\ Own(stack[j], lab) => i = j

DueIsUndefined ==
  \A i \in Acts, lab \in Nat : Due(stack[i], lab) => ~Defined(lab)

OwnIsAccountedFor ==
  \A i \in Acts, lab \in Nat :
    Own(stack[i], lab) => Defined(lab) \/ Due(stack[i], lab)

JumpsLeadSomewhere ==
  \A r \in refs : Defined(r[1]) \/ \E i \in Acts : Due(stack[i], r[1])

LabelsAreMade == \A e \in refs \cup defs : e[1] < nextLabel

LabelsInPlace ==
  \A i \in Acts : \A e \in refs \cup defs :
    Own(stack[i], e[1]) => e[2] = ResFun(i)

UnfoldedInCaller ==
  \A i \in Acts : Unfold[stack[i].fun] => ResFun(i) = stack[i].prevCur

LabelInv ==
  /\ FramesSound
  /\ OwnersDiffer
  /\ DueIsUndefined
  /\ OwnIsAccountedFor
  /\ JumpsLeadSomewhere
  /\ LabelsAreMade
  /\ LabelsInPlace
  /\ UnfoldedInCaller
  /\ JumpsStayInFunction
  /\ NeverMultiplyDefined

FrameSound(fr, next) == MemoSound(fr, next) /\ EndSound(fr, next)

\* fr2 is fr after insertions that made the labels next .. next2-1.
LabelsGrown(fr, next, fr2, next2) ==
  /\ next <= next2
  /\ fr2.fun = fr.fun /\ fr2.end = fr.end /\ fr2.prevCur = fr.prevCur
  /\ \A lab \in Nat :
       /\ Own(fr2, lab) <=> Own(fr, lab) \/ (next <= lab /\ lab < next2)
       /\ Due(fr2, lab) <=> Due(fr, lab) \/ (next <= lab /\ lab < next2)

\* A list with an element put in front of it.
LEMMA Prepended ==
  ASSUME NEW S, NEW list \in Seq(S), NEW x \in S
  PROVE  /\ DOMAIN (<<x>> \o list) = 1 .. Len(list) + 1
         /\ (<<x>> \o list)[1] = x
         /\ \A k \in DOMAIN list : (<<x>> \o list)[k + 1] = list[k]
         /\ DOMAIN list = 1 .. Len(list)
         /\ Len(list) \in Nat
<1> DEFINE longer == <<x>> \o list
<1>1. <<x>> \in Seq(S) /\ Len(<<x>>) = 1 /\ <<x>>[1] = x
  OBVIOUS
<1>2. DOMAIN list = 1 .. Len(list) /\ Len(list) \in Nat
  OBVIOUS
<1>3. /\ longer \in Seq(S)
      /\ Len(longer) = 1 + Len(list)
      /\ \A i \in 1 .. 1 + Len(list) :
           longer[i] = IF i <= 1 THEN <<x>>[i] ELSE list[i - 1]
  BY <1>1, ConcatProperties
<1> HIDE DEF longer
<1>4. DOMAIN longer = 1 .. Len(list) + 1
  BY <1>2, <1>3
<1>5. longer[1] = x
  BY <1>1, <1>2, <1>3
<1>6. ASSUME NEW k \in DOMAIN list
      PROVE  longer[k + 1] = list[k]
  BY <1>2, <1>3
<1> QED
  BY <1>2, <1>4, <1>5, <1>6 DEF longer

LEMMA GrowsTransitive ==
  ASSUME NEW fr, NEW fr2, NEW fr3, NEW next \in Nat, NEW next2 \in Nat, NEW next3 \in Nat,
         LabelsGrown(fr, next, fr2, next2), LabelsGrown(fr2, next2, fr3, next3)
  PROVE  LabelsGrown(fr, next, fr3, next3)
BY DEF LabelsGrown

\* cmixPendinsert makes at most one label, the activation owns it and has yet
\* to emit it, and every label it hands out is owned by the activation.
LEMMA PendinsertGrows ==
  ASSUME NEW acc \in Acc, NEW p \in Points, FrameSound(acc.fr, acc.next),
         \A t \in acc.tags : Own(acc.fr, t)
  PROVE  LET ins == Pendinsert(acc, p)
         IN  /\ LabelsGrown(acc.fr, acc.next, ins.fr, ins.next)
             /\ FrameSound(ins.fr, ins.next)
             /\ \A t \in ins.tags : Own(ins.fr, t)
<1> DEFINE fr == acc.fr
           known == Known(fr, p)
           node == NewNode(fr, p, acc.next)
           fr2 == [fr EXCEPT !.memo = @ \cup {node}, !.pending = Linked(node, @)]
           ins == Pendinsert(acc, p)
<1>1. PICK f \in Funs : fr \in FrameOf(f)
  BY FrameType DEF Acc
<1>2. acc.next \in Labels
  BY DEF Acc
<1>3. CASE known # {}
  <2>1. PICK n \in known : n = CHOOSE m \in known : TRUE
    BY <1>3
  <2>2. n \in fr.memo
    BY <2>1 DEF Known
  <2>3. Own(fr, n.reslab)
    BY <2>2 DEF Own
  <2>4. ins = [acc EXCEPT !.tags = @ \cup {n.reslab}]
    BY <1>3, <2>1 DEF Pendinsert, Found
  <2>5. ins.fr = fr /\ ins.next = acc.next /\ ins.tags = acc.tags \cup {n.reslab}
    BY <2>4 DEF Acc
  <2>6. LabelsGrown(fr, acc.next, fr, acc.next)
    BY <1>2 DEF LabelsGrown, Labels
  <2> QED
    BY <2>3, <2>5, <2>6
<1>4. CASE known = {}
  <2>1. ins = [fr |-> fr2, next |-> acc.next + 1, current |-> TRUE,
               tags |-> acc.tags \cup {acc.next}]
    BY <1>4 DEF Pendinsert, Found
  <2>2. /\ node.label = p
        /\ node.block = Snapshot(fr.fun, p, fr.locals)
        /\ node.reslab = acc.next
    BY DEF NewNode
  <2>3. \A n \in fr.memo : ~(n.label = node.label /\ n.block = node.block)
    BY <1>4, <2>2 DEF Known
  <2>4. /\ fr.pending \in Seq(NodeOf(f))
        /\ fr.memo \subseteq NodeOf(f)
        /\ fr.end \in Nat
        /\ fr.fun = f
    BY <1>1 DEF FrameOf, FrameWith
  <2>5. /\ \A n \in fr.memo : n.reslab \in Nat
        /\ \A k \in DOMAIN fr.pending : fr.pending[k].reslab \in Nat
    BY <2>4 DEF NodeOf, Node, Labels
  <2> DEFINE longer == <<node>> \o fr.pending
  <2>6. /\ DOMAIN longer = 1 .. Len(fr.pending) + 1
        /\ longer[1] = node
        /\ \A k \in DOMAIN fr.pending : longer[k + 1] = fr.pending[k]
        /\ DOMAIN fr.pending = 1 .. Len(fr.pending)
        /\ Len(fr.pending) \in Nat
    <3>1. node \in NodeOf(f)
      BY <1>1, <1>2, NewNodeType
    <3> HIDE DEF node, fr
    <3> QED
      BY <2>4, <3>1, Prepended
  <2>7. \A k \in DOMAIN longer :
           k = 1 \/ (k - 1 \in DOMAIN fr.pending /\ longer[k] = fr.pending[k - 1])
    BY <2>6
  <2>8. /\ fr2.memo = fr.memo \cup {node}
        /\ fr2.pending = longer
        /\ fr2.fun = fr.fun /\ fr2.end = fr.end /\ fr2.prevCur = fr.prevCur
        /\ fr2.locals = fr.locals
    BY <1>1 DEF FrameOf, FrameWith, Linked
  <2> HIDE DEF longer, fr2, node, ins, known, fr
  <2>9. ins.fr = fr2 /\ ins.next = acc.next + 1 /\ ins.tags = acc.tags \cup {acc.next}
    BY <2>1
  <2>10. \A n \in fr.memo : n.reslab < acc.next
    BY DEF FrameSound, MemoSound, fr
  <2>11. \A lab \in Nat :
           /\ Own(fr2, lab) <=> Own(fr, lab) \/ lab = acc.next
           /\ Due(fr2, lab) <=> Due(fr, lab) \/ lab = acc.next
    <3> SUFFICES ASSUME NEW lab \in Nat
                 PROVE  /\ Own(fr2, lab) <=> Own(fr, lab) \/ lab = acc.next
                        /\ Due(fr2, lab) <=> Due(fr, lab) \/ lab = acc.next
      OBVIOUS
    <3>1. Own(fr2, lab) <=> Own(fr, lab) \/ lab = acc.next
      BY <2>2, <2>8 DEF Own
    <3>2. (\E k \in DOMAIN longer : longer[k].reslab = lab)
            <=> (\E k \in DOMAIN fr.pending : fr.pending[k].reslab = lab) \/ lab = acc.next
      BY <2>2, <2>6, <2>7
    <3>3. Due(fr2, lab) <=> Due(fr, lab) \/ lab = acc.next
      BY <3>2, <2>8 DEF Due
    <3> QED
      BY <3>1, <3>3
  <2>12. LabelsGrown(fr, acc.next, fr2, acc.next + 1)
    BY <2>8, <2>11, <1>2 DEF LabelsGrown, Labels
  <2>13. MemoSound(fr2, acc.next + 1)
    <3>1. \A n \in fr2.memo : n.reslab < acc.next + 1
      BY <1>2, <2>2, <2>5, <2>8, <2>10 DEF Labels
    <3>2. \A m, n \in fr2.memo :
             (m.label = n.label /\ m.block = n.block) <=> (m.reslab = n.reslab)
      <4>1. \A m, n \in fr.memo :
             (m.label = n.label /\ m.block = n.block) <=> (m.reslab = n.reslab)
        BY DEF FrameSound, MemoSound, fr
      <4>2. \A n \in fr.memo : n.reslab # node.reslab
        BY <2>2, <2>5, <2>10, <1>2 DEF Labels
      <4> QED
        BY <4>1, <4>2, <2>3, <2>8
    <3>3. \A k \in DOMAIN fr.pending : fr.pending[k] \in fr.memo
      BY DEF FrameSound, MemoSound, fr
    <3>4. \A k \in DOMAIN longer : longer[k] \in fr2.memo
      BY <3>3, <2>6, <2>7, <2>8
    <3>5. \A j, k \in DOMAIN longer : longer[j].reslab = longer[k].reslab => j = k
      <4>1. \A j, k \in DOMAIN fr.pending :
              fr.pending[j].reslab = fr.pending[k].reslab => j = k
        BY DEF FrameSound, MemoSound, fr
      <4>2. \A k \in DOMAIN fr.pending : fr.pending[k].reslab # node.reslab
        BY <3>3, <2>2, <2>5, <2>10, <1>2 DEF Labels
      <4>3. SUFFICES ASSUME NEW j \in DOMAIN longer, NEW k \in DOMAIN longer,
                            longer[j].reslab = longer[k].reslab
                     PROVE  j = k
        OBVIOUS
      <4>4. CASE j = 1 \/ k = 1
        BY <4>2, <4>3, <4>4, <2>6, <2>7
      <4>5. CASE j # 1 /\ k # 1
        <5>1. /\ j - 1 \in DOMAIN fr.pending /\ longer[j] = fr.pending[j - 1]
              /\ k - 1 \in DOMAIN fr.pending /\ longer[k] = fr.pending[k - 1]
          BY <4>5, <2>7
        <5>2. j - 1 = k - 1
          BY <5>1, <4>1, <4>3
        <5> QED
          BY <5>2, <2>6
      <4> QED
        BY <4>4, <4>5
    <3> QED
      BY <3>1, <3>2, <3>4, <3>5, <2>8 DEF MemoSound
  <2>14. EndSound(fr2, acc.next + 1)
    <3>1. EndSound(fr, acc.next)
      BY DEF FrameSound, fr
    <3> QED
      BY <3>1, <2>2, <2>4, <2>8, <1>2 DEF EndSound, Labels
  <2>15. \A t \in acc.tags \cup {acc.next} : Own(fr2, t)
    <3>1. acc.tags \subseteq Nat /\ acc.next \in Nat
      BY DEF Acc, Labels
    <3>2. \A t \in acc.tags : Own(fr, t)
      BY DEF fr
    <3> QED
      BY <3>1, <3>2, <2>11
  <2> QED
    BY <2>9, <2>12, <2>13, <2>14, <2>15 DEF FrameSound, ins, fr
<1> QED
  BY <1>3, <1>4

\* A call or a jump: one activation gets the new labels, all of which are
\* due, and jumps to labels it owns are emitted in its residual function.
LEMMA LabelsGrow ==
  ASSUME TypeOK, LabelInv, NEW top \in Acts', NEW tags \in SUBSET Nat,
         nextLabel <= nextLabel', nextLabel' \in Nat,
         Acts \subseteq Acts',
         \A i \in Acts', lab \in Nat :
           /\ Own(stack'[i], lab) <=>
                \/ i \in Acts /\ Own(stack[i], lab)
                \/ i = top /\ nextLabel <= lab /\ lab < nextLabel'
           /\ Due(stack'[i], lab) <=>
                \/ i \in Acts /\ Due(stack[i], lab)
                \/ i = top /\ nextLabel <= lab /\ lab < nextLabel',
         \A i \in Acts : ResFun(i)' = ResFun(i),
         FramesSound',
         \A t \in tags : Own(stack'[top], t) /\ t < nextLabel',
         tags # {} => top \in Acts,
         refs' = refs \cup (tags \X {ResFun(top)}),
         defs' = defs, UnfoldedInCaller', pc' # "fatal"
  PROVE  LabelInv'
<1> USE DEF LabelInv
<1>1. nextLabel \in Nat /\ defs \subseteq Nat \X Nat /\ refs \subseteq Nat \X Nat
  BY DEF TypeOK, Labels
<1>2. \A lab : Defined(lab)' <=> Defined(lab)
  BY DEF Defined
<1>3. \A d \in defs : d[1] \in Nat /\ d[1] < nextLabel
  BY <1>1 DEF LabelsAreMade
<1>4. \A r \in refs : r[1] \in Nat /\ r[1] < nextLabel
  BY <1>1 DEF LabelsAreMade
<1>5. \A lab \in Nat : nextLabel <= lab => ~Defined(lab)
  BY <1>1, <1>3 DEF Defined
<1>6. \A i \in Acts, lab \in Nat : Own(stack[i], lab) => lab < nextLabel
  <2> SUFFICES ASSUME NEW i \in Acts, NEW lab \in Nat, Own(stack[i], lab)
               PROVE  lab < nextLabel
    OBVIOUS
  <2>1. MemoSound(stack[i], nextLabel) /\ EndSound(stack[i], nextLabel)
    BY DEF FramesSound
  <2> QED
    BY <2>1 DEF MemoSound, EndSound, Own
<1>7. \A r \in refs' : r \in refs \/ (r[1] \in tags /\ r[2] = ResFun(top) /\ top \in Acts)
  OBVIOUS
<1>8. OwnersDiffer'
  <2> SUFFICES ASSUME NEW i \in Acts', NEW j \in Acts', NEW lab \in Nat,
                      Own(stack'[i], lab), Own(stack'[j], lab)
               PROVE  i = j
    BY DEF OwnersDiffer
  <2>1. /\ \/ i \in Acts /\ Own(stack[i], lab)
           \/ i = top /\ nextLabel <= lab
        /\ \/ j \in Acts /\ Own(stack[j], lab)
           \/ j = top /\ nextLabel <= lab
    OBVIOUS
  <2>2. ~(lab < nextLabel /\ nextLabel <= lab)
    BY <1>1
  <2> QED
    BY <2>1, <2>2, <1>6 DEF OwnersDiffer
<1>9. DueIsUndefined'
  BY <1>2, <1>5 DEF DueIsUndefined
<1>10. OwnIsAccountedFor'
  BY <1>2 DEF OwnIsAccountedFor
<1>11. JumpsLeadSomewhere'
  <2> SUFFICES ASSUME NEW r \in refs'
               PROVE  Defined(r[1]) \/ \E i \in Acts' : Due(stack'[i], r[1])
    BY <1>2 DEF JumpsLeadSomewhere
  <2>1. CASE r \in refs
    BY <2>1, <1>4 DEF JumpsLeadSomewhere
  <2>2. CASE r \notin refs
    BY <2>2, <1>2, <1>7, <1>10 DEF OwnIsAccountedFor
  <2> QED
    BY <2>1, <2>2
<1>12. LabelsAreMade'
  <2> SUFFICES ASSUME NEW e \in refs' \cup defs'
               PROVE  e[1] < nextLabel'
    BY DEF LabelsAreMade
  <2>1. CASE e \in refs \cup defs
    <3>1. e[1] < nextLabel
      BY <2>1 DEF LabelsAreMade
    <3>2. e[1] \in Nat
      BY <1>3, <1>4, <2>1
    <3> QED
      BY <1>1, <3>1, <3>2
  <2>2. CASE e \notin refs \cup defs
    BY <1>1, <1>3, <1>7, <2>2
  <2> QED
    BY <2>1, <2>2
<1>13. LabelsInPlace'
  <2> SUFFICES ASSUME NEW i \in Acts', NEW e \in refs' \cup defs', Own(stack'[i], e[1])
               PROVE  e[2] = ResFun(i)'
    BY DEF LabelsInPlace
  <2>1. CASE e \in refs \cup defs
    <3>1. e[1] \in Nat /\ ~(nextLabel <= e[1])
      BY <2>1, <1>1, <1>3, <1>4
    <3>2. i \in Acts /\ Own(stack[i], e[1])
      BY <3>1
    <3> QED
      BY <2>1, <3>2 DEF LabelsInPlace
  <2>2. CASE e \notin refs \cup defs
    <3>1. e[1] \in tags /\ e[2] = ResFun(top) /\ top \in Acts
      BY <2>2, <1>7
    <3>2. i = top
      BY <3>1, <1>8 DEF OwnersDiffer
    <3> QED
      BY <3>1, <3>2
  <2> QED
    BY <2>1, <2>2
<1>14. JumpsStayInFunction'
  <2> SUFFICES ASSUME NEW r \in refs', NEW d \in defs, r[1] = d[1]
               PROVE  r[2] = d[2]
    BY DEF JumpsStayInFunction
  <2>1. CASE r \in refs
    BY <2>1 DEF JumpsStayInFunction
  <2>2. CASE r \notin refs
    <3>1. r[1] \in tags /\ r[2] = ResFun(top) /\ top \in Acts
      BY <2>2, <1>7
    <3>2. Own(stack[top], d[1])
      BY <3>1, <1>3, <1>1
    <3> QED
      BY <3>1, <3>2 DEF LabelsInPlace
  <2> QED
    BY <2>1, <2>2
<1>15. NeverMultiplyDefined'
  BY DEF NeverMultiplyDefined
<1> QED
  BY <1>8, <1>9, <1>10, <1>11, <1>12, <1>13, <1>14, <1>15

\* Jumps put a frame with more labels in the place of the innermost one.
LEMMA JumpLabels ==
  ASSUME TypeOK, LabelInv, stack # <<>>, NEW fr \in Frame, NEW tags \in SUBSET Nat,
         stack' = WithTop(fr), nextLabel' \in Labels,
         LabelsGrown(Top, nextLabel, fr, nextLabel'), FrameSound(fr, nextLabel'),
         \A t \in tags : Own(fr, t),
         Refer(tags), UNCHANGED <<curFun, defs>>, pc' = "loop"
  PROVE  LabelInv'
<1> DEFINE L == Len(stack)
<1>1. /\ stack \in Seq(Frame)
      /\ L \in Acts /\ Acts' = Acts /\ L \in Nat
      /\ Len(stack') = L
      /\ stack'[L] = fr
      /\ \A i \in Acts : i # L => stack'[i] = stack[i]
      /\ Top = stack[L]
      /\ nextLabel \in Nat /\ nextLabel' \in Nat /\ nextLabel <= nextLabel'
  BY DEF TypeOK, WithTop, Top, Acts, LabelsGrown, Labels
<1> HIDE DEF L
<1>2. \A i \in Acts', lab \in Nat :
        /\ Own(stack'[i], lab) <=>
             \/ i \in Acts /\ Own(stack[i], lab)
             \/ i = L /\ nextLabel <= lab /\ lab < nextLabel'
        /\ Due(stack'[i], lab) <=>
             \/ i \in Acts /\ Due(stack[i], lab)
             \/ i = L /\ nextLabel <= lab /\ lab < nextLabel'
  BY <1>1 DEF LabelsGrown
<1>3. \A i \in Acts : ResFun(i)' = ResFun(i)
  <2> SUFFICES ASSUME NEW i \in Acts
               PROVE  ResFun(i)' = ResFun(i)
    OBVIOUS
  <2>1. CASE i = L
    BY <2>1, <1>1 DEF ResFun, L
  <2>2. CASE i # L
    <3>1. i + 1 \in Acts
      BY <2>2, <1>1 DEF Acts, L
    <3>2. stack'[i + 1].prevCur = stack[i + 1].prevCur
      BY <3>1, <1>1 DEF LabelsGrown
    <3> QED
      BY <2>2, <3>2, <1>1 DEF ResFun, L
  <2> QED
    BY <2>1, <2>2
<1>4. FramesSound'
  <2> SUFFICES ASSUME NEW i \in Acts
               PROVE  FrameSound(stack'[i], nextLabel')
    BY <1>1 DEF FramesSound, FrameSound
  <2>1. CASE i = L
    BY <2>1, <1>1
  <2>2. CASE i # L
    <3>1. FrameSound(stack[i], nextLabel) /\ stack'[i] = stack[i]
      BY <2>2, <1>1 DEF LabelInv, FramesSound, FrameSound
    <3>2. stack[i] \in Frame
      BY <1>1 DEF Acts, L
    <3>3. PICK f \in Funs : stack[i] \in FrameOf(f)
      BY <3>2, FrameType
    <3>4. stack[i].end \in Nat /\ \A n \in stack[i].memo : n.reslab \in Nat
      BY <3>3 DEF FrameOf, FrameWith, NodeOf, Node, Labels
    <3> QED
      BY <3>1, <3>4, <1>1 DEF FrameSound, MemoSound, EndSound
  <2> QED
    BY <2>1, <2>2
<1>5. refs' = refs \cup (tags \X {ResFun(L)})
  BY DEF Refer, ResFun, L
<1>6. UnfoldedInCaller'
  BY <1>1, <1>3 DEF LabelInv, UnfoldedInCaller, LabelsGrown
<1>7. \A t \in tags : Own(stack'[L], t) /\ t < nextLabel'
  <2> SUFFICES ASSUME NEW t \in tags
               PROVE  t < nextLabel'
    BY <1>1
  <2>1. Own(fr, t)
    OBVIOUS
  <2> QED
    BY <2>1 DEF Own, FrameSound, MemoSound, EndSound
<1> QED
  BY <1>1, <1>2, <1>3, <1>4, <1>5, <1>6, <1>7, LabelsGrow

LEMMA CallLabels ==
  ASSUME Inv, LabelInv, NEW f \in Funs, Call(f)
  PROVE  LabelInv'
<1> DEFINE fr == [fun |-> f, memo |-> {}, pending |-> <<>>,
                  locals |-> [o \in Objs |-> InitVal],
                  end |-> IF Unfold[f] THEN nextLabel ELSE 0, prevCur |-> curFun]
           acc == [fr |-> fr, next |-> nextLabel + (IF Unfold[f] THEN 1 ELSE 0),
                   current |-> pendingIsCurrent, tags |-> {}]
           ins == IF First[f] = 0 THEN acc ELSE Pendinsert(acc, First[f])
           top == Len(stack) + 1
<1>1. /\ stack' = Append(stack, ins.fr)
      /\ nextLabel' = ins.next
      /\ pc' \in {"block", "loop"}
      /\ UNCHANGED <<defs, refs>>
      /\ Unfold[f] => curFun' = curFun
  BY DEF Call
<1>2. acc \in Acc
  <2>1. fr \in FrameOf(f)
    BY ValsAssumption DEF FrameOf, FrameWith, Stores, Inv, TypeOK, Labels
  <2>2. fr \in Frame
    BY <2>1, FrameType
  <2>3. nextLabel + (IF Unfold[f] THEN 1 ELSE 0) \in Labels
    BY DEF Inv, TypeOK, Labels
  <2> QED
    BY <2>2, <2>3 DEF Acc, Inv, TypeOK
<1>3. nextLabel \in Nat /\ acc.next \in Nat /\ nextLabel <= acc.next
  BY DEF Inv, TypeOK, Labels
<1>4. FrameSound(fr, acc.next)
  BY <1>3 DEF FrameSound, MemoSound, EndSound
<1>5. \A lab \in Nat :
        /\ Own(fr, lab) <=> nextLabel <= lab /\ lab < acc.next
        /\ Due(fr, lab) <=> nextLabel <= lab /\ lab < acc.next
  BY <1>3 DEF Own, Due
<1>6. fr.fun = f /\ fr.prevCur = curFun
  OBVIOUS
<1>7. acc.fr = fr /\ acc.tags = {}
  OBVIOUS
<1> HIDE DEF fr, acc
<1>8. /\ ins \in Acc
      /\ LabelsGrown(fr, acc.next, ins.fr, ins.next)
      /\ FrameSound(ins.fr, ins.next)
  <2>1. CASE First[f] = 0
    BY <2>1, <1>2, <1>3, <1>4, <1>7 DEF LabelsGrown
  <2>2. CASE First[f] # 0
    <3>1. First[f] \in Points
      BY <2>2, FirstAssumption
    <3> QED
      BY <2>2, <3>1, <1>2, <1>4, <1>7, PendinsertSound, PendinsertGrows
  <2> QED
    BY <2>1, <2>2
<1> HIDE DEF ins
<1>9. ins.next \in Nat /\ ins.fr \in Frame
  BY <1>8 DEF Acc, Labels
<1>10. /\ stack \in Seq(Frame)
       /\ Acts' = Acts \cup {top} /\ top \notin Acts /\ top \in Acts'
       /\ \A i \in Acts : stack'[i] = stack[i]
       /\ stack'[top] = ins.fr
       /\ Len(stack') = top
  BY <1>1, <1>9 DEF Inv, TypeOK, Acts
<1>11. \A lab \in Nat :
         /\ Own(ins.fr, lab) <=> nextLabel <= lab /\ lab < nextLabel'
         /\ Due(ins.fr, lab) <=> nextLabel <= lab /\ lab < nextLabel'
  <2> SUFFICES ASSUME NEW lab \in Nat
               PROVE  /\ Own(ins.fr, lab) <=> nextLabel <= lab /\ lab < ins.next
                      /\ Due(ins.fr, lab) <=> nextLabel <= lab /\ lab < ins.next
    BY <1>1
  <2>1. /\ Own(ins.fr, lab) <=> Own(fr, lab) \/ (acc.next <= lab /\ lab < ins.next)
        /\ Due(ins.fr, lab) <=> Due(fr, lab) \/ (acc.next <= lab /\ lab < ins.next)
    BY <1>8 DEF LabelsGrown
  <2>2. acc.next <= ins.next
    BY <1>8 DEF LabelsGrown
  <2>3. (nextLabel <= lab /\ lab < acc.next) \/ (acc.next <= lab /\ lab < ins.next)
          <=> nextLabel <= lab /\ lab < ins.next
    BY <1>3, <1>9, <2>2
  <2> QED
    BY <1>5, <2>1, <2>3
<1>12. nextLabel' \in Nat /\ nextLabel <= nextLabel'
  BY <1>1, <1>3, <1>8, <1>9 DEF LabelsGrown
<1>13. \A i \in Acts : ResFun(i)' = ResFun(i)
  <2> SUFFICES ASSUME NEW i \in Acts
               PROVE  ResFun(i)' = ResFun(i)
    OBVIOUS
  <2>1. i # Len(stack')
    BY <1>10
  <2>2. ins.fr.prevCur = curFun
    BY <1>6, <1>8 DEF LabelsGrown
  <2>3. CASE i = Len(stack)
    BY <2>1, <2>2, <2>3, <1>10 DEF ResFun
  <2>4. CASE i # Len(stack)
    <3>1. i + 1 \in Acts
      BY <2>4, <1>10 DEF Acts
    <3> QED
      BY <2>1, <2>4, <3>1, <1>10 DEF ResFun
  <2> QED
    BY <2>3, <2>4
<1>14. FramesSound'
  <2> SUFFICES ASSUME NEW i \in Acts'
               PROVE  FrameSound(stack'[i], nextLabel')
    BY DEF FramesSound, FrameSound
  <2>1. CASE i = top
    BY <2>1, <1>1, <1>8, <1>10
  <2>2. CASE i # top
    <3>1. i \in Acts
      BY <2>2, <1>10
    <3>2. FrameSound(stack[i], nextLabel) /\ stack'[i] = stack[i] /\ stack[i] \in Frame
      BY <3>1, <1>10 DEF LabelInv, FramesSound, FrameSound, Acts
    <3>3. PICK h \in Funs : stack[i] \in FrameOf(h)
      BY <3>2, FrameType
    <3>4. stack[i].end \in Nat /\ \A n \in stack[i].memo : n.reslab \in Nat
      BY <3>3 DEF FrameOf, FrameWith, NodeOf, Node, Labels
    <3> QED
      BY <3>2, <3>4, <1>3, <1>12 DEF FrameSound, MemoSound, EndSound
  <2> QED
    BY <2>1, <2>2
<1>15. UnfoldedInCaller'
  <2> SUFFICES ASSUME NEW i \in Acts', Unfold[stack'[i].fun]
               PROVE  ResFun(i)' = stack'[i].prevCur
    BY DEF UnfoldedInCaller
  <2>1. CASE i = top
    <3>1. stack'[i].fun = f /\ stack'[i].prevCur = curFun
      BY <2>1, <1>6, <1>8, <1>10 DEF LabelsGrown
    <3> QED
      BY <2>1, <3>1, <1>1, <1>10 DEF ResFun
  <2>2. CASE i # top
    BY <2>2, <1>10, <1>13 DEF LabelInv, UnfoldedInCaller
  <2> QED
    BY <2>1, <2>2
<1>16. \A i \in Acts', lab \in Nat :
         /\ Own(stack'[i], lab) <=>
              \/ i \in Acts /\ Own(stack[i], lab)
              \/ i = top /\ nextLabel <= lab /\ lab < nextLabel'
         /\ Due(stack'[i], lab) <=>
              \/ i \in Acts /\ Due(stack[i], lab)
              \/ i = top /\ nextLabel <= lab /\ lab < nextLabel'
  BY <1>10, <1>11
<1> DEFINE tags == {}
<1>17. /\ tags \in SUBSET Nat
       /\ \A t \in tags : Own(stack'[top], t) /\ t < nextLabel'
       /\ tags # {} => top \in Acts
       /\ refs' = refs \cup (tags \X {ResFun(top)})
       /\ defs' = defs /\ pc' # "fatal"
  BY <1>1
<1>18. top \in Acts' /\ Acts \subseteq Acts' /\ TypeOK
  BY <1>10 DEF Inv
<1> HIDE DEF top, tags
<1> QED
  BY <1>12, <1>13, <1>14, <1>15, <1>16, <1>17, <1>18, LabelsGrow

\* What the innermost activation has when a jump or the loop is reached.
LEMMA TopLabels ==
  ASSUME TypeOK, LabelInv, stack # <<>>
  PROVE  /\ Top \in Frame
         /\ FrameSound(Top, nextLabel)
         /\ \E f \in Funs : Top \in FrameOf(f)
<1>1. Len(stack) \in Acts /\ Top = stack[Len(stack)] /\ Top \in Frame
  BY DEF TypeOK, Acts, Top
<1> QED
  BY <1>1, FrameType DEF LabelInv, FramesSound, FrameSound

\* The locals, which the static statements of a block change, have no part in
\* what is said of labels.
LEMMA NowLabels ==
  ASSUME Inv, LabelInv, InBlock, NEW st \in Stores
  PROVE  /\ LabelsGrown(Top, nextLabel, Now(st).fr, nextLabel)
         /\ FrameSound(Now(st).fr, Now(st).next)
         /\ Now(st).next = nextLabel
         /\ \A t \in Now(st).tags : Own(Now(st).fr, t)
<1> DEFINE fr == [Top EXCEPT !.locals = st]
<1>1. FrameSound(Top, nextLabel)
  BY TopLabels DEF Inv, InBlock
<1>2. PICK f \in Funs : Top \in FrameOf(f)
  BY TopLabels DEF Inv, InBlock
<1>3. /\ fr.memo = Top.memo /\ fr.pending = Top.pending /\ fr.fun = Top.fun
      /\ fr.end = Top.end /\ fr.prevCur = Top.prevCur
  BY <1>2 DEF FrameOf, FrameWith
<1>4. Now(st).fr = fr /\ Now(st).next = nextLabel /\ Now(st).tags = {}
  BY DEF Now
<1> HIDE DEF fr
<1>5. nextLabel \in Nat
  BY DEF Inv, TypeOK, Labels
<1>6. FrameSound(fr, nextLabel)
  BY <1>1, <1>3 DEF FrameSound, MemoSound, EndSound
<1>7. LabelsGrown(Top, nextLabel, fr, nextLabel)
  BY <1>3, <1>5 DEF LabelsGrown, Own, Due
<1> QED
  BY <1>4, <1>6, <1>7

LEMMA JumpReturnLabels ==
  ASSUME Inv, LabelInv, NEW st \in Stores, JumpReturn(st)
  PROVE  LabelInv'
<1> DEFINE fr   == [Top EXCEPT !.locals = st]
           tags == IF Unfold[Top.fun] THEN {Top.end} ELSE {}
<1>1. /\ InBlock /\ stack # <<>> /\ TypeOK
      /\ stack' = WithTop(fr)
      /\ nextLabel' = nextLabel /\ nextLabel \in Labels
      /\ UNCHANGED <<curFun, defs>> /\ pc' = "loop"
  BY DEF JumpReturn, InBlock, Inv, TypeOK
<1>2. Now(st).fr = fr /\ Now(st).next = nextLabel
  BY DEF Now
<1>3. fr \in Frame /\ LabelsGrown(Top, nextLabel, fr, nextLabel) /\ FrameSound(fr, nextLabel)
  <2>1. Now(st) \in Acc
    BY <1>1, NowSound DEF Inv
  <2> QED
    BY <1>1, <1>2, <2>1, NowLabels DEF Acc
<1>4. Refer(tags)
  BY DEF JumpReturn, Refer
<1>5. tags \in SUBSET Nat
  <2>1. PICK f \in Funs : Top \in FrameOf(f)
    BY <1>1, TopLabels
  <2> QED
    BY <2>1 DEF FrameOf, FrameWith
<1> HIDE DEF fr
<1>6. \A t \in tags : Own(fr, t)
  BY <1>3 DEF Own, LabelsGrown
<1> HIDE DEF tags
<1> QED
  BY <1>1, <1>3, <1>4, <1>5, <1>6, JumpLabels

\* A label that is due is emitted: the activation that has it due is the only
\* one that owns it, and emits it in its residual function.
LEMMA LabelEmitted ==
  ASSUME TypeOK, LabelInv, NEW lab \in Nat, NEW i \in Acts,
         Own(stack[i], lab), ResFun(i) = curFun, Label(lab), refs' = refs
  PROVE  /\ \A l \in Nat : Defined(l)' <=> Defined(l) \/ l = lab
         /\ JumpsStayInFunction'
         /\ nextLabel' = nextLabel => LabelsAreMade'
         /\ \A j \in Acts : \A e \in refs' \cup defs' :
              Own(stack[j], e[1]) => e[2] = ResFun(j)
<1>1. defs' = defs \cup {<<lab, curFun>>}
  BY DEF Label
<1>2. ASSUME NEW l \in Nat
      PROVE  Defined(l)' <=> Defined(l) \/ l = lab
  <2>1. Defined(l)' <=> \E d \in defs' : d[1] = l
    BY DEF Defined
  <2>2. Defined(l) <=> \E d \in defs : d[1] = l
    BY DEF Defined
  <2>3. <<lab, curFun>>[1] = lab
    OBVIOUS
  <2> QED
    BY <1>1, <2>1, <2>2, <2>3
<1>3. \A r \in refs : r[1] = lab => r[2] = curFun
  BY DEF LabelInv, LabelsInPlace
<1>4. JumpsStayInFunction'
  BY <1>1, <1>3 DEF LabelInv, JumpsStayInFunction
<1>5. lab < nextLabel
  <2>1. MemoSound(stack[i], nextLabel) /\ EndSound(stack[i], nextLabel)
    BY DEF LabelInv, FramesSound
  <2> QED
    BY <2>1 DEF MemoSound, EndSound, Own
<1>6. nextLabel' = nextLabel => LabelsAreMade'
  BY <1>1, <1>5 DEF LabelInv, LabelsAreMade
<1>7. ASSUME NEW j \in Acts, NEW e \in refs' \cup defs', Own(stack[j], e[1])
      PROVE  e[2] = ResFun(j)
  <2>1. CASE e \in refs \cup defs
    BY <2>1, <1>7 DEF LabelInv, LabelsInPlace
  <2>2. CASE e \notin refs \cup defs
    <3>1. e = <<lab, curFun>>
      BY <2>2, <1>1
    <3>2. j = i
      BY <3>1, <1>7 DEF LabelInv, OwnersDiffer
    <3> QED
      BY <3>1, <3>2
  <2> QED
    BY <2>1, <2>2
<1> QED
  BY <1>2, <1>4, <1>6, <1>7 DEF LabelInv

LEMMA PendingLabels ==
  ASSUME Inv, LabelInv, Pending
  PROVE  LabelInv'
<1> DEFINE L    == Len(stack)
           node == Head(Top.pending)
           loc  == IF pendingIsCurrent THEN Top.locals ELSE Restore(Top.locals, node)
           fr   == [Top EXCEPT !.pending = Popped(@), !.locals = loc]
           lab  == node.reslab
           rest == Tail(Top.pending)
<1>1. /\ TypeOK /\ stack # <<>> /\ stack \in Seq(Frame)
      /\ L \in Acts /\ L \in Nat /\ Top = stack[L]
      /\ Top.pending # <<>> /\ stack' = WithTop(fr)
      /\ UNCHANGED <<nextLabel, curFun, refs>>
  BY DEF Pending, Inv, TypeOK, Acts, Top
<1>2. PICK f \in Funs : Top \in FrameOf(f)
  BY <1>1, TopLabels
<1>3. /\ Top.pending \in Seq(NodeOf(f))
      /\ \A n \in Top.memo : n.reslab \in Nat
      /\ Top.end \in Nat
  BY <1>2 DEF FrameOf, FrameWith, NodeOf, Node, Labels
<1>4. /\ 1 \in DOMAIN Top.pending /\ node = Top.pending[1]
      /\ DOMAIN rest = 1 .. Len(Top.pending) - 1
      /\ DOMAIN Top.pending = 1 .. Len(Top.pending) /\ Len(Top.pending) \in Nat
      /\ \A k \in DOMAIN rest : rest[k] = Top.pending[k + 1]
  BY <1>1, <1>3
<1>5. /\ fr.memo = Top.memo /\ fr.fun = Top.fun /\ fr.end = Top.end
      /\ fr.prevCur = Top.prevCur /\ fr.pending = rest
  BY <1>2 DEF FrameOf, FrameWith, Popped
<1> HIDE DEF fr, loc, node, rest
<1>6. /\ Acts' = Acts /\ Len(stack') = L /\ stack'[L] = fr
      /\ \A i \in Acts : i # L => stack'[i] = stack[i]
  BY <1>1 DEF WithTop, Acts
<1> HIDE DEF L
<1>7. MemoSound(Top, nextLabel) /\ EndSound(Top, nextLabel)
  BY <1>1, TopLabels DEF FrameSound
<1>8. lab \in Nat /\ Own(Top, lab) /\ Due(Top, lab)
  BY <1>3, <1>4, <1>7 DEF MemoSound, Own, Due
<1>9. ~Defined(lab)
  BY <1>1, <1>8 DEF LabelInv, DueIsUndefined
<1>10. Label(lab) /\ pc' = "block"
  BY <1>9 DEF Pending, node
<1>11. ResFun(L) = curFun
  BY DEF ResFun, L
<1>12. /\ \A l \in Nat : Defined(l)' <=> Defined(l) \/ l = lab
       /\ JumpsStayInFunction'
       /\ LabelsAreMade'
       /\ \A j \in Acts : \A e \in refs' \cup defs' :
            Own(stack[j], e[1]) => e[2] = ResFun(j)
  BY <1>1, <1>8, <1>10, <1>11, LabelEmitted
<1>13. \A k \in DOMAIN fr.pending :
         k + 1 \in DOMAIN Top.pending /\ fr.pending[k] = Top.pending[k + 1] /\ k + 1 # 1
  BY <1>4, <1>5
<1>14. \A l \in Nat :
         /\ Own(fr, l) <=> Own(Top, l)
         /\ Due(fr, l) <=> Due(Top, l) /\ l # lab
  <2> SUFFICES ASSUME NEW l \in Nat
               PROVE  Due(fr, l) <=> Due(Top, l) /\ l # lab
    BY <1>5 DEF Own
  <2>1. \A k \in DOMAIN Top.pending : k # 1 => Top.pending[k].reslab # lab
    BY <1>4, <1>7 DEF MemoSound
  <2>2. Unfold[Top.fun] => Top.end # lab
    BY <1>4, <1>7 DEF MemoSound, EndSound
  <2>3. ASSUME Due(fr, l)
        PROVE  Due(Top, l) /\ l # lab
    BY <2>1, <2>2, <2>3, <1>5, <1>13 DEF Due
  <2>4. ASSUME Due(Top, l), l # lab
        PROVE  Due(fr, l)
    <3>1. CASE Unfold[Top.fun] /\ Top.end = l
      BY <3>1, <1>5 DEF Due
    <3>2. CASE \E k \in DOMAIN Top.pending : Top.pending[k].reslab = l
      <4>1. PICK k \in DOMAIN Top.pending : Top.pending[k].reslab = l
        BY <3>2
      <4>2. k # 1
        BY <2>4, <4>1, <1>4
      <4>3. k - 1 \in DOMAIN fr.pending /\ (k - 1) + 1 = k
        BY <4>2, <1>4, <1>5
      <4>4. fr.pending[k - 1].reslab = l
        BY <4>1, <4>3, <1>13
      <4> QED
        BY <4>3, <4>4 DEF Due
    <3> QED
      BY <2>4, <3>1, <3>2 DEF Due
  <2> QED
    BY <2>3, <2>4
<1>15. \A i \in Acts, l \in Nat :
         /\ Own(stack'[i], l) <=> Own(stack[i], l)
         /\ Due(stack'[i], l) <=> Due(stack[i], l) /\ l # lab
  <2> SUFFICES ASSUME NEW i \in Acts, NEW l \in Nat
               PROVE  /\ Own(stack'[i], l) <=> Own(stack[i], l)
                      /\ Due(stack'[i], l) <=> Due(stack[i], l) /\ l # lab
    OBVIOUS
  <2>1. CASE i = L
    BY <2>1, <1>1, <1>6, <1>14
  <2>2. CASE i # L
    <3>1. ~Own(stack[i], lab)
      BY <2>2, <1>1, <1>8 DEF LabelInv, OwnersDiffer
    <3>2. MemoSound(stack[i], nextLabel)
      BY DEF LabelInv, FramesSound
    <3>3. ~Due(stack[i], lab)
      BY <3>1, <3>2 DEF MemoSound, Own, Due
    <3> QED
      BY <2>2, <3>3, <1>6
  <2> QED
    BY <2>1, <2>2
<1>16. \A i \in Acts : ResFun(i)' = ResFun(i)
  <2> SUFFICES ASSUME NEW i \in Acts
               PROVE  ResFun(i)' = ResFun(i)
    OBVIOUS
  <2>1. CASE i = L
    BY <2>1, <1>1, <1>6 DEF ResFun, L
  <2>2. CASE i # L
    <3>1. i + 1 \in Acts
      BY <2>2, <1>1 DEF Acts, L
    <3>2. stack'[i + 1].prevCur = stack[i + 1].prevCur
      BY <3>1, <1>1, <1>5, <1>6
    <3> QED
      BY <2>2, <3>2, <1>1, <1>6 DEF ResFun, L
  <2> QED
    BY <2>1, <2>2
<1>17. FramesSound'
  <2>1. MemoSound(fr, nextLabel) /\ EndSound(fr, nextLabel)
    <3>1. \A j, k \in DOMAIN fr.pending :
            fr.pending[j].reslab = fr.pending[k].reslab => j = k
      <4> SUFFICES ASSUME NEW j \in DOMAIN fr.pending, NEW k \in DOMAIN fr.pending,
                          fr.pending[j].reslab = fr.pending[k].reslab
                   PROVE  j = k
        OBVIOUS
      <4>1. j + 1 = k + 1
        BY <1>7, <1>13 DEF MemoSound
      <4>2. j \in Nat /\ k \in Nat
        BY <1>4, <1>5
      <4> QED
        BY <4>1, <4>2
    <3> QED
      BY <3>1, <1>5, <1>7, <1>13 DEF MemoSound, EndSound
  <2>2. \A i \in Acts : MemoSound(stack'[i], nextLabel) /\ EndSound(stack'[i], nextLabel)
    BY <2>1, <1>6 DEF LabelInv, FramesSound
  <2> QED
    BY <2>2, <1>1, <1>6 DEF FramesSound
<1>18. OwnersDiffer'
  BY <1>6, <1>15 DEF LabelInv, OwnersDiffer
<1>19. DueIsUndefined'
  BY <1>6, <1>12, <1>15 DEF LabelInv, DueIsUndefined
<1>20. OwnIsAccountedFor'
  BY <1>6, <1>12, <1>15 DEF LabelInv, OwnIsAccountedFor
<1>21. JumpsLeadSomewhere'
  <2>1. \A r \in refs : r[1] \in Nat
    BY <1>1 DEF TypeOK
  <2> QED
    BY <2>1, <1>1, <1>6, <1>12, <1>15 DEF LabelInv, JumpsLeadSomewhere
<1>22. LabelsInPlace'
  <2>1. \A e \in refs' \cup defs' : e[1] \in Nat
    BY <1>1, <1>8, <1>10 DEF TypeOK, Label
  <2> QED
    BY <2>1, <1>6, <1>12, <1>15, <1>16 DEF LabelsInPlace
<1>23. UnfoldedInCaller'
  BY <1>1, <1>5, <1>6, <1>16 DEF LabelInv, UnfoldedInCaller
<1>24. NeverMultiplyDefined'
  BY <1>10 DEF NeverMultiplyDefined
<1> QED
  BY <1>12, <1>17, <1>18, <1>19, <1>20, <1>21, <1>22, <1>23, <1>24 DEF LabelInv

LEMMA PopPendLabels ==
  ASSUME Inv, LabelInv, PopPend
  PROVE  LabelInv'
<1> DEFINE L == Len(stack)
<1>1. /\ TypeOK /\ stack # <<>> /\ stack \in Seq(Frame)
      /\ L \in Acts /\ L \in Nat /\ Top = stack[L]
      /\ Top.pending = <<>>
      /\ stack' = SubSeq(stack, 1, L - 1)
      /\ UNCHANGED <<nextLabel, refs>>
  BY DEF PopPend, Inv, TypeOK, Acts, Top
<1>2. PICK f \in Funs : Top \in FrameOf(f)
  BY <1>1, TopLabels
<1>3. /\ Acts' = Acts \ {L} /\ Len(stack') = L - 1
      /\ \A i \in Acts' : stack'[i] = stack[i]
  <2>1. \A i \in 1 .. L - 1 : stack[i] \in Frame
    BY <1>1
  <2>2. /\ Len(stack') = IF 1 <= L - 1 THEN (L - 1) - 1 + 1 ELSE 0
        /\ \A i \in 1 .. (L - 1) - 1 + 1 : stack'[i] = stack[1 + i - 1]
    <3> HIDE DEF L
    <3> QED
      BY <1>1, <2>1, SubSeqProperties
  <2>3. L \in Nat \ {0}
    BY <1>1
  <2> HIDE DEF L
  <2>4. Len(stack') = L - 1
    BY <2>2, <2>3
  <2>5. \A i \in 1 .. L - 1 : stack'[i] = stack[i]
    BY <2>2, <2>3
  <2>6. Acts' = 1 .. L - 1 /\ Acts = 1 .. L
    BY <2>4 DEF Acts, L
  <2> QED
    BY <2>3, <2>4, <2>5, <2>6
<1>4. Top.end \in Nat
  BY <1>2 DEF FrameOf, FrameWith
<1>5. /\ Unfold[Top.fun] => ~Defined(Top.end) /\ Own(Top, Top.end)
      /\ \A l : Due(Top, l) <=> Unfold[Top.fun] /\ Top.end = l
  BY <1>1, <1>4 DEF LabelInv, DueIsUndefined, Due, Own
<1>6. /\ pc' # "fatal"
      /\ IF Unfold[Top.fun] THEN curFun' = curFun /\ Label(Top.end)
                            ELSE curFun' = Top.prevCur /\ defs' = defs
  BY <1>5 DEF PopPend, PopFun
<1>7. ResFun(L) = curFun
  BY DEF ResFun, L
<1>8. curFun' = Top.prevCur
  BY <1>1, <1>6, <1>7 DEF LabelInv, UnfoldedInCaller
<1> HIDE DEF L
<1>9. /\ \A l \in Nat : Defined(l)' <=> Defined(l) \/ Due(Top, l)
      /\ JumpsStayInFunction'
      /\ LabelsAreMade'
      /\ \A j \in Acts : \A e \in refs' \cup defs' :
           Own(stack[j], e[1]) => e[2] = ResFun(j)
  <2>1. CASE Unfold[Top.fun]
    BY <2>1, <1>1, <1>4, <1>5, <1>6, <1>7, LabelEmitted
  <2>2. CASE ~Unfold[Top.fun]
    BY <2>2, <1>1, <1>5, <1>6
       DEF LabelInv, JumpsStayInFunction, LabelsAreMade, LabelsInPlace, Defined
  <2> QED
    BY <2>1, <2>2
<1>10. \A i \in Acts' : ResFun(i)' = ResFun(i)
  <2> SUFFICES ASSUME NEW i \in Acts'
               PROVE  ResFun(i)' = ResFun(i)
    OBVIOUS
  <2>1. CASE i = L - 1
    <3>1. i # L /\ i + 1 = L
      BY <2>1, <1>1
    <3> QED
      BY <2>1, <3>1, <1>1, <1>3, <1>8 DEF ResFun, L
  <2>2. CASE i # L - 1
    <3>1. i # L /\ i + 1 \in Acts' /\ i # Len(stack')
      BY <2>2, <1>1, <1>3 DEF Acts, L
    <3> QED
      BY <3>1, <1>3 DEF ResFun, L
  <2> QED
    BY <2>1, <2>2
<1>11. \A i \in Acts', l \in Nat : Due(stack[i], l) => ~Due(Top, l)
  <2> SUFFICES ASSUME NEW i \in Acts', NEW l \in Nat, Due(stack[i], l), Due(Top, l)
               PROVE  FALSE
    OBVIOUS
  <2>1. i \in Acts /\ i # L
    BY <1>3
  <2>2. Own(Top, l)
    BY <1>5
  <2>3. MemoSound(stack[i], nextLabel)
    BY <2>1 DEF LabelInv, FramesSound
  <2>4. Own(stack[i], l)
    BY <2>3 DEF MemoSound, Own, Due
  <2> QED
    BY <2>1, <2>2, <2>4, <1>1 DEF LabelInv, OwnersDiffer
<1>12. FramesSound'
  BY <1>1, <1>3 DEF LabelInv, FramesSound
<1>13. OwnersDiffer'
  BY <1>3 DEF LabelInv, OwnersDiffer
<1>14. DueIsUndefined'
  BY <1>3, <1>9, <1>11 DEF LabelInv, DueIsUndefined
<1>15. OwnIsAccountedFor'
  BY <1>3, <1>9 DEF LabelInv, OwnIsAccountedFor
<1>16. JumpsLeadSomewhere'
  <2> SUFFICES ASSUME NEW r \in refs
               PROVE  Defined(r[1])' \/ \E i \in Acts' : Due(stack'[i], r[1])
    BY <1>1 DEF JumpsLeadSomewhere
  <2>1. r[1] \in Nat
    BY <1>1 DEF TypeOK
  <2>2. CASE Defined(r[1])
    BY <2>1, <2>2, <1>9
  <2>3. CASE \E i \in Acts : Due(stack[i], r[1])
    <3>1. PICK i \in Acts : Due(stack[i], r[1])
      BY <2>3
    <3>2. CASE i = L
      BY <2>1, <3>1, <3>2, <1>1, <1>9
    <3>3. CASE i # L
      BY <3>1, <3>3, <1>3
    <3> QED
      BY <3>2, <3>3
  <2> QED
    BY <2>2, <2>3 DEF LabelInv, JumpsLeadSomewhere
<1>17. LabelsInPlace'
  BY <1>3, <1>9, <1>10 DEF LabelsInPlace
<1>18. UnfoldedInCaller'
  BY <1>3, <1>10 DEF LabelInv, UnfoldedInCaller
<1>19. NeverMultiplyDefined'
  BY <1>6 DEF NeverMultiplyDefined
<1> QED
  BY <1>9, <1>12, <1>13, <1>14, <1>15, <1>16, <1>17, <1>18, <1>19 DEF LabelInv

LEMMA InitLabels == Init => LabelInv
<1> SUFFICES ASSUME Init PROVE LabelInv
  OBVIOUS
<1>1. Acts = {} /\ refs = {} /\ defs = {} /\ pc # "fatal"
  BY DEF Init, Acts
<1> QED
  BY <1>1 DEF LabelInv, FramesSound, OwnersDiffer, DueIsUndefined, OwnIsAccountedFor,
              JumpsLeadSomewhere, LabelsAreMade, LabelsInPlace, UnfoldedInCaller,
              JumpsStayInFunction, NeverMultiplyDefined

LEMMA NextLabels ==
  ASSUME Inv, LabelInv, [Next]_vars
  PROVE  LabelInv'
<1>1. CASE \E f \in Funs : Call(f)
  BY <1>1, CallLabels
<1>2. ASSUME NEW st \in Stores, InBlock, NEW acc \in Acc,
             LabelsGrown(Now(st).fr, nextLabel, acc.fr, acc.next),
             FrameSound(acc.fr, acc.next),
             \A t \in acc.tags : Own(acc.fr, t),
             Inserted(acc), Refer(acc.tags), pc' = "loop",
             UNCHANGED <<curFun, nextFun, defs, calls>>
      PROVE  LabelInv'
  <2>1. /\ TypeOK /\ stack # <<>> /\ nextLabel \in Nat
        /\ stack' = WithTop(acc.fr) /\ nextLabel' = acc.next
    BY <1>2 DEF Inv, TypeOK, InBlock, Inserted, Labels
  <2>2. /\ acc.fr \in Frame /\ acc.next \in Labels /\ acc.next \in Nat
        /\ acc.tags \in SUBSET Nat
    BY <1>2 DEF Acc, Labels
  <2>3. LabelsGrown(Top, nextLabel, Now(st).fr, nextLabel)
    BY <1>2, NowLabels
  <2>4. LabelsGrown(Top, nextLabel, acc.fr, acc.next)
    BY <1>2, <2>1, <2>2, <2>3, GrowsTransitive
  <2> QED
    BY <1>2, <2>1, <2>2, <2>4, JumpLabels
<1>3. ASSUME NEW st \in Stores, NEW p \in Points, JumpGoto(p, st)
      PROVE  LabelInv'
  <2> DEFINE one == Pendinsert(Now(st), p)
  <2>1. InBlock
    BY <1>3 DEF JumpGoto
  <2>2. Now(st) \in Acc /\ one \in Acc
    BY <2>1, NowSound, PendinsertSound DEF Inv
  <2>3. /\ LabelsGrown(Now(st).fr, nextLabel, one.fr, one.next)
        /\ FrameSound(one.fr, one.next)
        /\ \A t \in one.tags : Own(one.fr, t)
    BY <2>1, <2>2, NowLabels, PendinsertGrows
  <2>4. /\ Inserted(one) /\ Refer(one.tags) /\ pc' = "loop"
        /\ UNCHANGED <<curFun, nextFun, defs, calls>>
    BY <1>3 DEF JumpGoto
  <2> HIDE DEF one
  <2> QED
    BY <1>2, <2>1, <2>2, <2>3, <2>4
<1>4. ASSUME NEW st \in Stores, NEW p \in Points, NEW q \in Points, JumpIf(p, q, st)
      PROVE  LabelInv'
  <2> DEFINE one == Pendinsert(Now(st), p)
             two == Pendinsert(one, q)
  <2>1. InBlock
    BY <1>4 DEF JumpIf
  <2>2. Now(st) \in Acc /\ one \in Acc /\ two \in Acc
    BY <2>1, NowSound, PendinsertSound DEF Inv
  <2>3. /\ LabelsGrown(Now(st).fr, nextLabel, one.fr, one.next)
        /\ FrameSound(one.fr, one.next)
        /\ \A t \in one.tags : Own(one.fr, t)
    BY <2>1, <2>2, NowLabels, PendinsertGrows
  <2>4. /\ Inserted(two) /\ Refer(two.tags) /\ pc' = "loop"
        /\ UNCHANGED <<curFun, nextFun, defs, calls>>
    BY <1>4 DEF JumpIf
  <2> HIDE DEF one
  <2>5. /\ LabelsGrown(one.fr, one.next, two.fr, two.next)
        /\ FrameSound(two.fr, two.next)
        /\ \A t \in two.tags : Own(two.fr, t)
    BY <2>2, <2>3, PendinsertGrows
  <2> HIDE DEF two
  <2>6. nextLabel \in Nat /\ one.next \in Nat /\ two.next \in Nat
    BY <2>2 DEF Acc, Labels, Inv, TypeOK
  <2>7. LabelsGrown(Now(st).fr, nextLabel, two.fr, two.next)
    BY <2>3, <2>5, <2>6, GrowsTransitive
  <2> QED
    BY <1>2, <2>1, <2>2, <2>4, <2>5, <2>7
<1>5. ASSUME NEW st \in Stores, JumpReturn(st)
      PROVE  LabelInv'
  BY <1>5, JumpReturnLabels
<1>6. CASE Pending
  BY <1>6, PendingLabels
<1>7. CASE PopPend
  BY <1>7, PopPendLabels
<1>8. CASE UNCHANGED vars
  BY <1>8 DEF vars, LabelInv, FramesSound, OwnersDiffer, DueIsUndefined,
     OwnIsAccountedFor, JumpsLeadSomewhere, LabelsAreMade, LabelsInPlace,
     UnfoldedInCaller, JumpsStayInFunction, NeverMultiplyDefined, Acts, ResFun, Defined
<1> QED
  BY <1>1, <1>3, <1>4, <1>5, <1>6, <1>7, <1>8 DEF Next

\* What the printing of residual code relies on holds in every program: one
\* label for each configuration, no label twice, no jump without its label,
\* and no jump from one residual function into another.
THEOREM LabelsAlwaysSound == Spec => []LabelsAreSound
<1>1. LabelInv => LabelsAreSound
  BY DEF LabelInv, LabelsAreSound, FramesSound, MemoSound, Acts, JumpsLeadSomewhere,
         OneLabelPerConfiguration, NoDanglingJump, Due
<1> QED
  BY <1>1, InitInv, NextInv, InitLabels, NextLabels, PTL DEF Spec

----------------------------------------------------------------------------
(***************************************************************************)
(* The refinement: each step of the pending lists is a step of the         *)
(* abstract specializer, with what an activation has seen and has to do    *)
(* read off its lists.                                                     *)
(***************************************************************************)
Seen(fr) == Configs(fr.memo)
Todo(fr) == Configs({fr.pending[k] : k \in DOMAIN fr.pending})

AbsFrame(fr) ==
  [fun |-> fr.fun, seen |-> Seen(fr), todo |-> Todo(fr), locals |-> fr.locals]

\* fr2 is fr after the configurations in C have been inserted.
Discovered(fr, C, fr2) ==
  /\ fr2.fun = fr.fun
  /\ fr2.locals = fr.locals
  /\ Seen(fr2) = Seen(fr) \cup C
  /\ Todo(fr2) = Todo(fr) \cup (C \ Seen(fr))

AbsSeq(s) == [i \in DOMAIN s |-> AbsFrame(s[i])]

LEMMA AbsActsIs == AbsActs = AbsSeq(stack) /\ AbsActs' = AbsSeq(stack')
BY DEF AbsActs, AbsSeq, AbsFrame, Seen, Todo

\* The abstract activations are a sequence, one for each concrete one.
LEMMA AbsSeqShape ==
  ASSUME NEW s \in Seq(Frame)
  PROVE  /\ Len(AbsSeq(s)) = Len(s)
         /\ DOMAIN AbsSeq(s) = 1 .. Len(s)
         /\ AbsSeq(s) \in Seq({AbsFrame(fr) : fr \in Frame})
         /\ \A i \in 1 .. Len(s) : AbsSeq(s)[i] = AbsFrame(s[i])
<1> DEFINE S == {AbsFrame(fr) : fr \in Frame}
<1>1. DOMAIN s = 1 .. Len(s) /\ Len(s) \in Nat
  OBVIOUS
<1>2. \A i \in 1 .. Len(s) : AbsFrame(s[i]) \in S
  OBVIOUS
<1>3. AbsSeq(s) = [i \in 1 .. Len(s) |-> AbsFrame(s[i])]
  BY <1>1 DEF AbsSeq
<1> HIDE DEF S
<1>4. AbsSeq(s) \in [1 .. Len(s) -> S]
  BY <1>2, <1>3
<1>5. AbsSeq(s) \in Seq(S)
  BY <1>1, <1>4, SeqDef
<1>6. DOMAIN AbsSeq(s) = 1 .. Len(s) /\ Len(AbsSeq(s)) = Len(s)
  BY <1>1, <1>4, <1>5, LenProperties
<1> QED
  BY <1>3, <1>5, <1>6 DEF S

\* Putting a frame on the stack, in the place of the innermost one, or taking
\* it off does the same to the abstract activations.
LEMMA AbsWithTop ==
  ASSUME NEW s \in Seq(Frame), s # <<>>, NEW fr \in Frame
  PROVE  AbsSeq([s EXCEPT ![Len(s)] = fr])
           = [AbsSeq(s) EXCEPT ![Len(AbsSeq(s))] = AbsFrame(fr)]
<1> DEFINE L == Len(s)
           t == [s EXCEPT ![Len(s)] = fr]
<1>1. /\ L \in 1 .. L /\ L \in Nat
      /\ t \in Seq(Frame) /\ Len(t) = L
      /\ DOMAIN t = 1 .. L
      /\ \A i \in 1 .. L : t[i] = IF i = L THEN fr ELSE s[i]
  OBVIOUS
<1> HIDE DEF t
<1>2. /\ Len(AbsSeq(s)) = L /\ DOMAIN AbsSeq(s) = 1 .. L
      /\ \A i \in 1 .. L : AbsSeq(s)[i] = AbsFrame(s[i])
  BY AbsSeqShape
<1> HIDE DEF L
<1>3. AbsSeq(t) = [i \in 1 .. L |-> AbsFrame(t[i])]
  BY <1>1 DEF AbsSeq
<1>4. AbsSeq(s) = [i \in 1 .. L |-> AbsFrame(s[i])]
  BY <1>2 DEF AbsSeq
<1>5. [AbsSeq(s) EXCEPT ![L] = AbsFrame(fr)]
        = [i \in 1 .. L |-> IF i = L THEN AbsFrame(fr) ELSE AbsFrame(s[i])]
  BY <1>1, <1>4
<1>6. AbsSeq(t) = [AbsSeq(s) EXCEPT ![L] = AbsFrame(fr)]
  BY <1>1, <1>3, <1>5
<1> QED
  BY <1>2, <1>6 DEF t

LEMMA AbsAppend ==
  ASSUME NEW s \in Seq(Frame), NEW fr \in Frame
  PROVE  AbsSeq(Append(s, fr)) = Append(AbsSeq(s), AbsFrame(fr))
<1> DEFINE S == {AbsFrame(x) : x \in Frame}
<1>1. /\ Append(s, fr) \in Seq(Frame) /\ Len(Append(s, fr)) = Len(s) + 1
      /\ \A i \in 1 .. Len(s) + 1 :
           Append(s, fr)[i] = IF i = Len(s) + 1 THEN fr ELSE s[i]
      /\ Len(s) \in Nat
  OBVIOUS
<1>2. /\ Len(AbsSeq(s)) = Len(s)
      /\ AbsSeq(s) \in Seq(S)
      /\ \A i \in 1 .. Len(s) : AbsSeq(s)[i] = AbsFrame(s[i])
  BY AbsSeqShape
<1>3. /\ Len(AbsSeq(Append(s, fr))) = Len(s) + 1
      /\ AbsSeq(Append(s, fr)) \in Seq(S)
      /\ \A i \in 1 .. Len(s) + 1 : AbsSeq(Append(s, fr))[i] = AbsFrame(Append(s, fr)[i])
  BY <1>1, AbsSeqShape
<1>4. AbsFrame(fr) \in S
  OBVIOUS
<1> HIDE DEF S
<1>5. /\ Append(AbsSeq(s), AbsFrame(fr)) \in Seq(S)
      /\ Len(Append(AbsSeq(s), AbsFrame(fr))) = Len(s) + 1
      /\ \A i \in 1 .. Len(s) + 1 : Append(AbsSeq(s), AbsFrame(fr))[i]
           = IF i = Len(s) + 1 THEN AbsFrame(fr) ELSE AbsSeq(s)[i]
  BY <1>2, <1>4
<1>6. \A i \in 1 .. Len(s) + 1 :
        AbsSeq(Append(s, fr))[i] = Append(AbsSeq(s), AbsFrame(fr))[i]
  <2> SUFFICES ASSUME NEW i \in 1 .. Len(s) + 1
               PROVE  AbsSeq(Append(s, fr))[i] = Append(AbsSeq(s), AbsFrame(fr))[i]
    OBVIOUS
  <2>1. CASE i = Len(s) + 1
    BY <2>1, <1>1, <1>3, <1>5
  <2>2. CASE i # Len(s) + 1
    <3>1. i \in 1 .. Len(s)
      BY <2>2, <1>1
    <3>2. Append(s, fr)[i] = s[i]
      BY <2>2, <1>1
    <3> QED
      BY <2>2, <3>1, <3>2, <1>2, <1>3, <1>5
  <2> QED
    BY <2>1, <2>2
<1> QED
  BY <1>3, <1>5, <1>6, SeqEqual

LEMMA AbsPop ==
  ASSUME NEW s \in Seq(Frame), s # <<>>
  PROVE  AbsSeq(SubSeq(s, 1, Len(s) - 1)) = SubSeq(AbsSeq(s), 1, Len(AbsSeq(s)) - 1)
<1> DEFINE S == {AbsFrame(x) : x \in Frame}
           n == Len(s) - 1
<1>1. n \in Nat /\ Len(s) \in Nat /\ 1 .. n \subseteq 1 .. Len(s)
  OBVIOUS
<1>2. /\ Len(AbsSeq(s)) = Len(s)
      /\ AbsSeq(s) \in Seq(S)
      /\ \A i \in 1 .. Len(s) : AbsSeq(s)[i] = AbsFrame(s[i])
  BY AbsSeqShape
<1> HIDE DEF S, n
<1>3. /\ SubSeq(s, 1, n) \in Seq(Frame)
      /\ Len(SubSeq(s, 1, n)) = n
      /\ \A i \in 1 .. n : SubSeq(s, 1, n)[i] = s[i]
  <2>1. \A i \in 1 .. n : s[i] \in Frame
    BY <1>1
  <2>2. /\ SubSeq(s, 1, n) \in Seq(Frame)
        /\ Len(SubSeq(s, 1, n)) = IF 1 <= n THEN n - 1 + 1 ELSE 0
        /\ \A i \in 1 .. n - 1 + 1 : SubSeq(s, 1, n)[i] = s[1 + i - 1]
    BY <1>1, <2>1, SubSeqProperties
  <2> QED
    BY <1>1, <2>2
<1>4. /\ SubSeq(AbsSeq(s), 1, n) \in Seq(S)
      /\ Len(SubSeq(AbsSeq(s), 1, n)) = n
      /\ \A i \in 1 .. n : SubSeq(AbsSeq(s), 1, n)[i] = AbsSeq(s)[i]
  <2>1. \A i \in 1 .. n : AbsSeq(s)[i] \in S
    BY <1>1, <1>2
  <2>2. /\ SubSeq(AbsSeq(s), 1, n) \in Seq(S)
        /\ Len(SubSeq(AbsSeq(s), 1, n)) = IF 1 <= n THEN n - 1 + 1 ELSE 0
        /\ \A i \in 1 .. n - 1 + 1 : SubSeq(AbsSeq(s), 1, n)[i] = AbsSeq(s)[1 + i - 1]
    BY <1>1, <2>1, SubSeqProperties
  <2> QED
    BY <1>1, <2>2
<1>5. /\ AbsSeq(SubSeq(s, 1, n)) \in Seq(S)
      /\ Len(AbsSeq(SubSeq(s, 1, n))) = n
      /\ \A i \in 1 .. n : AbsSeq(SubSeq(s, 1, n))[i] = AbsFrame(SubSeq(s, 1, n)[i])
  BY <1>3, AbsSeqShape DEF S
<1>6. \A i \in 1 .. n : AbsSeq(SubSeq(s, 1, n))[i] = SubSeq(AbsSeq(s), 1, n)[i]
  BY <1>1, <1>2, <1>3, <1>4, <1>5
<1>7. AbsSeq(SubSeq(s, 1, n)) = SubSeq(AbsSeq(s), 1, n)
  BY <1>4, <1>5, <1>6, SeqEqual
<1> QED
  BY <1>2, <1>7 DEF n

\* A configuration, the way the abstract specification writes it.
Conf(f, p, st) == <<p, Snapshot(f, p, st)>>

LEMMA ConfIs ==
  \A f, p, st : Abs!Config(f, p, st) = Conf(f, p, st)
BY DEF Abs!Config, Conf, Snapshot

LEMMA DiscoveredTwice ==
  ASSUME NEW fr, NEW fr2, NEW fr3, NEW C, NEW D,
         Discovered(fr, C, fr2), Discovered(fr2, D, fr3)
  PROVE  Discovered(fr, C \cup D, fr3)
<1>1. Seen(fr3) = Seen(fr) \cup (C \cup D)
  BY DEF Discovered
<1>2. Todo(fr3) = (Todo(fr) \cup (C \ Seen(fr))) \cup (D \ (Seen(fr) \cup C))
  BY DEF Discovered
<1>3. Todo(fr3) = Todo(fr) \cup ((C \cup D) \ Seen(fr))
  BY <1>2
<1> QED
  BY <1>1, <1>3 DEF Discovered

\* cmixPendinsert discovers one configuration: searching the memo list and
\* linking a new node amount to adding it to two sets.
LEMMA PendinsertDiscovers ==
  ASSUME NEW acc \in Acc, NEW p \in Points
  PROVE  Discovered(acc.fr, {Conf(acc.fr.fun, p, acc.fr.locals)}, Pendinsert(acc, p).fr)
<1> DEFINE fr == acc.fr
           known == Known(fr, p)
           node == NewNode(fr, p, acc.next)
           longer == Linked(node, fr.pending)
           fr2 == [fr EXCEPT !.memo = @ \cup {node}, !.pending = longer]
           c == Conf(fr.fun, p, fr.locals)
           ins == Pendinsert(acc, p)
<1>1. PICK f \in Funs : fr \in FrameOf(f)
  BY FrameType DEF Acc
<1>2. acc.next \in Labels
  BY DEF Acc
<1>3. known # {} <=> c \in Seen(fr)
  BY DEF Known, Seen, Configs, Conf
<1>4. CASE known # {}
  <2>1. ins.fr = fr
    BY <1>4 DEF Pendinsert, Found, Acc
  <2> HIDE DEF fr, known, c, ins
  <2> QED
    BY <2>1, <1>3, <1>4 DEF Discovered, fr, c, ins
<1>5. CASE known = {}
  <2>1. ins.fr = fr2
    BY <1>5 DEF Pendinsert
  <2>2. /\ fr2.memo = fr.memo \cup {node}
        /\ fr2.pending = longer
        /\ fr2.fun = fr.fun
        /\ fr2.locals = fr.locals
    BY <1>1 DEF FrameOf, FrameWith
  <2>3. <<node.label, node.block>> = c
    BY DEF NewNode, Conf
  <2>4. node \in NodeOf(f) /\ fr.pending \in Seq(NodeOf(f))
    BY <1>1, <1>2, NewNodeType DEF FrameOf, FrameWith
  <2> HIDE DEF fr2, node, known, c, ins, fr
  <2>5. /\ DOMAIN longer = 1 .. Len(fr.pending) + 1
        /\ longer[1] = node
        /\ \A k \in DOMAIN fr.pending : longer[k + 1] = fr.pending[k]
        /\ DOMAIN fr.pending = 1 .. Len(fr.pending)
        /\ Len(fr.pending) \in Nat
    BY <2>4, Prepended DEF Linked
  <2> HIDE DEF longer
  <2>6. {longer[k] : k \in DOMAIN longer}
          = {fr.pending[k] : k \in DOMAIN fr.pending} \cup {node}
    <3>1. ASSUME NEW k \in DOMAIN longer
          PROVE  k = 1 \/ (k - 1 \in DOMAIN fr.pending /\ longer[k] = fr.pending[k - 1])
      BY <2>5
    <3>2. ASSUME NEW k \in DOMAIN fr.pending
          PROVE  k + 1 \in DOMAIN longer /\ longer[k + 1] = fr.pending[k]
      BY <2>5
    <3>3. 1 \in DOMAIN longer
      BY <2>5
    <3> QED
      BY <2>5, <3>1, <3>2, <3>3
  <2>7. Seen(fr2) = Seen(fr) \cup {c}
    BY <2>2, <2>3 DEF Seen, Configs
  <2>8. Todo(fr2) = Todo(fr) \cup {c}
    BY <2>2, <2>3, <2>6 DEF Todo, Configs
  <2>9. c \notin Seen(fr)
    BY <1>3, <1>5
  <2>10. Discovered(fr, {c}, fr2)
    BY <2>2, <2>7, <2>8, <2>9 DEF Discovered
  <2> QED
    BY <2>1, <2>10 DEF fr, c, ins
<1> QED
  BY <1>4, <1>5

\* The innermost abstract activation.
LEMMA AbsTop ==
  ASSUME TypeOK, stack # <<>>
  PROVE  /\ AbsActs # <<>>
         /\ Abs!Cur = AbsFrame(Top)
         /\ AbsActs[Len(AbsActs)] = AbsFrame(Top)
<1>1. stack \in Seq(Frame) /\ Len(stack) \in 1 .. Len(stack)
  BY DEF TypeOK
<1>2. /\ Len(AbsActs) = Len(stack)
      /\ DOMAIN AbsActs = 1 .. Len(stack)
      /\ AbsActs[Len(stack)] = AbsFrame(Top)
  BY <1>1, AbsSeqShape, AbsActsIs DEF Top
<1>3. AbsActs # <<>>
  BY <1>1, <1>2
<1> QED
  BY <1>2, <1>3 DEF Abs!Cur

\* A jump to the points in P, or a return when P is empty.
LEMMA JumpRefines ==
  ASSUME TypeOK, InBlock, NEW st \in Stores, NEW P, NEW fr \in Frame,
         Discovered([Top EXCEPT !.locals = st], {Conf(Top.fun, p, st) : p \in P}, fr),
         stack' = WithTop(fr), pc' = "loop"
  PROVE  Abs!Discover(P, st)
<1> DEFINE now == [Top EXCEPT !.locals = st]
           C   == {Conf(Top.fun, p, st) : p \in P}
<1>1. stack # <<>> /\ stack \in Seq(Frame) /\ AbsPhase = "run" /\ AbsPhase' = "pick"
  BY DEF InBlock, AbsPhase, TypeOK
<1>2. AbsActs' = [AbsActs EXCEPT ![Len(AbsActs)] = AbsFrame(fr)]
  BY <1>1, AbsWithTop, AbsActsIs DEF WithTop
<1>3. PICK f \in Funs : Top \in FrameOf(f)
  BY <1>1, FrameType DEF TypeOK, Top
<1>4. /\ now.fun = Top.fun /\ now.locals = st /\ Seen(now) = Seen(Top)
      /\ Todo(now) = Todo(Top)
  BY <1>3 DEF FrameOf, FrameWith, Seen, Todo
<1>8. Discovered(now, C, fr)
  OBVIOUS
<1>9. C = {Conf(Top.fun, p, st) : p \in P}
  OBVIOUS
<1> HIDE DEF now, C
<1>5. AbsFrame(fr) = [fun |-> Top.fun, seen |-> Seen(Top) \cup C,
                      todo |-> Todo(Top) \cup (C \ Seen(Top)), locals |-> st]
  BY <1>4, <1>8 DEF Discovered, AbsFrame
<1>6. /\ AbsFrame(Top).fun = Top.fun /\ AbsFrame(Top).seen = Seen(Top)
      /\ AbsFrame(Top).todo = Todo(Top)
  BY DEF AbsFrame
<1>7. C = {Abs!Config(Abs!Cur.fun, p, st) : p \in P}
  BY <1>1, <1>6, <1>9, AbsTop, ConfIs
<1> QED
  BY <1>1, <1>2, <1>5, <1>6, <1>7, AbsTop DEF Abs!Discover

\* A call: the new activation has seen, and has to do, its first block when
\* that is a specialization point.
LEMMA CallRefines ==
  ASSUME Inv, NEW f \in Funs, Call(f)
  PROVE  Abs!Enter(f)
<1> DEFINE st == [o \in Objs |-> InitVal]
           fr == [fun |-> f, memo |-> {}, pending |-> <<>>, locals |-> st,
                  end |-> IF Unfold[f] THEN nextLabel ELSE 0, prevCur |-> curFun]
           acc == [fr |-> fr, next |-> nextLabel + (IF Unfold[f] THEN 1 ELSE 0),
                   current |-> pendingIsCurrent, tags |-> {}]
           ins == IF First[f] = 0 THEN acc ELSE Pendinsert(acc, First[f])
           S  == IF First[f] = 0 THEN {} ELSE {Conf(f, First[f], st)}
<1>1. /\ pc = "block" /\ stack \in Seq(Frame)
      /\ stack' = Append(stack, ins.fr)
      /\ pc' = IF First[f] = 0 THEN "block" ELSE "loop"
  BY DEF Call, Inv, TypeOK
<1>2. acc \in Acc
  <2>1. fr \in FrameOf(f)
    BY ValsAssumption DEF FrameOf, FrameWith, Stores, Inv, TypeOK, Labels
  <2>2. fr \in Frame
    BY <2>1, FrameType
  <2>3. nextLabel + (IF Unfold[f] THEN 1 ELSE 0) \in Labels
    BY DEF Inv, TypeOK, Labels
  <2> QED
    BY <2>2, <2>3 DEF Acc, Inv, TypeOK
<1>3. /\ acc.fr = fr /\ fr.fun = f /\ fr.locals = st
      /\ Seen(fr) = {} /\ Todo(fr) = {}
  BY DEF Seen, Todo, Configs
<1> HIDE DEF fr, acc, st
<1>4. ins.fr \in Frame /\ Discovered(fr, S, ins.fr)
  <2>1. CASE First[f] = 0
    BY <2>1, <1>2, <1>3 DEF Acc, Discovered
  <2>2. CASE First[f] # 0
    <3>1. First[f] \in Points
      BY <2>2, FirstAssumption
    <3>2. Pendinsert(acc, First[f]) \in Acc
      BY <1>2, <3>1, PendinsertSound
    <3> QED
      BY <2>2, <3>1, <3>2, <1>2, <1>3, PendinsertDiscovers DEF Acc
  <2> QED
    BY <2>1, <2>2
<1> HIDE DEF ins
<1>5. AbsFrame(ins.fr) = [fun |-> f, seen |-> S, todo |-> S, locals |-> st]
  BY <1>3, <1>4 DEF AbsFrame, Discovered
<1>6. AbsActs' = Append(AbsActs, AbsFrame(ins.fr))
  BY <1>1, <1>4, AbsAppend, AbsActsIs
<1>7. AbsPhase = "run" /\ AbsPhase' = IF S = {} THEN "run" ELSE "pick"
  BY <1>1 DEF AbsPhase
<1>8. S = IF First[f] = 0 THEN {} ELSE {Abs!Config(f, First[f], st)}
  BY ConfIs
<1> HIDE DEF S
<1> QED
  BY <1>5, <1>6, <1>7, <1>8 DEF Abs!Enter, st

\* cmixPending: the point taken off the list is one that is left to do, it is
\* left to do no more, and its values are in the locals.
LEMMA PendingRefines ==
  ASSUME Inv, LabelInv, Pending
  PROVE  \E st \in Stores : \E c \in Abs!Cur.todo : Abs!Resume(c, st)
<1> DEFINE node == Head(Top.pending)
           loc  == IF pendingIsCurrent THEN Top.locals ELSE Restore(Top.locals, node)
           rest == Tail(Top.pending)
           fr   == [Top EXCEPT !.pending = Popped(@), !.locals = loc]
           c    == <<node.label, node.block>>
<1>1. /\ TypeOK /\ stack # <<>> /\ stack \in Seq(Frame)
      /\ Top.pending # <<>> /\ stack' = WithTop(fr)
      /\ pc = "loop"
  BY DEF Pending, Inv, TypeOK
<1>2. PICK f \in Funs : Top \in FrameOf(f)
  BY <1>1, TopLabels
<1>3. /\ Top.pending \in Seq(NodeOf(f)) /\ Top.fun = f
      /\ Top.locals \in Stores
  BY <1>2 DEF FrameOf, FrameWith
<1>4. /\ 1 \in DOMAIN Top.pending /\ node = Top.pending[1]
      /\ DOMAIN rest = 1 .. Len(Top.pending) - 1
      /\ DOMAIN Top.pending = 1 .. Len(Top.pending) /\ Len(Top.pending) \in Nat
      /\ \A k \in DOMAIN rest : rest[k] = Top.pending[k + 1]
      /\ node \in NodeOf(f) /\ rest \in Seq(NodeOf(f))
  BY <1>1, <1>3
<1>5. /\ node.label \in Points
      /\ node.block \in [MemoSet[f][node.label] -> Vals]
      /\ MemoSet[f][node.label] \subseteq Objs
  BY <1>4, MemoAssumption DEF NodeOf, Node
<1>6. loc \in Stores
  <2>1. Restore(Top.locals, node) \in Stores
    BY <1>3, <1>5 DEF Restore, Stores
  <2> QED
    BY <1>3, <2>1
<1>7. Snapshot(f, node.label, loc) = node.block
  <2>1. CASE pendingIsCurrent
    BY <1>1, <1>3, <2>1 DEF Inv, FlagSound, Matches
  <2>2. CASE ~pendingIsCurrent
    BY <1>3, <1>5, <2>2 DEF Snapshot, Restore
  <2> QED
    BY <2>1, <2>2
<1>8. /\ fr \in FrameOf(f) /\ fr.memo = Top.memo /\ fr.fun = f
      /\ fr.pending = rest /\ fr.locals = loc
  BY <1>2, <1>3, <1>4, <1>6 DEF FrameOf, FrameWith, Popped
<1> HIDE DEF fr, loc, node, rest
<1>9. fr \in Frame
  BY <1>8, FrameType
<1>10. MemoSound(Top, nextLabel)
  BY <1>1, TopLabels DEF FrameSound
<1>11. Todo(fr) = Todo(Top) \ {c} /\ c \in Todo(Top)
  <2>1. c \in Todo(Top)
    BY <1>4 DEF Todo, Configs
  <2>2. ASSUME NEW k \in DOMAIN Top.pending, k # 1
        PROVE  <<Top.pending[k].label, Top.pending[k].block>> # c
    BY <2>2, <1>4, <1>10 DEF MemoSound
  <2>3. ASSUME NEW k \in DOMAIN rest
        PROVE  k + 1 \in DOMAIN Top.pending /\ k + 1 # 1 /\ rest[k] = Top.pending[k + 1]
    BY <1>4
  <2>4. ASSUME NEW k \in DOMAIN Top.pending, k # 1
        PROVE  k - 1 \in DOMAIN rest /\ rest[k - 1] = Top.pending[k]
    BY <2>4, <1>4
  <2>5. \A x : x \in Todo(fr) <=> \E k \in DOMAIN rest : x = <<rest[k].label, rest[k].block>>
    BY <1>8 DEF Todo, Configs
  <2>6. \A x : x \in Todo(Top) <=>
          \E k \in DOMAIN Top.pending : x = <<Top.pending[k].label, Top.pending[k].block>>
    BY DEF Todo, Configs
  <2>7. ASSUME NEW x \in Todo(fr)
        PROVE  x \in Todo(Top) \ {c}
    BY <2>2, <2>3, <2>5, <2>6
  <2>8. ASSUME NEW x \in Todo(Top) \ {c}
        PROVE  x \in Todo(fr)
    <3>1. PICK k \in DOMAIN Top.pending : x = <<Top.pending[k].label, Top.pending[k].block>>
      BY <2>6
    <3>2. k # 1
      BY <3>1, <1>4
    <3> QED
      BY <3>1, <3>2, <2>4, <2>5
  <2> QED
    BY <2>1, <2>7, <2>8
<1>12. pc' = "block"
  <2>1. Due(Top, node.reslab) /\ node.reslab \in Nat
    BY <1>4 DEF Due, NodeOf, Node, Labels
  <2>2. ~Defined(node.reslab)
    BY <2>1, <1>1 DEF LabelInv, DueIsUndefined, Top, Acts
  <2> QED
    BY <2>2 DEF Pending, node
<1>13. AbsPhase = "pick" /\ AbsPhase' = "run"
  BY <1>1, <1>12 DEF AbsPhase
<1>14. AbsActs' = [AbsActs EXCEPT ![Len(AbsActs)] = AbsFrame(fr)]
  BY <1>1, <1>9, AbsWithTop, AbsActsIs DEF WithTop
<1>15. AbsFrame(fr) = [fun |-> f, seen |-> Seen(Top), todo |-> Todo(Top) \ {c}, locals |-> loc]
  BY <1>8, <1>11 DEF AbsFrame, Seen
<1>16. /\ AbsFrame(Top).fun = f /\ AbsFrame(Top).seen = Seen(Top)
       /\ AbsFrame(Top).todo = Todo(Top)
  BY <1>3 DEF AbsFrame
<1>17. Abs!Config(f, c[1], loc) = c
  BY <1>7, ConfIs DEF Conf
<1>18. Abs!Cur = AbsFrame(Top)
  BY <1>1, AbsTop
<1> HIDE DEF c
<1>19. Abs!Resume(c, loc)
  BY <1>11, <1>13, <1>14, <1>15, <1>16, <1>17, <1>18 DEF Abs!Resume
<1> QED
  BY <1>6, <1>11, <1>16, <1>18, <1>19

\* cmixPopPend: an activation leaves when it has nothing left to do.
LEMMA PopPendRefines ==
  ASSUME Inv, LabelInv, PopPend
  PROVE  Abs!Leave
<1>1. /\ TypeOK /\ stack # <<>> /\ stack \in Seq(Frame) /\ Top.pending = <<>>
      /\ stack' = SubSeq(stack, 1, Len(stack) - 1) /\ pc = "loop"
  BY DEF PopPend, Inv, TypeOK
<1>2. Todo(Top) = {}
  BY <1>1 DEF Todo, Configs
<1>3. Abs!Cur.todo = {}
  BY <1>1, <1>2, AbsTop DEF AbsFrame
<1>4. AbsActs' = SubSeq(AbsActs, 1, Len(AbsActs) - 1)
  BY <1>1, AbsPop, AbsActsIs
<1>5. Len(AbsActs) = Len(stack)
  BY <1>1, AbsSeqShape, AbsActsIs
<1>6. pc' # "fatal"
  BY PopPendLabels DEF LabelInv, NeverMultiplyDefined
<1>7. pc' = IF Len(stack) = 1 THEN "done" ELSE "block"
  BY <1>6 DEF PopPend
<1>8. AbsPhase = "pick" /\ AbsPhase' = IF Len(stack) = 1 THEN "done" ELSE "run"
  BY <1>1, <1>7 DEF AbsPhase
<1> QED
  BY <1>3, <1>4, <1>5, <1>8 DEF Abs!Leave

LEMMA InitRefines == Init => Abs!Init
BY DEF Init, Abs!Init, AbsActs, AbsPhase

LEMMA NextRefines ==
  ASSUME Inv, LabelInv, [Next]_vars
  PROVE  [Abs!Next]_Abs!vars
<1> DEFINE now(st) == [Top EXCEPT !.locals = st]
<1>1. ASSUME NEW f \in Funs, Call(f)
      PROVE  Abs!Next
  BY <1>1, CallRefines DEF Abs!Next
<1>2. ASSUME InBlock, NEW st \in Stores
      PROVE  /\ Now(st) \in Acc
             /\ Now(st).fr = now(st)
             /\ now(st).fun = Top.fun /\ now(st).locals = st
  <2>1. Now(st) \in Acc
    BY <1>2, NowSound DEF Inv
  <2>2. PICK f \in Funs : Top \in FrameOf(f)
    BY <1>2, TopLabels DEF Inv, InBlock
  <2>3. now(st).fun = Top.fun /\ now(st).locals = st
    BY <2>2 DEF FrameOf, FrameWith
  <2> QED
    BY <2>1, <2>3 DEF Now
<1>3. ASSUME NEW st \in Stores, NEW p \in Points, JumpGoto(p, st)
      PROVE  Abs!Next
  <2> DEFINE one == Pendinsert(Now(st), p)
  <2>1. InBlock /\ stack' = WithTop(one.fr) /\ pc' = "loop"
    BY <1>3 DEF JumpGoto, Inserted
  <2>2. one \in Acc
    BY <1>2, <2>1, PendinsertSound
  <2>3. Discovered(now(st), {Conf(Top.fun, p, st)}, one.fr)
    <3>1. Discovered(Now(st).fr, {Conf(Now(st).fr.fun, p, Now(st).fr.locals)}, one.fr)
      BY <1>2, <2>1, PendinsertDiscovers
    <3>2. Now(st).fr = now(st) /\ now(st).fun = Top.fun /\ now(st).locals = st
      BY <1>2, <2>1
    <3> HIDE DEF now, one
    <3> QED
      BY <3>1, <3>2
  <2> HIDE DEF one, now
  <2>4. {Conf(Top.fun, x, st) : x \in {p, p}} = {Conf(Top.fun, p, st)}
    OBVIOUS
  <2>5. Abs!Discover({p, p}, st)
    BY <2>1, <2>2, <2>3, <2>4, JumpRefines DEF now, Inv, Acc
  <2> QED
    BY <2>5 DEF Abs!Next, Abs!Stores, Stores
<1>4. ASSUME NEW st \in Stores, NEW p \in Points, NEW q \in Points, JumpIf(p, q, st)
      PROVE  Abs!Next
  <2> DEFINE one == Pendinsert(Now(st), p)
             two == Pendinsert(one, q)
  <2>1. InBlock /\ stack' = WithTop(two.fr) /\ pc' = "loop"
    BY <1>4 DEF JumpIf, Inserted
  <2>2. one \in Acc /\ two \in Acc
    BY <1>2, <2>1, PendinsertSound
  <2>3. Discovered(now(st), {Conf(Top.fun, p, st)}, one.fr)
    <3>1. Discovered(Now(st).fr, {Conf(Now(st).fr.fun, p, Now(st).fr.locals)}, one.fr)
      BY <1>2, <2>1, PendinsertDiscovers
    <3>2. Now(st).fr = now(st) /\ now(st).fun = Top.fun /\ now(st).locals = st
      BY <1>2, <2>1
    <3> HIDE DEF now, one
    <3> QED
      BY <3>1, <3>2
  <2>4. Discovered(one.fr, {Conf(Top.fun, q, st)}, two.fr)
    <3>1. one.fr.fun = Top.fun /\ one.fr.locals = st
      BY <1>2, <2>1, <2>3 DEF Discovered
    <3> QED
      BY <2>2, <3>1, PendinsertDiscovers
  <2> HIDE DEF one, two, now
  <2>5. Discovered(now(st), {Conf(Top.fun, p, st)} \cup {Conf(Top.fun, q, st)}, two.fr)
    BY <2>3, <2>4, DiscoveredTwice
  <2>6. {Conf(Top.fun, x, st) : x \in {p, q}}
          = {Conf(Top.fun, p, st)} \cup {Conf(Top.fun, q, st)}
    OBVIOUS
  <2>7. Abs!Discover({p, q}, st)
    BY <2>1, <2>2, <2>5, <2>6, JumpRefines DEF now, Inv, Acc
  <2> QED
    BY <2>7 DEF Abs!Next, Abs!Stores, Stores
<1>5. ASSUME NEW st \in Stores, JumpReturn(st)
      PROVE  Abs!Next
  <2>1. InBlock /\ stack' = WithTop(now(st)) /\ pc' = "loop"
    BY <1>5 DEF JumpReturn
  <2>2. now(st) \in Frame
    BY <1>2, <2>1 DEF Acc
  <2> HIDE DEF now
  <2>3. Discovered(now(st), {Conf(Top.fun, x, st) : x \in {}}, now(st))
    BY DEF Discovered
  <2>4. Abs!Discover({}, st)
    BY <2>1, <2>2, <2>3, JumpRefines DEF now, Inv
  <2> QED
    BY <2>4 DEF Abs!Next, Abs!Stores, Stores
<1>6. ASSUME Pending
      PROVE  Abs!Next
  BY <1>6, PendingRefines DEF Abs!Next, Abs!Stores, Stores
<1>7. ASSUME PopPend
      PROVE  Abs!Next
  BY <1>7, PopPendRefines DEF Abs!Next
<1>8. ASSUME UNCHANGED vars
      PROVE  UNCHANGED Abs!vars
  BY <1>8 DEF vars, Abs!vars, AbsActs, AbsPhase
<1> QED
  BY <1>1, <1>3, <1>4, <1>5, <1>6, <1>7, <1>8 DEF Next

\* The pending lists of speclib are polyvariant specialization with a work
\* set: every step of theirs is a step of the abstract specializer, for every
\* choice of functions, points, memoization sets and values.
THEOREM PendingListsArePolyvariant == Spec => ImplementsPolyvariant
BY InitInv, NextInv, InitLabels, NextLabels, InitRefines, NextRefines, PTL
   DEF Spec, Abs!Spec, ImplementsPolyvariant

----------------------------------------------------------------------------
(***************************************************************************)
(* The text of the memoization sets (MemoText): escapes and bytes.         *)
(***************************************************************************)
\* G is the recursive function by which the value of an escape is defined.
Valued(base, digits, G) ==
  G = [S \in SUBSET (DOMAIN digits) |->
         IF S = {} THEN 0 ELSE base * G[S \ {Max(S)}] + digits[Max(S)]]

\* Q[n] is the value of the first n digits.
Computes(Q, base, digits) ==
  /\ Q[0] = 0
  /\ \A n \in 1 .. Len(digits) : Q[n] = base * Q[n - 1] + digits[n]
  /\ Byte([base |-> base, digits |-> digits]) = Q[Len(digits)]

LEMMA ByteRounds ==
  ASSUME NEW base \in Nat, NEW digits \in Seq(Nat)
  PROVE  \E Q : Computes(Q, base, digits)
<1> DEFINE L == Len(digits)
<1>1. L \in Nat /\ digits \in [1 .. L -> Nat] /\ DOMAIN digits = 1 .. L
  BY LenProperties
<1> HIDE DEF L
<1> DEFINE f == [c \in Nat \X (1 .. L) |-> base * c[1] + digits[c[2]]]
<1>2. f \in [Nat \X (1 .. L) -> Nat]
  <2>1. ASSUME NEW x \in Nat, NEW i \in 1 .. L
        PROVE  base * x + digits[i] \in Nat
    <3>1. digits[i] \in Nat
      BY <1>1
    <3>2. base * x \in Nat
      OBVIOUS
    <3> QED
      BY <3>1, <3>2
  <2> QED
    BY <2>1
<1>3. PICK F \in [SUBSET (1 .. L) -> Nat] : FoldedLeft(F, L, 0, f)
  <2> HIDE DEF f
  <2> QED
    BY <1>1, <1>2, FoldExists
<1>4. Valued(base, digits, F)
  <2>1. ASSUME NEW S \in SUBSET (1 .. L)
        PROVE  F[S] = IF S = {} THEN 0 ELSE base * F[S \ {Max(S)}] + digits[Max(S)]
    <3>1. CASE S = {}
      BY <1>3, <3>1, Zenon DEF FoldedLeft
    <3>2. CASE S # {}
      <4>1. Max(S) \in 1 .. L
        <5>1. S \in SUBSET (0 .. L)
          OBVIOUS
        <5> QED
          BY <1>1, <3>2, <5>1, GreatestIs
      <4>2. F[S \ {Max(S)}] \in Nat
        BY <1>3
      <4>3. F[S] = f[<<F[S \ {Max(S)}], Max(S)>>]
        <5> HIDE DEF f
        <5> QED
          BY <1>3, <3>2, Zenon DEF FoldedLeft
      <4> DEFINE x == F[S \ {Max(S)}]
                 m == Max(S)
      <4>4. f[<<x, m>>] = base * x + digits[m]
        <5>1. x \in Nat /\ m \in 1 .. L
          BY <4>1, <4>2
        <5> HIDE DEF x, m
        <5> QED
          BY <5>1
      <4> QED
        BY <3>2, <4>3, <4>4, Zenon
    <3> QED
      BY <3>1, <3>2
  <2>2. F = [S \in SUBSET (1 .. L) |-> F[S]]
    OBVIOUS
  <2> QED
    BY <1>1, <2>1, <2>2, Zenon DEF Valued
<1> DEFINE G == CHOOSE G : Valued(base, digits, G)
<1>5. Valued(base, digits, G)
  BY <1>4
<1> DEFINE e == [base |-> base, digits |-> digits]
<1>6. Byte(e) = G[DOMAIN digits]
  <2>1. e.base = base /\ e.digits = digits
    OBVIOUS
  <2> HIDE DEF e
  <2> QED
    BY <2>1, Zenon DEF Byte, FoldLeft, MapThenFoldSet, Valued
<1> HIDE DEF G, f, e
<1> DEFINE Q == [n \in 0 .. L |-> G[1 .. n]]
<1>7. Q[0] = 0
  <2>1. 1 .. 0 = {}
    OBVIOUS
  <2>2. G[{}] = 0
    BY <1>1, <1>5, Zenon DEF Valued
  <2>3. 0 \in 0 .. L
    BY <1>1
  <2> QED
    BY <2>1, <2>2, <2>3
<1>8. ASSUME NEW n \in 1 .. L
      PROVE  Q[n] = base * Q[n - 1] + digits[n]
  <2>1. n \in Nat \ {0} /\ n \in 0 .. L /\ n - 1 \in 0 .. L /\ 1 .. n \in SUBSET (1 .. L)
    BY <1>1
  <2>2. 1 .. n # {} /\ Max(1 .. n) = n /\ (1 .. n) \ {Max(1 .. n)} = 1 .. n - 1
    BY <2>1, PrefixMax
  <2>3. G[1 .. n] = base * G[1 .. n - 1] + digits[n]
    BY <1>1, <1>5, <2>1, <2>2, Zenon DEF Valued
  <2> QED
    BY <2>1, <2>3
<1>9. Byte(e) = Q[L]
  BY <1>1, <1>6
<1> HIDE DEF Q
<1>10. Computes(Q, base, digits)
  BY <1>7, <1>8, <1>9 DEF e, L, Computes
<1> QED
  BY <1>10

\* d is w with c at its end.
Longer(d, w, c) ==
  /\ d \in Seq(Nat) /\ Len(d) = Len(w) + 1
  /\ (\A i \in 1 .. Len(w) : d[i] = w[i]) /\ d[Len(w) + 1] = c

LEMMA LongerIs ==
  ASSUME NEW w \in Seq(Nat), NEW c \in Nat
  PROVE  Longer(w \o <<c>>, w, c)
<1>1. w \o <<c>> = Append(w, c)
  BY AppendIsConcat
<1> QED
  BY <1>1, AppendProperties DEF Longer

\* The digits of an escape, of which there may be two or three.
Two(d, b, c) == d \in Seq(Nat) /\ Len(d) = 2 /\ d[1] = b /\ d[2] = c
Three(d, a, b, c) == d \in Seq(Nat) /\ Len(d) = 3 /\ d[1] = a /\ d[2] = b /\ d[3] = c

LEMMA TwoIs ==
  ASSUME NEW b \in Nat, NEW c \in Nat
  PROVE  Two(<<>> \o <<b>> \o <<c>>, b, c)
<1>1. PICK w : w = <<>> \o <<b>>
  OBVIOUS
<1>2. w \in Seq(Nat) /\ Len(w) = 1 /\ w[1] = b
  <2>1. <<>> \in Seq(Nat) /\ Len(<<>>) = 0
    OBVIOUS
  <2>2. Longer(w, <<>>, b)
    BY <1>1, <2>1, LongerIs
  <2> QED
    BY <2>1, <2>2 DEF Longer
<1>3. PICK d : d = w \o <<c>>
  OBVIOUS
<1>4. Longer(d, w, c)
  BY <1>2, <1>3, LongerIs
<1>5. Two(d, b, c)
  BY <1>2, <1>4 DEF Longer, Two
<1> QED
  BY <1>1, <1>3, <1>5, Zenon

LEMMA ThreeIs ==
  ASSUME NEW a \in Nat, NEW b \in Nat, NEW c \in Nat
  PROVE  Three(<<a>> \o <<b>> \o <<c>>, a, b, c)
<1>1. PICK v : v = <<a>>
  OBVIOUS
<1>2. v \in Seq(Nat) /\ Len(v) = 1 /\ v[1] = a
  BY <1>1
<1>3. PICK w : w = v \o <<b>>
  OBVIOUS
<1>4. Longer(w, v, b)
  BY <1>2, <1>3, LongerIs
<1>5. Two(w, a, b)
  BY <1>2, <1>4 DEF Longer, Two
<1>6. PICK d : d = w \o <<c>>
  OBVIOUS
<1>7. Longer(d, w, c)
  BY <1>5, <1>6, LongerIs DEF Two
<1>8. Three(d, a, b, c)
  BY <1>5, <1>7 DEF Longer, Two, Three
<1> QED
  BY <1>1, <1>3, <1>6, <1>8, Zenon

LEMMA TwoValue ==
  ASSUME NEW base \in Nat, NEW d, NEW b \in Nat, NEW c \in Nat, Two(d, b, c)
  PROVE  Byte([base |-> base, digits |-> d]) = base * b + c
<1>1. PICK Q : Computes(Q, base, d)
  BY ByteRounds DEF Two
<1>2. Q[1] = base * Q[1 - 1] + b /\ Q[2] = base * Q[2 - 1] + c
  <2>1. 1 \in 1 .. Len(d) /\ 2 \in 1 .. Len(d)
    BY DEF Two
  <2> QED
    BY <1>1, <2>1, Zenon DEF Two, Computes
<1>3. Q[1 - 1] = 0
  BY <1>1 DEF Computes
<1>4. base * 0 = 0
  OBVIOUS
<1>5. Q[1] = b
  BY <1>2, <1>3, <1>4
<1>6. Q[2] = base * b + c
  BY <1>2, <1>5
<1> QED
  BY <1>1, <1>6 DEF Computes, Two

LEMMA ThreeValue ==
  ASSUME NEW base \in Nat, NEW d, NEW a \in Nat, NEW b \in Nat, NEW c \in Nat, Three(d, a, b, c)
  PROVE  Byte([base |-> base, digits |-> d]) = base * (base * a + b) + c
<1>1. PICK Q : Computes(Q, base, d)
  BY ByteRounds DEF Three
<1>2. Q[1] = base * Q[1 - 1] + a /\ Q[2] = base * Q[2 - 1] + b /\ Q[3] = base * Q[3 - 1] + c
  <2>1. 1 \in 1 .. Len(d) /\ 2 \in 1 .. Len(d) /\ 3 \in 1 .. Len(d)
    BY DEF Three
  <2> QED
    BY <1>1, <2>1, Zenon DEF Three, Computes
<1>3. Q[1 - 1] = 0
  BY <1>1 DEF Computes
<1>4. base * 0 = 0
  OBVIOUS
<1>5. Q[1] = a
  BY <1>2, <1>3, <1>4
<1>6. Q[2] = base * a + b
  BY <1>2, <1>5
<1>7. Q[3] = base * (base * a + b) + c
  BY <1>2, <1>6
<1> QED
  BY <1>1, <1>7 DEF Computes, Three

LEMMA OneValue ==
  ASSUME NEW base \in Nat, NEW c \in Nat
  PROVE  Byte([base |-> base, digits |-> <<>> \o <<>> \o <<c>>]) = c
<1>1. PICK d : d = <<>> \o <<>> \o <<c>>
  OBVIOUS
<1>2. d = <<c>>
  BY <1>1
<1>3. d \in Seq(Nat) /\ Len(d) = 1 /\ d[1] = c
  BY <1>2
<1>4. PICK Q : Computes(Q, base, d)
  BY <1>3, ByteRounds
<1>5. Q[1] = base * Q[1 - 1] + c /\ Q[1 - 1] = 0
  BY <1>3, <1>4 DEF Computes
<1>6. Q[1] = c
  <2>1. base * 0 = 0
    OBVIOUS
  <2> QED
    BY <1>5, <2>1
<1>7. Byte([base |-> base, digits |-> d]) = c
  BY <1>3, <1>4, <1>6 DEF Computes
<1> QED
  BY <1>1, <1>7, Zenon

\* An escape of two hexadecimal or up to three octal digits is the byte that was written.
LEMMA HexadecimalIs == Byte(Hexadecimal(<<15, 15>>)) = 255
<1>1. Two(<<15, 15>>, 15, 15)
  BY DEF Two
<1>2. Byte([base |-> 16, digits |-> <<15, 15>>]) = 16 * 15 + 15
  BY <1>1, TwoValue
<1> QED
  BY <1>2 DEF Hexadecimal

LEMMA OctalIs ==
  ASSUME NEW data \in 0 .. 255
  PROVE  Byte(Octal(data)) = data
<1> DEFINE a == (data \div 64) % 8
           b == (data \div 8) % 8
           c == data % 8
<1>1. a \in Nat /\ b \in Nat /\ c \in Nat
  OBVIOUS
<1>2. CASE data >= 64
  <2>1. data >= 8 /\ data = 8 * (8 * a + b) + c
    BY <1>2
  <2>2. Octal(data) = [base |-> 8, digits |-> <<a>> \o <<b>> \o <<c>>]
    BY <1>2, <2>1, Zenon DEF Octal
  <2> HIDE DEF a, b, c
  <2>3. PICK d : d = <<a>> \o <<b>> \o <<c>>
    OBVIOUS
  <2>4. Three(d, a, b, c)
    BY <1>1, <2>3, ThreeIs
  <2>5. Byte([base |-> 8, digits |-> d]) = 8 * (8 * a + b) + c
    BY <1>1, <2>4, ThreeValue
  <2> QED
    BY <2>1, <2>2, <2>3, <2>5
<1>3. CASE ~ (data >= 64) /\ data >= 8
  <2>1. data = 8 * b + c
    BY <1>3
  <2>2. Octal(data) = [base |-> 8, digits |-> <<>> \o <<b>> \o <<c>>]
    BY <1>3, Zenon DEF Octal
  <2> HIDE DEF a, b, c
  <2>3. Two(<<>> \o <<b>> \o <<c>>, b, c)
    BY <1>1, TwoIs
  <2>4. Byte([base |-> 8, digits |-> <<>> \o <<b>> \o <<c>>]) = 8 * b + c
    BY <1>1, <2>3, TwoValue
  <2> QED
    BY <2>1, <2>2, <2>4
<1>4. CASE ~ (data >= 8)
  <2>1. ~ (data >= 64) /\ data = c
    BY <1>4
  <2>2. Octal(data) = [base |-> 8, digits |-> <<>> \o <<>> \o <<c>>]
    BY <1>4, <2>1, Zenon DEF Octal
  <2> HIDE DEF a, b, c
  <2>3. Byte([base |-> 8, digits |-> <<>> \o <<>> \o <<c>>]) = c
    BY <1>1, OneValue
  <2> QED
    BY <2>1, <2>2, <2>3
<1> QED
  BY <1>2, <1>3, <1>4

----------------------------------------------------------------------------
(***************************************************************************)
(* A set in ascending order.                                               *)
(***************************************************************************)
Rank(S, n) == Cardinality({m \in S : m < n})

LEMMA RankRises ==
  ASSUME NEW S \in SUBSET Nat, IsFiniteSet(S), NEW m \in S, NEW n \in S, m < n
  PROVE  Rank(S, m) < Rank(S, n)
<1> DEFINE M == {x \in S : x < m}
           N == {x \in S : x < n}
<1>1. IsFiniteSet(M) /\ IsFiniteSet(N)
  BY FS_Subset
<1>2. M \cup {m} \in SUBSET N /\ m \notin M
  <2>1. m \in Nat /\ n \in Nat /\ \A x \in S : x \in Nat
    OBVIOUS
  <2>2. ASSUME NEW x \in S, x < m
        PROVE  x < n
    BY <2>1, <2>2
  <2>3. M \subseteq N
    BY <2>2
  <2>4. m \in N /\ m \notin M
    BY <2>1
  <2> QED
    BY <2>3, <2>4
<1> HIDE DEF M, N
<1>3. Cardinality(M \cup {m}) = Cardinality(M) + 1
  BY <1>1, <1>2, FS_AddElement
<1>4. Cardinality(M \cup {m}) <= Cardinality(N)
  BY <1>1, <1>2, FS_Subset
<1>5. Cardinality(M) \in Nat /\ Cardinality(N) \in Nat
  BY <1>1, FS_CardinalityType
<1>6. Cardinality(M) < Cardinality(N)
  BY <1>3, <1>4, <1>5
<1> QED
  BY <1>6 DEF Rank, M, N

LEMMA RankTells ==
  ASSUME NEW S \in SUBSET Nat, IsFiniteSet(S), NEW m \in S, NEW n \in S, Rank(S, m) = Rank(S, n)
  PROVE  m = n
<1>1. Rank(S, m) \in Nat
  <2>1. IsFiniteSet({x \in S : x < m})
    BY FS_Subset
  <2> QED
    BY <2>1, FS_CardinalityType DEF Rank
<1>2. ~ (m < n) /\ ~ (n < m)
  BY <1>1, RankRises
<1> QED
  BY <1>2

\* Ascending puts every element at its place.
LEMMA AscendingIs ==
  ASSUME NEW S \in SUBSET Nat, IsFiniteSet(S)
  PROVE  /\ Cardinality(S) \in Nat
         /\ Ascending(S) \in [1 .. Cardinality(S) -> S]
         /\ \A k \in 1 .. Cardinality(S) : Rank(S, Ascending(S)[k]) = k - 1
<1> DEFINE L == Cardinality(S)
           r == [n \in S |-> Rank(S, n) + 1]
<1>1. L \in Nat
  BY FS_CardinalityType
<1>2. ASSUME NEW n \in S
      PROVE  Rank(S, n) \in Nat /\ Rank(S, n) <= L - 1
  <2> DEFINE N == {m \in S : m < n}
  <2>1. N \in SUBSET (S \ {n})
    OBVIOUS
  <2> HIDE DEF N
  <2>2. IsFiniteSet(S \ {n}) /\ Cardinality(S \ {n}) = L - 1
    BY FS_RemoveElement
  <2>3. IsFiniteSet(N) /\ Cardinality(N) <= L - 1
    <3> HIDE DEF L
    <3> QED
      BY <2>1, <2>2, FS_Subset, Zenon
  <2>4. Cardinality(N) \in Nat
    BY <2>3, FS_CardinalityType
  <2> QED
    BY <2>3, <2>4 DEF N, Rank
<1>3. r \in [S -> 1 .. L]
  BY <1>1, <1>2
<1>4. \A m, n \in S : r[m] = r[n] => m = n
  <2> SUFFICES ASSUME NEW m \in S, NEW n \in S, r[m] = r[n]
               PROVE  m = n
    OBVIOUS
  <2>1. Rank(S, m) = Rank(S, n)
    BY <1>2
  <2> QED
    BY <2>1, RankTells
<1>5. \A n \in S : r[n] = Rank(S, n) + 1
  OBVIOUS
<1> HIDE DEF r, L
<1>6. r \in Injection(S, 1 .. L)
  BY <1>3, <1>4 DEF Injection, IsInjective
<1>7. IsFiniteSet(1 .. L) /\ Cardinality(1 .. L) = L
  BY <1>1, FS_Interval
<1>8. r \in Surjection(S, 1 .. L)
  BY <1>6, <1>7, FS_Injection DEF L
<1>9. ASSUME NEW k \in 1 .. L
      PROVE  \E n \in S : Rank(S, n) = k - 1
  <2>1. PICK n \in S : r[n] = k
    BY <1>8 DEF Surjection
  <2> QED
    BY <1>2, <1>5, <2>1
<1>10. \A k \in 1 .. L : Ascending(S)[k] \in S /\ Rank(S, Ascending(S)[k]) = k - 1
  <2> TAKE k \in 1 .. L
  <2> DEFINE x == CHOOSE n \in S : Rank(S, n) = k - 1
  <2>1. x \in S /\ Rank(S, x) = k - 1
    BY <1>9
  <2>2. Ascending(S)[k] = x
    BY DEF Ascending, L, Rank
  <2> QED
    BY <2>1, <2>2
<1>11. Ascending(S) \in [1 .. L -> S]
  <2>1. ASSUME NEW k \in 1 .. L
        PROVE  (CHOOSE n \in S : Cardinality({m \in S : m < n}) = k - 1) \in S
    BY <1>9 DEF Rank
  <2> QED
    BY <2>1 DEF Ascending, L
<1> QED
  BY <1>1, <1>10, <1>11 DEF L

\* A greater element comes last.
LEMMA AscendingGrows ==
  ASSUME NEW S \in SUBSET Nat, IsFiniteSet(S), NEW n \in Nat, \A m \in S : m < n
  PROVE  Ascending(S \cup {n}) = Append(Ascending(S), n)
<1> DEFINE T == S \cup {n}
           L == Cardinality(S)
           A == Ascending(S)
           B == Ascending(T)
<1>1. T \in SUBSET Nat /\ S \in SUBSET T /\ n \in T /\ n \notin S
  OBVIOUS
<1>2. IsFiniteSet(T) /\ Cardinality(T) = L + 1
  BY <1>1, FS_AddElement
<1>3. \A m \in T : m = n \/ m \in S
  OBVIOUS
<1> HIDE DEF T
<1>4. L \in Nat /\ A \in [1 .. L -> S] /\ \A k \in 1 .. L : Rank(S, A[k]) = k - 1
  BY AscendingIs
<1>5. B \in [1 .. L + 1 -> T] /\ \A k \in 1 .. L + 1 : Rank(T, B[k]) = k - 1
  BY <1>1, <1>2, AscendingIs
<1> HIDE DEF L, A, B
<1>a. \A m \in T : m \in Nat
  BY <1>1
<1>b. \A m \in S : m \in T /\ m \in Nat
  BY <1>1
<1>c. L \in Nat
  BY <1>4
<1>d. \A x, y \in T : Rank(T, x) = Rank(T, y) => x = y
  BY <1>1, <1>2, RankTells
<1>6. ASSUME NEW k \in 1 .. L
      PROVE  B[k] = A[k]
  <2>1. PICK x : x = A[k]
    OBVIOUS
  <2>2. x \in S /\ Rank(S, x) = k - 1
    BY <1>4, <2>1
  <2>3. x \in Nat /\ x < n /\ x \in T
    BY <1>b, <2>2
  <2>4. {m \in T : m < x} = {m \in S : m < x}
    <3>1. ~ (n < x)
      BY <2>3
    <3> QED
      BY <1>1, <1>3, <3>1
  <2>5. Rank(T, x) = k - 1
    BY <2>2, <2>4 DEF Rank
  <2>6. k \in 1 .. L + 1
    BY <1>c
  <2>7. Rank(T, B[k]) = k - 1 /\ B[k] \in T
    BY <1>5, <2>6
  <2> QED
    BY <1>d, <2>1, <2>3, <2>5, <2>7
<1>7. B[L + 1] = n
  <2>1. {m \in T : m < n} = S
    <3>1. ~ (n < n)
      OBVIOUS
    <3> QED
      BY <1>1, <1>3, <3>1
  <2>2. Rank(T, n) = L
    BY <2>1 DEF Rank, L
  <2>3. L + 1 \in 1 .. L + 1 /\ (L + 1) - 1 = L
    BY <1>c
  <2>4. B[L + 1] \in T /\ Rank(T, B[L + 1]) = L
    BY <1>5, <2>3
  <2> QED
    BY <1>1, <1>d, <2>2, <2>4
<1>8. A \in Seq(Nat) /\ Len(A) = L /\ B \in Seq(Nat) /\ Len(B) = L + 1
  <2>1. A \in [1 .. L -> Nat]
    BY <1>4, <1>b
  <2>2. B \in [1 .. L + 1 -> Nat]
    BY <1>5, <1>a
  <2>3. A \in Seq(Nat) /\ Len(A) = L
    BY <1>c, <2>1
  <2>4. L + 1 \in Nat
    BY <1>c
  <2>5. B \in Seq(Nat) /\ Len(B) = L + 1
    BY <2>2, <2>4
  <2> QED
    BY <2>3, <2>5
<1>9. /\ Append(A, n) \in Seq(Nat) /\ Len(Append(A, n)) = L + 1
      /\ \A i \in 1 .. L : Append(A, n)[i] = A[i]
      /\ Append(A, n)[L + 1] = n
  BY <1>8, AppendProperties
<1>10. \A i \in 1 .. Len(B) : B[i] = Append(A, n)[i]
  <2> TAKE i \in 1 .. Len(B)
  <2>1. i \in 1 .. L \/ i = L + 1
    BY <1>4, <1>8
  <2> QED
    BY <1>6, <1>7, <1>9, <2>1
<1>11. B = Append(A, n)
  BY <1>8, <1>9, <1>10, SeqEqual
<1> QED
  BY <1>11 DEF A, B, T

----------------------------------------------------------------------------
(***************************************************************************)
(* The literals that are emitted.                                          *)
(***************************************************************************)
Escapes == {Hexadecimal(<<15, 15>>)} \cup {Octal(data) : data \in 0 .. 255}

LEMMA EscapeBytes ==
  /\ \A e \in Escapes : Byte(e) \in 0 .. 255
  /\ \A data \in 0 .. 255 : Octal(data) \in Escapes /\ Byte(Octal(data)) = data
  /\ Hexadecimal(<<15, 15>>) \in Escapes /\ Byte(Hexadecimal(<<15, 15>>)) = 255
<1>1. Byte(Hexadecimal(<<15, 15>>)) = 255
  BY HexadecimalIs
<1>2. \A data \in 0 .. 255 : Byte(Octal(data)) = data
  BY OctalIs
<1> QED
  BY <1>1, <1>2 DEF Escapes

\* b are the bytes of the text, with a 0 behind them.
Spells(b, text) ==
  /\ b \in Seq(Nat) /\ Len(b) = Len(text) + 1 /\ b[Len(text) + 1] = 0
  /\ \A i \in 1 .. Len(text) : b[i] = Byte(text[i])

LEMMA BytesSpell ==
  ASSUME NEW text \in Seq(Escapes)
  PROVE  Spells(Bytes(text), text)
<1> DEFINE L == Len(text)
           w == [k \in 1 .. L |-> Byte(text[k])]
<1>1. L \in Nat /\ DOMAIN text = 1 .. L /\ \A i \in 1 .. L : text[i] \in Escapes
  BY LenProperties, ElementOfSeq
<1> HIDE DEF L
<1>2. w \in [1 .. L -> Nat]
  <2>1. ASSUME NEW i \in 1 .. L
        PROVE  Byte(text[i]) \in Nat
    <3>1. PICK e \in Escapes : e = text[i]
      BY <1>1
    <3>2. Byte(e) \in 0 .. 255
      BY EscapeBytes
    <3>3. PICK x \in 0 .. 255 : x = Byte(e)
      BY <3>2
    <3>4. x \in Nat
      OBVIOUS
    <3> QED
      BY <3>1, <3>3, <3>4
  <2> QED
    BY <2>1
<1>3. \A i \in 1 .. L : w[i] = Byte(text[i])
  OBVIOUS
<1>4. Bytes(text) = w \o <<0>>
  BY <1>1, Zenon DEF Bytes
<1> HIDE DEF w
<1>5. w \in Seq(Nat) /\ Len(w) = L
  BY <1>1, <1>2
<1>6. Longer(w \o <<0>>, w, 0)
  BY <1>5, LongerIs
<1>7. PICK b : b = w \o <<0>>
  OBVIOUS
<1>8. Spells(b, text)
  BY <1>3, <1>5, <1>6, <1>7 DEF Longer, Spells, L
<1> QED
  BY <1>4, <1>7, <1>8

\* The digits of a position: d is as many full ones as fit, and the rest.
InDigits(d, n) ==
  /\ d \in Seq(Escapes) /\ Len(d) = n \div 255 + 1
  /\ \A i \in 1 .. n \div 255 : Byte(d[i]) = 255
  /\ Byte(d[n \div 255 + 1]) = n % 255

LEMMA DigitsAre ==
  ASSUME NEW n \in Nat
  PROVE  InDigits(Digits(n), n) /\ Digits(n) \in Seq(Escapes)
<1> DEFINE L == n \div 255
           w == [k \in 1 .. L |-> Hexadecimal(<<15, 15>>)]
           e == Octal(n % 255)
<1>1. L \in Nat /\ n % 255 \in 0 .. 255
  OBVIOUS
<1>2. e \in Escapes /\ Byte(e) = n % 255
  BY <1>1, EscapeBytes
<1>3. w \in [1 .. L -> Escapes] /\ \A i \in 1 .. L : Byte(w[i]) = 255
  BY EscapeBytes
<1>4. Digits(n) = w \o <<e>>
  BY DEF Digits
<1> HIDE DEF w, e, L
<1>5. w \in Seq(Escapes) /\ Len(w) = L
  BY <1>1, <1>3
<1>6. w \o <<e>> = Append(w, e)
  BY <1>2, <1>5, AppendIsConcat
<1>7. PICK d : d = Append(w, e)
  OBVIOUS
<1>8. d \in Seq(Escapes) /\ Len(d) = L + 1 /\ (\A i \in 1 .. L : d[i] = w[i]) /\ d[L + 1] = e
  BY <1>2, <1>5, <1>7, AppendProperties
<1>9. InDigits(d, n)
  BY <1>2, <1>3, <1>8 DEF InDigits, L
<1> QED
  BY <1>4, <1>6, <1>7, <1>8, <1>9

\* Q[n] is the text of the first n positions of the set.
Written(Q, S) ==
  /\ Q \in [0 .. Cardinality(S) -> Seq(Escapes)]
  /\ Q[0] = <<>>
  /\ \A n \in 1 .. Cardinality(S) : Q[n] = Q[n - 1] \o Digits(Ascending(S)[n])
  /\ emit_memodata(S) = Q[Cardinality(S)]

\* G is the recursive function by which the text is defined.
Texts(list, G) ==
  G = [S \in SUBSET (DOMAIN list) |->
         IF S = {} THEN <<>> ELSE G[S \ {Max(S)}] \o Digits(list[Max(S)])]

LEMMA MemodataIs ==
  ASSUME NEW P \in SUBSET Nat, IsFiniteSet(P)
  PROVE  \E Q : Written(Q, P)
<1> DEFINE L == Cardinality(P)
           list == Ascending(P)
           X == Seq(Escapes)
<1>1. L \in Nat /\ list \in [1 .. L -> Nat] /\ DOMAIN list = 1 .. L
  <2>1. L \in Nat /\ list \in [1 .. L -> P] /\ \A x \in P : x \in Nat
    BY AscendingIs
  <2> HIDE DEF L, list
  <2> QED
    BY <2>1
<1> HIDE DEF L, list
<1> DEFINE f == [c \in X \X (1 .. L) |-> c[1] \o Digits(list[c[2]])]
<1>2. ASSUME NEW x \in X, NEW i \in 1 .. L
      PROVE  x \o Digits(list[i]) \in X
  <2>1. list[i] \in Nat
    BY <1>1
  <2>2. Digits(list[i]) \in X
    BY <2>1, DigitsAre DEF X
  <2> QED
    BY <2>2, ConcatProperties
<1> HIDE DEF X
<1>3. f \in [X \X (1 .. L) -> X]
  BY <1>2
<1>a. <<>> \in X
  BY DEF X
<1>4. PICK F \in [SUBSET (1 .. L) -> X] : FoldedLeft(F, L, <<>>, f)
  <2> HIDE DEF f
  <2> QED
    BY <1>1, <1>3, <1>a, FoldExists
<1>5. Texts(list, F)
  <2>1. ASSUME NEW S \in SUBSET (1 .. L)
        PROVE  F[S] = IF S = {} THEN <<>> ELSE F[S \ {Max(S)}] \o Digits(list[Max(S)])
    <3>1. CASE S = {}
      BY <1>4, <3>1, Zenon DEF FoldedLeft
    <3>2. CASE S # {}
      <4>1. Max(S) \in 1 .. L
        <5>1. S \in SUBSET (0 .. L)
          OBVIOUS
        <5> QED
          BY <1>1, <3>2, <5>1, GreatestIs
      <4>2. F[S \ {Max(S)}] \in X
        BY <1>4
      <4>3. F[S] = f[<<F[S \ {Max(S)}], Max(S)>>]
        <5> HIDE DEF f
        <5> QED
          BY <1>4, <3>2, Zenon DEF FoldedLeft
      <4> DEFINE x == F[S \ {Max(S)}]
                 m == Max(S)
      <4>4. f[<<x, m>>] = x \o Digits(list[m])
        <5>1. x \in X /\ m \in 1 .. L
          BY <4>1, <4>2
        <5> HIDE DEF x, m
        <5> QED
          BY <5>1
      <4> QED
        BY <3>2, <4>3, <4>4, Zenon
    <3> QED
      BY <3>1, <3>2
  <2>2. F = [S \in SUBSET (1 .. L) |-> F[S]]
    OBVIOUS
  <2> QED
    BY <1>1, <2>1, <2>2, Zenon DEF Texts
<1> DEFINE G == CHOOSE G : Texts(list, G)
<1>6. Texts(list, G)
  BY <1>5
<1>7. emit_memodata(P) = G[DOMAIN list]
  BY Zenon DEF emit_memodata, FoldLeft, MapThenFoldSet, Texts, list
<1> HIDE DEF G, f
<1> DEFINE Q == [n \in 0 .. L |-> G[1 .. n]]
<1>8. Q[0] = <<>>
  <2>1. 1 .. 0 = {}
    OBVIOUS
  <2>2. G[{}] = <<>>
    BY <1>1, <1>6, Zenon DEF Texts
  <2>3. 0 \in 0 .. L
    BY <1>1
  <2> QED
    BY <2>1, <2>2, <2>3
<1>9. ASSUME NEW n \in 1 .. L
      PROVE  Q[n] = Q[n - 1] \o Digits(list[n])
  <2>1. n \in Nat \ {0} /\ n \in 0 .. L /\ n - 1 \in 0 .. L /\ 1 .. n \in SUBSET (1 .. L)
    BY <1>1
  <2>2. 1 .. n # {} /\ Max(1 .. n) = n /\ (1 .. n) \ {Max(1 .. n)} = 1 .. n - 1
    BY <2>1, PrefixMax
  <2>3. G[1 .. n] = G[1 .. n - 1] \o Digits(list[n])
    BY <1>1, <1>6, <2>1, <2>2, Zenon DEF Texts
  <2> QED
    BY <2>1, <2>3
<1>10. emit_memodata(P) = Q[L]
  BY <1>1, <1>7
<1>11. Q = [n \in 0 .. L |-> Q[n]]
  OBVIOUS
<1> HIDE DEF Q
<1>12. \A n \in 0 .. L : Q[n] \in X
  <2> DEFINE N == {n \in Nat : n <= L => Q[n] \in X}
  <2>1. 0 \in N
    BY <1>8, <1>a
  <2>2. ASSUME NEW n \in Nat, n \in N
        PROVE  n + 1 \in N
    <3> SUFFICES ASSUME n + 1 <= L
                 PROVE  Q[n + 1] \in X
      OBVIOUS
    <3> DEFINE k == n + 1
    <3>1. k \in 1 .. L /\ k - 1 = n /\ Q[n] \in X
      BY <1>1, <2>2
    <3> HIDE DEF k
    <3>2. Q[k] = Q[n] \o Digits(list[k])
      BY <1>9, <3>1
    <3>3. Q[k] \in X
      BY <1>2, <3>1, <3>2
    <3> QED
      BY <3>3 DEF k
  <2> HIDE DEF N
  <2>3. Nat \subseteq N
    BY <2>1, <2>2, NatSets
  <2> QED
    BY <1>1, <2>3 DEF N
<1>13. Q \in [0 .. L -> X]
  BY <1>11, <1>12
<1>14. Written(Q, P)
  BY <1>8, <1>9, <1>10, <1>13 DEF Written, L, list, X
<1> QED
  BY <1>14

\* What is written first stays where it is.
LEMMA WrittenStays ==
  ASSUME NEW P \in SUBSET Nat, IsFiniteSet(P), NEW Q, Written(Q, P), NEW k \in 0 .. Cardinality(P)
  PROVE  /\ Len(Q[k]) <= Len(Q[Cardinality(P)])
         /\ \A i \in 1 .. Len(Q[k]) : Q[Cardinality(P)][i] = Q[k][i]
<1> DEFINE L == Cardinality(P)
           list == Ascending(P)
           Stays(n) == Len(Q[k]) <= Len(Q[n]) /\ \A i \in 1 .. Len(Q[k]) : Q[n][i] = Q[k][i]
           N == {n \in Nat : k <= n /\ n <= L => Stays(n)}
<1>1. L \in Nat /\ \A i \in 1 .. L : list[i] \in Nat
  <2>1. L \in Nat /\ list \in [1 .. L -> P] /\ \A x \in P : x \in Nat
    BY AscendingIs
  <2> HIDE DEF L, list
  <2> QED
    BY <2>1
<1>2. (\A n \in 0 .. L : Q[n] \in Seq(Escapes)) /\ \A n \in 1 .. L : Q[n] = Q[n - 1] \o Digits(list[n])
  BY DEF Written
<1>3. k \in 0 .. L
  OBVIOUS
<1> HIDE DEF L, list
<1>4. Len(Q[k]) \in Nat
  BY <1>2, <1>3, LenProperties
<1>5. Stays(k)
  BY <1>4
<1>6. 0 \in N
  BY <1>3, <1>5
<1>7. ASSUME NEW n \in Nat, n \in N
      PROVE  n + 1 \in N
  <2> SUFFICES ASSUME k <= n + 1, n + 1 <= L
               PROVE  Stays(n + 1)
    OBVIOUS
  <2>1. CASE k = n + 1
    BY <1>5, <2>1
  <2>2. CASE k # n + 1
    <3> DEFINE m == n + 1
    <3>1. k <= n /\ n <= L /\ m \in 1 .. L /\ m - 1 = n /\ n \in 0 .. L
      BY <1>1, <1>3, <2>2
    <3>2. Stays(n)
      BY <1>7, <3>1
    <3> HIDE DEF m
    <3>3. Q[m] = Q[n] \o Digits(list[m]) /\ Q[n] \in Seq(Escapes)
      BY <1>2, <3>1
    <3>4. Digits(list[m]) \in Seq(Escapes)
      BY <1>1, <3>1, DigitsAre
    <3>5. /\ Len(Q[m]) = Len(Q[n]) + Len(Digits(list[m]))
          /\ \A i \in 1 .. Len(Q[n]) : Q[m][i] = Q[n][i]
      <4>1. PICK d : d = Digits(list[m])
        OBVIOUS
      <4>2. Len(Q[n]) \in Nat /\ Len(d) \in Nat
        BY <3>3, <3>4, <4>1, LenProperties
      <4>3. PICK q : q = Q[n]
        OBVIOUS
      <4>4. PICK r : r = Q[m]
        OBVIOUS
      <4>5. r = q \o d /\ q \in Seq(Escapes) /\ d \in Seq(Escapes)
        BY <3>3, <3>4, <4>1, <4>3, <4>4
      <4>6. /\ Len(q \o d) = Len(q) + Len(d)
            /\ \A i \in 1 .. Len(q) + Len(d) : (q \o d)[i] = IF i <= Len(q) THEN q[i] ELSE d[i - Len(q)]
        BY <4>5, ConcatProperties
      <4>7. \A i \in 1 .. Len(q) : i \in 1 .. Len(q) + Len(d) /\ i <= Len(q)
        <5>1. Len(q) \in Nat /\ Len(d) \in Nat
          BY <4>1, <4>2, <4>3
        <5> QED
          BY <5>1
      <4>8. Len(r) = Len(q) + Len(d) /\ \A i \in 1 .. Len(q) : r[i] = q[i]
        BY <4>5, <4>6, <4>7
      <4> QED
        BY <4>1, <4>3, <4>4, <4>8
    <3>6. Len(Q[n]) \in Nat /\ Len(Digits(list[m])) \in Nat
      BY <3>3, <3>4, LenProperties
    <3>7. Stays(m)
      <4>1. \A i \in 1 .. Len(Q[k]) : i \in 1 .. Len(Q[n])
        BY <1>4, <3>2, <3>6
      <4>2. \A i \in 1 .. Len(Q[k]) : Q[m][i] = Q[k][i]
        BY <3>2, <3>5, <4>1
      <4>3. Len(Q[k]) <= Len(Q[m])
        <5>1. Len(Q[k]) <= Len(Q[n])
          BY <3>2
        <5>2. Len(Q[m]) = Len(Q[n]) + Len(Digits(list[m]))
          BY <3>5
        <5>3. \A a, b, c \in Nat : a <= b => a <= b + c
          OBVIOUS
        <5> QED
          BY <1>4, <3>6, <5>1, <5>2, <5>3, Zenon
      <4> QED
        BY <4>2, <4>3
    <3> QED
      BY <3>7 DEF m
  <2> HIDE DEF Stays
  <2> QED
    BY <2>1, <2>2
<1> HIDE DEF N
<1>8. L \in N
  BY <1>1, <1>6, <1>7, NatSets
<1>9. Stays(L)
  BY <1>1, <1>3, <1>8 DEF N
<1> QED
  BY <1>9 DEF L

\* The digits of n are the bytes b from place c on.
Stands(b, c, n) ==
  /\ \A j \in 0 .. n \div 255 - 1 : b[c + j] = 255
  /\ b[c + n \div 255] = n % 255

\* b is the text of the set P, and n the position that comes after the first k of them.
FollowedBy(P, Q, b, L, k, n) ==
  /\ P \in SUBSET Nat /\ IsFiniteSet(P) /\ Written(Q, P) /\ L = Cardinality(P)
  /\ Spells(b, Q[L]) /\ k \in 0 .. L - 1 /\ n \in Nat /\ n = Ascending(P)[k + 1]

Standing(Q, b, L, k, n) ==
  /\ Stands(b, Len(Q[k]) + 1, n)
  /\ Len(Q[k + 1]) = Len(Q[k]) + n \div 255 + 1
  /\ Len(Q[k + 1]) <= Len(Q[L])
  /\ Len(Q[k]) \in Nat

LEMMA DigitsStand ==
  ASSUME NEW P, NEW Q, NEW b, NEW L, NEW k, NEW n, FollowedBy(P, Q, b, L, k, n)
  PROVE  Standing(Q, b, L, k, n)
<1>1. /\ P \in SUBSET Nat /\ IsFiniteSet(P) /\ Written(Q, P) /\ L = Cardinality(P)
      /\ Spells(b, Q[L]) /\ k \in 0 .. L - 1 /\ n \in Nat /\ n = Ascending(P)[k + 1]
  BY DEF FollowedBy
<1>2. L \in Nat
  BY <1>1, FS_CardinalityType
<1>3. k \in 0 .. L - 1
  BY <1>1, Zenon
<1>4. PICK m : m = k + 1
  OBVIOUS
<1>5. m \in 1 .. L /\ m - 1 = k /\ m \in 0 .. L /\ k \in 0 .. L
  BY <1>2, <1>3, <1>4
<1>6. Q[m] = Q[k] \o Digits(n) /\ Q[k] \in Seq(Escapes)
  BY <1>1, <1>4, <1>5 DEF Written
<1>7. PICK q : q = Q[k]
  OBVIOUS
<1>8. PICK d : d = Digits(n)
  OBVIOUS
<1>9. PICK r : r = Q[m]
  OBVIOUS
<1>10. PICK w : w = n \div 255
  OBVIOUS
<1>11. InDigits(d, n) /\ d \in Seq(Escapes)
  BY <1>1, <1>8, DigitsAre
<1>12. /\ Len(d) = w + 1 /\ \A i \in 1 .. w : Byte(d[i]) = 255
       /\ Byte(d[w + 1]) = n % 255
  BY <1>10, <1>11 DEF InDigits
<1>13. w \in Nat /\ Len(q) \in Nat /\ q \in Seq(Escapes)
  <2>1. n \div 255 \in Nat
    BY <1>1
  <2> QED
    BY <1>6, <1>7, <1>10, <2>1, LenProperties
<1>14. r = q \o d
  BY <1>6, <1>7, <1>8, <1>9
<1>15. /\ Len(q \o d) = Len(q) + Len(d)
       /\ \A i \in 1 .. Len(q) + Len(d) : (q \o d)[i] = IF i <= Len(q) THEN q[i] ELSE d[i - Len(q)]
  BY <1>11, <1>13, ConcatProperties
<1>16. Len(r) = Len(q) + w + 1
  <2>1. Len(r) = Len(q) + (w + 1)
    BY <1>12, <1>14, <1>15
  <2> QED
    BY <1>13, <2>1
<1>17. ASSUME NEW j \in 0 .. w
       PROVE  r[Len(q) + 1 + j] = d[1 + j]
  <2> DEFINE i == Len(q) + 1 + j
  <2>1. i \in 1 .. Len(q) + Len(d) /\ ~ (i <= Len(q)) /\ i - Len(q) = 1 + j
    BY <1>12, <1>13
  <2> HIDE DEF i
  <2>2. r[i] = d[1 + j]
    BY <1>14, <1>15, <2>1
  <2> QED
    BY <2>2 DEF i
<1>18. PICK t : t = Q[L]
  OBVIOUS
<1>19. Len(r) <= Len(t) /\ \A i \in 1 .. Len(r) : t[i] = r[i]
  BY <1>1, <1>5, <1>9, <1>18, WrittenStays
<1>20. Len(t) \in Nat
  <2>1. L \in 0 .. L
    BY <1>2
  <2>2. t \in Seq(Escapes)
    BY <1>1, <1>18, <2>1 DEF Written
  <2> QED
    BY <2>2, LenProperties
<1>21. \A i \in 1 .. Len(t) : b[i] = Byte(t[i])
  BY <1>1, <1>18 DEF Spells
<1>22. ASSUME NEW j \in 0 .. w
       PROVE  b[Len(q) + 1 + j] = Byte(d[1 + j])
  <2> DEFINE i == Len(q) + 1 + j
  <2>1. i \in 1 .. Len(r) /\ i \in 1 .. Len(t)
    <3>1. i \in Nat /\ 1 <= i /\ i <= Len(q) + w + 1
      BY <1>13
    <3> HIDE DEF i
    <3>2. Len(r) \in Nat
      BY <1>13, <1>16
    <3> QED
      BY <1>16, <1>19, <1>20, <3>1, <3>2
  <2>2. r[i] = d[1 + j]
    BY <1>17
  <2> HIDE DEF i
  <2>3. b[i] = Byte(t[i]) /\ t[i] = r[i]
    BY <1>19, <1>21, <2>1
  <2>4. b[i] = Byte(d[1 + j])
    BY <2>2, <2>3
  <2> QED
    BY <2>4 DEF i
<1>23. \A j \in 0 .. w - 1 : b[Len(q) + 1 + j] = 255
  <2> TAKE j \in 0 .. w - 1
  <2>1. j \in 0 .. w /\ 1 + j \in 1 .. w
    BY <1>13
  <2> QED
    BY <1>12, <1>22, <2>1
<1>24. b[Len(q) + 1 + w] = n % 255
  <2>1. w \in 0 .. w /\ 1 + w = w + 1
    BY <1>13
  <2> QED
    BY <1>12, <1>22, <2>1
<1>25. Stands(b, Len(q) + 1, n)
  BY <1>10, <1>23, <1>24 DEF Stands
<1> QED
  BY <1>4, <1>7, <1>9, <1>10, <1>13, <1>16, <1>18, <1>19, <1>25 DEF Standing

\* The loops add up the full digits and stop at the other one.
Full(b, c, l) == CHOOSE k \in 0 .. l : b[c + k] # 255 /\ \A j \in 0 .. k - 1 : b[c + j] = 255

LEMMA FullIs ==
  ASSUME NEW b, NEW c \in Nat, NEW n \in Nat, Stands(b, c, n), NEW l \in Nat, n \div 255 <= l
  PROVE  Full(b, c, l) = n \div 255
<1> DEFINE Stop(k) == b[c + k] # 255 /\ \A j \in 0 .. k - 1 : b[c + j] = 255
<1>1. PICK w : w = n \div 255
  OBVIOUS
<1>2. w \in 0 .. l /\ n % 255 # 255
  <2>1. n \div 255 \in Nat /\ n % 255 # 255
    OBVIOUS
  <2> QED
    BY <1>1, <2>1
<1>3. b[c + w] = n % 255 /\ \A j \in 0 .. w - 1 : b[c + j] = 255
  BY <1>1 DEF Stands
<1>4. Stop(w)
  BY <1>2, <1>3
<1>5. ASSUME NEW k \in 0 .. l, Stop(k)
      PROVE  k = w
  <2>1. CASE k < w
    <3>1. k \in 0 .. w - 1
      BY <1>2, <2>1
    <3> QED
      BY <1>3, <1>5, <3>1
  <2>2. CASE w < k
    <3>1. w \in 0 .. k - 1
      BY <1>2, <2>2
    <3> QED
      BY <1>2, <1>3, <1>5, <3>1
  <2> QED
    BY <1>2, <2>1, <2>2
<1> HIDE DEF Stop
<1>6. (CHOOSE k \in 0 .. l : Stop(k)) = w
  BY <1>2, <1>4, <1>5
<1> QED
  BY <1>1, <1>6 DEF Stop, Full

----------------------------------------------------------------------------
\* While the positions are read, the first k of them have been, and nothing else.
PositionsRead(Q, k) ==
  LET L == Cardinality(set.of) IN
  /\ Written(Q, set.of)
  /\ Spells(literal, Q[L])
  /\ k \in 0 .. L
  /\ cursor = Len(Q[k]) + 1
  /\ restored \in Seq(Nat) /\ Len(restored) = k
  /\ \A i \in 1 .. k : restored[i] = Ascending(set.of)[i]

PositionSet == IsFiniteSet(set.of) /\ set.of \in SUBSET (Nat \ {0})

\* A position is never 0, so that the first byte of one is never the 0 at the end.
LEMMA PositionMeant ==
  ASSUME PositionSet, NEW Q, NEW k, PositionsRead(Q, k)
  PROVE  /\ cursor \in 1 .. Len(literal)
         /\ literal[cursor] = 0 <=> k = Cardinality(set.of)
<1>1. PICK P : P = set.of
  OBVIOUS
<1>2. P \in SUBSET Nat /\ IsFiniteSet(P) /\ \A x \in P : x \in Nat /\ x # 0
  BY <1>1 DEF PositionSet
<1>3. PICK L : L = Cardinality(P)
  OBVIOUS
<1>4. L \in Nat /\ k \in 0 .. L /\ L \in 0 .. L
  <2>1. L \in Nat
    BY <1>2, <1>3, FS_CardinalityType
  <2> QED
    BY <1>1, <1>3, <2>1 DEF PositionsRead
<1>5. Written(Q, P) /\ Spells(literal, Q[L]) /\ cursor = Len(Q[k]) + 1
  BY <1>1, <1>3 DEF PositionsRead
<1>6. Q[k] \in Seq(Escapes) /\ Q[L] \in Seq(Escapes)
  BY <1>3, <1>4, <1>5 DEF Written
<1>7. Len(Q[k]) \in Nat /\ Len(Q[L]) \in Nat
  BY <1>6, LenProperties
<1>8. Len(Q[k]) <= Len(Q[L])
  BY <1>2, <1>3, <1>4, <1>5, WrittenStays
<1>9. Len(literal) = Len(Q[L]) + 1 /\ literal[Len(Q[L]) + 1] = 0
  BY <1>5 DEF Spells
<1>10. cursor \in 1 .. Len(literal)
  <2>1. \A x, y \in Nat : x <= y => x + 1 \in 1 .. y + 1
    OBVIOUS
  <2> QED
    BY <1>5, <1>7, <1>8, <1>9, <2>1, Zenon
<1>11. CASE k = L
  BY <1>1, <1>3, <1>5, <1>9, <1>10, <1>11, Zenon
<1>12. CASE k # L
  <2>1. k \in 0 .. L - 1 /\ k + 1 \in 1 .. L
    BY <1>4, <1>12
  <2>2. PICK n : n = Ascending(P)[k + 1]
    OBVIOUS
  <2>3. n \in P
    BY <1>2, <1>3, <2>1, <2>2, AscendingIs
  <2>4. n \in Nat /\ n # 0
    BY <1>2, <2>3
  <2>5. Stands(literal, cursor, n)
    <3>1. FollowedBy(P, Q, literal, L, k, n)
      BY <1>2, <1>3, <1>5, <2>1, <2>2, <2>4 DEF FollowedBy
    <3> QED
      BY <1>5, <3>1, DigitsStand DEF Standing
  <2>6. cursor \in Nat
    BY <1>5, <1>7
  <2>7. CASE n \div 255 = 0
    <3>1. n % 255 # 0 /\ cursor + 0 = cursor
      BY <2>4, <2>6, <2>7
    <3>2. literal[cursor + 0] = n % 255
      BY <2>5, <2>7 DEF Stands
    <3>3. literal[cursor] # 0
      BY <3>1, <3>2
    <3> QED
      BY <1>1, <1>3, <1>10, <1>12, <3>3
  <2>8. CASE n \div 255 # 0
    <3>1. 0 \in 0 .. n \div 255 - 1 /\ cursor + 0 = cursor
      BY <2>4, <2>6, <2>8
    <3>2. literal[cursor + 0] = 255
      BY <2>5, <3>1 DEF Stands
    <3>3. literal[cursor] # 0
      BY <3>1, <3>2
    <3> QED
      BY <1>1, <1>3, <1>10, <1>12, <3>3
  <2> QED
    BY <2>7, <2>8
<1> QED
  BY <1>11, <1>12

\* One turn of the loop reads one position.
LEMMA PositionIsRead ==
  ASSUME PositionSet, NEW Q, NEW k, PositionsRead(Q, k), MEMOSTEP
  PROVE  PositionsRead(Q, k + 1)'
<1>1. PICK P : P = set.of
  OBVIOUS
<1>2. P \in SUBSET Nat /\ IsFiniteSet(P) /\ \A x \in P : x \in Nat
  BY <1>1 DEF PositionSet
<1>3. PICK L : L = Cardinality(P)
  OBVIOUS
<1>4. L \in Nat
  BY <1>2, <1>3, FS_CardinalityType
<1>5. k \in 0 .. L /\ k # L
  BY <1>1, <1>3, PositionMeant DEF PositionsRead, MEMOSTEP
<1>6. k \in 0 .. L - 1 /\ k + 1 \in 1 .. L /\ k + 1 \in 0 .. L /\ k \in Nat
  BY <1>4, <1>5
<1>7. /\ Written(Q, P) /\ Spells(literal, Q[L]) /\ cursor = Len(Q[k]) + 1
      /\ restored \in Seq(Nat) /\ Len(restored) = k /\ \A i \in 1 .. k : restored[i] = Ascending(P)[i]
  BY <1>1, <1>3 DEF PositionsRead
<1>8. PICK n : n = Ascending(P)[k + 1]
  OBVIOUS
<1>9. n \in Nat
  <2>1. n \in P
    BY <1>2, <1>3, <1>6, <1>8, AscendingIs
  <2> QED
    BY <1>2, <2>1
<1>10. /\ Stands(literal, cursor, n)
       /\ Len(Q[k + 1]) = Len(Q[k]) + n \div 255 + 1
       /\ Len(Q[k + 1]) <= Len(Q[L])
       /\ Len(Q[k]) \in Nat
  <2>1. FollowedBy(P, Q, literal, L, k, n)
    BY <1>2, <1>3, <1>6, <1>7, <1>8, <1>9 DEF FollowedBy
  <2> QED
    BY <1>7, <2>1, DigitsStand DEF Standing
<1>11. PICK w : w = n \div 255
  OBVIOUS
<1>12. w \in Nat /\ 255 * w + (n % 255) = n
  <2>1. \A x \in Nat : x \div 255 \in Nat /\ 255 * (x \div 255) + (x % 255) = x
    OBVIOUS
  <2> QED
    BY <1>9, <1>11, <2>1, Zenon
<1>13. Len(literal) \in Nat /\ cursor \in Nat /\ w <= Len(literal)
  <2>1. Len(literal) = Len(Q[L]) + 1 /\ literal \in Seq(Nat)
    BY <1>7 DEF Spells
  <2>2. Len(literal) \in Nat
    BY <2>1, LenProperties
  <2>3. Len(Q[L]) \in Nat
    <3>1. L \in 0 .. L
      BY <1>4
    <3>2. Q[L] \in Seq(Escapes)
      BY <1>3, <1>7, <3>1 DEF Written
    <3> QED
      BY <3>2, LenProperties
  <2>4. \A y, z, u \in Nat : y + u + 1 <= z => u <= z + 1 /\ y + 1 \in Nat
    OBVIOUS
  <2>5. Len(Q[k]) + w + 1 <= Len(Q[L])
    BY <1>10, <1>11
  <2>6. w <= Len(Q[L]) + 1 /\ Len(Q[k]) + 1 \in Nat
    BY <1>10, <1>12, <2>3, <2>4, <2>5, Zenon
  <2> QED
    BY <1>7, <2>1, <2>2, <2>6, Zenon
<1>14. Full(literal, cursor, Len(literal)) = w
  <2>1. n \div 255 <= Len(literal)
    BY <1>11, <1>13
  <2>2. Full(literal, cursor, Len(literal)) = n \div 255
    BY <1>9, <1>10, <1>13, <2>1, FullIs
  <2> QED
    BY <1>11, <2>2
<1>15. restored' = Append(restored, 255 * w + literal[cursor + w]) /\ cursor' = cursor + w + 1
  BY <1>14 DEF MEMOSTEP, Full
<1>16. literal[cursor + w] = n % 255
  BY <1>10, <1>11 DEF Stands
<1>17. restored' = Append(restored, n)
  BY <1>12, <1>15, <1>16, Zenon
<1>18. cursor' = Len(Q[k + 1]) + 1
  BY <1>7, <1>10, <1>11, <1>12, <1>15
<1>19. /\ restored' \in Seq(Nat) /\ Len(restored') = k + 1
       /\ \A i \in 1 .. k : restored'[i] = restored[i]
       /\ restored'[k + 1] = n
  BY <1>7, <1>9, <1>17, AppendProperties
<1>20. \A i \in 1 .. k + 1 : restored'[i] = Ascending(P)[i]
  <2> TAKE i \in 1 .. k + 1
  <2>1. i \in 1 .. k \/ i = k + 1
    BY <1>6
  <2> QED
    BY <1>7, <1>8, <1>19, <2>1
<1>21. set' = set /\ literal' = literal
  BY DEF MEMOSTEP
<1> QED
  BY <1>1, <1>3, <1>6, <1>7, <1>18, <1>19, <1>20, <1>21 DEF PositionsRead

\* At the end, all of them have been read.
LEMMA PositionsAreRead ==
  ASSUME PositionSet, NEW Q, NEW k, PositionsRead(Q, k), k = Cardinality(set.of)
  PROVE  restored = Ascending(set.of)
<1>1. PICK P : P = set.of
  OBVIOUS
<1>2. P \in SUBSET Nat /\ IsFiniteSet(P) /\ \A x \in P : x \in Nat
  BY <1>1 DEF PositionSet
<1>3. k \in Nat
  BY <1>1, <1>2, FS_CardinalityType
<1>4. PICK A : A = Ascending(P)
  OBVIOUS
<1>5. A \in [1 .. k -> P]
  BY <1>1, <1>2, <1>4, AscendingIs
<1>6. A \in [1 .. k -> Nat]
  BY <1>2, <1>5
<1>7. A \in Seq(Nat) /\ Len(A) = k
  BY <1>3, <1>6
<1>8. restored \in Seq(Nat) /\ Len(restored) = k /\ \A i \in 1 .. k : restored[i] = A[i]
  BY <1>1, <1>4 DEF PositionsRead
<1>9. restored = A
  BY <1>7, <1>8, SeqEqual
<1> QED
  BY <1>1, <1>4, <1>9

----------------------------------------------------------------------------
(***************************************************************************)
(* Sets of bits.                                                           *)
(***************************************************************************)
Powers == {1, 2, 4, 8, 16, 32, 64, 128}

IsPower(k, p) ==
  /\ k = 0 => p = 1
  /\ k = 1 => p = 2
  /\ k = 2 => p = 4
  /\ k = 3 => p = 8
  /\ k = 4 => p = 16
  /\ k = 5 => p = 32
  /\ k = 6 => p = 64
  /\ k = 7 => p = 128

LEMMA PowerIs ==
  ASSUME NEW k \in 0 .. 7
  PROVE  IsPower(k, 2 ^ k)
<1>1. /\ 2 ^ 0 = 1 /\ 2 ^ 1 = 2 /\ 2 ^ 2 = 4 /\ 2 ^ 3 = 8
      /\ 2 ^ 4 = 16 /\ 2 ^ 5 = 32 /\ 2 ^ 6 = 64 /\ 2 ^ 7 = 128
  OBVIOUS
<1>2. PICK p : p = 2 ^ k
  OBVIOUS
<1>3. k = 0 => p = 1
  BY <1>1, <1>2, Zenon
<1>4. k = 1 => p = 2
  BY <1>1, <1>2, Zenon
<1>5. k = 2 => p = 4
  BY <1>1, <1>2, Zenon
<1>6. k = 3 => p = 8
  BY <1>1, <1>2, Zenon
<1>7. k = 4 => p = 16
  BY <1>1, <1>2, Zenon
<1>8. k = 5 => p = 32
  BY <1>1, <1>2, Zenon
<1>9. k = 6 => p = 64
  BY <1>1, <1>2, Zenon
<1>10. k = 7 => p = 128
  BY <1>1, <1>2, Zenon
<1>11. IsPower(k, p)
  BY <1>3, <1>4, <1>5, <1>6, <1>7, <1>8, <1>9, <1>10, Zenon DEF IsPower
<1> QED
  BY <1>2, <1>11, Zenon

IfIn(T, p) == IF p \in T THEN p ELSE 0

\* What the bits of T amount to.
Weight(T) == IfIn(T, 1) + IfIn(T, 2) + IfIn(T, 4) + IfIn(T, 8)
               + IfIn(T, 16) + IfIn(T, 32) + IfIn(T, 64) + IfIn(T, 128)

LEMMA WeightType ==
  ASSUME NEW T
  PROVE  Weight(T) \in 0 .. 255
BY DEF Weight, IfIn

LEMMA WeightWithout ==
  ASSUME NEW T \in SUBSET Powers, NEW x \in T
  PROVE  Weight(T) = x + Weight(T \ {x}) /\ x \in Nat \ {0}
<1>1. x \in Powers
  OBVIOUS
<1>2. CASE x = 1
  BY <1>2 DEF Weight, IfIn
<1>3. CASE x = 2
  BY <1>3 DEF Weight, IfIn
<1>4. CASE x = 4
  BY <1>4 DEF Weight, IfIn
<1>5. CASE x = 8
  BY <1>5 DEF Weight, IfIn
<1>6. CASE x = 16
  BY <1>6 DEF Weight, IfIn
<1>7. CASE x = 32
  BY <1>7 DEF Weight, IfIn
<1>8. CASE x = 64
  BY <1>8 DEF Weight, IfIn
<1>9. CASE x = 128
  BY <1>9 DEF Weight, IfIn
<1> QED
  BY <1>1, <1>2, <1>3, <1>4, <1>5, <1>6, <1>7, <1>8, <1>9 DEF Powers

\* G is the recursive function by which the sum is defined.
Sums(T, G) ==
  G = [s \in SUBSET T |-> IF s = {} THEN 0 ELSE (CHOOSE x \in s : TRUE) + G[s \ {CHOOSE x \in s : TRUE}]]

LEMMA SumIsWeight ==
  ASSUME NEW T \in SUBSET Powers
  PROVE  SumSet(T) = Weight(T)
<1> DEFINE F == [s \in SUBSET T |-> Weight(s)]
           G == CHOOSE G : Sums(T, G)
<1>1. Weight({}) = 0
  BY DEF Weight, IfIn
<1>2. ASSUME NEW s \in SUBSET T
      PROVE  F[s] = IF s = {} THEN 0 ELSE (CHOOSE x \in s : TRUE) + F[s \ {CHOOSE x \in s : TRUE}]
  <2>1. CASE s = {}
    BY <1>1, <2>1
  <2>2. CASE s # {}
    <3>1. PICK x : x = CHOOSE y \in s : TRUE
      OBVIOUS
    <3>2. x \in s
      BY <2>2, <3>1
    <3>3. s \in SUBSET Powers /\ s \ {x} \in SUBSET T
      OBVIOUS
    <3>4. Weight(s) = x + Weight(s \ {x})
      BY <3>2, <3>3, WeightWithout
    <3>5. F[s] = x + F[s \ {x}]
      BY <3>3, <3>4
    <3> QED
      BY <2>2, <3>1, <3>5, Zenon
  <2> QED
    BY <2>1, <2>2
<1>3. F = [s \in SUBSET T |-> F[s]]
  OBVIOUS
<1> HIDE DEF F
<1>4. Sums(T, F)
  BY <1>2, <1>3, Zenon DEF Sums
<1>5. Sums(T, G)
  BY <1>4
<1>6. SumSet(T) = G[T]
  BY Zenon DEF SumSet, FoldSet, MapThenFoldSet, Sums
<1> HIDE DEF G
<1> DEFINE N == {n \in Nat : \A s \in SUBSET T : Weight(s) <= n => G[s] = Weight(s)}
<1>7. ASSUME NEW s \in SUBSET T, s # {}
      PROVE  \E x \in s : G[s] = x + G[s \ {x}]
  <2>1. PICK x : x = CHOOSE y \in s : TRUE
    OBVIOUS
  <2>2. G[s] = x + G[s \ {x}]
    BY <1>5, <1>7, <2>1, Zenon DEF Sums
  <2> QED
    BY <1>7, <2>1, <2>2
<1>8. G[{}] = 0
  BY <1>5, Zenon DEF Sums
<1>9. 0 \in N
  <2> SUFFICES ASSUME NEW s \in SUBSET T, Weight(s) <= 0
               PROVE  G[s] = Weight(s)
    OBVIOUS
  <2>1. s = {}
    <3> SUFFICES ASSUME NEW x \in s
                 PROVE  FALSE
      OBVIOUS
    <3>1. s \in SUBSET Powers
      OBVIOUS
    <3>2. Weight(s) = x + Weight(s \ {x}) /\ x \in Nat \ {0}
      BY <3>1, WeightWithout
    <3>3. Weight(s \ {x}) \in 0 .. 255
      BY WeightType
    <3> QED
      BY <3>2, <3>3
  <2> QED
    BY <1>1, <1>8, <2>1
<1>10. ASSUME NEW n \in Nat, n \in N
       PROVE  n + 1 \in N
  <2> SUFFICES ASSUME NEW s \in SUBSET T, Weight(s) <= n + 1
               PROVE  G[s] = Weight(s)
    OBVIOUS
  <2>1. CASE s = {}
    BY <1>1, <1>8, <2>1
  <2>2. CASE s # {}
    <3>1. PICK x \in s : G[s] = x + G[s \ {x}]
      BY <1>7, <2>2
    <3>2. s \in SUBSET Powers /\ s \ {x} \in SUBSET T
      OBVIOUS
    <3>3. Weight(s) = x + Weight(s \ {x}) /\ x \in Nat \ {0}
      BY <3>2, WeightWithout
    <3>4. Weight(s \ {x}) \in 0 .. 255
      BY WeightType
    <3>5. Weight(s \ {x}) <= n
      BY <3>3, <3>4
    <3>6. G[s \ {x}] = Weight(s \ {x})
      BY <1>10, <3>2, <3>5
    <3> QED
      BY <3>1, <3>3, <3>6
  <2> QED
    BY <2>1, <2>2
<1> HIDE DEF N
<1>11. 255 \in N
  BY <1>9, <1>10, NatSets
<1>12. G[T] = Weight(T)
  <2>1. Weight(T) <= 255 /\ T \in SUBSET T
    BY WeightType
  <2> QED
    BY <1>11, <2>1 DEF N
<1> QED
  BY <1>6, <1>12

\* Every bit can be told from the sum.
LEMMA BitsTell ==
  ASSUME NEW T, NEW k \in 0 .. 7
  PROVE  (Weight(T) \div 2 ^ k) % 2 = 1 <=> 2 ^ k \in T
<1> DEFINE a == IfIn(T, 1)
           b == IfIn(T, 2)
           c == IfIn(T, 4)
           d == IfIn(T, 8)
           e == IfIn(T, 16)
           f == IfIn(T, 32)
           g == IfIn(T, 64)
           h == IfIn(T, 128)
           w == Weight(T)
<1>1. /\ a \in 0 .. 1 /\ (1 \in T <=> a = 1)
      /\ b \in {0, 2} /\ (2 \in T <=> b = 2)
      /\ c \in {0, 4} /\ (4 \in T <=> c = 4)
      /\ d \in {0, 8} /\ (8 \in T <=> d = 8)
      /\ e \in {0, 16} /\ (16 \in T <=> e = 16)
      /\ f \in {0, 32} /\ (32 \in T <=> f = 32)
      /\ g \in {0, 64} /\ (64 \in T <=> g = 64)
      /\ h \in {0, 128} /\ (128 \in T <=> h = 128)
  BY DEF IfIn
<1>2. w = a + b + c + d + e + f + g + h
  BY DEF Weight
<1> HIDE DEF a, b, c, d, e, f, g, h, w
<1>3. /\ (w \div 1) % 2 = 1 <=> 1 \in T
      /\ (w \div 2) % 2 = 1 <=> 2 \in T
      /\ (w \div 4) % 2 = 1 <=> 4 \in T
      /\ (w \div 8) % 2 = 1 <=> 8 \in T
  BY <1>1, <1>2
<1>4. /\ (w \div 16) % 2 = 1 <=> 16 \in T
      /\ (w \div 32) % 2 = 1 <=> 32 \in T
      /\ (w \div 64) % 2 = 1 <=> 64 \in T
      /\ (w \div 128) % 2 = 1 <=> 128 \in T
  BY <1>1, <1>2
<1>5. PICK p : p = 2 ^ k
  OBVIOUS
<1>6. IsPower(k, p)
  BY <1>5, PowerIs
<1>7. (w \div p) % 2 = 1 <=> p \in T
  <2>1. \/ p = 1 \/ p = 2 \/ p = 4 \/ p = 8
        \/ p = 16 \/ p = 32 \/ p = 64 \/ p = 128
    <3>1. \/ k = 0 \/ k = 1 \/ k = 2 \/ k = 3
          \/ k = 4 \/ k = 5 \/ k = 6 \/ k = 7
      OBVIOUS
    <3> QED
      BY <1>6, <3>1, Zenon DEF IsPower
  <2>2. CASE p = 1
    BY <1>3, <2>2, Zenon
  <2>3. CASE p = 2
    BY <1>3, <2>3, Zenon
  <2>4. CASE p = 4
    BY <1>3, <2>4, Zenon
  <2>5. CASE p = 8
    BY <1>3, <2>5, Zenon
  <2>6. CASE p = 16
    BY <1>4, <2>6, Zenon
  <2>7. CASE p = 32
    BY <1>4, <2>7, Zenon
  <2>8. CASE p = 64
    BY <1>4, <2>8, Zenon
  <2>9. CASE p = 128
    BY <1>4, <2>9, Zenon
  <2> QED
    BY <2>1, <2>2, <2>3, <2>4, <2>5, <2>6, <2>7, <2>8, <2>9
<1> QED
  BY <1>5, <1>7, Zenon DEF w

----------------------------------------------------------------------------
(***************************************************************************)
(* Sets of object numbers.                                                 *)
(***************************************************************************)
\* The bits of byte i of a set.
Bits(ids, i) == {2 ^ (id % 8) : id \in {j \in ids : j \div 8 = i}}

LEMMA BitsType ==
  ASSUME NEW ids \in SUBSET Nat, NEW i
  PROVE  Bits(ids, i) \in SUBSET Powers
<1>1. SUFFICES ASSUME NEW id \in ids
               PROVE  2 ^ (id % 8) \in Powers
  BY DEF Bits
<1>2. PICK k : k = id % 8
  OBVIOUS
<1>3. k \in 0 .. 7
  <2>1. id \in Nat
    OBVIOUS
  <2> QED
    BY <1>2, <2>1
<1>4. IsPower(k, 2 ^ k)
  BY <1>3, PowerIs
<1>5. \/ k = 0 \/ k = 1 \/ k = 2 \/ k = 3
      \/ k = 4 \/ k = 5 \/ k = 6 \/ k = 7
  BY <1>3
<1>6. PICK p : p = 2 ^ k
  OBVIOUS
<1>7. \/ p = 1 \/ p = 2 \/ p = 4 \/ p = 8
      \/ p = 16 \/ p = 32 \/ p = 64 \/ p = 128
  BY <1>4, <1>5, <1>6, Zenon DEF IsPower
<1>8. p \in Powers
  BY <1>7 DEF Powers
<1> QED
  BY <1>2, <1>6, <1>8, Zenon

\* Every number of the set has a bit of its own.
LEMMA BitsAre ==
  ASSUME NEW ids \in SUBSET Nat, NEW id \in Nat
  PROVE  2 ^ (id % 8) \in Bits(ids, id \div 8) <=> id \in ids
<1>1. ASSUME id \in ids
      PROVE  2 ^ (id % 8) \in Bits(ids, id \div 8)
  BY <1>1 DEF Bits
<1>2. ASSUME 2 ^ (id % 8) \in Bits(ids, id \div 8)
      PROVE  id \in ids
  <2>1. PICK j \in ids : j \div 8 = id \div 8 /\ 2 ^ (j % 8) = 2 ^ (id % 8)
    BY <1>2 DEF Bits
  <2>2. j \in Nat
    OBVIOUS
  <2>3. PICK k : k = id % 8
    OBVIOUS
  <2>4. PICK m : m = j % 8
    OBVIOUS
  <2>5. k \in 0 .. 7 /\ m \in 0 .. 7
    BY <2>2, <2>3, <2>4
  <2>6. PICK p : p = 2 ^ k
    OBVIOUS
  <2>7. IsPower(k, p) /\ IsPower(m, p)
    <3>1. IsPower(k, 2 ^ k) /\ IsPower(m, 2 ^ m)
      BY <2>5, PowerIs
    <3>2. p = 2 ^ m
      BY <2>1, <2>3, <2>4, <2>6
    <3> QED
      BY <2>6, <3>1, <3>2, Zenon
  <2>8. k = m
    BY <2>5, <2>7 DEF IsPower
  <2>9. \A x, y \in Nat : (x % 8 = y % 8 /\ x \div 8 = y \div 8) => x = y
    OBVIOUS
  <2>10. id = j
    BY <2>1, <2>2, <2>3, <2>4, <2>8, <2>9
  <2> QED
    BY <2>10
<1> QED
  BY <1>1, <1>2

\* b holds the bits of the ids, all of them, whether or not the last byte was written.
Holding(b, count, ids) ==
  \A i \in 0 .. (count + 7) \div 8 - 1 :
    i + 1 \in 1 .. Len(b) /\ b[i + 1] = Weight(Bits(ids, i))

LEMMA MemowhatIs ==
  ASSUME NEW count \in Nat \ {0}, NEW ids \in SUBSET Nat
  PROVE  /\ emit_memowhat(count, ids) \in Seq(Escapes)
         /\ Holding(Bytes(emit_memowhat(count, ids)), count, ids)
<1> DEFINE n == (count + 7) \div 8
           Data(i) == SumSet({2 ^ (id % 8) : id \in {j \in ids : j \div 8 = i}})
           l == IF n > 0 /\ Data(n - 1) = 0 THEN n - 1 ELSE n
           t == [i \in 1 .. l |-> Octal(Data(i - 1))]
<1>1. n \in Nat \ {0}
  OBVIOUS
<1>2. \A i : Data(i) = Weight(Bits(ids, i)) /\ Data(i) \in 0 .. 255
  <2> TAKE i
  <2>1. Bits(ids, i) \in SUBSET Powers
    BY BitsType
  <2>2. SumSet(Bits(ids, i)) = Weight(Bits(ids, i)) /\ Weight(Bits(ids, i)) \in 0 .. 255
    BY <2>1, SumIsWeight, WeightType
  <2>3. Data(i) = SumSet(Bits(ids, i))
    BY Zenon DEF Bits
  <2> QED
    BY <2>2, <2>3
<1>3. emit_memowhat(count, ids) = t
  BY Zenon DEF emit_memowhat
<1> HIDE DEF n, Data
<1>4. /\ l = n - 1 /\ Data(n - 1) = 0
      \/ l = n
  BY <1>1
<1>5. l \in Nat
  BY <1>1, <1>4
<1> HIDE DEF l
<1>6. \A i \in 1 .. l : Octal(Data(i - 1)) \in Escapes /\ Byte(Octal(Data(i - 1))) = Data(i - 1)
  BY <1>2, EscapeBytes
<1>7. t \in [1 .. l -> Escapes] /\ \A i \in 1 .. l : Byte(t[i]) = Data(i - 1)
  BY <1>6
<1> HIDE DEF t
<1>8. t \in Seq(Escapes) /\ Len(t) = l
  BY <1>5, <1>7
<1>9. PICK b : b = Bytes(t)
  OBVIOUS
<1>10. Spells(b, t)
  BY <1>8, <1>9, BytesSpell
<1>11. Len(b) = l + 1 /\ b[l + 1] = 0 /\ \A i \in 1 .. l : b[i] = Byte(t[i])
  BY <1>8, <1>10 DEF Spells
<1>12. ASSUME NEW i \in 0 .. n - 1
       PROVE  i + 1 \in 1 .. Len(b) /\ b[i + 1] = Data(i)
  <2>1. i + 1 \in 1 .. Len(b)
    BY <1>1, <1>4, <1>5, <1>11
  <2>2. CASE i + 1 \in 1 .. l
    <3>1. (i + 1) - 1 = i
      OBVIOUS
    <3>2. b[i + 1] = Data((i + 1) - 1)
      BY <1>7, <1>11, <2>2
    <3> QED
      BY <2>1, <3>1, <3>2
  <2>3. CASE ~ (i + 1 \in 1 .. l)
    <3>1. i = n - 1 /\ l = n - 1 /\ i + 1 = l + 1 /\ Data(n - 1) = 0
      BY <1>1, <1>4, <1>5, <2>3
    <3> QED
      BY <1>11, <2>1, <3>1
  <2> QED
    BY <2>2, <2>3
<1>13. Holding(b, count, ids)
  BY <1>2, <1>12 DEF Holding, n
<1> QED
  BY <1>3, <1>8, <1>9, <1>13

----------------------------------------------------------------------------
IdSet == set.count \in Nat \ {0} /\ set.of \in SUBSET (0 .. set.count - 1)

\* While the numbers are compared, those below the next one have been.
NumbersRead ==
  /\ literal \in Seq(Nat)
  /\ Holding(literal, set.count, set.of)
  /\ cursor \in 1 .. set.count
  /\ restored = Ascending({id \in set.of : id < cursor - 1})

LEMMA NumberMeant ==
  ASSUME IdSet, NumbersRead
  PROVE  /\ (cursor - 1) \div 8 + 1 \in 1 .. Len(literal)
         /\ setinwhat(cursor - 1) <=> cursor - 1 \in set.of
<1>1. PICK id : id = cursor - 1
  OBVIOUS
<1>2. PICK count : count = set.count
  OBVIOUS
<1>3. PICK ids : ids = set.of
  OBVIOUS
<1>4. count \in Nat \ {0} /\ id \in 0 .. count - 1 /\ ids \in SUBSET Nat
  BY <1>1, <1>2, <1>3 DEF IdSet, NumbersRead
<1>5. PICK i : i = id \div 8
  OBVIOUS
<1>6. i \in 0 .. (count + 7) \div 8 - 1
  BY <1>4, <1>5
<1>7. Holding(literal, count, ids)
  BY <1>2, <1>3 DEF NumbersRead
<1>8. i + 1 \in 1 .. Len(literal) /\ literal[i + 1] = Weight(Bits(ids, i))
  BY <1>6, <1>7 DEF Holding
<1>9. PICK k : k = id % 8
  OBVIOUS
<1>10. k \in 0 .. 7 /\ id \in Nat
  BY <1>4, <1>9
<1>11. (Weight(Bits(ids, i)) \div 2 ^ k) % 2 = 1 <=> 2 ^ k \in Bits(ids, i)
  BY <1>10, BitsTell
<1>12. 2 ^ k \in Bits(ids, i) <=> id \in ids
  BY <1>4, <1>5, <1>9, <1>10, BitsAre
<1>13. setinwhat(id) <=> (literal[i + 1] \div 2 ^ k) % 2 = 1
  BY <1>5, <1>9, Zenon DEF setinwhat
<1>14. setinwhat(id) <=> id \in ids
  BY <1>8, <1>11, <1>12, <1>13, Zenon
<1> QED
  BY <1>1, <1>3, <1>5, <1>8, <1>14

LEMMA NumberIsRead ==
  ASSUME IdSet, NumbersRead, Compare
  PROVE  restored' = Ascending({id \in set.of : id < cursor})
<1>1. PICK n : n = cursor - 1
  OBVIOUS
<1>2. n \in Nat /\ cursor = n + 1 /\ set.of \in SUBSET Nat /\ set.count \in Nat
  BY <1>1 DEF IdSet, NumbersRead
<1> DEFINE S == {id \in set.of : id < n}
           T == {id \in set.of : id < cursor}
<1>3. restored = Ascending(S)
  BY <1>1 DEF NumbersRead
<1>4. S \in SUBSET Nat /\ IsFiniteSet(S) /\ \A m \in S : m < n
  <2>1. IsFiniteSet(0 .. n)
    BY <1>2, FS_Interval
  <2>2. \A m \in set.of : m \in Nat
    BY <1>2
  <2>3. S \in SUBSET (0 .. n)
    BY <1>2, <2>2
  <2> QED
    BY <2>1, <2>2, <2>3, FS_Subset
<1>5. \A m \in set.of : m < cursor <=> m < n \/ m = n
  BY <1>2
<1>6. restored' = IF setinwhat(n) THEN Append(restored, n) ELSE restored
  BY <1>1 DEF Compare
<1>7. setinwhat(n) <=> n \in set.of
  BY <1>1, NumberMeant
<1>8. CASE n \in set.of
  <2>1. T = S \cup {n}
    BY <1>5, <1>8
  <2> HIDE DEF S, T
  <2>2. Ascending(T) = Append(Ascending(S), n)
    BY <1>2, <1>4, <2>1, AscendingGrows
  <2>3. restored' = Ascending(T)
    BY <1>3, <1>6, <1>7, <1>8, <2>2
  <2> QED
    BY <2>3 DEF T
<1>9. CASE n \notin set.of
  <2>1. T = S
    BY <1>5, <1>9
  <2> HIDE DEF S, T
  <2>2. restored' = Ascending(T)
    BY <1>3, <1>6, <1>7, <1>9, <2>1
  <2> QED
    BY <2>2 DEF T
<1> QED
  BY <1>8, <1>9

LEMMA AscendingEmpty == Ascending({}) = <<>>
<1>1. IsFiniteSet({}) /\ Cardinality({}) = 0
  BY FS_EmptySet
<1>2. Ascending({}) \in [1 .. 0 -> {}]
  BY <1>1, AscendingIs
<1> QED
  BY <1>2

----------------------------------------------------------------------------
\* What is true of the literal and of what has been read from it, at any time.
TextInv ==
  /\ \/ set.kind = "locals" /\ PositionSet
     \/ set.kind = "ids" /\ IdSet
  /\ step \in {"emit", "read", "done"}
  /\ step = "emit" => restored = <<>> /\ cursor = 1
  /\ step = "read" => IF set.kind = "locals" THEN \E Q, k : PositionsRead(Q, k) ELSE NumbersRead
  /\ step = "done" => restored = Ascending(set.of)

LEMMA TextInitSound ==
  ASSUME TextInit
  PROVE  TextInv
<1>1. step = "emit" /\ cursor = 1 /\ restored = <<>>
  BY DEF TextInit
<1>2. CASE set \in [kind : {"locals"}, of : PositionSets, count : {0}]
  <2>1. set.kind = "locals" /\ set.of \in PositionSets
    BY <1>2
  <2>2. IsFiniteSet(set.of) /\ set.of \in SUBSET (Nat \ {0})
    BY <2>1, TextAssumption
  <2> QED
    BY <1>1, <2>1, <2>2 DEF TextInv, PositionSet
<1>3. CASE set \in {[kind |-> "ids", of |-> i[2], count |-> i[1]] : i \in IdSets}
  <2>1. PICK i \in IdSets : set = [kind |-> "ids", of |-> i[2], count |-> i[1]]
    BY <1>3
  <2>2. set.kind = "ids" /\ set.of = i[2] /\ set.count = i[1]
    BY <2>1
  <2>3. i[1] \in Nat \ {0} /\ i[2] \subseteq 0 .. i[1] - 1
    BY TextAssumption
  <2>4. IdSet
    BY <2>2, <2>3 DEF IdSet
  <2> QED
    BY <1>1, <2>2, <2>4 DEF TextInv
<1> QED
  BY <1>2, <1>3 DEF TextInit

LEMMA EmitSound ==
  ASSUME TextInv, Emit
  PROVE  TextInv'
<1>1. /\ set' = set /\ step = "emit" /\ step' = "read"
      /\ cursor = 1 /\ cursor' = 1 /\ restored = <<>> /\ restored' = <<>>
  BY DEF Emit, TextInv
<1>2. CASE set.kind = "locals" /\ PositionSet
  <2>1. PICK P : P = set.of
    OBVIOUS
  <2>2. P \in SUBSET Nat /\ IsFiniteSet(P)
    BY <1>2, <2>1 DEF PositionSet
  <2>3. PICK Q : Written(Q, P)
    BY <2>2, MemodataIs
  <2>4. PICK L : L = Cardinality(P)
    OBVIOUS
  <2>5. L \in Nat /\ L \in 0 .. L /\ 0 \in 0 .. L
    BY <2>2, <2>4, FS_CardinalityType
  <2>6. Q[0] = <<>> /\ Q[L] \in Seq(Escapes) /\ emit_memodata(P) = Q[L]
    BY <2>3, <2>4, <2>5 DEF Written
  <2>7. literal' = Bytes(Q[L])
    BY <1>2, <2>1, <2>6 DEF Emit
  <2>8. Spells(literal', Q[L])
    BY <2>6, <2>7, BytesSpell
  <2>9. cursor' = Len(Q[0]) + 1 /\ restored' \in Seq(Nat) /\ Len(restored') = 0
    BY <1>1, <2>6
  <2>10. PositionsRead(Q, 0)'
    BY <1>1, <2>1, <2>3, <2>4, <2>5, <2>8, <2>9 DEF PositionsRead
  <2>11. PositionSet'
    BY <1>1, <1>2 DEF PositionSet
  <2> QED
    BY <1>1, <1>2, <2>10, <2>11 DEF TextInv
<1>3. CASE set.kind = "ids" /\ IdSet
  <2>1. set.count \in Nat \ {0} /\ set.of \in SUBSET Nat
    BY <1>3 DEF IdSet
  <2>2. literal' = Bytes(emit_memowhat(set.count, set.of))
    BY <1>3 DEF Emit
  <2>3. Holding(literal', set.count, set.of) /\ literal' \in Seq(Nat)
    <3>1. PICK t : t = emit_memowhat(set.count, set.of)
      OBVIOUS
    <3>2. t \in Seq(Escapes) /\ Holding(Bytes(t), set.count, set.of)
      BY <2>1, <3>1, MemowhatIs
    <3>3. Spells(Bytes(t), t)
      BY <3>2, BytesSpell
    <3> QED
      BY <2>2, <3>1, <3>2, <3>3 DEF Spells
  <2>4. {id \in set.of : id < 1 - 1} = {}
    BY <2>1
  <2>5. 1 \in 1 .. set.count
    BY <2>1
  <2>6. NumbersRead'
    BY <1>1, <2>3, <2>4, <2>5, AscendingEmpty DEF NumbersRead
  <2>7. IdSet'
    BY <1>1, <1>3 DEF IdSet
  <2> QED
    BY <1>1, <1>3, <2>6, <2>7 DEF TextInv
<1> QED
  BY <1>2, <1>3 DEF TextInv

LEMMA ReadSound ==
  ASSUME TextInv, MEMOSTEP \/ Break
  PROVE  TextInv'
<1>1. step = "read" /\ set.kind = "locals" /\ set' = set
  BY DEF MEMOSTEP, Break
<1>2. PositionSet /\ PositionSet'
  BY <1>1 DEF TextInv, PositionSet
<1>3. PICK Q, k : PositionsRead(Q, k)
  BY <1>1 DEF TextInv
<1>4. CASE MEMOSTEP
  <2>1. PositionsRead(Q, k + 1)'
    BY <1>2, <1>3, <1>4, PositionIsRead
  <2>2. step' = "read"
    BY <1>1, <1>4 DEF MEMOSTEP
  <2> QED
    BY <1>1, <1>2, <2>1, <2>2 DEF TextInv
<1>5. CASE Break
  <2>1. k = Cardinality(set.of)
    BY <1>2, <1>3, <1>5, PositionMeant DEF Break
  <2>2. restored = Ascending(set.of)
    BY <1>2, <1>3, <2>1, PositionsAreRead
  <2>3. step' = "done" /\ restored' = restored
    BY <1>5 DEF Break
  <2> QED
    BY <1>1, <1>2, <2>2, <2>3 DEF TextInv
<1> QED
  BY <1>4, <1>5

LEMMA CompareSound ==
  ASSUME TextInv, Compare
  PROVE  TextInv'
<1>1. step = "read" /\ set.kind = "ids" /\ set' = set /\ literal' = literal /\ cursor' = cursor + 1
  BY DEF Compare
<1>2. IdSet /\ IdSet' /\ NumbersRead
  BY <1>1 DEF TextInv, IdSet
<1>3. restored' = Ascending({id \in set.of : id < cursor})
  BY <1>2, NumberIsRead
<1>4. set.count \in Nat /\ cursor \in 1 .. set.count /\ set.of \in SUBSET (0 .. set.count - 1)
  BY <1>2 DEF IdSet, NumbersRead
<1>5. CASE cursor = set.count
  <2>1. {id \in set.of : id < cursor} = set.of
    BY <1>4, <1>5
  <2>2. step' = "done"
    BY <1>5 DEF Compare
  <2> QED
    BY <1>1, <1>2, <1>3, <2>1, <2>2 DEF TextInv
<1>6. CASE cursor # set.count
  <2>1. step' = "read"
    BY <1>6 DEF Compare
  <2>2. cursor' \in 1 .. set.count /\ cursor' - 1 = cursor
    BY <1>1, <1>4, <1>6
  <2>3. NumbersRead'
    BY <1>1, <1>2, <1>3, <2>2 DEF NumbersRead
  <2> QED
    BY <1>1, <1>2, <2>1, <2>3 DEF TextInv
<1> QED
  BY <1>5, <1>6

LEMMA TextStepSound ==
  ASSUME TextInv, [TextNext]_memotext
  PROVE  TextInv'
<1>1. CASE Emit
  BY <1>1, EmitSound
<1>2. CASE MEMOSTEP \/ Break
  BY <1>2, ReadSound
<1>3. CASE Compare
  BY <1>3, CompareSound
<1>4. CASE UNCHANGED memotext
  BY <1>4 DEF TextInv, PositionSet, IdSet, PositionsRead, NumbersRead, memotext
<1> QED
  BY <1>1, <1>2, <1>3, <1>4 DEF TextNext

LEMMA TextInvMeans ==
  ASSUME TextInv
  PROVE  TextMeansSet
<1>1. CASE step = "read" /\ set.kind = "locals"
  <2>1. PICK Q, k : PositionsRead(Q, k)
    BY <1>1 DEF TextInv
  <2>2. PositionSet
    BY <1>1 DEF TextInv
  <2>3. cursor \in 1 .. Len(literal)
    BY <2>1, <2>2, PositionMeant
  <2>4. literal \in Seq(Nat)
    BY <2>1 DEF PositionsRead, Spells
  <2>5. cursor \in DOMAIN literal
    BY <2>3, <2>4, LenProperties
  <2> QED
    BY <1>1, <2>5 DEF TextMeansSet
<1>2. CASE step = "read" /\ set.kind # "locals"
  <2>1. IdSet /\ NumbersRead
    BY <1>2 DEF TextInv
  <2>2. (cursor - 1) \div 8 + 1 \in 1 .. Len(literal)
    BY <2>1, NumberMeant
  <2>3. DOMAIN literal = 1 .. Len(literal)
    BY <2>1, LenProperties DEF NumbersRead
  <2> QED
    BY <1>2, <2>2, <2>3 DEF TextMeansSet
<1>3. CASE step # "read"
  BY <1>3 DEF TextInv, TextMeansSet
<1> QED
  BY <1>1, <1>2, <1>3

\* The library memoizes and compares exactly the objects that the analyzer wrote into
\* the literal, each of them once, whatever the set is and however many bytes it needs,
\* and never reads past the end of the literal.
THEOREM TextAlwaysMeansSet == TextSpec => []TextMeansSet
<1>1. TextInit => TextInv
  BY TextInitSound
<1>2. TextInv /\ [TextNext]_memotext => TextInv'
  BY TextStepSound
<1>3. TextInv => TextMeansSet
  BY TextInvMeans
<1> QED
  BY <1>1, <1>2, <1>3, PTL DEF TextSpec
============================================================================
