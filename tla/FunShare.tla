------------------------------ MODULE FunShare ------------------------------
(***************************************************************************)
(* Sharing of residual functions: the second half of speclib/mem.c.        *)
(*                                                                         *)
(* A generating function that is not unfolded first asks cmixFindOrPushFun *)
(* whether it has been specialized before from an equal static state.  The *)
(* state is what can be reached from the globals and the parameters by     *)
(* static pointers, cut down to the declarations that the data-flow        *)
(* analysis found to be read or written by the function ("what").  If so,  *)
(* the changes the function made to the static state are repeated and the  *)
(* residual function is shared; if not, a copy of the state is taken, the  *)
(* residual function joins the pool at once (cmixFinishPushedFun), its     *)
(* body is specialized, and cmixSaveExitState records what has changed.    *)
(*                                                                         *)
(* Objects hold one value each, a number or a pointer to an object.        *)
(* Parameters live on the C stack: the parameter of the activation at      *)
(* depth d has the address Par[d], whichever function runs there.          *)
(***************************************************************************)
EXTENDS Naturals, Sequences, FiniteSets, SequencesExt

CONSTANTS
  Funs,      \* generating functions with a pool
  Globals,   \* the global data objects, in the order of cmix_globals
  Heap,      \* data objects made by cmixAllocStatic
  Par,       \* Par[d]: the object of the parameter at depth d
  ValsOf,    \* ValsOf[o]: the values object o can hold
  ReadSet,   \* ReadSet[f]: declarations f or its callees may read
  WriteSet,  \* WriteSet[f]: declarations f or its callees may write
  DynFuns,   \* functions under dynamic control
  Dangling,  \* may the program keep a pointer to a parameter that is gone?
  MaxFuns    \* bound: residual functions made

MaxDepth == Len(Par)
Params   == {Par[d] : d \in 1 .. MaxDepth}
Objs     == ToSet(Globals) \cup Heap \cup Params
What(f)  == ReadSet[f] \cup WriteSet[f]

ASSUME BoundAssumption == MaxFuns \in Nat /\ Par \in Seq(Params)
\* Objects are distinct; a parameter is neither a global nor on the heap.
ASSUME ObjectsAssumption ==
  /\ IsFiniteSet(Objs) /\ Globals \in Seq(Objs)
  /\ \A o \in Objs : ValsOf[o] # {}
  /\ \A d, e \in DOMAIN Par : Par[d] = Par[e] => d = e
  /\ Params \cap (ToSet(Globals) \cup Heap) = {}
\* Under dynamic control there are no static side effects on what a caller
\* can see: the binding-time analysis has made those objects dynamic.
ASSUME DynAssumption == \A f \in DynFuns : WriteSet[f] = {f}

VARIABLES
  store,   \* the value of every object
  stack,   \* activations: [fun, res], res the residual function being made
  pool,    \* pool[f]: its residual functions, the newest first
  res      \* residual functions, numbered from 1

vars == <<store, stack, pool, res>>

Depth == Len(stack)

Top   == stack[Depth]
Own   == Par[Depth]      \* the running activation's parameter

(***************************************************************************)
(* The declaration that an object belongs to: the parameter of f is the    *)
(* declaration f, all other objects are declarations themselves.  A        *)
(* pointer can be found to point into a tracked object (globals,           *)
(* heap_objects, data_stack); a pointer to anything else is not followed.  *)
(***************************************************************************)
DeclOf(o)  == IF o \in Params THEN stack[CHOOSE d \in DOMAIN Par : Par[d] = o].fun
                              ELSE o
Tracked    == ToSet(Globals) \cup Heap \cup {Par[d] : d \in 1 .. Depth}
\* Variant with a defect: what is written but not read is not memoized.
InWhat_read(o) == DeclOf(o) \in ReadSet[Top.fun]
InWhat(o)  == DeclOf(o) \in What(Top.fun)
Roots      == Append(Globals, Own)

----------------------------------------------------------------------------
(***************************************************************************)
(* Both walks go depth first from the globals and then from the parameter. *)
(* As an object holds one pointer, they follow one chain from each root.   *)
(* The walk w has come to w.at, from the root w.root or along a pointer;   *)
(* the visit flag of an object is set also when the object is not in       *)
(* "what" and is therefore neither copied nor followed (maycopy).          *)
(***************************************************************************)
Leads(w) == w.at \in Tracked

NextRoot(w) == IF w.root = Len(Roots) THEN w
               ELSE [w EXCEPT !.root = @ + 1, !.at = Roots[w.root + 1]]

\* Either an object is visited or the next root is taken.
Turns == Cardinality(Objs) + Len(Roots)

\* cmixCopyState.
CopyOne(w) ==
  LET flagged == [w EXCEPT !.visit = @ \cup {w.at}]
  IN  IF ~ Leads(w) \/ w.at \in w.visit THEN NextRoot(w)
      ELSE IF ~ InWhat(w.at) THEN NextRoot(flagged)
      ELSE [flagged EXCEPT !.list = Append(@, [obj |-> w.at, val |-> store[w.at]]),
                           !.at = store[w.at]]

CopyState ==
  LET Walk[n \in 0 .. Turns] ==
        IF n = 0 THEN [visit |-> {}, root |-> 1, at |-> Roots[1], list |-> <<>>]
        ELSE CopyOne(Walk[n - 1])
  IN  Walk[Turns].list

(***************************************************************************)
(* cmixCmpState: the same walk over the current state, comparing with the  *)
(* elements of a saved list one after the other.  The list is circular, so *)
(* a walk that finds more objects starts over; nothing looks at which      *)
(* object an element is a copy of, nor at what is left in the end.  The    *)
(* empty state always matches.                                             *)
(***************************************************************************)
\* Variant with a defect: pointers are not followed.
CmpOne_flat(w, list) ==
  LET flagged == [w EXCEPT !.visit = @ \cup {w.at}]
  IN  IF ~ w.ok THEN w
      ELSE IF ~ Leads(w) \/ w.at \in w.visit THEN NextRoot(w)
      ELSE IF ~ InWhat(w.at) THEN NextRoot(flagged)
      ELSE NextRoot([flagged EXCEPT !.ok = list[w.k].val = store[w.at],
                                    !.k = (@ % Len(list)) + 1])

CmpOne(w, list) ==
  LET flagged == [w EXCEPT !.visit = @ \cup {w.at}]
  IN  IF ~ w.ok THEN w
      ELSE IF ~ Leads(w) \/ w.at \in w.visit THEN NextRoot(w)
      ELSE IF ~ InWhat(w.at) THEN NextRoot(flagged)
      ELSE [flagged EXCEPT !.ok = list[w.k].val = store[w.at],
                           !.k = (@ % Len(list)) + 1, !.at = store[w.at]]

CmpState(list) ==
  LET Walk[n \in 0 .. Turns] ==
        IF n = 0 THEN [visit |-> {}, root |-> 1, at |-> Roots[1], ok |-> TRUE, k |-> 1]
        ELSE CmpOne(Walk[n - 1], list)
  IN  list = <<>> \/ Walk[Turns].ok

(***************************************************************************)
(* cmixExtractEndState: of the objects in the initial copy, those that may *)
(* be written, have changed and are not locals of the function.            *)
(***************************************************************************)
\* Variant with a defect: the function's own locals are not left out.
Changed_local(c) ==
  DeclOf(c.obj) \in WriteSet[Top.fun] /\ store[c.obj] # c.val

Changed(c) ==
  /\ c.obj # Own
  /\ DeclOf(c.obj) \in WriteSet[Top.fun]
  /\ store[c.obj] # c.val

EndState(list) ==
  LET End[n \in 0 .. Len(list)] ==
        IF n = 0 THEN <<>>
        ELSE IF ~ Changed(list[n]) THEN End[n - 1]
        ELSE Append(End[n - 1], [obj |-> list[n].obj, val |-> store[list[n].obj]])
  IN  End[Len(list)]

Copied(list) == {list[k].obj : k \in DOMAIN list}

Restored(list) ==
  [o \in Objs |-> IF o \in Copied(list)
                  THEN (CHOOSE c \in ToSet(list) : c.obj = o).val
                  ELSE store[o]]

----------------------------------------------------------------------------
(***************************************************************************)
(* The reference: the static state a call depends on, as a set.  The       *)
(* parameter of the callee is looked at by value, not by address.          *)
(***************************************************************************)
InCall(o) == o \in Tracked /\ DeclOf(o) \in What(Top.fun)

Reached ==
  LET next == [o \in Objs |-> {v \in {store[o]} : InCall(v)}]
      Grow[S \in SUBSET Objs] ==
        LET more == (UNION {next[d] : d \in S}) \ S
        IN  IF more = {} THEN S ELSE Grow[S \cup more]
  IN  Grow[{o \in ToSet(Roots) : InCall(o)}]

Input == [arg  |-> {store[o] : o \in Reached \cap {Own}},
          objs |-> {<<o, store[o]>> : o \in Reached \ {Own}}]

\* What a program can do, as far as the data-flow analysis knows: an object
\* is written by a function, or by its callees, only if it is in the write
\* set and was reachable when the function was called, or is a local.
MayWrite(o) ==
  \A d \in 1 .. Depth :
    \/ o \in {Par[e] : e \in d .. Depth}
    \/ /\ DeclOf(o) \in WriteSet[stack[d].fun]
       /\ o \in {x[1] : x \in res[stack[d].res].input.objs}

\* Variant with a defect: addresses of parameters come from anywhere.
MayPoint_any(v) == TRUE

\* It has the address of a parameter only from its input, if it is not its own
\* or that of a function it has called.
MayPoint(v) ==
  v \in Params =>
    /\ v \in Tracked
    /\ \A d \in 1 .. Depth :
         \/ v \in {Par[e] : e \in d .. Depth}
         \/ v \in {x[2] : x \in res[stack[d].res].input.objs}
         \/ v \in res[stack[d].res].input.arg

----------------------------------------------------------------------------
Init ==
  /\ store = [o \in Objs |-> CHOOSE v \in ValsOf[o] : TRUE]
  /\ stack = <<>>
  /\ pool = [f \in Funs |-> <<>>]
  /\ res = <<>>

InPrologue == stack # <<>> /\ Top.res = 0
InBody     == ~ InPrologue

\* Static statements of the running generating function (or of the program
\* around it, when there is none) change an object they may change.
Assign(o, v) ==
  /\ InBody
  /\ o \in Tracked /\ MayWrite(o)
  /\ v \in ValsOf[o] /\ MayPoint(v)
  /\ store' = [store EXCEPT ![o] = v]
  /\ UNCHANGED <<stack, pool, res>>

\* A call, up to cmixFindOrPushFun: the argument is in the parameter, and
\* cmixPushLocals has put the parameter on data_stack.
Enter(f, v) ==
  /\ InBody
  /\ Depth < MaxDepth
  /\ stack # <<>> => (Top.fun \in DynFuns => f \in DynFuns)
  /\ v \in ValsOf[Par[Depth + 1]] /\ MayPoint(v)
  /\ stack' = Append(stack, [fun |-> f, res |-> 0])
  /\ store' = [store EXCEPT ![Par[Depth + 1]] = v]
  /\ UNCHANGED <<pool, res>>

Pop(stk) == SubSeq(stk, 1, Len(stk) - 1)

\* cmixFindOrPushFun goes through the pool, newest first, and takes the first
\* residual function whose initial state matches; cmixPopLocals, and back.
Matches == {k \in DOMAIN pool[Top.fun] : CmpState(res[pool[Top.fun][k]].state)}

Found == pool[Top.fun][CHOOSE k \in Matches : \A j \in Matches : k <= j]

Share ==
  /\ InPrologue
  /\ Matches # {}
  /\ store' = Restored(res[Found].end)
  /\ res' = [res EXCEPT ![Found].shared = TRUE]
  /\ stack' = Pop(stack)
  /\ UNCHANGED pool

\* Variant with a defect: the new function goes to no pool.
Link_not(r) == pool
Link(r)      == [pool EXCEPT ![Top.fun] = <<r>> \o @]

\* No match: the state is copied, and cmixFinishPushedFun links the residual
\* function into the pool before its body is specialized.
Specialize ==
  /\ InPrologue
  /\ Matches = {}
  /\ Len(res) < MaxFuns
  /\ LET r == Len(res) + 1
     IN  /\ res' = Append(res, [fun |-> Top.fun, state |-> CopyState, end |-> <<>>,
                                shared |-> FALSE, complete |-> FALSE,
                                input |-> Input, effect |-> {}])
         /\ pool' = Link(r)
         /\ stack' = [stack EXCEPT ![Depth].res = r]
  /\ UNCHANGED store

\* The end of the generating function: cmixPopLocals, cmixSaveExitState
\* unless the function is under dynamic control, cmixPopFun.  complete and
\* effect are history: what the function has done to its caller's state.
Return ==
  /\ stack # <<>> /\ InBody
  /\ Dangling \/ \A o \in Objs \ {Own} : store[o] # Own
  /\ LET r == res[Top.res]
     IN  res' = [res EXCEPT ![Top.res] =
                   [r EXCEPT !.end = IF Top.fun \in DynFuns THEN <<>>
                                     ELSE EndState(r.state),
                             !.complete = TRUE,
                             !.effect = {<<x[1], store[x[1]]>> : x \in r.input.objs}]]
  /\ stack' = Pop(stack)
  /\ UNCHANGED <<store, pool>>

Next ==
  \/ \E o \in Objs : \E v \in ValsOf[o] : Assign(o, v)
  \/ \E f \in Funs, v \in UNION {ValsOf[p] : p \in Params} : Enter(f, v)
  \/ Share
  \/ Specialize
  \/ Return

Spec == Init /\ [][Next]_vars

----------------------------------------------------------------------------
(***************************************************************************)
(* Properties.                                                             *)
(***************************************************************************)
\* What the walks take for granted: no object that a call depends on points to a
\* parameter that is gone, or to one of a caller that "what" leaves out.  So no
\* end state that is restored brings back the address of a parameter.
PointersAreSound ==
  InPrologue =>
    \A o \in Reached : store[o] \in Params => store[o] # Own /\ InCall(store[o])

Copy == [obj : Objs, val : UNION {ValsOf[o] : o \in Objs}]

\* Every variable has its type; a pool holds residual functions of its own
\* generating function (struct cmixFunPool, struct cmixFun).
TypeOK ==
  /\ \A o \in Objs : store[o] \in ValsOf[o]
  /\ Depth <= MaxDepth
  /\ \A d \in 1 .. Depth :
       stack[d].fun \in Funs /\ stack[d].res \in 0 .. Len(res)
  /\ \A f \in Funs : \A k \in DOMAIN pool[f] : res[pool[f][k]].fun = f
  /\ \A r \in DOMAIN res : /\ res[r].state \in Seq(Copy)
                           /\ res[r].end \in Seq(Copy)

\* The walk that compares is as good as comparing sets: a residual function
\* is shared exactly when everything the call depends on is as it was.
SharedIffSameInput ==
  InPrologue =>
    \A k \in DOMAIN pool[Top.fun] :
      CmpState(res[pool[Top.fun][k]].state) <=> res[pool[Top.fun][k]].input = Input

\* mem.c, line 527: cmixFindOrPushFun checks "whether a function has been
\* specialized to this state", so it never shares one made for another
\* argument.
SharedOnlyForSameArgument ==
  InPrologue =>
    \A k \in DOMAIN pool[Top.fun] :
      CmpState(res[pool[Top.fun][k]].state)
      => res[pool[Top.fun][k]].input.arg = Input.arg

\* No residual function is made twice for one input.
NoDuplicateSpecialization ==
  \A r, s \in DOMAIN res :
    res[r].fun = res[s].fun /\ res[r].input = res[s].input => r = s

\* A residual function is shared whenever that is right, and only then: for equal input,
\* and so there are no two for one input.
SharingIsExact == SharedIffSameInput /\ NoDuplicateSpecialization

\* Sharing a finished function has the effect on the caller's static state
\* that specializing it again would have: what it changed gets the value it
\* was given, and nothing else changes.
SharingReplaysEffect ==
  [][InPrologue /\ Len(stack') < Len(stack) /\ res[Found].complete
     => \A o \in Objs :
          LET e == {x \in res[Found].effect : x[1] = o}
          IN  IF e # {} THEN \A x \in e : store'[o] = x[2]
              ELSE store'[o] = store[o]]_vars

\* What is restored into is alive: an end state never holds a parameter of
\* the function itself nor of an activation that may be gone when the
\* function is shared ("it would be a disaster to try to restore them").
NoRestoreIntoDeadObject ==
  [][InPrologue /\ Len(stack') < Len(stack)
     => Copied(res[Found].end) \subseteq Tracked \ {Own}]_vars

============================================================================
