---------------------------- MODULE Polyvariant ----------------------------
(***************************************************************************)
(* What the pending lists of speclib promise, without lists, labels and    *)
(* flags: polyvariant specialization of blocks, as a work set.             *)
(*                                                                         *)
(* Every activation of a generating function has a set of configurations   *)
(* it has seen, a configuration being a specialization point with values   *)
(* for the static locals memoized there, and the subset it has still to    *)
(* specialize.  Running a block discovers configurations; the next block   *)
(* to run is any that is left to do, with its values in the locals.        *)
(***************************************************************************)
EXTENDS Naturals, Sequences

CONSTANTS Funs, Points, Objs, Vals, InitVal, MemoSet, First

VARIABLES
  acts,   \* activations, innermost last: [fun, seen, todo, locals]
  phase   \* "run" a block, "pick" the next one, "done"

vars == <<acts, phase>>

Stores == [Objs -> Vals]
Cur    == acts[Len(acts)]

Config(f, p, st) == <<p, [o \in MemoSet[f][p] |-> st[o]]>>

Init == acts = <<>> /\ phase = "run"

Enter(f) ==
  LET st == [o \in Objs |-> InitVal]
      S  == IF First[f] = 0 THEN {} ELSE {Config(f, First[f], st)}
  IN  /\ phase = "run"
      /\ acts' = Append(acts, [fun |-> f, seen |-> S, todo |-> S, locals |-> st])
      /\ phase' = IF S = {} THEN "run" ELSE "pick"

\* The block ends in a jump to the points in P, or returns (P is empty).
Discover(P, st) ==
  LET C == {Config(Cur.fun, p, st) : p \in P}
  IN  /\ phase = "run" /\ acts # <<>>
      /\ acts' = [acts EXCEPT ![Len(acts)] =
                    [fun |-> Cur.fun, seen |-> Cur.seen \cup C,
                     todo |-> Cur.todo \cup (C \ Cur.seen), locals |-> st]]
      /\ phase' = "pick"

Resume(c, st) ==
  /\ phase = "pick"
  /\ c \in Cur.todo
  /\ Config(Cur.fun, c[1], st) = c
  /\ acts' = [acts EXCEPT ![Len(acts)] =
                [fun |-> Cur.fun, seen |-> Cur.seen,
                 todo |-> Cur.todo \ {c}, locals |-> st]]
  /\ phase' = "run"

Leave ==
  /\ phase = "pick"
  /\ Cur.todo = {}
  /\ acts' = SubSeq(acts, 1, Len(acts) - 1)
  /\ phase' = IF Len(acts) = 1 THEN "done" ELSE "run"

Next ==
  \/ \E f \in Funs : Enter(f)
  \/ \E st \in Stores :
       \/ \E p, q \in Points : Discover({p, q}, st)
       \/ Discover({}, st)
       \/ \E c \in Cur.todo : Resume(c, st)
  \/ Leave

Spec == Init /\ [][Next]_vars
============================================================================
