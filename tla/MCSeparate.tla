----------------------------- MODULE MCSeparate -----------------------------
(***************************************************************************)
(* Two phases in one run: the separation of structures (Separate), and the *)
(* restructuring and printing of a residual function (Restructure and      *)
(* Printing).  The first state says which; the other one has nothing to do.*)
(*   Separate: a structure with Width parts, each of which may be that     *)
(*   structure again or one without parts.  There are Outers instances of  *)
(*   the former.  Up to MaxDynamic instances have something dynamic in     *)
(*   them.                                                                 *)
(*   Printing: functions of up to MaxBlocks blocks.                        *)
(***************************************************************************)
EXTENDS Separate, TLC

CONSTANTS
  Phases,                       \* "separation", "printing"
  Outers, Width, MaxDynamic,
  MaxBlocks, Shapes             \* for Restructure

VARIABLES
  which,
  phase, blocks, block, entry, forw, back, order, immDom, top, loop, latch, outerLoop, type, follow,
  ifFollow, failed, text, nest, at, pc

printing == <<phase, blocks, block, entry, forw, back, order, immDom, top, loop, latch, outerLoop, type,
              follow, ifFollow, failed, text, nest, at, pc>>

----------------------------------------------------------------------------
Outer == 1 .. Outers

\* All choices of a part in each place, of the declaration that is there.
Parts == {p \in [Outer -> [1 .. Width -> Instances]] :
            \A k \in 1 .. Width : \A i, j \in Outer : p[i][k] \in Outer <=> p[j][k] \in Outer}

Structures(p, b) ==
  [original |-> [i \in Instances |-> i \in Outer],
   parts    |-> [i \in Instances |-> IF i \in Outer THEN p[i] ELSE <<>>],
   dynamic  |-> [i \in Instances |-> FALSE],
   inner    |-> [i \in Instances |-> i \in b]]

MCPrograms ==
  {Structures(p, b) : p \in Parts, b \in {S \in SUBSET Instances : Cardinality(S) <= MaxDynamic}}

----------------------------------------------------------------------------
\* The first block has statements and a successor, or none and two; one block
\* may end in a conditional that turned out to be an abort.  The branches of
\* the last block are in one order only.
MCShapes == [k \in 1 .. MaxBlocks |->
  IF k = 1 THEN {[plain |-> TRUE, ctl |-> "goto", a |-> 2, b |-> 1],
                 [plain |-> FALSE, ctl |-> "if", a |-> 2, b |-> 3]}
  ELSE [plain : {FALSE}, ctl : {"return"}, a : {1}, b : {1}]
       \cup [plain : {TRUE}, ctl : {"goto"}, a : 1 .. MaxBlocks, b : {1}]
       \cup {s \in [plain : BOOLEAN, ctl : {"if"}, a : 1 .. MaxBlocks, b : 1 .. MaxBlocks] :
                s.a < s.b \/ (s.a > s.b /\ k < MaxBlocks)}
       \cup (IF k = 2 THEN [plain : {FALSE}, ctl : {"abort"}, a : {3}, b : {4}] ELSE {})]

\* Three nested loops; block 4 of the innermost leaves it, block 5 leaves two.
Nested == <<[plain |-> TRUE,  ctl |-> "goto",   a |-> 2, b |-> 1],
            [plain |-> TRUE,  ctl |-> "goto",   a |-> 3, b |-> 1],
            [plain |-> TRUE,  ctl |-> "goto",   a |-> 4, b |-> 1],
            [plain |-> TRUE,  ctl |-> "if",     a |-> 5, b |-> 6],
            [plain |-> TRUE,  ctl |-> "if",     a |-> 4, b |-> 7],
            [plain |-> TRUE,  ctl |-> "if",     a |-> 3, b |-> 7],
            [plain |-> TRUE,  ctl |-> "if",     a |-> 2, b |-> 8],
            [plain |-> FALSE, ctl |-> "return", a |-> 1, b |-> 1]>>

MCNested == [k \in 1 .. MaxBlocks |-> {Nested[k]}]

P == INSTANCE Printing WITH program <- blocks

ASSUME P!ShapesAssumption

----------------------------------------------------------------------------
NoStructures == Structures([i \in Outer |-> <<>>], {})

SeparationInit ==
  /\ which = "separation" /\ Init
  /\ phase = "" /\ blocks = <<>> /\ block = <<>> /\ entry = 0 /\ forw = <<>> /\ back = <<>>
  /\ order = <<>> /\ immDom = <<>> /\ top = <<>> /\ loop = <<>> /\ latch = <<>> /\ outerLoop = <<>>
  /\ type = <<>> /\ follow = <<>> /\ ifFollow = <<>> /\ failed = {} /\ text = <<>> /\ nest = <<>>
  /\ at = 0 /\ pc = 0

PrintingInit ==
  /\ which = "printing" /\ P!Init
  /\ program = NoStructures /\ def = [i \in Instances |-> i]
  /\ canonical = <<>> /\ succ = <<>> /\ waiting = {}

SeparationStep == which = "separation" /\ Next /\ UNCHANGED <<which, printing>>
PrintingStep   == which = "printing" /\ P!Next /\ UNCHANGED <<which, vars>>

all == <<which, vars, printing>>

BothSpec ==
  /\ which \in Phases /\ (SeparationInit \/ PrintingInit)
  /\ [][SeparationStep \/ PrintingStep]_all
  /\ WF_all(SeparationStep)

\* What printing goes by, dominators and loops, is what the graph has.
StructureIsRight == P!StructureIsRight

\* What is printed does what the residual function does.
TextIsTheProgram == P!TextIsTheProgram

\* The assertions of restruct.c and unparse.c hold.
AssertionsHold == P!AssertionsHold
=============================================================================
