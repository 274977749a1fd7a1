----------------------------- MODULE Congruence -----------------------------
(***************************************************************************)
(* Partial evaluation from end to end: a program is annotated (bta.cc),    *)
(* its generating extension is run on the static input, and the residual   *)
(* program on the dynamic input.                                           *)
(***************************************************************************)
EXTENDS GenExt

CONSTANTS
  Programs,     \* name |-> a program with the generator gen(s, d)
  Statics_,     \* values of s
  Dynamics      \* values of d

VARIABLES
  phase,        \* "annotate", "generate", "run", "done"
  program,      \* the name of a program
  dynamic,      \* BTresult: the dynamic binding-time variables
  input,        \* the static input
  generated,    \* the generating extension when it has ended
  outputs       \* of the program and its residual program

vars == <<phase, program, dynamic, input, generated, outputs>>

Init ==
  /\ phase = "annotate"
  /\ program \in DOMAIN Programs
  /\ dynamic = {} /\ input = 0 /\ generated = <<>> /\ outputs = <<>>

\* binding_time_analysis.
Annotate ==
  /\ phase = "annotate"
  /\ dynamic' = DynamicOf(Programs[program])
  /\ phase' = "generate"
  /\ UNCHANGED <<program, input, generated, outputs>>

\* The user runs the generating extension.
Extension(g) == [ok |-> g.ok, exits |-> g.exits, funs |-> g.funs, globals |-> g.globals, main |-> 1]

RunExtension ==
  /\ phase = "generate"
  /\ \E i \in Statics_ :
       /\ input' = i
       /\ generated' = Extension(Generated(Programs[program], dynamic, <<Num(i), Bad>>))
  /\ phase' = "run"
  /\ UNCHANGED <<program, dynamic, outputs>>

\* The user runs the residual program on d.
SubjectRuns(P, d) == Call(SubjectCode(P), "gen", <<Num(input), Num(d)>>, Machine(Initial(P)))
ResidualRuns(P, d) ==
  IF generated.ok
  THEN Call(ResidualCode(P, generated), 1, <<Num(d)>>, Machine(ResidualStore(P, generated)))
  ELSE Fails(Machine(<<>>))

RunResidual ==
  /\ phase = "run"
  /\ \E d \in Dynamics : outputs' = <<SubjectRuns(Programs[program], d).out, ResidualRuns(Programs[program], d).out>>
  /\ phase' = "done"
  /\ UNCHANGED <<program, dynamic, input, generated>>

Next == Annotate \/ RunExtension \/ RunResidual

Spec == Init /\ [][Next]_vars

-----------------------------------------------------------------------------
\* The residual program does to every dynamic input what the program does to
\* it together with the static input it was generated for.
ResidualBehaves == phase = "done" => outputs[1] = outputs[2]

\* A generating function goes through the static state of many paths, but its
\* caller goes on with one: at whatever exit, what the caller sees of the
\* static state, and the static value it is returned, is the same.
ExitsAgree ==
  phase = "run" => \A x, y \in generated.exits : x[1] = y[1] => x = y
=============================================================================
