# C-Mix/II in TLA+

C-Mix/II is a partial evaluator for C.  A *subject program* and a division of
its inputs into those that are known early ("spectime", static) and those that
are not (dynamic) go into the **analyzer**, which writes a *generating
extension*: a C program that, linked with the specializer library **speclib**
and run on the static input, prints the *residual program*.  A third part,
**cmixshow**, is a small web server with which the annotated program is read.

This directory models the way of a program through the system: declarations and
types (front end, checker), translation to Core C, the analyses, the generating
extension and what it does when it is run, the printing of the residual program,
and the listings and the viewer in which the user reads it all.  Every module states at
its top which file of the source it models.

## 1. The system

### 1.1 Components, their state and operations

| component (source) | state | operations | what is hard | what makes it correct |
|---|---|---|---|---|
| Pending list (`speclib/pending.c`, calls emitted by `gg-code.cc`) | per activation the list of specialization points still to do and the search structure `memo` of those seen; the global flag `pendingIsCurrent` | `cmixPushPend`, `cmixPendinsert`, `cmixPending`, `cmixPopPend` | activations nest and share the flag; labels are emitted long after the jumps to them | a block is resumed with the values it was inserted with; one label per configuration, emitted once in the function that jumps to it; the loop ends |
| Function sharing (`speclib/mem.c`, second half) | pools of residual functions with the static state at entry and the change at exit; visit flags | `cmixFindOrPushFun`, `cmixCopyState`, `cmixCmpState`, `cmixSaveExitState`, `cmixRestoreState` | saved and current objects are paired by position of a walk; functions are shared before they are finished | sharing only from an equal state, and then with the same effect |
| Memoization copies (`speclib/memhash.c`) | hash table with sorted, counted buckets | `cmixCreateMemoCopy`, `cmixFreeMemoCopy` | several owners of a block of memory; search relies on the order | a copy lives as long as an owner, and is found |
| Residual code (`speclib/code.c`) | the residual functions, their statements and declarations | `cmixLabel`, `cmixGoto`, `cmixIf`, `cmixDeclare`, `cmixLiftInt`, `cmixPushFun`, `cmixPopFun` ... | labels referred to before they are emitted; lifting of values to text | labels defined exactly once; the text of a value reads back as the value |
| Restructuring (`speclib/restruct.c`, printing in `unparse.c`) | control-flow graph, intervals, loops, follow nodes | `compress`, `makeInterval`, `loopDetect`, `condDetect`, `printInterval` | arbitrary gotos become loops, conditionals, breaks | the printed text behaves as the graph, every block is printed once |
| Names (`speclib/unparse.c`) | sequence numbers of base names | `addTaboo`, `assignGlobalName`, `assignLocalName` | limits of name length; scopes | no two names clash |
| Fixpoint solver (`analyzer/fixiter.cc`) | work list sorted by time stamp, flags | `+=`, `solve` | constraints are created and dependencies recorded while solving | the result is the least solution; it is reached |
| Points-to analysis (`analyzer/pa.cc`) | a set of declarations per expression and declaration | one constraint class per kind of statement and expression | calls through pointers, structures copied member by member, re-checking of all constraints | every pointer of an execution is predicted |
| Call graph, truly locals (`transpred.cc`, `closures.cc`) | callers of each function; closure of globals and parameters | `mkCallGraph`, `TrulyLocal` | recursion: many instances of one declaration | a function never meets another activation's instance of its truly locals |
| Binding-time analysis (`bta.cc`, `btvars.cc`, `btsolve.cc`, `btsanity.cc`, `outbta.cc`) | constraint graph with reference-counted causes, union-find of types | generation, `unify`, `flood`, `Trace` | recursive types, equalities in progress, traces through causes | least solution; every dynamic variable has a real, finite explanation |
| Structure separation (`separate.cc`) | definitions with their instances | `make_nodes`, `solve` | definitions that are split while they are compared | all instances of one definition have the same binding times |
| Data flow (`dataflow.cc`) | in-use, may-write and must-write sets, complemented sets | constraints per statement, jump and function | greatest and least fixpoints at once | the memoization sets contain what is read later |
| Sharability (`share.cc`) | set of functions specialized in line | `findUnsharable`, `anyCycles` | recursion | no function with spectime effects is shared; in-lining ends |
| Generating extension emitter (`gegen.cc`, `gg-*.cc`, `generator.cc`) | output streams | one emitter per kind of node | two programs, static and dynamic, in one text | the generating extension computes the static part and emits the dynamic one |
| Core C translation (`c2core.cc`), representation (`corec.cc`) | atoms, links and basic blocks under construction | one translation per statement and expression, `link`, `collect` | side effects in expressions, `switch`, `goto`, sequence points | the Core C program does one of the things C allows the source to do |
| Scopes and linkage (`gram.cc`, `symboltable.h`, `liststack.h`) | scoped and global symbol tables, chains of joined declarations | `add_decl`, `add_extern`, `add_static`, `fundef_*`, `add_initializer`, `unify_types` | declarations of one thing in several scopes and files, in any order | a name means the entity that C says; one definition; composite types |
| Type checker (`check.cc`, `cpgm.cc`) | types and known values of expressions | one check per expression, statement and initializer | conversions that C makes silently; braces left out of initializers | values survive; every initializer gets to its place |
| Listings (`outcpgm.cc`, `outcore.cc`, types in `syntax.cc`) | - | one printer per node; combination of specifiers | precedence, declarators inside out | a listing reads back as the program shown |
| Directives (`directives.cc`, `direc.y`) | user annotations | application to declarations | - | not modelled |
| Initializers, renamer, structure order (`init.cc`, `renamer.cc`, `structsort.cc`) | shadow variables; names | one pass each | a local initializer that is run once per entry | the value at entry; unique names |
| Containers (`ygtree.cc`, `Pset.h`, `Plist.h`) | balanced trees with iterators | insert, erase, split | iterators that survive changes | sorted sets and lists |
| cmixshow store (`annohash.c`, `outgram.y`) | trees by type, hash table of labels | `AddAnnoTree`, `FollowLabel`, `FreeEverything` | the table is filled lazily, the file may be reread while pages are open | a link leads to the tree with its label |
| cmixshow selector (`annocut.c`) | show mode of every annotation type | `DisplayCut`, `CutOperation`, `NormalizeCut` | showing the page changes the modes | nothing is hidden below what is shown |
| cmixshow printer (`annopp.c`, `annolink.c`, `latch.c`) | line, link and color state | `PrettyPrint` | links that cross line ends | each line closes what it opens |
| cmixshow service (`http.c`, `server.c`, `frames.c`) | one connection | `http_service`, `server_loop`, `server_stop` | a signal ends the loop | each request is answered once |
| annotation output, driver, options, generated parsers, getopt, run-time support | - | formatting, tables, library calls | - | not modelled |

### 1.2 How they interact

The analyzer is a fixed sequence of phases (`cmix.cc`): parsing, user
annotations, type check, translation to Core C, points-to analysis, initializers,
call graph, truly locals, binding times, separation of structures, sharability,
sanity of annotations, data flow, sorting of structures, emission.  Each reads
the results of earlier ones; the points-to, call graph, data-flow and separation phases
run on the solver of `fixiter.cc`.  Nothing is concurrent: the interleavings
that matter are the orders in which constraints are solved, and in the library the
nesting of generating functions, which share global state.  Nothing is persistent, so there
are no crashes to recover from.

In a generating extension, a generating function opens a residual function
(`cmixFindOrPushFun`, module FunShare), then a pending list (PendingList), and
runs blocks; blocks emit code, call other generating functions and insert further
points.  The copies both make go through the table of MemHash.  When all is done,
`cmixUnparse` restructures, names and prints the residual functions.

## 2. Modules

One module models one component.  `MC<Module>` gives the constants for TLC, in
some cases of several components that run side by side (see 3); `<Module>Proofs`
has the theorems.  The order is that of the way of a program through the system.

### Linkage

Files are read one after the other; the events of a file are declarations with
and without initializers, function definitions of both styles, blocks, structures,
enumerations, labels and gotos, and casts that mention function types.
`parser` is the state of `gram.cc`: a heap of declarations, the symbol tables with
their levels, the global tables by which files are joined, and the chains
(`refer_to`) of declarations that have become one.  `program` is what the text means by C's
own rules: an entity for every declaration, and the facts that were said of it.

* `NamesMeanTheirEntity` (`OneObjectPerEntity`, `GotosReachTheirLabel`),
  `DeclarationsAreComplete` (`DefinitionIsMain`, `TypesAreComposite`) and `OnlyConflictsAreRejected`
  compare the two.

The code departs from C in some cases, each of which breaks a property if it is let in
by the constant `Deviations` (which is empty in the run):
"tentative after declaration" (gram.cc:858-869: only the first declaration of a chain is
made the definition), "static again" (`add_static` makes a second object), "prototype in block"
(a function declared in a block without `extern`), "extern again" (twice in one scope),
"parameters moved" (`unify_types` takes the parameters out of one declaration for the other,
gram.cc:139-146, and types built before keep the empty list),
"typedef hidden", "completed late" (a structure completed after it was joined,
gram.cc:171-177), and "cast in initializer" (a declaration in the initializer is the one
`add_initializer` finds in `last_added`, gram.cc:1016).

### Checker, Conversions

`Checker` has types, their equality and promotion, and what `check.cc` makes
of expressions, initializers and the conditions, selectors and results of
statements: casts put in, temporaries, known values, and initializers cut
from one list.  `Conversions` executes the original by C's rules and the
checked expression with its casts, on integers of 3 (char) to 6 bits.

* `ValuesSurvive`: for every expression that is accepted both have the same value and effect.
* `InitializersKeepPlace`: each scalar gets the initializer that C gives it.

Excluded by `Agrees`, `Common` and `Narrowing` of MCFrontEnd, because the code
departs from C: operands narrower than `int` whose common type is unsigned are cast to that
(check.cc:836-897); an abstract integer type wins over a floating one (849-855);
compound assignments cast the right operand to the type of the left before the operation
(1393-1416); `i + p` and the comparison of function pointers fail assertions of
corec.cc (1287, 1284), and a conditional with void branches one of c2core.cc (877); the known value of a
cast from an integer to a pointer (1231) is not initialized, which the variable `junk` stands for;
`+` and `-` of an abstract floating type are forced to `int` (1100-1112).

### CSemantics, Lowering

`Lowering` translates a function body to atoms and a list of links, makes the links one by
one as `c2core.cc` does (predecessor counts are handed on through chains of gotos), and collects the blocks depth
first.  `CSemantics` executes C with all its orders of evaluation and sequence points.

* `BehavesAsC`: what the Core C program does is one of the things C allows (or the source
  has undefined behaviour); `PlacedOnce`: no atom is emitted twice.

### FixSolver, PointsTo

`FixSolver` is the solver with constraints left open: operators say what a
constraint changes, reads, creates and reports.  A step takes the constraint
updated longest ago.  The analyses have to keep
`UnaffectedAssumption` (what a constraint does depends on the cells it reads),
`ReportsAssumption` (it reports what it changes); for the least solution they also have to be
`Monotone`.

`PointsTo` has the constraints of `pa.cc` and, once they are solved and checked a
second time, an execution of the program in any order of its statements:
`AnalysisCovers` (`PointersAreFound`, `ExpressionsAreCovered`, `CallsAreKnown` and
`DependenciesCorrect`: the final check finds nothing to do) relates the two.
`ImplementsSolver` shows it to be an instance of the solver, with the sorted
sequence of `pa.cc`'s work list mapped to a set.  External functions and their pools are left out.

### Locals

The call graph by its constraints, the closures of `TrulyLocal`, then an
execution with a stack of activations, each with its own instances: pointers
are anything the points-to relation allows and the code can get hold of.
`TrulyLocalsAreOwn` says why it is right to speak of a truly local variable by
its declaration; `UniqueIsSingle` the same of objects of which there is one, and
`CallersAreFound` that the call graph is complete.

### DataFlow, MemoText

`DataFlow` extends `Locals` by programs with code: blocks of statements, whose expressions
are paths (an address, dereferenced and selected from).  `Analyse` creates the
constraints of `DFfun`, `DFstmt` and `DFjump`; the three solvers run one after the
other, in the order of the stamps of the fixpoint solver.  Sets and complements of
sets (`InvPset`) are subsets of the objects and of one more element `Rest`, which only
complements contain.  Then the program is executed, and any one entry of a block is
watched: what is read before it is written, and what is written, by that activation and
all it calls.  `ResumedReadsAreMemoized` is what PendingList takes for granted (a
block reads no local that is not restored), `CallsAreCovered` what FunShare does.  The code of a program
is any for which the points-to relation and the call graph are right (`IsCode`); allocation
takes an object that nothing points to, and structures are copied member by member.

`CallsAreCovered` needs `KillsAreOwn`: what is said to be overwritten is truly local to its function, or no
local at all.  The code takes care of that for the object itself (`one`), but not for the members of a
structure: makeLocals leaves out the members that others may have pointers to, and keeps the
structure.  The run `locals_parts` shows what comes of it (a finding); in the programs of the run
`locals` there is no such structure, and `KillsAreOwn` is part of what it checks (`MemoizationSuffices` is that and
`ResumedReadsAreMemoized`).

The sets get from the analyzer to the library as string literals: positions in base 255 with
octal escapes, read by `MEMOSTEP`, and object numbers as bits, read by `setinwhat`.
`MemoText` writes and reads them (`TextMeansSet`, a part of the same run: the first state says which of
the two modules is looked at).

`DFstmt` does not look at the argument of `free()`, as
dataflow.tex:168 says it should; data known early are never freed (gg-code.cc:249),
but residual code for `free()` may contain early values.  The model has no residual
code and does not show this.  And `Use` of a function keeps its own truly locals,
which is more than need be.

### BindingTimes

Constraints are requested in any order, types are made equal by `unify` (the
stack of calls in progress is `unifying`), then the graph is flooded, and the
explanation of an error is traced.  Against the least solution, computed
independently: `SolutionIsLeast`; `CausesAreKept` (`CausesAreReal`, `RefcountsAreExact`)
and `TraceEnds` concern the explanations.

### CoreC, Annotation, GenExt, Congruence

The main theorem of partial evaluation, on whole programs.  `CoreC` has the programs and
their execution; `Annotation` the constraints that `bta.cc` generates for every expression, statement
and jump and their least solution; `GenExt` the sharability of `share.cc` and the generating
extension that `gg-*.cc` emits: static statements are executed, others lifted into residual code,
residual functions and blocks are shared.  `Congruence` annotates, runs the extension on a static input and the
residual program on a dynamic one, and compares the outputs with those of the original.

* `ResidualBehaves`: equal outputs, including when the program does not end.
* `ExitsAgree`: whichever residual path a generating function has taken last,
  its caller finds the same static state and static result.

Excluded: initializers of globals with pointers (`gen_init` passes the variable where a function is
expected, bta.cc:480), and programs that, on a path specialized in advance only,
dereference a static null pointer.  The target of an assignment from a call is evaluated before the
call in generating extensions; C leaves this open.

### Separate

Instances of structures with the definitions of their parts, nodes that are split
as `SepNode::solve` does it, with the index that tells moved instances from checked ones.
With one part per structure the result is as promised
(`SameBindingTimes`); with two it is not, because `match` compares the first part
again and again (a finding).  The result is not the coarsest separation either;
that is not promised anywhere, so there is no property about it.

### PendingList, Polyvariant

`PendingList` has the stack of activations, each with its memo set, its list of
pending points, its static locals and its residual function, the flag
`pendingIsCurrent`, the labels made, defined and referred to.  Actions: `Call`
(the prologue of a generating function: a list is pushed, and the first block
inserted if the generating function has to), `JumpGoto`, `JumpIf`, `JumpReturn` (the end of
a block, with what the block did to the static locals), `Pending` (the
loop head: `cmixPending` with `restore_locals`, the label, the next block) and
`PopPend`.  What a block computes is arbitrary.

* `FlagSound`, `ResumeFaithful`: the shortcut with the shared flag never leaves
  wrong values in the locals of a resumed block, whatever the nested calls did.
* `LabelsAreSound` (`OneLabelPerConfiguration`, `NeverMultiplyDefined`, `NoDanglingJump`,
  `JumpsStayInFunction`): the promises on which printing of the residual code
  rests; `Terminates` needs that configurations are finite.
* `Polyvariant` is the same without lists, labels and flags: a set of
  configurations seen and one to do.  `ImplementsPolyvariant` is the refinement.

### FunShare

The static state is objects with numbers or pointers, walked from the globals and
the parameters as `cmixCopyState` does it, with visit flags and the restriction
to the declarations in "what".  Actions: `Assign` (a static assignment, also to a
parameter of a caller), `Enter` and then `Share` or `Specialize`
(`cmixFindOrPushFun`), `Return` (`cmixSaveExitState`).  Both walks are loops over a record that says where the
walk has come to: `CopyOne` makes a list of what it finds, `CmpOne` compares with the elements of a list.
Objects are paired by position although the comparison never looks at the identity of the object.
What the program may do is external: `MayWrite` and `MayPoint` say what the analyses
promise of its assignments and of the addresses it hands on.

* `SharingIsExact` (`SharedIffSameInput`, `NoDuplicateSpecialization`): with no pointer
  that dangles, the comparison is exact; `SharingReplaysEffect`, `NoRestoreIntoDeadObject`.
* `PointersAreSound`: no object that a call depends on points to a parameter that is gone, or to a caller's
  that "what" leaves out.  It is what the walks take for granted, and the hypothesis of the theorems.
* `SharedOnlyForSameArgument` is violated once the program may keep a pointer to
  a parameter that is gone (a finding).
* A recursive call may share the function that is being specialized; its end
  state is not known then, and `SharingReplaysEffect` speaks of finished ones only.

### MemHash

Blocks, the table with its bucket lists, and the copies that are held.
`ShareCopy` and `MakeCopy` are the outcomes of creating a copy, `Release` frees one.  The hash function
only depends on the size: the loop over the contents starts at the address of the
block and is to go on while it is below it.  The bucket lists decrease, though the
comment at the table says that they increase; search and insertion agree
with each other, so that nothing is wrong (`CopiesAreKept`: `HeldIsFound`,
`LargeAreShared`, `CopiesAreIntact`).

### YGTree, SortedSets

The balanced trees under all sets and maps of the analyzer: a heap of leaves and inner nodes,
insertion, deletion with rotation and merging, iterators that are used while the tree changes, and the
operations of `Pset` built on them.  `SortedSets` is the same as a set; `Abstract` is the
refinement and `WellFormed` the representation (balance, order, threads between leaves).
`Pset_minus(A,A)` empties A and answers that nothing changed (ygtree.cc:957-964); the fixpoint iterations
never call it so.

### Restructure, Printing

`Restructure` has the residual function as a program emitted block by block
(`Emit`: a label is referred to before it is emitted, and labels are numbered by
first mention), the phases of `cmixRestructStmts` as actions
(`CompressFun`, `MakeIntervals`, `FindDominators`, `FindLoops` once per generation
of intervals, `StructLoops`, `CondDetect`), and the lists of references in the order the
code keeps them, on which the choice of follow nodes depends.  `Printing` extends it with
the two printers, `PrintRestructured` (both passes, with the labels numbered in
the first) and `PrintUnrestructured`; the text is a list of tokens.  `Run` executes
text and graph side by side; what conditions evaluate to is open, and one of them may go wrong.
A block that ends in an expression that cannot be made residual aborts.

* `TextBehavesAsGraph`: every statement, the end, and an endless silent loop come at
  the same time in both; a condition whose evaluation is undefined behaviour is not
  evaluated by the text unless the graph does it.
* `PrintedOnce`: no reachable statement is lost or doubled, and the printer's own
  assertions hold.  The two together are `TextIsTheProgram`.
* `StructureIsRight`: `DominatorsAreRight` (one pass finds the dominators of reducible graphs) and
  `LoopsAreNatural` (what is called a loop is one, and loops nest).

A failed assertion stops the program: no action follows.  Neither does one follow in the phase
"hung", in which the code is in a loop for ever.  The properties of the text
concern the programs for which there is one; in the family of the run
`separate` there are the following exceptions (blocks `n: {statement; control}`):

* `collapseCompounds` (restruct.c:744) goes on for ever on
  `1:{s; goto 2} 2:{if 3 4} 3:{if 2 4} 4:{if 3 4}`: two empty conditionals in
  a cycle are taken into the third again and again.
* `commonDom` (restruct.c:279) goes on for ever on the irreducible
  `1:{if 2 3} 2:{if 3 4} 3:{if 2 4} 4:{if 2 4}`: a dominator that is not known yet
  is passed on as one, and the two walks chase each other.
* The assertion restruct.c:712 fails on `1:{s; goto 2} 2:{if 2 3} 3:{s; if 2 4} 4:{s; goto 1}`:
  both branches of a conditional lie in the loop and neither is the header.

A fourth needs seven blocks, and is what the run `printing_nested` shows: `markLoop`
(restruct.c:332) fails on three nested loops of which two are left at once.

### CSyntax, Rendering

`Rendering` has the printers of the C program (`outcpgm.cc`) and of Core C (`outcore.cc`); `CSyntax`
is a reader for the tokens: the grammar of `gram.y`, with the specifiers and declarators of `syntax.cc`.

* `ListingsMean`: the listing of a program, read back, is the program; that of Core C means
  what the Core C program does.  `SpecifiersMean`: specifiers in any order denote the type C says, or are rejected.

Excluded (`Departs`, `CoreDeparts`, `Shown`, `CoreShown`), since the listings do not mean
the program there: a right operand of the same precedence and the operands of a conditional are printed
without parentheses (`a - (b - c)`; outcpgm.cc:498-506, 600-613), so are commas among arguments; `- -a` is
printed as `--a`; qualifiers of pointers stand before the star (outcpgm.cc:148-195); lists of parameters that are
empty, `void` or variable, storage classes of functions, widths of bit fields, `sizeof` of a cast; `calloc` and `malloc` of Core C
are not C at all.

### AnnoTrees, Browser

`AnnoTrees` has the annotated trees and the layout that export (`output.cc`) and `annopp.c` give
them; `Browser` the server: the store with its lazily filled hash table, the modes of the annotation types,
pages that stay open while the file is read again or other types are chosen, and every request.

* `PagesAreRight`: the text of a page is the text of the tree, in order and in lines that fit, with the colours
  and links of the annotations shown, properly nested (`PageShowsOutput`), and following a link of any page
  shows the tree with its label, or says that it is gone (`LinksLeadToTargets`).
* `SelectionsAreSound`: nothing is hidden below what is shown, and a click can be undone.

An index that is built over a tree laid out before is excluded: `annopp.c:71` leaves a mark
that `IndexLabels` (annohash.c:156) does not know, and the server stops.

## 3. Runs and bounds

Components that share no state are checked in one run: the first state says in `which` of them the
run is, and the variables of the others stay as they are.  The properties of each are
conjunctions of the named parts of section 2.

| run | components and bounds | why they are enough |
|---|---|---|
| frontend | Linkage: 7 vocabularies (objects, arrays, functions, old functions, structures, enumerations, labels), 2 files, up to 4 to 6 events, 2 levels of blocks | two files, or a block within a block, and three declarations of a thing in each order |
| | Conversions: expressions of up to two operators over 22 variables of all types, 3 memories; initializers of arrays, structures and unions with and without braces; `char` has 3 bits, `short` 4, `int` 5, `long` 6 | each pair of types at each operator, values at the edge of every width |
| | Lowering: 2419 function bodies, 2 memories, 6 jumps backwards | every operator over operands with side effects in both places; loops with all jumps; two nested levels of statements |
| analyses | PointsTo: 13 statements, programs of up to 4 and that of all | chains through two pointers, a structure and a call take four statements |
| | BindingTimes: 3 recursive types, 11 requests, programs of up to 4 | two equalities that meet in the middle, a dynamic variable and a dependency |
| | Congruence: 1461 programs of 1 to 4 functions, static and dynamic inputs 0 and 1, 120 blocks specialized at most | each program combines two features (pointers to locals, globals, recursion, loops under dynamic control, lifting, structures) |
| locals | 3 functions without pointers, 2 with; 11 points-to pairs, programs of up to 2; 4 activations; with code, 98 combinations of statements and jumps for f, 3 for g, up to 3 blocks | recursion needs two instances of a function with one of the other between them; a value that crosses a block, a loop and a recursive call fits into three blocks |
| | MemoText: sets of up to 2 of 21 positions up to 766, and all; up to 17 objects | all places where another digit begins, and a last byte that is zero or full |
| locals_parts | one program, with a structure in a recursive function | a caller, two activations of the function and one in between |
| fixsolver | 2 cells, 8 constraints, up to 4 at the start | cycles, constraints that create others, constraints that always report |
| separate, separate_parts | Separate: 4 structure types with 1 part, at most 2 dynamic; 4 with 2 parts | a chain of splits of length 3, cycles, and unequal second parts |
| | Printing: functions of up to 4 blocks (the first one `s; goto` or an empty `if`; the branches of the last in one order), with and without restructuring | two nested loops, loops with two entries, loops of all three types with breaks and continues, conditionals that share their follow, and collapsed ones, all fit into 4 blocks |
| pending | 2 generating functions, 2 points, 2 locals with 2 values, 2 calls | two activations are needed for one to disturb the flag of the other, two points with different memoization sets for a restore to leave something alone |
| tables | FunShare: depth 2, 1 heap cell, 1 global, 1 global pointer, 2 residual functions (3 in funshare_dangling) | a caller and a callee, each pool with an entry that matches and one that does not |
| | MemHash: 6 blocks of 3 sizes, one bucket list for the 5 large ones, 3 addresses, 2 copies of each | insertion before, between and after, equal sizes and different ones, shared copies |
| | YGTree: 5 elements, 2 to a leaf (12 in the code) | trees of height 2: each rotation, merging of leaves, iterators on both sides of a split |
| printing_nested | one function of 8 blocks | the smallest with a third loop to leave |
| listings | Rendering: about 24700 cases: expressions two operators deep, statements two deep, types three derivations deep, lists of up to 3 specifiers, whole programs | precedence is a relation between an operator and the one below it |
| | Browser: 2 documents, 6 types of annotations, 3 first selections, 5 requests, lines of 20 characters (75), trees of 4 lines (10) and pages of 20 (40), 2 lines above a target (5), 4 buckets (256) | trees larger than a line and a page; three windows, two of them out of date |

Deadlock is not checked where the component may come to rest: the analyses stop
when they are done, and the library is done when its caller is.

Violations are expected of the runs `funshare_dangling`, `separate_parts`, `printing_nested` and
`locals_parts`; PROJECT.json quotes what they disagree with.

## 4. Fairness

The programs are sequential: as long as an analysis or a loop of the library
has something to do, it does it.  That is weak fairness of the step that solves, or of
`Next` where only the component itself moves: the solver (`Terminates` of FixSolver), the
binding-time solver and its traces (`TraceEnds`), the separation (`Ends`) and the
pending loop (`Terminates` of PendingList).  No fairness is assumed of the
executions in PointsTo, Locals and DataFlow, nor of the user in Browser.
`Terminates` of PendingList holds because of the
bound on calls and of finite sets of values; generating extensions may run for
ever on an infinite static state, and that is documented behaviour.

## 5. Proofs

For every value of the constants that keeps the named assumptions:

* `PendingListProofs`: `TypeCorrect`, `FlagIsSound` and `BlocksResumeFaithfully`.
  The inductive invariant is the type invariant with the flag's meaning: if the
  flag is set, the locals of the innermost activation agree with the first
  pending node.  It needs that the nodes of a list come from the function of the
  activation, so that restoring writes only to memoized locals; that is part of
  the types (`NodeOf`, `FrameOf`).  Each action is a lemma.
  `LabelsAlwaysSound` needs more (`LabelInv`): the labels of the memo lists and the end labels
  of unfolded functions belong to one activation each (`OwnersDiffer`); a label that is due, that
  is, pending or the end of an unfolded call, has not been emitted (`DueIsUndefined`), and an own
  label that is not due has (`OwnIsAccountedFor`); and whatever mentions it is in the residual
  function of its activation (`LabelsInPlace`).  Unfolded activations share that
  function with their caller, which is why due and own labels are told apart.
  `PendingListsArePolyvariant` is the refinement `ImplementsPolyvariant`: the insertions of a jump
  discover its set of configurations (`PendinsertDiscovers`), a pop resumes one that is left to do, and because of
  `FlagSound` its values are in the locals also where restoring them is skipped.
* `PendingListProofs`, on MemoText: `TextAlwaysMeansSet`, for any finite set of positions and any set of object
  numbers, so also for positions and sets that take more bytes than those of the run.  What the folds of the text and of an escape compute is shown
  first (`FoldExists`, `MemodataIs`, `ByteRounds`): an escape of up to three octal digits is the byte it was made from
  (`OctalIs`).  While positions are read (`PositionsRead`), the cursor is behind the text of the first k of them and these have
  been restored; the next byte is 0 only at the end, since a position is never 0 and its other digit is 0 only behind a
  full one (`PositionMeant`), and the loop counts just the full digits, as the other one is never 255 (`FullIs`).  For object
  numbers, every bit can be told from the sum of the bits of its byte (`SumIsWeight`, `BitsTell`), and the 0 at the end of the literal stands
  for the last byte where that is left out (`MemowhatIs`).
* `FixSolverProofs`: `TypeCorrect`, `ResultIsSolution` and `ResultIsLeast`.  The
  invariant is that every known constraint that is not on the work list is
  solved and depends on all it has read (`IInv`); a step keeps it because of
  `UnaffectedAssumption` and `ReportsAssumption`.  `ResultIsLeast` compares with
  an arbitrary solution; its hypothesis is `Monotone(State)`, which MCFixSolver evaluates.
  It is no assumption of the solver, since copies of structures in the points-to analysis need not keep it
  where two structures have different members.
* `PointsToProofs`: `AnalysisIsSolver`, the refinement `ImplementsSolver`, and
  `AnalysisAlwaysCovers`, the correctness of the analysis.  What `InAll`, `Push` and `Eval` compute is shown
  first (`InAllIs`, `PushIs`, `EvalRecurs`): they are recursive functions, and it takes a witness to
  show that there are such functions.  `UpdateIs` says what a constraint does without its loops
  (`Flows`).  `SolverInv` keeps the work list sorted and without duplicates, which makes its
  head a constraint solved longest ago, and has every constraint told of the cells its constructor reads.
  The assumptions of FixSolver are proved of `Update`, `Reads` and `Spawn` (`TypesAreKept`, `UnaffectedIsKept`,
  `ReportsAreKept`), so that by `AnalysisIsSolver` its invariant holds of the analysis
  (`SolverHolds`): when the work list is empty every constraint holds (`HeldIs`).  From this follows, over the
  length of an expression, that what it is worth is in its set (`EvalCovered`), and with one lemma for each
  kind of statement that the store stays covered (`StoreInv`, which adds that
  the calls under way have their constraints, since a return assigns to the caller's expression).
* `DataFlowProofs`, on Locals: `LocalsAlwaysOwn`.  `Least` is the least closed set (`LeastIs`), so that
  what the code marks as public is closed under pointers and members (`PublicIs`).  While callers are found
  (`CallsSound`), those found are real, and a function that is not waiting has handed on its own.  In the
  execution every function on the stack is a caller of those above it (`StackSound`), and whatever an
  activation can reach of one below it has a declaration that is public to its function
  (`StoreSound`, `NextToMeets`).  Unique declarations are those of functions that do not call themselves, which are on
  the stack once (`OneActivation`).
* `DataFlowProofs`, on DataFlow: `CallsAlwaysCovered`, for any programs with code, and any constraints' order:
  `CallsAreCovered` and `ResumedReadsAreMemoized` follow from `[]KillsAreOwn`.  The hypothesis is what the finding of
  `locals_parts` is about; `SimpleCallsCovered` and `SimpleMemoizationSuffices` do without it for programs in which no
  local variable is a structure or an array, since it holds there (`SimpleKills`).  `FlowSound` is the invariant of the three solvers: a constraint that is not
  on the work list holds (`SolverSound`), and each statement's own sets are kept.  In the end the constraints are
  inclusions between the sets of a block and what it leads to (`UseKnown`, `WmayKnown`, `WdefKnown`); nothing is needed of
  their being least.  In the execution, which is one of `Locals` but for heap objects, an activation only comes across objects
  that are `Visible` to it (`WalkMeets`, `VisibleIs`): no truly local object of an older activation of its function.  For the
  watched block, and every activation that it has led to, `WatchOn` says that what is yet to be used has been written or is
  in the set Use of the block (`ReadsSound`), that what an activation is sure to write it has written or has still to write
  in the rest of its block (`KillsSound`), and that what it may write is in Wmay of the watched function
  (`WritesSound`).  The call and the return are where this could break (`PushKeeps`, `PopKeeps`): the sets of a function
  have its truly locals taken out, and that is right because no other activation can see those.  A kill is right
  because `one` is an object of which the activation sees only its own (`KillsHit`, which needs `OneActivation`).  Heap objects have an
  age, the activation that allocated them, and pass as if they were local to it (`Aged`, `AllocSound`).

* `MemoProofs`, on MemHash: `CopiesAlwaysKept`, for any blocks and any hash function.  In `TableInv` the buckets of a list descend
  strictly (`Descends`), each stands for memory that is held, with the number of its copies (`Counts`), and every
  large copy that is held has a bucket in the list of its hash value (`Listed`).  So the search ends at
  the bucket of its block if there is one (`BucketFound`), and else where a new one keeps the order
  (`NotFoundIs`); without the order the search could stop early, a block would be copied twice and one of the
  copies not be found any more.
* `MemoProofs`, on FunShare: `SharingAlwaysExact` and `RestoresAreAlive`, for any globals, heap and depth of calls.  Both have
  `[]PointersAreSound` as their hypothesis: what the pointer and data-flow analyses promise is no part of
  this module, and without it the walks do go wrong (`funshare_dangling`); the run `tables` shows that it holds where
  no pointer dangles.  A list that a walk has made is described without the walk (`IsWalk`): every element is what the one before
  points to, if the call depends on that and it is new, and else the first such root; and at the end there is none.  The loop of
  `cmixCopyState` makes such a list within as many rounds as there are objects and roots (`WalkInv`, `CopyStateIs`), and what is in it is
  the least closed set (`ReachedIs`).  The loop of `cmixCmpState` goes the same way as
  long as the values agree (`Along`, `CmpIs`).  If two walks of calls of one function, maybe at different depths, agree in
  their values, then by induction over their length they have met the same objects but for the address of the
  own parameter (`AlikeStep`), and neither can end before the other (`AlikeEnd`): so comparing values by
  position, as far as both lists go, is comparing the sets (`ComparingIsExact`).  `ShareInv` is what the pools
  keep: every residual function is in the pool of its generating function and has the walk it was made from (`Saved`), and its end state
  has only objects of its input (`Ended`), so that these are reached again by every call that shares it.
* `SeparateProofs`: `SeparationIsRight`, for any number of structures of at most one part (`OnePart`).
  The hypothesis is what the code needs: `match` (separate.cc) compares the first part and no other, and with two
  the result is wrong (`separate_parts`).  A node that is not waiting is settled: the parts of its
  instances have the definition it stands for (`SepInv`).  Only a part that moves to a new node can unsettle
  it, and then the node is in the list of the node the part has left (`Hooks`), which wakes it (`SolveKeeps`).
  With all nodes settled the division is a congruence, and by induction over the depth the instances of a
  definition unfold to the same binding times (`CongruenceIs`).
* `BindingTimesProofs`: `SolutionAlwaysLeast` and `CausesAlwaysKept`, for any types, recursive ones included, and requests in any order.
  `Compressed` leaves the classes of the union-find structure alone and `Joined` makes one of two (`CompressedIs`,
  `JoinedIs`; there is a rank that falls on the way to the representative).  `unify` makes fewer arrows than
  asked for, since it stops at types of one class, and it has put types into one class before their
  components.  Hence the invariant speaks of what will be (`GenerateInv`): in every equivalence that includes the
  classes and the calls in progress, components of types of one class are equal (`Congruent`), and no set
  that the arrows do not lead out of parts the variables of a class (`Bound`).  With no call left, such a set
  respects everything asked for (`GeneratedIs`).  The flood keeps this up for the sets that include what it
  has reached (`FloodInv`); at the end what it has reached is itself such a set.  For the causes
  (`CausesInv`) a call of `unify` in progress is about types that its request alone makes equal, and
  a variable waits for another one by a request that asks for it.  The uses of a cause are counted as a set of
  places in lists: a round of the flood takes a list (`UsesTaken`), and its entries either
  become one reason each (`ReasonsAre`, `UsesExplained`) or are released.
* `SequenceLemmas`: what inserting into a list and taking out of it return, the least of a set of numbers, and that
  the recursive functions by which closures are defined return the least closed set (`GrowsExists`, `GrowsIs`);
  that loops and folds have a result (`LoopExists`, `FoldExists`), and sizes of sets.

The assumptions on the constants of a module are named in it and evaluated by the runs.

Only model-checked: the other modules; all liveness (termination of the loops), which is out of the
prover's reach; `ImplementsSets`, since the containers are defined with RECURSIVE operators, as
are the executions, translations and printers, and `Restructure`; `SharingReplaysEffect`, which needs of the data-flow
analysis that a callee writes nothing its callers are not said to write, and that a parameter at the same address has the same
declaration; `PointersAreSound`, which is about the program; and the properties that compose several modules (`MCTables`, `MCAnalyses`, `MCFrontEnd`,
`MCListings`), as those reach such operators.

## 6. Not modelled, and plan

Of the modelled components: external functions and their pointer pools (`pa.cc`); unions,
enumerations, bit fields, casts, function pointers and variadic calls in binding times; the
declarations of user types and globals in `c2core.cc` except what Linkage and Rendering need of them;
typedef names in declarations, the names of members, old-style definitions in listings; string and
floating-point lifts and the text of declarations in `gg-*.cc`; `splice` and the list interface of the containers; the
HTTP protocol.

Components left out: names in residual programs and in the generating extension (formatting of
strings, with declarations as names in the models), user directives, shadow variables of `init.cc`, run-time
support, options, messages, generated scanners and parsers.

To come, the most important first:

1. `Initializers` (init.cc) and unions in Annotation, so that they are part of Congruence.
2. External pools in PointsTo, `Names` (unparse.c), directives in Linkage.
