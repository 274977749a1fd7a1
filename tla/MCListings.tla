----------------------------- MODULE MCListings -----------------------------
(***************************************************************************)
(* What the user reads, in one run: the listings that the analyzer prints  *)
(* of a program (Rendering), and the viewer of its annotated listing       *)
(* (Browser).  The first state says which; the viewer that is not used     *)
(* shows nothing.                                                          *)
(*   Browser: two files.  The types are those of the analyzer in small:    *)
(*   1 the program, 2 pointers with 3 below, 4 binding times with          *)
(*   5 Spectime and 6 Residual.                                            *)
(***************************************************************************)
EXTENDS Browser

ParentOf == <<1, 1, 2, 1, 4, 4>>

T(name) == Text(name, 3)
Space   == Break(1, 0)

(* int x ; f ( ) { if ( x ) y = * p ; } with its annotations.              *)
Declarations == Block("C", 0, <<Label(11, Anno(Block("I", 2, <<T("int"), Space, T("x")>>), <<<<51, 5>>>>)), HardNL,
                                Label(12, Anno(T("*p"), <<<<61, 6>>, <<21, 2>>>>))>>)
Call(a)      == Anno(Block("I", 2, <<Anno(T("f"), <<<<51, 5>>>>), Anno(T("("), <<>>), Break(0, 0), a,
                                     Anno(Space, <<<<22, 2>>>>), Space, a, T(")")>>), <<<<22, 2>>>>)
Deref        == Anno(Block("I", 1, <<T("*"), Anno(T("p"), <<<<21, 2>>, <<61, 6>>>>)>>), <<<<62, 6>>, <<31, 3>>>>)
Conditional  == Block("C", 2, <<T("if"), Space, Anno(T("x"), <<<<51, 5>>>>), HardNL, Call(Deref), Break(1, 3),
                                Block("C", 3, <<T("{"), HardNL, Label(13, Call(T("y"))), Break(1, 0), T("}")>>)>>)
Deep         == Block("C", 6, <<T("a"), HardNL, Block("C", 8, <<T("b"), Break(1, 0),
                                Block("I", 4, <<T("c"), Space, Anno(T("d"), <<<<51, 5>>>>), Space, T("e"), Space, Label(14, T("g"))>>), HardNL, T("h")>>)>>)

Uses(name, l, decl) == Label(l, Block("C", 0, <<T(name), HardNL, Anno(T("at"), <<<<decl, 1>>>>)>>))
Points(l, other)    == Label(l, Block("C", 0, <<T("refers"), Space, T("to"), HardNL, Anno(T("o"), <<<<other, 2>>>>), HardNL,
                                                Anno(T("o2"), <<<<99, 2>>>>)>>))
Cause(name, l, y, other) == Label(l, Anno(T(name), <<<<other, y>>>>))

Tree2(y, o) == [type |-> y, tree |-> o]

Docs == <<
  << Tree2(1, Block("C", 0, <<Declarations, HardNL, HardNL, Conditional>>)),
     Tree2(2, Points(21, 22)), Tree2(2, Uses("m", 22, 13)), Tree2(3, Uses("n", 31, 11)),
     Tree2(5, Cause("s", 51, 5, 51)), Tree2(6, Block("C", 0, <<Cause("d", 61, 6, 62), HardNL, Cause("e", 62, 6, 61)>>)) >>,
  << Tree2(1, Declarations), Tree2(1, Block("I", 4, <<Call(T("x")), Space, Deep>>)),
     Tree2(2, Block("C", 0, <<Uses("m", 21, 15), HardNL, Call(Deref), HardNL, Points(22, 21)>>)),
     Tree2(5, Cause("s", 51, 5, 52)) >>
>>

----------------------------------------------------------------------------

VARIABLES which, case, phase, text, result

rendering == <<case, phase, text, result>>

RenderingData == INSTANCE MCRendering WITH
        Cases <- {}, WellKnown <- {}, Identifiers <- {}, Typenames <- {"T"}, Literals <- {}
RE == INSTANCE Rendering WITH
        Cases <- RenderingData!MCCases, Identifiers <- RenderingData!Id, Typenames <- {"T"},
        Literals <- {"1", "2", "3", "str"}, WellKnown <- {"stdout"}

IdleStore == Fresh(1, [y \in Types |-> "HIDDEN"])
IdleViewer ==
  /\ file = 1 /\ store = IdleStore
  /\ program = Blank /\ anno = Blank /\ selector = <<>> /\ requests = 0

ListingsInit ==
  \/ which = "viewer" /\ Init /\ case = "" /\ phase = "" /\ text = "" /\ result = ""
  \/ which = "listing" /\ RE!Init /\ IdleViewer

Viewing == which = "viewer" /\ Next /\ UNCHANGED <<which, rendering>>
Listing == which = "listing" /\ RE!Next /\ UNCHANGED <<which, vars>>

ListingsSpec == ListingsInit /\ [][Viewing \/ Listing]_<<which, vars, rendering>>

\* The selector's page is a consistent view of the program, whatever was clicked before,
\* and clicking back undoes a click.
SelectionsAreSound == which = "viewer" => NothingUnexpectedlyHidden /\ HidingIsUndone

\* The listings of the C program and of the Core C program, read as C, mean the program
\* that they were made from.
ListingsMean == which = "listing" => RE!ListingReadsBack /\ RE!CoreListingMeans

\* Specifiers in any order name the type that C says they name, or are rejected.
SpecifiersMean == which = "listing" => RE!SpecifiersMean
=============================================================================
