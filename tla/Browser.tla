------------------------------ MODULE Browser ------------------------------
(***************************************************************************)
(* The annotation viewer cmixshow as an HTTP server (-s): the repository   *)
(* of trees and its hash table of labels (annohash.c), the printing of a   *)
(* page with its links (annopp.c, annolink.c), the selection of the types  *)
(* shown (annocut.c) and the requests (frames.c).  The user has a window   *)
(* with a program page, one with annotations and the page of the selector, *)
(* which get old when the file or the selection changes; links of old      *)
(* pages are followed as well.  The text modes (annotext.c) print the      *)
(* program once.                                                           *)
(***************************************************************************)
EXTENDS AnnoTrees

CONSTANTS
    Types,          \* the numbers of the annotation types, 1 .. n
    Parent,         \* the parent of every type; a root is its own
    Marked,         \* types with a colour (ShownAsColor)
    Residual,       \* the marked type whose colour is bold
    Documents,      \* files: a sequence of sequences [type |-> .., tree |-> an Output]
    BigHeight,      \* 10: the height of trees with a window of their own
    MultiLines,     \* 40: lines shared by the trees of a page of annotations
    LinesAbove,     \* 5: lines shown above a target
    TableSize,      \* 256: the least size the hash table is computed from
    Selections,     \* sets of types shown when the file is read
    MaxRequests     \* bound on the requests of a run

VARIABLES
    file,           \* the document in the file
    store,          \* what the server keeps
    program, anno, selector,    \* the pages in the windows
    requests        \* the number of requests so far

vars == <<file, store, program, anno, selector, requests>>

----------------------------------------------------------------------------
(* The repository.  A root is the position of its tree in the document.    *)

Roots(d)    == 1..Len(Documents[d])
TypeOf(d, r) == Documents[d][r].type
Raw         == [d \in 1..Len(Documents) |-> [r \in Roots(d) |-> Tree(Documents[d][r].tree)]]
LaidOut     == [d \in 1..Len(Documents) |-> [r \in Roots(d) |-> Layout(Raw[d][r])]]
LabelsOf    == [d \in 1..Len(Documents) |-> [r \in Roots(d) |-> LabelsIn(Raw[d][r])]]

(* AddAnnoTree puts a tree before the others of its type.                  *)
TreesOf(d, type) == SelectSeq(Reverse([r \in Roots(d) |-> r]), LAMBDA r : TypeOf(d, r) = type)

(* GetMainTree: the first tree of the first type that has any.             *)
MainTree(d) == LET first == CHOOSE y \in Types : /\ TreesOf(d, y) # <<>>
                                                 /\ \A z \in 1..(y - 1) : TreesOf(d, z) = <<>>
               IN  TreesOf(d, first)[1]

(* The size of the hash table, with 2 and 3 as its only prime factors.     *)
RECURSIVE Doubled(_, _)
Doubled(i, wanted) == IF i < wanted THEN Doubled(2 * i, wanted) ELSE i

LabelCount(d)        == FoldLeft(LAMBDA n, r : n + Len(LabelsOf[d][r]), 0, [r \in Roots(d) |-> r])
Lowered(size, wanted) == IF size - size \div 4 > wanted THEN size - size \div 4 ELSE size
SizeFor(wanted)      == Lowered(Doubled(TableSize, wanted), wanted)
HashSize(d)          == SizeFor((LabelCount(d) * 5) \div 4)

Free == [type |-> 0, label |-> 0, resolved |-> 0]

(* do_hash: the entry of a label, or the first free one on its way.        *)
RECURSIVE DoHash(_, _, _, _)
DoHash(table, type, label, guess) ==
    LET n == Cardinality(DOMAIN table)
        e == table[guess]
    IN  IF e.resolved = 0 \/ (e.type = type /\ e.label = label) THEN guess
        ELSE DoHash(table, type, label, (guess + (((type + 1) * 6 + 1) % n)) % n)

Slot(table, type, label) == DoHash(table, type, label, label % Cardinality(DOMAIN table))

IndexLabels(d, type, root, table) ==
    FoldLeft(LAMBDA t, l : [t EXCEPT ![Slot(t, type, l)] = [type |-> type, label |-> l, resolved |-> root]],
             table, LabelsOf[d][root])

(* The labels of a type are entered when the first link to it is followed. *)
Indexed(st, type) ==
    IF type \in st.hashed THEN st
    ELSE LET trees == TreesOf(st.doc, type)
             empty == IF st.table = <<>> THEN [i \in 0..(HashSize(st.doc) - 1) |-> Free] ELSE st.table
         IN  [st EXCEPT !.table  = FoldLeft(LAMBDA t, r : IndexLabels(st.doc, type, r, t), empty, trees),
                        !.hashed = @ \cup {type},
                        !.alive  = \A i \in 1..Len(trees) :
                                      trees[i] \in st.laid => ~Unindented(LaidOut[st.doc][trees[i]].tree)]

Resolved(st, type, label)    == [store |-> st, root |-> st.table[Slot(st.table, type, label)].resolved]
FollowLabel(st, type, label) == Resolved(Indexed(st, type), type, label)

(* A root of 0 is the text of an unresolved link.                          *)
PrettyHeight(st, root) == IF root = 0 THEN 0 ELSE LaidOut[st.doc][root].breaks
Measured(st, root)     == [st EXCEPT !.laid = @ \cup ({root} \ {0})]
Printed(st, root)      == IF root = 0 THEN String("unresolved", 1) ELSE LaidOut[st.doc][root].tree

----------------------------------------------------------------------------
(* Printing a page.  s is the state of the printer, of its line (the       *)
(* latch) and of the links; a page is a sequence of tokens.                *)

Put(s, token)   == [s EXCEPT !.line = Append(@, token)]
Write(s, token) == [s EXCEPT !.out = Append(@, token)]
Html(s)         == s.viewer = "s"

(* How a text viewer shows a character: overstruck, underlined.            *)
Emphasis(s) ==
    LET static  == s.any /\ s.static > 0
        dynamic == s.any /\ s.dynamic > 0
    IN  CASE s.viewer = "b" -> <<dynamic, FALSE>>
          [] s.viewer = "u" -> <<FALSE, dynamic>>
          [] s.viewer = "l" -> <<dynamic, static>>
          [] s.viewer = "r" -> <<static, dynamic>>
          [] s.viewer = "s" -> <<FALSE, FALSE>>

Looked(st, type) == st.mode[type] = "YES" \/ type \in Marked

BeginLink(s, type, label) ==
    IF Html(s)
    THEN [s EXCEPT !.toDisplay[type] = label, !.changed = @ \/ Looked(s.store, type)]
    ELSE CASE type = Residual                       -> [s EXCEPT !.dynamic = @ + 1]
           [] type \in Marked \ {Residual}          -> [s EXCEPT !.static = @ + 1]
           [] OTHER                                 -> s

(* Variant with a defect: the link around the one that ends is forgotten.  *)
EndLink_none(s, type, oldlabel) ==
    IF Html(s)
    THEN [s EXCEPT !.toDisplay[type] = 0, !.changed = @ \/ Looked(s.store, type)]
    ELSE CASE type = Residual                       -> [s EXCEPT !.dynamic = @ - 1]
           [] type \in Marked \ {Residual}          -> [s EXCEPT !.static = @ - 1]
           [] OTHER                                 -> s

EndLink(s, type, oldlabel) ==
    IF Html(s)
    THEN [s EXCEPT !.toDisplay[type] = oldlabel, !.changed = @ \/ Looked(s.store, type)]
    ELSE CASE type = Residual                       -> [s EXCEPT !.dynamic = @ - 1]
           [] type \in Marked \ {Residual}          -> [s EXCEPT !.static = @ - 1]
           [] OTHER                                 -> s

LinkKill(s) ==
    IF ~Html(s) THEN [s EXCEPT !.any = FALSE]
    ELSE [s EXCEPT !.line      = @ \o [i \in 1..Len(s.stop) |-> <<"/C", s.stop[i]>>]
                                   \o (IF s.atag THEN << <<"/A">> >> ELSE <<>>),
                   !.stop      = <<>>,
                   !.atag      = FALSE,
                   !.displayed = [y \in Types |-> 0],
                   !.changed   = TRUE]

Ordered == SetToSortSeq(Types, <)

(* The links to display, in the order of their types.                      *)
ActiveLinks(s) == LET active == SelectSeq(Ordered, LAMBDA y : s.toDisplay[y] # 0 /\ s.store.mode[y] = "YES")
                  IN  [i \in 1..Len(active) |-> <<active[i], s.toDisplay[active[i]]>>]
Colours(s)     == SelectSeq(Ordered, LAMBDA y : s.toDisplay[y] # 0 /\ y \in Marked)
Differs(s)     == \E y \in Types : Looked(s.store, y) /\ s.toDisplay[y] # s.displayed[y]

(* A high tree gets a window of its own; found is where a lone link leads. *)
Opened(s, links, found) ==
    [Put(s, <<"A", IF Len(links) = 1 /\ PrettyHeight(found.store, found.root) >= BigHeight
                   THEN "single" ELSE "multi", links>>) EXCEPT
        !.atag  = TRUE,
        !.store = IF Len(links) = 1 THEN Measured(found.store, found.root) ELSE @]
Anchored(s, links) ==
    IF links = <<>> THEN s ELSE Opened(s, links, FollowLabel(s.store, links[1][1], links[1][2]))
Coloured(s, colours) ==
    [s EXCEPT !.line      = @ \o [i \in 1..Len(colours) |-> <<"C", colours[i]>>],
              !.stop      = Reverse(colours),
              !.displayed = s.toDisplay,
              !.changed   = FALSE]

LinkAjour(s) ==
    IF ~Html(s) THEN [s EXCEPT !.any = TRUE]
    ELSE IF s.changed /\ Differs(s) THEN Coloured(Anchored(LinkKill(s), ActiveLinks(s)), Colours(s))
    ELSE [s EXCEPT !.changed = FALSE]

Rule(s, wanted) == IF wanted THEN Write(s, <<"HR">>) ELSE s
OutputLatch(s) ==
    [s EXCEPT !.out  = @ \o s.line \o << <<"NL">> >> \o (IF s.till = 1 THEN << <<"NAME">> >> ELSE <<>>),
              !.line = <<>>, !.open = FALSE, !.till = @ - 1]
CloseLine(s)         == IF s.open THEN OutputLatch(LinkKill(s)) ELSE s
StartLine(s, indent) == [s EXCEPT !.column = indent, !.indent = indent, !.begun = FALSE, !.ended = FALSE]
NewLine(s, indent)   == StartLine(Rule(CloseLine(Rule(s, s.begun)), s.ended), indent)

PrepareLatch(s) ==
    IF s.open THEN s
    ELSE [s EXCEPT !.open = TRUE,
                   !.line = (IF s.unindented > 0 THEN << <<"/*", s.unindented>> >> ELSE <<>>)
                            \o << <<"S", s.indent, Emphasis(s)>> >>]

Spaces(s, n)       == Put(s, <<"S", n, Emphasis(s)>>)
Written(s, t)      == Put([s EXCEPT !.column = @ + t.w], <<"T", t.text, Emphasis(s)>>)
InsertString(s, t) == IF t.text = "" THEN s ELSE Written(LinkAjour(PrepareLatch(s)), t)

AfterElement(s, e, indent) ==
    CASE e.sep = "BREAK"   -> Spaces(LinkKill(PrepareLatch(s)), e.spaces)
      [] e.sep = "NEWLINE" -> NewLine(s, indent + e.offset)
      [] e.sep = "NEVER"   -> s

RECURSIVE Dive(_, _)
Dive(t, s) ==
    CASE ~s.store.alive     -> s
      [] t.tag = "STRING"   -> InsertString(s, t)
      [] t.tag = "UNINDENT" -> NewLine([Dive(t.sub, NewLine([s EXCEPT !.unindented = @ + 1], 0))
                                           EXCEPT !.unindented = @ - 1], s.column)
      [] t.tag = "CONCAT"   -> Dive(t.c2, IF t.consistent THEN NewLine(Dive(t.c1, s), s.column) ELSE Dive(t.c1, s))
      [] t.tag = "LABEL"    -> [Dive(t.sub, [s EXCEPT !.begun = @ \/ t.label = s.target])
                                   EXCEPT !.ended = @ \/ t.label = s.target]
      [] t.tag = "LINK"     -> EndLink(Dive(t.sub, BeginLink(s, t.type, t.label)),
                                       t.type, s.toDisplay[t.type])
      [] t.tag = "LIST"     -> FoldLeft(LAMBDA acc, e : AfterElement(Dive(e.contents, acc), e, s.column + t.indent),
                                        s, t.elements)

(* PrettyPrint: the mark of the target is some lines before it.            *)
Printer(viewer, st, target, lines) ==
    [viewer |-> viewer, store |-> st, target |-> target,
     out  |-> IF target # 0 /\ lines = 0 THEN << <<"NAME">> >> ELSE <<>>,
     till |-> IF target # 0 THEN lines ELSE 0,
     line |-> <<>>, open |-> FALSE, indent |-> 0, column |-> 0, unindented |-> 0,
     begun |-> FALSE, ended |-> FALSE,
     toDisplay |-> [y \in Types |-> 0], displayed |-> [y \in Types |-> 0],
     changed |-> FALSE, atag |-> FALSE, stop |-> <<>>,
     static |-> 0, dynamic |-> 0, any |-> FALSE]

(* The lines to print before the mark.                                     *)
LinesBefore(f) == IF f.found /\ f.lines > LinesAbove THEN f.lines - LinesAbove ELSE 0
PrintTree(viewer, st, t, target) ==
    NewLine(Dive(t, Printer(viewer, st, target,
                            LinesBefore(FindTarget(t, target, [found |-> FALSE, lines |-> 0, real |-> 0])))), 0)
PrettyPrint(viewer, st, root, target) == PrintTree(viewer, Measured(st, root), Printed(st, root), target)

----------------------------------------------------------------------------
(* The selection of types.                                                 *)

Children(y) == {z \in Types : Parent[z] = y /\ z # y}
IsRoot(y)   == Parent[y] = y

(* NormalizeCut, after a file is read.                                     *)
RECURSIVE Normal(_, _)
Normal(mode, y) ==
    IF IsRoot(y) THEN "YES"
    ELSE IF Normal(mode, Parent[y]) = "YES"
         THEN IF mode[y] = "HIDDEN" THEN "HIDE" ELSE mode[y]
         ELSE IF mode[y] = "YES" THEN "HIDDEN" ELSE mode[y]

NormalizeCut(mode) == [y \in Types |-> Normal(mode, y)]

RECURSIVE Flood(_, _, _, _)
Flood(mode, y, before, after) ==
    LET reached == {z \in Children(y) : mode[z] = before}
    IN  FoldLeft(LAMBDA m, z : IF z \in reached THEN Flood([m EXCEPT ![z] = after], z, before, after) ELSE m,
                 mode, Ordered)

(* Variant with a defect: types hidden with their parent stay so.          *)
CutOperation_alone(mode, enable, y) ==
    IF enable THEN [mode EXCEPT ![y] = "YES"]
    ELSE Flood([mode EXCEPT ![y] = "HIDE"], y, "YES", "HIDDEN")

CutOperation(mode, enable, y) ==
    IF enable THEN Flood([mode EXCEPT ![y] = "YES"], y, "HIDDEN", "YES")
    ELSE Flood([mode EXCEPT ![y] = "HIDE"], y, "YES", "HIDDEN")

HasTrees(d, y) == \E r \in Roots(d) : TypeOf(d, r) = y

RECURSIVE Interesting(_, _)
Interesting(d, y) == HasTrees(d, y) \/ \E z \in Children(y) : Interesting(d, z)

InterestingSubtypes(d, y) == {z \in Children(y) : Interesting(d, z)}
Passed(d, y)              == ~HasTrees(d, y) /\ Cardinality(InterestingSubtypes(d, y)) = 1

(* ComputeInterest: a type with nothing but one subtype to show is shown.  *)
ComputeInterest(d, mode) == [y \in Types |-> IF Passed(d, y) THEN "YES" ELSE mode[y]]

(* ListThem and ListSubtypes: p has the entries of the page and the modes, *)
(* which the listing of a passed type changes.                             *)
RECURSIVE ListThem(_, _, _), ListSubtypes(_, _, _)
ListSubtypes(d, y, p) ==
    FoldLeft(LAMBDA q, z : IF z \in Children(y) THEN ListThem(d, z, q) ELSE q, p, Reverse(Ordered))

ListThem(d, y, p) ==
    CASE ~Interesting(d, y) -> p
      [] Passed(d, y)       ->
            LET z == CHOOSE z \in Children(y) : Interesting(d, z)
            IN  ListThem(d, z, [p EXCEPT !.mode[z] = IF @ = "HIDDEN" THEN "HIDE" ELSE @])
      [] OTHER              ->
            LET q == [p EXCEPT !.entries = Append(@, <<p.mode[y], y>>)]
            IN  IF p.mode[y] = "YES" THEN ListSubtypes(d, y, q) ELSE q

DisplayCut(d, mode) ==
    FoldLeft(LAMBDA p, y : IF IsRoot(y) THEN ListSubtypes(d, y, p) ELSE p,
             [mode |-> ComputeInterest(d, mode), entries |-> <<>>], Reverse(Ordered))

----------------------------------------------------------------------------
(* The windows.  A page remembers what it was asked for, and of which      *)
(* document and selection it was made.                                     *)

Blank == [kind |-> "none", doc |-> 0, shown |-> {}, parts |-> <<>>]

Shown(mode) == {y \in Types : mode[y] = "YES"}

Fresh(d, mode) == [doc |-> d, laid |-> {}, table |-> <<>>, hashed |-> {}, mode |-> NormalizeCut(mode), alive |-> TRUE]

(* perhapsreread: FreeEverything and the new file, if there is one.        *)
Reread(st) == IF file = st.doc THEN st ELSE Fresh(file, st.mode)

Part(type, label, root, target, long, p) ==
    [type |-> type, label |-> label, root |-> root, target |-> target, long |-> long, tokens |-> p.out]

Page(kind, st, parts) == [kind |-> kind, doc |-> st.doc, shown |-> Shown(st.mode), parts |-> parts]

(* The links of a page; the user may follow those of old pages too.        *)
TokenLinks(p, i, kind) ==
    {p.parts[i].tokens[k][3] : k \in {k \in 1..Len(p.parts[i].tokens) :
                                        p.parts[i].tokens[k][1] = "A" /\ p.parts[i].tokens[k][2] = kind}}
Links(p, kind) == UNION {TokenLinks(p, i, kind) : i \in 1..Len(p.parts)}
LongTexts(p)   == {<<p.parts[i].type, p.parts[i].label>> : i \in {i \in 1..Len(p.parts) : p.parts[i].long}}

Request == store.alive /\ requests < MaxRequests /\ requests' = requests + 1

(* The frames appear and the browser asks for the program.                 *)
TopPage ==
    /\ Request
    /\ selector # <<>>
    /\ store' = Reread(store)
    /\ program' = Blank
    /\ anno' = Blank
    /\ selector' = <<>>
    /\ UNCHANGED file

ShowBig(type, label, root, target, st) ==
    /\ \E p \in {PrettyPrint("s", st, root, target)} :
          /\ store' = p.store
          /\ program' = IF p.store.alive THEN Page("program", st, <<Part(type, label, root, target, FALSE, p)>>) ELSE Blank
    /\ UNCHANGED <<file, anno, selector>>

TheProgram ==
    /\ Request
    /\ program.kind = "program" => program.parts[1].type # 0
    /\ ShowBig(0, 0, MainTree(store.doc), 0, store)

AnnoSingle ==
    /\ Request
    /\ \E l \in UNION {{q[1] : q \in Links(p, "single")} \cup LongTexts(p) : p \in {program, anno}} :
          \E found \in {FollowLabel(store, l[1], l[2])} : ShowBig(l[1], l[2], found.root, l[2], found.store)

(* Long trees are named only.                                              *)
Named(found)     == [store |-> Measured(found.store, found.root), out |-> <<>>]
Threshold(count) == IF MultiLines \div (2 * count + 2) < 4 THEN 3 ELSE MultiLines \div (2 * count + 2)

RECURSIVE Annotations(_, _, _, _)
Annotated(links, i, parts, root, long, p) ==
    Annotations(links, i + 1, p.store, Append(parts, Part(links[i][1], links[i][2], root, 0, long, p)))
Annotate(links, i, parts, found, long) ==
    Annotated(links, i, parts, found.root, long,
              IF long \/ ~found.store.alive THEN Named(found) ELSE PrettyPrint("s", found.store, found.root, 0))
FollowOne(links, i, parts, found) ==
    Annotate(links, i, parts, found, PrettyHeight(found.store, found.root) > Threshold(Len(links)))
Annotations(links, i, st, parts) ==
    IF i > Len(links) \/ ~st.alive THEN [store |-> st, parts |-> parts]
    ELSE FollowOne(links, i, parts, FollowLabel(st, links[i][1], links[i][2]))

AnnoMulti ==
    /\ Request
    /\ \E links \in UNION {Links(p, "multi") : p \in {program, anno}} :
          \E r \in {Annotations(links, 1, store, <<>>)} :
             /\ store' = r.store
             /\ anno' = IF r.store.alive THEN Page("multi", store, r.parts) ELSE Blank
    /\ UNCHANGED <<file, program, selector>>

(* By the button of the main program, or by the redirection after a cut.   *)
CutSelector ==
    /\ Request
    /\ selector # <<>> \/ (program.kind = "program" /\ program.parts[1].type = 0)
    /\ LET st == Reread(store)
           p  == DisplayCut(st.doc, st.mode)
       IN  /\ store' = [st EXCEPT !.mode = p.mode]
           /\ selector' = p.entries
    /\ UNCHANGED <<file, program, anno>>

CutAction ==
    /\ Request
    /\ \E i \in 1..Len(selector) :
          /\ selector[i][1] # "HIDDEN"
          /\ store' = [store EXCEPT !.mode = CutOperation(@, selector[i][1] = "HIDE", selector[i][2])]
    /\ UNCHANGED <<file, program, anno, selector>>

(* The analyzer writes the file again.                                     *)
Rewrite ==
    /\ Request
    /\ \E d \in 1..Len(Documents) : d # file /\ file' = d
    /\ UNCHANGED <<store, program, anno, selector>>

(* A viewer without a server prints the program and stops.                 *)
PrintText ==
    /\ requests = 0 /\ program.kind = "none"
    /\ requests' = MaxRequests
    /\ \E viewer \in {"b", "u", "l", "r"} :
          \E p \in {PrettyPrint(viewer, store, MainTree(store.doc), 0)} :
             program' = Page(viewer, store, <<Part(0, 0, MainTree(store.doc), 0, FALSE, p)>>)
    /\ UNCHANGED <<file, store, anno, selector>>

Init ==
    /\ file \in 1..Len(Documents)
    /\ \E shown \in Selections : store = Fresh(file, [y \in Types |-> IF y \in shown THEN "YES" ELSE "HIDDEN"])
    /\ program = Blank /\ anno = Blank /\ selector = <<>>
    /\ requests = 0

Next == \/ TopPage \/ TheProgram \/ AnnoSingle \/ AnnoMulti \/ CutSelector \/ CutAction
        \/ Rewrite \/ PrintText

Spec == Init /\ [][Next]_vars

----------------------------------------------------------------------------
(* What a page should show, from the Output trees themselves: the texts in *)
(* their order, each with the innermost anchor of every type around it and *)
(* the labels it is under.                                                 *)

RECURSIVE TextsOf(_, _, _)
TextsOf(o, links, within) ==
    CASE o.mark = "Text"  -> IF o.text = "" THEN <<>> ELSE << [text |-> o.text, links |-> links, within |-> within] >>
      [] o.mark = "Block" -> FoldLeft(LAMBDA s, b : s \o TextsOf(b, links, within), <<>>, o.blocks)
      [] o.mark = "Label" -> TextsOf(o.sub, links, within \cup {o.anchor})
      [] o.mark = "Anno"  -> TextsOf(o.sub, FoldLeft(LAMBDA f, a : [f EXCEPT ![a[2]] = a[1]], links, o.anchors), within)
      [] OTHER            -> <<>>

Texts == [d \in 1..Len(Documents) |-> [r \in Roots(d) |-> TextsOf(Documents[d][r].tree, [y \in Types |-> 0], {})]]

(* How a browser reads a page: links and colours must be properly nested   *)
(* and closed in their line; spaces and line ends are outside of them.     *)
Reading(tokens) ==
    FoldLeft(LAMBDA s, t :
        LET plain == ~s.in /\ s.colours = <<>>
        IN  CASE t[1] = "A"  -> [s EXCEPT !.ok = @ /\ plain, !.in = TRUE, !.href = Range(t[3])]
              [] t[1] = "/A" -> [s EXCEPT !.ok = @ /\ s.in /\ s.colours = <<>>, !.in = FALSE, !.href = {}]
              [] t[1] = "C"  -> [s EXCEPT !.colours = Append(@, t[2])]
              [] t[1] = "/C" -> [s EXCEPT !.ok = @ /\ s.colours # <<>> /\ Last(s.colours) = t[2],
                                          !.colours = IF @ = <<>> THEN @ ELSE Front(@)]
              [] t[1] = "T"  -> [s EXCEPT !.texts = Append(@, [text |-> t[2], href |-> s.href,
                                                               colours |-> Range(s.colours), emphasis |-> t[3]])]
              [] t[1] = "S"  -> [s EXCEPT !.ok = @ /\ plain /\ t[3] = <<FALSE, FALSE>>]
              [] OTHER       -> [s EXCEPT !.ok = @ /\ plain],
        [ok |-> TRUE, in |-> FALSE, href |-> {}, colours |-> <<>>, texts |-> <<>>], tokens)

Around(t, ys) == {y \in ys : t.links[y] # 0}

ExpectedEmphasis(viewer, t) ==
    LET dynamic == t.links[Residual] # 0
        static  == Around(t, Marked \ {Residual}) # {}
    IN  CASE viewer = "b" -> <<dynamic, FALSE>>
          [] viewer = "u" -> <<FALSE, dynamic>>
          [] viewer = "l" -> <<dynamic, static>>
          [] viewer = "r" -> <<static, dynamic>>
          [] OTHER        -> <<FALSE, FALSE>>

Expected(page, part) ==
    LET html  == page.kind \in {"program", "multi"}
        texts == Texts[page.doc][part.root]
    IN  [i \in 1..Len(texts) |->
            [text |-> texts[i].text,
             href |-> IF html THEN {<<y, texts[i].links[y]>> : y \in Around(texts[i], page.shown)} ELSE {},
             colours |-> IF html THEN Around(texts[i], Marked) ELSE {},
             emphasis |-> ExpectedEmphasis(page.kind, texts[i])]]

PartsOf(page) == {page.parts[i] : i \in {i \in 1..Len(page.parts) : ~page.parts[i].long /\ page.parts[i].root # 0}}

(* Every page prints each text of its tree once and in order, under        *)
(* exactly the links of the types shown that enclose it in the analyzer's  *)
(* output and in exactly the colours or emphasis of its binding times,     *)
(* whatever the line breaks (annopp.c 257-319, annolink.c, annotext.c).    *)
PageShowsOutput ==
    \A page \in {program, anno} : \A part \in PartsOf(page) :
        LET r == Reading(part.tokens)
        IN  r.ok /\ r.texts = Expected(page, part)

Least(a, b) == IF a < b THEN a ELSE b
LineEnds(tokens, a, b) == Cardinality({k \in a..b : tokens[k] = <<"NL">>})

(* A link leads to the tree that has its label, and there to a mark before *)
(* the target, LinesAbove lines away if there are as many, with the target *)
(* between two rules (annohash.c 108-209, annopp.c 219-234 and 326-406).   *)
LinksLeadToTargets ==
    \A page \in {program, anno} : \A i \in 1..Len(page.parts) :
        LET part  == page.parts[i]
            holds == {r \in Roots(page.doc) : /\ TypeOf(page.doc, r) = part.type
                                              /\ part.label \in Range(LabelsOf[page.doc][r])}
            texts == Texts[page.doc][part.root]
            inside == {k \in 1..Len(texts) : part.target \in texts[k].within}
            written == SelectSeq([k \in 1..Len(part.tokens) |-> k], LAMBDA k : part.tokens[k][1] = "T")
            first  == written[CHOOSE k \in inside : \A l \in inside : k <= l]
            last   == written[CHOOSE k \in inside : \A l \in inside : k >= l]
            names  == {k \in 1..Len(part.tokens) : part.tokens[k] = <<"NAME">>}
            rules  == {k \in 1..Len(part.tokens) : part.tokens[k] = <<"HR">>}
        IN  /\ part.label # 0 => IF holds = {} THEN part.root = 0 ELSE part.root \in holds
            /\ (part.target # 0 /\ part.root # 0 /\ inside # {}) =>
                  /\ \E k \in names : names = {k} /\ k < first
                                       /\ LineEnds(part.tokens, k, first) = Least(LinesAbove, LineEnds(part.tokens, 1, first))
                  /\ \E k, l \in rules : /\ rules = {k, l} /\ k < first /\ last < l
                                         /\ LineEnds(part.tokens, k, first) = 0

(* A page shows the listing as it is and leads where it says it leads: the *)
(* marks of links, colours and targets are put into one text, in one pass. *)
PagesAreRight == PageShowsOutput /\ LinksLeadToTargets

(* The selector never meets a hidden type below a shown one: "How did you  *)
(* do that??" (annocut.c 61-65), whatever is clicked in whatever order and *)
(* whatever is read again in between.                                      *)
NothingUnexpectedlyHidden == \A i \in 1..Len(selector) : selector[i][1] # "HIDDEN"

(* Hiding a type and showing it again brings back what was shown under it, *)
(* the page of the selector in between included (annocut.c 14-23, 109-129).*)
HidingIsUndone ==
    LET offered == DisplayCut(store.doc, store.mode)
    IN  \A y \in Types : <<"YES", y>> \in Range(offered.entries) =>
            LET hidden == DisplayCut(store.doc, CutOperation(offered.mode, FALSE, y)).mode
                again  == CutOperation(hidden, TRUE, y)
            IN  \A z \in Types : HasTrees(store.doc, z) => (again[z] = "YES") = (store.mode[z] = "YES")
=============================================================================
