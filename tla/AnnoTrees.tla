----------------------------- MODULE AnnoTrees -----------------------------
(***************************************************************************)
(* Annotated text on its way from the analyzer to a reader.  The analyzer  *)
(* builds Output trees and exports them (output.cc); the viewer parses the *)
(* file into AnnoTrees (outgram.y), measures them and breaks their lines   *)
(* (annopp.c).  A text is its name and its width; the characters of the    *)
(* exported file are left out, what the grammar makes of them is not.      *)
(***************************************************************************)
EXTENDS Integers, Sequences, FiniteSets, SequencesExt

CONSTANTS
    LineWidth       \* LINEWIDTH, 75 in the code

ASSUME LineWidthAssumption == LineWidth \in Nat /\ LineWidth > 10

----------------------------------------------------------------------------
(* Output trees, as the constructors of class Output make them.            *)

Text(name, width)          == [mark |-> "Text", text |-> name, width |-> width]
Break(spaces, offset)      == [mark |-> "Break", spaces |-> spaces, offset |-> offset]
HardNL                     == [mark |-> "HardNL"]
Block(type, level, blocks) == [mark |-> "Block", type |-> type, level |-> level, blocks |-> blocks]
Anno(sub, anchors)         == [mark |-> "Anno", sub |-> sub, anchors |-> anchors]
Label(anchor, sub)         == [mark |-> "Label", anchor |-> anchor, sub |-> sub]

(* The grammar sees a separator wherever a break is exported; an           *)
(* annotation without anchors exports its subtree alone.                   *)
RECURSIVE Bare(_)
Bare(o) == IF o.mark = "Anno" /\ o.anchors = <<>> THEN Bare(o.sub) ELSE o

IsSeparator(o) == Bare(o).mark \in {"Break", "HardNL"}

----------------------------------------------------------------------------
(* The trees of the viewer.  w is NativeWidth once it is known.            *)

String(name, width) == [tag |-> "STRING", text |-> name, w |-> width]
EmptyString         == String("", 0)
Element(contents, separator) ==
    CASE separator.mark = "Break"  -> [contents |-> contents, sep |-> "BREAK",
                                       spaces |-> separator.spaces, offset |-> separator.offset]
      [] separator.mark = "HardNL" -> [contents |-> contents, sep |-> "NEWLINE", spaces |-> 1, offset |-> 0]
      [] separator.mark = "none"   -> [contents |-> contents, sep |-> "NEVER", spaces |-> 0, offset |-> 0]

NativeWidth(elements) ==
    FoldLeft(LAMBDA width, e : CASE e.sep = "NEWLINE" -> LineWidth + 1
                                 [] e.sep = "BREAK"   -> width + e.contents.w + e.spaces
                                 [] e.sep = "NEVER"   -> width + e.contents.w,
             0, elements)

Concat(t1, t2) == [tag |-> "CONCAT", c1 |-> t1, c2 |-> t2, consistent |-> FALSE, w |-> t1.w + t2.w]
List(type, level, elements) ==
    [tag |-> "LIST", consistent |-> type = "C", indent |-> level, elements |-> elements,
     w |-> NativeWidth(elements)]
Link(anchor, t) == [tag |-> "LINK", label |-> anchor[1], type |-> anchor[2], sub |-> t, w |-> t.w]

RECURSIVE Tree(_), Parsed(_, _, _, _)

Contents(o) == IF IsSeparator(o) THEN EmptyString ELSE Tree(o)

(* A group of trees between two separators.                                *)
Group(trees) ==
    IF trees = <<>> THEN EmptyString
    ELSE FoldRight(LAMBDA t, rest : Concat(t, rest), Front(trees), Last(trees))

(* The elements of a block from the i-th on, `trees' being the group       *)
(* collected so far: a blocklist of the grammar.                           *)
Parsed(blocks, i, trees, elements) ==
    IF i > Len(blocks) THEN Append(elements, Element(Group(trees), [mark |-> "none"]))
    ELSE IF IsSeparator(blocks[i])
         THEN Parsed(blocks, i + 1, <<>>, Append(elements, Element(Group(trees), Bare(blocks[i]))))
         ELSE Parsed(blocks, i + 1, Append(trees, Tree(blocks[i])), elements)

Tree(o) ==
    CASE o.mark = "Text"  -> String(o.text, o.width)
      [] o.mark = "Label" -> LET t == Contents(o.sub)
                             IN  [tag |-> "LABEL", label |-> o.anchor, sub |-> t, w |-> t.w]
      [] o.mark = "Anno"  -> FoldRight(LAMBDA a, t : Link(a, t), o.anchors, Contents(o.sub))
      [] o.mark = "Block" -> LET elements == Parsed(o.blocks, 1, <<>>, <<>>)
                             IN  IF Len(elements) = 1 THEN elements[1].contents
                                 ELSE List(o.type, o.level, elements)

----------------------------------------------------------------------------
(* MakeLineBreaks: the tree with its breaks made, the room left on the     *)
(* last line, and the number of line breaks counted.                       *)

Unindent(t) == [tag |-> "UNINDENT", sub |-> t, w |-> t.w]

Laid(tree, room, breaks) == [tree |-> tree, room |-> room, breaks |-> breaks]

(* A list with the elements so far and one more, laid out as r.            *)
WithElement(list, e, r, sep, room, broken) ==
    [elements |-> Append(list.elements, [e EXCEPT !.contents = r.tree, !.sep = sep]),
     room |-> room, breaks |-> list.breaks + r.breaks + broken]

(* The break after the i-th element of t stays a space if the line has     *)
(* room for the element and the next one.                                  *)
AddElement(list, t, i, e, r, room) ==
    CASE e.sep = "NEVER" -> WithElement(list, e, r, "NEVER", r.room, 0)
      [] /\ e.sep = "BREAK" /\ e.contents.w <= list.room /\ ~t.consistent
         /\ i < Len(t.elements) => t.elements[i + 1].contents.w <= r.room - e.spaces ->
                WithElement(list, e, r, "BREAK", r.room - e.spaces, 0)
      [] OTHER -> WithElement(list, e, r, "NEWLINE", room - t.indent - e.offset, 1)

Listed(t, list) == Laid([t EXCEPT !.elements = list.elements], list.room, list.breaks)
Joined(t, first, second, own, below) ==
    Laid([t EXCEPT !.c1 = first.tree, !.c2 = second.tree, !.consistent = below], second.room,
         first.breaks + second.breaks + (IF own THEN 1 ELSE 0) + (IF below THEN 1 ELSE 0))
Moved(r, room) == Laid(Unindent(r.tree), room, 5 + r.breaks)
Under(t, r)    == Laid([t EXCEPT !.sub = r.tree], r.room, r.breaks)

RECURSIVE MakeLineBreaks(_, _)

(* The second part goes below a first one that is long, if need be.        *)
JoinSecond(t, room, first, own, below) ==
    Joined(t, first, MakeLineBreaks(t.c2, IF below THEN room ELSE first.room), own, below)
JoinFirst(t, room, first, own) == JoinSecond(t, room, first, own, own /\ first.room < t.c2.w)

MakeLineBreaks(t, room) ==
    IF t.w <= room \/ t.tag = "STRING" THEN Laid(t, room - t.w, 0)
    ELSE CASE t.tag = "LIST" /\ room < LineWidth \div 5 -> Moved(MakeLineBreaks(t, LineWidth - 8), room)
           [] t.tag = "LIST" ->
                Listed(t, FoldLeft(LAMBDA list, i : AddElement(list, t, i, t.elements[i],
                                                        MakeLineBreaks(t.elements[i].contents, list.room), room),
                                   [elements |-> <<>>, room |-> room, breaks |-> 0],
                                   [i \in 1..Len(t.elements) |-> i]))
           [] t.tag = "CONCAT" -> JoinFirst(t, room, MakeLineBreaks(t.c1, room), t.c1.w * 5 >= room)
           [] t.tag \in {"LABEL", "LINK"} -> Under(t, MakeLineBreaks(t.sub, room))

(* GetPrettyHeight lays a tree out when it is first asked for.             *)
Layout(t) == MakeLineBreaks(t, LineWidth)

----------------------------------------------------------------------------
(* FindTarget: whether the target is met, the line breaks before it that   *)
(* end a line with something on it, and whether the line begun has.        *)

(* Variant with a defect: line breaks after an empty line count as well.   *)
FinderNewline_all(f) == [f EXCEPT !.lines = @ + 1, !.real = 0]

FinderNewline(f) == [f EXCEPT !.lines = @ + f.real, !.real = 0]

FindNewline(f, broken) == IF broken /\ ~f.found THEN FinderNewline(f) ELSE f
FindSeparator(f, e)    == IF e.sep = "BREAK" /\ ~f.found THEN [f EXCEPT !.real = 1]
                          ELSE FindNewline(f, e.sep = "NEWLINE")

RECURSIVE FindTarget(_, _, _)
FindTarget(t, target, f) ==
    IF f.found THEN f
    ELSE CASE t.tag = "STRING"   -> [f EXCEPT !.real = IF t.text # "" THEN 1 ELSE @]
           [] t.tag = "UNINDENT" -> FindNewline(FindTarget(t.sub, target, FinderNewline(f)), TRUE)
           [] t.tag = "CONCAT"   -> FindTarget(t.c2, target, FindNewline(FindTarget(t.c1, target, f), t.consistent))
           [] t.tag = "LABEL" /\ t.label = target -> [f EXCEPT !.found = TRUE]
           [] t.tag \in {"LABEL", "LINK"} -> FindTarget(t.sub, target, f)
           [] t.tag = "LIST"     -> FoldLeft(LAMBDA g, e : FindSeparator(FindTarget(e.contents, target, g), e),
                                             f, t.elements)

(* What IndexLabels finds in a tree, in its order; it knows no tree that   *)
(* has been unindented.                                                    *)
RECURSIVE LabelsIn(_), Unindented(_)
LabelsIn(t) ==
    CASE t.tag = "STRING"   -> <<>>
      [] t.tag = "LABEL"    -> <<t.label>> \o LabelsIn(t.sub)
      [] t.tag = "LINK"     -> LabelsIn(t.sub)
      [] t.tag = "CONCAT"   -> LabelsIn(t.c1) \o LabelsIn(t.c2)
      [] t.tag = "LIST"     -> FoldLeft(LAMBDA s, e : s \o LabelsIn(e.contents), <<>>, t.elements)
      [] t.tag = "UNINDENT" -> <<>>

Unindented(t) ==
    CASE t.tag = "STRING"            -> FALSE
      [] t.tag \in {"LABEL", "LINK"} -> Unindented(t.sub)
      [] t.tag = "CONCAT"            -> Unindented(t.c1) \/ Unindented(t.c2)
      [] t.tag = "LIST"              -> \E i \in 1..Len(t.elements) : Unindented(t.elements[i].contents)
      [] t.tag = "UNINDENT"          -> TRUE
=============================================================================
