------------------------------ MODULE FocusTree ------------------------------
(***************************************************************************)
(* The regions a draw registers and the geometry the arrow keys follow.    *)
(* A region is a rectangle of the screen, the region it lies in (0: none,  *)
(* it is a panel), whether its content is a list that scrolls, the place   *)
(* of a list's row in the whole list, the administrator tab it stands for  *)
(* (0: none), and what is explained when it is framed. Regions are         *)
(* numbered from 1 in the order of drawing.                                *)
(***************************************************************************)
EXTENDS Integers, Sequences, SequencesExt, FiniteSetsExt

Smaller(a, b) == IF a < b THEN a ELSE b
Larger(a, b) == IF a > b THEN a ELSE b
Minus(a, b) == Larger(a - b, 0)
Clamp(v, lo, hi) == Smaller(Larger(v, lo), hi)

-----------------------------------------------------------------------------
(* Rectangles and layout *)

Rect(x, y, w, h) == [x |-> x, y |-> y, w |-> w, h |-> h]
Empty(r) == r.w = 0 \/ r.h = 0

\* split_top
Top(r, h) == [r EXCEPT !.h = Smaller(h, @)]
Below(r, h) ==
    [r EXCEPT !.y = @ + Smaller(h, r.h), !.h = @ - Smaller(h, r.h)]

\* inset; Panel::render's content area; the usual content of a panel.
Inset(r, h, v) == Rect(r.x + h, r.y + v, Minus(r.w, 2 * h), Minus(r.h, 2 * v))
Framed(r) ==
    IF r.w < 2 \/ r.h < 2 THEN Rect(r.x, r.y, 0, 0) ELSE Inset(r, 1, 1)
Content(r) == Inset(Framed(r), 1, 0)

\* The line i (from 0) of a rectangle.
Line(r, i) == Rect(r.x, r.y + i, r.w, 1)

\* What the layout library makes of weights alone: the k-th border of a length,
\* at the share of the first k weights, rounded.
Border(length, weights, k) ==
    LET share == FoldLeft(+, 0, SubSeq(weights, 1, k))
        whole == FoldLeft(+, 0, weights)
    IN  (2 * length * share + whole) \div (2 * whole)

\* rows, cols
Rows(r, weights) ==
    [k \in DOMAIN weights |->
        LET from == Border(r.h, weights, k - 1)
        IN  Rect(r.x, r.y + from, r.w, Border(r.h, weights, k) - from)]
Cols(r, weights) ==
    [k \in DOMAIN weights |->
        LET from == Border(r.w, weights, k - 1)
        IN  Rect(r.x + from, r.y, Border(r.w, weights, k) - from, r.h)]

-----------------------------------------------------------------------------
(* Registering: FocusRegistry *)

Root == 0
NoIndex == -1
NoTab == 0

\* DescribeTarget: a metric by its id, a thing by what identifies it.
Thing(kind, name, nr) == [kind |-> kind, name |-> name, nr |-> nr]
Metric(id) == Thing("metric", id, 0)
Named(kind, name) == Thing(kind, name, 0)
NoTarget == Thing("none", "", 0)

Region(rect, parent, list, index, tab, tells) ==
    [rect |-> rect, parent |-> parent, list |-> list, index |-> index, tab |-> tab,
     tells |-> tells]

\* What a page draws: a panel with its lines, each of them a cell.
Cell(rect, tells) == [rect |-> rect, tells |-> tells]
Panel(rect, list, tells, lines) == [rect |-> rect, list |-> list, tells |-> tells, lines |-> lines]

\* What has no room has no area.
Where(fits, rect) == IF fits THEN rect ELSE [rect EXCEPT !.h = 0]

\* The members of a sequence at the places P, in their order.
Picked(s, P) ==
    LET rank(j) == Cardinality({i \in P : i < j}) + 1
    IN  [k \in 1..Cardinality(P) |-> s[CHOOSE j \in P : rank(j) = k]]

\* push, which keeps nothing without area, by add_panel, add_entity_panel or
\* add_list_panel and then by the add_item or add_entity_item of each line of
\* the panel that tells of something. A panel without area has no lines.
AddPanel(regs, panel) ==
    LET parent == Len(regs) + 1
        shown == Picked(panel.lines, {i \in DOMAIN panel.lines :
                    ~Empty(panel.lines[i].rect) /\ panel.lines[i].tells # NoTarget})
    IN  IF Empty(panel.rect) THEN regs
        ELSE Append(regs, Region(panel.rect, Root, panel.list, NoIndex, NoTab, panel.tells))
               \o [i \in DOMAIN shown |->
                      Region(shown[i].rect, parent, FALSE, NoIndex, NoTab, shown[i].tells)]

\* The panels of a page, one after the other.
Register(panels) ==
    LET first[n \in 0..Len(panels)] ==
            IF n = 0 THEN <<>> ELSE AddPanel(first[n - 1], panels[n])
    IN  first[Len(panels)]

\* KeyValues::render: a line for each key while there is room; those that have
\* a name and a metric can be selected.
KeyLines(r, keys) ==
    [i \in DOMAIN keys |-> Cell(Where(i <= r.h, Line(r, i - 1)), keys[i])]

-----------------------------------------------------------------------------
(* The tree *)

Exists(regs, i) == i \in DOMAIN regs
Roots(regs) == {i \in DOMAIN regs : regs[i].parent = Root}
ChildrenOf(regs, i) == {k \in DOMAIN regs : regs[k].parent = i}
ParentOf(regs, i) == IF Exists(regs, i) THEN regs[i].parent ELSE Root

\* siblings_of: a region that is gone counts as a root.
SiblingsOf(regs, i) ==
    IF ParentOf(regs, i) = Root THEN Roots(regs) ELSE ChildrenOf(regs, ParentOf(regs, i))

\* row_with_index; Root when there is none.
RowWithIndex(regs, parent, index) ==
    LET rows == {i \in ChildrenOf(regs, parent) : regs[i].index = index}
    IN  IF rows = {} THEN Root ELSE Min(rows)

-----------------------------------------------------------------------------
(* Moving: nearest, wrap_within *)

Dirs == {"up", "down", "left", "right"}
Vertical(dir) == dir \in {"up", "down"}

\* A rectangle along a direction and across it.
Along(r, dir) ==
    IF Vertical(dir) THEN [start |-> r.y, end |-> r.y + r.h] ELSE [start |-> r.x, end |-> r.x + r.w]
Across(r, dir) ==
    IF Vertical(dir) THEN [lo |-> r.x, hi |-> r.x + r.w] ELSE [lo |-> r.y, hi |-> r.y + r.h]

\* The start of t lies beyond the start of c.
Ahead(c, t, dir) ==
    IF dir \in {"down", "right"} THEN Along(t, dir).start > Along(c, dir).start
    ELSE Along(t, dir).start < Along(c, dir).start

Gap(c, t, dir) ==
    IF dir \in {"down", "right"} THEN Minus(Along(t, dir).start, Along(c, dir).end)
    ELSE Minus(Along(c, dir).start, Along(t, dir).end)

Overlap(c, t, dir) ==
    Minus(Smaller(Across(c, dir).hi, Across(t, dir).hi),
          Larger(Across(c, dir).lo, Across(t, dir).lo))

\* Among those that overlap the nearest, then the one that overlaps most; among
\* the others the nearest, then the one least to the side.
Score(c, t, dir) ==
    Gap(c, t, dir) * 10000
      + (IF Overlap(c, t, dir) > 0 THEN -Overlap(c, t, dir)
         ELSE Larger(Across(c, dir).lo - Across(t, dir).lo,
                     Across(t, dir).lo - Across(c, dir).lo))

\* The region of S with the least score, the first of several.
Best(regs, S, c, dir) ==
    LET least == Min({Score(c, regs[i].rect, dir) : i \in S})
    IN  Min({i \in S : Score(c, regs[i].rect, dir) = least})

\* Slip: as near as possible, beside it or in line with it.
NearestOfAll(regs, candidates, from, dir) ==
    LET c == regs[from].rect
        ahead == {i \in candidates \ {from} : Ahead(c, regs[i].rect, dir)}
    IN  IF ~Exists(regs, from) \/ ahead = {} THEN Root
        ELSE Min({i \in ahead : \A j \in ahead :
                     Gap(c, regs[i].rect, dir) <= Gap(c, regs[j].rect, dir)})

\* nearest; Root when there is none.
Nearest(regs, candidates, from, dir) ==
    LET c == regs[from].rect
        ahead == {i \in candidates \ {from} : Ahead(c, regs[i].rect, dir)}
        inLine == {i \in ahead : Overlap(c, regs[i].rect, dir) > 0}
    IN  IF ~Exists(regs, from) \/ ahead = {} THEN Root
        ELSE Best(regs, IF inLine # {} THEN inLine ELSE ahead, c, dir)

\* Slip: at an end the frame stays.
WrapStops(candidates, from, forward) ==
    LET beyond == {i \in candidates : IF forward THEN i > from ELSE i < from}
    IN  IF beyond = {} THEN from ELSE IF forward THEN Min(beyond) ELSE Max(beyond)

\* wrap_within: the candidate after or before `from', around the ends.
WrapWithin(candidates, from, forward) ==
    LET after == {i \in candidates : i > from}
        before == {i \in candidates : i < from}
    IN  IF forward THEN Min(IF after # {} THEN after ELSE candidates)
        ELSE Max(IF before # {} THEN before ELSE candidates)

\* The siblings of `from' do not all stand in one row with it.
Stacked(regs, from) ==
    /\ Exists(regs, from)
    /\ \E i \in SiblingsOf(regs, from) : regs[i].rect.y # regs[from].rect.y
=============================================================================
