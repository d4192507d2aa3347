------------------------------- MODULE Panels -------------------------------
(***************************************************************************)
(* The frame that the keys move over the pages: navigate, descend, ascend, *)
(* the keys that change the page, and draw, which registers the regions of *)
(* the page anew. A key is judged by the regions of the LAST draw; between *)
(* a key and the next draw more keys may come. The terminal's size and the *)
(* machine's make are those a draw finds; that a list arrives between two  *)
(* draws is the subject of AdminSelection.                                 *)
(***************************************************************************)
EXTENDS Pages

CONSTANTS
    Sizes,      \* terminal sizes, records of w and h
    Machines,   \* what a draw may find, see Pages: a set of names ...
    Make,       \* ... and the record of each
    TypeAhead,  \* bound on the keys between two draws
    Far         \* where End scrolls to: past every list

ASSUME FarAssumption ==
    /\ TypeAhead \in Nat /\ Far \in Nat
    /\ \A m \in Machines : Far > Len(Make[m].procs)

\* The terminal's size is in cells, and a machine is one that Pages can show.
ASSUME MachinesAssumption ==
    /\ \A s \in Sizes : s.w \in Nat /\ s.h \in Nat
    /\ \A m \in Machines : IsMachine(Make[m])

VARIABLES
    view,       \* the page
    focus,      \* the region framed, Root at the level of the pages
    scroll,     \* how far the page's list is scrolled
    tab,        \* the administrator tab ...
    selected,   \* ... and the row of its list that is selected
    drawn,      \* the last draw: page, size, machine, tab and row ...
    regs,       \* ... and the regions it registered
    typed       \* the keys since

vars == <<view, focus, scroll, tab, selected, drawn, regs, typed>>

ViewNames == {Views[i] : i \in DOMAIN Views}
ViewIndex == CHOOSE i \in DOMAIN Views : Views[i] = view

\* Every draw there can be; only the administrator page depends on the list.
\* What the lines of a scrolled list tell of is the subject of Explain.
Longest == Max(UNION {{Make[m].users[t] : t \in AllTabs} : m \in Machines})
Draws ==
    ((ViewNames \ {"admin"}) \X Sizes \X Machines \X {1} \X {0})
        \cup ({"admin"} \X Sizes \X Machines \X AllTabs \X (0..Longest))
Shown == [d \in Draws |-> Page(d[1], d[2], Make[d[3]], 0, d[4], d[5])]

\* How far the list of the last draw can be scrolled.
bound == ScrollBound(drawn[1], Drawable(drawn[2]), Make[drawn[3]])
users == Make[drawn[3]].users

Init ==
    /\ view = "overview"
    /\ focus = Root
    /\ scroll = 0
    /\ tab = 1
    /\ selected = 0
    /\ drawn \in {d \in Draws : d[1] = "overview"}
    /\ regs = Shown[drawn]
    /\ typed = 0

-----------------------------------------------------------------------------
(* Parts of the handlers *)

\* reset_page_state
GoTo(v) == view' = v /\ scroll' = 0 /\ focus' = Root

\* sync_admin_focus, after the frame has come to region f: on a tab it opens the
\* tab, on a row it selects the row.
Sync(f) ==
    LET opened == IF view = "admin" /\ Exists(regs, f) THEN regs[f].tab ELSE NoTab
        index == IF view = "admin" /\ Exists(regs, f) THEN regs[f].index ELSE NoIndex
    IN  /\ tab' = IF opened # NoTab THEN opened ELSE tab
        /\ selected' = IF opened \notin {NoTab, tab} THEN 0
                       ELSE IF index # NoIndex THEN index ELSE selected

FrameAndSync(f) == focus' = f /\ Sync(f)

\* descend: the first root or the first child; the frame stays if there is none.
Inside(f) == IF f = Root THEN Roots(regs) ELSE ChildrenOf(regs, f)
Descend == FrameAndSync(IF Inside(focus) = {} THEN focus ELSE Min(Inside(focus)))

\* scroll_focused: the list's place and its last one. At an end it goes round.
ListPlace ==
    IF view = "admin" THEN [at |-> selected, last |-> Minus(users[tab], 1)]
    ELSE [at |-> scroll, last |-> bound]
CanScroll == ListPlace.last > 0
Scrolled(delta) ==
    LET last == ListPlace.last
        at == Smaller(ListPlace.at, last)
        wraps == IF delta > 0 THEN at = last ELSE at = 0
    IN  [wrapped |-> wraps,
         at |-> IF wraps THEN last - at ELSE Clamp(at + delta, 0, last)]

\* Slip: the list goes round and the frame stays.
ScrollListOnly(delta) ==
    /\ IF view = "admin" THEN selected' = Scrolled(delta).at /\ scroll' = scroll
                         ELSE scroll' = Scrolled(delta).at /\ selected' = selected
    /\ focus' = focus

\* The list moves; focus_list_end takes the frame to the first or the last of
\* its siblings when it has gone round.
ScrollList(delta) ==
    LET siblings == SiblingsOf(regs, focus)
    IN  /\ IF view = "admin" THEN selected' = Scrolled(delta).at /\ scroll' = scroll
                             ELSE scroll' = Scrolled(delta).at /\ selected' = selected
        /\ focus' = IF focus = Root \/ ~Scrolled(delta).wrapped \/ siblings = {} THEN focus
                    ELSE IF delta > 0 THEN Min(siblings) ELSE Max(siblings)

InList == Exists(regs, ParentOf(regs, focus)) /\ regs[ParentOf(regs, focus)].list

-----------------------------------------------------------------------------
(* Keys *)

\* Without a window and outside the filter line. The regions stay.
Key == typed < TypeAhead /\ typed' = typed + 1 /\ UNCHANGED <<drawn, regs>>

SwitchPage(step) ==
    /\ GoTo(Views[((ViewIndex - 1 + step) % Len(Views)) + 1])
    /\ UNCHANGED <<tab, selected>>

\* navigate at the level of the pages.
ArrowOnPages(dir) ==
    /\ focus = Root
    /\ \/ dir = "left" /\ SwitchPage(-1)
       \/ dir = "right" /\ SwitchPage(1)
       \/ dir = "down" /\ Descend /\ UNCHANGED <<view, scroll>>
       \/ dir = "up" /\ UNCHANGED <<view, scroll, focus, tab, selected>>

\* navigate to a neighbour.
Neighbour(dir) == Nearest(regs, SiblingsOf(regs, focus), focus, dir)
ArrowToNeighbour(dir) ==
    /\ focus # Root /\ Neighbour(dir) # Root
    /\ FrameAndSync(Neighbour(dir))
    /\ UNCHANGED <<view, scroll>>

\* navigate at the end of a list.
AtListEnd(dir) ==
    focus # Root /\ Neighbour(dir) = Root /\ Vertical(dir) /\ InList /\ CanScroll
ArrowAtListEnd(dir) ==
    /\ AtListEnd(dir)
    /\ ScrollList(IF dir = "down" THEN 1 ELSE -1)
    /\ UNCHANGED <<view, tab>>

\* navigate at the edge: round, inside, or nowhere.
ArrowAtEdge(dir) ==
    /\ focus # Root /\ Neighbour(dir) = Root /\ ~AtListEnd(dir)
    /\ \/ /\ Vertical(dir) /\ Stacked(regs, focus)
          /\ focus' = WrapWithin(SiblingsOf(regs, focus), focus, dir = "down")
          /\ UNCHANGED <<tab, selected>>
       \/ /\ dir = "down" /\ ~Stacked(regs, focus)
          /\ SiblingsOf(regs, focus) # {}
          /\ Descend
       \/ /\ \/ ~Vertical(dir)
             \/ ~Stacked(regs, focus) /\ (dir = "up" \/ SiblingsOf(regs, focus) = {})
          /\ UNCHANGED <<focus, tab, selected>>
    /\ UNCHANGED <<view, scroll>>

Arrow(dir) ==
    /\ Key
    /\ \/ ArrowOnPages(dir)
       \/ ArrowToNeighbour(dir)
       \/ ArrowAtListEnd(dir)
       \/ ArrowAtEdge(dir)

\* Enter; on a row of the storage tab it asks for the user's detail instead.
OnUserRow ==
    view = "admin" /\ tab = 1 /\ Exists(regs, focus) /\ regs[focus].index # NoIndex
Enter ==
    /\ Key
    /\ IF OnUserRow THEN UNCHANGED <<focus, tab, selected>> ELSE Descend
    /\ UNCHANGED <<view, scroll>>

\* Esc and Backspace: ascend, or the overview.
Esc ==
    /\ Key
    /\ IF focus = Root THEN GoTo("overview")
       ELSE focus' = ParentOf(regs, focus) /\ UNCHANGED <<view, scroll>>
    /\ UNCHANGED <<tab, selected>>

\* 0 to 6, a and u; Tab and BackTab.
PageKey ==
    /\ Key
    /\ \/ \E v \in ViewNames : GoTo(v) /\ UNCHANGED <<tab, selected>>
       \/ SwitchPage(1)
       \/ SwitchPage(-1)

Home ==
    /\ Key
    /\ scroll' = 0 /\ focus' = Root
    /\ UNCHANGED <<view, tab, selected>>

End ==
    /\ Key
    /\ scroll' = Far
    /\ UNCHANGED <<view, focus, tab, selected>>

\* page_scroll
PageScroll(delta) ==
    /\ Key
    /\ IF CanScroll THEN ScrollList(delta) ELSE UNCHANGED <<scroll, selected, focus>>
    /\ UNCHANGED <<view, tab>>

\* [ and ]
Bracket(step) ==
    /\ Key
    /\ view = "admin"
    /\ tab' = ((tab - 1 + step) % Len(TabWidths)) + 1
    /\ selected' = 0
    /\ UNCHANGED <<view, scroll, focus>>

-----------------------------------------------------------------------------
(* Drawing *)

\* realign_focus, with the regions just registered.
Realigned(shown) ==
    LET row == RowWithIndex(shown, ParentOf(shown, focus), selected)
    IN  IF view = "admin" /\ ParentOf(shown, focus) # Root /\ row # Root THEN row ELSE focus

Draw ==
    \E d \in Draws :
        /\ d[1] = view
        /\ view = "admin" => d[4] = tab /\ d[5] = selected
        /\ drawn' = d
        /\ regs' = Shown[d]
        /\ focus' = Realigned(regs')
        /\ typed' = 0
        /\ UNCHANGED <<view, scroll, tab, selected>>

Next ==
    \/ \E dir \in Dirs : Arrow(dir)
    \/ Enter \/ Esc \/ PageKey \/ Home \/ End
    \/ \E delta \in {-10, 10} : PageScroll(delta)
    \/ \E step \in {-1, 1} : Bracket(step)
    \/ Draw

Spec == Init /\ [][Next]_vars

-----------------------------------------------------------------------------
(* Properties *)

\* A layer: the panels, or the lines of one panel.
Layers == ({Roots(regs)} \cup {ChildrenOf(regs, i) : i \in Roots(regs)}) \ {{}}

\* Where an arrow takes the frame while no list moves.
Stepped(i, dir) ==
    LET next == Nearest(regs, SiblingsOf(regs, i), i, dir)
    IN  IF next # Root THEN next
        ELSE IF Vertical(dir) /\ Stacked(regs, i)
        THEN WrapWithin(SiblingsOf(regs, i), i, dir = "down") ELSE i

\* Where any number of presses of the arrows dirs may take the frame from i.
Reached(i, dirs) ==
    LET grown[n \in Nat] ==
            IF n = 0 THEN [seen |-> {i}, new |-> {i}]
            ELSE LET last == grown[n - 1]
                     new == {Stepped(j, dir) : j \in last.new, dir \in dirs} \ last.seen
                 IN  [seen |-> last.seen \cup new, new |-> new]
    IN  grown[Cardinality(SiblingsOf(regs, i))].seen

\* A page as it is when it has just been opened and drawn.
Opened ==
    /\ typed = 0 /\ focus = Root /\ scroll = 0
    /\ view # "admin" => tab = 1 /\ selected = 0

\* Whatever the size of the terminal and the make of the machine, the arrows
\* take the frame from the first panel to every panel, and from the first line
\* of a panel to every line: nothing that can be framed is out of reach of
\* navigate (nearest and wrap_within).
AllInReach ==
    Opened => \A layer \in Layers : Reached(Min(layer), Dirs) = layer

\* The wide overview of a machine with nothing to highlight: its two columns
\* end in panels that begin on different lines.
TwoBottoms ==
    view = "overview" /\ Density(Drawable(drawn[2])) = "wide" /\ Make[drawn[3]].highlights = <<>>

\* Holding Down or Up goes round: among panels that stand on several lines,
\* Down comes to the first of them and Up to the last, so the frame is never
\* caught between a few of them (navigate's rule for `stacked'). Left out are
\* TwoBottoms, where Down goes to and fro between the last two, and the lines of
\* a panel in two columns, where Down does not come back to the first line.
GoesRound ==
    Opened /\ ~TwoBottoms =>
        \A i \in Roots(regs) : Stacked(regs, i) =>
            /\ Min(Roots(regs)) \in Reached(i, {"down"})
            /\ Max(Roots(regs)) \in Reached(i, {"up"})

Within(a, b) ==
    /\ b.x <= a.x /\ a.x + a.w <= b.x + b.w
    /\ b.y <= a.y /\ a.y + a.h <= b.y + b.h
Disjoint(a, b) ==
    \/ a.x + a.w <= b.x \/ b.x + b.w <= a.x
    \/ a.y + a.h <= b.y \/ b.y + b.h <= a.y

\* What the pages register is a tree of rectangles: all of it is on the body of
\* the screen, a line lies in its panel (the rows of an administrator tab lie
\* below it), and no two of a layer share a cell, so the frame drawn around one
\* never crosses another. The widths and heights come from the pages' own sums.
RegionsNest ==
    Opened =>
        /\ \A i \in DOMAIN regs :
            /\ Within(regs[i].rect, Drawable(drawn[2]))
            /\ regs[i].parent # Root /\ regs[regs[i].parent].rect.h > 1 =>
                Within(regs[i].rect, regs[regs[i].parent].rect)
        /\ \A layer \in Layers : \A i, j \in layer :
            i # j => Disjoint(regs[i].rect, regs[j].rect)

\* The process in the frame: what the page shows in that line, from 0.
FramedProcess == Smaller(scroll, bound) + focus - 2
Processes == Len(Make[drawn[3]].procs)
OnProcess == typed = 0 /\ view = "process" /\ focus > 1 /\ Exists(regs, focus)

\* On the process page, as drawn, Down and Up frame the next and the previous
\* process of the whole list, through its ends: frame and scrolled list never
\* move both, nor neither, also when End or a longer list has left the list
\* scrolled past its end (navigate, scroll_focused, focus_list_end).
OneProcessOn ==
    [][OnProcess =>
         /\ Arrow("down") => FramedProcess' = (FramedProcess + 1) % Processes
         /\ Arrow("up") => FramedProcess' = (FramedProcess - 1) % Processes]_vars
=============================================================================
