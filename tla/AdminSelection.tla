--------------------------- MODULE AdminSelection ---------------------------
(***************************************************************************)
(* The administrator page as a user moves through it: the open tab, the    *)
(* selected user, and the frame around what the keys act on. The frame is  *)
(* an index into the regions of the page, which are registered anew by     *)
(* every draw; keys, the answers of queries and the state of the privilege *)
(* come in between.                                                        *)
(*                                                                         *)
(* Regions are numbered from 1: the tabs, then the visible rows of the tab *)
(* that was open. A page other than the unlocked administrator page counts *)
(* as one panel; its own scrolling is not modelled.                        *)
(***************************************************************************)
EXTENDS Integers

CONSTANTS
    NTabs,      \* tabs of the page, all of which fit the terminal
    MaxUsers,   \* bound: users in a list
    MaxHeight,  \* bound: rows a draw has room for
    PageSteps   \* users that PageUp and PageDown go over; {}: keys not pressed

ASSUME SizesAssumption ==
    /\ NTabs \in Nat \ {0}
    /\ MaxUsers \in Nat
    /\ MaxHeight \in Nat
    /\ PageSteps \subseteq Nat \ {0}

VARIABLES
    admin,      \* the view is the administrator page
    unlocked,   \* privilege state is Available
    users,      \* by tab: the length of its list, 0 when none is ready
    tab, selected,
    focus,      \* the framed region, 0 when there is none
    drawn,      \* what the last draw registered
    dirty       \* something has happened since

pageVars == <<admin, unlocked, users>>
vars == <<pageVars, tab, selected, focus, drawn, dirty>>

AllTabs == 1..NTabs

\* A page of one panel has tab 0. `start' is the user in the first visible row.
Frames == [tab : 0..NTabs, start : 0..MaxUsers, rows : 0..MaxHeight]
OnePanel == [tab |-> 0, start |-> 0, rows |-> 0]

TypeOK ==
    /\ admin \in BOOLEAN
    /\ unlocked \in BOOLEAN
    /\ users \in [AllTabs -> 0..MaxUsers]
    /\ tab \in AllTabs
    /\ selected \in 0..MaxUsers
    /\ selected # 0 => selected < MaxUsers
    /\ focus \in 0..(NTabs + MaxHeight)
    /\ drawn \in Frames
    /\ drawn.start + drawn.rows <= MaxUsers
    /\ dirty \in BOOLEAN

\* The first draw is behind us; the program starts on the overview.
Init ==
    /\ admin = FALSE
    /\ unlocked \in BOOLEAN
    /\ users = [t \in AllTabs |-> 0]
    /\ tab = 1
    /\ selected = 0
    /\ focus = 0
    /\ drawn = OnePanel
    /\ dirty = FALSE

-----------------------------------------------------------------------------
(* The regions of the last draw *)

TabsDrawn == drawn.tab # 0
IsTab(f) == TabsDrawn /\ f \in AllTabs
IsRow(f) == f \in (NTabs + 1)..(NTabs + drawn.rows)
FirstRow == NTabs + 1
LastRow == NTabs + drawn.rows

\* Slip: the position among the rows that are visible.
IndexAmongSiblings(f) == f - FirstRow

\* FocusRegion::list_index of a row: its user in the whole list.
IndexOf(f) == drawn.start + f - FirstRow

\* FocusRegistry::row_with_index, in the regions of the frame d.
RowWithIndex(d, i) ==
    IF i \in d.start..(d.start + d.rows - 1) THEN FirstRow + i - d.start ELSE 0

\* siblings_of, its ends: a region that is gone counts as a root.
FirstSibling(f) == IF IsRow(f) THEN FirstRow ELSE 1
LastSibling(f) ==
    IF IsRow(f) THEN LastRow ELSE IF TabsDrawn THEN NTabs ELSE 1

-----------------------------------------------------------------------------
(* Moving the frame *)

\* sync_admin_focus after the frame has moved to f: on a tab, open that tab;
\* on a row, select its user.
SyncedTab(f) == IF admin /\ IsTab(f) THEN f ELSE tab
SyncedSelected(f) ==
    IF admin /\ IsTab(f) /\ f # tab THEN 0
    ELSE IF admin /\ IsRow(f) THEN IndexOf(f)
    ELSE selected

MoveTo(f) ==
    /\ focus' = f
    /\ tab' = SyncedTab(f)
    /\ selected' = SyncedSelected(f)
    /\ UNCHANGED pageVars

\* The key does nothing here.
Ignored == UNCHANGED <<pageVars, tab, selected, focus>>

Descend ==
    MoveTo(IF focus = 0 THEN 1
           ELSE IF IsTab(focus) /\ focus = drawn.tab /\ drawn.rows > 0 THEN FirstRow
           ELSE focus)

\* scroll_focused(delta) on this page: nothing to scroll in a list of one.
Scrolls == admin /\ users[tab] > 1
Last == users[tab] - 1
Clamped == IF selected > Last THEN Last ELSE selected
Wraps(delta) == IF delta > 0 THEN Clamped = Last ELSE Clamped = 0

ScrolledTo(delta) ==
    CASE Clamped + delta > Last -> IF Wraps(delta) THEN 0 ELSE Last
      [] Clamped + delta < 0 -> IF Wraps(delta) THEN Last ELSE 0
      [] OTHER -> Clamped + delta

\* After wrapping, focus_list_end puts the frame at the other end of the rows.
Scroll(delta) ==
    /\ selected' = ScrolledTo(delta)
    /\ focus' = IF focus = 0 \/ ~Wraps(delta) THEN focus
                ELSE IF delta > 0 THEN FirstSibling(focus) ELSE LastSibling(focus)
    /\ UNCHANGED <<pageVars, tab>>

\* nearest among the rows: the one above or below.
HasNeighbour(f, delta) == IsRow(f) /\ IsRow(f + delta)

\* wrap_within, when there is nothing to scroll: only the frame goes around.
GoAround(delta) ==
    /\ focus' = IF delta > 0 THEN FirstRow ELSE LastRow
    /\ UNCHANGED <<pageVars, tab, selected>>

Vertical(delta) ==
    IF focus = 0 THEN IF delta > 0 THEN Descend ELSE Ignored
    ELSE IF HasNeighbour(focus, delta) THEN MoveTo(focus + delta)
    ELSE IF IsRow(focus) /\ Scrolls THEN Scroll(delta)
    ELSE IF IsRow(focus) /\ drawn.rows > 1 THEN GoAround(delta)
    ELSE IF delta > 0 THEN Descend ELSE Ignored

Horizontal(delta) ==
    IF IsTab(focus) /\ IsTab(focus + delta) THEN MoveTo(focus + delta) ELSE Ignored

-----------------------------------------------------------------------------
(* Keys *)

Key == dirty' = TRUE /\ UNCHANGED drawn

Up == Key /\ Vertical(-1)
Down == Key /\ Vertical(1)

LeftRight == Key /\ focus # 0 /\ \E delta \in {-1, 1} : Horizontal(delta)

\* PageUp, PageDown. Another page may move its frame to its panel.
PageScroll ==
    /\ Key
    /\ \E delta \in PageSteps \cup {-step : step \in PageSteps} :
          IF Scrolls THEN Scroll(delta)
          ELSE /\ focus' \in {focus, IF admin \/ focus = 0 \/ TabsDrawn THEN focus ELSE 1}
               /\ UNCHANGED <<pageVars, tab, selected>>

Home ==
    /\ Key
    /\ focus' = 0
    /\ UNCHANGED <<pageVars, tab, selected>>

\* Esc: to the region around this one, then out of the regions, then to the
\* overview.
Esc ==
    /\ Key
    /\ focus' = IF IsRow(focus) THEN drawn.tab ELSE 0
    /\ admin' = (admin /\ focus # 0)
    /\ UNCHANGED <<unlocked, users, tab, selected>>

\* Enter goes down; on a user of the storage tab it opens that user's detail
\* instead, which changes nothing here but the room the list has.
Enter ==
    /\ Key
    /\ IF admin /\ tab = 1 /\ IsRow(focus) THEN Ignored ELSE Descend

\* A, Tab, BackTab, a digit, left and right without a frame, u: another page,
\* or this one again.
ChangePage ==
    /\ Key
    /\ admin' \in BOOLEAN
    /\ focus' = 0
    /\ UNCHANGED <<unlocked, users, tab, selected>>

\* [ and ].
Bracket ==
    /\ Key
    /\ admin
    /\ \E delta \in {1, NTabs - 1} : tab' = ((tab - 1 + delta) % NTabs) + 1
    /\ selected' = 0
    /\ UNCHANGED <<pageVars, focus>>

\* r: the list of the open tab is gone while the query runs.
Refresh ==
    /\ Key
    /\ admin
    /\ users' = [users EXCEPT ![tab] = 0]
    /\ UNCHANGED <<admin, unlocked, tab, selected, focus>>

Arrow == Up \/ Down

Keys ==
    \/ Arrow \/ LeftRight \/ PageScroll \/ Home \/ Esc \/ Enter
    \/ ChangePage \/ Bracket \/ Refresh

-----------------------------------------------------------------------------
(* Between the keys *)

\* The answer of the query of a tab whose list is not there. A failed query
\* leaves no list.
ListArrives ==
    /\ \E t \in AllTabs, n \in 1..MaxUsers :
          /\ users[t] = 0
          /\ users' = [users EXCEPT ![t] = n]
    /\ dirty' = TRUE
    /\ UNCHANGED <<admin, unlocked, tab, selected, focus, drawn>>

PrivilegeChanges ==
    /\ unlocked' = ~unlocked
    /\ dirty' = TRUE
    /\ UNCHANGED <<admin, users, tab, selected, focus, drawn>>

\* ui/admin.rs window(): the visible part of a list of n users, in h rows,
\* with user i as near to the middle as the ends allow.
WindowStart(i, n, h) ==
    LET centred == IF i > h \div 2 THEN i - h \div 2 ELSE 0
        furthest == IF n > h THEN n - h ELSE 0
    IN  IF centred < furthest THEN centred ELSE furthest
WindowRows(i, n, h) ==
    (IF WindowStart(i, n, h) + h < n THEN WindowStart(i, n, h) + h ELSE n)
        - WindowStart(i, n, h)

PageWith(h) ==
    IF admin /\ unlocked
    THEN [tab |-> tab,
          start |-> WindowStart(selected, users[tab], h),
          rows |-> WindowRows(selected, users[tab], h)]
    ELSE OnePanel

\* Slip: the frame keeps its number.
RealignedNever(d) == focus

\* realign_focus: a frame on a row goes to the row of the selected user.
Realigned(d) ==
    IF admin /\ focus \in FirstRow..(NTabs + d.rows) /\ RowWithIndex(d, selected) # 0
    THEN RowWithIndex(d, selected)
    ELSE focus

\* A draw has room for any number of rows: the terminal is resized, a detail
\* takes half of it.
Draw ==
    /\ \E h \in 0..MaxHeight :
          /\ drawn' = PageWith(h)
          /\ focus' = Realigned(drawn')
    /\ dirty' = FALSE
    /\ UNCHANGED <<pageVars, tab, selected>>

Next == Keys \/ ListArrives \/ PrivilegeChanges \/ Draw

Spec == Init /\ [][Next]_vars

-----------------------------------------------------------------------------
(* What must hold *)

OnUser == admin /\ IsRow(focus) /\ selected < users[tab]

\* realign_focus: the selection is the truth and the frame follows it. On a
\* screen that is up to date the framed user is the one that Enter opens.
FrameFollowsSelection ==
    ~dirty /\ OnUser => IndexOf(focus) = selected

\* The user one arrow away, around the ends of the list.
OneOn(delta) == (selected + delta) % users[tab]

\* On a screen that is up to date an arrow selects the next user, whether the
\* row is visible, has to be scrolled to, or is at the other end.
ArrowsGoOneOn ==
    [][~dirty /\ OnUser =>
          /\ Up => selected' = OneOn(-1)
          /\ Down => selected' = OneOn(1)]_vars

\* Up and down never leave a list of users for another tab, up to date or not.
RowsKeepTab == [][IsRow(focus) /\ Arrow => tab' = tab]_vars
=============================================================================
