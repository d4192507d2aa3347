------------------------ MODULE AdminSelectionProofs ------------------------
(***************************************************************************)
(* For any number of tabs, users and rows: the visible window holds the    *)
(* selected user, and on a screen that is up to date the frame is on it.   *)
(* For any table of keys and terminal: every key can be scrolled to; and   *)
(* whatever there is to explain, what is shown of it can be believed.      *)
(***************************************************************************)
EXTENDS MCSelection, SumTheorems, SequenceTheorems

USE SizesAssumption

\* The visible window lies within the list and is no higher than its room.
LEMMA WindowInList ==
    ASSUME NEW i \in Nat, NEW n \in Nat, NEW h \in Nat
    PROVE  /\ WindowStart(i, n, h) \in 0..n
           /\ WindowRows(i, n, h) \in 0..h
           /\ WindowStart(i, n, h) + WindowRows(i, n, h) <= n
<1>1. h \div 2 \in Nat /\ h \div 2 <= h
  OBVIOUS
<1>2. WindowStart(i, n, h) \in Nat /\ WindowStart(i, n, h) <= n
  BY <1>1 DEF WindowStart
<1>3. n > h => WindowStart(i, n, h) + h <= n
  BY <1>1 DEF WindowStart
<1>4. n <= h => WindowStart(i, n, h) = 0
  BY <1>1 DEF WindowStart
<1>5. QED  BY <1>2, <1>3, <1>4 DEF WindowRows

\* It holds the selected user, if there is one and there is room for a row.
LEMMA WindowShowsSelected ==
    ASSUME NEW n \in Nat, NEW i \in 0..(n - 1), NEW h \in Nat \ {0}
    PROVE  /\ WindowStart(i, n, h) <= i
           /\ i < WindowStart(i, n, h) + WindowRows(i, n, h)
<1>1. h \div 2 \in Nat /\ h \div 2 < h
  OBVIOUS
<1>2. i < WindowStart(i, n, h) + h
  BY <1>1 DEF WindowStart
<1>3. WindowStart(i, n, h) \in Nat /\ WindowStart(i, n, h) <= i
  BY <1>1 DEF WindowStart
<1>4. QED  BY <1>2, <1>3 DEF WindowRows

-----------------------------------------------------------------------------
(* Types *)

\* A tab, a selected user and a frame that TypeOK allows.
Spot(t, i, f) ==
    /\ t \in AllTabs
    /\ i \in 0..MaxUsers
    /\ i # 0 => i < MaxUsers
    /\ f \in 0..(NTabs + MaxHeight)

\* The user of a visible row is one of the list.
LEMMA IndexOfType ==
    ASSUME TypeOK, NEW f \in Int, IsRow(f)
    PROVE  IndexOf(f) \in 0..(MaxUsers - 1)
BY DEF TypeOK, IsRow, IndexOf, FirstRow, Frames

\* Moving the frame to a region, and selecting what is there, keeps the types.
LEMMA MoveToType ==
    ASSUME TypeOK, NEW f \in 0..(NTabs + MaxHeight), MoveTo(f)
    PROVE  Spot(tab', selected', focus')
<1>1. tab' \in AllTabs
  BY DEF MoveTo, SyncedTab, IsTab, TypeOK
<1>2. selected' \in 0..MaxUsers /\ (selected' # 0 => selected' < MaxUsers)
  BY IndexOfType DEF MoveTo, SyncedSelected, TypeOK
<1>3. QED  BY <1>1, <1>2 DEF MoveTo, Spot

\* Going down keeps them.
LEMMA DescendType ==
    ASSUME TypeOK, Descend
    PROVE  Spot(tab', selected', focus')
<1>1. 1 \in 0..(NTabs + MaxHeight) /\ focus \in 0..(NTabs + MaxHeight)
  BY DEF TypeOK
<1>2. drawn.rows > 0 => FirstRow \in 0..(NTabs + MaxHeight)
  BY DEF TypeOK, Frames, FirstRow
<1>3. QED  BY <1>1, <1>2, MoveToType DEF Descend

\* Scrolling ends at a user of the open list.
LEMMA ScrolledToType ==
    ASSUME TypeOK, Scrolls, NEW delta \in Int
    PROVE  ScrolledTo(delta) \in 0..Last
<1>1. Last \in Nat /\ Clamped \in 0..Last
  BY DEF TypeOK, Scrolls, Last, Clamped
<1>2. QED  BY <1>1 DEF ScrolledTo

\* Scrolling keeps the types.
LEMMA ScrollType ==
    ASSUME TypeOK, Scrolls, NEW delta \in Int \ {0}, Scroll(delta)
    PROVE  Spot(tab', selected', focus')
<1>1. selected' \in 0..Last /\ Last < MaxUsers /\ Last \in Nat
  BY ScrolledToType DEF Scroll, Last, Scrolls, TypeOK
<1>2. FirstSibling(focus) \in 0..(NTabs + MaxHeight)
  BY DEF FirstSibling, IsRow, FirstRow, TypeOK, Frames
<1>3. LastSibling(focus) \in 0..(NTabs + MaxHeight)
  BY DEF LastSibling, IsRow, LastRow, TypeOK, Frames
<1>4. focus' \in 0..(NTabs + MaxHeight)
  BY <1>2, <1>3 DEF Scroll, TypeOK
<1>5. QED  BY <1>1, <1>4 DEF Scroll, Spot, TypeOK

\* So do the arrows, wherever the frame is.
LEMMA VerticalType ==
    ASSUME TypeOK, NEW delta \in {-1, 1}, Vertical(delta)
    PROVE  Spot(tab', selected', focus')
<1>1. CASE Descend
  BY <1>1, DescendType
<1>2. CASE Ignored
  BY <1>2 DEF Ignored, Spot, TypeOK
<1>3. CASE HasNeighbour(focus, delta) /\ MoveTo(focus + delta)
  <2>1. focus + delta \in 0..(NTabs + MaxHeight)
    BY <1>3 DEF HasNeighbour, IsRow, TypeOK, Frames
  <2>2. QED  BY <1>3, <2>1, MoveToType
<1>4. CASE Scrolls /\ Scroll(delta)
  BY <1>4, ScrollType
<1>5. CASE drawn.rows > 1 /\ GoAround(delta)
  BY <1>5 DEF GoAround, FirstRow, LastRow, Spot, TypeOK, Frames
<1>6. QED
  BY <1>1, <1>2, <1>3, <1>4, <1>5 DEF Vertical

\* A draw registers a frame that fits the list.
LEMMA PageWithType ==
    ASSUME TypeOK, NEW h \in 0..MaxHeight
    PROVE  PageWith(h) \in Frames /\ PageWith(h).start + PageWith(h).rows <= MaxUsers
<1>1. users[tab] \in 0..MaxUsers /\ users[tab] \in Nat /\ selected \in Nat /\ h \in Nat
  BY DEF TypeOK
<1>2. /\ WindowStart(selected, users[tab], h) \in 0..users[tab]
      /\ WindowRows(selected, users[tab], h) \in 0..h
      /\ WindowStart(selected, users[tab], h) + WindowRows(selected, users[tab], h)
            <= users[tab]
  BY <1>1, WindowInList
<1>3. CASE admin /\ unlocked
  <2> DEFINE start == WindowStart(selected, users[tab], h)
             rows == WindowRows(selected, users[tab], h)
  <2>1. start \in 0..MaxUsers /\ rows \in 0..MaxHeight /\ start + rows <= MaxUsers
    BY <1>1, <1>2
  <2>2. PageWith(h) = [tab |-> tab, start |-> start, rows |-> rows]
    BY <1>3 DEF PageWith
  <2>3. tab \in 0..NTabs
    BY DEF TypeOK, AllTabs
  <2> HIDE DEF start, rows
  <2>4. QED  BY <2>1, <2>2, <2>3 DEF Frames
<1>4. CASE ~(admin /\ unlocked)
  BY <1>4 DEF PageWith, Frames, OnePanel
<1>5. QED  BY <1>3, <1>4

\* Realigning leaves the frame on a region or off the screen it was off.
LEMMA RealignedType ==
    ASSUME TypeOK, NEW d \in Frames
    PROVE  Realigned(d) \in 0..(NTabs + MaxHeight)
BY DEF Realigned, RowWithIndex, FirstRow, TypeOK, Frames

\* Every step keeps the types.
LEMMA TypePreserved == TypeOK /\ [Next]_vars => TypeOK'
<1> SUFFICES ASSUME TypeOK, [Next]_vars  PROVE TypeOK'
  OBVIOUS
<1>1. ASSUME Key, UNCHANGED pageVars, Spot(tab', selected', focus')
      PROVE  TypeOK'
  BY <1>1 DEF Key, pageVars, Spot, TypeOK
<1>2. ASSUME Spot(tab', selected', focus'), Key, UNCHANGED <<unlocked, users>>,
             admin' \in BOOLEAN
      PROVE  TypeOK'
  BY <1>2 DEF Key, Spot, TypeOK
<1>3. CASE Arrow
  <2>1. PICK delta \in {-1, 1} : Key /\ Vertical(delta)
    BY <1>3 DEF Arrow, Up, Down
  <2>2. UNCHANGED pageVars
    BY <2>1 DEF Vertical, Descend, Ignored, MoveTo, Scroll, GoAround
  <2>3. QED  BY <1>1, <2>1, <2>2, VerticalType
<1>4. CASE LeftRight
  <2>1. PICK delta \in {-1, 1} : Key /\ Horizontal(delta)
    BY <1>4 DEF LeftRight
  <2>2. CASE IsTab(focus + delta) /\ MoveTo(focus + delta)
    <3>1. focus + delta \in 0..(NTabs + MaxHeight)
      BY <2>2 DEF IsTab, AllTabs, TypeOK
    <3>2. QED  BY <1>1, <2>1, <2>2, <3>1, MoveToType DEF MoveTo
  <2>3. CASE Ignored
    BY <1>1, <2>1, <2>3 DEF Ignored, Spot, TypeOK
  <2>4. QED  BY <2>1, <2>2, <2>3 DEF Horizontal
<1>5. CASE PageScroll
  <2>1. PICK delta \in PageSteps \cup {-step : step \in PageSteps} :
           IF Scrolls THEN Scroll(delta)
           ELSE /\ focus' \in {focus, IF admin \/ focus = 0 \/ TabsDrawn THEN focus ELSE 1}
                /\ UNCHANGED <<pageVars, tab, selected>>
    BY <1>5 DEF PageScroll
  <2>2. delta \in Int \ {0}
    <3>1. CASE delta \in PageSteps
      BY <3>1
    <3>2. CASE \E step \in PageSteps : delta = -step
      <4>1. PICK step \in PageSteps : delta = -step
        BY <3>2
      <4>2. step \in Nat \ {0}
        OBVIOUS
      <4>3. QED  BY <4>1, <4>2
    <3>3. QED  BY <3>1, <3>2
  <2>3. Key
    BY <1>5 DEF PageScroll
  <2>4. CASE Scrolls
    BY <1>1, <2>1, <2>2, <2>3, <2>4, ScrollType DEF Scroll
  <2>5. CASE ~Scrolls
    BY <1>1, <2>1, <2>3, <2>5 DEF Spot, TypeOK
  <2>6. QED  BY <2>4, <2>5
<1>6. CASE Home
  BY <1>1, <1>6 DEF Home, Spot, TypeOK
<1>7. CASE Esc
  BY <1>2, <1>7 DEF Esc, Spot, TypeOK, Frames
<1>8. CASE Enter
  <2>1. CASE Descend
    BY <1>1, <1>8, <2>1, DescendType DEF Enter, Descend, MoveTo
  <2>2. CASE Ignored
    BY <1>1, <1>8, <2>2 DEF Enter, Ignored, Spot, TypeOK
  <2>3. QED  BY <1>8, <2>1, <2>2 DEF Enter
<1>9. CASE ChangePage
  BY <1>2, <1>9 DEF ChangePage, Spot, TypeOK
<1>10. CASE Bracket
  <2>1. PICK delta \in {1, NTabs - 1} : tab' = ((tab - 1 + delta) % NTabs) + 1
    BY <1>10 DEF Bracket
  <2>2. tab' \in AllTabs
    BY <2>1 DEF TypeOK, AllTabs
  <2>3. QED  BY <1>1, <1>10, <2>2 DEF Bracket, Spot, TypeOK
<1>11. CASE Refresh
  BY <1>11 DEF Refresh, Key, TypeOK
<1>12. CASE ListArrives
  BY <1>12 DEF ListArrives, TypeOK
<1>13. CASE PrivilegeChanges
  BY <1>13 DEF PrivilegeChanges, TypeOK
<1>14. CASE Draw
  <2>1. PICK h \in 0..MaxHeight : drawn' = PageWith(h) /\ focus' = Realigned(drawn')
    BY <1>14 DEF Draw
  <2>2. drawn' \in Frames /\ drawn'.start + drawn'.rows <= MaxUsers
    BY <2>1, PageWithType
  <2>3. focus' \in 0..(NTabs + MaxHeight)
    BY <2>1, <2>2, RealignedType
  <2>4. QED  BY <1>14, <2>2, <2>3 DEF Draw, pageVars, TypeOK
<1>15. CASE UNCHANGED vars
  BY <1>15 DEF vars, pageVars, TypeOK
<1>16. QED
  BY <1>3, <1>4, <1>5, <1>6, <1>7, <1>8, <1>9, <1>10, <1>11, <1>12, <1>13,
     <1>14, <1>15 DEF Next, Keys

\* The selection, the frame and the regions stay what they are, for any list.
THEOREM TypeCorrect == Spec => []TypeOK
<1>1. Init => TypeOK
  <2> SUFFICES ASSUME Init  PROVE TypeOK
    OBVIOUS
  <2>1. drawn \in Frames /\ drawn.start + drawn.rows <= MaxUsers
    BY DEF Init, OnePanel, Frames
  <2>2. users \in [AllTabs -> 0..MaxUsers] /\ tab \in AllTabs
    BY DEF Init, AllTabs
  <2>3. selected = 0 /\ focus \in 0..(NTabs + MaxHeight)
    BY DEF Init
  <2>4. QED  BY <2>1, <2>2, <2>3 DEF Init, TypeOK
<1>2. QED  BY <1>1, TypePreserved, PTL DEF Spec

-----------------------------------------------------------------------------
(* The frame and the selection *)

\* Whatever was framed, a draw leaves a framed row on the selected user.
LEMMA DrawFramesSelected ==
    ASSUME TypeOK, Draw, OnUser'
    PROVE  IndexOf(focus)' = selected'
<1>1. PICK h \in 0..MaxHeight : drawn' = PageWith(h) /\ focus' = Realigned(drawn')
  BY DEF Draw
<1>2. /\ admin /\ selected < users[tab]
      /\ selected' = selected
      /\ focus' \in FirstRow..(NTabs + drawn'.rows)
  BY DEF Draw, OnUser, IsRow, FirstRow, pageVars
<1>3. drawn'.rows \in Nat \ {0} /\ drawn'.start \in Nat
  BY <1>1, <1>2, PageWithType DEF Frames, FirstRow
<1>4. /\ drawn'.start = WindowStart(selected, users[tab], h)
      /\ drawn'.rows = WindowRows(selected, users[tab], h)
  BY <1>1, <1>3 DEF PageWith, OnePanel
<1>5. h \in Nat \ {0}
  <2>1. h \in Nat /\ users[tab] \in Nat /\ selected \in Nat
    BY DEF TypeOK
  <2>2. drawn'.rows \in 0..h
    BY <1>4, <2>1, WindowInList, ZenonT(30)
  <2>3. QED  BY <1>3, <2>1, <2>2
<1>6. selected \in drawn'.start..(drawn'.start + drawn'.rows - 1)
  <2>1. users[tab] \in Nat /\ selected \in 0..(users[tab] - 1)
    BY <1>2 DEF TypeOK
  <2>2. QED  BY <1>3, <1>4, <1>5, <2>1, WindowShowsSelected
<1>7. focus \in FirstRow..(NTabs + drawn'.rows)
  BY <1>1, <1>2 DEF Realigned
<1>8. focus' = FirstRow + selected - drawn'.start
  BY <1>1, <1>2, <1>3, <1>6, <1>7 DEF Realigned, RowWithIndex, FirstRow, TypeOK
<1>9. QED  BY <1>2, <1>3, <1>8 DEF IndexOf, FirstRow, TypeOK

\* On a screen that is up to date the framed user is the selected one.
THEOREM FrameIsSelection == Spec => []FrameFollowsSelection
<1>1. Init => FrameFollowsSelection
  BY DEF Init, FrameFollowsSelection, OnUser
<1>2. TypeOK /\ FrameFollowsSelection /\ [Next]_vars => FrameFollowsSelection'
  <2> SUFFICES ASSUME TypeOK, FrameFollowsSelection, [Next]_vars
               PROVE  FrameFollowsSelection'
    OBVIOUS
  <2>1. CASE Keys \/ ListArrives \/ PrivilegeChanges
    <3>1. dirty' = TRUE
      BY <2>1 DEF Keys, Arrow, Up, Down, LeftRight, PageScroll, Home, Esc, Enter,
         ChangePage, Bracket, Refresh, Key, ListArrives, PrivilegeChanges
    <3>2. QED  BY <3>1 DEF FrameFollowsSelection
  <2>2. CASE Draw
    BY <2>2, DrawFramesSelected DEF FrameFollowsSelection
  <2>3. CASE UNCHANGED vars
    BY <2>3 DEF vars, pageVars, FrameFollowsSelection, OnUser, IsRow, IndexOf, FirstRow
  <2>4. QED  BY <2>1, <2>2, <2>3 DEF Next
<1>3. QED  BY <1>1, <1>2, TypeCorrect, PTL DEF Spec

-----------------------------------------------------------------------------
(* The arrows *)

\* One on and one back in a circle of n.
LEMMA AroundTheCircle ==
    ASSUME NEW n \in Nat \ {0}, NEW i \in 0..(n - 1)
    PROVE  /\ (i + 1) % n = IF i = n - 1 THEN 0 ELSE i + 1
           /\ (i + (-1)) % n = IF i = 0 THEN n - 1 ELSE i - 1
<1>1. n % n = 0 /\ (-1) % n = n - 1
  OBVIOUS
<1>2. \A k \in 0..(n - 1) : k % n = k
  OBVIOUS
<1>3. QED  BY <1>1, <1>2

\* On a screen that is up to date the visible rows are users of the open list.
RowsFit == ~dirty /\ drawn.rows > 0 => drawn.start + drawn.rows <= users[tab]

\* Every draw makes it so, and whatever else happens makes the screen stale.
LEMMA RowsFitInvariant == Spec => []RowsFit
<1>1. Init => RowsFit
  BY DEF Init, RowsFit, OnePanel
<1>2. TypeOK /\ RowsFit /\ [Next]_vars => RowsFit'
  <2> SUFFICES ASSUME TypeOK, RowsFit, [Next]_vars  PROVE RowsFit'
    OBVIOUS
  <2>1. CASE Keys \/ ListArrives \/ PrivilegeChanges
    <3>1. dirty' = TRUE
      BY <2>1 DEF Keys, Arrow, Up, Down, LeftRight, PageScroll, Home, Esc, Enter,
         ChangePage, Bracket, Refresh, Key, ListArrives, PrivilegeChanges
    <3>2. QED  BY <3>1 DEF RowsFit
  <2>2. CASE Draw
    <3>1. PICK h \in 0..MaxHeight : drawn' = PageWith(h)
      BY <2>2 DEF Draw
    <3>2. h \in Nat /\ users[tab] \in Nat /\ selected \in Nat
      BY DEF TypeOK
    <3>3. /\ WindowStart(selected, users[tab], h)
               + WindowRows(selected, users[tab], h) <= users[tab]
      BY <3>2, WindowInList
    <3>4. CASE admin /\ unlocked
      BY <2>2, <3>1, <3>3, <3>4 DEF Draw, PageWith, pageVars, RowsFit
    <3>5. CASE ~(admin /\ unlocked)
      BY <3>1, <3>5 DEF PageWith, OnePanel, RowsFit
    <3>6. QED  BY <3>4, <3>5
  <2>3. CASE UNCHANGED vars
    BY <2>3 DEF vars, pageVars, RowsFit
  <2>4. QED  BY <2>1, <2>2, <2>3 DEF Next
<1>3. QED  BY <1>1, <1>2, TypeCorrect, PTL DEF Spec

\* An arrow on the selected user's row, the rows being users of the list,
\* selects the next user of the list or, at its end, the one at the other end.
LEMMA VerticalGoesOneOn ==
    ASSUME TypeOK, RowsFit, FrameFollowsSelection, ~dirty, OnUser,
           NEW delta \in {-1, 1}, Vertical(delta)
    PROVE  selected' = OneOn(delta)
<1> DEFINE n == users[tab]
<1>1. n \in Nat \ {0} /\ selected \in 0..(n - 1)
  BY DEF OnUser, TypeOK
<1>2. /\ admin /\ IsRow(focus) /\ focus # 0 /\ IndexOf(focus) = selected
      /\ ~IsTab(focus)
  BY DEF OnUser, FrameFollowsSelection, IsRow, IsTab, AllTabs, TypeOK, Frames
<1>3. /\ drawn.rows \in Nat \ {0} /\ drawn.start \in Nat
      /\ drawn.start + drawn.rows <= n
      /\ focus \in Int
  BY <1>2 DEF RowsFit, IsRow, TypeOK, Frames
<1>4. OneOn(1) = IF selected = n - 1 THEN 0 ELSE selected + 1
  BY <1>1, AroundTheCircle DEF OneOn
<1>5. OneOn(-1) = IF selected = 0 THEN n - 1 ELSE selected - 1
  BY <1>1, AroundTheCircle DEF OneOn
<1>6. CASE HasNeighbour(focus, delta)
  <2>1. MoveTo(focus + delta) /\ IsRow(focus + delta) /\ ~IsTab(focus + delta)
    BY <1>2, <1>3, <1>6 DEF Vertical, HasNeighbour, IsRow, IsTab, AllTabs
  <2>2. selected' = IndexOf(focus + delta)
    BY <1>2, <2>1 DEF MoveTo, SyncedSelected
  <2>3. selected' = selected + delta
    BY <1>1, <1>2, <1>3, <2>2 DEF IndexOf, FirstRow
  <2>4. IndexOf(focus + delta) \in 0..(n - 1)
    BY <1>1, <1>3, <2>1 DEF IndexOf, FirstRow, IsRow
  <2>5. selected + delta \in 0..(n - 1)
    BY <2>2, <2>3, <2>4
  <2>6. CASE delta = 1
    BY <1>1, <1>4, <2>3, <2>5, <2>6
  <2>7. CASE delta = -1
    BY <1>1, <1>5, <2>3, <2>5, <2>7
  <2>8. QED  BY <2>6, <2>7
<1>7. CASE ~HasNeighbour(focus, delta) /\ Scrolls
  <2>1. selected' = ScrolledTo(delta)
    BY <1>2, <1>7 DEF Vertical, Scroll
  <2>2. Clamped = selected /\ Last = n - 1
    BY <1>1 DEF Clamped, Last
  <2>3. QED  BY <1>1, <1>4, <1>5, <2>1, <2>2 DEF ScrolledTo, Wraps
<1>8. CASE ~HasNeighbour(focus, delta) /\ ~Scrolls
  <2>1. n = 1 /\ selected = 0 /\ ~(drawn.rows > 1)
    BY <1>1, <1>2, <1>3, <1>8 DEF Scrolls
  <2>2. MoveTo(focus) \/ Ignored
    BY <1>2, <1>8, <2>1 DEF Vertical, Descend
  <2>3. selected' = selected
    BY <1>2, <2>2 DEF MoveTo, SyncedSelected, Ignored
  <2>4. QED  BY <1>4, <1>5, <2>1, <2>3
<1>9. QED  BY <1>6, <1>7, <1>8

\* On a screen that is up to date an arrow selects the next user, whatever the
\* length of the list and the rows there is room for.
THEOREM ArrowsAreExact == Spec => ArrowsGoOneOn
<1>1. TypeOK /\ RowsFit /\ FrameFollowsSelection /\ [Next]_vars =>
        [~dirty /\ OnUser => /\ Up => selected' = OneOn(-1)
                             /\ Down => selected' = OneOn(1)]_vars
  BY VerticalGoesOneOn DEF Up, Down
<1>2. QED
  BY <1>1, TypeCorrect, RowsFitInvariant, FrameIsSelection, PTL
     DEF Spec, ArrowsGoOneOn

\* An arrow on a row leaves the open tab open, on any screen.
THEOREM RowsStayInTab == Spec => RowsKeepTab
<1>1. TypeOK /\ [Next]_vars => [IsRow(focus) /\ Arrow => tab' = tab]_vars
  <2> SUFFICES ASSUME TypeOK, IsRow(focus), Arrow  PROVE tab' = tab
    OBVIOUS
  <2>1. PICK delta \in {-1, 1} : Vertical(delta)
    BY DEF Arrow, Up, Down
  <2>2. \A f \in Int : IsRow(f) => ~IsTab(f)
    BY DEF IsRow, IsTab, AllTabs, TypeOK, Frames
  <2>3. focus \in Int /\ focus # 0
    BY DEF IsRow, TypeOK, Frames
  <2>4. CASE HasNeighbour(focus, delta)
    <3>1. MoveTo(focus + delta) /\ ~IsTab(focus + delta)
      BY <2>1, <2>2, <2>3, <2>4 DEF Vertical, HasNeighbour
    <3>2. QED  BY <3>1 DEF MoveTo, SyncedTab
  <2>5. CASE ~HasNeighbour(focus, delta)
    <3>1. MoveTo(focus) \/ Ignored \/ Scroll(delta) \/ GoAround(delta)
      BY <2>1, <2>2, <2>3, <2>5 DEF Vertical, Descend
    <3>2. QED
      BY <2>2, <2>3, <3>1 DEF MoveTo, SyncedTab, Ignored, Scroll, GoAround
  <2>6. QED  BY <2>4, <2>5
<1>2. QED  BY <1>1, TypeCorrect, PTL DEF Spec, RowsKeepTab

-----------------------------------------------------------------------------
HIDE SizesAssumption

(* The window that lists the keys *)

\* The sums of the instance are those of SumTheorems.
LEMMA HelpSums == ASSUME NEW f PROVE H!SumFunction(f) = SumFunctionOnSet(f, DOMAIN f)
BY Unfold
   DEF H!SumFunction, H!SumFunctionOnSet, H!FoldFunctionOnSet, H!MapThenFoldSet, Sums, Step,
       Some, Less1

\* Everything takes a row at least.
LEMMA RowsTaken ==
    ASSUME NEW w \in Nat, NEW width \in Nat \ {0}
    PROVE  H!Rows(w, width) \in Nat /\ H!Rows(w, width) >= 1
<1>1. w + 0 \in Nat /\ H!Larger(w, 1) \in Nat /\ H!Larger(w, 1) >= 1
    BY DEF H!Larger
<1>2. PICK l \in Nat : l = H!Larger(w, 1) /\ l >= 1
    BY <1>1
<1>3. (l + width - 1) \div width \in Nat /\ (l + width - 1) \div width >= 1
    <2>1. PICK q \in Int : q = (l + width - 1) \div width
        OBVIOUS
    <2>2. PICK r \in Int : r = (l + width - 1) % width
        OBVIOUS
    <2>3. l + width - 1 = q * width + r /\ 0 <= r /\ r < width
        BY <2>1, <2>2
    <2>4. q >= 1
        <3>1. q * width > 0
            BY <2>3, <1>2
        <3>2. CASE q <= 0
            <4>1. q * width <= 0
                BY <3>2
            <4> QED BY <3>1, <4>1
        <3> QED BY <3>2
    <2> QED BY <2>1, <2>4
<1> QED BY <1>2, <1>3 DEF H!Rows

\* In a column as wide as it is, one.
LEMMA OneRow ==
    ASSUME NEW w \in Nat, NEW width \in Nat \ {0}, w <= width
    PROVE  H!Rows(w, width) = 1
<1>1. PICK l \in Nat : l = H!Larger(w, 1) /\ l >= 1 /\ l <= width
    BY DEF H!Larger
<1>2. (l + width - 1) \div width = 1
    <2>1. l + width - 1 = 1 * width + (l - 1) /\ 0 <= l - 1 /\ l - 1 < width
        BY <1>1
    <2> QED BY <2>1
<1> QED BY <1>1, <1>2 DEF H!Rows

\* No key's line is wider than 82.
LEMMA LinesOfKeys ==
    /\ DOMAIN H!Sections = 1..6
    /\ \A s \in 1..6 :
        /\ H!Sections[s] \in Seq(1..64)
        /\ \A i \in DOMAIN H!Sections[s] : H!Sections[s][i] \in 1..64
        /\ IsFiniteSet(DOMAIN H!Sections[s])
<1>1. DOMAIN H!Sections = 1..6
    BY DEF H!Sections
<1>2. ASSUME NEW s \in 1..6 PROVE H!Sections[s] \in Seq(1..64)
    <2>1. H!Sections[1] \in Seq(1..64)
        BY DEF H!Sections
    <2>2. H!Sections[2] \in Seq(1..64)
        BY DEF H!Sections
    <2>3. H!Sections[3] \in Seq(1..64)
        BY DEF H!Sections
    <2>4. H!Sections[4] \in Seq(1..64)
        BY DEF H!Sections
    <2>5. H!Sections[5] \in Seq(1..64)
        BY DEF H!Sections
    <2>6. H!Sections[6] \in Seq(1..64)
        BY DEF H!Sections
    <2>7. s = 1 \/ s = 2 \/ s = 3 \/ s = 4 \/ s = 5 \/ s = 6
        OBVIOUS
    <2> QED BY <2>1, <2>2, <2>3, <2>4, <2>5, <2>6, <2>7, Zenon
<1>3. ASSUME NEW s \in 1..6 PROVE IsFiniteSet(DOMAIN H!Sections[s])
    <2>1. Len(H!Sections[s]) \in Nat /\ DOMAIN H!Sections[s] = 1..Len(H!Sections[s])
        BY <1>2
    <2> QED BY <2>1, FS_Interval
<1>4. ASSUME NEW s \in 1..6, NEW i \in DOMAIN H!Sections[s] PROVE H!Sections[s][i] \in 1..64
    <2>1. PICK t \in Seq(1..64) : t = H!Sections[s]
        BY <1>2
    <2>2. \A j \in DOMAIN t : t[j] \in 1..64
        <3>1. Len(t) \in Nat /\ DOMAIN t = 1..Len(t)
            OBVIOUS
        <3>2. \A j \in 1..Len(t) : t[j] \in 1..64
            BY ElementOfSeq
        <3> QED BY <3>1, <3>2
    <2> QED BY <2>1, <2>2, Zenon
<1> QED BY <1>1, <1>2, <1>3, <1>4

\* The list has six sections.
LEMMA SixSections == IsFiniteSet(1..6)
<1>1. \A n \in Int : IsFiniteSet(1..n)
    BY FS_Interval
<1>2. 6 \in Int
    OBVIOUS
<1> QED BY <1>1, <1>2, Zenon

RowsIn(section, width) ==
    [i \in DOMAIN section |-> H!Rows(H!KeyColumn + section[i], width)]
SectionsIn(width) ==
    [s \in 1..6 |-> 1 + SumFunctionOnSet(RowsIn(H!Sections[s], width), DOMAIN H!Sections[s])]

\* What a section takes, and its lines, are numbers.
LEMMA RowsAreNumbers ==
    ASSUME NEW width \in Nat \ {0}, NEW s \in 1..6
    PROVE  /\ \A i \in DOMAIN H!Sections[s] : RowsIn(H!Sections[s], width)[i] \in Nat
           /\ SectionsIn(width)[s] \in Nat
<1>1. ASSUME NEW i \in DOMAIN H!Sections[s] PROVE RowsIn(H!Sections[s], width)[i] \in Nat
    <2>1. H!Sections[s][i] \in 1..64
        BY LinesOfKeys
    <2>2. H!KeyColumn + H!Sections[s][i] \in Nat
        BY <2>1 DEF H!KeyColumn
    <2> QED BY <2>2, RowsTaken DEF RowsIn
<1>2. SumFunctionOnSet(RowsIn(H!Sections[s], width), DOMAIN H!Sections[s]) \in Nat
    BY <1>1, LinesOfKeys, SumIsNat
<1> QED BY <1>1, <1>2 DEF SectionsIn

\* How many rows the list takes in all.
LEMMA TotalIs ==
    ASSUME NEW width \in Nat \ {0}
    PROVE  H!Total(width) = SumFunctionOnSet(SectionsIn(width), 1..6) + 6 + H!Rows(57, width)
<1>1. \A s \in 1..6 :
        H!SumFunction([i \in DOMAIN H!Sections[s] |->
                           H!Rows(H!KeyColumn + H!Sections[s][i], width)])
          = SumFunctionOnSet(RowsIn(H!Sections[s], width), DOMAIN H!Sections[s])
    BY HelpSums DEF RowsIn
<1> DEFINE f == [s \in DOMAIN H!Sections |->
                    1 + H!SumFunction([i \in DOMAIN H!Sections[s] |->
                           H!Rows(H!KeyColumn + H!Sections[s][i], width)])]
<1>2. f = SectionsIn(width) /\ DOMAIN f = 1..6
    BY <1>1, LinesOfKeys DEF SectionsIn
<1>3. H!SumFunction(f) = SumFunctionOnSet(SectionsIn(width), 1..6)
    <2> HIDE DEF f
    <2> QED BY <1>2, HelpSums
<1>4. Len(H!Sections) = 6
    BY DEF H!Sections
<1>5. H!Total(width) = H!SumFunction(f) + Len(H!Sections) - 1 + 1 + H!Rows(57, width)
    BY DEF H!Total
<1>6. H!Rows(57, width) \in Nat
    BY RowsTaken
<1>7. SumFunctionOnSet(SectionsIn(width), 1..6) \in Nat
    <2>1. \A s \in 1..6 : SectionsIn(width)[s] \in Nat
        BY RowsAreNumbers
    <2> QED BY <2>1, SixSections, SumIsNat
<1> HIDE DEF f
<1> QED BY <1>3, <1>4, <1>5, <1>6, <1>7

\* That is a number.
LEMMA TotalIsNumber ==
    ASSUME NEW width \in Nat \ {0} PROVE H!Total(width) \in Nat /\ H!Total(width) >= 1
<1>1. SumFunctionOnSet(SectionsIn(width), 1..6) \in Nat
    BY RowsAreNumbers, SixSections, SumIsNat
<1>2. H!Rows(57, width) \in Nat
    BY RowsTaken
<1> QED BY <1>1, <1>2, TotalIs

\* Where no line is broken, one column more or less makes no difference.
LEMMA TotalUnbroken ==
    ASSUME NEW v \in Nat, NEW w \in Nat, v >= 82, w >= 82
    PROVE  H!Total(v) = H!Total(w)
<1>1. ASSUME NEW s \in 1..6 PROVE SectionsIn(v)[s] = SectionsIn(w)[s]
    <2>1. ASSUME NEW i \in DOMAIN H!Sections[s]
          PROVE  RowsIn(H!Sections[s], v)[i] = RowsIn(H!Sections[s], w)[i]
        <3>1. H!Sections[s][i] \in 1..64
            BY LinesOfKeys
        <3>2. H!KeyColumn + H!Sections[s][i] \in Nat /\ H!KeyColumn + H!Sections[s][i] <= 82
            BY <3>1 DEF H!KeyColumn
        <3>3. /\ H!Rows(H!KeyColumn + H!Sections[s][i], v) = 1
              /\ H!Rows(H!KeyColumn + H!Sections[s][i], w) = 1
            BY <3>2, OneRow
        <3> QED BY <3>3 DEF RowsIn
    <2>2. SumFunctionOnSet(RowsIn(H!Sections[s], v), DOMAIN H!Sections[s])
            = SumFunctionOnSet(RowsIn(H!Sections[s], w), DOMAIN H!Sections[s])
        BY <2>1, LinesOfKeys, SumSame
    <2> QED BY <2>2 DEF SectionsIn
<1>2. SumFunctionOnSet(SectionsIn(v), 1..6) = SumFunctionOnSet(SectionsIn(w), 1..6)
    BY <1>1, SixSections, SumSame
<1>3. H!Rows(57, v) = 1 /\ H!Rows(57, w) = 1
    BY OneRow
<1> QED BY <1>2, <1>3, TotalIs

-----------------------------------------------------------------------------
(* What a draw shows *)

\* What the window says of itself: the hint where there is room for one, and, on
\* a terminal of the usual width, the whole height where the list is cut off.
Tells(win) ==
    /\ {win.rows, win.room, win.width, win.height, win.high} \subseteq Nat
    /\ win.hint => win.room < win.rows
    /\ win.high >= 5 /\ win.room < win.rows => win.hint
    /\ win.width >= 80 /\ win.room < win.rows => win.high >= win.height - 2

\* What is reckoned with numbers is a number, between the bounds given.
LEMMA NumbersOf ==
    \A a, b \in Nat :
        /\ {H!Larger(a, b), H!Smaller(a, b), H!Minus(a, b)} \subseteq Nat
        /\ H!Larger(a, b) >= a /\ H!Larger(a, b) >= b
        /\ H!Smaller(a, b) <= a /\ H!Smaller(a, b) <= b
BY DEF H!Larger, H!Smaller, H!Minus

\* A window that is drawn tells how far the list can be scrolled.
LEMMA ShownTells ==
    ASSUME NEW w \in Nat, NEW h \in Nat, NEW mascot \in BOOLEAN
    PROVE  Tells(H!Shown(w, h, mascot))
<1> DEFINE art == mascot /\ H!BesideMascot(w, h)
           win == H!Window(w, h, art)
           column == H!Larger(H!Minus(win.w, 4 + H!Reserved(art)), 1)
           wanted == H!WantedWidth(art) - 4 - H!Reserved(art)
<1>1. art \in BOOLEAN /\ (art => w >= 154)
    BY DEF H!BesideMascot, H!MascotWidth
<1>2. /\ H!WantedWidth(art) = IF art THEN 154 ELSE 78
      /\ H!Reserved(art) = IF art THEN 58 ELSE 0
    BY DEF H!WantedWidth, H!Reserved, H!MascotWidth
<1>3. win.w \in Nat /\ (w >= 80 => IF art THEN win.w \in 152..154 ELSE win.w = 78)
    <2>1. win.w = H!Larger(H!Smaller(H!WantedWidth(art), H!Minus(w, 2)), 1)
        BY DEF H!Window
    <2> QED BY <1>1, <1>2, <2>1 DEF H!Larger, H!Smaller, H!Minus
<1>4. column \in Nat \ {0} /\ wanted \in Nat \ {0}
      /\ (w >= 80 => IF art THEN column >= 82 /\ wanted >= 82 ELSE column = wanted)
    BY <1>1, <1>2, <1>3 DEF H!Larger, H!Minus
<1>5. H!Total(column) \in Nat /\ H!Total(column) >= 1 /\ H!Total(wanted) \in Nat
    BY <1>4, TotalIsNumber
<1>6. w >= 80 => H!Total(column) = H!Total(wanted)
    BY <1>1, <1>4, TotalUnbroken
<1>7. H!WantedHeight(art) \in Nat /\ H!WantedHeight(art) >= H!Total(wanted) + 4
    <2>1. H!WantedHeight(art) = IF art THEN H!Larger(H!Total(wanted) + 4, 26)
                                ELSE H!Total(wanted) + 4
        BY DEF H!WantedHeight, H!MascotHeight
    <2> QED BY <1>5, <2>1 DEF H!Larger
<1>8. PICK rows \in Nat : rows = H!Total(column)
    BY <1>5
<1>9. PICK high \in Nat : high = win.h
    /\ high = H!Larger(H!Smaller(H!WantedHeight(art), H!Minus(h, 2)), 1)
    BY <1>7, NumbersOf DEF H!Window
<1>10. /\ high >= 1
       /\ w >= 80 => high >= H!Minus(h, 2) \/ high >= rows + 4
    BY <1>6, <1>7, <1>8, <1>9, <1>5 DEF H!Larger, H!Smaller, H!Minus
<1>11. PICK room \in Nat : room = H!Room(win)
        /\ room = (IF high - 2 < 3 THEN H!Minus(high, 2) ELSE high - 4)
    BY <1>9 DEF H!Room, H!Minus
<1>12. PICK s : s = H!Shown(w, h, mascot)
    OBVIOUS
<1>13. /\ s.rows = rows /\ s.room = room /\ s.width = w /\ s.height = h /\ s.high = high
       /\ s.hint <=> H!Minus(high, 2) >= 3 /\ rows > H!Minus(high, 4)
    <2>1. /\ s.rows = rows /\ s.room = room /\ s.width = w /\ s.height = h /\ s.high = high
          /\ s.hint = (H!Minus(high, 2) >= 3 /\ rows > H!Minus(high, 4))
        BY <1>8, <1>9, <1>11, <1>12 DEF H!Shown
    <2> HIDE DEF art, win, column, wanted
    <2> QED BY <2>1, Zenon
<1> HIDE DEF art, win, column, wanted
<1>14. s.hint => s.room < s.rows
    BY <1>11, <1>13 DEF H!Minus
<1>15. s.high >= 5 /\ s.room < s.rows => s.hint
    BY <1>11, <1>13 DEF H!Minus
<1>16. s.width >= 80 /\ s.room < s.rows => s.high >= s.height - 2
    BY <1>10, <1>11, <1>13 DEF H!Minus
<1> QED BY <1>12, <1>13, <1>14, <1>15, <1>16 DEF Tells

-----------------------------------------------------------------------------
(* The window as it stands: what the last draw found, and how far it scrolls. *)

HelpInv ==
    /\ {listScroll, listBound} \subseteq Nat
    /\ listWindow # H!NoWindow =>
        /\ Tells(listWindow)
        /\ listBound = H!Minus(listWindow.rows, listWindow.room)

\* Each step keeps what the window tells.
LEMMA StepHelp == HelpInv /\ [H!Next]_H!vars => HelpInv'
<1> SUFFICES ASSUME HelpInv, [H!Next]_H!vars PROVE HelpInv'
    OBVIOUS
<1>1. CASE H!Open \/ UNCHANGED H!vars
    BY <1>1 DEF HelpInv, H!Open, H!vars, H!NoWindow
<1>2. ASSUME NEW to \in Nat, H!Scroll(to) PROVE HelpInv'
    BY <1>2 DEF HelpInv, H!Scroll
<1>3. CASE H!Up \/ H!Down \/ H!PageUp \/ H!PageDown
    <2>1. /\ {H!Minus(listScroll, 1), H!Minus(listScroll, 10)} \subseteq Nat
          /\ {H!Smaller(listScroll + 1, listBound), H!Smaller(listScroll + 10, listBound)}
                \subseteq Nat
        BY DEF HelpInv, H!Minus, H!Smaller
    <2> QED BY <1>2, <1>3, <2>1 DEF H!Up, H!Down, H!PageUp, H!PageDown
<1>4. CASE H!Close
    BY <1>4 DEF HelpInv, H!Close
<1>5. CASE H!Draw
    <2>1. PICK w \in Widths, h \in Heights, mascot \in BOOLEAN :
            listWindow' = H!Shown(w, h, mascot)
        BY <1>5 DEF H!Draw
    <2>2. Tells(listWindow')
        BY <2>1, ShownTells, HelpAssumption DEF H!SizesAreNumbers
    <2>3. listBound' = H!Minus(listWindow'.rows, listWindow'.room)
        BY <1>5 DEF H!Draw
    <2>4. listBound' \in Nat
        BY <2>2, <2>3, NumbersOf DEF Tells
    <2>5. listScroll' = listScroll
        BY <1>5 DEF H!Draw
    <2> QED BY <2>2, <2>3, <2>4, <2>5 DEF HelpInv, Tells
<1> QED BY <1>1, <1>3, <1>4, <1>5 DEF H!Next

\* So it is so in every state.
LEMMA HelpInvariant == H!Spec => []HelpInv
<1>1. H!Init => HelpInv
    BY DEF H!Init, HelpInv
<1> QED BY <1>1, StepHelp, PTL DEF H!Spec

\* In each of them every key is in reach.
LEMMA StepReaches ==
    HelpInv /\ listWindow # H!NoWindow =>
        /\ listWindow.room < listWindow.rows =>
             /\ listWindow.high >= 5 => listWindow.hint
             /\ listWindow.width >= 80 => listWindow.high >= listWindow.height - 2
        /\ listWindow.hint => listBound > 0
        /\ H!FirstLine > 0 => H!FirstLine + listWindow.room <= listWindow.rows
        /\ H!Down /\ H!FirstLine + listWindow.room < listWindow.rows =>
             H!FirstLine' = H!FirstLine + 1
<1> SUFFICES ASSUME HelpInv, listWindow # H!NoWindow
             PROVE  /\ listWindow.room < listWindow.rows =>
                         /\ listWindow.high >= 5 => listWindow.hint
                         /\ listWindow.width >= 80 => listWindow.high >= listWindow.height - 2
                    /\ listWindow.hint => listBound > 0
                    /\ H!FirstLine > 0 => H!FirstLine + listWindow.room <= listWindow.rows
                    /\ H!Down /\ H!FirstLine + listWindow.room < listWindow.rows =>
                         H!FirstLine' = H!FirstLine + 1
    OBVIOUS
<1>1. /\ {listScroll, listBound, listWindow.rows, listWindow.room} \subseteq Nat
      /\ listBound = H!Minus(listWindow.rows, listWindow.room) /\ Tells(listWindow)
    BY DEF HelpInv, Tells
<1>2. H!FirstLine = H!Smaller(listScroll, listBound)
    BY DEF H!FirstLine
<1>3. listWindow.hint => listBound > 0
    BY <1>1 DEF Tells, H!Minus
<1>4. H!FirstLine > 0 => H!FirstLine + listWindow.room <= listWindow.rows
    BY <1>1, <1>2 DEF H!Minus, H!Smaller
<1>5. ASSUME H!Down, H!FirstLine + listWindow.room < listWindow.rows
      PROVE  H!FirstLine' = H!FirstLine + 1
    <2>1. listScroll' = H!Smaller(listScroll + 1, listBound) /\ listBound' = listBound
        BY <1>5 DEF H!Down, H!Scroll
    <2>2. H!FirstLine' = H!Smaller(listScroll', listBound')
        BY DEF H!FirstLine
    <2> QED BY <1>1, <1>2, <1>5, <2>1, <2>2 DEF H!Minus, H!Smaller
<1> QED BY <1>1, <1>3, <1>4, <1>5 DEF Tells

\* The list of keys is opened on the page whatever is selected there.
LEMMA SelectionOpensHelp == SelectionSpec => H!Spec
<1>1. SelectionInit => H!Init
    BY DEF SelectionInit
<1>2. [SelectionNext]_<<watched, vars, explainVars, helpVars>> => [H!Next]_H!vars
    BY DEF SelectionNext, helpVars, H!vars
<1> QED BY <1>1, <1>2, PTL DEF SelectionSpec, H!Spec

\* On a terminal of any size the whole list of keys can be read, and where it is
\* cut off it says so.
THEOREM KeysAreInReach == SelectionSpec => EveryKeyInReach
<1>1. HelpInv /\ [H!Next]_H!vars =>
        [listWindow # H!NoWindow =>
            /\ listWindow.room < listWindow.rows =>
                 /\ listWindow.high >= 5 => listWindow.hint
                 /\ listWindow.width >= 80 => listWindow.high >= listWindow.height - 2
            /\ listWindow.hint => listBound > 0
            /\ H!FirstLine > 0 => H!FirstLine + listWindow.room <= listWindow.rows
            /\ H!Down /\ H!FirstLine + listWindow.room < listWindow.rows =>
                 H!FirstLine' = H!FirstLine + 1]_H!vars
    BY StepReaches
<1> QED BY <1>1, HelpInvariant, SelectionOpensHelp, PTL
        DEF H!Spec, EveryKeyInReach, H!EveryKeyInReach

-----------------------------------------------------------------------------
(* The window that tells of what is framed *)

\* What a draw finds out about the window holds until the next one.
WindowFits ==
    /\ window.rows \in Int /\ window.room \in Nat
    /\ bound = IF window.rows > window.room THEN window.rows - window.room ELSE 0
    /\ window.hint => window.rows > window.room

ScrollInv ==
    /\ scroll \in Nat /\ bound \in Nat
    /\ asked = X!NoTarget => window = X!NoWindow
    /\ window # X!NoWindow => WindowFits

\* Whatever there is to say, it is a number of lines.
LEMMA LinesAreNumbers == ASSUME NEW text PROVE X!Lines(text) \in Int
<1> DEFINE parts == {i \in 1..9 : text[i] \in Nat \ {0}}
<1>1. IsFiniteSet(parts) /\ Cardinality(parts) \in Nat
    <2>1. IsFiniteSet(1..9)
        <3>1. 1 \in Int /\ 9 \in Int
            OBVIOUS
        <3> QED BY <3>1, FS_Interval, Zenon
    <2> QED BY <2>1, FS_Subset, FS_CardinalityType
<1>2. SumFunctionOnSet(text, parts) \in Nat
    <2>1. \A i \in parts : text[i] \in Nat
        OBVIOUS
    <2> HIDE DEF parts
    <2> QED BY <1>1, <2>1, SumIsNat
<1>3. X!SumFunctionOnSet(text, parts) = SumFunctionOnSet(text, parts)
    <2> HIDE DEF parts
    <2> QED BY Unfold, Zenon
       DEF X!SumFunctionOnSet, X!FoldFunctionOnSet, X!MapThenFoldSet, Sums, Step, Some, Less1
<1>4. X!Cardinality(parts) = Cardinality(parts)
    BY DEF X!Cardinality, Cardinality
<1>5. X!Lines(text) = X!SumFunctionOnSet(text, parts) + 2 * X!Cardinality(parts) - 1
    BY DEF X!Lines
<1> HIDE DEF parts
<1> QED BY <1>1, <1>2, <1>3, <1>4, <1>5

\* A draw finds out how far the text, as it is now, can be scrolled.
LEMMA DrawFits ==
    ASSUME ScrollInv, X!Draw
    PROVE  ScrollInv'
<1>1. UNCHANGED <<scroll, asked>> /\ scroll \in Nat
    BY DEF X!Draw, ScrollInv
<1>2. CASE asked = X!NoTarget
    BY <1>1, <1>2 DEF X!Draw, ScrollInv, WindowFits
<1>3. CASE asked # X!NoTarget
    <2>1. PICK size \in Sizes, m \in Machines, extra \in Extra :
            /\ window' = X!WindowOf(Make[m], extra, size, regs')
            /\ bound' = X!BoundOf(window', size)
        BY <1>3 DEF X!Draw
    <2> DEFINE rows == X!Lines(X!About(asked, Make[m])) + extra
    <2>2. rows \in Int
        BY LinesAreNumbers, ExplainAssumption DEF X!WindowBounds
    <2>3. X!Inner(size) \in Nat
        BY ExplainAssumption DEF X!WindowBounds, X!Inner, X!WindowHeight, X!Larger, X!Smaller, X!Minus
    <2>4. /\ window'.rows = rows /\ window'.room = X!Room(size)
        BY <2>1 DEF X!WindowOf
    <2>9. window'.hint => X!Inner(size) >= 3 /\ rows > X!Minus(X!Inner(size), 1)
        <3>1. window'.hint = (X!Inner(size) >= 3 /\ rows > X!Minus(X!Inner(size), 1))
            BY <2>1, Zenon DEF X!WindowOf
        <3> QED BY <3>1, Zenon
    <2> HIDE DEF rows
    <2>5. X!Room(size) \in Nat
          /\ (X!Inner(size) >= 3 => X!Room(size) = X!Inner(size) - 2)
        BY <2>3 DEF X!Room
    <2>6. window'.hint => rows > X!Room(size)
        <3>1. X!Minus(X!Inner(size), 1) >= X!Inner(size) - 1
            BY <2>3 DEF X!Minus, X!Larger
        <3>2. X!Minus(X!Inner(size), 1) \in Int
            BY <2>3 DEF X!Minus, X!Larger
        <3> QED BY <2>2, <2>3, <2>5, <2>9, <3>1, <3>2
    <2>7. bound' = IF rows > X!Room(size) THEN rows - X!Room(size) ELSE 0
        BY <2>1, <2>2, <2>4, <2>5 DEF X!BoundOf, X!Minus, X!Larger
    <2>8. bound' \in Nat
        BY <2>2, <2>5, <2>7
    <2> QED BY <1>1, <1>3, <2>2, <2>4, <2>5, <2>6, <2>7, <2>8 DEF ScrollInv, WindowFits
<1> QED BY <1>2, <1>3

\* Every key and every draw.
LEMMA StepScroll == ScrollInv /\ [X!Next]_X!vars => ScrollInv'
<1> SUFFICES ASSUME ScrollInv, [X!Next]_X!vars PROVE ScrollInv'
    OBVIOUS
<1>1. ASSUME UNCHANGED <<scroll, asked, window, bound>> PROVE ScrollInv'
    BY <1>1 DEF ScrollInv, WindowFits
<1>2. CASE X!MoveFrame \/ X!OpenPage \/ UNCHANGED X!vars
    BY <1>1, <1>2 DEF X!MoveFrame, X!OpenPage, X!vars
<1>3. CASE X!Explain
    <2>1. window = X!NoWindow /\ UNCHANGED <<window, bound>> /\ scroll' = 0 /\ bound \in Nat
        BY <1>3 DEF X!Explain, ScrollInv
    <2> QED BY <2>1 DEF ScrollInv
<1>4. ASSUME NEW to \in Nat, X!Scroll(to) PROVE ScrollInv'
    BY <1>4 DEF X!Scroll, ScrollInv, WindowFits
<1>5. CASE X!Up \/ X!Down \/ X!PageUp \/ X!PageDown
    <2>1. \A a \in Nat, b \in Nat : X!Minus(a, b) \in Nat /\ X!Smaller(a, b) \in Nat
        BY DEF X!Minus, X!Smaller, X!Larger
    <2>2. /\ X!Minus(scroll, 1) \in Nat /\ X!Minus(scroll, 10) \in Nat
          /\ X!Smaller(scroll + 1, bound) \in Nat /\ X!Smaller(scroll + 10, bound) \in Nat
        <3>1. scroll \in Nat /\ bound \in Nat /\ scroll + 1 \in Nat /\ scroll + 10 \in Nat
            BY DEF ScrollInv
        <3> QED BY <2>1, <3>1
    <2> QED BY <1>4, <1>5, <2>2 DEF X!Up, X!Down, X!PageUp, X!PageDown
<1>6. CASE X!Close
    BY <1>6 DEF X!Close, ScrollInv
<1> QED BY <1>2, <1>3, <1>5, <1>6, DrawFits DEF X!Next

\* The first line that is shown, and the next one after Down.
LEMMA StepScrolls ==
    ScrollInv /\ window # X!NoWindow =>
        /\ window.hint => bound > 0
        /\ X!FirstLine > 0 => X!FirstLine + window.room <= window.rows
        /\ X!Down /\ X!FirstLine + window.room < window.rows => X!FirstLine' = X!FirstLine + 1
<1> SUFFICES ASSUME ScrollInv, window # X!NoWindow
             PROVE  /\ window.hint => bound > 0
                    /\ X!FirstLine > 0 => X!FirstLine + window.room <= window.rows
                    /\ X!Down /\ X!FirstLine + window.room < window.rows
                         => X!FirstLine' = X!FirstLine + 1
    OBVIOUS
<1>1. /\ WindowFits /\ scroll \in Nat /\ bound \in Nat
      /\ X!FirstLine = IF scroll < bound THEN scroll ELSE bound
    BY DEF ScrollInv, X!FirstLine, X!Smaller
<1>2. window.hint => bound > 0
    BY <1>1 DEF WindowFits
<1>3. X!FirstLine > 0 => X!FirstLine + window.room <= window.rows
    BY <1>1 DEF WindowFits
<1>4. ASSUME X!Down, X!FirstLine + window.room < window.rows
      PROVE  X!FirstLine' = X!FirstLine + 1
    <2>1. scroll < bound
        BY <1>1, <1>4 DEF WindowFits
    <2>2. bound' = bound /\ scroll' = IF scroll + 1 < bound THEN scroll + 1 ELSE bound
        BY <1>4 DEF X!Down, X!Scroll, X!Smaller
    <2>3. X!FirstLine' = IF scroll' < bound' THEN scroll' ELSE bound'
        BY DEF X!FirstLine, X!Smaller
    <2> QED BY <1>1, <2>1, <2>2, <2>3
<1> QED BY <1>2, <1>3, <1>4

LEMMA SelectionOpensWindow == SelectionSpec => X!Spec
<1>1. SelectionInit => X!Init
    BY DEF SelectionInit
<1>2. [SelectionNext]_<<watched, vars, explainVars, helpVars>> => [X!Next]_X!vars
    BY DEF SelectionNext, explainVars, X!vars
<1> QED BY <1>1, <1>2, PTL DEF SelectionSpec, X!Spec

\* Whatever there is to tell, and however it changes under the open window: the
\* hint offers to scroll where there is something to see, no emptiness is shown
\* below the last line, and Down brings the next one (explain's render,
\* scroll_explain).
THEOREM WindowScrolls == SelectionSpec => ScrollIsHonest
<1>1. X!Spec => []ScrollInv
    <2>1. X!Init => ScrollInv
        BY DEF X!Init, ScrollInv
    <2> QED BY <2>1, StepScroll, PTL DEF X!Spec
<1>2. ScrollInv /\ [X!Next]_X!vars =>
        [window # X!NoWindow =>
            /\ window.hint => bound > 0
            /\ X!FirstLine > 0 => X!FirstLine + window.room <= window.rows
            /\ X!Down /\ X!FirstLine + window.room < window.rows =>
                 X!FirstLine' = X!FirstLine + 1]_X!vars
    BY StepScrolls
<1> QED BY <1>1, <1>2, SelectionOpensWindow, PTL
        DEF X!Spec, ScrollIsHonest, X!ScrollIsHonest, X!OnScreen

-----------------------------------------------------------------------------
(* What is told of *)

\* Members of a sequence at some of its places are members of it.
LEMMA PickedIs ==
    ASSUME NEW s, NEW n \in Nat, DOMAIN s = 1..n, NEW P, P \subseteq 1..n
    PROVE  /\ Cardinality(P) \in Nat /\ DOMAIN X!Picked(s, P) = 1..Cardinality(P)
           /\ \A k \in 1..Cardinality(P) : X!Picked(s, P)[k] \in {s[j] : j \in P}
<1>1. IsFiniteSet(P) /\ Cardinality(P) \in Nat
    <2>1. IsFiniteSet(1..n)
        <3>1. 1 \in Int /\ n \in Int
            OBVIOUS
        <3> QED BY <3>1, FS_Interval, Zenon
    <2> QED BY <2>1, FS_Subset, FS_CardinalityType
<1> DEFINE rank(j) == X!Cardinality({i \in P : i < j}) + 1
<1>4. \A k \in 1..Cardinality(P) : \E j \in P : rank(j) = k
    <2>1. \A k \in 1..Cardinality(P) : \E j \in P : Cardinality({i \in P : i < j}) + 1 = k
        <3>1. P \subseteq Nat
            OBVIOUS
        <3> QED BY <1>1, <3>1, NumbersOnto, Zenon
    <2> QED BY <2>1 DEF Cardinality, X!Cardinality
<1>5. X!Picked(s, P) = [k \in 1..X!Cardinality(P) |-> s[CHOOSE j \in P : rank(j) = k]]
    BY DEF X!Picked
<1> Cardinality(P) = X!Cardinality(P)
    BY DEF Cardinality, X!Cardinality
<1>6. \A k \in 1..Cardinality(P) : X!Picked(s, P)[k] \in {s[j] : j \in P}
    <2> TAKE k \in 1..Cardinality(P)
    <2>1. (CHOOSE j \in P : rank(j) = k) \in P
        <3> HIDE DEF rank
        <3> QED BY <1>4
    <2> HIDE DEF rank
    <2> QED BY <1>5, <2>1
<1>7. DOMAIN X!Picked(s, P) = 1..Cardinality(P)
    <2> HIDE DEF rank
    <2> QED BY <1>5
<1> QED BY <1>1, <1>6, <1>7

Metrics == DOMAIN X!Articles

Tellable(t) == X!IsEntity(t) \/ \E id \in Metrics : t = X!Metric(id)

\* Lines, panels, pages and regions that tell of nothing else.
LinesTell(lines) ==
    /\ \E n \in Nat : DOMAIN lines = 1..n
    /\ \A i \in DOMAIN lines : lines[i].tells = X!NoTarget \/ Tellable(lines[i].tells)
PanelTells(p) == Tellable(p.tells) /\ LinesTell(p.lines)
PageTells(panels) ==
    /\ \E S : panels \in Seq(S)
    /\ \A i \in DOMAIN panels : PanelTells(panels[i])
RegionsTell(shown) ==
    /\ \E S : shown \in Seq(S)
    /\ \A i \in DOMAIN shown : Tellable(shown[i].tells)

\* A function on 1..n is a sequence.
LEMMA SeqOf ==
    ASSUME NEW s, NEW n \in Nat, s = [i \in 1..n |-> s[i]]
    PROVE  s \in Seq({s[i] : i \in 1..n}) /\ Len(s) = n
OBVIOUS

\* A panel that tells of something adds regions that do.
LEMMA AddTells ==
    ASSUME NEW shown, RegionsTell(shown), NEW p, PanelTells(p)
    PROVE  RegionsTell(X!AddPanel(shown, p))
<1>1. CASE X!Empty(p.rect)
    BY <1>1 DEF X!AddPanel
<1>2. CASE ~X!Empty(p.rect)
    <2> DEFINE places == {i \in DOMAIN p.lines :
                            ~X!Empty(p.lines[i].rect) /\ p.lines[i].tells # X!NoTarget}
               kept == X!Picked(p.lines, places)
               parent == Len(shown) + 1
               head == X!Region(p.rect, X!Root, p.list, X!NoIndex, X!NoTab, p.tells)
               row(i) == X!Region(kept[i].rect, parent, FALSE, X!NoIndex, X!NoTab, kept[i].tells)
               rows == [i \in DOMAIN kept |-> row(i)]
    <2>1. PICK S : shown \in Seq(S)
        BY DEF RegionsTell
    <2>2. PICK n \in Nat : DOMAIN p.lines = 1..n
        BY DEF PanelTells, LinesTell
    <2>3. places \subseteq 1..n
        BY <2>2
    <2>4. PICK c \in Nat : /\ DOMAIN kept = 1..c
                           /\ \A k \in 1..c : \E j \in places : kept[k] = p.lines[j]
        <3> HIDE DEF places
        <3> DEFINE lines == p.lines
        <3>1. DOMAIN lines = 1..n
            BY <2>2
        <3> HIDE DEF lines
        <3>2. /\ Cardinality(places) \in Nat /\ DOMAIN X!Picked(lines, places) = 1..Cardinality(places)
              /\ \A k \in 1..Cardinality(places) : X!Picked(lines, places)[k] \in {lines[j] : j \in places}
            BY <2>3, <3>1, PickedIs
        <3> QED BY <3>2 DEF lines
    <2>5. \A k \in 1..c : Tellable(kept[k].tells)
        <3> TAKE k \in 1..c
        <3>1. PICK j \in places : kept[k] = p.lines[j]
            BY <2>4
        <3>2. j \in DOMAIN p.lines /\ p.lines[j].tells # X!NoTarget
            OBVIOUS
        <3> QED BY <3>1, <3>2 DEF PanelTells, LinesTell
    <2> HIDE DEF kept, places
    <2> DEFINE T == S \cup {head} \cup {row(i) : i \in 1..c}
    <2>6. shown \in Seq(T) /\ head \in T
        <3> HIDE DEF head, row
        <3> QED BY <2>1
    <2>7. rows \in Seq(T) /\ DOMAIN rows = 1..c /\ Len(rows) = c
        <3>1. rows = [i \in 1..c |-> row(i)]
            BY <2>4
        <3>2. \A i \in 1..c : row(i) \in T
            OBVIOUS
        <3> HIDE DEF row, T
        <3> QED BY <3>1, <3>2
    <2>8. X!AddPanel(shown, p) = Append(shown, head) \o rows
        BY <1>2 DEF X!AddPanel, kept, places
    <2>9. head.tells = p.tells /\ \A i \in 1..c : row(i).tells = kept[i].tells
        BY DEF X!Region
    <2>10. \A i \in 1..c : rows[i] = row(i)
        BY <2>4
    <2> HIDE DEF head, row, rows, T
    <2>11. /\ Append(shown, head) \in Seq(T)
           /\ Len(Append(shown, head)) = Len(shown) + 1
           /\ \A i \in 1..Len(shown) : Append(shown, head)[i] = shown[i]
           /\ Append(shown, head)[Len(shown) + 1] = head
        BY <2>6, AppendProperties
    <2> DEFINE first == Append(shown, head)
               all == first \o rows
    <2>12. /\ all \in Seq(T) /\ Len(all) = Len(first) + Len(rows)
           /\ \A i \in 1..(Len(first) + Len(rows)) :
                all[i] = IF i <= Len(first) THEN first[i] ELSE rows[i - Len(first)]
        <3> HIDE DEF first
        <3> QED BY <2>7, <2>11, ConcatProperties DEF first
    <2> HIDE DEF all, first
    <2>13. Len(shown) \in Nat /\ DOMAIN all = 1..(Len(shown) + 1 + c)
           /\ DOMAIN shown = 1..Len(shown)
        BY <2>1, <2>7, <2>11, <2>12 DEF first
    <2>14. ASSUME NEW i \in DOMAIN all PROVE Tellable(all[i].tells)
        <3>1. CASE i <= Len(shown)
            <4>1. all[i] = shown[i] /\ i \in DOMAIN shown
                BY <2>7, <2>11, <2>12, <2>13, <3>1 DEF first
            <4> QED BY <4>1 DEF RegionsTell
        <3>2. CASE i = Len(shown) + 1
            <4>1. all[i] = head
                BY <2>7, <2>11, <2>12, <2>13, <3>2 DEF first
            <4> QED BY <4>1, <2>9 DEF PanelTells
        <3>3. CASE i > Len(shown) + 1
            <4>1. all[i] = rows[i - (Len(shown) + 1)] /\ i - (Len(shown) + 1) \in 1..c
                BY <2>7, <2>11, <2>12, <2>13, <3>3 DEF first
            <4>2. PICK k \in 1..c : all[i] = rows[k]
                BY <4>1
            <4> QED BY <4>2, <2>5, <2>9, <2>10
        <3> QED BY <2>13, <3>1, <3>2, <3>3
    <2> QED BY <2>8, <2>12, <2>14 DEF RegionsTell, all, first
<1> QED BY <1>1, <1>2

\* The registers after each of the panels.
Registered(panels, g, n) == IF n = 0 THEN <<>> ELSE X!AddPanel(g[n - 1], panels[n])
Firsts(panels) == CHOOSE g : g = [n \in 0..Len(panels) |-> Registered(panels, g, n)]

\* They exist: the least length for which they did not would have a shorter one.
LEMMA FirstsExist ==
    ASSUME NEW panels, Len(panels) \in Nat
    PROVE  Firsts(panels) = [n \in 0..Len(panels) |-> Registered(panels, Firsts(panels), n)]
<1> DEFINE Bad == {n \in Nat : ~\E g : g = [k \in 0..n |-> Registered(panels, g, k)]}
<1>1. ASSUME NEW n \in Bad, \A m \in Bad : n <= m PROVE FALSE
    <2>1. \E g : n = 0 \/ g = [k \in 0..(n - 1) |-> Registered(panels, g, k)]
        <3>1. CASE n = 0
            BY <3>1
        <3>2. CASE n # 0
            <4>1. n - 1 \in Nat /\ ~(n <= n - 1)
                BY <3>2
            <4>2. n - 1 \notin Bad
                BY <1>1, <4>1
            <4> QED BY <4>1, <4>2
        <3> QED BY <3>1, <3>2
    <2>2. PICK g : n = 0 \/ g = [k \in 0..(n - 1) |-> Registered(panels, g, k)]
        BY <2>1
    <2> DEFINE h == [k \in 0..n |-> Registered(panels, g, k)]
    <2>3. ASSUME NEW k \in 0..n PROVE Registered(panels, g, k) = Registered(panels, h, k)
        <3>1. CASE k = 0
            BY <3>1 DEF Registered
        <3>2. CASE k # 0
            <4>1. k - 1 \in 0..(n - 1) /\ k - 1 \in 0..n /\ n # 0
                BY <3>2
            <4>2. g[k - 1] = Registered(panels, g, k - 1)
                BY <2>2, <4>1, Zenon
            <4>3. h[k - 1] = Registered(panels, g, k - 1)
                BY <4>1, Zenon
            <4> QED BY <3>2, <4>2, <4>3 DEF Registered
        <3> QED BY <3>1, <3>2
    <2>4. h = [k \in 0..n |-> Registered(panels, h, k)]
        BY <2>3, Zenon
    <2> QED BY <1>1, <2>4, Zenon
<1>2. Bad = {}
    <2>1. Bad \subseteq Nat
        OBVIOUS
    <2> HIDE DEF Bad
    <2> QED BY <1>1, <2>1, SmallestNumber, Zenon
<1>3. \E g : g = [n \in 0..Len(panels) |-> Registered(panels, g, n)]
    BY <1>2, Zenon
<1> QED BY <1>3, Zenon DEF Firsts

\* A page whose panels tell of something registers regions that do.
LEMMA RegisterTells ==
    ASSUME NEW panels, PageTells(panels)
    PROVE  RegionsTell(X!Register(panels))
<1> DEFINE first == Firsts(panels)
           Bad == {n \in 0..Len(panels) : ~RegionsTell(first[n])}
<1>1. Len(panels) \in Nat /\ DOMAIN panels = 1..Len(panels)
    BY DEF PageTells
<1>2. \A n \in 0..Len(panels) : first[n] = Registered(panels, first, n)
    <2>1. first = [n \in 0..Len(panels) |-> Registered(panels, first, n)]
        BY <1>1, FirstsExist
    <2> HIDE DEF first
    <2> QED BY <2>1
<1>3. X!Register(panels) = first[Len(panels)]
    BY DEF X!Register, Firsts, Registered
<1> HIDE DEF first
<1>4. ASSUME NEW n \in Bad, \A m \in Bad : n <= m PROVE FALSE
    <2>1. CASE n = 0
        <3>1. first[n] = <<>>
            BY <1>2, <2>1 DEF Registered
        <3>2. RegionsTell(<<>>)
            BY DEF RegionsTell
        <3> QED BY <3>1, <3>2
    <2>2. CASE n # 0
        <3>1. n - 1 \in 0..Len(panels) /\ n \in DOMAIN panels /\ ~(n <= n - 1)
            BY <1>1, <2>2
        <3>2. RegionsTell(first[n - 1])
            BY <1>4, <3>1
        <3>3. PanelTells(panels[n])
            BY <3>1 DEF PageTells
        <3>4. first[n] = X!AddPanel(first[n - 1], panels[n])
            BY <1>2, <2>2 DEF Registered
        <3>5. RegionsTell(first[n])
            BY <3>2, <3>3, <3>4, AddTells
        <3> QED BY <3>5
    <2> QED BY <2>1, <2>2
<1>5. Bad = {}
    <2>1. Bad \subseteq Nat
        BY <1>1
    <2> HIDE DEF Bad
    <2> QED BY <1>4, <2>1, SmallestNumber, Zenon
<1> QED BY <1>1, <1>3, <1>5

\* The metrics that pages name are in the knowledge.
ShownMetrics ==
    {"sys.highlights", "sys.uptime", "cpu.usage", "cpu.model", "cpu.logical", "cpu.freq",
     "cpu.temp", "cpu.load", "cpu.load_per_core", "cpu.iowait", "cpu.steal", "cpu.ctxt",
     "cpu.intr", "cpu.forks", "cpu.running_blocked", "cgroup.cpu", "mem.used", "mem.swap",
     "mem.cached", "mem.available", "gpu.util", "gpu.temp", "gpu.power", "gpu.clock",
     "gpu.fan", "gpu.pstate", "gpu.pcie", "gpu.intel_util", "gpu.process", "disk.usage",
     "disk.throughput", "disk.iops", "disk.util", "net.throughput", "net.errors", "net.mac",
     "net.ip", "net.sockets", "proc.cpu", "proc.rss", "storage.user"}

\* lookup finds each of them.
LEMMA ShownAreKnown == ShownMetrics \subseteq Metrics
<1>1. Metrics = UNION {DOMAIN X!Tables[i] : i \in DOMAIN X!Tables}
    BY DEF Metrics, X!Articles
<1>2. /\ DOMAIN X!Tables = 1..10
      /\ X!Tables[1] = X!CgroupArticles /\ X!Tables[2] = X!CpuArticles
      /\ X!Tables[3] = X!MoreCpuArticles /\ X!Tables[4] = X!MemoryArticles
      /\ X!Tables[5] = X!DiskArticles /\ X!Tables[6] = X!GpuArticles
      /\ X!Tables[7] = X!NetworkArticles /\ X!Tables[8] = X!ProcessArticles
      /\ X!Tables[9] = X!StorageArticle /\ X!Tables[10] = X!SystemArticles
    BY DEF X!Tables
<1>3. Metrics = DOMAIN X!CgroupArticles \cup DOMAIN X!CpuArticles \cup DOMAIN X!MoreCpuArticles
                  \cup DOMAIN X!MemoryArticles \cup DOMAIN X!DiskArticles
                  \cup DOMAIN X!GpuArticles \cup DOMAIN X!NetworkArticles
                  \cup DOMAIN X!ProcessArticles \cup DOMAIN X!StorageArticle
                  \cup DOMAIN X!SystemArticles
    BY <1>1, <1>2
<1>4. /\ DOMAIN X!CgroupArticles = {"cgroup.cpu", "cgroup.memory"}
      /\ DOMAIN X!CpuArticles = {"cpu.ctxt", "cpu.forks", "cpu.freq", "cpu.intr", "cpu.iowait",
                                 "cpu.load", "cpu.load_per_core"}
      /\ DOMAIN X!MoreCpuArticles = {"cpu.logical", "cpu.model", "cpu.running_blocked",
                                     "cpu.steal", "cpu.temp", "cpu.usage"}
      /\ DOMAIN X!MemoryArticles = {"mem.available", "mem.cached", "mem.swap", "mem.used"}
      /\ DOMAIN X!DiskArticles = {"disk.inodes", "disk.iops", "disk.throughput", "disk.usage",
                                  "disk.util"}
      /\ DOMAIN X!GpuArticles = {"gpu.clock", "gpu.fan", "gpu.intel_util", "gpu.pcie",
                                 "gpu.power", "gpu.process", "gpu.pstate", "gpu.temp",
                                 "gpu.util", "gpu.vram"}
      /\ DOMAIN X!NetworkArticles = {"net.errors", "net.ip", "net.mac", "net.sockets",
                                     "net.throughput"}
      /\ DOMAIN X!ProcessArticles = {"proc.count", "proc.cpu", "proc.rss", "proc.state",
                                     "proc.threads", "proc.virt"}
      /\ DOMAIN X!StorageArticle = {"storage.user"}
      /\ DOMAIN X!SystemArticles = {"sys.highlights", "sys.uptime"}
    BY DEF X!CgroupArticles, X!CpuArticles, X!MoreCpuArticles, X!MemoryArticles, X!DiskArticles,
           X!GpuArticles, X!NetworkArticles, X!ProcessArticles, X!StorageArticle, X!SystemArticles
<1> QED BY <1>3, <1>4 DEF ShownMetrics

\* A metric tells; so does a thing of one of the kinds there are.
LEMMA MetricTells == ASSUME NEW id \in ShownMetrics PROVE Tellable(X!Metric(id))
BY ShownAreKnown DEF Tellable

LEMMA ThingTells ==
    ASSUME NEW kind \in X!Entities, NEW name, NEW nr
    PROVE  Tellable(X!Thing(kind, name, nr))
BY DEF Tellable, X!IsEntity, X!Thing

LEMMA PlainTells ==
    ASSUME NEW rect, NEW id \in ShownMetrics
    PROVE  PanelTells(X!Plain(rect, id))
<1>1. X!Plain(rect, id).tells = X!Metric(id) /\ X!Plain(rect, id).lines = <<>>
    BY DEF X!Plain, X!Panel
<1>2. LinesTell(<<>>)
    BY DEF LinesTell
<1> QED BY <1>1, <1>2, MetricTells DEF PanelTells

\* The keys of a panel, those without a reading left out.
KeysTell(keys) ==
    /\ \E n \in Nat : DOMAIN keys = 1..n
    /\ \A i \in DOMAIN keys : keys[i] = X!NoTarget \/ Tellable(keys[i])

LEMMA MetricKeysTell ==
    ASSUME NEW ids, NEW n \in Nat, DOMAIN ids = 1..n,
           \A i \in 1..n : ids[i] \in ShownMetrics, NEW unread
    PROVE  KeysTell(X!MetricKeys(ids, unread))
<1> DEFINE keys == X!MetricKeys(ids, unread)
<1>1. keys = [i \in 1..n |-> IF ids[i] \in unread THEN X!NoTarget ELSE X!Metric(ids[i])]
    BY DEF X!MetricKeys
<1>2. \A i \in 1..n : Tellable(X!Metric(ids[i]))
    BY MetricTells
<1> HIDE DEF keys
<1>3. DOMAIN keys = 1..n /\ \A i \in 1..n : keys[i] = X!NoTarget \/ keys[i] = X!Metric(ids[i])
    BY <1>1
<1>4. KeysTell(keys)
    BY <1>2, <1>3 DEF KeysTell
<1> QED BY <1>4 DEF keys

LEMMA KeyLinesTell ==
    ASSUME NEW keys, KeysTell(keys), NEW r
    PROVE  LinesTell(X!KeyLines(r, keys))
<1>1. X!KeyLines(r, keys) =
        [i \in DOMAIN keys |-> X!Cell(X!Where(i <= r.h, X!Line(r, i - 1)), keys[i])]
    BY DEF X!KeyLines
<1>2. ASSUME NEW i \in DOMAIN keys PROVE X!KeyLines(r, keys)[i].tells = keys[i]
    BY <1>1 DEF X!Cell
<1>3. DOMAIN X!KeyLines(r, keys) = DOMAIN keys
    BY <1>1
<1> QED BY <1>2, <1>3 DEF KeysTell, LinesTell

\* A panel from what it tells of and its lines.
LEMMA PanelOf ==
    ASSUME NEW rect, NEW list, NEW tells, Tellable(tells), NEW lines, LinesTell(lines)
    PROVE  PanelTells(X!Panel(rect, list, tells, lines))
BY DEF PanelTells, X!Panel

\* Pages from panels.
LEMMA PageOf ==
    ASSUME NEW f, NEW n \in Nat, DOMAIN f = 1..n, f = [i \in 1..n |-> f[i]],
           \A i \in 1..n : PanelTells(f[i])
    PROVE  PageTells(f)
<1>1. f \in Seq({f[i] : i \in 1..n})
    BY SeqOf
<1> QED BY <1>1 DEF PageTells

LEMMA SingleTells ==
    ASSUME NEW p, PanelTells(p)
    PROVE  PageTells(<<p>>)
<1>1. DOMAIN <<p>> = 1..1 /\ <<p>>[1] = p /\ <<p>> = [i \in 1..1 |-> <<p>>[i]]
    OBVIOUS
<1> QED BY <1>1, PageOf

LEMMA JoinedTell ==
    ASSUME NEW a, NEW b, PageTells(a), PageTells(b)
    PROVE  PageTells(a \o b)
<1>1. PICK S : a \in Seq(S)
    BY DEF PageTells
<1>2. PICK T : b \in Seq(T)
    BY DEF PageTells
<1> DEFINE U == S \cup T
<1>3. a \in Seq(U) /\ b \in Seq(U)
    BY <1>1, <1>2
<1> HIDE DEF U
<1>4. /\ a \o b \in Seq(U) /\ Len(a \o b) = Len(a) + Len(b)
      /\ \A i \in 1..(Len(a) + Len(b)) :
            (a \o b)[i] = IF i <= Len(a) THEN a[i] ELSE b[i - Len(a)]
    BY <1>3, ConcatProperties
<1>5. /\ Len(a) \in Nat /\ DOMAIN a = 1..Len(a)
      /\ Len(b) \in Nat /\ DOMAIN b = 1..Len(b)
      /\ DOMAIN (a \o b) = 1..(Len(a) + Len(b))
    BY <1>3, <1>4
<1>6. ASSUME NEW i \in DOMAIN (a \o b) PROVE PanelTells((a \o b)[i])
    <2>1. CASE i <= Len(a)
        <3>1. (a \o b)[i] = a[i] /\ i \in DOMAIN a
            BY <1>4, <1>5, <2>1
        <3> QED BY <3>1 DEF PageTells
    <2>2. CASE ~(i <= Len(a))
        <3>1. (a \o b)[i] = b[i - Len(a)] /\ i - Len(a) \in DOMAIN b
            BY <1>4, <1>5, <2>2
        <3> QED BY <3>1 DEF PageTells
    <2> QED BY <2>1, <2>2
<1> QED BY <1>4, <1>6 DEF PageTells

LEMMA PlainsTell ==
    ASSUME NEW rects, NEW ids, NEW n \in Nat, DOMAIN ids = 1..n,
           \A i \in 1..n : ids[i] \in ShownMetrics
    PROVE  PageTells(X!Plains(rects, ids))
<1>1. X!Plains(rects, ids) = [i \in 1..n |-> X!Plain(rects[i], ids[i])]
    BY DEF X!Plains
<1>2. \A i \in 1..n : PanelTells(X!Plain(rects[i], ids[i]))
    BY PlainTells
<1> DEFINE f == X!Plains(rects, ids)
<1> HIDE DEF f
<1>3. f = [i \in 1..n |-> X!Plain(rects[i], ids[i])]
    BY <1>1 DEF f
<1>4. DOMAIN f = 1..n /\ f = [i \in 1..n |-> f[i]] /\ \A i \in 1..n : PanelTells(f[i])
    BY <1>2, <1>3
<1>5. PageTells(f)
    BY <1>4, PageOf
<1> QED BY <1>5 DEF f

LEMMA ListIsFinite == ASSUME NEW s, X!IsList(s) PROVE Len(s) \in Nat /\ DOMAIN s = 1..Len(s)
BY DEF X!IsList

LEMMA OverviewTells ==
    ASSUME NEW a, NEW m, X!IsMachine(m)
    PROVE  PageTells(X!OverviewPage(a, m))
<1>1. PageTells(X!Strip(a, m))
    <2>0. PICK rect : X!Strip(a, m) = <<X!Panel(rect, TRUE, X!Metric("sys.highlights"),
                                                 X!HighlightLines(rect, m.highlights))>>
        BY Zenon DEF X!Strip
    <2> DEFINE lines == X!HighlightLines(rect, m.highlights)
    <2>1. Len(m.highlights) \in Nat /\ DOMAIN m.highlights = 1..Len(m.highlights)
        BY ListIsFinite DEF X!IsMachine
    <2>2. DOMAIN lines = DOMAIN m.highlights
        BY DEF X!HighlightLines
    <2>3. ASSUME NEW i \in DOMAIN m.highlights PROVE lines[i].tells = m.highlights[i].tells
        BY DEF X!HighlightLines, X!Cell
    <2>4. ASSUME NEW i \in DOMAIN m.highlights PROVE Tellable(m.highlights[i].tells)
        <3>1. "sys.highlights" \in ShownMetrics
            BY DEF ShownMetrics
        <3>2. Tellable(X!Metric("sys.highlights"))
            BY <3>1, MetricTells
        <3> QED BY <3>2 DEF X!IsMachine, Tellable
    <2> HIDE DEF lines
    <2>5. LinesTell(lines)
        BY <2>1, <2>2, <2>3, <2>4 DEF LinesTell
    <2>6. Tellable(X!Metric("sys.highlights"))
        <3>1. "sys.highlights" \in ShownMetrics
            BY DEF ShownMetrics
        <3> QED BY <3>1, MetricTells
    <2>7. PanelTells(X!Panel(rect, TRUE, X!Metric("sys.highlights"), lines))
        BY <2>5, <2>6, PanelOf
    <2>8. X!Strip(a, m) = <<X!Panel(rect, TRUE, X!Metric("sys.highlights"), lines)>>
        BY <2>0 DEF lines
    <2> QED BY <2>7, <2>8, SingleTells
<1>2. \A rects : PageTells(X!Plains(rects, X!Summaries))
    <2>1. DOMAIN X!Summaries = 1..6 /\ \A i \in 1..6 : X!Summaries[i] \in ShownMetrics
        BY DEF X!Summaries, ShownMetrics
    <2> QED BY <2>1, PlainsTell
<1>3. \A rects : PageTells(X!Plains(rects, <<"cpu.usage", "mem.used", "gpu.util", "proc.cpu">>))
    <2> DEFINE ids == <<"cpu.usage", "mem.used", "gpu.util", "proc.cpu">>
    <2>1. DOMAIN ids = 1..4 /\ \A i \in 1..4 : ids[i] \in ShownMetrics
        BY DEF ShownMetrics
    <2> HIDE DEF ids
    <2>2. \A rects : PageTells(X!Plains(rects, ids))
        BY <2>1, PlainsTell
    <2> QED BY <2>2 DEF ids
<1>4. PageTells(<<>>)
    BY DEF PageTells
<1>5. X!Density(a) \in {"too small", "wide", "tall", "compact"}
    BY DEF X!Density
<1>6. \A rects : PageTells(X!Plains(rects, X!Summaries) \o X!Strip(a, m))
    BY <1>1, <1>2, JoinedTell
<1>7. CASE X!Density(a) = "wide"
    BY <1>6, <1>7, Zenon DEF X!OverviewPage
<1>8. CASE X!Density(a) = "tall"
    BY <1>6, <1>8, Zenon DEF X!OverviewPage
<1>9. CASE X!Density(a) = "compact"
    BY <1>3, <1>9, Zenon DEF X!OverviewPage
<1>10. CASE X!Density(a) = "too small"
    BY <1>4, <1>10, Zenon DEF X!OverviewPage
<1> QED BY <1>5, <1>7, <1>8, <1>9, <1>10

\* Lines that tell of one core each.
LEMMA CoresOf ==
    ASSUME NEW f, NEW n \in Nat, DOMAIN f = 1..n, \A i \in 1..n : f[i].tells = X!Core(i)
    PROVE  LinesTell(f)
<1>1. \A i : Tellable(X!Core(i))
    <2>1. "core" \in X!Entities
        BY DEF X!Entities
    <2> QED BY <2>1, ThingTells DEF X!Core
<1> QED BY <1>1 DEF LinesTell

LEMMA NoLines == LinesTell(<<>>)
BY DEF LinesTell

LEMMA CoresTell ==
    ASSUME NEW r, NEW m, X!IsMachine(m)
    PROVE  LinesTell(X!CoreLines(r, m))
<1>1. m.cores \in Nat
    BY DEF X!IsMachine
<1>2. LinesTell(X!HeatmapCells(r, m.cores))
    <2> DEFINE f == X!HeatmapCells(r, m.cores)
               n == IF r.w < 12 THEN 0 ELSE m.cores
    <2>1. n \in Nat
        BY <1>1
    <2>2. DOMAIN f = 1..n
        BY DEF X!HeatmapCells
    <2>3. \A i \in 1..n : f[i].tells = X!Core(i)
        BY DEF X!HeatmapCells, X!Cell
    <2> HIDE DEF f, n
    <2>4. LinesTell(f)
        BY <2>1, <2>2, <2>3, CoresOf
    <2> QED BY <2>4 DEF f
<1>3. LinesTell(X!CoreBars(r, m.cores))
    <2> DEFINE f == X!CoreBars(r, m.cores)
    <2>1. DOMAIN f = 1..m.cores
        BY DEF X!CoreBars
    <2>2. \A i \in 1..m.cores : f[i].tells = X!Core(i)
        BY DEF X!CoreBars, X!Cell
    <2> HIDE DEF f
    <2>3. LinesTell(f)
        BY <1>1, <2>1, <2>2, CoresOf
    <2> QED BY <2>3 DEF f
<1> QED BY <1>2, <1>3, NoLines, Zenon DEF X!CoreLines

\* Those that panels are about.
LEMMA SomeShown ==
    /\ "sys.highlights" \in ShownMetrics /\ "cpu.freq" \in ShownMetrics
    /\ "cpu.load" \in ShownMetrics /\ "gpu.util" \in ShownMetrics
    /\ "disk.usage" \in ShownMetrics /\ "net.sockets" \in ShownMetrics
    /\ "net.ip" \in ShownMetrics /\ "proc.cpu" \in ShownMetrics
    /\ "cpu.usage" \in ShownMetrics /\ "net.throughput" \in ShownMetrics
BY DEF ShownMetrics

LEMMA StatisticsTell ==
    ASSUME NEW m
    PROVE  KeysTell(X!CoreStatistics(m))
<1> DEFINE base == <<"cpu.model", "cpu.logical", "cpu.freq", "cpu.temp", "cpu.load",
                     "cpu.load_per_core", "cpu.iowait", "cpu.steal", "cpu.ctxt", "cpu.intr",
                     "cpu.forks", "cpu.running_blocked", "sys.uptime">>
           more == IF m.limited THEN <<"cgroup.cpu">> ELSE <<>>
           ids == base \o more
<1>1. base \in Seq(ShownMetrics) /\ more \in Seq(ShownMetrics)
    <2>1. base \in Seq(ShownMetrics)
        BY DEF ShownMetrics
    <2>2. "cgroup.cpu" \in ShownMetrics
        BY DEF ShownMetrics
    <2> HIDE DEF base
    <2> QED BY <2>1, <2>2
<1> HIDE DEF base, more
<1>2. ids \in Seq(ShownMetrics)
    BY <1>1
<1>3. X!CoreStatistics(m) = X!MetricKeys(ids, m.unread)
    BY DEF X!CoreStatistics, base, more
<1> HIDE DEF ids
<1>4. Len(ids) \in Nat /\ DOMAIN ids = 1..Len(ids) /\ \A i \in 1..Len(ids) : ids[i] \in ShownMetrics
    BY <1>2
<1> QED BY <1>3, <1>4, MetricKeysTell

LEMMA CpuTells ==
    ASSUME NEW a, NEW m, X!IsMachine(m)
    PROVE  PageTells(X!CpuPage(a, m))
<1>1. PICK graph, half, stats, consumers :
        X!CpuPage(a, m) =
          <<X!Plain(graph, "cpu.usage"),
            X!Panel(half, FALSE, X!Metric("cpu.freq"), X!CoreLines(X!Content(half), m)),
            X!Panel(stats, FALSE, X!Metric("cpu.load"),
                    X!KeyLines(X!Content(stats), X!CoreStatistics(m))),
            X!Plain(consumers, "proc.cpu")>>
    BY Zenon DEF X!CpuPage
<1> DEFINE p == X!Plain(graph, "cpu.usage")
           q == X!Panel(half, FALSE, X!Metric("cpu.freq"), X!CoreLines(X!Content(half), m))
           r == X!Panel(stats, FALSE, X!Metric("cpu.load"),
                        X!KeyLines(X!Content(stats), X!CoreStatistics(m)))
           s == X!Plain(consumers, "proc.cpu")
           f == <<p, q, r, s>>
<1>2. PanelTells(p) /\ PanelTells(s)
    BY SomeShown, PlainTells
<1>3. PanelTells(q)
    <2>1. LinesTell(X!CoreLines(X!Content(half), m))
        BY CoresTell
    <2>2. Tellable(X!Metric("cpu.freq"))
        BY SomeShown, MetricTells
    <2> QED BY <2>1, <2>2, PanelOf
<1>4. PanelTells(r)
    <2>1. LinesTell(X!KeyLines(X!Content(stats), X!CoreStatistics(m)))
        BY StatisticsTell, KeyLinesTell
    <2>2. Tellable(X!Metric("cpu.load"))
        BY SomeShown, MetricTells
    <2> QED BY <2>1, <2>2, PanelOf
<1> HIDE DEF p, q, r, s
<1>5. DOMAIN f = 1..4 /\ f[1] = p /\ f[2] = q /\ f[3] = r /\ f[4] = s /\ f = [i \in 1..4 |-> f[i]]
    OBVIOUS
<1> HIDE DEF f
<1>6. \A i \in 1..4 : PanelTells(f[i])
    BY <1>2, <1>3, <1>4, <1>5
<1>7. PageTells(f)
    BY <1>5, <1>6, PageOf
<1>8. X!CpuPage(a, m) = f
    BY <1>1 DEF f, p, q, r, s
<1> QED BY <1>7, <1>8

LEMMA MemoryTells ==
    ASSUME NEW a
    PROVE  PageTells(X!MemoryPage(a))
<1> DEFINE ids == <<"mem.used", "mem.swap", "mem.cached", "mem.available", "proc.rss">>
<1>1. PICK rects : X!MemoryPage(a) = X!Plains(rects, ids)
    BY Zenon DEF X!MemoryPage
<1>2. DOMAIN ids = 1..5 /\ \A i \in 1..5 : ids[i] \in ShownMetrics
    BY DEF ShownMetrics
<1> HIDE DEF ids
<1>3. PageTells(X!Plains(rects, ids))
    BY <1>2, PlainsTell
<1> QED BY <1>1, <1>3

\* Panels with a panel of its own for each thing of a list.
LEMMA PanelsOfList ==
    ASSUME NEW list, X!IsList(list), NEW f, DOMAIN f = DOMAIN list, f = [i \in DOMAIN list |-> f[i]],
           \A i \in DOMAIN list : PanelTells(f[i])
    PROVE  PageTells(f)
<1>1. Len(list) \in Nat /\ DOMAIN list = 1..Len(list)
    BY ListIsFinite
<1> QED BY <1>1, PageOf

LEMMA CardKeysTell ==
    ASSUME NEW card
    PROVE  KeysTell(X!CardKeys(card))
<1> DEFINE lines == << <<"temp", "gpu.temp">>, <<"power", "gpu.power">>, <<"clock", "gpu.clock">>,
                    <<"range", "gpu.clock">>, <<"memory clock", "gpu.clock">>, <<"fan", "gpu.fan">>,
                    <<"pstate", "gpu.pstate">>, <<"pcie", "gpu.pcie">>,
                    <<"estimated", "gpu.intel_util">> >>
           places == {i \in DOMAIN lines : lines[i][1] \in card.has}
           had == X!Picked(lines, places)
           ids == [i \in DOMAIN had |-> had[i][2]] \o <<"gpu.process">>
<1>1. X!CardKeys(card) = X!MetricKeys(ids, {})
    BY DEF X!CardKeys
<1>2. DOMAIN lines = 1..9
    OBVIOUS
<1>3. \A i \in 1..9 : lines[i][2] \in ShownMetrics
    <2>1. /\ lines[1][2] = "gpu.temp" /\ lines[2][2] = "gpu.power" /\ lines[3][2] = "gpu.clock"
          /\ lines[4][2] = "gpu.clock" /\ lines[5][2] = "gpu.clock" /\ lines[6][2] = "gpu.fan"
          /\ lines[7][2] = "gpu.pstate" /\ lines[8][2] = "gpu.pcie"
          /\ lines[9][2] = "gpu.intel_util"
        OBVIOUS
    <2> HIDE DEF lines
    <2> QED BY <2>1 DEF ShownMetrics
<1> HIDE DEF lines
<1>4. places \subseteq 1..9
    BY <1>2
<1> HIDE DEF places
<1>5. /\ Cardinality(places) \in Nat /\ DOMAIN had = 1..Cardinality(places)
      /\ \A k \in 1..Cardinality(places) : had[k] \in {lines[j] : j \in places}
    BY <1>2, <1>4, PickedIs
<1> HIDE DEF had
<1> DEFINE first == [i \in DOMAIN had |-> had[i][2]]
<1>6. \A k \in 1..Cardinality(places) : had[k][2] \in ShownMetrics
    <2> TAKE k \in 1..Cardinality(places)
    <2>1. PICK j \in places : had[k] = lines[j]
        BY <1>5
    <2> QED BY <1>3, <1>4, <2>1
<1>7. first \in Seq(ShownMetrics)
    BY <1>5, <1>6
<1>8. "gpu.process" \in ShownMetrics
    BY DEF ShownMetrics
<1> HIDE DEF first
<1>9. ids \in Seq(ShownMetrics)
    <2>1. <<"gpu.process">> \in Seq(ShownMetrics)
        BY <1>8
    <2>2. first \o <<"gpu.process">> \in Seq(ShownMetrics)
        BY <1>7, <2>1
    <2> QED BY <2>2 DEF first
<1> HIDE DEF ids
<1>10. Len(ids) \in Nat /\ DOMAIN ids = 1..Len(ids) /\ \A i \in 1..Len(ids) : ids[i] \in ShownMetrics
    BY <1>9
<1> QED BY <1>1, <1>10, MetricKeysTell

LEMMA CardsTell ==
    ASSUME NEW r, NEW cards, X!IsList(cards)
    PROVE  PageTells(X!Cards(r, cards))
<1> DEFINE f == X!Cards(r, cards)
<1>1. DOMAIN f = DOMAIN cards /\ f = [i \in DOMAIN cards |-> f[i]]
    BY DEF X!Cards
<1>2. ASSUME NEW i \in DOMAIN cards PROVE PanelTells(f[i])
    <2>1. PICK rect, within : f[i] = X!Panel(rect, FALSE, X!Named("gpu", cards[i].name),
                                             X!CardLines(within, cards[i]))
        BY Zenon DEF X!Cards
    <2>2. Tellable(X!Named("gpu", cards[i].name))
        <3>1. "gpu" \in X!Entities
            BY DEF X!Entities
        <3> QED BY <3>1, ThingTells DEF X!Named
    <2>3. LinesTell(X!CardLines(within, cards[i]))
        <3>1. PICK s : X!CardLines(within, cards[i]) = X!KeyLines(s, X!CardKeys(cards[i]))
            BY Zenon DEF X!CardLines
        <3> QED BY <3>1, CardKeysTell, KeyLinesTell
    <2> QED BY <2>1, <2>2, <2>3, PanelOf
<1> HIDE DEF f
<1>3. PageTells(f)
    BY <1>1, <1>2, PanelsOfList
<1> QED BY <1>3 DEF f

LEMMA GpuTells ==
    ASSUME NEW a, NEW m, X!IsMachine(m)
    PROVE  PageTells(X!GpuPage(a, m))
<1>1. PICK top, rest : X!GpuPage(a, m) =
        <<X!Plain(top, "gpu.util")>>
          \o IF m.gpus = <<>>
             THEN <<X!Panel(rest, FALSE, X!Metric("gpu.util"),
                            X!KeyLines(X!Content(rest), <<X!Metric("gpu.util")>>))>>
             ELSE X!Cards(rest, m.gpus)
    BY Zenon DEF X!GpuPage
<1>2. PageTells(<<X!Plain(top, "gpu.util")>>)
    BY SomeShown, PlainTells, SingleTells
<1>3. PageTells(<<X!Panel(rest, FALSE, X!Metric("gpu.util"),
                          X!KeyLines(X!Content(rest), <<X!Metric("gpu.util")>>))>>)
    <2> DEFINE keys == <<X!Metric("gpu.util")>>
    <2>1. Tellable(X!Metric("gpu.util"))
        BY SomeShown, MetricTells
    <2>2. KeysTell(keys)
        <3>1. DOMAIN keys = 1..1 /\ keys[1] = X!Metric("gpu.util")
            OBVIOUS
        <3> HIDE DEF keys
        <3> QED BY <2>1, <3>1 DEF KeysTell
    <2> HIDE DEF keys
    <2>3. PageTells(<<X!Panel(rest, FALSE, X!Metric("gpu.util"), X!KeyLines(X!Content(rest), keys))>>)
        BY <2>1, <2>2, KeyLinesTell, PanelOf, SingleTells
    <2> QED BY <2>3 DEF keys
<1>4. PageTells(X!Cards(rest, m.gpus))
    BY CardsTell DEF X!IsMachine
<1>5. CASE m.gpus = <<>>
    <2>1. X!GpuPage(a, m) =
            <<X!Plain(top, "gpu.util")>> \o
            <<X!Panel(rest, FALSE, X!Metric("gpu.util"),
                      X!KeyLines(X!Content(rest), <<X!Metric("gpu.util")>>))>>
        BY <1>1, <1>5, Zenon
    <2> QED BY <2>1, <1>2, <1>3, JoinedTell, Zenon
<1>6. CASE m.gpus # <<>>
    <2>1. X!GpuPage(a, m) = <<X!Plain(top, "gpu.util")>> \o X!Cards(rest, m.gpus)
        BY <1>1, <1>6, Zenon
    <2> QED BY <2>1, <1>2, <1>4, JoinedTell, Zenon
<1> QED BY <1>5, <1>6

LEMMA DisksTell ==
    ASSUME NEW r, NEW disks, X!IsList(disks)
    PROVE  PageTells(X!Disks(r, disks))
<1> DEFINE f == X!Disks(r, disks)
<1>1. DOMAIN f = DOMAIN disks /\ f = [i \in DOMAIN disks |-> f[i]]
    BY DEF X!Disks
<1>2. ASSUME NEW i \in DOMAIN disks PROVE PanelTells(f[i])
    <2> DEFINE ids == <<"disk.throughput", "disk.throughput", "disk.iops", "disk.util">>
               keys == X!MetricKeys(ids, disks[i].unread)
    <2>1. PICK rect, within : f[i] = X!Panel(rect, FALSE, X!Named("disk", disks[i].name),
                                             X!KeyLines(within, keys))
        BY Zenon DEF X!Disks
    <2>2. Tellable(X!Named("disk", disks[i].name))
        <3>1. "disk" \in X!Entities
            BY DEF X!Entities
        <3> QED BY <3>1, ThingTells DEF X!Named
    <2>3. DOMAIN ids = 1..4 /\ \A k \in 1..4 : ids[k] \in ShownMetrics
        BY DEF ShownMetrics
    <2> HIDE DEF ids
    <2>4. KeysTell(keys)
        BY <2>3, MetricKeysTell
    <2> HIDE DEF keys
    <2>5. LinesTell(X!KeyLines(within, keys))
        BY <2>4, KeyLinesTell
    <2> QED BY <2>1, <2>2, <2>5, PanelOf
<1> HIDE DEF f
<1>3. PageTells(f)
    BY <1>1, <1>2, PanelsOfList
<1> QED BY <1>3 DEF f

LEMMA StorageTells ==
    ASSUME NEW a, NEW m, X!IsMachine(m)
    PROVE  PageTells(X!StoragePage(a, m))
<1>1. PICK rect, within, rest : X!StoragePage(a, m) =
        <<X!Panel(rect, TRUE, X!Metric("disk.usage"), X!MountLines(within, m.mounts))>>
          \o X!Disks(rest, m.disks)
    BY Zenon DEF X!StoragePage
<1> DEFINE lines == X!MountLines(within, m.mounts)
<1>2. LinesTell(lines)
    <2>1. Len(m.mounts) \in Nat /\ DOMAIN m.mounts = 1..Len(m.mounts)
        BY ListIsFinite DEF X!IsMachine
    <2>2. DOMAIN lines = DOMAIN m.mounts
        BY DEF X!MountLines
    <2>3. ASSUME NEW i \in DOMAIN m.mounts PROVE Tellable(lines[i].tells)
        <3>1. lines[i].tells = X!Named("mount", m.mounts[i])
            BY DEF X!MountLines, X!Cell
        <3>2. "mount" \in X!Entities
            BY DEF X!Entities
        <3> QED BY <3>1, <3>2, ThingTells DEF X!Named
    <2> HIDE DEF lines
    <2> QED BY <2>1, <2>2, <2>3 DEF LinesTell
<1>3. Tellable(X!Metric("disk.usage"))
    BY SomeShown, MetricTells
<1>4. PageTells(X!Disks(rest, m.disks))
    BY DisksTell DEF X!IsMachine
<1>5. PageTells(<<X!Panel(rect, TRUE, X!Metric("disk.usage"), lines)>>)
    <2> HIDE DEF lines
    <2> QED BY <1>2, <1>3, PanelOf, SingleTells
<1> QED BY <1>1, <1>4, <1>5, JoinedTell, Zenon

\* Lines of two columns.
LEMMA LinesJoined ==
    ASSUME NEW a, NEW b, NEW S, a \in Seq(S), b \in Seq(S), LinesTell(a), LinesTell(b)
    PROVE  LinesTell(a \o b)
<1>1. /\ a \o b \in Seq(S) /\ Len(a \o b) = Len(a) + Len(b)
      /\ \A i \in 1..(Len(a) + Len(b)) :
            (a \o b)[i] = IF i <= Len(a) THEN a[i] ELSE b[i - Len(a)]
    BY ConcatProperties
<1>2. /\ Len(a) \in Nat /\ DOMAIN a = 1..Len(a)
      /\ Len(b) \in Nat /\ DOMAIN b = 1..Len(b)
      /\ DOMAIN (a \o b) = 1..(Len(a) + Len(b))
    BY <1>1
<1>3. ASSUME NEW i \in DOMAIN (a \o b)
      PROVE  (a \o b)[i].tells = X!NoTarget \/ Tellable((a \o b)[i].tells)
    <2>1. CASE i <= Len(a)
        <3>1. (a \o b)[i] = a[i] /\ i \in DOMAIN a
            BY <1>1, <1>2, <2>1
        <3> QED BY <3>1 DEF LinesTell
    <2>2. CASE ~(i <= Len(a))
        <3>1. (a \o b)[i] = b[i - Len(a)] /\ i - Len(a) \in DOMAIN b
            BY <1>1, <1>2, <2>2
        <3> QED BY <3>1 DEF LinesTell
    <2> QED BY <2>1, <2>2
<1>4. Len(a) + Len(b) \in Nat
    BY <1>2
<1> QED BY <1>2, <1>3, <1>4 DEF LinesTell

LEMMA InterfaceLinesTell ==
    ASSUME NEW r
    PROVE  LinesTell(X!InterfaceLines(r))
<1> DEFINE ids == <<"net.throughput", "net.throughput", "net.errors", "net.mac">>
           keys == X!MetricKeys(ids, {})
           ip == <<X!Metric("net.ip")>>
<1>1. PICK left, right : X!InterfaceLines(r) = X!KeyLines(left, keys) \o X!KeyLines(right, ip)
    BY Zenon DEF X!InterfaceLines
<1>2. DOMAIN ids = 1..4 /\ \A k \in 1..4 : ids[k] \in ShownMetrics
    BY DEF ShownMetrics
<1>3. DOMAIN keys = 1..4
    BY DEF X!MetricKeys
<1> HIDE DEF ids
<1>4. KeysTell(keys)
    BY <1>2, MetricKeysTell
<1>5. DOMAIN ip = 1..1 /\ ip[1] = X!Metric("net.ip")
    OBVIOUS
<1> HIDE DEF keys, ip
<1>6. KeysTell(ip)
    <2>1. Tellable(X!Metric("net.ip"))
        BY SomeShown, MetricTells
    <2> QED BY <1>5, <2>1 DEF KeysTell
<1> DEFINE one == X!KeyLines(left, keys)
           two == X!KeyLines(right, ip)
<1>7. LinesTell(one) /\ LinesTell(two)
    BY <1>4, <1>6, KeyLinesTell
<1>8. DOMAIN one = 1..4 /\ one = [i \in 1..4 |-> one[i]]
    BY <1>3 DEF X!KeyLines
<1>9. DOMAIN two = 1..1 /\ two = [i \in 1..1 |-> two[i]]
    BY <1>5 DEF X!KeyLines
<1> HIDE DEF one, two
<1> DEFINE S == {one[i] : i \in 1..4} \cup {two[i] : i \in 1..1}
<1>10. one \in Seq({one[i] : i \in 1..4}) /\ two \in Seq({two[i] : i \in 1..1})
    BY <1>8, <1>9, SeqOf
<1>11. one \in Seq(S) /\ two \in Seq(S)
    BY <1>10
<1> HIDE DEF S
<1>12. LinesTell(one \o two)
    BY <1>7, <1>11, LinesJoined
<1> QED BY <1>1, <1>12 DEF one, two

LEMMA InterfacesTell ==
    ASSUME NEW r, NEW ifaces, X!IsList(ifaces)
    PROVE  PageTells(X!Interfaces(r, ifaces))
<1> DEFINE f == X!Interfaces(r, ifaces)
<1>1. DOMAIN f = DOMAIN ifaces /\ f = [i \in DOMAIN ifaces |-> f[i]]
    BY DEF X!Interfaces
<1>2. ASSUME NEW i \in DOMAIN ifaces PROVE PanelTells(f[i])
    <2>1. PICK rect, within : f[i] = X!Panel(rect, FALSE, X!Named("interface", ifaces[i].name),
                                             X!InterfaceLines(within))
        BY Zenon DEF X!Interfaces
    <2>2. Tellable(X!Named("interface", ifaces[i].name))
        <3>1. "interface" \in X!Entities
            BY DEF X!Entities
        <3> QED BY <3>1, ThingTells DEF X!Named
    <2> QED BY <2>1, <2>2, InterfaceLinesTell, PanelOf
<1> HIDE DEF f
<1>3. PageTells(f)
    BY <1>1, <1>2, PanelsOfList
<1> QED BY <1>3 DEF f

LEMMA GraphsTell ==
    ASSUME NEW graphs, NEW n \in Nat, DOMAIN graphs = 1..n
    PROVE  PageTells([i \in DOMAIN graphs |-> X!Plain(graphs[i], "net.throughput")])
<1> DEFINE f == [i \in DOMAIN graphs |-> X!Plain(graphs[i], "net.throughput")]
<1>1. DOMAIN f = 1..n /\ f = [i \in 1..n |-> f[i]]
    OBVIOUS
<1>2. \A i \in 1..n : PanelTells(f[i])
    BY SomeShown, PlainTells
<1> HIDE DEF f
<1>3. PageTells(f)
    BY <1>1, <1>2, PageOf
<1> QED BY <1>3 DEF f

LEMMA NetworkTells ==
    ASSUME NEW a, NEW m, X!IsMachine(m)
    PROVE  PageTells(X!NetworkPage(a, m))
<1> DEFINE about == X!Metric("net.sockets")
           keys == [i \in 1..5 |-> about]
           graph == X!Top(a, X!Clamp(a.h \div 4, 5, 12))
           rest == X!Below(a, X!Clamp(a.h \div 4, 5, 12))
           graphs == IF graph.h >= 6 /\ graph.w >= 40 THEN <<graph>> ELSE X!Cols(graph, <<1, 1>>)
           sockets == X!Below(rest, X!Minus(rest.h, 6))
           first == [i \in DOMAIN graphs |-> X!Plain(graphs[i], "net.throughput")]
           second == X!Interfaces(X!Top(rest, X!Minus(rest.h, 6)), m.ifaces)
           third == <<X!Panel(X!Where(sockets.h >= 3, sockets), FALSE, about,
                              X!KeyLines(X!Content(sockets), keys))>>
<1>1. X!NetworkPage(a, m) = first \o second \o third
    BY Zenon DEF X!NetworkPage
<1>2. \E n \in Nat : DOMAIN graphs = 1..n
    <2>1. DOMAIN X!Cols(graph, <<1, 1>>) = 1..2
        BY DEF X!Cols
    <2>2. DOMAIN <<graph>> = 1..1
        OBVIOUS
    <2> HIDE DEF graph
    <2>3. 1 \in Nat /\ 2 \in Nat
        OBVIOUS
    <2> QED BY <2>1, <2>2, <2>3, Zenon
<1>3. PageTells(first)
    <2> HIDE DEF graphs
    <2> QED BY <1>2, GraphsTell
<1>4. PageTells(second)
    BY InterfacesTell DEF X!IsMachine
<1>5. PageTells(third)
    <2>1. Tellable(about)
        BY SomeShown, MetricTells
    <2> HIDE DEF about
    <2>2. KeysTell(keys)
        <3>1. DOMAIN keys = 1..5 /\ \A i \in 1..5 : keys[i] = about
            OBVIOUS
        <3> HIDE DEF keys
        <3> QED BY <2>1, <3>1 DEF KeysTell
    <2> HIDE DEF keys, sockets
    <2> QED BY <2>1, <2>2, KeyLinesTell, PanelOf, SingleTells
<1> HIDE DEF first, second, third
<1>6. PageTells(first \o second)
    BY <1>3, <1>4, JoinedTell
<1>7. PageTells((first \o second) \o third)
    BY <1>5, <1>6, JoinedTell
<1> QED BY <1>1, <1>7

LEMMA ProcessTells ==
    ASSUME NEW a, a.h \in Int, NEW m, X!IsMachine(m)
    PROVE  PageTells(X!ProcessPage(a, m, 0))
<1> DEFINE start == X!Smaller(0, X!Minus(Len(m.procs), X!VisibleProcesses(a)))
           Of(i) == X!Thing("process", m.procs[start + i].pid, m.procs[start + i].since)
           lines == [i \in 1..X!Smaller(Len(m.procs), X!VisibleProcesses(a)) |->
                        X!Cell(X!Line(X!Content(a), i), Of(i))]
<1>1. X!ProcessPage(a, m, 0) = <<X!Panel(a, TRUE, X!Metric("proc.cpu"), lines)>>
    BY Zenon DEF X!ProcessPage
<1>2. \A i : Tellable(Of(i))
    <2>1. "process" \in X!Entities
        BY DEF X!Entities
    <2> HIDE DEF start
    <2> QED BY <2>1, ThingTells
<1>3. \A i \in DOMAIN lines : lines[i].tells = Of(i)
    <2> HIDE DEF start, Of
    <2> QED BY DEF X!Cell
<1>4. \E n \in Nat : DOMAIN lines = 1..n
    <2>1. Len(m.procs) \in Nat
        BY ListIsFinite DEF X!IsMachine
    <2>2. X!VisibleProcesses(a) \in Nat
        <3>1. X!Framed(a).h \in Int
            BY DEF X!Framed, X!Inset, X!Rect, X!Minus, X!Larger
        <3>2. X!Content(a).h \in Int
            BY <3>1 DEF X!Content, X!Inset, X!Rect, X!Minus, X!Larger
        <3> QED BY <3>2 DEF X!VisibleProcesses, X!Minus, X!Larger
    <2>3. X!Smaller(Len(m.procs), X!VisibleProcesses(a)) \in Nat
        BY <2>1, <2>2 DEF X!Smaller
    <2> DEFINE n == X!Smaller(Len(m.procs), X!VisibleProcesses(a))
    <2>4. DOMAIN lines = 1..n
        OBVIOUS
    <2> HIDE DEF lines, n
    <2> QED BY <2>3, <2>4 DEF n
<1> HIDE DEF lines, Of
<1>5. LinesTell(lines)
    BY <1>2, <1>3, <1>4 DEF LinesTell
<1>6. Tellable(X!Metric("proc.cpu"))
    BY SomeShown, MetricTells
<1> QED BY <1>1, <1>5, <1>6, PanelOf, SingleTells

\* What any page but the administrator's registers tells of something.
LEMMA DrawnTells ==
    ASSUME NEW page \in X!ToSet(X!Views) \ {"admin"}, NEW size, size.h \in Int,
           NEW m, X!IsMachine(m)
    PROVE  RegionsTell(X!Page(page, size, m, 0, 1, 0))
<1> DEFINE a == X!Drawable(size)
<1>1. a.h \in Int
    <2>1. X!Body(size).h \in Int
        BY DEF X!Body, X!Rect
    <2> QED BY <2>1 DEF X!Drawable, X!Top, X!Smaller
<1> HIDE DEF a
<1>2. page \in {"overview", "cpu", "memory", "gpu", "storage", "network", "process"}
    <2>1. X!ToSet(X!Views) = {X!Views[i] : i \in 1..8}
        BY DEF X!ToSet, X!Views
    <2>2. /\ X!Views[1] = "overview" /\ X!Views[2] = "cpu" /\ X!Views[3] = "memory"
          /\ X!Views[4] = "gpu" /\ X!Views[5] = "storage" /\ X!Views[6] = "network"
          /\ X!Views[7] = "process" /\ X!Views[8] = "admin"
        BY DEF X!Views
    <2>3. page \in {X!Views[i] : i \in 1..8} /\ page # "admin"
        BY <2>1
    <2> QED BY <2>2, <2>3
<1>3. PageTells(X!PanelsOf(page, a, m, 0))
    <2>1. CASE page = "overview"
        BY <2>1, OverviewTells, Zenon DEF X!PanelsOf
    <2>2. CASE page = "cpu"
        BY <2>2, CpuTells, Zenon DEF X!PanelsOf
    <2>3. CASE page = "memory"
        BY <2>3, MemoryTells, Zenon DEF X!PanelsOf
    <2>4. CASE page = "gpu"
        BY <2>4, GpuTells, Zenon DEF X!PanelsOf
    <2>5. CASE page = "storage"
        BY <2>5, StorageTells, Zenon DEF X!PanelsOf
    <2>6. CASE page = "network"
        BY <2>6, NetworkTells, Zenon DEF X!PanelsOf
    <2>7. CASE page = "process"
        BY <1>1, <2>7, ProcessTells, Zenon DEF X!PanelsOf
    <2> QED BY <1>2, <2>1, <2>2, <2>3, <2>4, <2>5, <2>6, <2>7
<1>4. X!Page(page, size, m, 0, 1, 0) = X!Register(X!PanelsOf(page, a, m, 0))
    BY <1>2, Zenon DEF X!Page, a
<1> QED BY <1>3, <1>4, RegisterTells

-----------------------------------------------------------------------------
(* What the window tells of *)

\* There is a process of that number and start.
Running(t, m) == \E p \in X!ToSet(m.procs) : p.pid = t.name /\ p.since = t.nr

\* The text is about the target, or says that the process is gone: then, and only
\* then, no process has its number and its start.
LEMMA ToldIs ==
    ASSUME NEW t, Tellable(t), NEW m, X!IsMachine(m)
    PROVE  /\ X!Told(t, m) \in {t, X!NoTarget}
           /\ X!Told(t, m) = X!NoTarget <=> t.kind = "process" /\ ~Running(t, m)
<1>0. X!NoTarget.kind = "none"
    BY DEF X!NoTarget, X!Thing
<1>1. CASE \E id \in Metrics : t = X!Metric(id)
    <2>1. PICK id \in Metrics : t = X!Metric(id)
        BY <1>1
    <2>2. t.kind = "metric" /\ t.name = id
        BY <2>1 DEF X!Metric, X!Thing
    <2>3. X!Told(t, m) = t
        BY <2>2 DEF X!Told, X!IsKnown, Metrics
    <2>4. t # X!NoTarget
        BY <1>0, <2>2
    <2> QED BY <2>2, <2>3, <2>4
<1>2. CASE X!IsEntity(t) /\ t.kind # "process"
    <2>1. t.kind # "metric" /\ t.kind # "none"
        BY <1>2 DEF X!IsEntity, X!Entities
    <2>2. X!Told(t, m) = t
        BY <1>2, <2>1 DEF X!Told
    <2>3. t # X!NoTarget
        BY <1>0, <2>1
    <2> QED BY <1>2, <2>2, <2>3
<1>3. CASE X!IsEntity(t) /\ t.kind = "process"
    <2> DEFINE same == {i \in DOMAIN m.procs : X!SameProcess(m.procs[i], t)}
    <2>1. DOMAIN m.procs = 1..Len(m.procs) /\ Len(m.procs) \in Nat
        BY ListIsFinite DEF X!IsMachine
    <2>2. X!ToSet(m.procs) = {m.procs[i] : i \in DOMAIN m.procs}
        BY DEF X!ToSet
    <2>3. Running(t, m) <=> same # {}
        BY <2>2 DEF Running, X!SameProcess
    <2>4. t = X!Thing("process", t.name, t.nr)
        BY <1>3 DEF X!IsEntity
    <2>5. t # X!NoTarget
        BY <1>0, <1>3
    <2>6. CASE same = {}
        <3>1. X!ProcessTold(t, m) = <<>>
            BY <2>6 DEF X!ProcessTold
        <3>2. X!Told(t, m) = X!NoTarget
            BY <1>3, <3>1 DEF X!Told
        <3> QED BY <1>3, <2>3, <2>6, <3>2
    <2>7. CASE same # {}
        <3>1. X!Min(same) \in same
            <4>1. same \subseteq Nat
                BY <2>1
            <4> HIDE DEF same
            <4>2. \E n \in same : \A k \in same : n <= k
                BY <2>7, <4>1, SmallestNumber, Zenon
            <4> QED BY <4>2 DEF X!Min
        <3> DEFINE p == m.procs[X!Min(same)]
        <3>2. X!ProcessTold(t, m) = <<p>>
            BY <2>7 DEF X!ProcessTold
        <3>3. p.pid = t.name /\ p.since = t.nr
            BY <3>1 DEF X!SameProcess
        <3> HIDE DEF p
        <3>4. <<p>> # <<>> /\ <<p>>[1] = p
            OBVIOUS
        <3>5. X!Told(t, m) = X!Thing("process", p.pid, p.since)
            <4> DEFINE told == X!ProcessTold(t, m)
            <4>1. told # <<>> /\ told[1] = p
                BY <3>2, <3>4
            <4>2. X!Told(t, m) = CASE t.kind = "metric"  -> IF X!IsKnown(t.name) THEN t ELSE X!NoTarget
                      [] t.kind = "process" -> IF told = <<>> THEN X!NoTarget
                                   ELSE X!Thing("process", told[1].pid, told[1].since)
                      [] OTHER              -> t
                BY DEF X!Told
            <4> HIDE DEF told
            <4> QED BY <1>3, <4>1, <4>2
        <3>6. X!Told(t, m) = t
            BY <2>4, <3>3, <3>5
        <3> QED BY <2>3, <2>5, <2>7, <3>6
    <2> QED BY <2>6, <2>7
<1> QED BY <1>1, <1>2, <1>3 DEF Tellable

\* What is registered tells of something, what was asked for was registered, and
\* the open window is about it as the last draw found it.
TellInv ==
    /\ view \in OpenViews /\ found \in Machines
    /\ RegionsTell(regs)
    /\ chosen = asked
    /\ asked # X!NoTarget => Tellable(asked)
    /\ asked = X!NoTarget => window = X!NoWindow
    /\ window # X!NoWindow => window.of = X!Told(asked, Make[found])

LEMMA TellHolds ==
    ASSUME TellInv
    PROVE  X!TellsOfTarget
<1>1. X!IsMachine(Make[found])
    BY ExplainAssumption DEF TellInv, X!WindowBounds
<1>2. CASE window = X!NoWindow
    BY <1>2 DEF X!TellsOfTarget, X!OnScreen
<1>3. CASE window # X!NoWindow
    <2>1. Tellable(asked) /\ window.of = X!Told(asked, Make[found]) /\ chosen = asked
        BY <1>3 DEF TellInv
    <2>2. /\ X!Told(asked, Make[found]) \in {asked, X!NoTarget}
          /\ X!Told(asked, Make[found]) = X!NoTarget <=>
                asked.kind = "process" /\ ~Running(asked, Make[found])
        BY <1>1, <2>1, ToldIs
    <2> QED BY <2>1, <2>2 DEF X!TellsOfTarget, Running
<1> QED BY <1>2, <1>3

LEMMA TellInit == X!Init => TellInv
<1>1. RegionsTell(<<>>)
    BY DEF RegionsTell
<1> QED BY <1>1 DEF X!Init, TellInv

LEMMA TellDraw == TellInv /\ X!Draw => TellInv'
<1> SUFFICES ASSUME TellInv, X!Draw
             PROVE  TellInv'
    OBVIOUS
<1>1. PICK size \in Sizes, m \in Machines :
        /\ found' = m
        /\ regs' = X!Page(view, size, Make[m], 0, 1, 0)
        /\ IF asked = X!NoTarget THEN UNCHANGED <<window, bound>>
           ELSE \E extra \in Extra :
                    /\ window' = X!WindowOf(Make[m], extra, size, regs')
                    /\ bound' = X!BoundOf(window', size)
        /\ UNCHANGED <<view, framed, asked, chosen, scroll>>
    BY DEF X!Draw
<1>2. RegionsTell(regs')
    <2>1. view \in X!ToSet(X!Views) \ {"admin"} /\ X!IsMachine(Make[m]) /\ size.h \in Nat
        BY ExplainAssumption DEF X!WindowBounds, TellInv
    <2>2. size.h \in Int
        BY <2>1
    <2>3. RegionsTell(X!Page(view, size, Make[m], 0, 1, 0))
        BY <2>1, <2>2, DrawnTells
    <2> QED BY <1>1, <2>3
<1>3. CASE asked = X!NoTarget
    BY <1>1, <1>2, <1>3 DEF TellInv
<1>4. CASE asked # X!NoTarget
    <2>1. window'.of = X!Told(asked, Make[m])
        BY <1>1, <1>4 DEF X!WindowOf
    <2>2. window'.of = X!Told(asked', Make[found'])
        BY <1>1, <2>1
    <2> HIDE DEF X!Told
    <2> QED BY <1>1, <1>2, <1>4, <2>2 DEF TellInv
<1> QED BY <1>3, <1>4

LEMMA TellKept == TellInv /\ [X!Next]_X!vars => TellInv'
<1> SUFFICES ASSUME TellInv, [X!Next]_X!vars
             PROVE  TellInv'
    OBVIOUS
<1>1. CASE X!MoveFrame
    BY <1>1 DEF X!MoveFrame, TellInv
<1>2. CASE X!OpenPage
    BY <1>2 DEF X!OpenPage, TellInv
<1>3. CASE X!Explain
    <2>1. Tellable(asked')
        BY <1>3 DEF X!Explain, X!Exists, TellInv, RegionsTell
    <2>2. window = X!NoWindow
        BY <1>3 DEF X!Explain, TellInv
    <2> QED BY <1>3, <2>1, <2>2 DEF X!Explain, TellInv
<1>4. CASE X!Up \/ X!Down \/ X!PageUp \/ X!PageDown
    BY <1>4 DEF X!Up, X!Down, X!PageUp, X!PageDown, X!Scroll, TellInv
<1>5. CASE X!Close
    BY <1>5 DEF X!Close, TellInv
<1>6. CASE X!Draw
    BY <1>6, TellDraw
<1>7. CASE UNCHANGED X!vars
    BY <1>7 DEF X!vars, TellInv
<1> QED BY <1>1, <1>2, <1>3, <1>4, <1>5, <1>6, <1>7 DEF X!Next

\* On any machine, however its lists change under the open window: the window
\* tells of what stood in the frame at `e', and says of a process that it is gone
\* when, and only when, it is (describe, entity::process, lookup).
THEOREM WindowTells == SelectionSpec => []TellsOfTarget
<1>1. X!Spec => []TellInv
    BY TellInit, TellKept, PTL DEF X!Spec
<1>2. TellInv => TellsOfTarget
    BY TellHolds DEF TellsOfTarget
<1> QED BY <1>1, <1>2, SelectionOpensWindow, PTL
=============================================================================
