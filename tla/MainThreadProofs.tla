-------------------------- MODULE MainThreadProofs --------------------------
(***************************************************************************)
(* Theorems about the main thread.                                         *)
(*                                                                         *)
(* Its keys, for any pages, any depth of panels and any length of name: a  *)
(* window has the keys to itself, a run gets on the board once, and the    *)
(* best score is kept. Keys are taken one by one, and in each the line     *)
(* that gets it.                                                           *)
(*                                                                         *)
(* Its loop, which keeps its dates, for every interval, frame and length   *)
(* of a blocked draw: what has to be on the screen soon is never older     *)
(* than the last drawing (Ages), and the loop falls asleep only where the  *)
(* next date is known (Asleep): a sleep ends at the first of its dates.    *)
(* Between the samples and the sleep a collector ages by the draw alone    *)
(* (Collectors).                                                           *)
(***************************************************************************)
EXTENDS MCMainThread, WellFoundedInduction, TLAPS

-----------------------------------------------------------------------------
(* Keys. Types: what each handler may set is proved for it alone. *)

USE WindowsAssumption

\* What TypeOK says of the page.
PageOK ==
    /\ view \in PageNames
    /\ paused \in BOOLEAN
    /\ filtering \in BOOLEAN
    /\ filter \in 0..MaxText
    /\ depth \in 0..MaxDepth
    /\ scroll \in 0..FarDown

\* What it says of the windows and the last draw.
WindowsOK ==
    /\ filtering => modal = "None"
    /\ modal \in Modals
    /\ lines \in [TextWindows -> 0..MaxScroll]
    /\ \A w \in TextWindows : lines[w] # 0 => modal = w
    /\ drawn \in [depth : 0..MaxDepth, below : 0..MaxScroll,
                  text : [TextWindows -> 0..MaxScroll]]

\* What it says of the game.
ContestOK ==
    /\ game \in [on : BOOLEAN, score : 0..MaxScore, best : 0..MaxScore,
                 over : BOOLEAN, fresh : BOOLEAN]
    /\ finale \in [shown : BOOLEAN, box : BOOLEAN, name : Seq(Letters)]
    /\ Len(finale.name) <= NameWidth
    /\ dinoBest \in 0..MaxScore
    /\ records \in Nat

\* TypeOK is these three, and the loop that runs.
LEMMA TypeParts ==
    TypeOK <=> running \in BOOLEAN /\ PageOK /\ WindowsOK /\ ContestOK
BY DEF TypeOK, PageOK, WindowsOK, ContestOK

\* The overview is a page.
LEMMA OverviewIsPage == Overview \in PageNames
BY DEF Overview, PageNames

\* A step along the pages ends on a page.
LEMMA PageAfterType ==
    ASSUME TypeOK, NEW step \in {-1, 1}
    PROVE  PageAfter(step) \in PageNames
<1> DEFINE i == CHOOSE n \in 1..Len(Views) : Views[n] = view
<1>1. i \in 1..Len(Views)
  BY DEF TypeOK, PageNames
<1>2. Len(Views) \in Nat \ {0}
  OBVIOUS
<1> HIDE DEF i
<1>3. ((i - 1 + step) % Len(Views)) + 1 \in 1..Len(Views)
  BY <1>1, <1>2
<1>4. PageAfter(step) = Views[((i - 1 + step) % Len(Views)) + 1]
  BY DEF PageAfter, i
<1>5. QED  BY <1>3, <1>4 DEF PageNames

\* Turning to a page keeps the types of the page.
LEMMA ShowPageType ==
    ASSUME PageOK, NEW v \in PageNames, ShowPage(v)
    PROVE  PageOK'
BY DEF PageOK, ShowPage, FarDown

\* So does going down.
LEMMA DescendType ==
    ASSUME TypeOK, Descend
    PROVE  PageOK'
BY DEF TypeOK, PageOK, Descend

\* So does going up.
LEMMA AscendType ==
    ASSUME TypeOK, Ascend
    PROVE  PageOK' /\ UNCHANGED <<running, filtering, modal>>
<1>1. PageOK
  BY TypeParts
<1>2. CASE depth > 0
  <2>1. Parent \in 0..MaxDepth
    BY <1>2 DEF TypeOK, Parent
  <2>2. QED  BY <1>1, <1>2, <2>1 DEF Ascend, PageOK
<1>3. CASE ~(depth > 0) /\ view # Overview
  BY <1>1, <1>3, ShowPageType, OverviewIsPage DEF Ascend, ShowPage
<1>4. CASE ~(depth > 0) /\ view = Overview
  BY <1>1, <1>4 DEF Ascend, PageOK, page
<1>5. QED  BY <1>2, <1>3, <1>4

\* So does scrolling, by however many lines.
LEMMA ScrollByType ==
    ASSUME TypeOK, NEW step \in Int, ScrollBy(step)
    PROVE  PageOK'
<1>1. drawn.below \in 0..MaxScroll
  BY DEF TypeOK
<1>2. ScrollTo(step) \in 0..FarDown
  <2> DEFINE cur == Least(scroll, drawn.below)
  <2>1. cur \in 0..drawn.below /\ drawn.below \in Nat /\ drawn.below <= MaxScroll
    BY <1>1 DEF Least, TypeOK, FarDown
  <2> HIDE DEF cur
  <2>2. ScrollTo(step) \in 0..drawn.below
    <3>1. CASE cur + step > drawn.below
      BY <2>1, <3>1 DEF ScrollTo, cur
    <3>2. CASE cur + step < 0
      BY <2>1, <3>2 DEF ScrollTo, cur
    <3>3. CASE cur + step \in 0..drawn.below
      BY <2>1, <3>3 DEF ScrollTo, cur
    <3>4. QED  BY <2>1, <3>1, <3>2, <3>3
  <2>3. QED  BY <2>1, <2>2 DEF FarDown
<1>3. QED  BY <1>2 DEF ScrollBy, TypeOK, PageOK

\* A key of the filter line touches the filter alone.
LEMMA FilterKeyType ==
    ASSUME TypeOK, NEW k \in Keys, FilterKey(k)
    PROVE  TypeOK'
<1>1. PageOK'
  <2>1. filter \in 0..MaxText /\ filter \in Nat
    BY DEF TypeOK
  <2>2. Most(filter - 1, 0) \in 0..MaxText /\ 0 \in 0..FarDown /\ 0 \in 0..MaxText
    BY <2>1 DEF Most, FarDown
  <2>3. filter' \in 0..MaxText
    <3>1. \/ filter' \in {0, filter, Most(filter - 1, 0)}
          \/ filter < MaxText /\ filter' = filter + 1
      BY DEF FilterKey
    <3>2. QED  BY <2>1, <2>2, <3>1
  <2>4. filtering' \in BOOLEAN
    BY DEF FilterKey, TypeOK
  <2>5. QED  BY <2>2, <2>3, <2>4 DEF FilterKey, TypeOK, PageOK
<1>2. WindowsOK' /\ ContestOK' /\ running' \in BOOLEAN
  BY DEF FilterKey, TypeOK, WindowsOK, ContestOK, contest
<1>3. QED  BY <1>1, <1>2, TypeParts DEF TypeOK, PageOK, WindowsOK, ContestOK

\* A window of text is scrolled within what the last draw had of it.
LEMMA ScrolledType ==
    ASSUME TypeOK, NEW w \in TextWindows, NEW k \in {"Up", "Down", "PageUp", "PageDown"}
    PROVE  Scrolled(w, k) \in 0..MaxScroll
<1>1. lines[w] \in 0..MaxScroll /\ drawn.text[w] \in 0..MaxScroll
  BY DEF TypeOK
<1>2. CASE k = "Up"
  BY <1>1, <1>2 DEF Scrolled, Most
<1>3. CASE k = "Down"
  BY <1>1, <1>3 DEF Scrolled, Least
<1>4. CASE k = "PageUp"
  BY <1>1, <1>4 DEF Scrolled, Most
<1>5. CASE k = "PageDown"
  BY <1>1, <1>5 DEF Scrolled, Least
<1>6. QED  BY <1>2, <1>3, <1>4, <1>5

\* A window of text and one of a few words keep the types.
LEMMA TextKeyType ==
    ASSUME TypeOK, NEW k \in Keys, ~filtering, TextKey(k) \/ AnyKeyCloses(k),
           UNCHANGED <<running, drawn>>
    PROVE  TypeOK'
<1>1. PageOK' /\ ContestOK' /\ running' \in BOOLEAN /\ ~filtering'
  BY SMTT(30) DEF TextKey, AnyKeyCloses, TypeOK, PageOK, ContestOK, page, contest
<1>2. ASSUME TextKey(k)  PROVE WindowsOK'
  <2>1. modal \in TextWindows
    BY <1>2 DEF TextKey
  <2> DEFINE Scrolls == k \in {"Up", "Down", "PageUp", "PageDown"}
  <2>2. PICK to \in 0..MaxScroll : lines' = [lines EXCEPT ![modal] = to] /\ (~Scrolls => to = 0)
    <3>1. CASE Scrolls
      BY <1>2, <2>1, <3>1, ScrolledType DEF TextKey
    <3>2. CASE ~Scrolls
      BY <1>2, <3>2 DEF TextKey
    <3>3. QED  BY <3>1, <3>2
  <2>3. modal' = IF Scrolls THEN modal ELSE "None"
    BY <1>2 DEF TextKey
  <2> HIDE DEF Scrolls
  <2>4. lines' \in [TextWindows -> 0..MaxScroll]
    BY <2>1, <2>2 DEF TypeOK
  <2>5. \A w \in TextWindows : lines'[w] # 0 => modal' = w
    BY <2>1, <2>2, <2>3 DEF TypeOK
  <2>6. modal' \in Modals /\ drawn' = drawn
    BY <2>1, <2>3 DEF Modals, TextWindows
  <2>7. QED  BY <1>1, <2>4, <2>5, <2>6 DEF TypeOK, WindowsOK
<1>3. ASSUME AnyKeyCloses(k)  PROVE WindowsOK'
  BY <1>1, <1>3 DEF AnyKeyCloses, TypeOK, WindowsOK, Modals, TextWindows
<1>4. QED  BY <1>1, <1>2, <1>3 DEF TypeOK, PageOK, WindowsOK, ContestOK

\* A name stays a name: it grows up to its width and shrinks from its end.
LEMMA NameType ==
    ASSUME NEW name \in Seq(Letters), Len(name) <= NameWidth
    PROVE  /\ SubSeq(name, 1, Most(Len(name) - 1, 0)) \in Seq(Letters)
           /\ Len(SubSeq(name, 1, Most(Len(name) - 1, 0))) <= NameWidth
           /\ \A l \in Letters : Len(name) < NameWidth =>
                Append(name, l) \in Seq(Letters) /\ Len(Append(name, l)) <= NameWidth
<1>1. Len(name) \in Nat
  OBVIOUS
<1>2. Most(Len(name) - 1, 0) \in 0..Len(name) /\ Most(Len(name) - 1, 0) <= NameWidth
  BY <1>1 DEF Most
<1>3. \A i \in 1..Most(Len(name) - 1, 0) : name[i] \in Letters
  BY <1>1, <1>2
<1>4. QED  BY <1>1, <1>2, <1>3

\* A run that starts, goes on or ends keeps the types.
LEMMA RestartedType ==
    ASSUME TypeOK
    PROVE  Restarted(game) \in [on : BOOLEAN, score : 0..MaxScore, best : 0..MaxScore,
                                over : BOOLEAN, fresh : BOOLEAN]
<1>1. game.score \in 0..MaxScore /\ game.best \in 0..MaxScore
  BY DEF TypeOK
<1>2. ShownBest(game) \in 0..MaxScore /\ 0 \in 0..MaxScore
  BY <1>1 DEF ShownBest, Most
<1>3. QED  BY <1>2 DEF Restarted, NewGame

\* The keys of the game keep the types.
LEMMA DinoKeyType ==
    ASSUME TypeOK, NEW k \in Keys, ~filtering, DinoKey(k), UNCHANGED <<running, drawn>>
    PROVE  TypeOK'
<1>1. PageOK' /\ running' \in BOOLEAN /\ ~filtering'
  BY DEF DinoKey, TypeOK, PageOK, page
<1>2. modal' \in {"Dino", "None"}
  BY DEF DinoKey, NameKey, GameKey, LeaveGame
<1>3. WindowsOK'
  BY <1>1, <1>2 DEF DinoKey, TypeOK, WindowsOK, Modals, TextWindows
<1>4. ASSUME NameKey(k)  PROVE ContestOK'
  <2>1. finale.name \in Seq(Letters) /\ Len(finale.name) <= NameWidth
        /\ "space" \in Letters /\ "letter" \in Letters
    BY DEF TypeOK, Letters
  <2>2. finale' \in [shown : BOOLEAN, box : BOOLEAN, name : Seq(Letters)]
        /\ Len(finale'.name) <= NameWidth
    <3>1. << >> \in Seq(Letters) /\ Len(<< >>) <= NameWidth
      OBVIOUS
    <3>2. CASE k = "Enter" /\ SubmitDinoName
      BY <3>1, <3>2 DEF SubmitDinoName, TypeOK
    <3>3. CASE finale' = [finale EXCEPT !.box = FALSE, !.name = << >>]
      BY <3>1, <3>3 DEF TypeOK
    <3>4. CASE finale' = [finale EXCEPT !.name = SubSeq(@, 1, Most(Len(@) - 1, 0))]
      BY <2>1, <3>4, NameType DEF TypeOK
    <3>5. CASE /\ Len(finale.name) < NameWidth
               /\ \E l \in Letters : finale' = [finale EXCEPT !.name = Append(@, l)]
      <4>1. PICK l \in Letters : finale' = [finale EXCEPT !.name = Append(finale.name, l)]
        BY <3>5
      <4>2. Append(finale.name, l) \in Seq(Letters) /\ Len(Append(finale.name, l)) <= NameWidth
        BY <2>1, <3>5, NameType
      <4>3. QED  BY <4>1, <4>2 DEF TypeOK
    <3>6. CASE finale' = finale
      BY <2>1, <3>6 DEF TypeOK
    <3>7. QED  BY <1>4, <2>1, <3>2, <3>3, <3>4, <3>5, <3>6 DEF NameKey
  <2>3. records' \in Nat
    BY <1>4, SMTT(30) DEF NameKey, SubmitDinoName, TypeOK
  <2>4. QED  BY <1>4, <2>2, <2>3 DEF NameKey, DinoKey, TypeOK, ContestOK
<1>5. ASSUME GameKey(k) \/ LeaveGame(k)  PROVE ContestOK'
  <2>1. NoFinale \in [shown : BOOLEAN, box : BOOLEAN, name : Seq(Letters)]
        /\ Len(NoFinale.name) <= NameWidth
    BY DEF NoFinale
  <2>2. game' \in [on : BOOLEAN, score : 0..MaxScore, best : 0..MaxScore,
                   over : BOOLEAN, fresh : BOOLEAN]
    <3>1. NoGame \in [on : BOOLEAN, score : 0..MaxScore, best : 0..MaxScore,
                      over : BOOLEAN, fresh : BOOLEAN]
      BY DEF NoGame
    <3>2. game' \in {game, Restarted(game), NoGame}
      BY <1>5 DEF GameKey, LeaveGame
    <3>3. QED  BY <3>1, <3>2, RestartedType DEF TypeOK
  <2>3. QED  BY <1>5, <2>1, <2>2, SMTT(30)
             DEF GameKey, LeaveGame, DinoKey, TypeOK, ContestOK
<1>6. QED
  BY <1>1, <1>3, <1>4, <1>5 DEF DinoKey, TypeOK, PageOK, WindowsOK, ContestOK

\* The keys of the page that stay on it keep its types.
LEMMA TurnPageType ==
    ASSUME TypeOK, NEW k \in Keys, ~filtering, modal = "None", TurnPage(k), UNCHANGED drawn
    PROVE  TypeOK'
<1>1. PageOK
  BY TypeParts
<1>2. WindowsOK' /\ ContestOK' /\ running' \in BOOLEAN
  BY DEF TurnPage, TypeOK, WindowsOK, ContestOK, contest
<1>3. ASSUME NEW v \in PageNames, ShowPage(v)  PROVE PageOK'
  BY <1>1, <1>3, ShowPageType
<1>4. ASSUME NEW step \in {-1, 1}, ShowPage(PageAfter(step))  PROVE PageOK'
  BY <1>3, <1>4, PageAfterType
<1>5. ASSUME NEW step \in Int, ScrollBy(step)  PROVE PageOK'
  BY <1>5, ScrollByType
<1>6. ASSUME Descend  PROVE PageOK'
  BY <1>6, DescendType
<1>7. ASSUME page' = page  PROVE PageOK'
  BY <1>1, <1>7 DEF page, PageOK
<1>8. ASSUME k \in Arrows, Navigate(k)  PROVE PageOK'
  <2>1. CASE depth = 0
    BY <1>4, <1>6, <1>7, <1>8, <2>1 DEF Navigate, Arrows
  <2>2. CASE depth # 0
    BY <1>5, <1>6, <1>7, <1>8, <2>2 DEF Navigate
  <2>3. QED  BY <2>1, <2>2
<1>9. ASSUME k \in {"Home", "End", "space", "/"}  PROVE PageOK'
  <2>1. CASE k = "Home" \/ k = "End"
    <3>1. 0 \in 0..FarDown /\ FarDown \in 0..FarDown /\ 0 \in 0..MaxDepth
      BY DEF FarDown
    <3>2. /\ scroll' \in {0, FarDown} /\ depth' \in {0, depth}
          /\ UNCHANGED <<view, paused, filtering, filter>>
      BY <2>1 DEF TurnPage, Arrows
    <3>3. QED  BY <1>1, <3>1, <3>2 DEF PageOK
  <2>2. CASE k = "space"
    BY <1>1, <2>2 DEF TurnPage, PageOK, FarDown, Arrows
  <2>4. CASE k = "/"
    <3>1. /\ filter' = 0 \/ filter' = filter
          /\ filtering' = TRUE \/ filtering' = filtering
          /\ UNCHANGED <<view, paused, depth, scroll>>
      BY <2>4 DEF TurnPage, Arrows
    <3>2. 0 \in 0..MaxText
      OBVIOUS
    <3>3. QED  BY <1>1, <3>1, <3>2 DEF PageOK
  <2>3. QED  BY <1>9, <2>1, <2>2, <2>4
<1>10. PageOK'
  <2>1. -10 \in Int /\ 10 \in Int /\ -1 \in {-1, 1} /\ 1 \in {-1, 1}
    OBVIOUS
  <2>2. CASE k \in {"1", "a", "Tab", "BackTab"}
    BY <1>3, <1>4, <2>1, <2>2 DEF TurnPage, Arrows
  <2>3. CASE k \in {"PageUp", "PageDown"}
    BY <1>5, <2>1, <2>3 DEF TurnPage, Arrows
  <2>4. CASE k = "Enter"
    BY <1>6, <2>4 DEF TurnPage, Arrows
  <2>5. CASE k \in Arrows
    BY <1>8, <2>5 DEF TurnPage, Arrows
  <2>6. QED  BY <1>9, <2>2, <2>3, <2>4, <2>5 DEF TurnPage
<1>11. QED  BY <1>2, <1>10 DEF TypeOK, PageOK, WindowsOK, ContestOK

\* So do the keys that open a window.
LEMMA OpenType ==
    ASSUME TypeOK, NEW k \in Keys, ~filtering, modal = "None", OpenWindow(k) \/ Unlock,
           UNCHANGED drawn
    PROVE  TypeOK'
<1>1. PageOK /\ running' \in BOOLEAN
  BY TypeParts DEF OpenWindow, Unlock, TypeOK
<1>2. PageOK'
  BY <1>1, ShowPageType DEF OpenWindow, Unlock, PageOK, page
<1>3. filtering' = FALSE
  BY DEF OpenWindow, Unlock, page, ShowPage, TypeOK
<1>4. modal' \in Modals
  BY DEF OpenWindow, Unlock, Modals
<1>5. lines' \in [TextWindows -> 0..MaxScroll] /\ \A w \in TextWindows : lines'[w] = 0
  <2>1. \A w \in TextWindows : w # "None"
    BY DEF TextWindows
  <2>2. \A w \in TextWindows : lines[w] = 0
    BY <2>1 DEF TypeOK
  <2>3. lines' = lines \/ lines' = [lines EXCEPT !["Explain"] = 0]
    BY DEF OpenWindow, Unlock
  <2>4. lines \in [TextWindows -> 0..MaxScroll] /\ 0 \in 0..MaxScroll
    BY DEF TypeOK
  <2>5. QED  BY <2>2, <2>3, <2>4
<1>6. WindowsOK'
  <2>1. drawn' \in [depth : 0..MaxDepth, below : 0..MaxScroll,
                    text : [TextWindows -> 0..MaxScroll]]
    BY DEF TypeOK
  <2>2. QED  BY <1>3, <1>4, <1>5, <2>1 DEF WindowsOK
<1>7. ContestOK'
  <2>1. NewGame(dinoBest)
            \in [on : BOOLEAN, score : 0..MaxScore, best : 0..MaxScore,
                 over : BOOLEAN, fresh : BOOLEAN]
    BY DEF NewGame, TypeOK
  <2>2. QED  BY <2>1, SMTT(30) DEF OpenWindow, Unlock, ContestOK, contest, TypeOK
<1>8. QED  BY <1>1, <1>2, <1>6, <1>7 DEF TypeOK, PageOK, WindowsOK, ContestOK

\* What comes between the keys keeps the types.
LEMMA BetweenType ==
    ASSUME TypeOK, CtrlC \/ TickGame \/ GraceEnds \/ Draw \/ Ended
    PROVE  TypeOK'
<1>1. CASE CtrlC \/ Ended
  <2>1. running' \in BOOLEAN /\ UNCHANGED <<page, modal, lines, drawn, contest>>
    BY <1>1 DEF CtrlC, Ended, vars, TypeOK
  <2>2. QED  BY <2>1 DEF page, contest, TypeOK
<1>2. CASE GraceEnds
  BY <1>2 DEF GraceEnds, page, TypeOK
<1>3. CASE Draw
  <2>1. drawn' \in [depth : 0..MaxDepth, below : 0..MaxScroll,
                    text : [TextWindows -> 0..MaxScroll]]
    BY <1>3 DEF Draw, TypeOK
  <2>2. depth' \in 0..MaxDepth
    BY <1>3 DEF Draw, TypeOK
  <2>3. QED  BY <1>3, <2>1, <2>2 DEF Draw, contest, TypeOK
<1>4. CASE TickGame
  <2>1. PICK g \in Ticked(game) :
            /\ game' = g
            /\ dinoBest' = Most(dinoBest, ShownBest(g))
            /\ \/ UNCHANGED finale
               \/ \E b \in BOOLEAN : finale' = [shown |-> TRUE, box |-> b, name |-> << >>]
    BY <1>4 DEF TickGame
  <2>2. game.score \in 0..MaxScore /\ game.best \in 0..MaxScore /\ game.on \in BOOLEAN
    BY DEF TypeOK
  <2>3. Least(game.score + 1, MaxScore) \in 0..MaxScore
    BY <2>2 DEF Least
  <2>4. \A s \in {game.score, Least(game.score + 1, MaxScore)} :
            s \in 0..MaxScore /\ Most(game.best, s) \in 0..MaxScore
    BY <2>2, <2>3 DEF Most
  <2>5. g \in [on : BOOLEAN, score : 0..MaxScore, best : 0..MaxScore,
               over : BOOLEAN, fresh : BOOLEAN]
    <3>1. CASE g = game
      BY <3>1 DEF TypeOK
    <3>2. CASE g # game
      <4>1. PICK s \in {game.score, Least(game.score + 1, MaxScore)} :
                \/ g = [on |-> TRUE, score |-> s, best |-> game.best,
                        over |-> FALSE, fresh |-> FALSE]
                \/ g = [on |-> TRUE, score |-> s, best |-> Most(game.best, s),
                        over |-> TRUE, fresh |-> TRUE]
        BY <2>1, <3>2 DEF Ticked
      <4>2. s \in 0..MaxScore /\ Most(game.best, s) \in 0..MaxScore
        BY <2>4, <4>1
      <4>3. CASE g = [on |-> TRUE, score |-> s, best |-> game.best,
                      over |-> FALSE, fresh |-> FALSE]
        BY <2>2, <4>2, <4>3
      <4>4. CASE g = [on |-> TRUE, score |-> s, best |-> Most(game.best, s),
                      over |-> TRUE, fresh |-> TRUE]
        BY <2>2, <4>2, <4>4
      <4>5. QED  BY <4>1, <4>3, <4>4
    <3>3. QED  BY <3>1, <3>2
  <2>6. dinoBest' \in 0..MaxScore
    BY <2>1, <2>5 DEF ShownBest, Most, TypeOK
  <2>7. finale' \in [shown : BOOLEAN, box : BOOLEAN, name : Seq(Letters)]
        /\ Len(finale'.name) <= NameWidth
    <3>1. << >> \in Seq(Letters) /\ Len(<< >>) <= NameWidth
      OBVIOUS
    <3>2. CASE UNCHANGED finale
      BY <3>2 DEF TypeOK
    <3>3. CASE \E b \in BOOLEAN : finale' = [shown |-> TRUE, box |-> b, name |-> << >>]
      BY <3>1, <3>3
    <3>4. QED  BY <2>1, <3>2, <3>3
  <2>8. QED  BY <1>4, <2>1, <2>5, <2>6, <2>7 DEF TickGame, page, TypeOK
<1>5. QED  BY <1>1, <1>2, <1>3, <1>4

\* One step keeps the types.
LEMMA NextType ==
    ASSUME TypeOK, [Next]_vars
    PROVE  TypeOK'
<1>1. ASSUME NEW k \in Keys, FilterKey(k)  PROVE TypeOK'
  BY <1>1, FilterKeyType
<1>2. ASSUME NEW k \in Keys, WindowKey(k)  PROVE TypeOK'
  BY <1>2, TextKeyType, DinoKeyType DEF WindowKey
<1>3. ASSUME NEW k \in Keys, PageKey(k)  PROVE TypeOK'
  <2>1. CASE Ascend /\ UNCHANGED <<lines, contest, drawn>>
    BY <2>1, AscendType, SMTT(30) DEF contest, TypeOK, PageOK
  <2>2. CASE running' = FALSE /\ UNCHANGED <<page, modal, lines, contest, drawn>>
    BY <2>2 DEF page, contest, TypeOK
  <2>3. CASE TurnPage(k) \/ Unlock \/ OpenWindow(k)
    BY <1>3, <2>3, TurnPageType, OpenType DEF PageKey
  <2>4. QED  BY <1>3, <2>1, <2>2, <2>3 DEF PageKey
<1>4. CASE UNCHANGED vars
  BY <1>4 DEF vars, page, contest, TypeOK
<1>5. QED
  BY <1>1, <1>2, <1>3, <1>4, BetweenType DEF Next, OnKey

\* Windows and pages keep their ranges, for all constants.
THEOREM TypeCorrect == Spec => []TypeOK
<1>1. Init => TypeOK
  <2> SUFFICES ASSUME Init  PROVE TypeOK
    OBVIOUS
  <2>1. PageOK
    <3>1. 0 \in 0..MaxText /\ 0 \in 0..MaxDepth /\ 0 \in 0..FarDown
      BY DEF FarDown
    <3>2. QED  BY <3>1 DEF Init, PageOK
  <2>2. WindowsOK
    BY DEF Init, WindowsOK, Modals
  <2>3. ContestOK
    <3>1. << >> \in Seq(Letters) /\ Len(<< >>) <= NameWidth
      OBVIOUS
    <3>2. QED  BY <3>1 DEF Init, ContestOK, NoGame, NoFinale
  <2>4. QED  BY <2>1, <2>2, <2>3, TypeParts DEF Init
<1>2. QED  BY <1>1, NextType, PTL DEF Spec

-----------------------------------------------------------------------------
(* The board and the best score. OneRecordPerRun is not inductive: that a  *)
(* run has not been recorded while the line for its name is open, and that *)
(* no line is open without a board, carry it over the keys of the game.    *)

\* What holds between the game, its board and what App keeps of it.
ContestInv ==
    /\ OneRecordPerRun
    /\ game.over => game.on
    /\ finale.box => finale.shown
    /\ game.on /\ (~finale.shown \/ finale.box) => records = 0
    /\ game.on => ShownBest(game) = dinoBest

\* The best score goes on from what it was.
BestGoesOn ==
    /\ dinoBest' >= dinoBest
    /\ game'.on => ShownBest(game') = dinoBest'

\* A step that leaves the game alone and neither opens nor leaves it.
LEMMA ContestAlone ==
    ASSUME TypeOK, ContestInv, UNCHANGED contest, modal = "Dino" <=> modal' = "Dino"
    PROVE  ContestInv' /\ BestGoesOn
BY DEF TypeOK, ContestInv, OneRecordPerRun, contest, ShownBest, BestGoesOn

\* The line for the name records at most once: the record closes it.
LEMMA ContestName ==
    ASSUME TypeOK, ContestInv, NEW k \in Keys, NameKey(k), modal = "Dino", UNCHANGED dinoBest
    PROVE  ContestInv' /\ BestGoesOn
<1>1. game.on /\ finale.shown /\ finale.box /\ records = 0
  BY DEF ContestInv, OneRecordPerRun, NameKey
<1>2. UNCHANGED <<game, modal>>
  BY DEF NameKey
<1>3. finale'.shown
      /\ \/ UNCHANGED records
         \/ ~finale'.box /\ records' \in {records, records + 1}
  <2>1. CASE SubmitDinoName
    BY <1>1, <2>1 DEF SubmitDinoName, TypeOK
  <2>2. CASE \E name \in Seq(Letters) : finale' = [finale EXCEPT !.name = name] /\ UNCHANGED records
    BY <1>1, <2>2 DEF TypeOK
  <2>3. CASE finale' = [finale EXCEPT !.box = FALSE, !.name = << >>] /\ UNCHANGED records
    BY <1>1, <2>3 DEF TypeOK
  <2>4. CASE finale' = finale /\ UNCHANGED records
    BY <1>1, <2>4
  <2>5. SubSeq(finale.name, 1, Most(Len(finale.name) - 1, 0)) \in Seq(Letters)
        /\ \A l \in Letters : Len(finale.name) < NameWidth => Append(finale.name, l) \in Seq(Letters)
    BY NameType DEF TypeOK
  <2>6. "space" \in Letters /\ "letter" \in Letters
    BY DEF Letters
  <2>7. QED  BY <2>1, <2>2, <2>3, <2>4, <2>5, <2>6 DEF NameKey
<1>4. ShownBest(game') = dinoBest' /\ dinoBest \in Int
  BY <1>1, <1>2 DEF ContestInv, ShownBest, TypeOK
<1>5. QED  BY <1>1, <1>2, <1>3, <1>4 DEF ContestInv, OneRecordPerRun, BestGoesOn, TypeOK

\* A new run starts with no board, no record and the best score so far.
LEMMA ContestGame ==
    ASSUME TypeOK, ContestInv, NEW k \in Keys, GameKey(k), modal = "Dino", UNCHANGED dinoBest
    PROVE  ContestInv' /\ BestGoesOn
<1>1. game.on /\ ~finale.box /\ modal' = modal /\ dinoBest \in 0..MaxScore
      /\ game.score \in 0..MaxScore /\ game.best \in 0..MaxScore
  BY DEF ContestInv, OneRecordPerRun, GameKey, TypeOK
<1>2. CASE Restarts(k)
  <2>1. game' = NewGame(dinoBest) /\ records' = 0
    BY <1>1, <1>2 DEF GameKey, Restarted, ContestInv
  <2>2. finale' = NoFinale
    BY <1>2, <2>1 DEF GameKey, NewGame
  <2>3. ShownBest(game') = dinoBest
    BY <1>1, <2>1 DEF ShownBest, NewGame, Most
  <2>4. QED
    BY <1>1, <2>1, <2>2, <2>3 DEF ContestInv, OneRecordPerRun, BestGoesOn, NewGame, NoFinale
<1>3. CASE ~Restarts(k)
  <2>1. game' = game /\ records' = records
        /\ finale' = IF game.over THEN finale ELSE NoFinale
    BY <1>3 DEF GameKey
  <2>2. ShownBest(game') = dinoBest'
    BY <1>1, <2>1 DEF ContestInv, ShownBest
  <2>3. QED
    BY <1>1, <2>1, <2>2 DEF ContestInv, OneRecordPerRun, BestGoesOn, NoFinale
<1>4. QED  BY <1>2, <1>3

\* The clock of the game: a run that ends gets its board, and no other.
LEMMA ContestTick ==
    ASSUME TypeOK, ContestInv, TickGame
    PROVE  ContestInv' /\ BestGoesOn
<1>1. game.on /\ modal' = modal /\ records' = records /\ dinoBest \in 0..MaxScore
      /\ game.score \in 0..MaxScore /\ game.best \in 0..MaxScore
      /\ modal = "Dino" /\ ShownBest(game) = dinoBest
  BY DEF TickGame, ContestInv, OneRecordPerRun, TypeOK
<1>2. PICK g \in Ticked(game) :
          /\ game' = g
          /\ dinoBest' = Most(dinoBest, ShownBest(g))
          /\ IF g.over /\ ~finale.shown
             THEN \E b \in BOOLEAN : finale' = [shown |-> TRUE, box |-> b, name |-> << >>]
             ELSE UNCHANGED finale
  BY DEF TickGame
<1>3. CASE game.over
  <2>1. g = game /\ finale' = finale
    BY <1>2, <1>3 DEF Ticked, ContestInv, OneRecordPerRun
  <2>2. dinoBest' = dinoBest
    BY <1>1, <1>2, <2>1 DEF Most
  <2>3. QED
    BY <1>1, <1>2, <2>1, <2>2 DEF ContestInv, OneRecordPerRun, BestGoesOn
<1>4. CASE ~game.over
  <2>1. ~finale.shown /\ ~finale.box /\ records = 0
    BY <1>1, <1>4 DEF ContestInv, OneRecordPerRun
  <2>2. PICK s \in {game.score, Least(game.score + 1, MaxScore)} :
            \/ g = [on |-> TRUE, score |-> s, best |-> game.best, over |-> FALSE, fresh |-> FALSE]
            \/ g = [on |-> TRUE, score |-> s, best |-> Most(game.best, s),
                    over |-> TRUE, fresh |-> TRUE]
    BY <1>2, <1>4 DEF Ticked
  <2>3. s \in Int /\ s >= game.score
    BY <1>1, <2>2 DEF Least
  <2>4. g.on /\ g.score = s /\ g.best \in {game.best, Most(game.best, s)}
    BY <2>2
  <2>5. ShownBest(g) = Most(game.best, s)
    BY <1>1, <2>3, <2>4 DEF ShownBest, Most
  <2>6. Most(game.best, s) >= dinoBest /\ Most(game.best, s) \in Int
    <3>1. \A b, c, d \in Int : d >= c => Most(b, d) >= Most(b, c) /\ Most(b, d) \in Int
      BY DEF Most
    <3>2. dinoBest = Most(game.best, game.score)
      BY <1>1 DEF ShownBest
    <3>3. game.best \in Int /\ game.score \in Int
      BY <1>1
    <3>4. QED  BY <2>3, <3>1, <3>2, <3>3
  <2>7. dinoBest' = ShownBest(g) /\ dinoBest' >= dinoBest
    <3>1. dinoBest \in Int
      BY <1>1
    <3>2. \A b, c \in Int : c >= b => Most(b, c) = c
      BY DEF Most
    <3>3. QED  BY <1>2, <2>5, <2>6, <3>1, <3>2
  <2>8. (finale'.shown <=> g.over) /\ (finale'.box => finale'.shown)
    <3>1. CASE g.over
      <4>1. PICK b \in BOOLEAN : finale' = [shown |-> TRUE, box |-> b, name |-> << >>]
        BY <1>2, <2>1, <3>1
      <4>2. finale'.shown
        BY <4>1
      <4>3. QED  BY <3>1, <4>2
    <3>2. CASE ~g.over
      <4>1. finale' = finale
        BY <1>2, <3>2
      <4>2. QED  BY <2>1, <3>2, <4>1
    <3>3. QED  BY <3>1, <3>2
  <2>9. finale'.shown <=> game'.over
    BY <1>2, <2>2, <2>8
  <2>10. QED
    BY <1>1, <1>2, <2>1, <2>4, <2>7, <2>8, <2>9 DEF ContestInv, OneRecordPerRun, BestGoesOn
<1>5. QED  BY <1>3, <1>4

\* The end of the grace changes nothing of it.
LEMMA ContestGrace ==
    ASSUME TypeOK, ContestInv, GraceEnds
    PROVE  ContestInv' /\ BestGoesOn
<1>1. /\ game'.on = game.on /\ game'.over = game.over
      /\ game'.score = game.score /\ game'.best = game.best
  BY DEF GraceEnds, TypeOK
<1>2. UNCHANGED <<modal, finale, dinoBest, records>> /\ dinoBest \in Int
  BY DEF GraceEnds, TypeOK
<1>3. ShownBest(game') = ShownBest(game)
  BY <1>1 DEF ShownBest
<1>4. QED  BY <1>1, <1>2, <1>3 DEF ContestInv, OneRecordPerRun, BestGoesOn

\* One step keeps all of it, and the best score goes on.
LEMMA ContestNext ==
    ASSUME TypeOK, ContestInv, [Next]_vars
    PROVE  ContestInv' /\ BestGoesOn
<1>1. ASSUME NEW k \in Keys, FilterKey(k)  PROVE ContestInv' /\ BestGoesOn
  BY <1>1, ContestAlone DEF FilterKey
<1>2. ASSUME NEW k \in Keys, WindowKey(k)  PROVE ContestInv' /\ BestGoesOn
  <2>1. CASE TextKey(k) \/ AnyKeyCloses(k)
    BY <2>1, ContestAlone DEF TextKey, AnyKeyCloses, TextWindows
  <2>2. CASE modal = "Dino" /\ NameKey(k) /\ UNCHANGED dinoBest
    BY <2>2, ContestName
  <2>3. CASE modal = "Dino" /\ GameKey(k) /\ UNCHANGED dinoBest
    BY <2>3, ContestGame
  <2>4. CASE LeaveGame(k) /\ UNCHANGED dinoBest
    <3>1. dinoBest \in Int /\ records' = records /\ records \in Nat
      BY <2>4 DEF LeaveGame, TypeOK
    <3>2. QED
      BY <2>4, <3>1
      DEF LeaveGame, NoGame, NoFinale, ContestInv, OneRecordPerRun, BestGoesOn
  <2>5. QED  BY <1>2, <2>1, <2>2, <2>3, <2>4 DEF WindowKey, DinoKey
<1>3. ASSUME NEW k \in Keys, PageKey(k)  PROVE ContestInv' /\ BestGoesOn
  <2>1. modal = "None"
    BY <1>3 DEF PageKey
  <2>2. CASE k = "g" /\ OpenWindow(k)
    <3>1. ~game.on /\ ~game.over /\ ~finale.shown /\ ~finale.box /\ dinoBest \in 0..MaxScore
      BY <2>1 DEF ContestInv, OneRecordPerRun, TypeOK
    <3>2. game' = NewGame(dinoBest) /\ records' = 0 /\ modal' = "Dino"
          /\ UNCHANGED <<finale, dinoBest>>
      BY <2>2 DEF OpenWindow
    <3>3. ShownBest(game') = dinoBest
      BY <3>1, <3>2 DEF ShownBest, NewGame, Most
    <3>4. QED  BY <3>1, <3>2, <3>3 DEF NewGame, ContestInv, OneRecordPerRun, BestGoesOn
  <2>3. CASE UNCHANGED contest /\ modal' # "Dino"
    BY <2>1, <2>3, ContestAlone
  <2>4. CASE TurnPage(k) \/ Unlock
    <3>1. UNCHANGED contest /\ modal' # "Dino"
      BY <2>1, <2>4 DEF TurnPage, Unlock
    <3>2. QED  BY <2>3, <3>1
  <2>5. CASE Ascend /\ UNCHANGED contest
    <3>1. modal' # "Dino"
      BY <2>1, <2>5 DEF Ascend
    <3>2. QED  BY <2>3, <2>5, <3>1
  <2>6. CASE k # "g" /\ OpenWindow(k)
    BY <2>1, <2>3, <2>6 DEF OpenWindow, contest
  <2>7. CASE UNCHANGED <<modal, contest>>
    BY <2>1, <2>3, <2>7
  <2>8. QED  BY <1>3, <2>2, <2>4, <2>5, <2>6, <2>7 DEF PageKey
<1>4. CASE CtrlC \/ Draw \/ Ended \/ UNCHANGED vars
  BY <1>4, ContestAlone DEF CtrlC, Draw, Ended, vars
<1>5. QED
  BY <1>1, <1>2, <1>3, <1>4, ContestTick, ContestGrace DEF Next, OnKey

\* It holds from the start.
LEMMA ContestInit == Init => ContestInv
BY DEF Init, ContestInv, OneRecordPerRun, NoGame, NoFinale, Modals

\* The inductive invariant: types and contest.
LEMMA ContestHolds == Spec => [](TypeOK /\ ContestInv)
<1>1. TypeOK /\ ContestInv /\ [Next]_vars => (TypeOK /\ ContestInv)'
  BY NextType, ContestNext
<1>2. Spec => []TypeOK
  BY TypeCorrect
<1>3. QED  BY <1>1, <1>2, ContestInit, PTL DEF Spec

\* The board on the screen is that of the run that has ended, and a run gets
\* on it once (tick_game, submit_dino_name), for any scores and names.
THEOREM RunsRecordedOnce == Spec => []OneRecordPerRun
<1>1. ContestInv => OneRecordPerRun
  BY DEF ContestInv
<1>2. QED  BY <1>1, ContestHolds, PTL

\* The best score is kept over restarts and closed games (restart, tick_game).
THEOREM BestIsNeverLost == Spec => BestIsKept
<1>1. TypeOK /\ ContestInv /\ [Next]_vars =>
        [/\ dinoBest' >= dinoBest
         /\ game'.on => ShownBest(game') = dinoBest']_vars
  BY ContestNext DEF BestGoesOn
<1>2. QED  BY <1>1, ContestHolds, PTL DEF Spec, BestIsKept

\* A window has the keys to itself (on_key_modal), whatever page is under it.
THEOREM WindowsOwnInput == Spec => WindowOwnsInput
<1>1. ASSUME TypeOK, [Next]_vars, modal # "None"
      PROVE  UNCHANGED <<view, paused, filtering, filter, scroll>> /\ (UNCHANGED depth \/ Draw)
  <2>1. ~filtering
    BY <1>1 DEF TypeOK
  <2>2. ASSUME NEW k \in Keys, OnKey(k)  PROVE UNCHANGED page
    BY <1>1, <2>1, <2>2
    DEF OnKey, FilterKey, WindowKey, PageKey, TextKey, AnyKeyCloses, DinoKey
  <2>3. CASE CtrlC \/ TickGame \/ GraceEnds \/ Ended \/ UNCHANGED vars
    BY <2>3 DEF CtrlC, TickGame, GraceEnds, Ended, vars, page
  <2>4. CASE Draw
    BY <2>4 DEF Draw
  <2>5. QED  BY <1>1, <2>2, <2>3, <2>4 DEF Next, page
<1>2. TypeOK /\ [Next]_vars =>
        [modal # "None" => UNCHANGED <<view, paused, filtering, filter, scroll>>
                           /\ (UNCHANGED depth \/ Draw)]_vars
  BY <1>1
<1>3. QED  BY <1>2, TypeCorrect, PTL DEF Spec, WindowOwnsInput

-----------------------------------------------------------------------------
(* Esc *)

\* Esc makes one of the five parts of Level smaller and none of them larger,
\* or there is nothing left to go up from.
LEMMA EscStep ==
    ASSUME TypeOK, OnKey("Esc")
    PROVE  \/ UNCHANGED vars
           \/ /\ running'
              /\ depth' \in 0..depth
              /\ filtering' => filtering
              /\ finale'.box => finale.box
              /\ modal' # "None" => modal # "None"
              /\ view' # Overview => view # Overview
              /\ \/ filtering /\ ~filtering'
                 \/ finale.box /\ ~finale'.box
                 \/ modal # "None" /\ modal' = "None"
                 \/ depth' < depth
                 \/ view # Overview /\ view' = Overview
<1>1. running /\ depth \in Nat /\ depth \in 0..depth
  BY DEF OnKey, TypeOK
<1>2. CASE FilterKey("Esc")
  BY <1>1, <1>2 DEF FilterKey, contest, Text
<1>3. CASE WindowKey("Esc")
  <2>1. CASE TextKey("Esc") \/ AnyKeyCloses("Esc")
    BY <1>1, <1>3, <2>1
    DEF WindowKey, TextKey, AnyKeyCloses, TextWindows, page, contest
  <2>2. CASE NameKey("Esc") /\ UNCHANGED page
    <3>1. finale.box /\ modal' = modal
      BY <2>2 DEF NameKey
    <3>2. finale' = [finale EXCEPT !.box = FALSE, !.name = << >>]
      BY <2>2 DEF NameKey, Text
    <3>3. ~finale'.box
      BY <3>2 DEF TypeOK
    <3>4. QED  BY <1>1, <1>3, <2>2, <3>1, <3>3 DEF WindowKey, page
  <2>3. CASE LeaveGame("Esc") /\ UNCHANGED page /\ modal = "Dino"
    BY <1>1, <1>3, <2>3 DEF WindowKey, LeaveGame, NoFinale, page
  <2>4. QED  BY <1>3, <2>1, <2>2, <2>3 DEF WindowKey, DinoKey, GameKey
<1>4. CASE PageKey("Esc")
  <2>1. Ascend /\ UNCHANGED <<lines, contest, drawn>> /\ modal = "None"
    BY <1>4 DEF PageKey, TurnPage, OpenWindow, Arrows
  <2>2. CASE depth > 0
    <3>1. Parent \in 0..depth /\ Parent < depth
      BY <1>1, <2>2 DEF Parent
    <3>2. QED  BY <1>1, <2>1, <2>2, <3>1 DEF Ascend, contest
  <2>3. CASE ~(depth > 0) /\ view # Overview
    BY <1>1, <2>1, <2>3 DEF Ascend, ShowPage, contest
  <2>4. CASE ~(depth > 0) /\ view = Overview
    BY <2>1, <2>4 DEF Ascend, vars
  <2>5. QED  BY <2>2, <2>3, <2>4
<1>5. QED  BY <1>2, <1>3, <1>4 DEF OnKey

\* A sum falls when one part of it falls and no other rises.
LEMMA SumFalls ==
    ASSUME NEW a1 \in Nat, NEW b1 \in Nat, NEW c1 \in Nat, NEW d1 \in Nat, NEW e1 \in Nat,
           NEW a2 \in Nat, NEW b2 \in Nat, NEW c2 \in Nat, NEW d2 \in Nat, NEW e2 \in Nat,
           a2 <= a1, b2 <= b1, c2 <= c1, d2 <= d1, e2 <= e1,
           a2 < a1 \/ b2 < b1 \/ c2 < c1 \/ d2 < d1 \/ e2 < e1
    PROVE  a2 + b2 + c2 + d2 + e2 < a1 + b1 + c1 + d1 + e1
OBVIOUS

\* Esc goes up a level at least and does not leave the program (on_key,
\* 「不會離開程式」), however many levels of panels there are.
THEOREM EscAlwaysGoesUp == Spec => EscGoesUp
<1>1. ASSUME TypeOK, OnKey("Esc"), ~UNCHANGED vars  PROVE Level' < Level /\ running'
  <2> DEFINE line  == IF filtering THEN 1 ELSE 0
             box   == IF finale.box THEN 1 ELSE 0
             top   == IF modal # "None" THEN 1 ELSE 0
             away  == IF view # Overview THEN 1 ELSE 0
  <2>1. depth \in Nat /\ depth' \in Nat /\ depth' <= depth
    BY <1>1, EscStep DEF TypeOK
  <2>2. line' <= line /\ box' <= box /\ top' <= top /\ away' <= away
    BY <1>1, EscStep DEF Overview
  <2>3. line' < line \/ box' < box \/ top' < top \/ depth' < depth \/ away' < away
    BY <1>1, EscStep DEF Overview
  <2>4. line \in Nat /\ box \in Nat /\ top \in Nat /\ away \in Nat
        /\ line' \in Nat /\ box' \in Nat /\ top' \in Nat /\ away' \in Nat
    OBVIOUS
  <2>5. Level = line + box + top + depth + away
    BY DEF Level, Overview
  <2>6. Level' = line' + box' + top' + depth' + away'
    BY DEF Level, Overview
  <2>7. running'
    BY <1>1, EscStep
  <2> HIDE DEF line, box, top, away
  <2>8. line' + box' + top' + depth' + away' < line + box + top + depth + away
    BY <2>1, <2>2, <2>3, <2>4, SumFalls, ZenonT(30)
  <2>9. Level' < Level
    BY <2>5, <2>6, <2>8
  <2>10. QED  BY <2>7, <2>9
<1>2. TypeOK /\ [Next]_vars => [OnKey("Esc") => Level' < Level /\ running']_vars
  <2> SUFFICES ASSUME TypeOK, vars' # vars, OnKey("Esc")  PROVE Level' < Level /\ running'
    OBVIOUS
  <2>1. QED  BY <1>1
<1>3. QED  BY <1>2, TypeCorrect, PTL DEF Spec, EscGoesUp

-----------------------------------------------------------------------------
(* The loop *)

HIDE WindowsAssumption

\* Every set of dates has an earliest one.
LEMMA EarliestIsLeast ==
    ASSUME NEW D, D \subseteq Nat, D # {}
    PROVE  L!Earliest(D) \in D /\ \A e \in D : L!Earliest(D) <= e
<1> DEFINE Less == {ss \in Nat \X Nat : ss[1] < ss[2]}
<1>1. IsWellFoundedOn(Less, Nat)
    BY NatLessThanWellFounded DEF OpToRel
<1>2. PICK d \in D : \A e \in D : <<e, d>> \notin Less
    <2> HIDE DEF Less
    <2> QED BY <1>1, WFMin, Zenon
<1>3. \A e \in D : d <= e
    <2> TAKE e \in D
    <2>1. ~(e < d)
        BY <1>2
    <2> QED BY <2>1
<1> QED BY <1>3 DEF L!Earliest

\* The constants, with their ranges.
LEMMA Bounds ==
    /\ Process \in Samplers
    /\ Every \in [Samplers -> Nat \ {0}]
    /\ PendingNap \in Nat \ {0} /\ Frame \in Nat \ {0} /\ IdleFrame \in Nat \ {0}
    /\ ClockTick \in Nat \ {0} /\ Settle \in Nat \ {0} /\ AnimPeriod \in Nat \ {0}
    /\ Hold \in Nat \ {0} /\ MaxNap \in Nat \ {0}
    /\ MaxDraw \in Nat /\ MaxEvents \in Nat
    /\ IdleFrame <= ClockTick /\ 2 * Frame <= ClockTick
BY MainLoopAssumption DEF L!LoopBounds

-----------------------------------------------------------------------------
(* The inductive invariant *)

\* Nothing is undrawn for longer than the last drawing is ago.
Ages ==
    /\ late <= L!Most(2 * Frame, IdleFrame)
    /\ late <= sinceDraw
    /\ ~L!Dirty => late = 0
    /\ sinceDraw <= L!Most(ClockTick, MaxDraw + 1)

\* The clock in the header has had its turn before the loop decides to sleep.
Turned == pc = "paint" /\ ~bgDirty => sinceDraw < ClockTick

\* What the loop sleeps on, if no event has come.
Asleep ==
    pc = "nap" /\ waiting = 0 =>
        /\ ~inputDirty
        /\ bgDirty => sinceDraw < L!MinFrame
        /\ ~bgDirty => sinceDraw < ClockTick \/ sinceDraw <= MaxDraw

\* What was due has been sampled, and a draw may have been blocked since.
Collectors ==
    \A s \in Samplers :
        /\ pc = "paint" /\ ~stopped => since[s] < Every[s]
        /\ pc = "nap" /\ ~stopped => since[s] < Every[s] + MaxDraw

LoopInv == L!TypeOK /\ Ages /\ Turned /\ Asleep /\ Collectors

-----------------------------------------------------------------------------
(* How long the loop sleeps *)

\* Minus and the two choices, on numbers.
LEMMA Choices ==
    ASSUME NEW a \in Nat, NEW b \in Nat
    PROVE  /\ L!Minus(a, b) \in Nat
           /\ a >= b => L!Minus(a, b) = a - b
           /\ a < b => L!Minus(a, b) = 0
           /\ L!Least(a, b) \in {a, b} /\ L!Least(a, b) <= a /\ L!Least(a, b) <= b
           /\ L!Most(a, b) \in {a, b} /\ L!Most(a, b) >= a /\ L!Most(a, b) >= b
BY DEF L!Minus, L!Least, L!Most

\* A frame of the game or of the page is a number, and short.
LEMMA Frames ==
    /\ L!MinFrame \in Nat \ {0}
    /\ L!MinFrame <= L!Most(2 * Frame, IdleFrame)
    /\ L!MinFrame <= ClockTick
    /\ L!Most(2 * Frame, IdleFrame) <= ClockTick
    /\ L!Most(2 * Frame, IdleFrame) \in Nat
BY Bounds DEF L!MinFrame, L!Most

\* The first sample due: no later than that of any collector.
LEMMA NextSample ==
    ASSUME L!TypeOK
    PROVE  /\ L!UntilSample \in Nat
           /\ ~stopped => \A s \in Samplers : L!UntilSample <= L!Minus(Every[s], since[s])
<1> DEFINE ofClocks == {L!Minus(Every[s], since[s]) : s \in Samplers}
           dates == ofClocks \cup (IF pending = "no" THEN {} ELSE {PendingNap})
<1>1. \A s \in Samplers : Every[s] \in Nat /\ since[s] \in Nat
    BY Bounds DEF L!TypeOK
<1>2. ofClocks \subseteq Nat
    BY <1>1, Choices
<1>3. dates \subseteq Nat /\ L!Minus(Every[Process], since[Process]) \in dates
    BY <1>2, Bounds
<1>4. L!Earliest(dates) \in Nat /\ \A d \in dates : L!Earliest(dates) <= d
    <2> HIDE DEF dates
    <2> QED BY <1>3, EarliestIsLeast
<1>5. CASE stopped
    BY <1>5, Bounds DEF L!UntilSample
<1>6. CASE ~stopped
    <2>1. L!UntilSample = L!Earliest(dates)
        BY <1>6 DEF L!UntilSample
    <2>2. \A s \in Samplers : L!Minus(Every[s], since[s]) \in dates
        OBVIOUS
    <2> HIDE DEF dates
    <2> QED BY <1>4, <2>1, <2>2
<1> QED BY <1>5, <1>6

\* A sleep ends with the first of the dates, or is the shortest there is.
LEMMA Sleep ==
    ASSUME L!TypeOK
    PROVE  /\ L!Wait \in Nat \ {0}
           /\ L!Wait <= L!Most(1, L!Minus(ClockTick, sinceDraw))
           /\ bgDirty /\ ~inputDirty =>
                L!Wait <= L!Most(1, L!Minus(L!MinFrame, sinceDraw))
           /\ ~stopped => \A s \in Samplers :
                L!Wait <= L!Most(1, L!Minus(Every[s], since[s]))
<1> DEFINE dates == {L!UntilSample, L!UntilClock, L!UntilAnimation, L!UntilGame,
                     L!UntilFrame}
<1>1. /\ sinceDraw \in Nat /\ sinceInput \in Nat /\ sinceAnim \in Nat
      /\ sinceFrame \in Nat
    BY Bounds DEF L!TypeOK, L!DrawLimit, L!Most
<1>2. L!UntilClock \in Nat /\ L!UntilClock = L!Minus(ClockTick, sinceDraw)
    BY <1>1, Bounds, Choices DEF L!UntilClock
<1>3. L!UntilAnimation \in Nat
    BY <1>1, Bounds, Choices DEF L!UntilAnimation
<1>4. L!UntilGame \in Nat
    BY <1>1, Bounds, Choices DEF L!UntilGame
<1>5. /\ L!UntilFrame \in Nat
      /\ bgDirty /\ ~inputDirty => L!UntilFrame = L!Minus(L!MinFrame, sinceDraw)
    BY <1>1, Bounds, Frames, Choices DEF L!UntilFrame
<1>6. /\ L!Earliest(dates) \in Nat
      /\ L!Earliest(dates) <= L!UntilSample
      /\ L!Earliest(dates) <= L!UntilClock
      /\ L!Earliest(dates) <= L!UntilFrame
    <2>1. dates \subseteq Nat /\ dates # {}
        BY <1>2, <1>3, <1>4, <1>5, NextSample
    <2>2. L!UntilSample \in dates /\ L!UntilClock \in dates /\ L!UntilFrame \in dates
        OBVIOUS
    <2> HIDE DEF dates
    <2> QED BY <2>1, <2>2, EarliestIsLeast
<1>7. L!Wait = L!Most(1, L!Least(MaxNap, L!Earliest(dates)))
    BY DEF L!Wait
<1>8. \A x \in Nat : L!Earliest(dates) <= x => L!Wait <= L!Most(1, x)
    <2> HIDE DEF dates
    <2> QED BY <1>6, <1>7, Bounds DEF L!Most, L!Least
<1>9. L!Wait \in Nat \ {0}
    <2> HIDE DEF dates
    <2> QED BY <1>6, <1>7, Bounds DEF L!Most, L!Least
<1>10. \A s \in Samplers : L!Minus(Every[s], since[s]) \in Nat
    BY Bounds, Choices DEF L!TypeOK
<1>11. ~stopped => \A s \in Samplers :
                    L!Earliest(dates) <= L!Minus(Every[s], since[s])
    <2> HIDE DEF dates
    <2> QED BY <1>6, <1>10, NextSample
<1> QED
    <2> HIDE DEF dates
    <2> QED BY <1>2, <1>5, <1>6, <1>8, <1>9, <1>10, <1>11

-----------------------------------------------------------------------------
(* Types *)

\* However long it takes, the clocks keep their ranges.
LEMMA ClocksInRange ==
    ASSUME L!TypeOK, NEW t \in Nat, L!ClocksRun(t)
    PROVE  /\ sinceInput' \in 0..Settle
           /\ sinceAnim' \in 0..AnimPeriod
           /\ since' \in [Samplers -> Nat]
           /\ \A s \in Samplers : since'[s] <= L!SamplerLimit(s) /\ since'[s] <= since[s] + t
           /\ sinceFrame' \in 0..Frame
<1>1. \A s \in Samplers : since[s] \in Nat /\ L!SamplerLimit(s) \in Nat
    BY Bounds DEF L!TypeOK, L!SamplerLimit
<1>2. /\ since' \in [Samplers -> Nat]
      /\ \A s \in Samplers : since'[s] <= L!SamplerLimit(s) /\ since'[s] <= since[s] + t
    <2>1. since' = [s \in Samplers |-> L!Least(since[s] + t, L!SamplerLimit(s))]
        BY DEF L!ClocksRun
    <2>2. \A s \in Samplers :
            LET x == L!Least(since[s] + t, L!SamplerLimit(s))
            IN  x \in Nat /\ x <= L!SamplerLimit(s) /\ x <= since[s] + t
        BY <1>1 DEF L!Least
    <2> QED BY <2>1, <2>2
<1>3. /\ sinceInput' \in 0..Settle
      /\ sinceAnim' \in 0..AnimPeriod
      /\ sinceFrame' \in 0..Frame
    BY Bounds DEF L!TypeOK, L!ClocksRun, L!Least
<1> QED BY <1>2, <1>3

\* The limits of the clocks, as numbers.
LEMMA Limits ==
    /\ L!DrawLimit \in Nat /\ L!DrawLimit > ClockTick /\ L!DrawLimit > MaxDraw
    /\ L!LateLimit \in Nat /\ L!LateLimit = L!Most(2 * Frame, IdleFrame) + 1
BY Bounds DEF L!DrawLimit, L!LateLimit, L!Most

\* Choosing how long to sleep keeps the types.
LEMMA NapTypes ==
    ASSUME L!TypeOK, Ages, Asleep, L!Nap
    PROVE  L!TypeOK'
<1>1. CASE waiting > 0 /\ UNCHANGED <<waiting, left, L!clocks>>
    BY <1>1 DEF L!TypeOK, L!Nap, L!clocks, L!state, L!dirt
<1>2. ASSUME NEW t \in Nat, L!Passed(t), waiting' + left' <= MaxEvents,
             waiting' \in Nat, left' \in Nat
      PROVE  L!TypeOK'
    <2>1. /\ sinceDraw' \in 0..L!DrawLimit
          /\ slowFor' \in 0..Hold
          /\ late' \in 0..L!LateLimit
        BY <1>2, Bounds, Limits DEF L!TypeOK, L!Passed, L!Least, L!Minus, L!Most
    <2> QED BY <1>2, <2>1, ClocksInRange
            DEF L!TypeOK, L!Nap, L!Passed, L!state, L!dirt, L!SamplerLimit
<1> QED
    BY <1>1, <1>2, Sleep DEF L!Nap, L!TypeOK

\* So does drawing.
LEMMA DrawTypes ==
    ASSUME L!TypeOK, L!Draw
    PROVE  L!TypeOK'
<1>1. PICK t \in 0..MaxDraw :
        /\ L!ClocksRun(t)
        /\ sinceDraw' = t
        /\ slowFor' = IF t > L!MinFrame THEN L!Minus(Hold, t) ELSE L!Minus(slowFor, t)
    BY DEF L!Draw
<1>2. slowFor' \in 0..Hold
    BY <1>1, Bounds, Frames DEF L!TypeOK, L!Minus, L!Most
<1>3. sinceDraw' \in 0..L!DrawLimit
    BY <1>1, Bounds, Limits
<1>4. /\ sinceInput' \in 0..Settle /\ sinceAnim' \in 0..AnimPeriod
      /\ since' \in [Samplers -> Nat] /\ sinceFrame' \in 0..Frame
      /\ \A s \in Samplers : since'[s] <= L!SamplerLimit(s)
    BY <1>1, ClocksInRange
<1>5. late' = 0 /\ pc' = "nap" /\ mascot' \in BOOLEAN /\ late' \in 0..L!LateLimit
      /\ inputDirty' = FALSE /\ bgDirty' = FALSE
    BY Limits DEF L!Draw
<1>6. UNCHANGED <<waiting, left, hadInput, interacting, pending, stopped, contestOn>>
    BY DEF L!Draw, L!events
<1> QED BY <1>2, <1>3, <1>4, <1>5, <1>6 DEF L!TypeOK, L!SamplerLimit

\* And the work of a round.
LEMMA WorkTypes ==
    ASSUME L!TypeOK, L!Work
    PROVE  L!TypeOK'
<1>1. since' \in [Samplers -> Nat] /\ \A s \in Samplers : since'[s] <= L!SamplerLimit(s)
    BY Bounds DEF L!TypeOK, L!Work, L!SamplerLimit
<1>2. sinceInput' \in 0..Settle /\ sinceAnim' \in 0..AnimPeriod /\ sinceFrame' \in 0..Frame
    BY Bounds DEF L!TypeOK, L!Work, L!InputAge
<1>3. pending' \in {"no", "scanning", "answered"}
    BY DEF L!TypeOK, L!Work, L!PendingAfterSample
<1>4. contestOn' \in {"none", "running", "over"} /\ bgDirty' \in BOOLEAN
    BY DEF L!TypeOK, L!Work
<1>5. interacting' \in BOOLEAN /\ hadInput' \in BOOLEAN /\ pc' = "paint"
    <2>1. interacting' = (L!InputAge < Settle)
        BY DEF L!Work
    <2>2. interacting' \in BOOLEAN
        BY <2>1, SMT
    <2> QED BY <2>2 DEF L!Work
<1>6. UNCHANGED <<waiting, left, inputDirty, sinceDraw, slowFor, late, stopped, mascot>>
    BY DEF L!Work
<1> QED BY <1>1, <1>2, <1>3, <1>4, <1>5, <1>6 DEF L!TypeOK, L!SamplerLimit, L!DrawLimit, L!LateLimit

\* What a key does, and the rest of the reading.
LEMMA ReadTypes ==
    ASSUME L!TypeOK, L!Read
    PROVE  L!TypeOK'
<1> USE Limits, Bounds
<1>1. CASE L!ReadKey
    <2>1. stopped' \in BOOLEAN /\ contestOn' \in {"none", "running", "over"}
        BY <1>1 DEF L!ReadKey, L!AfterKey, L!TypeOK
    <2>2. sinceFrame' \in 0..Frame
        BY <1>1 DEF L!ReadKey, L!AfterKey, L!TypeOK
    <2> QED BY <1>1, <2>1, <2>2 DEF L!ReadKey, L!TypeOK, L!SamplerLimit
<1>2. CASE L!ReadQuit
    BY <1>2 DEF L!ReadQuit, L!TypeOK, L!SamplerLimit, L!events, L!dirt, L!clocks, L!state
<1>3. CASE L!ReadResize
    BY <1>3 DEF L!ReadResize, L!TypeOK, L!SamplerLimit, L!state
<1>4. CASE L!ReadNothing
    BY <1>4 DEF L!ReadNothing, L!TypeOK, L!SamplerLimit, L!dirt, L!clocks, L!state
<1>5. CASE L!ReadUnlock
    BY <1>5 DEF L!ReadUnlock, L!TypeOK, L!SamplerLimit, L!clocks, L!state
<1>6. CASE L!Authenticated
    <2>1. PICK t \in 0..MaxNap : L!ClocksRun(t) /\ slowFor' = L!Minus(slowFor, t)
        BY <1>6 DEF L!Authenticated
    <2>2. slowFor' \in 0..Hold
        BY <2>1 DEF L!TypeOK, L!Minus, L!Most
    <2>3. /\ sinceInput' \in 0..Settle /\ sinceAnim' \in 0..AnimPeriod
          /\ since' \in [Samplers -> Nat] /\ sinceFrame' \in 0..Frame
          /\ \A s \in Samplers : since'[s] <= L!SamplerLimit(s)
        BY <2>1, ClocksInRange
    <2> QED BY <1>6, <2>2, <2>3
            DEF L!Authenticated, L!TypeOK, L!SamplerLimit, L!events, L!dirt, L!state
<1>7. CASE L!ReadAll
    BY <1>7 DEF L!ReadAll, L!TypeOK, L!SamplerLimit, L!events, L!dirt, L!clocks, L!state
<1> QED BY <1>1, <1>2, <1>3, <1>4, <1>5, <1>6, <1>7 DEF L!Read

\* Every step keeps the types.
LEMMA StepTypes ==
    ASSUME LoopInv, [L!Next]_L!vars
    PROVE  L!TypeOK'
<1> USE DEF LoopInv
<1>1. CASE L!Read
    BY <1>1, ReadTypes
<1>2. CASE L!Work
    BY <1>2, WorkTypes
<1>3. CASE L!Draw
    BY <1>3, DrawTypes
<1>4. CASE L!NoDraw
    BY <1>4 DEF L!NoDraw, L!TypeOK, L!Dirty, Ages, Asleep, L!events, L!dirt, L!clocks, L!state
<1>5. CASE L!Nap
    BY <1>5, NapTypes
<1>6. CASE L!EventComes
    BY <1>6 DEF L!EventComes, L!TypeOK, L!SamplerLimit, L!dirt, L!clocks, L!state
<1>7. CASE L!WorkerAnswers
    BY <1>7 DEF L!WorkerAnswers, L!TypeOK, L!SamplerLimit, L!Dirty, L!events, L!dirt, L!clocks
<1>8. CASE UNCHANGED L!vars
    BY <1>8 DEF L!vars, L!TypeOK, L!SamplerLimit, L!Dirty, L!events, L!dirt, L!clocks, L!state
<1>9. CASE L!Ended
    BY <1>8, <1>9 DEF L!Ended
<1> QED BY <1>1, <1>2, <1>3, <1>4, <1>5, <1>6, <1>7, <1>8, <1>9 DEF L!Next, L!Loop

-----------------------------------------------------------------------------
(* Ages *)

\* A sleep ends before anything has waited too long, or the clock stood still.
LEMMA NapAges ==
    ASSUME L!TypeOK, Ages, Asleep, L!Nap
    PROVE  Ages'
<1> USE Bounds, Frames, Limits
<1>1. CASE waiting > 0 /\ UNCHANGED <<waiting, left, L!clocks>>
    BY <1>1 DEF L!Nap, Ages, L!clocks, L!dirt, L!Dirty
<1>2. ASSUME NEW t \in Nat, t <= L!Wait, waiting = 0, L!Passed(t)
      PROVE  Ages'
    <2>1. ~inputDirty /\ late \in Nat /\ sinceDraw \in Nat /\ bgDirty \in BOOLEAN
        BY <1>2 DEF Asleep, L!Nap, L!TypeOK
    <2>2. UNCHANGED <<inputDirty, bgDirty>>
        BY DEF L!Nap, L!dirt
    <2>3. sinceDraw' <= sinceDraw + t /\ (sinceDraw' = sinceDraw + t \/ sinceDraw' = L!DrawLimit)
        BY <1>2, <2>1 DEF L!Passed, L!Least
    <2>4. CASE bgDirty
        <3>1. sinceDraw < L!MinFrame /\ t <= L!MinFrame - sinceDraw
            BY <1>2, <2>1, <2>4, Sleep DEF Asleep, L!Nap, L!Most, L!Minus
        <3>2. late' = L!Least(late + t, L!LateLimit)
            BY <1>2, <2>4 DEF L!Passed, L!Dirty
        <3>3. late' <= late + t /\ late' \in Nat
            BY <2>1, <3>2 DEF L!Least
        <3>4. sinceDraw' = sinceDraw + t /\ sinceDraw' <= L!MinFrame
            BY <2>1, <2>3, <3>1
        <3> QED BY <2>1, <2>2, <2>4, <3>1, <3>3, <3>4 DEF Ages, L!Dirty, L!Most
    <2>5. CASE ~bgDirty
        <3>1. t <= L!Most(1, L!Minus(ClockTick, sinceDraw))
            BY <1>2, <2>1, Sleep DEF L!Most, L!Minus
        <3>2. sinceDraw < ClockTick \/ sinceDraw <= MaxDraw
            BY <1>2, <2>5 DEF Asleep, L!Nap
        <3>3. sinceDraw + t <= L!Most(ClockTick, MaxDraw + 1)
            BY <2>1, <3>1, <3>2 DEF L!Most, L!Minus
        <3>4. late' = 0
            BY <1>2, <2>1, <2>5 DEF L!Passed, L!Dirty
        <3>5. sinceDraw' \in Nat
            BY <1>2, <2>1 DEF L!Passed, L!Least
        <3> QED BY <2>1, <2>2, <2>3, <2>5, <3>3, <3>4, <3>5 DEF Ages, L!Dirty, L!Most
    <2> QED BY <2>1, <2>4, <2>5
<1>3. L!Wait \in Nat
    BY Sleep
<1> QED BY <1>1, <1>2, <1>3 DEF L!Nap

\* No age outgrows its bound.
LEMMA StepAges ==
    ASSUME LoopInv, [L!Next]_L!vars
    PROVE  Ages'
<1> USE Bounds, Frames, Limits DEF LoopInv
<1>1. CASE L!ReadKey \/ L!ReadQuit \/ L!ReadNothing \/ L!ReadUnlock \/ L!ReadAll
    BY <1>1 DEF L!ReadKey, L!ReadQuit, L!ReadNothing, L!ReadUnlock, L!ReadAll, Ages,
        L!TypeOK, L!Dirty, L!events, L!dirt, L!clocks
<1>2. CASE L!ReadResize
    BY <1>2 DEF L!ReadResize, Ages, L!TypeOK, L!Dirty, L!Most
<1>3. CASE L!Authenticated
    BY <1>3 DEF L!Authenticated, Ages, L!Most
<1>4. CASE L!Work
    BY <1>4 DEF L!Work, Ages, L!TypeOK, L!Dirty
<1>5. CASE L!Draw
    BY <1>5 DEF L!Draw, Ages, L!Most
<1>6. CASE L!NoDraw \/ L!EventComes \/ L!WorkerAnswers \/ UNCHANGED L!vars
    BY <1>6 DEF L!NoDraw, L!EventComes, L!WorkerAnswers, L!vars, Ages, L!Dirty,
        L!events, L!dirt, L!clocks
<1>7. CASE L!Nap
    BY <1>7, NapAges
<1>8. CASE L!Ended
    BY <1>6, <1>8 DEF L!Ended
<1> QED BY <1>1, <1>2, <1>3, <1>4, <1>5, <1>6, <1>7, <1>8 DEF L!Next, L!Loop, L!Read

-----------------------------------------------------------------------------
(* Turned, Asleep and Collectors: one step makes each true *)

\* tick has looked at the header's clock.
LEMMA StepTurned ==
    ASSUME LoopInv, [L!Next]_L!vars
    PROVE  Turned'
<1> USE DEF LoopInv, Turned
<1>1. CASE L!Work
    <2>1. sinceDraw' = sinceDraw /\ sinceDraw \in Nat
        BY <1>1, Limits DEF L!Work, L!TypeOK
    <2>2. sinceDraw >= ClockTick => bgDirty'
        BY <1>1 DEF L!Work
    <2> QED BY <2>1, <2>2, Bounds
<1>2. CASE L!EventComes \/ L!WorkerAnswers \/ UNCHANGED L!vars
    BY <1>2 DEF L!EventComes, L!WorkerAnswers, L!vars, L!dirt, L!clocks
<1>3. CASE L!Read
    BY <1>3 DEF L!Read, L!ReadKey, L!ReadQuit, L!ReadNothing, L!ReadUnlock, L!ReadAll,
        L!ReadResize, L!Authenticated
<1>4. CASE L!Draw \/ L!NoDraw \/ L!Nap
    BY <1>4 DEF L!Draw, L!NoDraw, L!Nap
<1>5. CASE L!Ended
    BY <1>2, <1>5 DEF L!Ended
<1> QED BY <1>1, <1>2, <1>3, <1>4, <1>5 DEF L!Next, L!Loop

\* Without a draw nothing is due yet; with one, everything has just been drawn.
LEMMA StepAsleep ==
    ASSUME LoopInv, [L!Next]_L!vars
    PROVE  Asleep'
<1> USE DEF LoopInv, Asleep
<1>1. CASE L!Draw
    BY <1>1 DEF L!Draw
<1>2. CASE L!NoDraw
    <2>1. UNCHANGED <<waiting, inputDirty, bgDirty, sinceDraw, slowFor, contestOn>>
        BY <1>2 DEF L!NoDraw, L!events, L!dirt, L!clocks, L!state
    <2>2. L!MinFrame' = L!MinFrame
        BY <2>1 DEF L!MinFrame
    <2>3. waiting = 0 => ~inputDirty /\ (bgDirty => ~(sinceDraw >= L!MinFrame))
        BY <1>2 DEF L!NoDraw, L!DrawDue, L!TypeOK
    <2>4. ~bgDirty => sinceDraw < ClockTick
        BY <1>2 DEF L!NoDraw, Turned
    <2>5. sinceDraw \in Nat
        BY Limits DEF L!TypeOK
    <2> QED BY <2>1, <2>2, <2>3, <2>4, <2>5, Frames
<1>3. CASE L!EventComes \/ L!Nap \/ L!Work
    BY <1>3 DEF L!EventComes, L!Nap, L!Work
<1>4. CASE L!WorkerAnswers \/ UNCHANGED L!vars
    <2>1. UNCHANGED <<pc, waiting, inputDirty, bgDirty, sinceDraw, slowFor, contestOn>>
        BY <1>4 DEF L!WorkerAnswers, L!vars, L!events, L!dirt, L!clocks, L!state
    <2> QED BY <2>1 DEF L!MinFrame
<1>5. CASE L!Read
    BY <1>5 DEF L!Read, L!ReadKey, L!ReadQuit, L!ReadNothing, L!ReadUnlock, L!ReadAll,
        L!ReadResize, L!Authenticated
<1>6. CASE L!Ended
    BY <1>4, <1>6 DEF L!Ended
<1> QED BY <1>1, <1>2, <1>3, <1>4, <1>5, <1>6 DEF L!Next, L!Loop

\* A round samples what is due; then only a blocked draw takes time.
LEMMA StepCollectors ==
    ASSUME LoopInv, [L!Next]_L!vars
    PROVE  Collectors'
<1> USE Bounds DEF LoopInv, Collectors
<1>1. CASE L!Work
    <2>1. ~stopped => \A s \in Samplers : since'[s] < Every[s]
        BY <1>1 DEF L!Work, L!SampleDue, L!TypeOK
    <2> QED BY <1>1, <2>1 DEF L!Work
<1>2. CASE L!Draw
    <2>1. PICK t \in 0..MaxDraw : L!ClocksRun(t)
        BY <1>2 DEF L!Draw
    <2>2. \A s \in Samplers : since'[s] <= since[s] + t /\ since'[s] \in Nat /\ since[s] \in Nat
        BY <2>1, ClocksInRange DEF L!TypeOK
    <2>3. ~stopped => \A s \in Samplers : since'[s] < Every[s] + MaxDraw
        BY <1>2, <2>1, <2>2 DEF L!Draw
    <2> QED BY <1>2, <2>3 DEF L!Draw
<1>3. CASE L!NoDraw
    BY <1>3 DEF L!NoDraw, L!TypeOK, L!clocks, L!state
<1>4. CASE L!Nap \/ L!Read
    BY <1>4 DEF L!Nap, L!Read, L!ReadKey, L!ReadQuit, L!ReadNothing, L!ReadUnlock,
        L!ReadAll, L!ReadResize, L!Authenticated
<1>5. CASE L!EventComes \/ L!WorkerAnswers \/ UNCHANGED L!vars
    BY <1>5 DEF L!EventComes, L!WorkerAnswers, L!vars, L!clocks, L!state
<1>6. CASE L!Ended
    BY <1>5, <1>6 DEF L!Ended
<1> QED BY <1>1, <1>2, <1>3, <1>4, <1>5, <1>6 DEF L!Next, L!Loop

-----------------------------------------------------------------------------

\* The loop starts with nothing owed.
LEMMA InitLoopInv == L!Init => LoopInv
<1> SUFFICES ASSUME L!Init PROVE LoopInv
    OBVIOUS
<1> USE Bounds, Limits DEF L!Init
<1>1. L!TypeOK
    <2>1. since \in [Samplers -> Nat] /\ \A s \in Samplers : since[s] <= L!SamplerLimit(s)
        BY DEF L!SamplerLimit
    <2>2. sinceDraw \in 0..L!DrawLimit /\ late \in 0..L!LateLimit
        BY DEF L!DrawLimit, L!LateLimit, L!Most
    <2>3. /\ pc = "read" /\ pending = "no" /\ contestOn = "none" /\ inputDirty = TRUE
          /\ waiting \in Nat /\ left \in Nat /\ waiting + left <= MaxEvents
        OBVIOUS
    <2>4. /\ sinceInput \in 0..Settle /\ sinceAnim \in 0..AnimPeriod
          /\ sinceFrame \in 0..Frame /\ slowFor \in 0..Hold
        OBVIOUS
    <2>5. {hadInput, interacting, inputDirty, bgDirty, stopped, mascot} \subseteq BOOLEAN
        OBVIOUS
    <2> HIDE DEF L!Init
    <2> QED BY <2>1, <2>2, <2>3, <2>4, <2>5 DEF L!TypeOK
<1>2. Ages
    BY DEF Ages, L!Most, L!Dirty
<1>3. Turned /\ Asleep /\ Collectors
    BY DEF Turned, Asleep, Collectors
<1> QED BY <1>1, <1>2, <1>3 DEF LoopInv

\* Each step of the loop keeps the invariant.
LEMMA StepLoopInv == LoopInv /\ [L!Next]_L!vars => LoopInv'
BY StepTypes, StepAges, StepTurned, StepAsleep, StepCollectors DEF LoopInv

\* The loop's variables keep their ranges, and its ages theirs.
LEMMA LoopInvariant == L!Spec => []LoopInv
BY InitLoopInv, StepLoopInv, PTL DEF L!Spec

\* A sleep carries no collector further than a draw was blocked.
LEMMA SleepKeepsDates ==
    ASSUME LoopInv, [L!Next]_L!vars, pc = "nap", ~stopped, NEW s \in Samplers
    PROVE  since'[s] <= Every[s] + MaxDraw
<1> USE Bounds DEF LoopInv, Collectors
<1>1. since[s] \in Nat /\ since[s] < Every[s] + MaxDraw
    BY DEF L!TypeOK
<1>2. CASE L!Nap /\ UNCHANGED L!clocks
    BY <1>1, <1>2 DEF L!clocks
<1>3. ASSUME NEW t \in Nat, t <= L!Wait, L!ClocksRun(t)
      PROVE  since'[s] <= Every[s] + MaxDraw
    <2>1. since'[s] <= since[s] + t /\ since'[s] \in Nat
        BY <1>3, ClocksInRange
    <2>2. t <= L!Most(1, L!Minus(Every[s], since[s]))
        BY <1>1, <1>3, Sleep DEF L!Most, L!Minus
    <2> QED BY <1>1, <2>1, <2>2 DEF L!Most, L!Minus
<1>4. CASE L!Nap
    BY <1>2, <1>3, <1>4, Sleep DEF L!Nap, L!Passed
<1>5. CASE L!WorkerAnswers \/ UNCHANGED L!vars
    BY <1>1, <1>5 DEF L!WorkerAnswers, L!vars, L!clocks
<1>6. CASE L!Ended
    BY <1>6 DEF L!Ended
<1> QED BY <1>4, <1>5, <1>6 DEF L!Next, L!Loop, L!Read, L!ReadKey, L!ReadQuit, L!ReadNothing,
        L!ReadUnlock, L!ReadAll, L!ReadResize, L!Authenticated, L!Work, L!Draw, L!NoDraw,
        L!EventComes

\* The loop alone is on time.
LEMMA LoopOnTime == L!Spec => L!OnTime
<1> DEFINE Shown == /\ late <= L!Most(2 * Frame, IdleFrame)
                    /\ sinceDraw <= L!Most(ClockTick, MaxDraw + 1)
                    /\ pc = "nap" /\ waiting = 0 => ~inputDirty
           Kept == pc = "nap" /\ ~stopped =>
                       \A s \in Samplers : since'[s] <= Every[s] + MaxDraw
<1>1. LoopInv => Shown
    BY DEF LoopInv, Ages, Asleep
<1>2. LoopInv /\ [L!Next]_L!vars => [Kept]_L!vars
    BY SleepKeepsDates
<1>3. L!Spec => []LoopInv
    BY LoopInvariant
<1>4. L!Spec => []Shown
    BY <1>1, <1>3, PTL
<1>5. L!Spec => [][Kept]_L!vars
    <2> HIDE DEF Kept
    <2> QED BY <1>2, <1>3, PTL DEF L!Spec
<1> QED BY <1>4, <1>5 DEF L!OnTime

\* The main thread, whichever half of it is watched, runs the loop.
LEMMA ThreadRunsLoop == ThreadSpec => L!Spec
<1>1. ThreadInit => L!Init
    BY DEF ThreadInit
<1>2. [ThreadNext]_<<watched, vars, loopVars>> => [L!Next]_L!vars
    BY DEF ThreadNext, loopVars, L!vars, L!events, L!dirt, L!clocks, L!state
<1> QED BY <1>1, <1>2, PTL DEF ThreadSpec, L!Spec

\* However events come in, however long draws are blocked and whatever the
\* intervals are: what is new is drawn after a frame at most, the header's clock
\* goes on, no sleep hides a key, and no collector is slept past its date.
THEOREM AlwaysOnTime == ThreadSpec => OnTime
BY LoopOnTime, ThreadRunsLoop DEF OnTime

=============================================================================
