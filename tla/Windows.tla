------------------------------ MODULE Windows -------------------------------
(***************************************************************************)
(* What a key means: the page, the filter line, the window on top of them, *)
(* and the hidden game, whose end opens a score board and a line to type a *)
(* name in. One key is one action; the game's clock and the draw, which    *)
(* tells the keys how far there is to scroll and to go down, come between. *)
(*                                                                         *)
(* Keys whose effect is a look or a rate (s v m t + -) are other text      *)
(* here. No key opens Modal::Confirm. What keys do on the administrator    *)
(* page is AdminSelection, what they ask for AdminQueries, what a record   *)
(* does to the files Scoreboard; how a game goes on is left out.           *)
(***************************************************************************)
EXTENDS Integers, Sequences

CONSTANTS
    Views,      \* the pages in their order, the overview first
    Branded,    \* the configuration asks for the start screen
    MaxDepth,   \* bound: panels inside panels
    MaxScroll,  \* bound: lines below the last visible one
    MaxText,    \* bound: letters of a filter
    NameWidth,  \* letters of a name (16 in the code)
    MaxScore    \* bound: score of a game

ASSUME WindowsAssumption ==
    /\ Views \in Seq(STRING)
    /\ Len(Views) > 0
    /\ Branded \in BOOLEAN
    /\ MaxDepth \in Nat
    /\ MaxScroll \in Nat
    /\ MaxText \in Nat
    /\ NameWidth \in Nat
    /\ MaxScore \in Nat

VARIABLES
    running,    \* the main loop has not returned
    view, paused,
    filtering, filter,      \* the filter line has the keys; its length
    depth,      \* of the focus frame: 0 on the level of the pages
    scroll,     \* first line of the page's list
    modal,      \* the window on top
    lines,      \* by window of text: the line it starts with
    drawn,      \* what the last draw reported
    game, finale,           \* Dino and DinoOver
    dinoBest,
    records     \* history: times the present game was put on the board

page == <<view, paused, filtering, filter, depth, scroll>>
contest == <<game, finale, dinoBest, records>>
vars == <<running, page, modal, lines, drawn, contest>>

PageNames == {Views[i] : i \in 1..Len(Views)}
Overview == Views[1]
Modals == {"None", "Splash", "Help", "Explain", "Message", "Dino"}
TextWindows == {"Help", "Explain"}

\* usize::MAX / 2, the place End scrolls to: past the end of every list.
FarDown == MaxScroll + 1

NewGame(best) ==
    [on |-> TRUE, score |-> 0, best |-> best, over |-> FALSE, fresh |-> FALSE]
NoGame == [on |-> FALSE, score |-> 0, best |-> 0, over |-> FALSE, fresh |-> FALSE]
NoFinale == [shown |-> FALSE, box |-> FALSE, name |-> <<>>]

\* A name counts by its length and by whether anything of it can be seen.
Letters == {"space", "letter"}

Least(a, b) == IF a < b THEN a ELSE b
Most(a, b) == IF a > b THEN a ELSE b

TypeOK ==
    /\ running \in BOOLEAN
    /\ view \in PageNames
    /\ paused \in BOOLEAN
    /\ filtering \in BOOLEAN
    /\ filtering => modal = "None"
    /\ filter \in 0..MaxText
    /\ depth \in 0..MaxDepth
    /\ scroll \in 0..FarDown
    /\ modal \in Modals
    /\ lines \in [TextWindows -> 0..MaxScroll]
    /\ \A w \in TextWindows : lines[w] # 0 => modal = w
    /\ drawn \in [depth : 0..MaxDepth, below : 0..MaxScroll,
                  text : [TextWindows -> 0..MaxScroll]]
    /\ game \in [on : BOOLEAN, score : 0..MaxScore, best : 0..MaxScore,
                 over : BOOLEAN, fresh : BOOLEAN]
    /\ finale \in [shown : BOOLEAN, box : BOOLEAN, name : Seq(Letters)]
    /\ Len(finale.name) <= NameWidth
    /\ dinoBest \in 0..MaxScore
    /\ records \in Nat

Init ==
    /\ running = TRUE
    /\ view \in PageNames       \* the configured default page
    /\ paused = FALSE
    /\ filtering = FALSE
    /\ filter = 0
    /\ depth = 0
    /\ scroll = 0
    /\ modal = IF Branded THEN "Splash" ELSE "None"
    /\ lines = [w \in TextWindows |-> 0]
    /\ drawn = [depth |-> 0, below |-> 0, text |-> [w \in TextWindows |-> 0]]
    /\ game = NoGame
    /\ finale = NoFinale
    /\ dinoBest = 0
    /\ records = 0

-----------------------------------------------------------------------------
(* The filter line has the first claim on a key *)

\* Characters; "x" stands for those with no meaning of their own.
Text == {"q", "h", "g", "e", "1", "a", "space", "/", "u", "r", "x"}
Arrows == {"Up", "Down", "Left", "Right"}
Keys == Text \cup Arrows
    \cup {"Esc", "Backspace", "Enter", "Tab", "BackTab",
          "PageUp", "PageDown", "Home", "End"}

FilterKey(k) ==
    /\ filtering
    /\ \/ k = "Esc" /\ filter' = 0 /\ filtering' = FALSE
       \/ k = "Enter" /\ filtering' = FALSE /\ UNCHANGED filter
       \/ k = "Backspace" /\ filter' = Most(filter - 1, 0) /\ UNCHANGED filtering
       \/ k \in Text /\ filter < MaxText /\ filter' = filter + 1 /\ UNCHANGED filtering
       \/ k \notin Text \cup {"Esc", "Enter", "Backspace"} /\ UNCHANGED <<filtering, filter>>
    /\ scroll' = 0
    /\ UNCHANGED <<running, view, paused, depth, modal, lines, drawn, contest>>

-----------------------------------------------------------------------------
(* Then the window *)

Scrolled(w, k) ==
    CASE k = "Up" -> Most(lines[w] - 1, 0)
      [] k = "Down" -> Least(lines[w] + 1, drawn.text[w])
      [] k = "PageUp" -> Most(lines[w] - 10, 0)
      [] k = "PageDown" -> Least(lines[w] + 10, drawn.text[w])

TextKey(k) ==
    /\ modal \in TextWindows
    /\ IF k \in {"Up", "Down", "PageUp", "PageDown"}
       THEN lines' = [lines EXCEPT ![modal] = Scrolled(modal, k)] /\ UNCHANGED modal
       ELSE lines' = [lines EXCEPT ![modal] = 0] /\ modal' = "None"
    /\ UNCHANGED <<page, contest>>

\* Slip: the key that closes the start screen does its work on the page too.
AnyKeyWorks(k) ==
    /\ modal \in {"Splash", "Message"}
    /\ modal' = "None"
    /\ paused' = (paused # (k = "space"))
    /\ UNCHANGED <<view, filtering, filter, depth, scroll, lines, contest>>

AnyKeyCloses(k) ==
    /\ modal \in {"Splash", "Message"}
    /\ modal' = "None"
    /\ UNCHANGED <<page, lines, contest>>

Sanitized(name) == SelectSeq(name, LAMBDA l : l # "space")

\* record() answers that it recorded, that the name has more already, or with
\* an error; each closes the line. An empty name is no answer at all.
SubmitDinoName ==
    IF Sanitized(finale.name) = <<>>
    THEN UNCHANGED <<finale, records>>
    ELSE /\ finale' = [finale EXCEPT !.box = FALSE, !.name = <<>>]
         /\ records' \in {records, records + 1}

NameKey(k) ==
    /\ finale.box
    /\ \/ k = "Enter" /\ SubmitDinoName
       \/ /\ k = "Esc"
          /\ finale' = [finale EXCEPT !.box = FALSE, !.name = <<>>]
          /\ UNCHANGED records
       \/ /\ k = "Backspace"
          /\ finale' = [finale EXCEPT !.name = SubSeq(@, 1, Most(Len(@) - 1, 0))]
          /\ UNCHANGED records
       \/ /\ k \in Text
          /\ finale' = IF Len(finale.name) < NameWidth
                       THEN [finale EXCEPT !.name =
                                Append(@, IF k = "space" THEN "space" ELSE "letter")]
                       ELSE finale
          /\ UNCHANGED records
       \/ k \notin Text \cup {"Enter", "Esc", "Backspace"} /\ UNCHANGED <<finale, records>>
    /\ UNCHANGED <<game, modal>>

JumpKeys == {"space", "Up"}

Restarts(k) == game.over /\ (k \in {"r", "Enter"} \/ (k \in JumpKeys /\ ~game.fresh))

\* Dino::best: what the game shows as the best score so far.
ShownBest(g) == Most(g.best, g.score)

Restarted(g) == NewGame(ShownBest(g))

\* Slip: any key takes the board of a finished run away, and the next frame
\* reads it again.
GameKeyClears(k) ==
    /\ ~finale.box
    /\ k \notin {"Esc", "q"}
    /\ game' = IF Restarts(k) THEN Restarted(game) ELSE game
    /\ finale' = NoFinale
    /\ records' = IF Restarts(k) THEN 0 ELSE records
    /\ UNCHANGED modal

\* A key of a run that is going on (jump, duck) changes nothing kept here.
GameKey(k) ==
    /\ ~finale.box
    /\ k \notin {"Esc", "q"}
    /\ game' = IF Restarts(k) THEN Restarted(game) ELSE game
    /\ finale' = IF game'.over THEN finale ELSE NoFinale
    /\ records' = IF Restarts(k) THEN 0 ELSE records
    /\ UNCHANGED modal

LeaveGame(k) ==
    /\ ~finale.box
    /\ k \in {"Esc", "q"}
    /\ modal' = "None"
    /\ game' = NoGame
    /\ finale' = NoFinale
    /\ UNCHANGED records

DinoKey(k) ==
    /\ modal = "Dino"
    /\ NameKey(k) \/ GameKey(k) \/ LeaveGame(k)
    /\ UNCHANGED <<page, lines, dinoBest>>

WindowKey(k) ==
    /\ ~filtering
    /\ TextKey(k) \/ AnyKeyCloses(k) \/ DinoKey(k)
    /\ UNCHANGED <<running, drawn>>

-----------------------------------------------------------------------------
(* Then the page *)

ShowPage(v) ==
    /\ view' = v
    /\ scroll' = 0
    /\ depth' = 0
    /\ UNCHANGED <<paused, filtering, filter>>

PageAfter(step) ==
    LET i == CHOOSE n \in 1..Len(Views) : Views[n] = view
    IN  Views[((i - 1 + step) % Len(Views)) + 1]

\* A frame whose panel was not drawn any more has no parent: it goes at once.
Parent == IF depth > drawn.depth THEN 0 ELSE depth - 1

\* Slip: on the overview Esc leaves the program, as q does.
AscendOrQuit ==
    /\ IF depth > 0
       THEN depth' = Parent /\ UNCHANGED <<running, view, paused, filtering, filter, scroll>>
       ELSE IF view # Overview THEN ShowPage(Overview) /\ UNCHANGED running
       ELSE running' = FALSE /\ UNCHANGED page
    /\ UNCHANGED modal

\* ascend(), and from the level of the pages to the overview and no further.
Ascend ==
    /\ IF depth > 0
       THEN depth' = Parent /\ UNCHANGED <<view, paused, filtering, filter, scroll>>
       ELSE IF view # Overview THEN ShowPage(Overview)
       ELSE UNCHANGED page
    /\ UNCHANGED <<running, modal>>

\* Not every panel holds others; the level of the pages always does if any is drawn.
Descend ==
    /\ \/ depth < drawn.depth /\ depth' = depth + 1
       \/ (depth > 0 \/ drawn.depth = 0) /\ UNCHANGED depth
    /\ UNCHANGED <<view, paused, filtering, filter, scroll>>

\* scroll_focused: to the end first, from the end around to the other one.
ScrollTo(step) ==
    LET cur == Least(scroll, drawn.below)
        target == cur + step
    IN  CASE target > drawn.below -> IF cur = drawn.below THEN 0 ELSE drawn.below
          [] target < 0 -> IF cur = 0 THEN drawn.below ELSE 0
          [] OTHER -> target

ScrollBy(step) ==
    /\ scroll' = IF drawn.below = 0 \/ view = "Admin" THEN scroll ELSE ScrollTo(step)
    /\ UNCHANGED <<view, paused, filtering, filter, depth>>

\* Among panels of one level: to the next one, on in a list, or down a level.
Navigate(k) ==
    IF depth = 0
    THEN CASE k = "Left" -> ShowPage(PageAfter(-1))
           [] k = "Right" -> ShowPage(PageAfter(1))
           [] k = "Down" -> Descend
           [] k = "Up" -> UNCHANGED page
    ELSE \/ UNCHANGED page
         \/ k \in {"Up", "Down"} /\ ScrollBy(IF k = "Down" THEN 1 ELSE -1)
         \/ k = "Down" /\ Descend

TurnPage(k) ==
    /\ \/ k = "1" /\ \E v \in PageNames \ {"Admin"} : ShowPage(v)
       \/ k = "a" /\ "Admin" \in PageNames /\ ShowPage("Admin")
       \/ k = "Tab" /\ ShowPage(PageAfter(1))
       \/ k = "BackTab" /\ ShowPage(PageAfter(-1))
       \/ k \in Arrows /\ Navigate(k)
       \/ k = "Enter" /\ Descend
       \/ k = "PageUp" /\ ScrollBy(-10)
       \/ k = "PageDown" /\ ScrollBy(10)
       \/ /\ k = "Home"
          /\ scroll' = 0
          /\ depth' = 0
          /\ UNCHANGED <<view, paused, filtering, filter>>
       \/ k = "End" /\ scroll' = FarDown /\ UNCHANGED <<view, paused, filtering, filter, depth>>
       \/ /\ k = "space"
          /\ paused' = ~paused
          /\ UNCHANGED <<view, filtering, filter, depth, scroll>>
       \/ /\ k = "/"
          /\ IF view = "Process"
             THEN filtering' = TRUE /\ filter' = 0
             ELSE UNCHANGED <<filtering, filter>>
          /\ UNCHANGED <<view, paused, depth, scroll>>
    /\ UNCHANGED <<running, modal, lines, contest>>

\* u: sudo answers at once that the helper may run, that it takes a password
\* (which main.rs asks for, and the page stays), or that it never will.
Unlock ==
    /\ \/ "Admin" \in PageNames /\ ShowPage("Admin") /\ UNCHANGED modal
       \/ UNCHANGED <<page, modal>>
       \/ modal' = "Message" /\ UNCHANGED page
    /\ UNCHANGED <<running, lines, contest>>

OpenWindow(k) ==
    /\ \/ k = "h" /\ modal' = "Help" /\ UNCHANGED <<lines, game, records>>
       \/ /\ k = "g"
          /\ modal' = "Dino"
          /\ game' = NewGame(dinoBest)
          /\ records' = 0
          /\ UNCHANGED lines
       \/ /\ k = "e"
          /\ IF depth \in 1..drawn.depth
             THEN modal' = "Explain" /\ lines' = [lines EXCEPT !["Explain"] = 0]
             ELSE UNCHANGED <<modal, lines>>
          /\ UNCHANGED <<game, records>>
    /\ UNCHANGED <<running, page, finale, dinoBest>>

PageKey(k) ==
    /\ ~filtering
    /\ modal = "None"
    /\ \/ k \in {"Esc", "Backspace"} /\ Ascend /\ UNCHANGED <<lines, contest>>
       \/ k = "q" /\ running' = FALSE /\ UNCHANGED <<page, modal, lines, contest>>
       \/ TurnPage(k)
       \/ k = "u" /\ Unlock
       \/ OpenWindow(k)
    /\ UNCHANGED drawn

OnKey(k) == running /\ (FilterKey(k) \/ WindowKey(k) \/ PageKey(k))

\* Ctrl-C leaves whatever has the keys.
CtrlC ==
    /\ running
    /\ running' = FALSE
    /\ UNCHANGED <<page, modal, lines, drawn, contest>>

-----------------------------------------------------------------------------
(* Between the keys *)

\* Dino::tick: a step further, into an obstacle or not.
Ticked(g) ==
    LET scores == {g.score, Least(g.score + 1, MaxScore)}
    IN  IF g.over THEN {g}
        ELSE {[on |-> TRUE, score |-> s, best |-> g.best, over |-> FALSE, fresh |-> FALSE] :
                s \in scores} \cup
             {[on |-> TRUE, score |-> s, best |-> Most(g.best, s), over |-> TRUE, fresh |-> TRUE] :
                s \in scores}

\* tick_game: at the end of a run the board is read; a score above the fifth
\* (and above 0) opens the line for a name.
TickGame ==
    /\ running
    /\ game.on
    /\ \E g \in Ticked(game) :
        /\ game' = g
        /\ dinoBest' = Most(dinoBest, ShownBest(g))
        /\ IF g.over /\ ~finale.shown
           THEN \E enough \in BOOLEAN :
                    finale' = [shown |-> TRUE, box |-> enough /\ g.score > 0, name |-> <<>>]
           ELSE UNCHANGED finale
    /\ UNCHANGED <<running, page, modal, lines, drawn, records>>

\* GAMEOVER_CLEAR_TIME after the end the jump keys start a new run.
GraceEnds ==
    /\ running
    /\ game.fresh
    /\ game' = [game EXCEPT !.fresh = FALSE]
    /\ UNCHANGED <<running, page, modal, lines, drawn, finale, dinoBest, records>>

\* A draw reports how far the lists go. Panels are numbered anew: a frame that
\* stays may be on another level, or on none that was drawn.
Draw ==
    /\ running
    /\ \E d \in 0..MaxDepth, b \in 0..MaxScroll, t \in 0..MaxScroll :
        drawn' = [depth |-> d, below |-> b,
                  text |-> [w \in TextWindows |-> IF w = modal THEN t ELSE drawn.text[w]]]
    /\ depth' \in IF depth = 0 THEN {0} ELSE 1..MaxDepth
    /\ UNCHANGED <<running, view, paused, filtering, filter, scroll, modal, lines, contest>>

Ended == ~running /\ UNCHANGED vars

Next ==
    \/ \E k \in Keys : OnKey(k)
    \/ CtrlC \/ TickGame \/ GraceEnds \/ Draw
    \/ Ended

Spec == Init /\ [][Next]_vars

-----------------------------------------------------------------------------
(* Properties *)

\* A window has the keys to itself: while one is open nothing of the page
\* under it moves but what a draw makes of the frame (on_key_modal; space once
\* paused the sampling while it closed the start screen).
WindowOwnsInput ==
    [][modal # "None" => UNCHANGED <<view, paused, filtering, filter, scroll>>
                         /\ (UNCHANGED depth \/ Draw)]_vars

\* How far Esc has to go: filter line, name line, window, frames, page.
Level ==
    LET Count(b) == IF b THEN 1 ELSE 0
    IN  Count(filtering) + Count(finale.box) + Count(modal # "None") + depth
        + Count(view # Overview)

\* Esc goes up, from wherever one is and a level at least, and does not leave
\* the program: enough of them end on the overview (on_key, 「不會離開程式」).
EscGoesUp == [][OnKey("Esc") => Level' < Level /\ running']_vars

\* The board on the screen is that of the run that has ended, and a run is put
\* on it once at most, whatever is typed in whatever order (tick_game,
\* submit_dino_name, on_key_modal).
OneRecordPerRun ==
    /\ finale.shown <=> game.over
    /\ game.on <=> modal = "Dino"
    /\ records <= 1

\* The best score of the session survives restarts and closed games: what the
\* game shows is what App keeps, and neither goes down (restart, tick_game).
BestIsKept ==
    [][/\ dinoBest' >= dinoBest
       /\ game'.on => ShownBest(game') = dinoBest']_vars
=============================================================================
