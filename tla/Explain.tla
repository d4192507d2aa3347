------------------------------- MODULE Explain -------------------------------
(***************************************************************************)
(* The window that tells of what is framed. `e' keeps the target of the    *)
(* framed region, as the last draw registered it; every draw composes the  *)
(* text anew from what the machine is by then, and finds out how far it    *)
(* can be scrolled; the keys in between go by what the last draw found.    *)
(* Lists are seen from their start (AdminSelection and Panels scroll       *)
(* them), and the administrator page, whose rows all tell of one metric,   *)
(* is left out.                                                            *)
(***************************************************************************)
EXTENDS Pages, Describe

CONSTANTS
    Sizes,      \* terminal sizes, records of w and h
    Machines,   \* what a draw may find, see Pages and Describe: names ...
    Make,       \* ... and the record of each
    OpenViews,  \* the pages the user opens
    Extra       \* bound: how many screen lines wrapping may add to a text

\* Heights and lines are numbers; the administrator page is left out.
WindowBounds ==
    /\ Extra \subseteq Nat /\ \A s \in Sizes : s.h \in Nat
    /\ \A m \in Machines : IsMachine(Make[m])
    /\ OpenViews \subseteq ToSet(Views) \ {"admin"}

VARIABLES
    view,       \* the page
    focus,      \* the framed region, Root when there is none
    found,      \* the machine the last draw found ...
    regs,       \* ... and the regions it registered
    asked,      \* Modal::Explain's target, NoTarget without a window
    chosen,     \* history: what stood in the frame on the screen at `e'
    scroll,     \* explain_scroll
    bound,      \* explain_max_scroll
    window      \* what the last draw showed in the window

vars == <<view, focus, found, regs, asked, chosen, scroll, bound, window>>

\* The thing a text is about, NoTarget when it says that there is none such.
Told(t, m) ==
    LET told == ProcessTold(t, m)
    IN  CASE t.kind = "metric"  -> IF IsKnown(t.name) THEN t ELSE NoTarget
          [] t.kind = "process" -> IF told = <<>> THEN NoTarget
                                   ELSE Thing("process", told[1].pid, told[1].since)
          [] OTHER              -> t

NoWindow == [of |-> NoTarget, title |-> NoTarget, rows |-> 0, room |-> 0, hint |-> FALSE]

\* Nothing is drawn yet.
Init ==
    /\ view \in OpenViews
    /\ focus = Root
    /\ found \in Machines
    /\ regs = <<>>
    /\ asked = NoTarget /\ chosen = NoTarget
    /\ scroll = 0 /\ bound = 0
    /\ window = NoWindow

-----------------------------------------------------------------------------
(* Keys without a window *)

\* The arrows, which reach every region (Panels!AllInReach); Enter and Esc.
MoveFrame ==
    /\ asked = NoTarget
    /\ focus' \in {Root} \cup DOMAIN regs
    /\ UNCHANGED <<view, found, regs, asked, chosen, scroll, bound, window>>

\* reset_page_state
OpenPage ==
    /\ asked = NoTarget
    /\ view' \in OpenViews
    /\ focus' = Root
    /\ UNCHANGED <<found, regs, asked, chosen, scroll, bound, window>>

\* `e': nothing happens when nothing is framed. Nothing is drawn yet.
Explain ==
    /\ asked = NoTarget
    /\ Exists(regs, focus)
    /\ asked' = regs[focus].tells
    /\ chosen' = regs[focus].tells
    /\ scroll' = 0
    /\ UNCHANGED <<view, focus, found, regs, bound, window>>

-----------------------------------------------------------------------------
(* Keys in the window *)

Scroll(to) ==
    /\ asked # NoTarget
    /\ scroll' = to
    /\ UNCHANGED <<view, focus, found, regs, asked, chosen, bound, window>>

Up == Scroll(Minus(scroll, 1))
Down == Scroll(Smaller(scroll + 1, bound))
PageUp == Scroll(Minus(scroll, 10))
PageDown == Scroll(Smaller(scroll + 10, bound))

\* Any other key.
Close ==
    /\ asked # NoTarget
    /\ asked' = NoTarget /\ chosen' = NoTarget
    /\ scroll' = 0 /\ window' = NoWindow
    /\ UNCHANGED <<view, focus, found, regs, bound>>

-----------------------------------------------------------------------------
(* Drawing *)

\* centered, and the lines inside its frame.
WindowHeight(size) == Larger(Smaller(34, Minus(size.h, 2)), 1)
Inner(size) == IF WindowHeight(size) < 2 THEN 0 ELSE WindowHeight(size) - 2

\* modal::frame: the hint takes a line and another above it, where there is room.
Room(size) == IF Inner(size) < 3 THEN Inner(size) ELSE Inner(size) - 2

\* What render shows: the title is what is framed NOW, the text is of the
\* target; the hint, if there is room for one, says whether the
\* text was longer than the window.
WindowOf(m, extra, size, shown) ==
    LET rows == Lines(About(asked, m)) + extra
    IN  [of |-> Told(asked, m),
         title |-> IF Exists(shown, focus) THEN shown[focus].tells ELSE asked,
         rows |-> rows,
         room |-> Room(size),
         hint |-> Inner(size) >= 3 /\ rows > Minus(Inner(size), 1)]

\* Slip: the lines of the hint are counted as room for the text.
BoundInFrame(w, size) == Minus(w.rows, Inner(size))
BoundOf(w, size) == Minus(w.rows, w.room)

Draw ==
    \E size \in Sizes, m \in Machines :
        /\ found' = m
        /\ regs' = Page(view, size, Make[m], 0, 1, 0)
        /\ IF asked = NoTarget THEN UNCHANGED <<window, bound>>
           ELSE \E extra \in Extra :
                    /\ window' = WindowOf(Make[m], extra, size, regs')
                    /\ bound' = BoundOf(window', size)
        /\ UNCHANGED <<view, focus, asked, chosen, scroll>>

Next ==
    \/ MoveFrame \/ OpenPage \/ Explain
    \/ Up \/ Down \/ PageUp \/ PageDown \/ Close
    \/ Draw

Spec == Init /\ [][Next]_vars

-----------------------------------------------------------------------------
(* Properties *)

OnScreen == window # NoWindow

\* However the lists were sorted anew, and whatever number was given to another
\* process, since `e' was pressed: the window tells of what stood in the frame
\* then, and says of a process that it is gone when, and only when, it is. Every
\* metric a page registers is one the knowledge has (describe, entity::process,
\* lookup).
TellsOfTarget ==
    OnScreen =>
        /\ window.of \in {chosen, NoTarget}
        /\ window.of = NoTarget <=>
              chosen.kind = "process"
                /\ ~\E p \in ToSet(Make[found].procs) : p.pid = chosen.name /\ p.since = chosen.nr

\* The first line of the text that is in the window.
FirstLine == Smaller(scroll, bound)

\* In the window as found, Down brings the next line until the last one is there
\* and never shows emptiness below it, whatever the text was before; and the
\* hint offers to scroll only where scrolling does something (explain's render,
\* scroll_explain, Cap::Scroll).
ScrollIsHonest ==
    [][OnScreen =>
         /\ window.hint => bound > 0
         /\ FirstLine > 0 => FirstLine + window.room <= window.rows
         /\ Down /\ FirstLine + window.room < window.rows => FirstLine' = FirstLine + 1]_vars

\* What explain.rs says of `selected': the title is what the user pointed at.
TitleNamesTarget == OnScreen => window.title = chosen
=============================================================================
