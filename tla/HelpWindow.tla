----------------------------- MODULE HelpWindow -----------------------------
(***************************************************************************)
(* The window that lists the keys. Every draw finds out how large it is,   *)
(* how many rows the list takes there and how far it can be scrolled; the  *)
(* keys in between go by what the last draw found. Of the words only their *)
(* widths are kept, in columns. Where a row is broken is left to the       *)
(* library that draws: it is taken to need the rows wrapped_len counts.    *)
(***************************************************************************)
EXTENDS Integers, Sequences, Functions, FiniteSetsExt

CONSTANTS
    Widths, Heights     \* of the terminal

SizesAreNumbers == Widths \cup Heights \subseteq Nat

VARIABLES
    open,       \* Modal::Help
    scroll,     \* help_scroll
    bound,      \* help_max_scroll
    window      \* what the last draw showed

vars == <<open, scroll, bound, window>>

Smaller(a, b) == IF a < b THEN a ELSE b
Larger(a, b) == IF a > b THEN a ELSE b
Minus(a, b) == IF a > b THEN a - b ELSE 0

-----------------------------------------------------------------------------
(* The list *)

\* The widths of what SECTIONS says of each key.
Sections == <<
    <<18, 23, 48, 10, 46>>,
    <<64, 57, 64, 42, 54, 32, 8, 16, 39>>,
    <<21, 39, 14, 28>>,
    <<15, 33, 8, 28, 10, 30, 4>>,
    <<12, 22, 31>>,
    <<59, 36, 52, 52, 22, 28, 40, 8>> >>

\* Before it, the margin and the column of the keys.
KeyColumn == 18

\* How many rows something takes, and it takes at least one.
Rows(w, width) == (Larger(w, 1) + width - 1) \div width

\* key_lines, wrapped_len: each section has a title and, but for the first, an
\* empty line above it; an empty line and one more stand at the end.
Total(width) ==
    LET RowsOf(section) == SumFunction([i \in DOMAIN section |-> Rows(KeyColumn + section[i], width)])
    IN  SumFunction([s \in DOMAIN Sections |-> 1 + RowsOf(Sections[s])]) + Len(Sections) - 1
          + 1 + Rows(57, width)

-----------------------------------------------------------------------------
(* The window *)

MascotWidth == 56
MascotHeight == 16

\* The mascot stands beside the keys where they still have 92 columns.
BesideMascot(w, h) == w >= 92 + MascotWidth + 6 /\ h >= MascotHeight + 8

Reserved(art) == IF art THEN MascotWidth + 2 ELSE 0
WantedWidth(art) == IF art THEN 92 + MascotWidth + 6 ELSE 78

\* Slip: 32 lines, as it once was.
WantedHeight32(art) == 32

\* How high the window should be: by the rows there are, where they have room.
WantedHeight(art) ==
    LET wanted == Total(WantedWidth(art) - 4 - Reserved(art)) + 4
    IN  IF art THEN Larger(wanted, MascotHeight + 10) ELSE wanted

\* centered
Window(w, h, art) ==
    [w |-> Larger(Smaller(WantedWidth(art), Minus(w, 2)), 1),
     h |-> Larger(Smaller(WantedHeight(art), Minus(h, 2)), 1)]

\* modal::frame: the hint takes a line and another above it, where there is room.
Room(win) == IF Minus(win.h, 2) < 3 THEN Minus(win.h, 2) ELSE win.h - 4

\* render_frame
Shown(w, h, mascot) ==
    LET art == mascot /\ BesideMascot(w, h)
        win == Window(w, h, art)
        rows == Total(Larger(Minus(win.w, 4 + Reserved(art)), 1))
    IN  [rows |-> rows, room |-> Room(win), width |-> w, height |-> h, high |-> win.h,
         hint |-> Minus(win.h, 2) >= 3 /\ rows > Minus(win.h, 4)]

-----------------------------------------------------------------------------

NoWindow == [rows |-> 0, room |-> 0, width |-> 0, height |-> 0, high |-> 0, hint |-> FALSE]

Init == open = FALSE /\ scroll = 0 /\ bound = 0 /\ window = NoWindow

\* `?', `h'
Open ==
    /\ ~open
    /\ open' = TRUE
    /\ UNCHANGED <<scroll, bound, window>>

Scroll(to) ==
    /\ open
    /\ scroll' = to
    /\ UNCHANGED <<open, bound, window>>

Up == Scroll(Minus(scroll, 1))
Down == Scroll(Smaller(scroll + 1, bound))
PageUp == Scroll(Minus(scroll, 10))
PageDown == Scroll(Smaller(scroll + 10, bound))

\* Any other key.
Close ==
    /\ open
    /\ open' = FALSE /\ scroll' = 0 /\ window' = NoWindow
    /\ UNCHANGED bound

\* The user's theme may have no mascot, or a smaller decoration (mascot).
Draw ==
    /\ open
    /\ \E w \in Widths, h \in Heights, mascot \in BOOLEAN : window' = Shown(w, h, mascot)
    /\ bound' = Minus(window'.rows, window'.room)
    /\ UNCHANGED <<open, scroll>>

Next == Open \/ Up \/ Down \/ PageUp \/ PageDown \/ Close \/ Draw

Spec == Init /\ [][Next]_vars

-----------------------------------------------------------------------------
(* Properties *)

FirstLine == Smaller(scroll, bound)

\* No key is out of reach, on a terminal of any size: where the list is cut off,
\* the hint, if there are three lines in the frame, says that it scrolls, Down
\* brings the next line until the last one is there, and emptiness is never shown
\* below it; and on a terminal of the usual width it is only cut off where the
\* terminal is not high enough (help.rs on the window's height, and Cap::Scroll).
EveryKeyInReach ==
    [][window # NoWindow =>
         /\ window.room < window.rows =>
              /\ window.high >= 5 => window.hint
              /\ window.width >= 80 => window.high >= window.height - 2
         /\ window.hint => bound > 0
         /\ FirstLine > 0 => FirstLine + window.room <= window.rows
         /\ Down /\ FirstLine + window.room < window.rows => FirstLine' = FirstLine + 1]_vars
=============================================================================
