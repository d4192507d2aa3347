----------------------------- MODULE MCSelection -----------------------------
(* What is selected, for TLC: the frame and the selected user of the       *)
(* administrator page; the window that tells of what is framed; and the    *)
(* one that lists the keys. They share nothing: a behaviour watches one of *)
(* them (watched), the others stand.                                       *)
EXTENDS AdminSelection, MCExplain

CONSTANTS Sizes, Machines, Make, OpenViews, Extra, Widths, Heights

VARIABLES
    watched,
    view, framed, found, regs, asked, chosen, scroll, bound, window,
    open, listScroll, listBound, listWindow

X == INSTANCE Explain WITH focus <- framed
H == INSTANCE HelpWindow WITH scroll <- listScroll, bound <- listBound, window <- listWindow

ASSUME HelpAssumption == H!SizesAreNumbers
ASSUME ExplainAssumption == X!WindowBounds

explainVars == <<view, framed, found, regs, asked, chosen, scroll, bound, window>>
helpVars == <<open, listScroll, listBound, listWindow>>

SelectionInit ==
    /\ watched \in {"users", "window", "help"}
    /\ Init /\ X!Init /\ H!Init
    /\ watched # "window" => view = "overview" /\ found = "before"
    /\ watched # "users" => ~unlocked

SelectionNext ==
    \/ watched = "users" /\ Next /\ UNCHANGED <<watched, explainVars, helpVars>>
    \/ watched = "window" /\ X!Next /\ UNCHANGED <<watched, vars, helpVars>>
    \/ watched = "help" /\ H!Next /\ UNCHANGED <<watched, vars, explainVars>>

SelectionSpec == SelectionInit /\ [][SelectionNext]_<<watched, vars, explainVars, helpVars>>

\* What Explain states.
TellsOfTarget == X!TellsOfTarget
\* Likewise.
ScrollIsHonest == X!ScrollIsHonest
\* What HelpWindow states.
EveryKeyInReach == H!EveryKeyInReach
=============================================================================
