---------------------------- MODULE MCMainThread ----------------------------
(* The main thread for TLC: what the keys mean, on the overview and the    *)
(* two pages with keys of their own; and when the loop reads, samples,     *)
(* draws and sleeps, with one collector that samples and one that asks.    *)
(* A behaviour watches one of the two (watched), the other stands.         *)
EXTENDS Windows, TLC

CONSTANTS
    Samplers, Every, Process, PendingNap, Frame, IdleFrame, ClockTick, Settle,
    AnimPeriod, Hold, MaxNap, MaxDraw, MaxEvents

VARIABLES
    watched,
    pc, waiting, left, hadInput, interacting, inputDirty, bgDirty,
    sinceDraw, sinceInput, sinceAnim, since, pending, stopped, mascot, contestOn,
    sinceFrame, slowFor, late

L == INSTANCE MainLoop WITH paused <- stopped, game <- contestOn

ASSUME MainLoopAssumption == L!LoopBounds

loopVars == <<pc, waiting, left, hadInput, interacting, inputDirty, bgDirty,
              sinceDraw, sinceInput, sinceAnim, since, pending, stopped, mascot,
              contestOn, sinceFrame, slowFor, late>>

ThreadNext ==
    \/ watched = "keys" /\ Next /\ UNCHANGED <<watched, loopVars>>
    \/ watched = "loop" /\ L!Next /\ UNCHANGED <<watched, vars>>

\* One that is not watched stands in its initial state.
ThreadInit ==
    /\ watched \in {"keys", "loop"} /\ Init /\ L!Init
    /\ watched = "loop" => view = Overview

ThreadSpec ==
    /\ ThreadInit
    /\ [][ThreadNext]_<<watched, vars, loopVars>>
    /\ watched = "loop" => WF_loopVars(L!Loop)

\* What MainLoop states.
OnTime == L!OnTime
\* Likewise.
InputIsShown == watched = "loop" => L!InputIsShown

MCViews == <<"Overview", "Process", "Admin">>
MCEvery == "fast" :> 4 @@ "process" :> 5
=============================================================================
