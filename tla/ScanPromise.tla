----------------------------- MODULE ScanPromise ----------------------------
(***************************************************************************)
(* What the process list promises the page, whatever thread scans /proc:   *)
(* rounds are asked for one at a time, a round that is shown is the newest *)
(* one asked for, and a round may be lost but never waited for for ever.   *)
(***************************************************************************)
EXTENDS Naturals

CONSTANT MaxRounds   \* bound: the rounds ever asked for

VARIABLES
    busy,    \* a round has been asked for and has not come back
    asked,   \* the newest round asked for
    shown    \* the round on the page

vars == <<busy, asked, shown>>

Init == busy = FALSE /\ asked = 0 /\ shown = 0

Ask ==
    /\ ~busy /\ asked < MaxRounds
    /\ busy' = TRUE
    /\ asked' = asked + 1
    /\ UNCHANGED shown

Answer ==
    /\ busy
    /\ busy' = FALSE
    /\ shown' = asked
    /\ UNCHANGED asked

Lose ==
    /\ busy
    /\ busy' = FALSE
    /\ UNCHANGED <<asked, shown>>

\* A round asked for and answered, or lost, on the spot.
AtOnce ==
    /\ ~busy /\ asked < MaxRounds
    /\ asked' = asked + 1
    /\ shown' \in {shown, asked'}
    /\ UNCHANGED busy

Next == Ask \/ Answer \/ Lose \/ AtOnce

Spec == Init /\ [][Next]_vars
=============================================================================
