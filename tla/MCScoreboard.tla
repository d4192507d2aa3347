---------------------------- MODULE MCScoreboard ----------------------------
(* Scoreboard for TLC: two processes of one account. *)
EXTENDS Scoreboard, TLC

CONSTANTS a1, p1, p2

MCTogether == p1 :> a1 @@ p2 :> a1
=============================================================================
