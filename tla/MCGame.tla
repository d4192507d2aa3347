------------------------------- MODULE MCGame -------------------------------
(* The dino game for TLC: the score board, with one process for each of    *)
(* two accounts, and the field a game is played on. They share the score a *)
(* game ends with and nothing else: a behaviour watches one of the two     *)
(* (watched), the other stands.                                            *)
EXTENDS Scoreboard, TLC

CONSTANTS a1, a2, p1, p2, Starts, KeyEvery, MaxObstacles

VARIABLES watched, columns, speed, obstacles, history, poses, sinceKey, count

Game == INSTANCE Dino

ASSUME DinoAssumption == Game!DinoBounds

fieldVars == <<columns, speed, obstacles, history, poses, sinceKey, count>>
all == <<watched, vars, fieldVars>>

\* One that is not watched stands in one of its initial states.
GameInit ==
    /\ watched \in {"board", "field"} /\ Init /\ Game!Init
    /\ watched = "board" => speed = 6180

\* The field is empty again and no more obstacles are followed.
FieldOver ==
    watched = "field" /\ count = MaxObstacles /\ obstacles = << >> /\ UNCHANGED all

GameNext ==
    \/ watched = "board" /\ Next /\ UNCHANGED <<watched, fieldVars>>
    \/ watched = "field" /\ Game!Next /\ UNCHANGED <<watched, vars>>
    \/ FieldOver

GameSpec ==
    /\ GameInit /\ [][GameNext]_all
    /\ \A p \in Procs : watched = "board" => WF_vars(Recording(p))

\* What Dino states.
Solvable == Game!Solvable
\* Likewise.
RoomToLand == Game!RoomToLand

MCApart == p1 :> a1 @@ p2 :> a2

\* A game after its first three seconds, games that have just unlocked the birds,
\* and games at full speed, these behind an obstacle that drew a gap longer than
\* the field: on the narrowest terminal, on one of 80 columns, and on one that has
\* room for all of the field.
Start(c, s, h) == [columns |-> c, speed |-> s, history |-> h]
MCStarts ==
    { Start(134, 6180, << >>), Start(134, 13000, <<"bird", "large">>),
      Start(80, 13000, <<"large", "bird">>),
      Start(48, 8500, <<"bird", "large">>), Start(48, 13000, <<"large", "bird">>) }
=============================================================================
