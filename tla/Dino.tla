-------------------------------- MODULE Dino --------------------------------
(***************************************************************************)
(* The field of the dino game: obstacles that come in at its right edge    *)
(* and run to the left, faster and faster, and what a player can do about  *)
(* them. Which obstacle comes, how many side by side and how far the next  *)
(* is behind it is drawn at random. No obstacle depends on the player, so  *)
(* the module carries every pose the dino can be in without having run     *)
(* into one, over all keys pressed so far: a level is lost when none is    *)
(* left.                                                                   *)
(*                                                                         *)
(* A frame is a 60th of a second. Lengths along the field are in 2000ths   *)
(* of a dot, so that a frame moves the field by the speed in thousandths;  *)
(* heights are in 3600ths of a dot, and speeds up and down in 60ths of a   *)
(* dot a second, so that a frame moves the dino by its speed.              *)
(***************************************************************************)
EXTENDS Integers, Sequences, FiniteSets

CONSTANTS
    Starts,       \* where a behaviour takes up a game whose field is empty:
                  \* [columns, speed, history], of a terminal of so many columns
    KeyEvery,     \* the player presses a key every so many frames at most
    MaxObstacles  \* bound: obstacles a behaviour follows

\* What a module that composes this one assumes of its constants.
DinoBounds ==
    /\ \A s \in Starts : s.columns \in Nat /\ s.columns >= 48 /\ s.speed \in 6000..13000
    /\ KeyEvery \in Nat \ {0} /\ MaxObstacles \in Nat \ {0}

Dot == 2000
Up == 3600

MaxSpeed == 13000
Gravity == 1097
Hold == 45      \* DUCK_HOLD, in frames

Greater(a, b) == IF a > b THEN a ELSE b
Smaller(a, b) == IF a < b THEN a ELSE b
Size(n) == IF n < 0 THEN -n ELSE n

(* The kinds of obstacle; the bird flies at one of three heights. *)
Kinds == {"small", "large", "low bird", "bird", "high bird"}
Family(k) == IF k \in {"small", "large"} THEN k ELSE "bird"
FromSpeed(k) == IF Family(k) = "bird" THEN 8500 ELSE 0
InGroupsFrom(k) ==
    CASE k = "small" -> 4000 [] k = "large" -> 7000 [] OTHER -> 999000
UnitWidth(k) == CASE k = "small" -> 9 [] k = "large" -> 13 [] OTHER -> 23
\* Where an obstacle can be hit, in dots above the ground.
HitFrom(k) == CASE k = "low bird" -> 7 [] k = "bird" -> 20 [] k = "high bird" -> 33 [] OTHER -> 0
HitTo(k) ==
    CASE k = "small" -> 18 [] k = "large" -> 25
      [] k = "low bird" -> 16 [] k = "bird" -> 29 [] OTHER -> 42

VARIABLES
    columns,    \* the terminal
    speed,      \* in thousandths
    obstacles,  \* on the field, from left to right
    history,    \* the families of the last two, the latest first
    poses,      \* the poses of a dino that still runs
    sinceKey,   \* frames since a key could be pressed
    count       \* obstacles so far

vars == <<columns, speed, obstacles, history, poses, sinceKey, count>>

\* The field in dots: the window less its frame, two dots a column.
Field(c) == 2 * (Smaller(130, c - 4) - 4) - 4
Width(o) == o.size * UnitWidth(o.kind) * Dot

Standing == [y |-> 0, vy |-> 0, duck |-> 0, drop |-> FALSE]

Init ==
    /\ \E s \in Starts : columns = s.columns /\ speed = s.speed /\ history = s.history
    /\ obstacles = << >> /\ poses = {Standing}
    /\ sinceKey = KeyEvery /\ count = 0

-----------------------------------------------------------------------------
(* The player *)

\* The speed of take-off: a little less on a fast field.
TakeOff(s) == 320 * 60 - (36 * s) \div 1000

Jump(p, s) ==
    IF p.y > 0 THEN p
    ELSE [y |-> Up, vy |-> TakeOff(s), duck |-> 0, drop |-> FALSE]

\* Slip: a key pressed in the air is lost.
DownOnGround(p) == IF p.y > 0 THEN p ELSE [p EXCEPT !.duck = Hold]

\* Down ducks; in the air it also brings the dino down fast.
Down(p) ==
    IF p.y > 0
    THEN [p EXCEPT !.drop = TRUE, !.vy = -3 * Greater(Size(@), 112 * 60), !.duck = Hold]
    ELSE [p EXCEPT !.duck = Hold]

Moving(p) == p.vy # 0 \/ p.y > 0

\* A frame of a pose: it flies on, or lands, and then ducks if it was on its
\* way down fast.
Fall(p) ==
    LET waited == [p EXCEPT !.duck = Greater(@ - 1, 0)]
        y == p.y + p.vy
    IN  CASE ~Moving(p) -> waited
          [] Moving(p) /\ y > 0 ->
               [waited EXCEPT !.y = y, !.vy = @ - Gravity * (IF p.drop THEN 3 ELSE 1)]
          [] OTHER ->
               [y |-> 0, vy |-> 0, drop |-> FALSE,
                duck |-> IF p.drop THEN Hold ELSE waited.duck]

Ducking(p) == p.duck > 0 /\ p.y <= 0
Left(p) == (IF Ducking(p) THEN 5 ELSE 12) * Dot
Right == 30 * Dot
Crown(p) == p.y + (IF Ducking(p) THEN 12 ELSE 22) * Up

Hits(p, o) ==
    /\ Left(p) < o.x + Width(o) - Dot
    /\ o.x + Dot < Right
    /\ p.y < HitTo(o.kind) * Up
    /\ HitFrom(o.kind) * Up < Crown(p)

-----------------------------------------------------------------------------
(* The field *)

\* What may come: not a kind the speed has not unlocked, not a third of one
\* family. After eight draws of these it is a small one all the same.
Drawn(s) ==
    {k \in Kinds : s >= FromSpeed(k) /\ history # <<Family(k), Family(k)>>}
        \union {"small"}

Sizes(k, s) == IF InGroupsFrom(k) > s THEN {1} ELSE 1..3

\* 1.15 of what the field runs while a jump of 0.583 s lasts.
JumpGap(s) == (40255 * s) \div 1000

\* Slip: the gaps of the original, which may be shorter than a jump.
GapsAsDrawn(k, n, s) ==
    LET own == 2 * n * UnitWidth(k) * s + (IF Family(k) = "bird" THEN 90000 ELSE 72000)
    IN  {own, own + own \div 2}

\* The least and the greatest gap that is drawn behind n of kind k.
Gaps(k, n, s) ==
    LET own == 2 * n * UnitWidth(k) * s + (IF Family(k) = "bird" THEN 90000 ELSE 72000)
    IN  {Greater(own, JumpGap(s)), Greater(own + own \div 2, JumpGap(s))}

Edge(o) == o.x + Width(o)

\* The next one comes when there is none, or the last has drawn its gap in.
Needed(here) ==
    here # << >> => LET last == here[Len(here)]
                    IN  Edge(last) + last.gap < Field(columns) * Dot

\* A new one at the right edge, behind those that are here.
Comes(here, s) ==
    \E k \in Drawn(s) : \E n \in Sizes(k, s) : \E g \in Gaps(k, n, s) :
        /\ obstacles' = Append(here, [x |-> Field(columns) * Dot, kind |-> k,
                                      size |-> n, gap |-> g])
        /\ history' = SubSeq(<<Family(k)>> \o history, 1, Smaller(2, Len(history) + 1))
        /\ count' = count + 1

\* The obstacles of a frame: all move on, those that have left are dropped.
Moved(s) ==
    LET to == [i \in DOMAIN obstacles |-> [obstacles[i] EXCEPT !.x = @ - s]]
        on == {i \in DOMAIN obstacles : Edge(to[i]) > -4 * Dot}
    IN  [k \in 1..Cardinality(on) |->
            to[CHOOSE i \in on : Cardinality({j \in on : j < i}) + 1 = k]]

\* A frame (advance).
Frame ==
    /\ sinceKey < KeyEvery /\ poses # {} /\ (count < MaxObstacles \/ obstacles # << >>)
    /\ speed' = Smaller(speed + 1, MaxSpeed)
    /\ LET here == Moved(speed')
       IN  \/ /\ Needed(here) /\ count < MaxObstacles
              /\ Comes(here, speed')
           \/ /\ ~Needed(here) \/ count = MaxObstacles
              /\ obstacles' = here /\ UNCHANGED <<history, count>>
    /\ poses' = {p \in {Fall(q) : q \in poses} :
                    \A i \in DOMAIN obstacles' : ~Hits(p, obstacles'[i])}
    /\ sinceKey' = sinceKey + 1
    /\ UNCHANGED columns

\* A key, or none (on_key).
Key ==
    /\ sinceKey = KeyEvery
    /\ poses' = poses \union {Jump(p, speed) : p \in poses} \union {Down(p) : p \in poses}
    /\ sinceKey' = 0
    /\ UNCHANGED <<columns, speed, obstacles, history, count>>

Next == Frame \/ Key

Spec == Init /\ [][Next]_vars

-----------------------------------------------------------------------------
(* Properties *)

\* No level is lost before it begins: whatever comes, some keys, pressed no
\* faster than one in KeyEvery frames, take the dino past it (spawn, on_key,
\* advance, collides).
Solvable == poses # {}

\* An obstacle comes no closer behind the last one, gone or not, than the dino
\* jumps at that speed; where the field is shorter than a jump, no closer than
\* the field is long (spawn, advance).
JumpLength(s) == (2 * TakeOff(s) * s) \div Gravity

RoomToLand ==
    [][count' > count /\ obstacles # << >> =>
          Field(columns) * Dot - (Edge(obstacles[Len(obstacles)]) - speed')
              >= Smaller(JumpLength(speed'), (Field(columns) + 4) * Dot)]_vars
=============================================================================
