------------------------------ MODULE MainLoop ------------------------------
(***************************************************************************)
(* The main loop and its clocks: take every waiting event, sample what is  *)
(* due, step the decoration and the game, draw if there is something new   *)
(* and no event waits, and sleep until the next of them is due.            *)
(*                                                                         *)
(* Time is counted in ticks and only passes where the loop waits: asleep,  *)
(* in a draw that the terminal blocks, and in sudo's prompt. A clock is    *)
(* the time since it was last set, counted no further than it matters.     *)
(* What a key does to page and windows is Windows, how the process list is *)
(* scanned ProcCollector.                                                  *)
(***************************************************************************)
EXTENDS Integers

CONSTANTS
    Samplers,   \* collectors with a clock of their own: fast, gpu, process
    Every,      \* by sampler: its interval
    Process,    \* the sampler that only asks a worker
    PendingNap, \* how long to sleep while the worker is at it (20 ms)
    Frame,      \* a frame of the game (16.7 ms)
    IdleFrame,  \* the least time between two drawings of the page (40 ms)
    ClockTick,  \* the clock in the header (1 s)
    Settle,     \* how long the decoration rests after an event (250 ms)
    AnimPeriod, \* a frame of the decoration (1 s / fps)
    Hold,       \* how long the game stays slow after a blocked draw (1 s)
    MaxNap,     \* the longest sleep (250 ms)
    MaxDraw,    \* bound: the longest a draw is blocked
    MaxEvents   \* bound: events that come in a behaviour

LoopBounds ==
    /\ Process \in Samplers
    /\ Every \in [Samplers -> Nat \ {0}]
    /\ {PendingNap, Frame, IdleFrame, ClockTick, Settle, AnimPeriod, Hold, MaxNap}
         \subseteq Nat \ {0}
    /\ {MaxDraw, MaxEvents} \subseteq Nat
    \* No frame is held back longer than the clock in the header stands.
    /\ IdleFrame <= ClockTick /\ 2 * Frame <= ClockTick

VARIABLES
    pc,         \* where the loop is
    waiting,    \* events not yet read, left: events still to come
    left,
    hadInput,   \* this round has read a key or a resize
    interacting,    \* an event came less than Settle before this round
    inputDirty, bgDirty,    \* why to draw
    sinceDraw, sinceInput, sinceAnim,
    since,      \* by sampler: the time since its clock was set
    pending,    \* the worker: "no", "scanning", "answered"
    paused,
    mascot,     \* the last draw had room for the mascot
    game,       \* "none", "running", "over"
    sinceFrame, \* since the game last asked for a drawing
    slowFor,    \* for how long the game is still drawn at half the rate
    late        \* history: how long something has gone undrawn

clocks == <<sinceDraw, sinceInput, sinceAnim, since, sinceFrame, slowFor, late>>
state == <<pending, paused, mascot, game>>
events == <<waiting, left, hadInput, interacting>>
dirt == <<inputDirty, bgDirty>>
vars == <<pc, events, dirt, clocks, state>>

Least(a, b) == IF a < b THEN a ELSE b
Most(a, b) == IF a > b THEN a ELSE b
Minus(a, b) == Most(a - b, 0)

\* Beyond its limit a clock stands still: all it is compared with is less.
SamplerLimit(s) == Every[s] + MaxDraw + 1
DrawLimit == Most(ClockTick, MaxDraw) + 1
LateLimit == Most(2 * Frame, IdleFrame) + 1

Dirty == inputDirty \/ bgDirty

TypeOK ==
    /\ pc \in {"read", "sudo", "work", "paint", "nap", "ended"}
    /\ waiting \in Nat /\ left \in Nat /\ waiting + left <= MaxEvents
    /\ hadInput \in BOOLEAN
    /\ interacting \in BOOLEAN
    /\ inputDirty \in BOOLEAN
    /\ bgDirty \in BOOLEAN
    /\ sinceDraw \in 0..DrawLimit
    /\ sinceInput \in 0..Settle
    /\ sinceAnim \in 0..AnimPeriod
    /\ since \in [Samplers -> Nat]
    /\ \A s \in Samplers : since[s] <= SamplerLimit(s)
    /\ pending \in {"no", "scanning", "answered"}
    /\ paused \in BOOLEAN
    /\ mascot \in BOOLEAN
    /\ game \in {"none", "running", "over"}
    /\ sinceFrame \in 0..Frame
    /\ slowFor \in 0..Hold
    /\ late \in 0..LateLimit
    /\ pc = "nap" /\ ~Dirty => late = 0

\* Nothing has been sampled or drawn; App::new has just set its clocks.
Init ==
    /\ pc = "read"
    /\ waiting = 0
    /\ left = MaxEvents
    /\ hadInput = FALSE
    /\ interacting = FALSE
    /\ inputDirty = TRUE
    /\ bgDirty = FALSE
    /\ sinceDraw = ClockTick
    /\ sinceInput = Settle
    /\ sinceAnim = 0
    /\ since = [s \in Samplers |-> Every[s]]
    /\ pending = "no"
    /\ paused = FALSE
    /\ mascot = TRUE
    /\ game = "none"
    /\ sinceFrame = 0
    /\ slowFor = 0
    /\ late = 0

\* t ticks go by.
ClocksRun(t) ==
    /\ sinceInput' = Least(sinceInput + t, Settle)
    /\ sinceAnim' = Least(sinceAnim + t, AnimPeriod)
    /\ since' = [s \in Samplers |-> Least(since[s] + t, SamplerLimit(s))]
    /\ sinceFrame' = IF game = "none" THEN 0 ELSE Least(sinceFrame + t, Frame)

Passed(t) ==
    /\ ClocksRun(t)
    /\ sinceDraw' = Least(sinceDraw + t, DrawLimit)
    /\ slowFor' = Minus(slowFor, t)
    /\ late' = IF Dirty THEN Least(late + t, LateLimit) ELSE 0

-----------------------------------------------------------------------------
(* External: the terminal and the worker *)

\* An event comes in; the loop does not know.
EventComes ==
    /\ pc \notin {"nap", "ended"}
    /\ left > 0
    /\ waiting' = waiting + 1
    /\ left' = left - 1
    /\ UNCHANGED <<pc, hadInput, interacting, dirt, clocks, state>>

WorkerAnswers ==
    /\ pc # "ended"
    /\ pending = "scanning"
    /\ pending' = "answered"
    /\ UNCHANGED <<pc, events, dirt, clocks, paused, mascot, game>>

-----------------------------------------------------------------------------
(* 1. All waiting events first *)

\* The game is opened, left and started again by keys, and sampling is paused.
AfterKey ==
    \/ UNCHANGED <<paused, game, sinceFrame>>
    \/ game = "none" /\ paused' = ~paused /\ UNCHANGED <<game, sinceFrame>>
    \/ game = "none" /\ game' = "running" /\ sinceFrame' = 0 /\ UNCHANGED paused
    \/ game # "none" /\ game' = "none" /\ sinceFrame' = 0 /\ UNCHANGED paused
    \/ game = "over" /\ game' = "running" /\ UNCHANGED <<paused, sinceFrame>>

ReadKey ==
    /\ pc = "read"
    /\ waiting > 0
    /\ waiting' = waiting - 1
    /\ inputDirty' = TRUE
    /\ hadInput' = TRUE
    /\ AfterKey
    /\ UNCHANGED <<pc, left, interacting, bgDirty, sinceDraw, sinceInput, sinceAnim,
                   since, slowFor, late, pending, mascot>>

ReadQuit ==
    /\ pc = "read"
    /\ waiting > 0
    /\ pc' = "ended"
    /\ UNCHANGED <<events, dirt, clocks, state>>

\* A resize puts last_draw back by a whole clock tick.
ReadResize ==
    /\ pc = "read"
    /\ waiting > 0
    /\ waiting' = waiting - 1
    /\ inputDirty' = TRUE
    /\ hadInput' = TRUE
    /\ sinceDraw' = ClockTick
    /\ UNCHANGED <<pc, left, interacting, bgDirty, sinceInput, sinceAnim, since,
                   sinceFrame, slowFor, late, state>>

\* A mouse, a key let go, a key without a translation.
ReadNothing ==
    /\ pc = "read"
    /\ waiting > 0
    /\ waiting' = waiting - 1
    /\ UNCHANGED <<pc, left, hadInput, interacting, dirt, clocks, state>>

\* u leads to sudo's prompt, which has the terminal as long as it takes.
ReadUnlock ==
    /\ pc = "read"
    /\ waiting > 0
    /\ game = "none"
    /\ waiting' = waiting - 1
    /\ inputDirty' = TRUE
    /\ hadInput' = TRUE
    /\ pc' = "sudo"
    /\ UNCHANGED <<left, interacting, bgDirty, clocks, state>>

\* authenticate: nothing of the page was on the screen meanwhile.
Authenticated ==
    /\ pc = "sudo"
    /\ \E t \in 0..MaxNap : ClocksRun(t) /\ slowFor' = Minus(slowFor, t)
    /\ sinceDraw' = ClockTick
    /\ late' = 0
    /\ pc' = "read"
    /\ UNCHANGED <<events, dirt, state>>

ReadAll ==
    /\ pc = "read"
    /\ waiting = 0
    /\ pc' = "work"
    /\ UNCHANGED <<events, dirt, clocks, state>>

-----------------------------------------------------------------------------
(* 2. The clocks: samples, the header, the decoration, the game *)

SampleDue == IF paused THEN {} ELSE {s \in Samplers : since[s] >= Every[s]}

\* The answer is taken before the next scan is asked for, which a scan that is
\* still under way makes unnecessary (poll, request).
PendingAfterSample ==
    LET polled == IF pending = "answered" /\ ~paused THEN "no" ELSE pending
    IN  IF Process \in SampleDue THEN "scanning" ELSE polled

\* SystemState::sample has something new; asking the worker is nothing new.
Sampled == SampleDue \ {Process} # {} \/ (pending = "answered" /\ ~paused)

InputAge == IF hadInput THEN 0 ELSE sinceInput

AnimationMayAdvance == InputAge >= Settle

\* One frame however long it has been, and the clock starts from now.
AnimationSteps == AnimationMayAdvance /\ mascot /\ sinceAnim >= AnimPeriod

\* A finished game still asks for its frames, as long as something else wakes
\* the loop.
GameSteps == game # "none" /\ sinceFrame >= Frame

Work ==
    /\ pc = "work"
    /\ pc' = "paint"
    /\ hadInput' = FALSE
    /\ sinceInput' = InputAge
    /\ interacting' = (InputAge < Settle)
    /\ since' = [s \in Samplers |-> IF s \in SampleDue THEN 0 ELSE since[s]]
    /\ pending' = PendingAfterSample
    /\ sinceAnim' = IF AnimationSteps THEN 0 ELSE sinceAnim
    /\ sinceFrame' = IF GameSteps THEN 0 ELSE sinceFrame
    /\ game' \in IF game = "running" THEN {"running", "over"} ELSE {game}
    /\ \E answer \in BOOLEAN :      \* of a query: drain_worker
        bgDirty' = (bgDirty \/ Sampled \/ answer \/ sinceDraw >= ClockTick
                    \/ AnimationSteps \/ GameSteps)
    /\ UNCHANGED <<waiting, left, inputDirty, sinceDraw, slowFor, late, paused, mascot>>

-----------------------------------------------------------------------------
(* 3. One draw, unless an event waits *)

\* Pacer::min_frame, and the page's own limit when no game is on.
MinFrame ==
    IF game = "none" THEN IdleFrame
    ELSE IF slowFor > 0 THEN 2 * Frame ELSE Frame

\* should_draw: what a key did is drawn at once, the rest at its pace.
DrawDue == inputDirty \/ (bgDirty /\ sinceDraw >= MinFrame)

\* Slip: the flag of the keys is never put down.
DrawKeepsFlag ==
    /\ pc = "paint"
    /\ DrawDue
    /\ waiting = 0
    /\ \E t \in 0..MaxDraw :
        /\ ClocksRun(t)
        /\ sinceDraw' = t
        /\ slowFor' = IF t > MinFrame THEN Minus(Hold, t) ELSE Minus(slowFor, t)
    /\ late' = 0
    /\ bgDirty' = FALSE
    /\ mascot' \in BOOLEAN
    /\ pc' = "nap"
    /\ UNCHANGED <<events, inputDirty, pending, paused, game>>

\* The draw counts from when it began. One that took longer than a frame has
\* the game drawn at half its rate (Pacer::record).
Draw ==
    /\ pc = "paint"
    /\ DrawDue
    /\ waiting = 0
    /\ \E t \in 0..MaxDraw :
        /\ ClocksRun(t)
        /\ sinceDraw' = t
        /\ slowFor' = IF t > MinFrame THEN Minus(Hold, t) ELSE Minus(slowFor, t)
    /\ late' = 0
    /\ inputDirty' = FALSE
    /\ bgDirty' = FALSE
    /\ mascot' \in BOOLEAN
    /\ pc' = "nap"
    /\ UNCHANGED <<events, pending, paused, game>>

NoDraw ==
    /\ pc = "paint"
    /\ ~DrawDue \/ waiting > 0
    /\ pc' = "nap"
    /\ UNCHANGED <<events, dirt, clocks, state>>

-----------------------------------------------------------------------------
(* 4. Sleep to the next date, or until an event comes *)

Earliest(dates) == CHOOSE d \in dates : \A e \in dates : d <= e

\* next_sample_in, next_due.
UntilSample ==
    IF paused THEN MaxNap
    ELSE Earliest({Minus(Every[s], since[s]) : s \in Samplers}
                  \cup (IF pending = "no" THEN {} ELSE {PendingNap}))

UntilClock == Minus(ClockTick, sinceDraw)

UntilAnimation ==
    IF interacting THEN Minus(Settle, sinceInput)
    ELSE IF mascot THEN Minus(AnimPeriod, sinceAnim) ELSE MaxNap

UntilGame == IF game = "running" THEN Minus(Frame, sinceFrame) ELSE MaxNap

\* Slip: what was held back is drawn when something else wakes the loop.
NoDateForFrame == MaxNap

UntilFrame ==
    IF inputDirty THEN 0
    ELSE IF bgDirty THEN Minus(MinFrame, sinceDraw) ELSE MaxNap

\* The least sleep is a millisecond, here a tick.
Wait ==
    Most(1, Least(MaxNap, Earliest({UntilSample, UntilClock, UntilAnimation,
                                    UntilGame, UntilFrame})))

Nap ==
    /\ pc = "nap"
    /\ \/ waiting > 0 /\ UNCHANGED <<waiting, left, clocks>>
       \/ waiting = 0 /\ Passed(Wait) /\ UNCHANGED <<waiting, left>>
       \/ /\ waiting = 0
          /\ left > 0
          /\ waiting' = 1
          /\ left' = left - 1
          /\ \E t \in 0..(Wait - 1) : Passed(t)
    /\ pc' = "read"
    /\ UNCHANGED <<hadInput, interacting, dirt, state>>

Ended == pc = "ended" /\ UNCHANGED vars

Read ==
    ReadKey \/ ReadQuit \/ ReadResize \/ ReadNothing \/ ReadUnlock \/ Authenticated \/ ReadAll

Loop == Read \/ Work \/ Draw \/ NoDraw \/ Nap

Next == Loop \/ EventComes \/ WorkerAnswers \/ Ended

Spec == Init /\ [][Next]_vars

\* The loop runs, and sudo's prompt is answered sooner or later.
FairSpec == Spec /\ WF_vars(Loop)

-----------------------------------------------------------------------------
(* Properties *)

\* Whatever is new is on the screen after a frame at most, the clock in the
\* header goes on, and the loop does not fall asleep over a key it has not
\* drawn; and while sampling is not paused, no sleep carries a collector past
\* its date but for the time a draw was blocked (until_frame, clock_tick,
\* should_draw, next_due).
OnTime ==
    /\ [](/\ late <= Most(2 * Frame, IdleFrame)
          /\ sinceDraw <= Most(ClockTick, MaxDraw + 1)
          /\ pc = "nap" /\ waiting = 0 => ~inputDirty)
    /\ [][pc = "nap" /\ ~paused =>
             \A s \in Samplers : since'[s] <= Every[s] + MaxDraw]_vars

\* What a key did gets drawn, however many come in one go.
InputIsShown == inputDirty ~> (~inputDirty \/ pc = "ended")
=============================================================================
