--------------------------------- MODULE Gpu ---------------------------------
(***************************************************************************)
(* The GPU collector: NVIDIA's library, which is opened when there is a    *)
(* card and, after a failure, tried again only now and then; and Intel's   *)
(* counter of the time asleep, from which the load is estimated. AMD's     *)
(* cards are read as they are, like Intel's clocks. Of a device it is      *)
(* here whether it is listed; the names of its processes are left out.     *)
(***************************************************************************)
EXTENDS Integers, FiniteSets

CONSTANTS
    Retry,      \* rounds between two attempts to open the library (30)
    Short,      \* ticks too short for an estimate (50 ms), not 0
    History,    \* points a history keeps, not 0
    MaxTime,    \* bound: when the Intel card's clock stops
    MaxChanges  \* bound: cards, drivers and counters that come or go

\* What a module that composes this one assumes of its constants.
GpuBounds ==
    /\ Retry \in Nat /\ MaxTime \in Nat /\ MaxChanges \in Nat
    /\ Short \in Nat \ {0} /\ History \in Nat \ {0}

VARIABLES
    enabled,    \* not switched off in the configuration
    now,
    changes,    \* those that may still happen
    card,       \* an NVIDIA card is on the bus ...
    driver,     \* ... and its driver answers
    library,    \* the library is open (nvml)
    countdown,  \* rounds until it is tried again
    error,      \* the page shows the driver's failure
    diagnosed,  \* and what was found out about it
    rc6,        \* Intel: ticks asleep, as the kernel counts them
    baseline,   \* the count and the time an estimate starts from (prev_rc6)
    lastUtil,   \* the last estimate
    util,       \* the estimate shown
    devices,    \* the devices listed
    history,    \* by device: points in its graph
    up,         \* history: rounds in a row with card and driver
    ago,        \* history: rounds since an attempt failed
    measured,   \* history: time of the last usable reading of rc6 ...
    awake,      \* ... ticks awake since
    reloaded    \* ... and whether it has begun again from 0

nvidia == <<card, driver, library, countdown, error, diagnosed, up, ago>>
intel == <<rc6, baseline, lastUtil, util, measured, awake, reloaded>>
vars == <<enabled, now, changes, devices, history, nvidia, intel>>

Devices == {"nv0", "card0"}
NoTime == -1
NoBaseline == [count |-> -1, at |-> NoTime]
NoUtil == [busy |-> 0, of |-> 0]

\* new: the library is opened at once if there is a card.
Init ==
    /\ enabled \in BOOLEAN
    /\ now = 0 /\ changes = MaxChanges
    /\ card \in BOOLEAN /\ driver \in BOOLEAN
    /\ library = (enabled /\ card /\ driver)
    /\ countdown = 0 /\ error = FALSE /\ diagnosed = FALSE
    /\ rc6 = 0 /\ baseline = NoBaseline /\ lastUtil = NoUtil /\ util = NoUtil
    /\ devices = {} /\ history = [d \in Devices |-> 0]
    /\ up = 0 /\ ago = NoTime
    /\ measured = NoTime /\ awake = 0 /\ reloaded = FALSE

-----------------------------------------------------------------------------
(* External: the machine *)

Change == changes > 0 /\ changes' = changes - 1 /\ UNCHANGED <<enabled, now, devices, history>>

\* A tick goes by, with the Intel card asleep or awake.
Tick ==
    /\ now < MaxTime
    /\ now' = now + 1
    /\ \/ rc6' = rc6 + 1 /\ awake' = awake
       \/ awake' = awake + 1 /\ rc6' = rc6
    /\ UNCHANGED <<enabled, changes, devices, history, nvidia,
                   baseline, lastUtil, util, measured, reloaded>>

\* A card is plugged or pulled, its driver loaded or unloaded.
NvidiaChanges ==
    /\ Change
    /\ \/ card' = ~card /\ driver' = driver
       \/ driver' = ~driver /\ card' = card
    /\ up' = 0
    /\ UNCHANGED <<library, countdown, error, diagnosed, ago, intel>>

\* Its module loaded anew, the Intel card counts from 0.
IntelReloads ==
    /\ Change
    /\ rc6' = 0
    /\ reloaded' = TRUE
    /\ UNCHANGED <<nvidia, baseline, lastUtil, util, measured, awake>>

-----------------------------------------------------------------------------
(* One round: GpuCollector::update *)

\* NvidiaBackend::poll. The countdown runs only with a card and no library.
Tries == ~library /\ card /\ countdown = 0

\* Slip: the countdown starts with the first round that fails, not with the
\* attempt.
CountdownAsCounted ==
    IF library \/ ~card THEN Retry
    ELSE IF countdown = 0 THEN Retry + 1 ELSE countdown - 1

Countdown ==
    IF library \/ ~card THEN countdown
    ELSE IF countdown = 0 THEN Retry ELSE countdown - 1

\* device_count: a library that does not answer any more is given up.
Answers == (library \/ Tries) /\ driver

PollNvidia ==
    /\ library' = Answers
    /\ countdown' = Countdown
    /\ error' = IF Answers THEN FALSE ELSE error \/ card
    /\ diagnosed' = (diagnosed \/ (~Answers /\ card))
    /\ up' = IF ~card \/ ~driver THEN 0 ELSE IF up > Retry THEN up ELSE up + 1
    /\ ago' = IF Tries THEN IF driver THEN NoTime ELSE 0
              ELSE IF ago # NoTime /\ card /\ ago <= Retry THEN ago + 1 ELSE ago
    /\ UNCHANGED <<card, driver>>

\* Slip: the time since the last round counts, not that since the last estimate.
BaselineEachRound == [count |-> rc6, at |-> now]

\* compute_rc6_utilization: the count an estimate starts from. After too short a
\* time it stays, or the time until then would be in no estimate.
Baseline ==
    IF baseline # NoBaseline /\ now - baseline.at < Short THEN baseline
    ELSE [count |-> rc6, at |-> now]

\* The time not asleep, out of all; none when the count has gone back, the last
\* one when the time is too short.
Estimate ==
    LET elapsed == now - baseline.at
        busy == elapsed - (rc6 - baseline.count)
    IN  IF baseline = NoBaseline THEN NoUtil
        ELSE IF elapsed < Short THEN lastUtil
        ELSE IF rc6 < baseline.count THEN NoUtil
        ELSE [busy |-> IF busy < 0 THEN 0 ELSE busy, of |-> elapsed]

IsFresh == baseline # NoBaseline /\ now - baseline.at >= Short /\ rc6 >= baseline.count

\* The reading the estimate of the next usable one will be about.
Usable == measured = NoTime \/ now - measured >= Short

\* read_card; the counter's file cannot always be read.
PollIntel ==
    \/ /\ baseline' = Baseline
       /\ util' = Estimate
       /\ lastUtil' = IF IsFresh THEN Estimate ELSE lastUtil
       /\ measured' = IF Usable THEN now ELSE measured
       /\ awake' = IF Usable THEN 0 ELSE awake
       /\ reloaded' = (reloaded /\ ~Usable)
       /\ UNCHANGED rc6
    \/ util' = NoUtil /\ UNCHANGED <<rc6, baseline, lastUtil, measured, awake, reloaded>>

\* Every round lists the devices anew and adds a point to the graph of each.
Poll ==
    /\ enabled
    /\ PollNvidia
    /\ PollIntel
    /\ devices' = {"card0"} \cup IF Answers /\ card THEN {"nv0"} ELSE {}
    /\ history' = [d \in Devices |->
                      IF d \in devices' /\ history[d] < History THEN history[d] + 1
                      ELSE history[d]]
    /\ UNCHANGED <<enabled, now, changes>>

Next == Tick \/ NvidiaChanges \/ IntelReloads \/ Poll

Spec == Init /\ [][Next]_vars

-----------------------------------------------------------------------------
(* Properties *)

\* However card and driver came and went before: when both have been there for
\* Retry + 1 rounds the card is listed and no failure is shown; and two attempts
\* to open the library are never closer than Retry rounds (nvidia.rs: each
\* round would be a waste, but the driver may have been repaired meanwhile).
RetriesInTime ==
    [][Poll =>
        /\ up' > Retry => "nv0" \in devices' /\ ~error'
        /\ Tries => ago = NoTime \/ ago >= Retry]_vars

\* An estimate is the share of the time awake since the last usable reading,
\* with none of the time left out or counted twice however short the rounds; a
\* counter that began again on the way makes it too high at most, never above
\* the whole (intel.rs on compute_rc6_utilization).
EstimateIsTrue ==
    [][Poll /\ measured # NoTime /\ measured' # measured =>
        /\ ~reloaded => util' = [busy |-> awake, of |-> now - measured]
        /\ util' # NoUtil =>
            /\ util'.of = now - measured
            /\ util'.busy \in awake..util'.of]_vars
=============================================================================
