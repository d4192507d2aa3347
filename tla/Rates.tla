------------------------------- MODULE Rates -------------------------------
(***************************************************************************)
(* The collectors that turn the kernel's running totals into what the page *)
(* shows per second or in percent: disks, network interfaces and CPUs.     *)
(*                                                                         *)
(* They share nothing, so a behaviour watches one of them (kind). Of a     *)
(* disk and an interface, one total each way is kept: the number of        *)
(* operations and the busy time of a disk are counted like its reads, and  *)
(* a CPU's steal like its iowait. A rate is in parts of a unit per tick.   *)
(***************************************************************************)
EXTENDS Integers, Sequences, FiniteSets, FiniteSetsExt, Functions

CONSTANTS
    Order,      \* the names of disks, or interfaces, as the kernel lists them
    Part,       \* of these: partitions, or virtual interfaces
    Wrap,       \* where a total starts again from 0
    Moves,      \* what a device may move in a tick, by direction
    Fine,       \* parts of a unit, divisible by every number of ticks
    Cores,      \* how many CPUs, numbered from 0
    Growths,    \* what the times of a CPU may do between two rounds
    MaxTime,    \* bound: when the behaviour ends
    MaxChanges  \* bound: devices or CPUs that come or go

Names == Range(Order)
Dirs == {"in", "out"}
Fields == {"busy", "idle", "wait"}
Numbers == 0..(Cores - 1)
All == -1
Lines == Numbers \cup {All}

ASSUME RatesAssumption ==
    /\ Order \in Seq(Names) /\ \A i, j \in DOMAIN Order : Order[i] = Order[j] => i = j
    /\ Part \subseteq Names
    /\ {Wrap, Fine, Cores, MaxTime} \subseteq Nat \ {0}
    /\ MaxChanges \in Nat
    /\ \A t \in 1..MaxTime : Fine % t = 0
    /\ Moves \subseteq [Dirs -> Nat] /\ Moves # {}
    /\ \A m \in Moves, d \in Dirs : m[d] * MaxTime < Wrap
    /\ Growths \subseteq [Fields -> Int]
    /\ \A g \in Growths : g["busy"] >= 0

VARIABLES
    kind,       \* "disk", "net" or "cpu"
    now,
    changes,    \* those that may still come or go
    world,      \* by name: the totals of the device there, or Gone
    since,      \* history: by name, what it moved since it was last read
    entries,    \* the list the page shows
    index,      \* by name: where in that list
    total,      \* by direction: the sum shown
    online, times,  \* CPUs that have a line, and the times of all
    drift,      \* history: by CPU, how its times changed since last read
    usage, prevTimes,   \* by CPU: percent shown, times it stands on
    allUsage, allWait, allPrev  \* of all together

devices == <<world, since, entries, index, total>>
cpus == <<online, times, drift, usage, prevTimes, allUsage, allWait, allPrev>>
vars == <<kind, now, changes, devices, cpus>>

\* What is shown where there is no number.
Pending == -1
Failed == -2
Gone == [d \in Dirs |-> -1]
NoTimes == [f \in Fields |-> -1]
None == [d \in Dirs |-> 0]
Long == [d \in Dirs |-> Wrap - 2]     \* totals of a device in place for long
Still == [f \in Fields |-> 0]

There == {n \in Names : world[n] # Gone}
Sum(t) == t["busy"] + t["idle"] + t["wait"]
SumIdle(t) == t["idle"] + t["wait"]
Plus(s, t) == [f \in Fields |-> s[f] + t[f]]
PerTick(x, t) == (Fine * x) \div t
Share(part, whole) == (100 * part) \div whole
Most(a, b) == IF a > b THEN a ELSE b

\* A collector that stands at its first round.
Init ==
    /\ kind \in {"disk", "net", "cpu"}
    /\ now = 0
    /\ changes = MaxChanges
    /\ world = [n \in Names |-> IF kind = "cpu" THEN Gone ELSE Long]
    /\ since = [n \in Names |-> [read |-> FALSE, at |-> 0, same |-> TRUE, moved |-> None]]
    /\ entries = << >>
    /\ index = << >>
    /\ total = [d \in Dirs |-> Pending]
    /\ online = Numbers
    /\ times = [c \in Numbers |-> [f \in Fields |-> MaxTime]]
    /\ drift = [c \in Lines |-> Still]
    /\ usage = << >>
    /\ prevTimes = << >>
    /\ allUsage = Pending
    /\ allWait = Pending
    /\ allPrev = NoTimes

-----------------------------------------------------------------------------
(* External: the machine *)

\* A tick goes by, and every device moves what it moves.
DevicesMove ==
    /\ kind # "cpu"
    /\ now < MaxTime
    /\ now' = now + 1
    /\ \E move \in [There -> Moves] :
        /\ world' = [n \in Names |->
                IF n \notin There THEN Gone
                ELSE [d \in Dirs |-> (world[n][d] + move[n][d]) % Wrap]]
        /\ since' = [n \in Names |->
                IF n \notin There THEN since[n]
                ELSE [since[n] EXCEPT !.moved =
                        [d \in Dirs |-> @[d] + move[n][d]]]]
    /\ UNCHANGED <<kind, changes, entries, index, total, cpus>>

Unplug(n) ==
    /\ kind # "cpu"
    /\ changes > 0
    /\ changes' = changes - 1
    /\ world[n] # Gone
    /\ world' = [world EXCEPT ![n] = Gone]
    /\ UNCHANGED <<kind, now, since, entries, index, total, cpus>>

\* The new one under that name starts from 0.
Plug(n) ==
    /\ kind # "cpu"
    /\ changes > 0
    /\ changes' = changes - 1
    /\ world[n] = Gone
    /\ world' = [world EXCEPT ![n] = None]
    /\ since' = [since EXCEPT ![n].same = FALSE]
    /\ UNCHANGED <<kind, now, entries, index, total, cpus>>

\* The kernel's idle and iowait may go back a little.
CpusRun ==
    /\ kind = "cpu"
    /\ now < MaxTime
    /\ now' = now + 1
    /\ \E growth \in [online -> Growths] :
        LET Grown(c) == IF c \in online THEN growth[c] ELSE Still
            all == [f \in Fields |-> SumFunction([c \in Numbers |-> Grown(c)[f]])]
        IN  /\ times' = [c \in Numbers |-> Plus(times[c], Grown(c))]
            /\ drift' = [c \in Lines |->
                    Plus(drift[c], IF c = All THEN all ELSE Grown(c))]
    /\ UNCHANGED <<kind, changes, online, usage, prevTimes, allUsage, allWait, allPrev, devices>>

\* A CPU is taken offline, which takes its line away, or put back.
Hotplug(c) ==
    /\ kind = "cpu"
    /\ changes > 0
    /\ changes' = changes - 1
    /\ online' = IF c \in online THEN online \ {c} ELSE online \cup {c}
    /\ online' # {}
    /\ UNCHANGED <<kind, now, times, drift, usage, prevTimes, allUsage, allWait,
                   allPrev, devices>>

-----------------------------------------------------------------------------
(* Disks and interfaces: one round *)

\* Slip: the difference of two unsigned numbers, as it wraps.
RateWrapping(old, oldAt, new) ==
    IF now > oldAt THEN PerTick((new - old) % Wrap, now - oldAt) ELSE Pending

\* Counter::update: what a total that went on has moved per tick. One that is
\* smaller than before, or was read in this very moment, tells nothing.
Rate(old, oldAt, new) ==
    IF new >= old /\ now > oldAt THEN PerTick(new - old, now - oldAt) ELSE Pending

\* A partition's line is passed over; a virtual interface's is not.
Read == {n \in There : kind = "net" \/ n \notin Part}

NewEntry(n) == [name |-> n, rate |-> [d \in Dirs |-> Pending], prev |-> Gone, at |-> now]

\* The entries there are, then one for each name not seen before, as the kernel
\* lists them; and where in that list a name's entry is.
Nth(n) == CHOOSE i \in DOMAIN Order : Order[i] = n
New == Read \ DOMAIN index
PlaceOfNew(n) == Len(entries) + Cardinality({m \in New : Nth(m) < Nth(n)}) + 1
AllEntries ==
    [i \in 1..(Len(entries) + Cardinality(New)) |->
        IF i <= Len(entries) THEN entries[i]
        ELSE NewEntry(CHOOSE n \in New : PlaceOfNew(n) = i)]
Where == [n \in DOMAIN index \cup Read |-> IF n \in New THEN PlaceOfNew(n) ELSE index[n]]

\* What this round measures of n, at e: Pending if nothing.
Measured(e, n, d) ==
    IF n \notin Read \/ e.prev = Gone THEN Pending
    ELSE Rate(e.prev[d], e.at, world[n][d])

\* A line finds its entry by the index. No new rate: the old one stays.
Updated(list, where) ==
    [i \in DOMAIN list |->
        LET mine == {n \in Read : where[n] = i}
            e == list[i]
        IN  IF mine = {} THEN e
            ELSE LET n == CHOOSE m \in mine : TRUE
                 IN  [e EXCEPT !.prev = world[n], !.at = now,
                               !.rate = [d \in Dirs |->
                                   IF Measured(e, n, d) = Pending THEN e.rate[d]
                                   ELSE Measured(e, n, d)]]]

\* A virtual interface is not part of the sum: it is counted behind another.
InTotal(n) == kind = "disk" \/ n \notin Part

\* What the round measured is added up; if that is nothing, the old sum stays.
\* Whether it is nothing, the first direction tells for both.
Totals(list, where) ==
    LET Of(d) == {n \in Read : InTotal(n) /\ Measured(list[where[n]], n, d) # Pending}
    IN  IF Of("in") = {} THEN total
        ELSE [d \in Dirs |->
                SumFunction([n \in Of(d) |-> Measured(list[where[n]], n, d)])]

\* Disks are shown by what they read, the busiest first.
OrZero(r) == IF r = Pending THEN 0 ELSE r
Busier(list, i, j) ==
    LET a == OrZero(list[i].rate["in"])
        b == OrZero(list[j].rate["in"])
    IN  a > b \/ (a = b /\ i < j)
RankOf(list, i) == Cardinality({j \in DOMAIN list : Busier(list, j, i)}) + 1
Sorted(list) ==
    [k \in DOMAIN list |-> list[CHOOSE i \in DOMAIN list : RankOf(list, i) = k]]

Index(list) == [n \in {list[i].name : i \in DOMAIN list} |->
                    CHOOSE i \in DOMAIN list : list[i].name = n]

\* update_counters, update_io.
SampleDevices ==
    /\ kind # "cpu"
    /\ LET updated == Updated(AllEntries, Where)
       IN  entries' = IF kind = "disk" THEN Sorted(updated) ELSE updated
    /\ total' = Totals(AllEntries, Where)
    /\ index' = Index(entries')
    /\ since' = [n \in Names |->
            IF n \in Read THEN [read |-> TRUE, at |-> now, same |-> TRUE, moved |-> None]
            ELSE since[n]]
    /\ UNCHANGED <<kind, now, changes, world, cpus>>

-----------------------------------------------------------------------------
(* CPUs: one round *)

\* CpuDelta::update: how much of the time was not idle.
Percent(old, new) ==
    LET whole == Sum(new) - Sum(old)
        idle == Most(SumIdle(new) - SumIdle(old), 0)
    IN  IF old = NoTimes \/ whole <= 0 THEN Pending
        ELSE Share(Most(whole - idle, 0), whole)

KeepOr(old, new) == IF new = Pending THEN old ELSE new

\* The list is long enough for every number that has a line: a CPU that is
\* offline keeps its place.
Places == Most(Cardinality(DOMAIN usage), Max(online) + 1)
UsageOf(c) == IF c \in DOMAIN usage THEN usage[c] ELSE Pending
TimesOf(c) == IF c \in DOMAIN usage THEN prevTimes[c] ELSE NoTimes

AllTimes == [f \in Fields |-> SumFunction([c \in Numbers |-> times[c][f]])]

\* Slip: the lines are put down one after another.
PlaceOfNext(c) == Cardinality({b \in online : b < c})

PlaceOf(c) == c

\* update_total and update_core. iowait is not held within the time there was.
SampleCpus ==
    /\ kind = "cpu"
    /\ LET At(p) == {c \in online : PlaceOf(c) = p}
       IN  /\ usage' = [p \in 0..(Places - 1) |->
                IF At(p) = {} THEN UsageOf(p)
                ELSE KeepOr(UsageOf(p), Percent(TimesOf(p), times[CHOOSE c \in At(p) : TRUE]))]
           /\ prevTimes' = [p \in 0..(Places - 1) |->
                IF At(p) = {} THEN TimesOf(p) ELSE times[CHOOSE c \in At(p) : TRUE]]
    /\ allUsage' = KeepOr(allUsage, Percent(allPrev, AllTimes))
    /\ LET whole == Sum(AllTimes) - Sum(allPrev)
       IN  allWait' =
            IF allPrev = NoTimes \/ whole <= 0 THEN allWait
            ELSE Share(Most(AllTimes["wait"] - allPrev["wait"], 0), whole)
    /\ allPrev' = AllTimes
    /\ drift' = [c \in Lines |-> IF c \in online \cup {All} THEN Still ELSE drift[c]]
    /\ UNCHANGED <<kind, now, changes, online, times, devices>>

-----------------------------------------------------------------------------

\* The kernel's file cannot be read: only the CPUs' page says so.
SampleFails ==
    /\ allUsage' = IF kind = "cpu" THEN Failed ELSE allUsage
    /\ UNCHANGED <<kind, now, changes, devices, online, times, drift, usage, prevTimes,
                   allWait, allPrev>>

Next ==
    \/ DevicesMove
    \/ CpusRun
    \/ \E n \in Names : Unplug(n) \/ Plug(n)
    \/ \E c \in Numbers : Hotplug(c)
    \/ SampleDevices
    \/ SampleCpus
    \/ SampleFails

Spec == Init /\ [][Next]_vars

-----------------------------------------------------------------------------
(* Properties *)

ShownRate(n, d) ==
    LET mine == {i \in DOMAIN entries : entries[i].name = n}
    IN  IF mine = {} THEN Pending ELSE entries[CHOOSE i \in mine : TRUE].rate[d]

\* What a device has moved per tick since it was last read, unless its total
\* began again from 0 on the way.
Tells(n, d) ==
    n \in Read /\ since[n].read /\ since[n].same /\ now > since[n].at
    /\ world[n][d] >= since[n].moved[d]
Told(d) == {n \in Names \ Part : Tells(n, d)}
Speed == Max({m[d] : m \in Moves, d \in Dirs})
Truth(n, d) == PerTick(since[n].moved[d], now - since[n].at)

\* A rate is what its own device has moved, whatever came, went or changed
\* places in the list; at the worst, when another device has come under its
\* name, it is no more than a device can move (util.rs on Counter). The total is
\* what the whole disks and the real interfaces have moved that are still there,
\* each counted once (is_partition, is_virtual_interface).
RatesAreTrue ==
    [][SampleDevices =>
        /\ \A n \in Names, d \in Dirs :
            /\ Tells(n, d) => ShownRate(n, d)' = Truth(n, d)
            /\ ShownRate(n, d)' # ShownRate(n, d) => ShownRate(n, d)' <= Fine * Speed
        /\ (\A n \in There : since[n].same) =>
            total' = IF Told("in") = {} THEN total
                     ELSE [d \in Dirs |-> SumFunction([n \in Told(d) |-> Truth(n, d)])]]_vars

\* What a CPU shows is its own share of time not idle, also after others have
\* gone offline; all together, and iowait, likewise. Only a total that goes
\* back makes iowait more than the whole.
CpusAreTrue ==
    [][SampleCpus =>
        /\ \A c \in online :
            c \in DOMAIN usage /\ prevTimes[c] # NoTimes
              /\ SumIdle(drift[c]) >= 0 /\ Sum(drift[c]) > 0 =>
                usage'[c] = Share(drift[c]["busy"], Sum(drift[c]))
        /\ \A c \in DOMAIN usage \ online : usage'[c] = usage[c]
        /\ \A c \in DOMAIN usage' : usage'[c] \in 0..100 \cup {Pending}
        /\ allPrev # NoTimes /\ Sum(drift[All]) > 0 =>
            /\ SumIdle(drift[All]) >= 0 =>
                allUsage' = Share(drift[All]["busy"], Sum(drift[All]))
            /\ drift[All]["idle"] >= 0 => allWait' \in 0..100]_vars
=============================================================================
