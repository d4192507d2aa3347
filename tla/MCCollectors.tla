---------------------------- MODULE MCCollectors ----------------------------
(* The collectors for TLC: rates of disks, interfaces and CPUs; the GPUs;  *)
(* the readings of three CPUs on two packages; and what is read seldom.    *)
(* They share nothing: a behaviour watches one (watched), the others       *)
(* stand.                                                                  *)
EXTENDS Rates

CONSTANTS
    Retry, Short, History, GpuTime, GpuChanges,
    Homes, CoreChanges,
    Mountable, RootPath, NoDevice, Size, Kept, Escaped, Wide, Addresses, LinkLocal,
    Period, Until, Events

VARIABLES
    watched,
    gpuNow, gpuChanges, gpus, enabled, card, driver, library, countdown, error,
    diagnosed, rc6, baseline, lastUtil, util, history, up, ago, measured, awake, reloaded,
    present, coreChanges, sysfs, cpufreq, ids, chips, logical, topology, clocks,
    coreTemps, temp, heard,
    slow, clock, events, table, used, reading, todo, got, mounts, scanned, steady,
    links, shown, asked

G == INSTANCE Gpu WITH now <- gpuNow, changes <- gpuChanges, devices <- gpus,
                       MaxTime <- GpuTime, MaxChanges <- GpuChanges
C == INSTANCE CpuCores WITH online <- present, changes <- coreChanges,
                            MaxChanges <- CoreChanges
S == INSTANCE SlowReads WITH kind <- slow

ASSUME GpuAssumption == G!GpuBounds
ASSUME CoresAssumption == C!CoresBounds
ASSUME MountsAssumption == S!MountBounds

gpuVars == <<gpuNow, gpuChanges, gpus, enabled, card, driver, library, countdown, error,
             diagnosed, rc6, baseline, lastUtil, util, history, up, ago, measured,
             awake, reloaded>>
coreVars == <<present, coreChanges, sysfs, cpufreq, ids, chips, logical, topology, clocks,
              coreTemps, temp, heard>>
slowVars == <<slow, clock, events, table, used, reading, todo, got, mounts, scanned, steady,
              links, shown, asked>>
allVars == <<watched, vars, gpuVars, coreVars, slowVars>>

\* One that is not watched stands in one of its initial states.
CollectorsInit ==
    /\ watched \in {"rates", "gpus", "cores", "slow"}
    /\ Init /\ G!Init /\ C!Init /\ S!Init
    /\ watched # "rates" => kind = "cpu"
    /\ watched # "gpus" => ~(enabled \/ card \/ driver)
    /\ watched # "cores" => present = {1} /\ chips = {} /\ ~(sysfs \/ cpufreq \/ ids)
    /\ watched # "slow" => slow = "links"

CollectorsNext ==
    \/ /\ watched = "rates" /\ Next
       /\ UNCHANGED <<watched, gpuVars, coreVars, slowVars>>
    \/ /\ watched = "gpus" /\ G!Next
       /\ UNCHANGED <<watched, vars, coreVars, slowVars>>
    \/ /\ watched = "cores" /\ C!Next
       /\ UNCHANGED <<watched, vars, gpuVars, slowVars>>
    \/ /\ watched = "slow" /\ S!Next
       /\ UNCHANGED <<watched, vars, gpuVars, coreVars>>

CollectorsSpec == CollectorsInit /\ [][CollectorsNext]_allVars

\* What Gpu states of its own steps.
RetriesInTime == G!RetriesInTime
\* Likewise.
EstimateIsTrue == G!EstimateIsTrue
\* And CpuCores.
TemperatureComesBack == C!TemperatureComesBack
\* And SlowReads.
FilesystemsAreTrue == S!FilesystemsAreTrue

\* Two disks or interfaces, and what is part of one of them.
MCOrder == <<"a", "p", "b">>
MCMoves == {[d \in Dirs |-> IF d = busy THEN 1 ELSE 0] : busy \in Dirs}

\* Two CPUs work, idle and wait; and their idle time or iowait goes back.
Times(busy, idle, wait) ==
    [f \in Fields |-> IF f = "busy" THEN busy ELSE IF f = "idle" THEN idle ELSE wait]
MCGrowths == {Times(2, 1, 1), Times(1, -1, 1), Times(1, 1, -1)}

Home(package, core) == [package |-> package, core |-> core]
MCHomes == <<Home(0, 0), Home(1, 0), Home(0, 1)>>

\* The root; a disk of the same size, mounted under a garbled path, too; and one
\* without blocks, and a pseudo filesystem.
Mounted(dev, path, real) == [dev |-> dev, path |-> path, real |-> real]
MCMountable == {Mounted("sda", 0, TRUE), Mounted("sdb", 1, TRUE), Mounted("sdb", 2, TRUE),
                Mounted("sda", 3, TRUE), Mounted("sdc", 3, TRUE), Mounted("none", 1, FALSE)}
MCSize == [d \in {"sda", "sdb", "sdc", "none"} |-> IF d \in {"sda", "sdb"} THEN 2 ELSE 0]
MCAddresses == [i \in {"lo", "eth0"} |-> IF i = "lo" THEN {"a"} ELSE {"b", "link-local"}]
=============================================================================
