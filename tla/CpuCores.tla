-------------------------------- MODULE CpuCores --------------------------------
(***************************************************************************)
(* Whose readings a CPU shows. The kernel tells clocks by CPU, or in the   *)
(* order of the CPUs online, and temperatures by physical core and         *)
(* package; the collector puts them at the CPU's number while CPUs go      *)
(* offline and come back.                                                  *)
(*                                                                         *)
(* A reading is abstracted to whose it is: a clock to its CPU, a           *)
(* temperature to its physical core. CPUs are numbered from 1. A round     *)
(* reads one state of the machine.                                         *)
(***************************************************************************)
EXTENDS Integers, Sequences, FiniteSetsExt, Functions

CONSTANTS
    Homes,      \* by CPU, from the first: its physical core
    MaxChanges  \* bound: CPUs that go offline or come back

\* What a module that composes this one assumes of its constants.
CoresBounds ==
    /\ Homes \in Seq([package : Nat, core : Nat]) /\ Homes # << >>
    /\ MaxChanges \in Nat

VARIABLES
    online, changes,
    sysfs,      \* the kernel has topology nodes in sysfs ...
    cpufreq,    \* ... and one with the clock of each CPU
    ids,        \* /proc/cpuinfo tells the physical core of a CPU
    chips,      \* packages whose sensors were found at the start (hwmon)
    logical,    \* places there are for CPUs
    topology,   \* by place: physical core; empty if not known
    clocks,     \* by place: whose clock is shown there
    coreTemps,  \* by physical core: whose temperature stands for it
    temp,       \* where the package's temperature comes from
    heard       \* history: the sensors that could be read in the last round

vars == <<online, changes, sysfs, cpufreq, ids, chips, logical, topology, clocks,
          coreTemps, temp, heard>>

Numbers == DOMAIN Homes
PhysicalCores == Range(Homes)
Packages == {h.package : h \in PhysicalCores}
Nobody == 0

\* A sensor: of a package, or of one of its cores.
Whole == -1
PackageSensor(p) == [package |-> p, core |-> Whole]
Sensors == PhysicalCores \cup {PackageSensor(p) : p \in Packages}

\* CpuCollector::new: the sensors are looked for once. A machine without any is
\* one where they cannot be read.
Init ==
    /\ online \in {{1} \cup others : others \in SUBSET Numbers}
    /\ changes = MaxChanges
    /\ sysfs \in BOOLEAN /\ cpufreq \in BOOLEAN /\ ids \in BOOLEAN
    /\ chips \in {{}, Packages}
    /\ logical = 0
    /\ topology = << >> /\ clocks = << >> /\ coreTemps = << >>
    /\ temp = "none"
    /\ heard = {}

-----------------------------------------------------------------------------

\* External: a CPU is taken offline or put back. The first one stays.
Hotplug(c) ==
    /\ changes > 0
    /\ c # 1
    /\ changes' = changes - 1
    /\ online' = IF c \in online THEN online \ {c} ELSE online \cup {c}
    /\ UNCHANGED <<sysfs, cpufreq, ids, chips, logical, topology, clocks, coreTemps,
                   temp, heard>>

\* /proc/cpuinfo: the CPUs online, one block after another.
Listed ==
    [i \in 1..Cardinality(online) |->
        CHOOSE c \in online : Cardinality({d \in online : d <= c}) = i]

\* Slip: any number of blocks is good enough.
FromCpuinfoAnyhow(n) == IF ids THEN [i \in DOMAIN Listed |-> Homes[Listed[i]]] ELSE << >>

\* topology_from_cpuinfo: only if there are as many blocks as places.
FromCpuinfo(n) ==
    IF ids /\ Len(Listed) = n THEN [i \in 1..n |-> Homes[Listed[i]]] ELSE << >>

\* read_topology: a CPU that is offline has no node.
ReadTopology(n) ==
    IF sysfs /\ 1..n \subseteq online THEN SubSeq(Homes, 1, n) ELSE FromCpuinfo(n)

\* update_core: never fewer places than before.
Logical == IF Max(online) > logical THEN Max(online) ELSE logical

Topology == IF Len(topology) = Logical THEN topology ELSE ReadTopology(Logical)

\* read_freqs: if no CPU has a clock of its own, the clocks of /proc/cpuinfo.
Clocks ==
    [i \in 1..Logical |->
        IF cpufreq THEN IF i \in online THEN i ELSE Nobody
        ELSE IF i <= Len(Listed) THEN Listed[i] ELSE Nobody]

\* A chip that tells no package is taken for that of package 0.
PackageTold(s, read) == IF PackageSensor(s.package) \in read THEN s.package ELSE 0
IdTold(s, read) == [s EXCEPT !.package = PackageTold(s, read)]

\* read_temps. Of two sensors with one id, the sort leaves open which is found.
CoreTemps(read) ==
    LET cores == read \cap PhysicalCores
        told == {IdTold(s, read) : s \in cores}
    IN  {f \in [told -> cores] : \A id \in told : IdTold(f[id], read) = id}

Temp(read) ==
    IF \E p \in Packages : PackageSensor(p) \in read THEN "package"
    ELSE IF read # {} THEN "core" ELSE "none"

\* read_hwmon_labels: a core has a sensor while one of its CPUs is online, and
\* one that cannot be read now is passed over.
Readable ==
    LET there == {Homes[c] : c \in {c \in online : Homes[c].package \in chips}}
    IN  there \cup {PackageSensor(h.package) : h \in there}

\* CpuCollector::update. Without sensors the board's zone stands in.
Sample ==
    \E read \in SUBSET Readable, zone \in BOOLEAN :
        /\ logical' = Logical
        /\ clocks' = Clocks
        /\ topology' = Topology
        /\ coreTemps' \in CoreTemps(read)
        /\ temp' = IF chips = {} /\ zone THEN "zone" ELSE Temp(read)
        /\ heard' = read
        /\ UNCHANGED <<online, changes, sysfs, cpufreq, ids, chips>>

Next == Sample \/ \E c \in Numbers : Hotplug(c)

Spec == Init /\ [][Next]_vars

-----------------------------------------------------------------------------

\* core_temp: whose temperature is shown at a place.
CoreTemp(i) ==
    IF i \in DOMAIN topology /\ topology[i] \in DOMAIN coreTemps
    THEN {coreTemps[topology[i]]} ELSE {}

\* The temperature at a CPU is that of its own physical core, or none (the
\* comments on read_topology and core_temp, and the test on two sockets).
OwnTemperature == \A i \in 1..logical : CoreTemp(i) \subseteq {Homes[i]}

\* It is so while every chip heard told its package, whatever CPUs went and came
\* back; and in a round that finds all of them online and hears their sensors,
\* each shows it, if the kernel tells which core is whose: places once unknown
\* do not stay so.
TemperatureComesBack ==
    [][Sample =>
        /\ (\A s \in heard' : PackageSensor(s.package) \in heard') => OwnTemperature'
        /\ 1..logical' \subseteq online /\ (sysfs \/ ids) /\ heard' = Sensors =>
            \A i \in 1..logical' : CoreTemp(i)' = {Homes[i]}]_vars
=============================================================================
