-------------------------- MODULE CollectorsProofs --------------------------
(***************************************************************************)
(* Theorems about the collectors, for any machine: what Gpu, CpuCores,     *)
(* Rates and SlowReads state of what they show.                            *)
(***************************************************************************)
EXTENDS MCCollectors, SumTheorems

-----------------------------------------------------------------------------
(* The GPUs *)

\* The countdown since the last attempt that failed, and how many rounds card
\* and driver have been there at least: they meet before it has run out again.
Attempts ==
    /\ {card, driver, library, enabled} \subseteq BOOLEAN
    /\ countdown \in 0..Retry
    /\ up \in 0..(Retry + 1)
    /\ up > 0 => card /\ driver /\ (library \/ countdown + up <= Retry)
    /\ ago \in {G!NoTime} \cup 0..Retry
    /\ ago # G!NoTime => ~library /\ countdown + ago = Retry

\* The estimate starts from the last usable reading; since then the card was
\* asleep as long as the counter says, if it has not begun again.
Readings ==
    /\ gpuNow \in Nat /\ rc6 \in Nat /\ awake \in Nat /\ reloaded \in BOOLEAN
    /\ measured \in {G!NoTime} \cup 0..gpuNow
    /\ measured = G!NoTime <=> baseline = G!NoBaseline
    /\ measured # G!NoTime =>
        /\ baseline \in [count : Nat, at : Nat]
        /\ baseline.at = measured
        /\ ~reloaded => /\ rc6 >= baseline.count
                        /\ gpuNow - measured = rc6 - baseline.count + awake
        /\ reloaded => rc6 + awake <= gpuNow - measured

GpuInv == Attempts /\ Readings

\* The GPU collector starts with no try and no reading.
LEMMA InitGpu == G!Init => GpuInv
<1> SUFFICES ASSUME G!Init PROVE GpuInv
    OBVIOUS
<1>1. Attempts
    BY GpuAssumption DEF G!GpuBounds, G!Init, Attempts, G!NoTime
<1>2. Readings
    BY DEF G!Init, Readings, G!NoTime, G!NoBaseline
<1> QED BY <1>1, <1>2 DEF GpuInv

\* Each step keeps the count of the polls since the library was tried.
LEMMA StepAttempts ==
    ASSUME Attempts, [G!Next]_G!vars
    PROVE  Attempts'
<1> USE GpuAssumption DEF G!GpuBounds, Attempts, G!NoTime
<1>1. CASE G!Tick \/ G!IntelReloads \/ UNCHANGED G!vars
    BY <1>1 DEF G!Tick, G!IntelReloads, G!Change, G!vars, G!nvidia
<1>2. CASE G!NvidiaChanges
    <2>1. card' \in BOOLEAN /\ driver' \in BOOLEAN
        BY <1>2 DEF G!NvidiaChanges
    <2> QED BY <1>2, <2>1 DEF G!NvidiaChanges, G!Change
<1>3. CASE G!Poll
    <2>1. UNCHANGED <<card, driver, enabled>> /\ library' \in BOOLEAN
        BY <1>3 DEF G!Poll, G!PollNvidia, G!Answers, G!Tries
    <2>2. countdown' = G!Countdown /\ library' = G!Answers
        BY <1>3 DEF G!Poll, G!PollNvidia
    <2>3. countdown' \in 0..Retry
        BY <2>2 DEF G!Countdown
    <2>4. up' \in 0..(Retry + 1) /\ (up' > 0 => card /\ driver /\ (library' \/ countdown' + up' <= Retry))
        BY <1>3, <2>2 DEF G!Poll, G!PollNvidia, G!Countdown, G!Answers, G!Tries
    <2>5. ago' \in {G!NoTime} \cup 0..Retry /\ (ago' # G!NoTime => ~library' /\ countdown' + ago' = Retry)
        BY <1>3, <2>2 DEF G!Poll, G!PollNvidia, G!Countdown, G!Answers, G!Tries
    <2> QED BY <2>1, <2>3, <2>4, <2>5
<1> QED BY <1>1, <1>2, <1>3 DEF G!Next

\* And what is kept of the readings.
LEMMA StepReadings ==
    ASSUME Readings, [G!Next]_G!vars
    PROVE  Readings'
<1> USE GpuAssumption DEF G!GpuBounds, Readings, G!NoTime, G!NoBaseline
<1>1. CASE G!Tick
    BY <1>1 DEF G!Tick
<1>2. CASE G!NvidiaChanges \/ UNCHANGED G!vars
    BY <1>2 DEF G!NvidiaChanges, G!Change, G!vars, G!intel
<1>3. CASE G!IntelReloads
    BY <1>3 DEF G!IntelReloads, G!Change
<1>4. CASE G!Poll
    <2>1. CASE baseline # G!NoBaseline /\ gpuNow - baseline.at < Short
        BY <1>4, <2>1 DEF G!Poll, G!PollIntel, G!Baseline, G!Usable
    <2>2. CASE ~(baseline # G!NoBaseline /\ gpuNow - baseline.at < Short)
        <3>1. G!Usable /\ G!Baseline = [count |-> rc6, at |-> gpuNow] /\ gpuNow' = gpuNow
            BY <1>4, <2>2 DEF G!Poll, G!Baseline, G!Usable
        <3>2. CASE UNCHANGED <<rc6, baseline, measured, awake, reloaded>>
            BY <3>1, <3>2
        <3>3. CASE /\ baseline' = [count |-> rc6, at |-> gpuNow] /\ measured' = gpuNow
                   /\ awake' = 0 /\ reloaded' = FALSE /\ rc6' = rc6
            <4>1. baseline' \in [count : Nat, at : Nat] /\ baseline'.at = gpuNow
                  /\ baseline'.count = rc6 /\ baseline' # [count |-> -1, at |-> -1]
                BY <3>3
            <4>2. measured' \in 0..gpuNow'
                BY <3>1, <3>3
            <4>3. /\ measured' = gpuNow /\ awake' = 0 /\ reloaded' = FALSE /\ rc6' = rc6
                  /\ gpuNow' = gpuNow /\ gpuNow \in Nat /\ rc6 \in Nat
                BY <3>1, <3>3
            <4>4. measured' # G!NoTime /\ baseline' # G!NoBaseline
                BY <4>1, <4>3
            <4>5. gpuNow' - measured' = 0 /\ rc6' - baseline'.count = 0
                BY <4>1, <4>3
            <4>6. /\ gpuNow' \in Nat /\ rc6' \in Nat /\ awake' \in Nat /\ reloaded' \in BOOLEAN
                  /\ measured' \in {G!NoTime} \cup 0..gpuNow'
                BY <4>2, <4>3
            <4>7. rc6' >= baseline'.count /\ gpuNow' - measured' = rc6' - baseline'.count + awake'
                BY <4>1, <4>3, <4>5
            <4>8. baseline'.at = measured' /\ ~reloaded'
                BY <4>1, <4>3
            <4> QED BY ONLY <4>1, <4>4, <4>6, <4>7, <4>8 DEF Readings
        <3> QED BY <1>4, <3>1, <3>2, <3>3 DEF G!Poll, G!PollIntel
    <2> QED BY <2>1, <2>2
<1> QED BY <1>1, <1>2, <1>3, <1>4 DEF G!Next

\* So both hold in every state.
LEMMA GpuInvariant == G!Spec => []GpuInv
<1>1. GpuInv /\ [G!Next]_G!vars => GpuInv'
    BY StepAttempts, StepReadings DEF GpuInv
<1> QED BY <1>1, InitGpu, PTL DEF G!Spec

\* A round finds the card in time, and tries no sooner than it may.
LEMMA RoundRetries ==
    ASSUME Attempts, G!Poll
    PROVE  /\ up' > Retry => "nv0" \in gpus' /\ ~error'
           /\ G!Tries => ago = G!NoTime \/ ago >= Retry
<1> USE GpuAssumption DEF G!GpuBounds, Attempts, G!NoTime, G!Poll, G!PollNvidia, G!Tries
<1>1. up' > Retry => card /\ driver /\ (library \/ countdown = 0)
    OBVIOUS
<1>2. up' > Retry => G!Answers /\ card
    BY <1>1 DEF G!Answers
<1>3. G!Answers /\ card => "nv0" \in gpus' /\ ~error'
    OBVIOUS
<1>4. G!Tries => ago = G!NoTime \/ ago >= Retry
    OBVIOUS
<1> QED BY <1>2, <1>3, <1>4

\* An estimate covers the time since the last usable reading, no more, no less.
LEMMA RoundEstimates ==
    ASSUME Readings, G!Poll, measured # G!NoTime, measured' # measured
    PROVE  /\ ~reloaded => util' = [busy |-> awake, of |-> gpuNow - measured]
           /\ util' # G!NoUtil =>
                /\ util'.of = gpuNow - measured
                /\ util'.busy \in awake..util'.of
<1> USE GpuAssumption DEF G!GpuBounds, Readings, G!NoTime, G!NoBaseline, G!Poll
<1>1. gpuNow - measured >= Short /\ util' = G!Estimate /\ baseline.at = measured
    BY DEF G!PollIntel, G!Usable
<1> DEFINE asleep == rc6 - baseline.count
           elapsed == gpuNow - measured
<1>2. /\ baseline # G!NoBaseline /\ baseline.count \in Nat
      /\ asleep \in Int /\ elapsed \in Nat
      /\ ~reloaded => elapsed = asleep + awake /\ asleep >= 0
      /\ reloaded => rc6 + awake <= elapsed
    BY <1>1
<1>3. util' = IF rc6 < baseline.count THEN G!NoUtil
              ELSE [busy |-> IF elapsed - asleep < 0 THEN 0 ELSE elapsed - asleep,
                    of |-> elapsed]
    BY <1>1, <1>2 DEF G!Estimate
<1> QED BY <1>2, <1>3 DEF G!NoUtil

-----------------------------------------------------------------------------
(* The readings of the CPUs *)

\* Counting is the same to both modules.
LEMMA SameCount == ASSUME NEW M PROVE C!Cardinality(M) = Cardinality(M)
BY DEF C!Cardinality, Cardinality

\* The largest of some numbers there are.
LEMMA LargestNumber ==
    ASSUME NEW n \in Nat, NEW M, M \subseteq 0..n, M # {}
    PROVE  Max(M) \in M /\ \A x \in M : x <= Max(M)
<1> DEFINE Less == {ss \in Nat \X Nat : ss[1] < ss[2]}
           Far == {n - x : x \in M}
<1>1. Far \subseteq Nat /\ Far # {}
    <2>1. \A x \in M : n - x \in Nat
        OBVIOUS
    <2>2. \A f \in Far : \E x \in M : f = n - x
        OBVIOUS
    <2>3. PICK x \in M : n - x \in Far
        OBVIOUS
    <2> QED BY <2>1, <2>2, <2>3
<1>2. PICK f \in Far : \A g \in Far : <<g, f>> \notin Less
    <2>1. IsWellFoundedOn(Less, Nat)
        BY NatLessThanWellFounded DEF OpToRel
    <2> HIDE DEF Less, Far
    <2> QED BY <1>1, <2>1, WFMin, Zenon
<1>3. PICK x \in M : f = n - x
    OBVIOUS
<1>4. \A y \in M : x >= y
    <2> TAKE y \in M
    <2>1. ~(n - y < f)
        BY <1>1, <1>2
    <2> QED BY <1>3, <2>1
<1>5. \E z \in M : \A y \in M : z >= y
    BY <1>4
<1> QED BY <1>5 DEF Max

\* Max, as the instance of CpuCores has it, likewise.
LEMMA MaxIsLargest ==
    ASSUME NEW n \in Nat, NEW M, M \subseteq 1..n, M # {}
    PROVE  C!Max(M) \in M /\ \A x \in M : x <= C!Max(M)
<1>1. C!Max(M) = Max(M)
    BY DEF C!Max, Max
<1>2. M \subseteq 0..n
    OBVIOUS
<1> HIDE DEF Max
<1> QED BY <1>1, <1>2, LargestNumber

\* A CPU's physical core and package, if known, are its own.
CoresInv ==
    /\ present \subseteq C!Numbers /\ 1 \in present
    /\ logical \in 0..Len(Homes)
    /\ DOMAIN topology = 1..Len(topology) /\ Len(topology) \in 0..Len(Homes)
    /\ \A i \in DOMAIN topology : topology[i] = Homes[i]

\* The CPUs of the machine are numbered without a gap.
LEMMA Numbered == C!Numbers = 1..Len(Homes) /\ Len(Homes) \in Nat \ {0}
BY CoresAssumption DEF C!CoresBounds, C!Numbers

\* As many places as the largest number of a CPU that has been there.
LEMMA EnoughPlaces ==
    ASSUME CoresInv
    PROVE  /\ C!Logical \in 1..Len(Homes) /\ present \subseteq 1..C!Logical
           /\ C!Max(present) <= C!Logical
<1>1. C!Max(present) \in present /\ \A x \in present : x <= C!Max(present)
    BY Numbered, MaxIsLargest DEF CoresInv
<1>2. present \subseteq 1..Len(Homes)
    BY Numbered DEF CoresInv
<1>3. C!Max(present) \in 1..Len(Homes) /\ \A x \in present : x \in 1..C!Max(present)
    <2>1. PICK m : m = C!Max(present)
        OBVIOUS
    <2>2. m \in present /\ \A x \in present : x <= m
        BY <1>1, <2>1, Zenon
    <2>3. m \in 1..Len(Homes) /\ \A x \in present : x \in 1..m
        BY <1>2, <2>2, Numbered
    <2> QED BY <2>1, <2>3, Zenon
<1>4. logical \in 0..Len(Homes)
    BY DEF CoresInv
<1>5. C!Logical = IF C!Max(present) > logical THEN C!Max(present) ELSE logical
    BY DEF C!Logical
<1> HIDE DEF C!Logical
<1>6. C!Logical \in 1..Len(Homes) /\ C!Max(present) <= C!Logical
    BY <1>3, <1>4, <1>5, Numbered
<1> QED BY <1>3, <1>6

\* The CPUs online, one after another, are all when they are as many as places.
LEMMA AllListed ==
    ASSUME NEW n \in Nat, present \subseteq 1..n, Len(C!Listed) = n
    PROVE  present = 1..n
<1>1. IsFiniteSet(1..n) /\ Cardinality(1..n) = n
    BY FS_Interval
<1>2. IsFiniteSet(present) /\ Cardinality(present) \in Nat
    BY <1>1, FS_Subset, FS_CardinalityType
<1>3. Len(C!Listed) = Cardinality(present)
    <2>1. C!Cardinality(present) \in Nat /\ C!Cardinality(present) = Cardinality(present)
        BY <1>2, SameCount
    <2> QED BY <2>1 DEF C!Listed
<1> QED BY <1>1, <1>3, FS_Subset

\* Then each of them stands in the place of its number.
LEMMA ListedInOrder ==
    ASSUME NEW n \in Nat, present = 1..n
    PROVE  DOMAIN C!Listed = 1..n /\ Len(C!Listed) = n /\ \A i \in 1..n : C!Listed[i] = i
<1>1. Cardinality(present) = n
    BY FS_Interval
<1>2. \A c \in 1..n : C!Cardinality({d \in present : d <= c}) = c
    <2> TAKE c \in 1..n
    <2>1. {d \in present : d <= c} = 1..c
        OBVIOUS
    <2>2. Cardinality(1..c) = c
        BY FS_Interval
    <2> QED BY <2>1, <2>2, SameCount, Zenon
<1>3. \A i \in 1..n :
        (CHOOSE c \in present : C!Cardinality({d \in present : d <= c}) = i) = i
    BY <1>2
<1>4. C!Cardinality(present) = n
    BY <1>1, SameCount
<1>5. C!Listed = [i \in 1..n |-> i]
    BY <1>3, <1>4, Zenon DEF C!Listed
<1> QED BY <1>5

\* What is read of the physical cores is right, or nothing.
LEMMA TopologyRead ==
    ASSUME CoresInv, NEW n \in 1..Len(Homes), present \subseteq 1..n
    PROVE  LET t == C!ReadTopology(n)
           IN  /\ DOMAIN t = 1..Len(t) /\ Len(t) \in {0, n}
               /\ \A i \in DOMAIN t : t[i] = Homes[i]
               /\ 1..n \subseteq present /\ (sysfs \/ ids) => Len(t) = n
<1>1. Homes \in Seq([package : Nat, core : Nat])
    BY CoresAssumption DEF C!CoresBounds
<1>2. CASE sysfs /\ 1..n \subseteq present
    <2>1. C!ReadTopology(n) = SubSeq(Homes, 1, n)
        BY <1>2 DEF C!ReadTopology
    <2>2. /\ DOMAIN SubSeq(Homes, 1, n) = 1..n /\ Len(SubSeq(Homes, 1, n)) = n
          /\ \A i \in 1..n : SubSeq(Homes, 1, n)[i] = Homes[i]
        BY <1>1
    <2> QED BY <2>1, <2>2
<1>3. CASE ~(sysfs /\ 1..n \subseteq present) /\ ids /\ Len(C!Listed) = n
    <2>1. C!ReadTopology(n) = [i \in 1..n |-> Homes[C!Listed[i]]]
        BY <1>3 DEF C!ReadTopology, C!FromCpuinfo
    <2>2. \A i \in 1..n : C!Listed[i] = i
        BY <1>3, AllListed, ListedInOrder
    <2>3. C!ReadTopology(n) = [i \in 1..n |-> Homes[i]]
        BY <2>1, <2>2
    <2> QED BY <2>3
<1>4. CASE ~(sysfs /\ 1..n \subseteq present) /\ ~(ids /\ Len(C!Listed) = n)
    <2>1. C!ReadTopology(n) = << >>
        BY <1>4 DEF C!ReadTopology, C!FromCpuinfo
    <2>2. ~(1..n \subseteq present /\ (sysfs \/ ids))
        <3> SUFFICES ASSUME 1..n \subseteq present, sysfs \/ ids PROVE FALSE
            OBVIOUS
        <3>1. present = 1..n /\ ids
            BY <1>4
        <3> QED BY <1>4, <3>1, ListedInOrder
    <2> QED BY <2>1, <2>2
<1> QED BY <1>2, <1>3, <1>4

\* What a round knows of the physical cores.
LEMMA TopologyKept ==
    ASSUME CoresInv
    PROVE  LET t == C!Topology
               n == C!Logical
           IN  /\ DOMAIN t = 1..Len(t) /\ Len(t) \in 0..Len(Homes)
               /\ \A i \in DOMAIN t : t[i] = Homes[i]
               /\ 1..n \subseteq present /\ (sysfs \/ ids) => Len(t) = n
<1>1. C!Logical \in 1..Len(Homes) /\ present \subseteq 1..C!Logical
    BY EnoughPlaces
<1>2. CASE Len(topology) = C!Logical
    BY <1>1, <1>2 DEF C!Topology, CoresInv
<1>3. CASE Len(topology) # C!Logical
    <2>1. C!Topology = C!ReadTopology(C!Logical)
        BY <1>3 DEF C!Topology
    <2> QED BY <1>1, <2>1, TopologyRead, Numbered
<1> QED BY <1>2, <1>3

\* Each step keeps what is known of the cores.
LEMMA StepCores == CoresInv /\ [C!Next]_C!vars => CoresInv'
<1> SUFFICES ASSUME CoresInv, [C!Next]_C!vars PROVE CoresInv'
    OBVIOUS
<1>1. CASE C!Sample
    <2>1. logical' \in 0..Len(Homes) /\ topology' = C!Topology /\ present' = present
        BY <1>1, EnoughPlaces, Numbered DEF C!Sample
    <2> QED BY <2>1, TopologyKept DEF CoresInv
<1>2. ASSUME NEW c \in C!Numbers, C!Hotplug(c) PROVE CoresInv'
    BY <1>2 DEF C!Hotplug, CoresInv
<1>3. CASE UNCHANGED C!vars
    BY <1>3 DEF C!vars, CoresInv
<1> QED BY <1>1, <1>2, <1>3 DEF C!Next

\* So it holds in every state.
LEMMA CoresInvariant == C!Spec => []CoresInv
<1>1. C!Init => CoresInv
    <2> SUFFICES ASSUME C!Init PROVE CoresInv
        OBVIOUS
    <2>1. PICK others \in SUBSET C!Numbers : present = {1} \cup others
        BY DEF C!Init
    <2>2. present \subseteq C!Numbers /\ 1 \in present
        BY <2>1, Numbered
    <2>3. logical = 0 /\ topology = << >>
        BY DEF C!Init
    <2> QED BY <2>2, <2>3, Numbered DEF CoresInv
<1> QED BY <1>1, StepCores, PTL DEF C!Spec

\* Of a core whose package could be told, the temperature is its own.
LEMMA ToldCores ==
    ASSUME NEW read, read \subseteq C!Sensors, NEW f \in C!CoreTemps(read),
           \A s \in read : C!PackageSensor(s.package) \in read
    PROVE  DOMAIN f = read \cap C!PhysicalCores /\ \A h \in DOMAIN f : f[h] = h
<1> DEFINE cores == read \cap C!PhysicalCores
           told == {C!IdTold(s, read) : s \in cores}
<1>1. \A h \in C!PhysicalCores : h \in [package : Nat, core : Nat]
    <2> DEFINE kinds == [package : Nat, core : Nat]
    <2>1. Homes \in Seq(kinds)
        BY CoresAssumption DEF C!CoresBounds
    <2> HIDE DEF kinds
    <2>2. \A i \in DOMAIN Homes : Homes[i] \in kinds
        BY <2>1
    <2> QED BY <2>2, Zenon DEF C!PhysicalCores, C!Range, kinds
<1>2. \A h \in cores : C!IdTold(h, read) = h
    <2> TAKE h \in cores
    <2>1. C!PackageTold(h, read) = h.package
        BY DEF C!PackageTold
    <2>2. h \in [package : Nat, core : Nat]
        BY <1>1
    <2> QED BY <2>1, <2>2 DEF C!IdTold
<1>3. told = cores
    BY <1>2
<1>4. f \in [told -> cores] /\ \A id \in told : C!IdTold(f[id], read) = id
    BY DEF C!CoreTemps
<1> QED
    <2> HIDE DEF told, cores
    <2>1. \A h \in told : f[h] = h
        BY <1>2, <1>3, <1>4
    <2> QED BY <1>3, <1>4, <2>1 DEF cores

\* The sensors that can be read are sensors of the machine.
LEMMA SensorsThere == CoresInv => C!Readable \subseteq C!Sensors
<1> SUFFICES ASSUME CoresInv, NEW s \in C!Readable PROVE s \in C!Sensors
    OBVIOUS
<1> DEFINE there == {Homes[c] : c \in {c \in present : Homes[c].package \in chips}}
<1>1. there \subseteq C!PhysicalCores
    BY Numbered DEF CoresInv, C!PhysicalCores, C!Range
<1>2. s \in there \/ \E h \in there : s = C!PackageSensor(h.package)
    BY DEF C!Readable
<1> HIDE DEF there
<1> QED BY <1>1, <1>2, Zenon DEF C!Sensors, C!Packages

\* What a round shows of the temperatures.
LEMMA RoundTemperatures ==
    ASSUME CoresInv, C!Sample
    PROVE  /\ (\A s \in heard' : C!PackageSensor(s.package) \in heard') => C!OwnTemperature'
           /\ 1..logical' \subseteq present /\ (sysfs \/ ids) /\ heard' = C!Sensors =>
                \A i \in 1..logical' : C!CoreTemp(i)' = {Homes[i]}
<1>1. PICK read \in SUBSET C!Readable :
        logical' = C!Logical /\ topology' = C!Topology
            /\ coreTemps' \in C!CoreTemps(read) /\ heard' = read
    BY DEF C!Sample
<1>2. read \subseteq C!Sensors
    BY <1>1, SensorsThere
<1>3. /\ DOMAIN topology' = 1..Len(topology') /\ Len(topology') \in 0..Len(Homes)
      /\ \A i \in DOMAIN topology' : topology'[i] = Homes[i]
      /\ 1..logical' \subseteq present /\ (sysfs \/ ids) => Len(topology') = logical'
    BY <1>1, TopologyKept
<1> DEFINE Paired == \A s \in heard' : C!PackageSensor(s.package) \in heard'
<1>4. ASSUME Paired
      PROVE  /\ DOMAIN coreTemps' = heard' \cap C!PhysicalCores
             /\ \A h \in DOMAIN coreTemps' : coreTemps'[h] = h
    BY <1>1, <1>2, <1>4, ToldCores
<1>5. ASSUME Paired PROVE C!OwnTemperature'
    <2> SUFFICES ASSUME NEW i \in 1..logical' PROVE C!CoreTemp(i)' \subseteq {Homes[i]}
        BY DEF C!OwnTemperature
    <2> QED BY <1>3, <1>4, <1>5 DEF C!CoreTemp
<1>6. ASSUME 1..logical' \subseteq present, sysfs \/ ids, heard' = C!Sensors,
             NEW i \in 1..logical'
      PROVE  C!CoreTemp(i)' = {Homes[i]}
    <2>1. Paired
        <3> SUFFICES ASSUME NEW s \in C!Sensors
                     PROVE  C!PackageSensor(s.package) \in C!Sensors
            BY <1>6
        <3>1. CASE s \in C!PhysicalCores
            BY <3>1 DEF C!Sensors, C!Packages
        <3>2. CASE \E p \in C!Packages : s = C!PackageSensor(p)
            <4>1. PICK p \in C!Packages : s = C!PackageSensor(p)
                BY <3>2
            <4>2. s.package = p
                BY <4>1 DEF C!PackageSensor
            <4> QED BY <4>1, <4>2 DEF C!Sensors
        <3> QED BY <3>1, <3>2 DEF C!Sensors
    <2>2. i \in DOMAIN topology' /\ topology'[i] = Homes[i]
        BY <1>3, <1>6
    <2>3. Homes[i] \in C!PhysicalCores
        BY <1>3, <2>2, Numbered DEF C!PhysicalCores, C!Range
    <2>4. Homes[i] \in DOMAIN coreTemps' /\ coreTemps'[Homes[i]] = Homes[i]
        BY <1>4, <1>6, <2>1, <2>3 DEF C!Sensors
    <2> QED BY <2>2, <2>4 DEF C!CoreTemp
<1> HIDE DEF C!OwnTemperature, C!CoreTemp
<1> QED BY <1>5, <1>6

-----------------------------------------------------------------------------
(* The rates of the CPUs *)

\* A part of a whole, in percent.
LEMMA ShareInRange ==
    ASSUME NEW whole \in Nat \ {0}, NEW part \in 0..whole
    PROVE  Share(part, whole) \in 0..100
<1>1. 100 * part >= 0 /\ 100 * part <= whole * 100
    OBVIOUS
<1>2. (100 * part) \div whole >= 0 /\ (100 * part) \div whole <= 100
    BY <1>1
<1> QED BY <1>2 DEF Share

\* It does not matter which times are added first.
LEMMA PlusIsPlus ==
    ASSUME NEW a \in [Fields -> Int], NEW b \in [Fields -> Int], NEW c \in [Fields -> Int]
    PROVE  Plus(Plus(a, b), c) = Plus(a, Plus(b, c))
BY DEF Plus

\* A CPU that stands still has the times it had.
LEMMA PlusStill == ASSUME NEW a \in [Fields -> Int] PROVE a = Plus(a, Still)
BY DEF Plus, Still

\* The times of the CPUs, and how they changed since they were last read.
Clocked ==
    /\ online \subseteq Numbers /\ online # {}
    /\ times \in [Numbers -> [Fields -> Int]]
    /\ drift \in [Lines -> [Fields -> Int]] /\ \A l \in Lines : drift[l]["busy"] >= 0

\* What is kept of each CPU is what its times were when it was last read.
KeptOfEach ==
    /\ DOMAIN usage \subseteq Numbers /\ DOMAIN prevTimes = DOMAIN usage
    /\ \E n \in 0..Cores : DOMAIN usage = 0..(n - 1)
    /\ \A c \in DOMAIN usage :
        /\ usage[c] \in 0..100 \cup {Pending}
        /\ prevTimes[c] \in [Fields -> Int]
        /\ prevTimes[c] # NoTimes => times[c] = Plus(prevTimes[c], drift[c])

\* And of all together.
KeptOfAll ==
    /\ allPrev \in [Fields -> Int]
    /\ allPrev # NoTimes => AllTimes = Plus(allPrev, drift[All])

CpuInv == Clocked /\ KeptOfEach /\ KeptOfAll

\* The CPUs are finitely many numbers.
LEMMA NumbersThere ==
    /\ Cores \in Nat \ {0} /\ IsFiniteSet(Numbers) /\ Numbers # {}
    /\ Lines = 0..(Cores - 1) \cup {All} /\ All \notin Numbers
<1>1. Cores \in Nat \ {0}
    BY RatesAssumption
<1>2. IsFiniteSet(Numbers)
    BY <1>1, FS_Interval DEF Numbers
<1>3. 0 \in Numbers /\ All \notin Numbers
    BY <1>1 DEF Numbers, All
<1> QED BY <1>1, <1>2, <1>3 DEF Numbers, Lines

\* The sum over the CPUs, one field at a time.
LEMMA AllTimesAt ==
    /\ times \in [Numbers -> [Fields -> Int]] => AllTimes \in [Fields -> Int]
    /\ times' \in [Numbers -> [Fields -> Int]] => AllTimes' \in [Fields -> Int]
<1>1. ASSUME NEW t \in [Numbers -> [Fields -> Int]], NEW f \in Fields
      PROVE  SumFunction([c \in Numbers |-> t[c][f]]) \in Int
    <2>1. \A c \in Numbers : [b \in Numbers |-> t[b][f]][c] \in Int
        OBVIOUS
    <2> QED BY <2>1, NumbersThere, SumIsInt DEF SumFunction
<1> QED BY <1>1 DEF AllTimes

\* The CPUs run: what each gains, all together gain.
LEMMA StepRun == CpuInv /\ CpusRun => CpuInv'
<1> SUFFICES ASSUME CpuInv, CpusRun PROVE CpuInv'
    OBVIOUS
<1>1. PICK growth \in [online -> Growths] :
        LET Grown(c) == IF c \in online THEN growth[c] ELSE Still
            all == [f \in Fields |-> SumFunction([c \in Numbers |-> Grown(c)[f]])]
        IN  /\ times' = [c \in Numbers |-> Plus(times[c], Grown(c))]
            /\ drift' = [c \in Lines |->
                    Plus(drift[c], IF c = All THEN all ELSE Grown(c))]
    BY DEF CpusRun
<1> DEFINE Grown(c) == IF c \in online THEN growth[c] ELSE Still
           all == [f \in Fields |-> SumFunction([c \in Numbers |-> Grown(c)[f]])]
<1>2. /\ times' = [c \in Numbers |-> Plus(times[c], Grown(c))]
      /\ drift' = [c \in Lines |-> Plus(drift[c], IF c = All THEN all ELSE Grown(c))]
      /\ UNCHANGED <<online, usage, prevTimes, allPrev>>
    BY <1>1 DEF CpusRun
<1>3. \A c \in Numbers : Grown(c) \in [Fields -> Int] /\ Grown(c)["busy"] >= 0
    <2>1. Still \in [Fields -> Int] /\ Still["busy"] >= 0
        BY DEF Still, Fields
    <2>2. \A g \in Growths : g \in [Fields -> Int] /\ g["busy"] >= 0
        BY RatesAssumption
    <2> QED BY <2>1, <2>2
<1> HIDE DEF Grown
<1>4. all \in [Fields -> Int] /\ all["busy"] >= 0
    <2>1. ASSUME NEW f \in Fields PROVE SumFunction([c \in Numbers |-> Grown(c)[f]]) \in Int
        <3>1. \A c \in Numbers : [b \in Numbers |-> Grown(b)[f]][c] \in Int
            BY <1>3
        <3> QED BY <3>1, NumbersThere, SumIsInt DEF SumFunction
    <2>2. SumFunction([c \in Numbers |-> Grown(c)["busy"]]) >= 0
        <3>1. \A c \in Numbers : [b \in Numbers |-> Grown(b)["busy"]][c] \in Nat
            BY <1>3 DEF Fields
        <3> QED BY <3>1, NumbersThere, SumIsNat DEF SumFunction
    <2> QED BY <2>1, <2>2 DEF Fields
<1>5. Clocked'
    <2>1. \A g \in [Fields -> Int], h \in [Fields -> Int] :
            /\ Plus(g, h) \in [Fields -> Int]
            /\ Plus(g, h)["busy"] = g["busy"] + h["busy"]
        BY DEF Plus, Fields
    <2>2. times' \in [Numbers -> [Fields -> Int]]
        BY <1>2, <1>3, <2>1 DEF CpuInv, Clocked
    <2> DEFINE gain(l) == IF l = All THEN all ELSE Grown(l)
    <2>3. \A l \in Lines : gain(l) \in [Fields -> Int] /\ gain(l)["busy"] >= 0
        BY <1>3, <1>4 DEF Lines
    <2>4. drift' = [l \in Lines |-> Plus(drift[l], gain(l))]
        BY <1>2
    <2> HIDE DEF gain
    <2>5. ASSUME NEW l \in Lines
          PROVE  drift'[l] \in [Fields -> Int] /\ drift'[l]["busy"] >= 0
        <3>1. drift[l] \in [Fields -> Int] /\ drift[l]["busy"] >= 0
            BY DEF CpuInv, Clocked
        <3>2. drift[l]["busy"] \in Int /\ gain(l)["busy"] \in Int
            BY <2>3, <3>1 DEF Fields
        <3> QED BY <2>1, <2>3, <2>4, <3>1, <3>2
    <2>6. drift' \in [Lines -> [Fields -> Int]]
        BY <2>4, <2>5
    <2> QED BY <1>2, <2>2, <2>5, <2>6 DEF CpuInv, Clocked
<1>6. KeptOfEach'
    <2>1. ASSUME NEW c \in DOMAIN usage, prevTimes[c] # NoTimes
          PROVE  times'[c] = Plus(prevTimes[c], drift'[c])
        <3>1. c \in Numbers /\ c \in Lines /\ c # All
            BY NumbersThere DEF CpuInv, KeptOfEach, Lines
        <3>2. times'[c] = Plus(times[c], Grown(c)) /\ drift'[c] = Plus(drift[c], Grown(c))
            BY <1>2, <3>1
        <3>3. times[c] = Plus(prevTimes[c], drift[c])
            BY <2>1 DEF CpuInv, KeptOfEach
        <3>4. prevTimes[c] \in [Fields -> Int] /\ drift[c] \in [Fields -> Int]
            BY <3>1 DEF CpuInv, KeptOfEach, Clocked
        <3>5. Grown(c) \in [Fields -> Int]
            BY <1>3, <3>1
        <3>6. Plus(Plus(prevTimes[c], drift[c]), Grown(c))
                = Plus(prevTimes[c], Plus(drift[c], Grown(c)))
            BY <3>4, <3>5, PlusIsPlus
        <3> QED BY <3>2, <3>3, <3>6
    <2> QED BY <1>2, <2>1 DEF CpuInv, KeptOfEach
<1>7. KeptOfAll'
    <2>1. AllTimes' = Plus(AllTimes, all)
        <3>1. ASSUME NEW f \in Fields
              PROVE  SumFunction([c \in Numbers |-> times'[c][f]])
                       = SumFunction([c \in Numbers |-> times[c][f]])
                           + SumFunction([c \in Numbers |-> Grown(c)[f]])
            <4> DEFINE before == [c \in Numbers |-> times[c][f]]
                       after == [c \in Numbers |-> times'[c][f]]
                       gain == [c \in Numbers |-> Grown(c)[f]]
            <4>1. \A c \in Numbers :
                    before[c] \in Int /\ gain[c] \in Int /\ after[c] = before[c] + gain[c]
                BY <1>2, <1>3 DEF CpuInv, Clocked, Plus
            <4>2. DOMAIN before = Numbers /\ DOMAIN after = Numbers /\ DOMAIN gain = Numbers
                OBVIOUS
            <4> HIDE DEF before, after, gain
            <4>3. SumFunction(after) = SumFunction(before) + SumFunction(gain)
                BY <4>1, <4>2, NumbersThere, SumPlus DEF SumFunction
            <4> QED BY <4>3 DEF before, after, gain
        <3> QED BY <3>1 DEF AllTimes, Plus
    <2>2. drift'[All] = Plus(drift[All], all)
        BY <1>2 DEF Lines
    <2>3. allPrev \in [Fields -> Int] /\ drift[All] \in [Fields -> Int]
        BY DEF CpuInv, KeptOfAll, Clocked, Lines
    <2>4. allPrev # NoTimes => AllTimes' = Plus(allPrev, drift'[All])
        <3> SUFFICES ASSUME allPrev # NoTimes PROVE AllTimes' = Plus(allPrev, drift'[All])
            OBVIOUS
        <3>1. AllTimes = Plus(allPrev, drift[All])
            BY DEF CpuInv, KeptOfAll
        <3>2. Plus(Plus(allPrev, drift[All]), all) = Plus(allPrev, Plus(drift[All], all))
            BY <1>4, <2>3, PlusIsPlus
        <3> QED BY <2>1, <2>2, <3>1, <3>2
    <2> QED BY <1>2, <2>3, <2>4 DEF KeptOfAll
<1> QED BY <1>5, <1>6, <1>7 DEF CpuInv


\* A CPU in line stands at the place of its number.
LEMMA AtPlace ==
    ASSUME NEW p \in Numbers
    PROVE  LET At == {c \in online : PlaceOf(c) = p}
           IN  /\ p \notin online => At = {}
               /\ p \in online => At # {} /\ (CHOOSE c \in At : TRUE) = p
<1> DEFINE At == {c \in online : PlaceOf(c) = p}
<1>1. \A c \in At : c = p
    BY DEF PlaceOf
<1>2. p \in online => p \in At
    BY DEF PlaceOf
<1>3. At # {} => (CHOOSE c \in At : TRUE) \in At
    OBVIOUS
<1> HIDE DEF At
<1>4. /\ p \notin online => At = {}
      /\ p \in online => At # {} /\ (CHOOSE c \in At : TRUE) = p
    <2>1. p \notin online => At = {}
        BY <1>1 DEF At
    <2>2. p \in online => At # {} /\ (CHOOSE c \in At : TRUE) = p
        BY <1>1, <1>2, <1>3
    <2> QED BY <2>1, <2>2
<1> QED BY <1>4 DEF At

\* There are places for all that were ever there.
LEMMA RoomForAll ==
    ASSUME CpuInv
    PROVE  /\ Places \in 1..Cores /\ DOMAIN usage \subseteq 0..(Places - 1)
           /\ online \subseteq 0..(Places - 1) /\ 0..(Places - 1) \subseteq Numbers
<1>1. PICK n \in 0..Cores : DOMAIN usage = 0..(n - 1)
    BY DEF CpuInv, KeptOfEach
<1>2. Cardinality(DOMAIN usage) = n
    <2>1. Cardinality(0..(n - 1)) = IF 0 > n - 1 THEN 0 ELSE (n - 1) - 0 + 1
        BY FS_Interval
    <2>2. Cardinality(0..(n - 1)) = n
        BY <2>1
    <2> QED BY <1>1, <2>2, Zenon
<1>3. PICK m : m = Max(online)
    OBVIOUS
<1>4. m \in online /\ (\A c \in online : c <= m) /\ m \in Numbers
    <2>1. online \subseteq 0..Cores /\ online # {} /\ Cores \in Nat
        BY NumbersThere DEF CpuInv, Clocked, Numbers
    <2>2. Max(online) \in online /\ \A c \in online : c <= Max(online)
        BY <2>1, LargestNumber
    <2> QED BY <1>3, <2>2, Zenon DEF CpuInv, Clocked
<1>5. Places = IF n > m + 1 THEN n ELSE m + 1
    BY <1>2, <1>3 DEF Places, Most
<1>6. Places \in 1..Cores /\ n <= Places /\ m < Places
    BY <1>4, <1>5, NumbersThere DEF Numbers
<1>7. online \subseteq 0..(Places - 1)
    <2> SUFFICES ASSUME NEW c \in online PROVE c \in 0..(Places - 1)
        OBVIOUS
    <2>1. c \in 0..(Cores - 1) /\ c <= m
        BY <1>4 DEF CpuInv, Clocked, Numbers
    <2>2. m \in 0..(Cores - 1)
        BY <1>4 DEF Numbers
    <2> HIDE DEF Places
    <2> QED BY <1>6, <2>1, <2>2
<1> HIDE DEF Places
<1>8. DOMAIN usage \subseteq 0..(Places - 1)
    BY <1>1, <1>6
<1>9. 0..(Places - 1) \subseteq Numbers
    BY <1>6, NumbersThere DEF Numbers
<1> QED BY <1>6, <1>7, <1>8, <1>9

\* What a round finds of one place.
LEMMA OnePlace ==
    ASSUME CpuInv, SampleCpus, NEW p \in 0..(Places - 1)
    PROVE  /\ p \in online =>
                /\ usage'[p] = KeepOr(UsageOf(p), Percent(TimesOf(p), times[p]))
                /\ prevTimes'[p] = times[p] /\ drift'[p] = Still
           /\ p \notin online =>
                /\ usage'[p] = UsageOf(p) /\ prevTimes'[p] = TimesOf(p)
                /\ drift'[p] = drift[p]
<1>1. p \in Numbers /\ p \in Lines /\ p # All
    BY RoomForAll, NumbersThere DEF Lines
<1> DEFINE At(q) == {c \in online : PlaceOf(c) = q}
<1>2. /\ usage' = [q \in 0..(Places - 1) |->
                IF At(q) = {} THEN UsageOf(q)
                ELSE KeepOr(UsageOf(q), Percent(TimesOf(q), times[CHOOSE c \in At(q) : TRUE]))]
      /\ prevTimes' = [q \in 0..(Places - 1) |->
                IF At(q) = {} THEN TimesOf(q) ELSE times[CHOOSE c \in At(q) : TRUE]]
      /\ drift' = [c \in Lines |-> IF c \in online \cup {All} THEN Still ELSE drift[c]]
    BY DEF SampleCpus
<1>3. /\ p \notin online => At(p) = {}
      /\ p \in online => At(p) # {} /\ (CHOOSE c \in At(p) : TRUE) = p
    BY <1>1, AtPlace, Zenon
<1> HIDE DEF At
<1>4. /\ usage'[p] = IF At(p) = {} THEN UsageOf(p)
                ELSE KeepOr(UsageOf(p), Percent(TimesOf(p), times[CHOOSE c \in At(p) : TRUE]))
      /\ prevTimes'[p] = IF At(p) = {} THEN TimesOf(p) ELSE times[CHOOSE c \in At(p) : TRUE]
    BY <1>2, Zenon
<1>5. drift'[p] = IF p \in online \cup {All} THEN Still ELSE drift[p]
    BY <1>1, <1>2, Zenon
<1> QED BY <1>1, <1>3, <1>4, <1>5, Zenon

\* A percentage is of what the times changed by.
LEMMA PercentOfDrift ==
    ASSUME NEW old \in [Fields -> Int], NEW d \in [Fields -> Int], d["busy"] >= 0
    PROVE  /\ Percent(old, Plus(old, d)) \in 0..100 \cup {Pending}
           /\ old # NoTimes /\ SumIdle(d) >= 0 /\ Sum(d) > 0 =>
                /\ Percent(old, Plus(old, d)) = Share(d["busy"], Sum(d))
                /\ Percent(old, Plus(old, d)) # Pending
<1> DEFINE new == Plus(old, d)
           whole == Sum(new) - Sum(old)
           idle == Most(SumIdle(new) - SumIdle(old), 0)
<1>1. /\ new["busy"] = old["busy"] + d["busy"] /\ new["idle"] = old["idle"] + d["idle"]
      /\ new["wait"] = old["wait"] + d["wait"]
    BY DEF Plus, Fields
<1>2. \A f \in Fields : old[f] \in Int /\ d[f] \in Int
    OBVIOUS
<1> HIDE DEF new
<1>3. whole = Sum(d) /\ idle = Most(SumIdle(d), 0) /\ Sum(d) \in Int /\ SumIdle(d) \in Int
        /\ Sum(d) = d["busy"] + SumIdle(d)
    BY <1>1, <1>2 DEF Sum, SumIdle, Fields
<1>4. Percent(old, new) = IF old = NoTimes \/ whole <= 0 THEN Pending
                          ELSE Share(Most(whole - idle, 0), whole)
    BY DEF Percent
<1> HIDE DEF whole, idle
<1>5. CASE old = NoTimes \/ whole <= 0
    <2>1. Percent(old, new) = Pending
        BY <1>4, <1>5, Zenon
    <2>2. ~(old # NoTimes /\ Sum(d) > 0)
        BY <1>3, <1>5
    <2> QED BY <2>1, <2>2 DEF new
<1>6. CASE old # NoTimes /\ Sum(d) > 0
    <2>1. Percent(old, new) = Share(Most(Sum(d) - Most(SumIdle(d), 0), 0), Sum(d))
        BY <1>3, <1>4, <1>6
    <2>2. Most(Sum(d) - Most(SumIdle(d), 0), 0) \in 0..Sum(d) /\ Sum(d) \in Nat \ {0}
        BY <1>2, <1>3, <1>6 DEF Most, Fields
    <2>3. Percent(old, new) \in 0..100
        BY <2>1, <2>2, ShareInRange
    <2>4. SumIdle(d) >= 0 => Most(Sum(d) - Most(SumIdle(d), 0), 0) = d["busy"]
        BY <1>2, <1>3 DEF Most, Fields
    <2> QED BY <2>1, <2>3, <2>4 DEF new, Pending
<1> QED BY <1>3, <1>5, <1>6


\* What is kept of one place after a round.
LEMMA KeptPlace ==
    ASSUME CpuInv, SampleCpus, NEW p \in 0..(Places - 1)
    PROVE  /\ usage'[p] \in 0..100 \cup {Pending} /\ prevTimes'[p] \in [Fields -> Int]
           /\ prevTimes'[p] # NoTimes => times[p] = Plus(prevTimes'[p], drift'[p])
<1>1. p \in Numbers /\ p \in Lines
    BY RoomForAll, NumbersThere DEF Lines
<1>2. /\ UsageOf(p) \in 0..100 \cup {Pending} /\ TimesOf(p) \in [Fields -> Int]
      /\ TimesOf(p) # NoTimes => times[p] = Plus(TimesOf(p), drift[p])
    BY DEF UsageOf, TimesOf, CpuInv, KeptOfEach, NoTimes
<1>3. times[p] \in [Fields -> Int] /\ drift[p] \in [Fields -> Int] /\ drift[p]["busy"] >= 0
    BY <1>1 DEF CpuInv, Clocked
<1>4. CASE p \notin online
    BY <1>2, <1>4, OnePlace
<1>5. CASE p \in online
    <2>1. Percent(TimesOf(p), times[p]) \in 0..100 \cup {Pending}
        <3>1. CASE TimesOf(p) = NoTimes
            BY <3>1 DEF Percent
        <3>2. CASE TimesOf(p) # NoTimes
            BY <1>2, <1>3, <3>2, PercentOfDrift
        <3> QED BY <3>1, <3>2
    <2>2. usage'[p] \in 0..100 \cup {Pending}
        BY <1>2, <1>5, <2>1, OnePlace DEF KeepOr
    <2>3. prevTimes'[p] = times[p] /\ drift'[p] = Still
        BY <1>5, OnePlace
    <2>4. times[p] = Plus(times[p], Still)
        BY <1>3, PlusStill
    <2> QED BY <1>3, <2>2, <2>3, <2>4
<1> QED BY <1>4, <1>5

\* A round keeps what is known of the CPUs.
LEMMA StepSample == CpuInv /\ SampleCpus => CpuInv'
<1> SUFFICES ASSUME CpuInv, SampleCpus PROVE CpuInv'
    OBVIOUS
<1>1. /\ UNCHANGED <<online, times>> /\ allPrev' = AllTimes
      /\ drift' = [c \in Lines |-> IF c \in online \cup {All} THEN Still ELSE drift[c]]
      /\ DOMAIN usage' = 0..(Places - 1) /\ DOMAIN prevTimes' = 0..(Places - 1)
    BY DEF SampleCpus
<1>2. Still \in [Fields -> Int] /\ Still["busy"] >= 0
    BY DEF Still, Fields
<1>3. Clocked'
    BY <1>1, <1>2 DEF CpuInv, Clocked
<1>4. KeptOfEach'
    <2>1. Places \in 1..Cores /\ 0..(Places - 1) \subseteq Numbers /\ Cores \in Nat
        BY RoomForAll, NumbersThere
    <2>2. \E n \in 0..Cores : DOMAIN usage' = 0..(n - 1)
        <3> HIDE DEF Places
        <3> QED BY <1>1, <2>1
    <2>3. \A c \in DOMAIN usage' :
            /\ usage'[c] \in 0..100 \cup {Pending}
            /\ prevTimes'[c] \in [Fields -> Int]
            /\ prevTimes'[c] # NoTimes => times'[c] = Plus(prevTimes'[c], drift'[c])
        BY <1>1, KeptPlace
    <2> QED BY <1>1, <2>1, <2>2, <2>3 DEF KeptOfEach
<1>5. KeptOfAll'
    <2>1. AllTimes' = AllTimes
        BY <1>1 DEF AllTimes
    <2>2. AllTimes \in [Fields -> Int]
        BY AllTimesAt DEF CpuInv, Clocked
    <2>3. drift'[All] = Still
        BY <1>1 DEF Lines
    <2>4. AllTimes = Plus(AllTimes, Still)
        BY <2>2, PlusStill
    <2> QED BY <1>1, <2>1, <2>2, <2>3, <2>4 DEF KeptOfAll
<1> QED BY <1>3, <1>4, <1>5 DEF CpuInv

\* Neither devices nor a failure touch what is kept of the times.
LEMMA StepCpus == CpuInv /\ [Next]_vars => CpuInv'
<1> SUFFICES ASSUME CpuInv, [Next]_vars PROVE CpuInv'
    OBVIOUS
<1>1. CASE CpusRun
    BY <1>1, StepRun
<1>2. CASE SampleCpus
    BY <1>2, StepSample
<1>3. ASSUME NEW c \in Numbers, Hotplug(c) PROVE CpuInv'
    <2>1. /\ online' \subseteq Numbers /\ online' # {}
          /\ UNCHANGED <<times, drift, usage, prevTimes, allPrev>>
        BY <1>3 DEF Hotplug, CpuInv, Clocked
    <2>2. AllTimes' = AllTimes
        BY <2>1 DEF AllTimes
    <2> QED BY <2>1, <2>2 DEF CpuInv, Clocked, KeptOfEach, KeptOfAll
<1>4. CASE UNCHANGED <<online, times, drift, usage, prevTimes, allPrev>>
    <2>1. AllTimes' = AllTimes
        BY <1>4 DEF AllTimes
    <2> QED BY <1>4, <2>1 DEF CpuInv, Clocked, KeptOfEach, KeptOfAll
<1>5. CASE DevicesMove
    BY <1>4, <1>5 DEF DevicesMove, cpus
<1>6. ASSUME NEW n \in Names, Unplug(n) \/ Plug(n) PROVE CpuInv'
    BY <1>4, <1>6 DEF Unplug, Plug, cpus
<1>7. CASE SampleDevices
    BY <1>4, <1>7 DEF SampleDevices, cpus
<1>8. CASE SampleFails
    BY <1>4, <1>8 DEF SampleFails
<1>9. CASE UNCHANGED vars
    BY <1>4, <1>9 DEF vars, cpus
<1> QED BY <1>1, <1>2, <1>3, <1>5, <1>6, <1>7, <1>8, <1>9 DEF Next

\* So it holds in every state.
LEMMA CpuInvariant == Spec => []CpuInv
<1>1. Init => CpuInv
    <2> SUFFICES ASSUME Init PROVE CpuInv
        OBVIOUS
    <2>1. /\ online = Numbers /\ times = [c \in Numbers |-> [f \in Fields |-> MaxTime]]
          /\ drift = [c \in Lines |-> Still] /\ usage = << >> /\ prevTimes = << >>
          /\ allPrev = NoTimes
        BY DEF Init
    <2>2. Clocked
        <3>1. MaxTime \in Int
            BY RatesAssumption
        <3>2. Still \in [Fields -> Int] /\ Still["busy"] >= 0
            BY DEF Still, Fields
        <3>3. [f \in Fields |-> MaxTime] \in [Fields -> Int]
            BY <3>1
        <3> QED BY <2>1, <3>2, <3>3, NumbersThere DEF Clocked
    <2>3. KeptOfEach
        <3>1. DOMAIN usage = {} /\ DOMAIN prevTimes = {}
            BY <2>1
        <3>2. 0 \in 0..Cores /\ 0..(0 - 1) = {}
            BY NumbersThere
        <3> QED BY <3>1, <3>2 DEF KeptOfEach
    <2>4. KeptOfAll
        BY <2>1 DEF KeptOfAll, NoTimes
    <2> QED BY <2>2, <2>3, <2>4 DEF CpuInv
<1> QED BY <1>1, StepCpus, PTL DEF Spec

\* What a round shows of the CPUs.
LEMMA RoundPercents ==
    ASSUME CpuInv, SampleCpus
    PROVE  /\ \A c \in online :
                c \in DOMAIN usage /\ prevTimes[c] # NoTimes
                  /\ SumIdle(drift[c]) >= 0 /\ Sum(drift[c]) > 0 =>
                    usage'[c] = Share(drift[c]["busy"], Sum(drift[c]))
           /\ \A c \in DOMAIN usage \ online : usage'[c] = usage[c]
           /\ \A c \in DOMAIN usage' : usage'[c] \in 0..100 \cup {Pending}
           /\ allPrev # NoTimes /\ Sum(drift[All]) > 0 =>
                /\ SumIdle(drift[All]) >= 0 =>
                    allUsage' = Share(drift[All]["busy"], Sum(drift[All]))
                /\ drift[All]["idle"] >= 0 => allWait' \in 0..100
<1>1. ASSUME NEW c \in online, c \in DOMAIN usage, prevTimes[c] # NoTimes,
             SumIdle(drift[c]) >= 0, Sum(drift[c]) > 0
      PROVE  usage'[c] = Share(drift[c]["busy"], Sum(drift[c]))
    <2>1. c \in 0..(Places - 1) /\ c \in Lines
        BY RoomForAll DEF Lines
    <2>2. /\ TimesOf(c) = prevTimes[c] /\ prevTimes[c] \in [Fields -> Int]
          /\ times[c] = Plus(prevTimes[c], drift[c])
        BY <1>1 DEF TimesOf, CpuInv, KeptOfEach
    <2>3. drift[c] \in [Fields -> Int] /\ drift[c]["busy"] >= 0
        BY <2>1 DEF CpuInv, Clocked
    <2>4. /\ Percent(TimesOf(c), times[c]) = Share(drift[c]["busy"], Sum(drift[c]))
          /\ Percent(TimesOf(c), times[c]) # Pending
        BY <1>1, <2>2, <2>3, PercentOfDrift
    <2>5. usage'[c] = KeepOr(UsageOf(c), Percent(TimesOf(c), times[c]))
        BY <2>1, OnePlace
    <2> QED BY <2>4, <2>5 DEF KeepOr
<1>2. ASSUME NEW c \in DOMAIN usage \ online PROVE usage'[c] = usage[c]
    <2>1. c \in 0..(Places - 1)
        BY RoomForAll
    <2> QED BY <2>1, OnePlace DEF UsageOf
<1>3. \A c \in DOMAIN usage' : usage'[c] \in 0..100 \cup {Pending}
    <2>1. DOMAIN usage' = 0..(Places - 1)
        BY DEF SampleCpus
    <2> QED BY <2>1, KeptPlace
<1>4. ASSUME allPrev # NoTimes, Sum(drift[All]) > 0
      PROVE  /\ SumIdle(drift[All]) >= 0 =>
                    allUsage' = Share(drift[All]["busy"], Sum(drift[All]))
             /\ drift[All]["idle"] >= 0 => allWait' \in 0..100
    <2> DEFINE d == drift[All]
    <2>1. /\ d \in [Fields -> Int] /\ d["busy"] >= 0 /\ allPrev \in [Fields -> Int]
          /\ AllTimes = Plus(allPrev, d)
        BY <1>4 DEF CpuInv, Clocked, KeptOfAll, Lines
    <2>2. /\ allUsage' = KeepOr(allUsage, Percent(allPrev, AllTimes))
          /\ allWait' = IF allPrev = NoTimes \/ Sum(AllTimes) - Sum(allPrev) <= 0 THEN allWait
                ELSE Share(Most(AllTimes["wait"] - allPrev["wait"], 0),
                           Sum(AllTimes) - Sum(allPrev))
        BY DEF SampleCpus
    <2> HIDE DEF d
    <2>3. SumIdle(d) >= 0 => allUsage' = Share(d["busy"], Sum(d))
        BY <1>4, <2>1, <2>2, PercentOfDrift DEF KeepOr, d
    <2>4. /\ Sum(AllTimes) - Sum(allPrev) = Sum(d) /\ Sum(d) \in Nat \ {0}
          /\ AllTimes["wait"] - allPrev["wait"] = d["wait"]
          /\ Sum(d) = d["busy"] + d["idle"] + d["wait"] /\ {d["idle"], d["wait"]} \subseteq Int
        <3>1. \A f \in Fields : AllTimes[f] = allPrev[f] + d[f] /\ allPrev[f] \in Int /\ d[f] \in Int
            BY <2>1 DEF Plus
        <3>2. Sum(d) > 0
            BY <1>4 DEF d
        <3> QED BY <3>1, <3>2 DEF Fields, Sum
    <2>5. allWait' = Share(Most(d["wait"], 0), Sum(d))
        BY <1>4, <2>2, <2>4
    <2>6. d["idle"] >= 0 => Most(d["wait"], 0) \in 0..Sum(d)
        BY <2>1, <2>4 DEF Most, Fields
    <2>7. d["idle"] >= 0 => allWait' \in 0..100
        BY <2>4, <2>5, <2>6, ShareInRange
    <2> QED BY <2>3, <2>7 DEF d
<1> QED BY <1>1, <1>2, <1>3, <1>4

-----------------------------------------------------------------------------
(* Whichever collector is watched, the GPUs are polled as Gpu says. *)

\* What the four collectors do together, the GPUs' does alone.
LEMMA CollectorsPollGpus == CollectorsSpec => G!Spec
<1>1. CollectorsInit => G!Init
    BY DEF CollectorsInit
<1>2. [CollectorsNext]_allVars => [G!Next]_G!vars
    BY DEF CollectorsNext, allVars, gpuVars, G!vars, G!nvidia, G!intel
<1> QED BY <1>1, <1>2, PTL DEF CollectorsSpec, G!Spec

\* And the reading of the cores.
LEMMA CollectorsReadCores == CollectorsSpec => C!Spec
<1>1. CollectorsInit => C!Init
    BY DEF CollectorsInit
<1>2. [CollectorsNext]_allVars => [C!Next]_C!vars
    BY DEF CollectorsNext, allVars, coreVars, C!vars
<1> QED BY <1>1, <1>2, PTL DEF CollectorsSpec, C!Spec

\* Whatever cards and drivers come and go: a driver that has been repaired is
\* found after Retry rounds, and it is not tried more often.
THEOREM RetriesAreInTime == CollectorsSpec => RetriesInTime
<1> DEFINE InTime == G!Poll => /\ up' > Retry => "nv0" \in gpus' /\ ~error'
                               /\ G!Tries => ago = G!NoTime \/ ago >= Retry
<1>1. GpuInv /\ [G!Next]_G!vars => [InTime]_G!vars
    BY RoundRetries DEF GpuInv
<1>2. CollectorsSpec => []GpuInv /\ [][G!Next]_G!vars
    BY GpuInvariant, CollectorsPollGpus DEF G!Spec
<1>3. CollectorsSpec => [][InTime]_G!vars
    <2> HIDE DEF InTime
    <2> QED BY <1>1, <1>2, PTL
<1> QED BY <1>3 DEF RetriesInTime, G!RetriesInTime

\* However rounds and readings fall: an estimate is of all of the time since the
\* last one that was usable, and right unless the counter began again.
THEOREM EstimatesAreTrue == CollectorsSpec => EstimateIsTrue
<1> DEFINE IsTrue == G!Poll /\ measured # G!NoTime /\ measured' # measured =>
                /\ ~reloaded => util' = [busy |-> awake, of |-> gpuNow - measured]
                /\ util' # G!NoUtil =>
                     /\ util'.of = gpuNow - measured
                     /\ util'.busy \in awake..util'.of
<1>1. GpuInv /\ [G!Next]_G!vars => [IsTrue]_G!vars
    BY RoundEstimates DEF GpuInv
<1>2. CollectorsSpec => []GpuInv /\ [][G!Next]_G!vars
    BY GpuInvariant, CollectorsPollGpus DEF G!Spec
<1>3. CollectorsSpec => [][IsTrue]_G!vars
    <2> HIDE DEF IsTrue
    <2> QED BY <1>1, <1>2, PTL
<1> QED BY <1>3 DEF EstimateIsTrue, G!EstimateIsTrue
\* However CPUs go and come back: while every chip heard tells its package, a
\* CPU shows the temperature of its own physical core or none, and it does show
\* it once all CPUs are there and heard.
THEOREM TemperaturesAreOwn == CollectorsSpec => TemperatureComesBack
<1> DEFINE Own == C!Sample =>
        /\ (\A s \in heard' : C!PackageSensor(s.package) \in heard') => C!OwnTemperature'
        /\ 1..logical' \subseteq present /\ (sysfs \/ ids) /\ heard' = C!Sensors =>
            \A i \in 1..logical' : C!CoreTemp(i)' = {Homes[i]}
<1>1. CoresInv /\ [C!Next]_C!vars => [Own]_C!vars
    BY RoundTemperatures
<1>2. CollectorsSpec => []CoresInv /\ [][C!Next]_C!vars
    BY CoresInvariant, CollectorsReadCores DEF C!Spec
<1>3. CollectorsSpec => [][Own]_C!vars
    <2> HIDE DEF Own
    <2> QED BY <1>1, <1>2, PTL
<1> QED BY <1>3 DEF TemperatureComesBack, C!TemperatureComesBack

\* And the rates.
LEMMA CollectorsReadCpus == CollectorsSpec => Spec
<1>1. CollectorsInit => Init
    BY DEF CollectorsInit
<1>2. [CollectorsNext]_allVars => [Next]_vars
    BY DEF CollectorsNext, allVars
<1> QED BY <1>1, <1>2, PTL DEF CollectorsSpec, Spec

\* However CPUs go and come back and their times go back: what is shown of a CPU
\* is its own share of time not idle, and all together likewise.
THEOREM PercentsAreTrue == CollectorsSpec => CpusAreTrue
<1> DEFINE True == SampleCpus =>
        /\ \A c \in online :
            c \in DOMAIN usage /\ prevTimes[c] # NoTimes
              /\ SumIdle(drift[c]) >= 0 /\ Sum(drift[c]) > 0 =>
                usage'[c] = Share(drift[c]["busy"], Sum(drift[c]))
        /\ \A c \in DOMAIN usage \ online : usage'[c] = usage[c]
        /\ \A c \in DOMAIN usage' : usage'[c] \in 0..100 \cup {Pending}
        /\ allPrev # NoTimes /\ Sum(drift[All]) > 0 =>
            /\ SumIdle(drift[All]) >= 0 =>
                allUsage' = Share(drift[All]["busy"], Sum(drift[All]))
            /\ drift[All]["idle"] >= 0 => allWait' \in 0..100
<1>1. CpuInv /\ [Next]_vars => [True]_vars
    BY RoundPercents
<1>2. CollectorsSpec => []CpuInv /\ [][Next]_vars
    BY CpuInvariant, CollectorsReadCpus DEF Spec
<1>3. CollectorsSpec => [][True]_vars
    <2> HIDE DEF True
    <2> QED BY <1>1, <1>2, PTL
<1> QED BY <1>3 DEF CpusAreTrue

-----------------------------------------------------------------------------
(* The rates of disks and interfaces *)

\* Nothing moves more than the fastest can, and in all the time less than Wrap.
LEMMA SpeedIsMost ==
    /\ Speed \in Nat
    /\ \A m \in Moves, d \in Dirs : m[d] \in Nat /\ m[d] <= Speed
    /\ Speed * MaxTime < Wrap
<1> DEFINE Moved == {m[d] : m \in Moves, d \in Dirs}
<1>1. MaxTime \in Nat \ {0} /\ Wrap \in Nat /\ Moves # {}
    BY RatesAssumption
<1>2. \A m \in Moves, d \in Dirs : m[d] \in Nat /\ m[d] * MaxTime < Wrap
    BY RatesAssumption
<1>3. Moved \subseteq 0..Wrap /\ Moved # {}
    <2>1. ASSUME NEW a \in Nat, a * MaxTime < Wrap PROVE a <= Wrap
        <3>1. a <= a * MaxTime
            BY <1>1
        <3>2. a * MaxTime \in Nat
            BY <1>1
        <3> QED BY <1>1, <2>1, <3>1, <3>2
    <2>2. Moved \subseteq 0..Wrap
        BY <1>1, <1>2, <2>1
    <2>3. PICK m \in Moves : TRUE
        BY <1>1
    <2>4. "in" \in Dirs
        BY DEF Dirs
    <2>5. m["in"] \in Moved
        BY <2>4
    <2> HIDE DEF Moved
    <2> QED BY <2>2, <2>5, Zenon
<1>4. Speed = Max(Moved)
    BY DEF Speed
<1>5. Max(Moved) \in Moved /\ \A x \in Moved : x <= Max(Moved)
    <2> HIDE DEF Moved
    <2> QED BY <1>1, <1>3, LargestNumber
<1>6. Speed \in Nat /\ Speed * MaxTime < Wrap
    <2>1. PICK m \in Moves, d \in Dirs : m[d] = Max(Moved)
        <3>1. \A x \in Moved : \E m \in Moves, d \in Dirs : m[d] = x
            OBVIOUS
        <3> HIDE DEF Moved
        <3> QED BY <1>5, <3>1, Zenon
    <2> HIDE DEF Moved
    <2> QED BY <1>2, <1>4, <2>1
<1>7. \A m \in Moves, d \in Dirs : m[d] \in Moved
    OBVIOUS
<1> HIDE DEF Moved
<1> QED BY <1>2, <1>4, <1>5, <1>6, <1>7

\* Arithmetic of what is moved in some ticks.
LEMMA OneTickMore == \A s \in Nat, t \in Nat : s * (t + 1) = s * t + s
OBVIOUS

\* More times the same number is more.
LEMMA MoreTimes == \A s, a, b \in Nat : a <= b => s * a <= s * b
<1> TAKE s, a, b \in Nat
<1> HAVE a <= b
<1>1. s * b = s * a + s * (b - a) /\ s * (b - a) >= 0
    OBVIOUS
<1>2. s * a \in Nat /\ s * b \in Nat
    OBVIOUS
<1> QED BY <1>1, <1>2

\* Whole rounds do not change what is left.
LEMMA Again ==
    ASSUME NEW w \in Nat \ {0}, NEW q \in Int, NEW a \in Int
    PROVE  (q * w + a) % w = a % w
<1>1. PICK p \in Int : p = a \div w
    OBVIOUS
<1>2. PICK r \in Int : r = a % w
    OBVIOUS
<1>3. a = p * w + r /\ 0 <= r /\ r < w
    BY <1>1, <1>2
<1>4. PICK s \in Int : s = (q * w + a) \div w
    OBVIOUS
<1>5. PICK t \in Int : t = (q * w + a) % w
    OBVIOUS
<1>6. q * w + a = s * w + t /\ 0 <= t /\ t < w
    BY <1>4, <1>5
<1>7. (q + p - s) * w = t - r
    BY <1>3, <1>6
<1>8. ASSUME NEW k \in Int, NEW e \in Int, k * w = e, e < w, e > -w PROVE e = 0
    <2>1. k < 1
        <3>1. SUFFICES ASSUME k >= 1 PROVE FALSE
            OBVIOUS
        <3>2. k * w >= w
            BY <3>1
        <3> QED BY <1>8, <3>2
    <2>2. k > -1
        <3>1. SUFFICES ASSUME k <= -1 PROVE FALSE
            OBVIOUS
        <3>2. k * w <= -w
            BY <3>1
        <3> QED BY <1>8, <3>2
    <2>3. k = 0
        BY <2>1, <2>2
    <2> QED BY <1>8, <2>3
<1>9. t - r = 0
    BY <1>3, <1>6, <1>7, <1>8
<1> QED BY <1>2, <1>5, <1>9

\* What fits the time there was is less than Wrap.
LEMMA MovedInTime ==
    ASSUME NEW x \in Nat, NEW t \in 0..MaxTime, x <= Speed * t
    PROVE  x < Wrap
<1>1. MaxTime \in Nat /\ Wrap \in Nat /\ Speed \in Nat /\ Speed * MaxTime < Wrap
    BY RatesAssumption, SpeedIsMost
<1>3. Speed * t <= Speed * MaxTime /\ Speed * t \in Nat /\ Speed * MaxTime \in Nat
    BY <1>1, MoreTimes
<1> QED BY <1>1, <1>3

\* And as a rate no more than the fastest.
LEMMA RateInRange ==
    ASSUME NEW x \in Nat, NEW t \in 1..MaxTime, x <= Speed * t
    PROVE  PerTick(x, t) \in Nat /\ PerTick(x, t) <= Fine * Speed
<1>1. Fine \in Nat /\ Speed \in Nat /\ t \in Nat /\ t > 0
    BY RatesAssumption, SpeedIsMost
<1>2. Fine * x <= (Fine * Speed) * t
    <2>2. Speed * t \in Nat
        BY <1>1
    <2>3. Fine * x <= Fine * (Speed * t)
        BY <1>1, <2>2, MoreTimes
    <2>4. Fine * (Speed * t) = (Fine * Speed) * t
        BY <1>1
    <2> QED BY <2>3, <2>4
<1>3. ASSUME NEW a \in Nat, NEW b \in Nat, a <= b * t PROVE a \div t \in Nat /\ a \div t <= b
    <2>1. PICK q \in Int : q = a \div t
        BY <1>1
    <2>2. PICK r \in Int : r = a % t
        BY <1>1
    <2>3. a = q * t + r /\ 0 <= r /\ r < t
        BY <1>1, <2>1, <2>2
    <2>4. q >= 0
        <3>1. SUFFICES ASSUME q <= -1 PROVE FALSE
            OBVIOUS
        <3>2. q * t <= -t
            BY <1>1, <3>1
        <3> QED BY <1>1, <2>3, <3>2
    <2>5. q <= b
        <3>1. SUFFICES ASSUME q >= b + 1 PROVE FALSE
            OBVIOUS
        <3>2. q * t >= (b + 1) * t /\ (b + 1) * t = b * t + t
            BY <1>1, <3>1
        <3> QED BY <1>1, <1>3, <2>3, <3>2
    <2> QED BY <2>1, <2>4, <2>5
<1>4. Fine * x \in Nat /\ Fine * Speed \in Nat
    BY <1>1
<1> QED BY <1>2, <1>3, <1>4 DEF PerTick

-----------------------------------------------------------------------------
(* What is known of a device: its total and what it moved since it was read. *)

Counts == 0..(Wrap - 1)

Device(n) ==
    /\ world[n] = Gone \/ world[n] \in [Dirs -> Counts]
    /\ since[n] \in [read : BOOLEAN, at : Nat, same : BOOLEAN, moved : [Dirs -> Nat]]
    /\ since[n].at <= now
    /\ \A d \in Dirs : since[n].moved[d] <= Speed * (now - since[n].at)
    /\ world[n] # Gone /\ ~since[n].same =>
        \A d \in Dirs : world[n][d] <= since[n].moved[d]

Machine ==
    /\ now \in 0..MaxTime
    /\ DOMAIN world = Names /\ DOMAIN since = Names
    /\ \A n \in Names : Device(n)

Entry == [name : Names, rate : [Dirs -> Int], prev : [Dirs -> Int], at : Nat]

\* The list has one entry for each name that was ever read, found by the index;
\* it stands at what the device had when it was read last.
Found(n) ==
    /\ index[n] \in DOMAIN entries /\ entries[index[n]].name = n
    /\ entries[index[n]].at = since[n].at
    /\ entries[index[n]].prev \in [Dirs -> Counts]
    /\ since[n].same /\ world[n] # Gone =>
        \A d \in Dirs : world[n][d] = (entries[index[n]].prev[d] + since[n].moved[d]) % Wrap

Listing ==
    /\ entries \in Seq(Entry)
    /\ \A i, j \in DOMAIN entries : entries[i].name = entries[j].name => i = j
    /\ \A i \in DOMAIN entries : entries[i].name \in DOMAIN index
    /\ DOMAIN index = {n \in Names : since[n].read}
    /\ \A n \in DOMAIN index : Found(n)

DevInv == kind # "cpu" => Machine /\ Listing

\* A collector at its first round: no list, devices in place for long.
LEMMA InitDevices == Init => DevInv
<1> SUFFICES ASSUME Init, kind # "cpu" PROVE Machine /\ Listing
    BY DEF DevInv
<1>1. world = [n \in Names |-> Long] /\ now = 0 /\ entries = << >> /\ index = << >>
      /\ since = [n \in Names |-> [read |-> FALSE, at |-> 0, same |-> TRUE, moved |-> None]]
    BY DEF Init
<1>2. Wrap \in Nat \ {0} /\ MaxTime \in Nat
    BY RatesAssumption
<1>3. Long = Gone \/ Long \in [Dirs -> Counts]
    BY <1>2 DEF Long, Gone, Counts
<1>4. None \in [Dirs -> Nat] /\ \A d \in Dirs : None[d] = 0
    BY DEF None
<1>5. \A d \in Dirs : None[d] <= Speed * (0 - 0)
    BY <1>4, SpeedIsMost
<1>6. Machine
    <2>1. DOMAIN world = Names /\ DOMAIN since = Names /\ now \in 0..MaxTime
        BY <1>1, <1>2
    <2>2. ASSUME NEW n \in Names PROVE Device(n)
        <3>1. world[n] = Long
              /\ since[n] = [read |-> FALSE, at |-> 0, same |-> TRUE, moved |-> None]
            BY <1>1
        <3> QED BY <1>1, <1>3, <1>4, <1>5, <3>1 DEF Device
    <2> QED BY <2>1, <2>2 DEF Machine
<1>7. Listing
    <2>1. \A n \in Names : ~since[n].read
        BY <1>1
    <2>2. DOMAIN index = {} /\ DOMAIN entries = {} /\ entries \in Seq(Entry)
        BY <1>1
    <2> QED BY <2>1, <2>2 DEF Listing
<1> QED BY <1>6, <1>7

\* Nothing that only the machine does changes the list.
LEMMA StepMove == DevInv /\ DevicesMove => DevInv'
<1> SUFFICES ASSUME DevInv, DevicesMove PROVE Machine' /\ Listing'
    BY DEF DevInv
<1>1. Machine /\ Listing /\ kind # "cpu"
    BY DEF DevInv, DevicesMove
<1>2. now' = now + 1 /\ now < MaxTime /\ UNCHANGED <<entries, index>>
    BY DEF DevicesMove
<1>3. PICK move \in [There -> Moves] :
        /\ world' = [n \in Names |->
                IF n \notin There THEN Gone
                ELSE [d \in Dirs |-> (world[n][d] + move[n][d]) % Wrap]]
        /\ since' = [n \in Names |->
                IF n \notin There THEN since[n]
                ELSE [since[n] EXCEPT !.moved = [d \in Dirs |-> @[d] + move[n][d]]]]
    BY DEF DevicesMove
<1>4. now \in Nat /\ now' \in 0..MaxTime /\ Wrap \in Nat \ {0} /\ Speed \in Nat
    BY <1>1, <1>2, RatesAssumption, SpeedIsMost DEF Machine
<1>5. ASSUME NEW n \in Names, n \notin There
      PROVE  world'[n] = Gone /\ since'[n] = since[n] /\ Device(n)'
    <2>1. world'[n] = Gone /\ since'[n] = since[n]
        BY <1>3, <1>5
    <2>2. Device(n)
        BY <1>1 DEF Machine
    <2>3. since[n].at \in Nat /\ since[n].moved \in [Dirs -> Nat] /\ since[n].at <= now
        BY <2>2 DEF Device
    <2>4. ASSUME NEW d \in Dirs
          PROVE  since[n].moved[d] <= Speed * (now' - since[n].at)
        <3>1. since[n].moved[d] <= Speed * (now - since[n].at)
            BY <2>2 DEF Device
        <3>2. Speed * (now - since[n].at) <= Speed * (now' - since[n].at)
            BY <1>2, <1>4, <2>3, MoreTimes
        <3>3. Speed * (now - since[n].at) \in Nat /\ Speed * (now' - since[n].at) \in Nat
            BY <1>2, <1>4, <2>3
        <3> QED BY <2>3, <3>1, <3>2, <3>3
    <2> QED BY <1>2, <1>4, <2>1, <2>2, <2>3, <2>4 DEF Device
<1>6. ASSUME NEW n \in There
      PROVE  /\ world'[n] = [d \in Dirs |-> (world[n][d] + move[n][d]) % Wrap]
             /\ since'[n] = [since[n] EXCEPT !.moved =
                                [d \in Dirs |-> since[n].moved[d] + move[n][d]]]
             /\ world[n] \in [Dirs -> Counts] /\ world[n] # Gone
             /\ \A d \in Dirs : move[n][d] \in Nat /\ move[n][d] <= Speed
    <2>1. n \in Names /\ world[n] # Gone
        BY DEF There
    <2>2. Device(n) /\ move[n] \in Moves
        BY <1>1, <2>1 DEF Machine
    <2>3. \A d \in Dirs : move[n][d] \in Nat /\ move[n][d] <= Speed
        BY <2>2, SpeedIsMost
    <2> QED BY <1>3, <2>1, <2>2, <2>3 DEF Device
<1>7. ASSUME NEW n \in There PROVE Device(n)'
    <2>1. n \in Names /\ Device(n)
        BY <1>1 DEF There, Machine
    <2>2. /\ since[n].at \in Nat /\ since[n].moved \in [Dirs -> Nat] /\ since[n].at <= now
          /\ since[n].read \in BOOLEAN /\ since[n].same \in BOOLEAN
        BY <2>1 DEF Device
    <2>3. /\ since'[n].at = since[n].at /\ since'[n].read = since[n].read
          /\ since'[n].same = since[n].same
          /\ since'[n].moved = [d \in Dirs |-> since[n].moved[d] + move[n][d]]
          /\ since'[n] \in [read : BOOLEAN, at : Nat, same : BOOLEAN, moved : [Dirs -> Nat]]
        <3>1. PICK m : m = [d \in Dirs |-> since[n].moved[d] + move[n][d]]
            OBVIOUS
        <3>2. m \in [Dirs -> Nat]
            <4>1. \A d \in Dirs : since[n].moved[d] \in Nat /\ move[n][d] \in Nat
                BY <1>6, <2>2
            <4> QED BY <3>1, <4>1
        <3>3. since'[n] = [since[n] EXCEPT !.moved = m]
            BY <1>6, <3>1, Zenon
        <3>4. since[n] \in [read : BOOLEAN, at : Nat, same : BOOLEAN, moved : [Dirs -> Nat]]
            BY <2>1 DEF Device
        <3>5. since'[n].moved = m
            BY <3>3, <3>4
        <3> QED BY <3>1, <3>2, <3>3, <3>4, <3>5
    <2>4. world'[n] \in [Dirs -> Counts]
        <3>1. \A d \in Dirs : world[n][d] \in Nat /\ move[n][d] \in Nat
            <4>1. Counts \subseteq Nat
                BY <1>4 DEF Counts
            <4> QED BY <1>6, <4>1
        <3>2. \A a, b \in Nat : (a + b) % Wrap \in Counts
            <4>1. \A c \in Nat : c % Wrap \in 0..(Wrap - 1)
                BY <1>4
            <4> QED BY <4>1 DEF Counts
        <3>3. \A d \in Dirs : (world[n][d] + move[n][d]) % Wrap \in Counts
            BY <3>1, <3>2
        <3>4. world'[n] = [d \in Dirs |-> (world[n][d] + move[n][d]) % Wrap]
            BY <1>6
        <3> HIDE DEF Counts
        <3> QED BY <3>3, <3>4
    <2>5. ASSUME NEW d \in Dirs
          PROVE  since'[n].moved[d] <= Speed * (now' - since'[n].at)
        <3>1. since[n].moved[d] <= Speed * (now - since[n].at)
            BY <2>1 DEF Device
        <3>2. now - since[n].at \in Nat /\ now' - since[n].at = (now - since[n].at) + 1
            BY <1>2, <1>4, <2>2
        <3>3. Speed * (now' - since[n].at) = Speed * (now - since[n].at) + Speed
            BY <1>4, <3>2, OneTickMore
        <3>4. Speed * (now - since[n].at) \in Nat
            BY <1>4, <3>2
        <3>5. move[n][d] \in Nat /\ move[n][d] <= Speed /\ since[n].moved[d] \in Nat
            BY <1>6, <2>2
        <3>6. since'[n].moved[d] = since[n].moved[d] + move[n][d] /\ since'[n].at = since[n].at
            BY <2>3
        <3> HIDE DEF Speed
        <3> QED BY <1>4, <3>1, <3>3, <3>4, <3>5, <3>6
    <2>6. ASSUME ~since'[n].same, NEW d \in Dirs
          PROVE  world'[n][d] <= since'[n].moved[d]
        <3>1. world[n][d] <= since[n].moved[d]
            BY <1>6, <2>1, <2>3, <2>6 DEF Device
        <3>2. since'[n].moved[d] = since[n].moved[d] + move[n][d] /\ since'[n].moved[d] \in Nat
            BY <2>3
        <3>3. now' - since'[n].at \in 0..MaxTime
            <4>1. since'[n].at \in Nat /\ since'[n].at <= now /\ MaxTime \in Nat
                BY <2>2, <2>3, RatesAssumption
            <4> QED BY <1>2, <1>4, <4>1
        <3>4. since'[n].moved[d] < Wrap
            BY <2>5, <3>2, <3>3, MovedInTime
        <3>5. world[n][d] \in Nat /\ move[n][d] \in Nat /\ since[n].moved[d] \in Nat
            <4>1. Counts \subseteq Nat
                BY <1>4 DEF Counts
            <4> QED BY <1>6, <2>2, <4>1
        <3>6. world'[n][d] = (world[n][d] + move[n][d]) % Wrap
            BY <1>6
        <3>7. \A a \in Nat : a < Wrap => a % Wrap = a
            BY <1>4
        <3>8. world'[n][d] = world[n][d] + move[n][d]
            BY <1>4, <3>1, <3>2, <3>4, <3>5, <3>6, <3>7
        <3> QED BY <3>1, <3>2, <3>5, <3>8
    <2> QED BY <1>2, <1>4, <2>2, <2>3, <2>4, <2>5, <2>6 DEF Device
<1>8. Machine'
    <2>1. DOMAIN world' = Names /\ DOMAIN since' = Names
        BY <1>3
    <2>2. \A n \in Names : Device(n)'
        BY <1>5, <1>7
    <2> QED BY <1>4, <2>1, <2>2 DEF Machine
<1>9. \A n \in Names : since'[n].read = since[n].read /\ since'[n].same = since[n].same
                       /\ since'[n].at = since[n].at
    <2> TAKE n \in Names
    <2>1. CASE n \notin There
        BY <1>5, <2>1
    <2>2. CASE n \in There
        <3>1. since[n] \in [read : BOOLEAN, at : Nat, same : BOOLEAN, moved : [Dirs -> Nat]]
            BY <1>1 DEF Machine, Device
        <3>2. PICK m : since'[n] = [since[n] EXCEPT !.moved = m]
            BY <1>6, <2>2
        <3> QED BY <3>1, <3>2
    <2> QED BY <2>1, <2>2
<1>10. ASSUME NEW n \in DOMAIN index PROVE Found(n)'
    <2>1. Found(n) /\ n \in Names
        BY <1>1 DEF Listing
    <2>2. ASSUME since'[n].same, world'[n] # Gone, NEW d \in Dirs
          PROVE  world'[n][d] = (entries[index[n]].prev[d] + since'[n].moved[d]) % Wrap
        <3>1. n \in There
            BY <1>5, <2>1, <2>2
        <3>2. world[n][d] = (entries[index[n]].prev[d] + since[n].moved[d]) % Wrap
            BY <1>6, <1>9, <2>1, <2>2, <3>1 DEF Found
        <3>3. /\ world'[n][d] = (world[n][d] + move[n][d]) % Wrap /\ move[n][d] \in Nat
              /\ since'[n].moved[d] = since[n].moved[d] + move[n][d]
            <4>1. since[n] \in [read : BOOLEAN, at : Nat, same : BOOLEAN, moved : [Dirs -> Nat]]
                BY <1>1, <2>1 DEF Machine, Device
            <4>2. PICK m : m = [e \in Dirs |-> since[n].moved[e] + move[n][e]]
                OBVIOUS
            <4>3. since'[n] = [since[n] EXCEPT !.moved = m]
                BY <1>6, <3>1, <4>2, Zenon
            <4>4. since'[n].moved = m
                BY <4>1, <4>3, SMTT(30)
            <4> QED BY <1>6, <3>1, <4>2, <4>4
        <3>4. entries[index[n]].prev[d] \in Nat /\ since[n].moved[d] \in Nat
            BY <1>1, <1>4, <2>1 DEF Found, Machine, Device, Counts
        <3>5. \A a, b \in Nat : ((a % Wrap) + b) % Wrap = (a + b) % Wrap
            <4> TAKE a, b \in Nat
            <4>1. PICK q \in Int : q = a \div Wrap
                BY <1>4
            <4>2. PICK r \in Int : r = a % Wrap
                BY <1>4
            <4>3. a = q * Wrap + r
                BY <1>4, <4>1, <4>2
            <4>4. (q * Wrap + (r + b)) % Wrap = (r + b) % Wrap
                <5>1. r + b \in Int /\ Wrap \in Nat \ {0}
                    BY <1>4
                <5> QED BY <5>1, Again, Zenon
            <4>5. a + b = q * Wrap + (r + b)
                BY <4>3, <1>4
            <4> QED BY <4>2, <4>4, <4>5
        <3>6. entries[index[n]].prev[d] + since[n].moved[d] \in Nat
            BY <3>4
        <3>7. world'[n][d] = ((entries[index[n]].prev[d] + since[n].moved[d]) + move[n][d]) % Wrap
            BY <3>2, <3>3, <3>5, <3>6
        <3>8. (entries[index[n]].prev[d] + since[n].moved[d]) + move[n][d]
                = entries[index[n]].prev[d] + since'[n].moved[d]
            BY <3>3, <3>4
        <3> QED BY <3>7, <3>8
    <2> QED BY <1>2, <1>9, <2>1, <2>2 DEF Found
<1>11. Listing'
    <2>1. {n \in Names : since'[n].read} = {n \in Names : since[n].read}
        BY <1>9
    <2> QED BY <1>1, <1>2, <1>10, <2>1 DEF Listing
<1> QED BY <1>8, <1>11

\* A device that is gone, or a new one that starts from 0.
LEMMA StepPlug ==
    ASSUME DevInv, kind # "cpu", UNCHANGED <<kind, now, entries, index>>, NEW n \in Names,
           \/ /\ world' = [world EXCEPT ![n] = Gone]
              /\ since' = since
           \/ /\ world[n] = Gone /\ world' = [world EXCEPT ![n] = None]
              /\ since' = [since EXCEPT ![n].same = FALSE]
    PROVE  DevInv'
<1>1. Machine /\ Listing
    BY DEF DevInv
<1>2. Wrap \in Nat \ {0} /\ now' = now /\ DOMAIN world' = Names /\ DOMAIN since' = Names
    BY <1>1, RatesAssumption DEF Machine
<1>3. ASSUME NEW m \in Names, m # n PROVE world'[m] = world[m] /\ since'[m] = since[m]
    BY <1>1, <1>3 DEF Machine
<1>4. Device(n) /\ since[n] \in [read : BOOLEAN, at : Nat, same : BOOLEAN, moved : [Dirs -> Nat]]
    BY <1>1 DEF Machine, Device
<1>5. /\ since'[n] \in [read : BOOLEAN, at : Nat, same : BOOLEAN, moved : [Dirs -> Nat]]
      /\ since'[n].read = since[n].read /\ since'[n].at = since[n].at
      /\ since'[n].moved = since[n].moved
    BY <1>1, <1>4 DEF Machine
<1>6. \/ world'[n] = Gone
      \/ world'[n] = None /\ ~since'[n].same
    BY <1>1, <1>4 DEF Machine
<1>7. None \in [Dirs -> Counts] /\ \A d \in Dirs : None[d] = 0
    <2>1. 0 \in Counts
        BY <1>2 DEF Counts
    <2> HIDE DEF Counts
    <2> QED BY <2>1 DEF None
<1>8. Device(n)'
    <2>1. world'[n] # Gone => \A d \in Dirs : world'[n][d] <= since'[n].moved[d]
        <3> SUFFICES ASSUME world'[n] # Gone, NEW d \in Dirs
                     PROVE  world'[n][d] <= since'[n].moved[d]
            OBVIOUS
        <3>1. world'[n][d] = 0 /\ since'[n].moved[d] \in Nat
            BY <1>5, <1>6, <1>7
        <3> QED BY <3>1
    <2> QED BY <1>2, <1>4, <1>5, <1>6, <1>7, <2>1 DEF Device
<1>9. ASSUME NEW m \in Names PROVE Device(m)'
    <2>1. Device(m)
        BY <1>1 DEF Machine
    <2> QED BY <1>2, <1>3, <1>8, <2>1 DEF Device
<1>10. Machine'
    BY <1>1, <1>2, <1>9 DEF Machine
<1>11. ASSUME NEW m \in DOMAIN index PROVE Found(m)'
    <2>1. Found(m) /\ m \in Names
        BY <1>1 DEF Listing
    <2> QED BY <1>3, <1>5, <1>6, <2>1 DEF Found
<1>12. Listing'
    <2>1. {m \in Names : since'[m].read} = {m \in Names : since[m].read}
        BY <1>3, <1>5
    <2> QED BY <1>1, <1>11, <2>1 DEF Listing
<1> QED BY <1>10, <1>12 DEF DevInv

-----------------------------------------------------------------------------
(* A round: where the entries are before it, and where after it. *)

Seen == DOMAIN index \cup Read
Length == Len(entries) + Cardinality(New)

\* The names are finitely many, each in its place in the order.
LEMMA FewNames == IsFiniteSet(Names) /\ \A n \in Names : Nth(n) \in Nat /\ Order[Nth(n)] = n
<1>1. Order \in Seq(Names)
    BY RatesAssumption
<1>2. DOMAIN Order = 1..Len(Order) /\ Len(Order) \in Nat
    BY <1>1
<1>3. IsFiniteSet(DOMAIN Order)
    BY <1>2, FS_Interval
<1>4. \A n \in Names : \E i \in DOMAIN Order : Order[i] = n
    BY DEF Names, Range
<1>5. \A n \in Names : Nth(n) \in DOMAIN Order /\ Order[Nth(n)] = n
    BY <1>4 DEF Nth
<1>6. IsFiniteSet(Names)
    <2>1. Names = {Order[i] : i \in DOMAIN Order}
        BY DEF Names, Range
    <2>2. [i \in DOMAIN Order |-> Order[i]] \in Surjection(DOMAIN Order, Names)
        BY <2>1 DEF Surjection
    <2> QED BY <1>3, <2>2, FS_Surjection
<1> QED BY <1>2, <1>5, <1>6

\* Each name seen has a place of its own, each place is somebody's.
LEMMA PlacesGiven ==
    ASSUME Machine, Listing
    PROVE  /\ Length \in Nat /\ DOMAIN AllEntries = 1..Length
           /\ \A n \in Seen : Where[n] \in 1..Length /\ AllEntries[Where[n]].name = n
           /\ \A m, n \in Seen : Where[m] = Where[n] => m = n
           /\ \A i \in 1..Length : \E n \in Seen : Where[n] = i
           /\ \A n \in Seen : AllEntries[Where[n]] = IF n \in New THEN NewEntry(n)
                                                     ELSE entries[index[n]]
<1> DEFINE R == {mn \in New \X New : Nth(mn[1]) < Nth(mn[2])}
           N == Len(entries)
           M == Cardinality(New)
<1>1. New \subseteq Names /\ IsFiniteSet(New) /\ Read \subseteq Names
    BY FewNames, FS_Subset DEF New, Read, There
<1>2. N \in Nat /\ DOMAIN entries = 1..N
    BY DEF Listing
<1>3. \A m, n \in New : <<m, n>> \in R <=> Nth(m) < Nth(n)
    OBVIOUS
<1>4. \A m, n \in New : m # n => Nth(m) < Nth(n) \/ Nth(n) < Nth(m)
    BY <1>1, FewNames
<1>5. /\ M \in Nat
      /\ \A n \in New : RankIn(New, R, n) \in 1..M
      /\ \A m, n \in New : RankIn(New, R, m) = RankIn(New, R, n) => m = n
      /\ \A k \in 1..M : \E n \in New : RankIn(New, R, n) = k
    <2>1. \A i \in New : <<i, i>> \notin R
        BY <1>1, <1>3, FewNames
    <2>2. \A i, j \in New : i # j => <<i, j>> \in R \/ <<j, i>> \in R
        BY <1>3, <1>4
    <2>3. \A i, j, k \in New : <<i, j>> \in R /\ <<j, k>> \in R => <<i, k>> \in R
        BY <1>1, <1>3, FewNames
    <2> HIDE DEF R
    <2> QED BY <1>1, <2>1, <2>2, <2>3, RankOnto
<1>6. ASSUME NEW n \in New PROVE PlaceOfNew(n) = N + RankIn(New, R, n)
    <2>1. {m \in New : Nth(m) < Nth(n)} = {m \in New : <<m, n>> \in R}
        BY <1>3
    <2>2. RankIn(New, R, n) = Cardinality({m \in New : Nth(m) < Nth(n)}) + 1
        BY <2>1 DEF RankIn
    <2>3. Cardinality({m \in New : Nth(m) < Nth(n)}) \in Nat
        BY <1>1, FS_Subset, FS_CardinalityType
    <2> HIDE DEF R
    <2> QED BY <1>2, <2>2, <2>3 DEF PlaceOfNew
<1>7. Seen = DOMAIN index \cup New /\ DOMAIN index \cap New = {} /\ DOMAIN Where = Seen
    BY DEF Seen, New, Where
<1>8. \A n \in New : Where[n] = PlaceOfNew(n) /\ Where[n] \in (N + 1)..(N + M)
    <2>1. \A n \in New : Where[n] = PlaceOfNew(n)
        BY <1>7 DEF Where, Seen
    <2> HIDE DEF R, M
    <2> QED BY <1>2, <1>5, <1>6, <2>1
<1>9. \A n \in DOMAIN index : Where[n] = index[n] /\ Where[n] \in 1..N /\ entries[index[n]].name = n
    <2>1. \A n \in DOMAIN index : Where[n] = index[n]
        BY <1>7 DEF Where
    <2> QED BY <1>2, <2>1 DEF Listing, Found
<1>10. Length = N + M /\ Length \in Nat
    BY <1>2, <1>5 DEF Length
<1> HIDE DEF R, M
<1>11. \A n \in Seen : Where[n] \in 1..Length
    BY <1>2, <1>5, <1>7, <1>8, <1>9, <1>10
<1>12. \A m, n \in Seen : Where[m] = Where[n] => m = n
    <2> SUFFICES ASSUME NEW m \in Seen, NEW n \in Seen, Where[m] = Where[n] PROVE m = n
        OBVIOUS
    <2>1. CASE m \in New /\ n \in New
        BY <1>2, <1>5, <1>6, <1>8, <2>1
    <2>2. CASE m \in DOMAIN index /\ n \in DOMAIN index
        BY <1>9, <2>2
    <2>3. ~(m \in New /\ n \in DOMAIN index) /\ ~(n \in New /\ m \in DOMAIN index)
        BY <1>2, <1>5, <1>8, <1>9
    <2> QED BY <1>7, <2>1, <2>2, <2>3
<1>13. ASSUME NEW i \in 1..Length PROVE \E n \in Seen : Where[n] = i
    <2>1. CASE i <= N
        <3>1. entries[i].name \in DOMAIN index /\ i \in DOMAIN entries
            BY <1>2, <1>10, <2>1 DEF Listing
        <3>2. PICK n \in DOMAIN index : n = entries[i].name
            BY <3>1
        <3>3. index[n] \in DOMAIN entries /\ entries[index[n]].name = entries[i].name
            BY <3>2 DEF Listing, Found
        <3>4. index[n] = i
            BY <3>1, <3>3 DEF Listing
        <3> QED BY <1>7, <1>9, <3>4
    <2>2. CASE i > N
        <3>1. i - N \in 1..M
            BY <1>2, <1>5, <1>10, <2>2
        <3>2. PICK n \in New : RankIn(New, R, n) = i - N
            BY <1>5, <3>1
        <3>3. PlaceOfNew(n) = i
            BY <1>2, <1>6, <1>10, <3>2
        <3> QED BY <1>7, <1>8, <3>3
    <2> QED BY <1>2, <1>10, <2>1, <2>2
<1>14. DOMAIN AllEntries = 1..Length
    BY DEF AllEntries, Length
<1>15. \A n \in DOMAIN index : AllEntries[Where[n]] = entries[index[n]]
    BY <1>2, <1>5, <1>9, <1>10 DEF AllEntries, Length
<1>16. ASSUME NEW n \in New PROVE AllEntries[Where[n]] = NewEntry(n)
    <2>1. PICK w : w = Where[n]
        OBVIOUS
    <2>2. w \in 1..Length /\ ~(w <= N) /\ w = PlaceOfNew(n)
        BY <1>2, <1>5, <1>8, <1>10, <2>1
    <2>3. (CHOOSE m \in New : PlaceOfNew(m) = w) = n
        <3>1. \A m \in New : PlaceOfNew(m) = w => m = n
            BY <1>7, <1>8, <1>12, <2>1, <2>2
        <3> QED BY <2>2, <3>1
    <2>4. AllEntries[w] = NewEntry(CHOOSE m \in New : PlaceOfNew(m) = w)
        BY <2>2 DEF AllEntries, Length
    <2> QED BY <2>1, <2>3, <2>4
<1>17. \A n \in New : NewEntry(n).name = n
    BY DEF NewEntry
<1>18. \A n \in Seen : /\ AllEntries[Where[n]] = IF n \in New THEN NewEntry(n)
                                                ELSE entries[index[n]]
                       /\ AllEntries[Where[n]].name = n
    BY <1>7, <1>9, <1>15, <1>16, <1>17
<1> QED BY <1>10, <1>11, <1>12, <1>13, <1>14, <1>18

\* What the round makes of the entry of n.
Own(n) == AllEntries[Where[n]]
NewRate(n) ==
    [d \in Dirs |-> IF Measured(Own(n), n, d) = Pending THEN Own(n).rate[d]
                    ELSE Measured(Own(n), n, d)]
After(n) ==
    IF n \in Read THEN [Own(n) EXCEPT !.prev = world[n], !.at = now, !.rate = NewRate(n)]
    ELSE Own(n)

\* The entry a line finds is that of its own device, or a new one.
LEMMA OwnEntries ==
    ASSUME Machine, Listing, NEW n \in Seen
    PROVE  /\ Own(n) \in Entry /\ Own(n).name = n
           /\ Own(n).prev = Gone \/ Own(n).prev \in [Dirs -> Counts]
           /\ n \in New => Own(n).prev = Gone
           /\ \A d \in Dirs : n \in New => Own(n).rate[d] = Pending
           /\ n \notin New => n \in DOMAIN index /\ Own(n) = entries[index[n]]
<1>1. Own(n) = IF n \in New THEN NewEntry(n) ELSE entries[index[n]]
    BY PlacesGiven DEF Own
<1>2. n \in Names
    BY DEF Seen, Read, There, Listing
<1>3. now \in Nat
    BY DEF Machine
<1>4. CASE n \in New
    <2>1. Gone \in [Dirs -> Int]
        BY DEF Gone
    <2>2. [d \in Dirs |-> Pending] \in [Dirs -> Int]
        BY DEF Pending
    <2>3. Own(n) = NewEntry(n)
        BY <1>1, <1>4
    <2>4. NewEntry(n) \in Entry /\ NewEntry(n).name = n /\ NewEntry(n).prev = Gone
          /\ NewEntry(n).rate = [d \in Dirs |-> Pending]
        BY <1>2, <1>3, <2>1, <2>2 DEF NewEntry, Entry
    <2> QED BY <1>4, <2>3, <2>4
<1>5. CASE n \notin New
    <2>1. n \in DOMAIN index
        BY <1>5 DEF New, Seen
    <2>2. Own(n) = entries[index[n]] /\ Found(n)
        BY <1>1, <1>5, <2>1 DEF Listing
    <2>3. entries[index[n]] \in Entry
        BY <2>2 DEF Listing, Found
    <2> QED BY <1>5, <2>1, <2>2, <2>3 DEF Found
<1> QED BY <1>4, <1>5

\* What is measured is a number.
LEMMA MeasuredIsInt ==
    ASSUME Machine, Listing, NEW n \in Seen, NEW d \in Dirs
    PROVE  Measured(Own(n), n, d) \in Int
<1>1. now \in Nat /\ Fine \in Nat /\ Wrap \in Nat
    BY RatesAssumption DEF Machine
<1>2. CASE n \in Read /\ Own(n).prev # Gone
    <2>1. world[n][d] \in Int /\ Own(n).prev[d] \in Int
        <3>1. world[n] \in [Dirs -> Counts] /\ Own(n).prev \in [Dirs -> Counts]
            BY <1>2, OwnEntries DEF Read, There, Machine, Device
        <3>2. Counts \subseteq Int
            BY <1>1 DEF Counts
        <3> QED BY <3>1, <3>2
    <2>2. Own(n).at \in Nat
        BY OwnEntries DEF Entry
    <2>3. \A x \in Int, t \in Nat : t > 0 => PerTick(x, t) \in Int
        BY <1>1 DEF PerTick
    <2>4. Rate(Own(n).prev[d], Own(n).at, world[n][d]) \in Int
        <3>1. ASSUME NEW x \in Int, NEW y \in Int, NEW t \in Nat PROVE Rate(x, t, y) \in Int
            BY <1>1, <2>3 DEF Rate, Pending
        <3> QED BY <2>1, <2>2, <3>1
    <2> QED BY <1>2, <2>4 DEF Measured
<1>3. CASE ~(n \in Read /\ Own(n).prev # Gone)
    BY <1>3 DEF Measured, Pending
<1> QED BY <1>2, <1>3

\* The list after the lines were read, before it is sorted.
LEMMA UpdatedAt ==
    ASSUME Machine, Listing
    PROVE  /\ DOMAIN Updated(AllEntries, Where) = 1..Length
           /\ \A n \in Seen : Updated(AllEntries, Where)[Where[n]] = After(n)
<1>1. DOMAIN AllEntries = 1..Length
    BY PlacesGiven
<1>2. DOMAIN Updated(AllEntries, Where) = 1..Length
    BY <1>1 DEF Updated
<1>3. ASSUME NEW n \in Seen PROVE Updated(AllEntries, Where)[Where[n]] = After(n)
    <2>1. PICK i \in 1..Length : i = Where[n]
        BY PlacesGiven
    <2>2. Read \subseteq Seen
        BY DEF Seen
    <2>3. \A m \in Seen : Where[m] = i => m = n
        BY PlacesGiven, <2>1
    <2>4. CASE n \in Read
        <3>1. {m \in Read : Where[m] = i} = {n}
            BY <2>1, <2>2, <2>3, <2>4
        <3>2. Updated(AllEntries, Where)[i]
                = [AllEntries[i] EXCEPT !.prev = world[n], !.at = now,
                       !.rate = [d \in Dirs |->
                           IF Measured(AllEntries[i], n, d) = Pending THEN AllEntries[i].rate[d]
                           ELSE Measured(AllEntries[i], n, d)]]
            <4>1. \A X : X = {n} => X # {} /\ (CHOOSE m \in X : TRUE) = n
                OBVIOUS
            <4> QED BY <1>1, <3>1, <4>1 DEF Updated
        <3> QED BY <2>1, <2>4, <3>2 DEF After, NewRate, Own
    <2>5. CASE n \notin Read
        <3>1. {m \in Read : Where[m] = i} = {}
            BY <2>2, <2>3, <2>5
        <3>2. Updated(AllEntries, Where)[i] = AllEntries[i]
            BY <1>1, <3>1 DEF Updated
        <3> QED BY <2>1, <2>5, <3>2 DEF After, Own
    <2> QED BY <2>4, <2>5
<1> QED BY <1>2, <1>3

\* What is in an entry after its line was read.
LEMMA AfterIs ==
    ASSUME Machine, Listing, NEW n \in Seen
    PROVE  /\ After(n) \in Entry /\ After(n).name = n
           /\ n \in Read => /\ After(n).prev = world[n] /\ After(n).at = now
                            /\ After(n).rate = NewRate(n)
           /\ n \notin Read => After(n) = entries[index[n]] /\ n \in DOMAIN index
<1>1. Own(n) \in Entry /\ Own(n).name = n
    BY OwnEntries
<1>2. CASE n \in Read
    <2>1. PICK r : r = NewRate(n)
        OBVIOUS
    <2>2. r \in [Dirs -> Int]
        <3>1. Own(n).rate \in [Dirs -> Int]
            BY <1>1 DEF Entry
        <3>2. \A d \in Dirs : Measured(Own(n), n, d) \in Int /\ Own(n).rate[d] \in Int
            BY <3>1, MeasuredIsInt
        <3> QED BY <2>1, <3>2 DEF NewRate
    <2>3. world[n] \in [Dirs -> Int]
        <3>1. world[n] \in [Dirs -> Counts] /\ Wrap \in Nat
            BY <1>2, RatesAssumption DEF Read, There, Machine, Device
        <3>2. Counts \subseteq Int
            BY <3>1 DEF Counts
        <3> QED BY <3>1, <3>2
    <2>4. now \in Nat
        BY DEF Machine
    <2>5. After(n) = [Own(n) EXCEPT !.prev = world[n], !.at = now, !.rate = r]
        BY <1>2, <2>1 DEF After
    <2>6. /\ After(n) \in Entry /\ After(n).name = n
          /\ After(n).prev = world[n] /\ After(n).at = now /\ After(n).rate = r
        BY <1>1, <2>2, <2>3, <2>4, <2>5 DEF Entry
    <2> QED BY <1>2, <2>1, <2>6
<1>3. CASE n \notin Read
    <2>1. n \notin New
        BY <1>3 DEF New
    <2> QED BY <1>1, <1>3, <2>1, OwnEntries DEF After
<1> QED BY <1>2, <1>3

\* Sorting only gives the entries other places.
Rearranged(p, K, L) ==
    /\ p \in [1..K -> 1..K]
    /\ \A i, j \in 1..K : p[i] = p[j] => i = j
    /\ \A i \in 1..K : \E k \in 1..K : p[k] = i
    /\ \A k \in 1..K : Sorted(L)[k] = L[p[k]]

\* Sorting gives every entry a place of its own.
LEMMA SortedKeeps ==
    ASSUME NEW K \in Nat, NEW L, DOMAIN L = 1..K, \A i \in 1..K : L[i].rate["in"] \in Int
    PROVE  DOMAIN Sorted(L) = 1..K /\ \E p : Rearranged(p, K, L)
<1> DEFINE Key(i) == OrZero(L[i].rate["in"])
           R == {ij \in (1..K) \X (1..K) :
                    Key(ij[1]) > Key(ij[2]) \/ (Key(ij[1]) = Key(ij[2]) /\ ij[1] < ij[2])}
           Is(i, k) == RankOf(L, i) = k
           p == [k \in 1..K |-> CHOOSE i \in 1..K : Is(i, k)]
<1>1. \A i \in 1..K : Key(i) \in Int
    BY DEF OrZero
<1>2. \A i, j \in 1..K : <<i, j>> \in R <=> Key(i) > Key(j) \/ (Key(i) = Key(j) /\ i < j)
    OBVIOUS
<1>3. /\ \A i \in 1..K : RankIn(1..K, R, i) \in 1..K
      /\ \A i, j \in 1..K : RankIn(1..K, R, i) = RankIn(1..K, R, j) => i = j
      /\ \A k \in 1..K : \E i \in 1..K : RankIn(1..K, R, i) = k
    <2> HIDE DEF Key, R
    <2>1. \A i \in 1..K : <<i, i>> \notin R
        BY <1>1, <1>2
    <2>2. \A i, j \in 1..K : i # j => <<i, j>> \in R \/ <<j, i>> \in R
        BY <1>1, <1>2
    <2>3. \A i, j, k \in 1..K : <<i, j>> \in R /\ <<j, k>> \in R => <<i, k>> \in R
        BY <1>1, <1>2
    <2>4. IsFiniteSet(1..K) /\ Cardinality(1..K) = K
        BY FS_Interval
    <2>5. PICK M : M = 1..K
        OBVIOUS
    <2>6. /\ \A i \in M : RankIn(M, R, i) \in 1..Cardinality(M)
          /\ \A i, j \in M : RankIn(M, R, i) = RankIn(M, R, j) => i = j
          /\ \A k \in 1..Cardinality(M) : \E i \in M : RankIn(M, R, i) = k
        <3>1. /\ IsFiniteSet(M) /\ \A i \in M : <<i, i>> \notin R
              /\ \A i, j \in M : i # j => <<i, j>> \in R \/ <<j, i>> \in R
              /\ \A i, j, k \in M : <<i, j>> \in R /\ <<j, k>> \in R => <<i, k>> \in R
            BY <2>1, <2>2, <2>3, <2>4, <2>5, Zenon
        <3> QED BY <3>1, RankOnto
    <2> QED BY <2>4, <2>5, <2>6, Zenon
<1>4. Sorted(L) = [k \in 1..K |-> L[CHOOSE i \in 1..K : Is(i, k)]]
    BY DEF Sorted
<1>11. \A i \in 1..K : RankOf(L, i) = RankIn(1..K, R, i)
    <2> TAKE i \in 1..K
    <2>1. \A j \in 1..K : Busier(L, j, i) <=> <<j, i>> \in R
        BY <1>2 DEF Busier
    <2>2. {j \in 1..K : Busier(L, j, i)} = {j \in 1..K : <<j, i>> \in R}
        BY <2>1
    <2> HIDE DEF R
    <2> QED BY <2>2 DEF RankOf, RankIn
<1> HIDE DEF R
<1>5. \A k \in 1..K : p[k] \in 1..K /\ Is(p[k], k)
    <2> TAKE k \in 1..K
    <2>1. \E i \in 1..K : Is(i, k)
        BY <1>3, <1>11
    <2>2. p[k] = CHOOSE i \in 1..K : Is(i, k)
        OBVIOUS
    <2> HIDE DEF Is, p
    <2> QED BY <2>1, <2>2
<1>6. p \in [1..K -> 1..K]
    BY <1>5
<1>7. \A k \in 1..K : Sorted(L)[k] = L[p[k]]
    BY <1>4
<1>8. DOMAIN Sorted(L) = 1..K
    BY <1>4
<1> HIDE DEF p
<1>9. \A i, j \in 1..K : p[i] = p[j] => i = j
    BY <1>5
<1>10. ASSUME NEW i \in 1..K PROVE \E k \in 1..K : p[k] = i
    <2>1. PICK k \in 1..K : Is(i, k)
        BY <1>3, <1>11
    <2>2. p[k] = i
        BY <1>3, <1>5, <1>11, <2>1, SMTT(30)
    <2> QED BY <2>2
<1>12. Rearranged(p, K, L)
    BY <1>6, <1>7, <1>9, <1>10 DEF Rearranged
<1> QED BY <1>8, <1>12

\* After the round each name seen has one entry, what the round made of its own.
Placed(place) ==
    /\ place \in [Seen -> 1..Length]
    /\ DOMAIN entries' = 1..Length
    /\ \A m, n \in Seen : place[m] = place[n] => m = n
    /\ \A k \in 1..Length : \E n \in Seen : place[n] = k
    /\ \A n \in Seen : entries'[place[n]] = After(n)

\* So after a round every name has a place, sorted or not.
LEMMA EntriesAfter ==
    ASSUME Machine, Listing, SampleDevices
    PROVE  \E place : Placed(place)
<1>1. PICK U : U = Updated(AllEntries, Where)
    OBVIOUS
<1>2. DOMAIN U = 1..Length /\ \A n \in Seen : U[Where[n]] = After(n)
    BY <1>1, UpdatedAt
<1>3. entries' = IF kind = "disk" THEN Sorted(U) ELSE U
    BY <1>1 DEF SampleDevices
<1>4. /\ Length \in Nat
      /\ \A n \in Seen : Where[n] \in 1..Length
      /\ \A m, n \in Seen : Where[m] = Where[n] => m = n
      /\ \A i \in 1..Length : \E n \in Seen : Where[n] = i
    BY PlacesGiven
<1>5. CASE kind # "disk"
    <2>1. PICK place : place = [n \in Seen |-> Where[n]]
        OBVIOUS
    <2>2. place \in [Seen -> 1..Length] /\ \A n \in Seen : place[n] = Where[n]
        BY <1>4, <2>1
    <2>3. entries' = U
        BY <1>3, <1>5
    <2> QED BY <1>2, <1>4, <2>2, <2>3 DEF Placed
<1>6. CASE kind = "disk"
    <2>1. \A i \in 1..Length : U[i].rate["in"] \in Int
        <3> TAKE i \in 1..Length
        <3>1. PICK n \in Seen : Where[n] = i
            BY <1>4
        <3>2. U[i] \in Entry
            BY <1>2, <3>1, AfterIs
        <3>3. "in" \in Dirs
            BY DEF Dirs
        <3> QED BY <3>2, <3>3 DEF Entry
    <2>2. PICK p : Rearranged(p, Length, U)
        BY <1>2, <1>4, <2>1, SortedKeeps, Zenon
    <2>3. DOMAIN Sorted(U) = 1..Length
        BY <1>2, <1>4, <2>1, SortedKeeps, Zenon
    <2>4. PICK place : place = [n \in Seen |-> CHOOSE k \in 1..Length : p[k] = Where[n]]
        OBVIOUS
    <2>5. \A n \in Seen : place[n] \in 1..Length /\ p[place[n]] = Where[n]
        <3> TAKE n \in Seen
        <3>1. \E k \in 1..Length : p[k] = Where[n]
            BY <1>4, <2>2 DEF Rearranged
        <3>2. place[n] = CHOOSE k \in 1..Length : p[k] = Where[n]
            BY <2>4
        <3> QED BY <3>1, <3>2
    <2>6. place \in [Seen -> 1..Length]
        BY <2>4, <2>5
    <2>7. \A m, n \in Seen : place[m] = place[n] => m = n
        BY <1>4, <2>5
    <2>8. ASSUME NEW k \in 1..Length PROVE \E n \in Seen : place[n] = k
        <3>1. PICK n \in Seen : Where[n] = p[k]
            BY <1>4, <2>2 DEF Rearranged
        <3>2. place[n] = k
            BY <2>2, <2>5, <3>1 DEF Rearranged
        <3> QED BY <3>2
    <2>9. entries' = Sorted(U)
        BY <1>3, <1>6
    <2>10. \A n \in Seen : entries'[place[n]] = After(n)
        BY <1>2, <2>2, <2>5, <2>9 DEF Rearranged
    <2> QED BY <2>3, <2>6, <2>7, <2>8, <2>9, <2>10 DEF Placed
<1> QED BY <1>5, <1>6

\* So the index finds it there.
LEMMA IndexAfter ==
    ASSUME Machine, Listing, SampleDevices, NEW place, Placed(place)
    PROVE  /\ entries' \in Seq(Entry)
           /\ \A i, j \in DOMAIN entries' : entries'[i].name = entries'[j].name => i = j
           /\ \A i \in DOMAIN entries' : entries'[i].name \in Seen
           /\ DOMAIN index' = Seen /\ \A n \in Seen : index'[n] = place[n]
<1>1. \A n \in Seen : After(n) \in Entry /\ After(n).name = n
    BY AfterIs
<1>2. ASSUME NEW k \in 1..Length
      PROVE  \E n \in Seen : place[n] = k /\ entries'[k] = After(n) /\ entries'[k].name = n
    <2>1. PICK n \in Seen : place[n] = k
        BY DEF Placed
    <2>2. entries'[k] = After(n)
        BY <2>1 DEF Placed
    <2> QED BY <1>1, <2>1, <2>2
<1>3. Length \in Nat /\ DOMAIN entries' = 1..Length
    BY PlacesGiven DEF Placed
<1>4. \A k \in 1..Length : entries'[k] \in Entry /\ entries'[k].name \in Seen
    BY <1>1, <1>2
<1>5. entries' \in [1..Length -> Entry]
    <2>1. entries' = [k \in 1..Length |-> entries'[k]]
        <3>1. PICK U : U = Updated(AllEntries, Where)
            OBVIOUS
        <3>2. entries' = IF kind = "disk" THEN Sorted(U) ELSE U
            BY <3>1 DEF SampleDevices
        <3>3. U = [k \in DOMAIN U |-> U[k]]
            BY <3>1 DEF Updated
        <3>4. Sorted(U) = [k \in DOMAIN Sorted(U) |-> Sorted(U)[k]]
            BY DEF Sorted
        <3> QED BY <1>3, <3>2, <3>3, <3>4
    <2> QED BY <1>4, <2>1
<1>6. entries' \in Seq(Entry)
    BY <1>3, <1>5
<1>7. \A i, j \in 1..Length : entries'[i].name = entries'[j].name => i = j
    BY <1>2
<1>8. {entries'[i].name : i \in DOMAIN entries'} = Seen
    <2>1. ASSUME NEW n \in Seen PROVE \E i \in DOMAIN entries' : entries'[i].name = n
        <3>1. place[n] \in 1..Length /\ entries'[place[n]] = After(n)
            BY DEF Placed
        <3> QED BY <1>1, <1>3, <3>1
    <2> QED BY <1>3, <1>4, <2>1
<1>9. index' = [n \in Seen |-> CHOOSE i \in 1..Length : entries'[i].name = n]
    BY <1>3, <1>8 DEF SampleDevices, Index
<1>10. ASSUME NEW n \in Seen PROVE index'[n] = place[n]
    <2>1. place[n] \in 1..Length /\ entries'[place[n]].name = n
        BY <1>1 DEF Placed
    <2>2. \A i \in 1..Length : entries'[i].name = n => i = place[n]
        BY <1>7, <2>1
    <2>3. index'[n] = CHOOSE i \in 1..Length : entries'[i].name = n
        BY <1>9
    <2> QED BY <2>1, <2>2, <2>3
<1> QED BY <1>3, <1>4, <1>6, <1>7, <1>9, <1>10

\* A round keeps the list as it should be.
LEMMA StepDevices == DevInv /\ SampleDevices => DevInv'
<1> SUFFICES ASSUME DevInv, SampleDevices PROVE Machine' /\ Listing'
    BY DEF DevInv
<1>1. Machine /\ Listing
    BY DEF DevInv, SampleDevices
<1>2. PICK place : Placed(place)
    BY <1>1, EntriesAfter
<1>3. /\ entries' \in Seq(Entry)
      /\ \A i, j \in DOMAIN entries' : entries'[i].name = entries'[j].name => i = j
      /\ \A i \in DOMAIN entries' : entries'[i].name \in Seen
      /\ DOMAIN index' = Seen /\ \A n \in Seen : index'[n] = place[n]
    BY <1>1, <1>2, IndexAfter
<1>4. UNCHANGED <<kind, now, world>>
    BY DEF SampleDevices
<1>5. Read \subseteq Names /\ Seen \subseteq Names /\ DOMAIN since' = Names
    BY <1>1 DEF Read, There, Seen, Listing, SampleDevices
<1>6. \A n \in Read : since'[n] = [read |-> TRUE, at |-> now, same |-> TRUE, moved |-> None]
    BY <1>5 DEF SampleDevices
<1>7. \A n \in Names \ Read : since'[n] = since[n]
    BY DEF SampleDevices
<1>8. None \in [Dirs -> Nat] /\ \A d \in Dirs : None[d] = 0
    BY DEF None
<1>9. now \in Nat /\ Speed \in Nat /\ Wrap \in Nat \ {0}
    BY <1>1, RatesAssumption, SpeedIsMost DEF Machine
<1>10. ASSUME NEW n \in Names PROVE Device(n)'
    <2>1. Device(n)
        BY <1>1 DEF Machine
    <2>2. CASE n \in Read
        <3>1. /\ since'[n].at = now /\ since'[n].same = TRUE /\ since'[n].moved = None
              /\ since'[n] \in [read : BOOLEAN, at : Nat, same : BOOLEAN, moved : [Dirs -> Nat]]
            <4> DEFINE now0 == [read |-> TRUE, at |-> now, same |-> TRUE, moved |-> None]
            <4>1. now0 \in [read : BOOLEAN, at : Nat, same : BOOLEAN, moved : [Dirs -> Nat]]
                BY <1>8, <1>9
            <4>2. since'[n] = now0
                BY <1>6, <2>2
            <4>3. now0.at = now /\ now0.same = TRUE /\ now0.moved = None
                OBVIOUS
            <4> HIDE DEF now0
            <4> QED BY <4>1, <4>2, <4>3
        <3>2. \A d \in Dirs : None[d] <= Speed * (now - now)
            BY <1>8, <1>9
        <3> QED BY <1>4, <1>9, <2>1, <3>1, <3>2 DEF Device
    <2>3. CASE n \notin Read
        BY <1>4, <1>7, <2>1, <2>3 DEF Device
    <2> QED BY <2>2, <2>3
<1>11. Machine'
    BY <1>1, <1>4, <1>5, <1>10 DEF Machine
<1>12. {n \in Names : since'[n].read} = Seen
    <2>1. ASSUME NEW n \in Names PROVE since'[n].read <=> n \in Seen
        <3>1. CASE n \in Read
            BY <1>6, <3>1 DEF Seen
        <3>2. CASE n \notin Read
            BY <1>1, <1>7, <3>2 DEF Seen, Listing
        <3> QED BY <3>1, <3>2
    <2> QED BY <1>5, <2>1
<1>13. ASSUME NEW n \in Seen PROVE Found(n)'
    <2>1. index'[n] \in DOMAIN entries' /\ entries'[index'[n]] = After(n)
        BY <1>2, <1>3 DEF Placed
    <2>2. CASE n \in Read
        <3>1. After(n).name = n /\ After(n).prev = world[n] /\ After(n).at = now
            BY <1>1, <2>2, AfterIs
        <3>2. world[n] \in [Dirs -> Counts]
            BY <1>1, <1>5, <2>2 DEF Machine, Device, Read, There
        <3>3. \A d \in Dirs : world[n][d] = (world[n][d] + None[d]) % Wrap
            <4> TAKE d \in Dirs
            <4>1. world[n][d] \in 0..(Wrap - 1)
                BY <3>2 DEF Counts
            <4>2. \A x \in 0..(Wrap - 1) : (x + 0) % Wrap = x
                BY <1>9
            <4> QED BY <1>8, <4>1, <4>2
        <3>4. since'[n].at = now /\ since'[n].moved = None
            BY <1>6, <2>2
        <3> QED BY <1>4, <2>1, <3>1, <3>2, <3>3, <3>4 DEF Found
    <2>3. CASE n \notin Read
        <3>1. After(n) = entries[index[n]] /\ n \in DOMAIN index
            BY <1>1, <2>3, AfterIs
        <3>2. Found(n) /\ since'[n] = since[n]
            BY <1>1, <1>5, <1>7, <2>3, <3>1 DEF Listing
        <3> QED BY <1>4, <2>1, <3>1, <3>2 DEF Found
    <2> QED BY <2>2, <2>3
<1>14. Listing'
    BY <1>3, <1>12, <1>13 DEF Listing
<1> QED BY <1>11, <1>14

\* So does each step.
LEMMA StepDevInv == DevInv /\ [Next]_vars => DevInv'
<1> SUFFICES ASSUME DevInv, [Next]_vars PROVE DevInv'
    OBVIOUS
<1>1. CASE DevicesMove
    BY <1>1, StepMove
<1>2. ASSUME NEW n \in Names, Unplug(n) \/ Plug(n) PROVE DevInv'
    <2>1. UNCHANGED <<kind, now, entries, index>> /\ kind # "cpu"
        BY <1>2 DEF Unplug, Plug
    <2>2. \/ /\ world' = [world EXCEPT ![n] = Gone]
             /\ since' = since
          \/ /\ world[n] = Gone /\ world' = [world EXCEPT ![n] = None]
             /\ since' = [since EXCEPT ![n].same = FALSE]
        BY <1>2 DEF Unplug, Plug
    <2> QED BY <2>1, <2>2, StepPlug
<1>3. CASE SampleDevices
    BY <1>3, StepDevices
<1>4. CASE CpusRun \/ (\E c \in Numbers : Hotplug(c)) \/ SampleCpus
    <2>1. kind' = "cpu"
        BY <1>4 DEF CpusRun, Hotplug, SampleCpus
    <2> QED BY <2>1 DEF DevInv
<1>5. CASE SampleFails \/ UNCHANGED vars
    <2>1. UNCHANGED <<kind, now, world, since, entries, index>>
        BY <1>5 DEF SampleFails, vars, devices
    <2> QED BY <2>1 DEF DevInv, Machine, Device, Listing, Found
<1> QED BY <1>1, <1>2, <1>3, <1>4, <1>5 DEF Next

\* So it is in every state.
LEMMA DevicesInvariant == Spec => []DevInv
<1> QED BY InitDevices, StepDevInv, PTL DEF Spec


-----------------------------------------------------------------------------
(* What the round measures, and shows. *)

\* A total that moved on within its range is as it was plus what was moved, or
\* has begun again and is smaller than before.
LEMMA Carried ==
    ASSUME NEW W \in Nat \ {0}, NEW p \in 0..(W - 1), NEW m \in 0..(W - 1), NEW w,
           w = (p + m) % W
    PROVE  /\ w \in Nat
           /\ w >= m => w >= p /\ w - p = m
           /\ w < m => w < p
<1>1. CASE p + m < W
    <2>1. \A a \in Nat : a < W => a % W = a
        OBVIOUS
    <2>2. w = p + m
        BY <1>1, <2>1
    <2> QED BY <2>2
<1>2. CASE p + m >= W
    <2>1. PICK a \in Int : a = p + m - W
        OBVIOUS
    <2>2. (1 * W + a) % W = a % W
        BY Again, 1 \in Int, Zenon
    <2>3. 1 * W + a = p + m /\ 0 <= a /\ a < W
        BY <1>2, <2>1
    <2>4. \A b \in Nat : b < W => b % W = b
        OBVIOUS
    <2>5. w = a
        BY <2>2, <2>3, <2>4
    <2> QED BY <2>1, <2>3, <2>5
<1> QED BY <1>1, <1>2

\* What is measured of a device that stayed is what it moved; of another under
\* its name, no more than that one can have moved.
LEMMA MeasuredIs ==
    ASSUME Machine, Listing, NEW n \in Read, NEW d \in Dirs
    PROVE  /\ Tells(n, d) => Measured(Own(n), n, d) = Truth(n, d) /\ Truth(n, d) # Pending
           /\ Measured(Own(n), n, d) <= Fine * Speed
           /\ since[n].same /\ Measured(Own(n), n, d) # Pending => Tells(n, d)
<1>1. n \in Names /\ world[n] # Gone /\ n \in Seen /\ Device(n)
    BY DEF Read, There, Seen, Machine
<1>2. /\ Wrap \in Nat \ {0} /\ MaxTime \in Nat /\ now \in 0..MaxTime
      /\ Speed \in Nat /\ Fine \in Nat /\ Fine * Speed \in Nat
    <2>1. Speed \in Nat /\ Fine \in Nat
        BY RatesAssumption, SpeedIsMost
    <2>2. Fine * Speed \in Nat
        BY <2>1
    <2> QED BY <2>1, <2>2, RatesAssumption DEF Machine
<1>3. PICK w : w = world[n][d]
    OBVIOUS
<1>4. PICK m : m = since[n].moved[d]
    OBVIOUS
<1>5. PICK t : t = now - since[n].at
    OBVIOUS
<1>6. w \in 0..(Wrap - 1) /\ m \in Nat /\ t \in 0..MaxTime /\ m <= Speed * t /\ since[n].at \in Nat
    <2>1. world[n] \in [Dirs -> Counts]
        BY <1>1 DEF Device
    <2>2. w \in Counts
        BY <1>3, <2>1
    <2>3. since[n] \in [read : BOOLEAN, at : Nat, same : BOOLEAN, moved : [Dirs -> Nat]]
          /\ since[n].at <= now /\ m <= Speed * (now - since[n].at)
        BY <1>1, <1>4 DEF Device
    <2>4. t \in 0..MaxTime
        BY <1>2, <1>5, <2>3
    <2>5. m \in Nat
        BY <1>4, <2>3
    <2> HIDE DEF Speed
    <2> QED BY <1>5, <2>2, <2>3, <2>4, <2>5 DEF Counts
<1>7. m < Wrap
    BY <1>6, MovedInTime
<1>17. m \in 0..(Wrap - 1)
    BY <1>2, <1>6, <1>7
<1>18. ASSUME NEW p \in 0..(Wrap - 1), w = (p + m) % Wrap
       PROVE  (w >= m => w >= p /\ w - p = m) /\ (w >= p => w >= m)
    <2>1. w \in Nat /\ (w >= m => w >= p /\ w - p = m) /\ (w < m => w < p)
        BY <1>2, <1>17, <1>18, Carried
    <2>2. p \in Int /\ m \in Int
        BY <1>2, <1>17
    <2> QED BY <2>1, <2>2
<1>8. ASSUME n \in DOMAIN index
      PROVE  /\ Own(n) = entries[index[n]] /\ Own(n).at = since[n].at
             /\ Own(n).prev # Gone /\ Own(n).prev[d] \in 0..(Wrap - 1)
             /\ since[n].same => w = (Own(n).prev[d] + m) % Wrap
    <2>1. n \notin New
        BY <1>8 DEF New
    <2>2. Own(n) = entries[index[n]] /\ Found(n)
        BY <1>1, <1>8, <2>1, OwnEntries DEF Listing
    <2>3. Own(n).prev \in [Dirs -> Counts]
        BY <2>2 DEF Found
    <2>4. Own(n).prev[d] \in Counts
        BY <2>3
    <2>5. Own(n).prev # Gone
        BY <1>2, <2>4 DEF Gone, Counts
    <2> QED BY <1>1, <1>3, <1>4, <2>2, <2>4, <2>5 DEF Found, Counts
<1>9. n \in DOMAIN index <=> since[n].read
    BY <1>1 DEF Listing
<1>10. Measured(Own(n), n, d) = IF Own(n).prev = Gone THEN Pending
                                ELSE Rate(Own(n).prev[d], Own(n).at, w)
    BY <1>3 DEF Measured
<1>11. n \notin DOMAIN index => Own(n).prev = Gone
    BY <1>1, OwnEntries DEF New
<1>12. t > 0 => PerTick(m, t) \in Nat
    BY <1>6, RateInRange
<1>13. Truth(n, d) = PerTick(m, t)
    BY <1>4, <1>5 DEF Truth
<1>14. ASSUME Tells(n, d)
       PROVE  Measured(Own(n), n, d) = Truth(n, d) /\ Truth(n, d) # Pending
    <2>1. n \in DOMAIN index /\ since[n].same /\ now > since[n].at /\ w >= m
        BY <1>3, <1>4, <1>9, <1>14 DEF Tells
    <2>2. PICK p \in 0..(Wrap - 1) : p = Own(n).prev[d]
        BY <1>8, <2>1
    <2>3. w >= p /\ w - p = m
        BY <1>8, <1>18, <2>1, <2>2
    <2>4. t > 0
        BY <1>2, <1>5, <1>6, <2>1
    <2>5. Measured(Own(n), n, d) = PerTick(m, t)
        BY <1>5, <1>8, <1>10, <2>1, <2>2, <2>3 DEF Rate
    <2> QED BY <1>12, <1>13, <2>4, <2>5 DEF Pending
<1>15. Measured(Own(n), n, d) <= Fine * Speed
    <2>1. CASE Measured(Own(n), n, d) = Pending
        BY <1>2, <2>1 DEF Pending
    <2>2. CASE Measured(Own(n), n, d) # Pending
        <3>1. n \in DOMAIN index /\ w >= Own(n).prev[d] /\ now > Own(n).at
            BY <1>10, <1>11, <2>2 DEF Rate
        <3>2. PICK p \in 0..(Wrap - 1) : p = Own(n).prev[d]
            BY <1>8, <3>1
        <3>3. Measured(Own(n), n, d) = PerTick(w - p, t) /\ t > 0
            BY <1>2, <1>5, <1>6, <1>8, <1>10, <3>1, <3>2 DEF Rate
        <3>4. w - p \in Nat /\ w - p <= m
            <4>1. CASE since[n].same
                <5>1. w >= m
                    BY <1>8, <1>18, <3>1, <3>2, <4>1
                <5>2. w - p = m
                    BY <1>8, <1>18, <3>1, <3>2, <4>1, <5>1
                <5> QED BY <1>6, <5>2
            <4>2. CASE ~since[n].same
                <5>1. w <= m
                    BY <1>1, <1>3, <1>4, <4>2 DEF Device
                <5> QED BY <1>6, <3>1, <3>2, <5>1
            <4> QED BY <4>1, <4>2
        <3>5. w - p <= Speed * t /\ t \in 1..MaxTime
            <4>1. Speed * t \in Nat
                BY <1>2, <1>6
            <4> HIDE DEF Speed
            <4> QED BY <1>6, <3>3, <3>4, <4>1
        <3> QED BY <3>3, <3>4, <3>5, RateInRange
    <2> QED BY <2>1, <2>2
<1>16. ASSUME since[n].same, Measured(Own(n), n, d) # Pending PROVE Tells(n, d)
    <2>1. n \in DOMAIN index /\ w >= Own(n).prev[d] /\ now > Own(n).at
        BY <1>10, <1>11, <1>16 DEF Rate
    <2>2. PICK p \in 0..(Wrap - 1) : p = Own(n).prev[d]
        BY <1>8, <2>1
    <2>3. w >= m
        BY <1>8, <1>16, <1>18, <2>1, <2>2
    <2> QED BY <1>3, <1>4, <1>8, <1>9, <1>16, <2>1, <2>3 DEF Tells
<1> QED BY <1>14, <1>15, <1>16

\* What is shown of a name stands in its entry.
LEMMA ShownBefore ==
    ASSUME Machine, Listing, NEW n \in Names, NEW d \in Dirs
    PROVE  ShownRate(n, d) = IF n \in DOMAIN index THEN entries[index[n]].rate[d] ELSE Pending
<1>1. PICK mine : mine = {i \in DOMAIN entries : entries[i].name = n}
    OBVIOUS
<1>2. CASE n \in DOMAIN index
    <2>1. mine = {index[n]}
        BY <1>1, <1>2 DEF Listing, Found
    <2>2. \A i : (CHOOSE j \in {i} : TRUE) = i
        OBVIOUS
    <2> QED BY <1>1, <1>2, <2>1, <2>2 DEF ShownRate
<1>3. CASE n \notin DOMAIN index
    <2>1. mine = {}
        BY <1>1, <1>3 DEF Listing
    <2> QED BY <1>1, <1>3, <2>1 DEF ShownRate
<1> QED BY <1>2, <1>3

\* And after the round in what the round made of it.
LEMMA ShownAfter ==
    ASSUME Machine, Listing, SampleDevices, NEW n \in Names, NEW d \in Dirs
    PROVE  ShownRate(n, d)' = IF n \in Seen THEN After(n).rate[d] ELSE Pending
<1>1. PICK place : Placed(place)
    BY EntriesAfter
<1>2. /\ \A i, j \in DOMAIN entries' : entries'[i].name = entries'[j].name => i = j
      /\ \A i \in DOMAIN entries' : entries'[i].name \in Seen
    BY <1>1, IndexAfter
<1>3. PICK mine : mine = {i \in DOMAIN entries' : entries'[i].name = n}
    OBVIOUS
<1>4. CASE n \in Seen
    <2>1. place[n] \in DOMAIN entries' /\ entries'[place[n]] = After(n)
        BY <1>1, <1>4 DEF Placed
    <2>2. After(n).name = n
        BY <1>4, AfterIs
    <2>3. mine = {place[n]}
        BY <1>2, <1>3, <2>1, <2>2
    <2>4. \A i : (CHOOSE j \in {i} : TRUE) = i
        OBVIOUS
    <2>5. ShownRate(n, d)' = entries'[CHOOSE i \in mine : TRUE].rate[d]
        BY <1>3, <2>3 DEF ShownRate
    <2> QED BY <1>4, <2>1, <2>3, <2>4, <2>5
<1>5. CASE n \notin Seen
    <2>1. mine = {}
        BY <1>2, <1>3, <1>5
    <2> QED BY <1>3, <1>5, <2>1 DEF ShownRate
<1> QED BY <1>4, <1>5

\* The total is made of the same numbers.
LEMMA TotalAfter ==
    ASSUME Machine, Listing, SampleDevices, \A n \in There : since[n].same
    PROVE  total' = IF Told("in") = {} THEN total
                    ELSE [d \in Dirs |-> SumFunction([n \in Told(d) |-> Truth(n, d)])]
<1>1. \A n \in Seen : AllEntries[Where[n]] = Own(n)
    BY DEF Own
<1>2. Read \subseteq Seen /\ Read \subseteq Names /\ Read \subseteq There
    BY DEF Seen, Read, There
<1>3. ASSUME NEW d \in Dirs
      PROVE  {n \in Read : InTotal(n) /\ Measured(AllEntries[Where[n]], n, d) # Pending} = Told(d)
    <2>1. Told(d) = {n \in Names \ Part : Tells(n, d)}
        BY DEF Told
    <2>2. \A n \in Read : InTotal(n) <=> n \notin Part
        BY DEF InTotal, Read
    <2>3. \A n \in Read : Measured(AllEntries[Where[n]], n, d) # Pending <=> Tells(n, d)
        BY <1>1, <1>2, MeasuredIs
    <2>4. \A n : Tells(n, d) => n \in Read
        BY DEF Tells
    <2> QED BY <1>2, <2>1, <2>2, <2>3, <2>4
<1>4. ASSUME NEW d \in Dirs
      PROVE  [n \in Told(d) |-> Measured(AllEntries[Where[n]], n, d)] = [n \in Told(d) |-> Truth(n, d)]
    <2>1. ASSUME NEW n \in Told(d) PROVE Measured(AllEntries[Where[n]], n, d) = Truth(n, d)
        <3>1. Tells(n, d) /\ n \in Read
            BY DEF Told, Tells
        <3> QED BY <1>1, <1>2, <3>1, MeasuredIs
    <2> QED BY <2>1
<1>5. "in" \in Dirs
    BY DEF Dirs
<1>6. total' = Totals(AllEntries, Where)
    BY DEF SampleDevices
<1>7. Totals(AllEntries, Where) =
        IF Told("in") = {} THEN total
        ELSE [d \in Dirs |-> SumFunction([n \in Told(d) |-> Measured(AllEntries[Where[n]], n, d)])]
    BY <1>3, <1>5 DEF Totals
<1> QED BY <1>4, <1>6, <1>7

\* What a round shows of the disks and interfaces.
LEMMA RoundRates ==
    ASSUME DevInv, SampleDevices
    PROVE  /\ \A n \in Names, d \in Dirs :
                /\ Tells(n, d) => ShownRate(n, d)' = Truth(n, d)
                /\ ShownRate(n, d)' # ShownRate(n, d) => ShownRate(n, d)' <= Fine * Speed
           /\ (\A n \in There : since[n].same) =>
                total' = IF Told("in") = {} THEN total
                         ELSE [d \in Dirs |-> SumFunction([n \in Told(d) |-> Truth(n, d)])]
<1>1. Machine /\ Listing
    BY DEF DevInv, SampleDevices
<1>2. ASSUME NEW n \in Names, NEW d \in Dirs, n \in Read
      PROVE  ShownRate(n, d)' = IF Measured(Own(n), n, d) = Pending THEN ShownRate(n, d)
                                ELSE Measured(Own(n), n, d)
    <2>1. n \in Seen
        BY <1>2 DEF Seen
    <2>2. ShownRate(n, d)' = NewRate(n)[d]
        BY <1>1, <1>2, <2>1, ShownAfter, AfterIs
    <2>3. Own(n).rate[d] = ShownRate(n, d)
        <3>1. CASE n \in New
            BY <1>1, <2>1, <3>1, OwnEntries, ShownBefore DEF New
        <3>2. CASE n \notin New
            BY <1>1, <2>1, <3>2, OwnEntries, ShownBefore
        <3> QED BY <3>1, <3>2
    <2> QED BY <2>2, <2>3 DEF NewRate
<1>3. ASSUME NEW n \in Names, NEW d \in Dirs, n \notin Read
      PROVE  ShownRate(n, d)' = ShownRate(n, d)
    <2>1. CASE n \in Seen
        BY <1>1, <1>3, <2>1, ShownAfter, ShownBefore, AfterIs
    <2>2. CASE n \notin Seen
        BY <1>1, <2>2, ShownAfter, ShownBefore DEF Seen
    <2> QED BY <2>1, <2>2
<1>4. ASSUME NEW n \in Names, NEW d \in Dirs
      PROVE  /\ Tells(n, d) => ShownRate(n, d)' = Truth(n, d)
             /\ ShownRate(n, d)' # ShownRate(n, d) => ShownRate(n, d)' <= Fine * Speed
    <2>1. CASE n \in Read
        BY <1>1, <1>2, <2>1, MeasuredIs
    <2>2. CASE n \notin Read
        BY <1>3, <2>2 DEF Tells
    <2> QED BY <2>1, <2>2
<1>5. ASSUME \A n \in There : since[n].same
      PROVE  total' = IF Told("in") = {} THEN total
                      ELSE [d \in Dirs |-> SumFunction([n \in Told(d) |-> Truth(n, d)])]
    BY <1>1, <1>5, TotalAfter
<1> QED BY <1>4, <1>5

\* Whatever comes, goes or changes places in the list: a rate is what its own
\* device moved, and the total counts each real one once.
THEOREM RatesAreOwn == CollectorsSpec => RatesAreTrue
<1> DEFINE True == SampleDevices =>
        /\ \A n \in Names, d \in Dirs :
            /\ Tells(n, d) => ShownRate(n, d)' = Truth(n, d)
            /\ ShownRate(n, d)' # ShownRate(n, d) => ShownRate(n, d)' <= Fine * Speed
        /\ (\A n \in There : since[n].same) =>
            total' = IF Told("in") = {} THEN total
                     ELSE [d \in Dirs |-> SumFunction([n \in Told(d) |-> Truth(n, d)])]
<1>1. DevInv /\ [Next]_vars => [True]_vars
    BY RoundRates
<1>2. CollectorsSpec => []DevInv /\ [][Next]_vars
    BY DevicesInvariant, CollectorsReadCpus DEF Spec
<1>3. CollectorsSpec => [][True]_vars
    <2> HIDE DEF True
    <2> QED BY <1>1, <1>2, PTL
<1> QED BY <1>3, PTL DEF RatesAreTrue

-----------------------------------------------------------------------------
(* Filesystems *)

\* A line that tells of a disk, at a path that can be read.
Usable(i) == S!Real(i) /\ ~S!Garbled(table[i].path)

Measurements == {S!Measured(l, d) : l \in Mountable, d \in S!Devices}

\* The first p lines have been asked about: what was got comes from those of
\* them that are usable, all of them, in their order; f says from which.
From(g, p, f) ==
    /\ g \in Seq(Measurements)
    /\ \A k \in 1..Len(g) :
        /\ f[k] \in 1..p
        /\ Usable(f[k])
        /\ g[k] = S!Measured(table[f[k]], table[f[k]].dev)
    /\ \A k, m \in 1..Len(g) : k < m => f[k] < f[m]
    /\ \A i \in 1..p : Usable(i) => \E k \in 1..Len(g) : f[k] = i

Gathered(p, f) == todo = SubSeq(table, p + 1, Len(table)) /\ From(got, p, f)

NoneHidden == \A i \in DOMAIN table : ~S!Hidden(i)

MountsInv ==
    /\ table \in Seq(Mountable)
    /\ reading /\ steady /\ NoneHidden => \E p \in 0..Len(table) : \E f : Gathered(p, f)

\* While nothing changes, what was got stays where it came from.
LEMMA GatheredAfter ==
    ASSUME UNCHANGED <<table, used>>, NEW p, NEW f,
           todo' = SubSeq(table, p + 1, Len(table)), From(got', p, f)
    PROVE  Gathered(p, f)'
<1>1. Measurements' = Measurements
    BY DEF Measurements, S!Measured, S!Devices
<1>2. \A i : Usable(i)' <=> Usable(i)
    BY DEF Usable, S!Real, S!Garbled
<1>3. \A k : S!Measured(table[f[k]], table[f[k]].dev)' = S!Measured(table[f[k]], table[f[k]].dev)
    BY DEF S!Measured
<1>4. From(got, p, f)'
    BY <1>1, <1>2, <1>3 DEF From
<1> QED BY <1>4 DEF Gathered

\* What is mounted at a path nothing else is mounted at.
LEMMA AtIs ==
    ASSUME table \in Seq(Mountable), NoneHidden, NEW i \in 1..Len(table)
    PROVE  S!At(table[i].path) = IF S!Garbled(table[i].path) THEN {} ELSE {table[i].dev}
<1> DEFINE on == {j \in DOMAIN table : table[j].path = table[i].path}
<1>1. ASSUME NEW j \in DOMAIN table, table[j].path = table[i].path PROVE j = i
    <2>1. j \in Nat /\ i \in Nat /\ j <= Len(table) /\ i <= Len(table)
        OBVIOUS
    <2>2. CASE j < i
        BY <1>1, <2>1, <2>2 DEF NoneHidden, S!Hidden
    <2>3. CASE i < j
        BY <1>1, <2>1, <2>3 DEF NoneHidden, S!Hidden
    <2> QED BY <2>1, <2>2, <2>3
<1>2. on = {i}
    BY <1>1
<1>3. {j \in on : \A k \in on : k <= j} = {i}
    BY <1>2
<1>4. {table[j].dev : j \in {j \in on : \A k \in on : k <= j}} = {table[i].dev}
    BY <1>3
<1> QED BY <1>2, <1>4 DEF S!At

\* A scan begins with every line still to be asked about.
LEMMA BeginScanKeeps ==
    ASSUME MountsInv, S!BeginScan
    PROVE  MountsInv'
<1>1. table' = table /\ table \in Seq(Mountable)
    BY DEF MountsInv, S!BeginScan
<1> SUFFICES ASSUME reading' PROVE \E p \in 0..Len(table) : \E f : Gathered(p, f)'
    BY <1>1 DEF MountsInv
<1>2. todo' = table /\ got' = <<>>
    BY DEF S!BeginScan
<1>3. SubSeq(table, 0 + 1, Len(table)) = table
    BY <1>1
<1>4. UNCHANGED <<table, used>>
    BY DEF S!BeginScan
<1>5. From(got', 0, <<>>)
    <2> DEFINE none == <<>>
    <2>1. none \in Seq(Measurements) /\ Len(none) = 0
        OBVIOUS
    <2> QED BY <1>2, <2>1 DEF From
<1>6. Gathered(0, <<>>)'
    BY <1>2, <1>3, <1>4, <1>5, GatheredAfter
<1> QED BY <1>1, <1>6

\* One line more: it tells of its disk, or there is nothing to tell.
LEMMA AskNextKeeps ==
    ASSUME MountsInv, S!AskNext
    PROVE  MountsInv'
<1>1. UNCHANGED <<table, used, reading, steady>> /\ table \in Seq(Mountable) /\ reading
    BY DEF MountsInv, S!AskNext
<1> SUFFICES ASSUME steady, NoneHidden PROVE \E p \in 0..Len(table) : \E f : Gathered(p, f)'
    BY <1>1 DEF MountsInv, NoneHidden, S!Hidden
<1>0. PICK p \in 0..Len(table) : \E f : Gathered(p, f)
    BY <1>1 DEF MountsInv
<1>2. PICK f : Gathered(p, f)
    BY <1>0
<1>3. /\ todo = SubSeq(table, p + 1, Len(table)) /\ todo # <<>> /\ todo' = Tail(todo)
      /\ got \in Seq(Measurements)
    BY <1>2 DEF Gathered, From, S!AskNext
<1>4. /\ p < Len(table) /\ p + 1 \in 1..Len(table) /\ Head(todo) = table[p + 1]
      /\ todo' = SubSeq(table, p + 2, Len(table))
    BY <1>1, <1>3
<1> DEFINE i == p + 1
           l == table[i]
           at == IF l.real THEN S!At(l.path) ELSE {}
           telling == {d \in at \ {NoDevice} : Size[d] > 0}
<1>5. l \in Mountable /\ l.dev \in S!Devices /\ l.dev # NoDevice
    BY <1>1, <1>4, MountsAssumption DEF S!MountBounds
<1>6. \/ (at = {} \/ at # telling) /\ UNCHANGED got
      \/ \E d \in telling : got' = Append(got, S!Measured(l, d))
    BY <1>4 DEF S!AskNext
<1>7. at = IF l.real /\ ~S!Garbled(l.path) THEN {l.dev} ELSE {}
    BY <1>1, <1>4, AtIs
<1>10. CASE Usable(i)
    <2>1. at = {l.dev} /\ telling = {l.dev}
        BY <1>5, <1>7, <1>10 DEF Usable, S!Real
    <2>2. got' = Append(got, S!Measured(l, l.dev))
        BY <1>6, <2>1
    <2>3. S!Measured(l, l.dev) \in Measurements
        BY <1>5 DEF Measurements
    <2> DEFINE n == Len(got) + 1
               g == [k \in 1..n |-> IF k = n THEN i ELSE f[k]]
    <2>4. Len(got) \in Nat /\ got' \in Seq(Measurements) /\ Len(got') = n /\ got'[n] = S!Measured(l, l.dev)
          /\ \A k \in 1..Len(got) : got'[k] = got[k]
        BY <1>3, <2>2, <2>3
    <2>5. \A k \in 1..n : k # n => k \in 1..Len(got) /\ f[k] \in 1..p /\ Usable(f[k])
                             /\ got[k] = S!Measured(table[f[k]], table[f[k]].dev)
        BY <1>2, <2>4 DEF Gathered, From
    <2>6. \A k \in 1..n : g[k] \in 1..i /\ Usable(g[k])
                            /\ got'[k] = S!Measured(table[g[k]], table[g[k]].dev)
        BY <1>10, <2>4, <2>5
    <2>7. \A k, m \in 1..n : k < m => g[k] < g[m]
        BY <1>2, <2>4, <2>5 DEF Gathered, From
    <2>8. \A j \in 1..i : Usable(j) => \E k \in 1..n : g[k] = j
        <3> SUFFICES ASSUME NEW j \in 1..i, Usable(j) PROVE \E k \in 1..n : g[k] = j
            OBVIOUS
        <3>1. CASE j = i
            BY <2>4, <3>1
        <3>2. CASE j # i
            <4>1. PICK k \in 1..Len(got) : f[k] = j
                BY <1>2, <3>2 DEF Gathered, From
            <4> QED BY <2>4, <4>1
        <3> QED BY <3>1, <3>2
    <2> HIDE DEF n, g
    <2>9. \E h : Gathered(p + 1, h)'
        <3>1. Len(got') = n /\ todo' = SubSeq(table, i + 1, Len(table))
            BY <1>4, <2>4
        <3> HIDE DEF i, l
        <3>2. From(got', i, g)
            BY <2>4, <2>6, <2>7, <2>8, <3>1 DEF From
        <3>3. PICK h : From(got', p + 1, h)
            BY <3>2 DEF i
        <3> QED BY <1>1, <3>1, <3>3, GatheredAfter DEF i
    <2> QED BY <1>4, <2>9
<1>11. CASE ~Usable(i)
    <2>1. at = {} \/ at # telling
        BY <1>5, <1>7, <1>11, MountsAssumption DEF Usable, S!Real, S!MountBounds
    <2>2. telling \subseteq at
        OBVIOUS
    <2>3. got' = got
        <3>1. CASE at = {}
            BY <1>6, <2>2, <3>1
        <3>2. CASE at # {}
            <4>1. telling = {}
                BY <1>7, <2>1, <3>2
            <4> QED BY <1>6, <4>1
        <3> QED BY <3>1, <3>2
    <2>4. todo' = SubSeq(table', i + 1, Len(table'))
        BY <1>1, <1>4
    <2>5. \A k \in 1..Len(got) : f[k] \in 1..i /\ Usable(f[k])
                            /\ got[k] = S!Measured(table[f[k]], table[f[k]].dev)
        BY <1>2 DEF Gathered, From
    <2>6. \A j \in 1..i : Usable(j) => \E k \in 1..Len(got) : f[k] = j
        BY <1>2, <1>11 DEF Gathered, From
    <2>7. \A k, m \in 1..Len(got) : k < m => f[k] < f[m]
        BY <1>2 DEF Gathered, From
    <2>8. Gathered(i, f)'
        BY <1>1, <1>3, <2>3, <2>4, <2>5, <2>6, <2>7, GatheredAfter DEF From
    <2> QED BY <1>4, <2>8
<1> QED BY <1>10, <1>11

LEMMA MountsStep == MountsInv /\ [S!Next]_slowVars => MountsInv'
<1> SUFFICES ASSUME MountsInv, [S!Next]_slowVars PROVE MountsInv'
    OBVIOUS
<1>1. ASSUME UNCHANGED <<table, used, todo, got, steady, reading>> PROVE MountsInv'
    <2> SUFFICES ASSUME reading, steady, NoneHidden PROVE \E p \in 0..Len(table) : \E f : Gathered(p, f)'
        BY <1>1 DEF MountsInv, NoneHidden, S!Hidden
    <2>0. PICK p \in 0..Len(table) : \E f : Gathered(p, f)
        BY DEF MountsInv
    <2>1. PICK f : Gathered(p, f)
        BY <2>0
    <2>2. Gathered(p, f)'
        BY <1>1, <2>1, GatheredAfter DEF Gathered
    <2> QED BY <2>2
<1>2. ASSUME table' \in Seq(Mountable), ~reading' \/ ~steady' PROVE MountsInv'
    BY <1>2 DEF MountsInv
<1>3. CASE S!TimePasses
    BY <1>1, <1>3 DEF S!TimePasses, S!mountVars
<1>4. CASE \E l \in Mountable : S!Mounts(l)
    BY <1>2, <1>4 DEF S!Mounts, MountsInv
<1>5. CASE \E i \in 2..Len(table) : S!Unmounts(i)
    <2>1. PICK i \in 2..Len(table) : S!Unmounts(i)
        BY <1>5
    <2>2. table \in Seq(Mountable) /\ table' = SubSeq(table, 1, i - 1) \o SubSeq(table, i + 1, Len(table))
        BY <2>1 DEF MountsInv, S!Unmounts, S!RemoveAt
    <2>3. table' \in Seq(Mountable)
        BY <2>2
    <2> QED BY <1>2, <2>1, <2>3 DEF S!Unmounts
<1>6. CASE \E d \in S!Devices : S!Writes(d)
    BY <1>2, <1>6 DEF S!Writes, MountsInv
<1>7. CASE \E i \in S!Interfaces : S!LinkChanges(i)
    BY <1>1, <1>7 DEF S!LinkChanges, S!mountVars
<1>8. CASE S!EndScan
    BY <1>2, <1>8 DEF S!EndScan, MountsInv
<1>9. CASE S!NetRound
    BY <1>1, <1>9 DEF S!NetRound, S!mountVars
<1>10. CASE UNCHANGED slowVars
    BY <1>1, <1>10 DEF slowVars
<1> QED BY <1>3, <1>4, <1>5, <1>6, <1>7, <1>8, <1>9, <1>10, BeginScanKeeps, AskNextKeeps
        DEF S!Next

-----------------------------------------------------------------------------
(* What follows *)

\* What statvfs says of a device becomes the line's numbers.
LEMMA NumbersAre ==
    ASSUME NEW l, NEW d
    PROVE  /\ S!Measured(l, d).dev = l.dev /\ S!Measured(l, d).path = l.path
           /\ S!Measured(l, d).total = Size[d] /\ S!Measured(l, d).used = used[d]
BY DEF S!Measured

\* The list has the first of each filesystem, each at one place.
LEMMA ListIs ==
    ASSUME NEW found \in Seq(Measurements)
    PROVE  LET list == S!Listed(found)
               F == S!Firsts(found)
           IN  /\ Cardinality(F) \in Nat /\ DOMAIN list = 1..Cardinality(F)
               /\ \E at \in [F -> 1..Cardinality(F)] :
                    /\ \A i, j \in F : at[i] = at[j] => i = j
                    /\ \A k \in 1..Cardinality(F) : \E i \in F : at[i] = k
                    /\ \A i \in F : list[at[i]] = found[i]
<1> DEFINE list == S!Listed(found)
           F == S!Firsts(found)
           R == {ij \in F \X F : S!Ahead(found, ij[1], ij[2])}
           place == [i \in F |-> RankIn(F, R, i)]
<1>1. F \subseteq 1..Len(found) /\ F \subseteq Nat /\ IsFiniteSet(F)
    <2>1. Len(found) \in Nat /\ DOMAIN found = 1..Len(found)
        OBVIOUS
    <2>2. F \subseteq 1..Len(found)
        BY <2>1 DEF S!Firsts
    <2>3. IsFiniteSet(1..Len(found)) /\ 1..Len(found) \subseteq Nat
        BY <2>1, FS_Interval
    <2> HIDE DEF F
    <2> QED BY <2>2, <2>3, FS_Subset
<1>2. \A i \in F : found[i].total \in Nat /\ found[i].path \in Nat
    <2> SUFFICES ASSUME NEW i \in F PROVE found[i].total \in Nat /\ found[i].path \in Nat
        OBVIOUS
    <2>1. PICK l \in Mountable, d \in S!Devices : found[i] = S!Measured(l, d)
        BY <1>1 DEF Measurements
    <2> QED BY <2>1, NumbersAre, MountsAssumption DEF S!MountBounds
<1>3. /\ \A i \in F : <<i, i>> \notin R
      /\ \A i, j \in F : i # j => <<i, j>> \in R \/ <<j, i>> \in R
      /\ \A i, j, k \in F : <<i, j>> \in R /\ <<j, k>> \in R => <<i, k>> \in R
    <2> DEFINE size(i) == found[i].total
               path(i) == found[i].path
    <2>1. \A i, j \in F : <<i, j>> \in R <=>
            \/ size(i) > size(j)
            \/ size(i) = size(j) /\ path(i) < path(j)
            \/ size(i) = size(j) /\ path(i) = path(j) /\ i < j
        BY DEF S!Ahead
    <2>2. \A i \in F : size(i) \in Nat /\ path(i) \in Nat /\ i \in Nat
        BY <1>1, <1>2
    <2> HIDE DEF R, F, size, path
    <2>3. \A i \in F : <<i, i>> \notin R
        BY <2>1, <2>2
    <2>4. \A i, j \in F : i # j => <<i, j>> \in R \/ <<j, i>> \in R
        BY <2>1, <2>2
    <2>5. \A i, j, k \in F : <<i, j>> \in R /\ <<j, k>> \in R => <<i, k>> \in R
        BY <2>1, <2>2
    <2> QED BY <2>3, <2>4, <2>5
<1>4. \A j \in F : RankIn(F, R, j) = S!Cardinality({i \in F : S!Ahead(found, i, j)}) + 1
    <2> SUFFICES ASSUME NEW j \in F PROVE {i \in F : <<i, j>> \in R} = {i \in F : S!Ahead(found, i, j)}
        BY DEF RankIn, S!Cardinality, Cardinality
    <2> QED OBVIOUS
<1>5. S!Cardinality(F) = Cardinality(F)
    BY DEF S!Cardinality, Cardinality
<1> DEFINE rank(j) == S!Cardinality({i \in F : S!Ahead(found, i, j)}) + 1
<1>6. list = [k \in 1..S!Cardinality(F) |-> found[CHOOSE j \in F : rank(j) = k]]
    BY DEF S!Listed
<1> HIDE DEF F, R, list, rank
<1>7. /\ Cardinality(F) \in Nat
      /\ \A i \in F : RankIn(F, R, i) \in 1..Cardinality(F)
      /\ \A i, j \in F : RankIn(F, R, i) = RankIn(F, R, j) => i = j
      /\ \A k \in 1..Cardinality(F) : \E i \in F : RankIn(F, R, i) = k
    <2>1. IsFiniteSet(F)
        BY <1>1
    <2> QED BY <1>3, <2>1, RankOnto
<1>8. \A i \in F : list[place[i]] = found[i]
    <2> SUFFICES ASSUME NEW i \in F PROVE list[RankIn(F, R, i)] = found[i]
        OBVIOUS
    <2>1. \A j \in F : rank(j) = RankIn(F, R, j)
        BY <1>4 DEF rank
    <2>2. \A j \in F : rank(j) = RankIn(F, R, i) <=> j = i
        BY <1>7, <2>1
    <2>3. (CHOOSE j \in F : rank(j) = RankIn(F, R, i)) = i
        BY <2>2
    <2> QED BY <1>5, <1>6, <1>7, <2>3
<1>9. DOMAIN list = 1..Cardinality(F)
    BY <1>5, <1>6
<1>10. /\ place \in [F -> 1..Cardinality(F)]
       /\ \A i, j \in F : place[i] = place[j] => i = j
       /\ \A k \in 1..Cardinality(F) : \E i \in F : place[i] = k
    BY <1>7
<1> HIDE DEF place
<1> QED BY <1>7, <1>8, <1>9, <1>10 DEF F, list

\* Of each disk the first line that is usable, if nothing was mounted over another.
ListIsTrue ==
    S!EndScan /\ steady /\ NoneHidden =>
        \A d \in S!Devices :
            LET at == {i \in DOMAIN table : S!Real(i) /\ table[i].dev = d
                                              /\ ~S!Garbled(table[i].path)}
            IN  IF at = {} THEN S!Shows(d)' = {}
                ELSE \E s \in DOMAIN mounts' :
                        /\ S!Shows(d)' = {s}
                        /\ \E i \in at :
                            /\ \A j \in at : i <= j
                            /\ mounts'[s] = S!Measured(table[i], d)

LEMMA ScanLists == MountsInv => ListIsTrue
<1> SUFFICES ASSUME MountsInv, S!EndScan, steady, NoneHidden, NEW d \in S!Devices
             PROVE  LET at == {i \in DOMAIN table : S!Real(i) /\ table[i].dev = d
                                              /\ ~S!Garbled(table[i].path)}
                    IN  IF at = {} THEN S!Shows(d)' = {}
                        ELSE \E s \in DOMAIN mounts' :
                                /\ S!Shows(d)' = {s}
                                /\ \E i \in at :
                                    /\ \A j \in at : i <= j
                                    /\ mounts'[s] = S!Measured(table[i], d)
    BY DEF ListIsTrue
<1> DEFINE at == {i \in DOMAIN table : S!Real(i) /\ table[i].dev = d
                                              /\ ~S!Garbled(table[i].path)}
           list == S!Listed(got)
           F == S!Firsts(got)
<1>1. reading /\ todo = <<>> /\ mounts' = list
    BY DEF S!EndScan
<1>0. PICK p \in 0..Len(table) : \E f : Gathered(p, f)
    BY <1>1 DEF MountsInv
<1>2. PICK f : Gathered(p, f)
    BY <1>0
<1>3. /\ table \in Seq(Mountable) /\ got \in Seq(Measurements) /\ Len(got) \in Nat
      /\ p \in Nat /\ Len(table) \in Nat
    BY <1>2 DEF Gathered, From, MountsInv
<1>4. p = Len(table)
    <2>1. SubSeq(table, p + 1, Len(table)) = <<>>
        BY <1>1, <1>2 DEF Gathered
    <2>2. p < Len(table) => Len(SubSeq(table, p + 1, Len(table))) > 0
        BY <1>3
    <2>3. Len(<<>>) = 0
        OBVIOUS
    <2> QED BY <1>3, <2>1, <2>2, <2>3
<1>5. \A i : i \in at <=> i \in 1..p /\ Usable(i) /\ table[i].dev = d
    BY <1>3, <1>4 DEF Usable
<1>6. \A k \in 1..Len(got) :
        /\ f[k] \in 1..p /\ Usable(f[k])
        /\ got[k] = S!Measured(table[f[k]], table[f[k]].dev)
        /\ got[k].dev = table[f[k]].dev
    <2>1. \A k \in 1..Len(got) :
            /\ f[k] \in 1..p /\ Usable(f[k])
            /\ got[k] = S!Measured(table[f[k]], table[f[k]].dev)
        BY <1>2 DEF Gathered, From
    <2>2. \A i : S!Measured(table[i], table[i].dev).dev = table[i].dev
        BY NumbersAre
    <2> QED BY <2>1, <2>2
<1>7. /\ \A k, m \in 1..Len(got) : k < m => f[k] < f[m]
      /\ \A i \in 1..p : Usable(i) => \E k \in 1..Len(got) : f[k] = i
    BY <1>2 DEF Gathered, From
<1>8. /\ Cardinality(F) \in Nat /\ DOMAIN list = 1..Cardinality(F)
      /\ \E place \in [F -> 1..Cardinality(F)] :
            /\ \A i, j \in F : place[i] = place[j] => i = j
            /\ \A k \in 1..Cardinality(F) : \E i \in F : place[i] = k
            /\ \A i \in F : list[place[i]] = got[i]
    BY <1>3, ListIs
<1>9. PICK place \in [F -> 1..Cardinality(F)] :
            /\ \A i, j \in F : place[i] = place[j] => i = j
            /\ \A k \in 1..Cardinality(F) : \E i \in F : place[i] = k
            /\ \A i \in F : list[place[i]] = got[i]
    BY <1>8
<1>10. S!Shows(d)' = {s \in 1..Cardinality(F) : list[s].dev = d}
    BY <1>1, <1>8 DEF S!Shows
<1>11. F \subseteq 1..Len(got)
    BY <1>3 DEF S!Firsts
<1>12. ASSUME NEW s \in 1..Cardinality(F), list[s].dev = d
       PROVE  \E k \in F : place[k] = s /\ f[k] \in at
    <2>1. PICK k \in F : place[k] = s
        BY <1>9
    <2>2. got[k].dev = d
        BY <1>9, <1>12, <2>1
    <2> QED BY <1>5, <1>6, <1>11, <2>1, <2>2
<1>13. CASE at = {}
    <2> HIDE DEF at, F, list
    <2>1. S!Shows(d)' = {}
        BY <1>10, <1>12, <1>13
    <2> QED BY <1>13, <2>1 DEF at
<1>14. CASE at # {}
\* The first of the lines of this disk, and what was found out of it.
    <2>1. PICK i \in at : \A j \in at : i <= j
        <3>1. at \in SUBSET Nat
            BY <1>5
        <3>2. PICK i \in at : \A j \in at : <<j, i>> \notin OpToRel(<, Nat)
            <4> HIDE DEF at
            <4> QED BY <1>14, <3>1, NatLessThanWellFounded, WFMin, Zenon
        <3>3. \A j \in at : ~(j < i) /\ j \in Nat /\ i \in Nat
            BY <3>1, <3>2 DEF OpToRel
        <3> QED BY <3>3
    <2>2. PICK k \in 1..Len(got) : f[k] = i
        BY <1>5, <1>7, <2>1
    <2>3. got[k] = S!Measured(table[i], d) /\ got[k].dev = d
        BY <1>5, <1>6, <2>1, <2>2
    <2>4. \A m \in 1..Len(got) : got[m].dev = d => ~(m < k)
        <3> SUFFICES ASSUME NEW m \in 1..Len(got), got[m].dev = d, m < k PROVE FALSE
            OBVIOUS
        <3>1. f[m] \in at /\ f[m] < i
            BY <1>5, <1>6, <1>7, <2>2
        <3>2. i <= f[m] /\ i \in Nat /\ f[m] \in Nat
            BY <1>5, <2>1, <3>1
        <3> QED BY <3>1, <3>2
    <2>5. \A m \in 1..Len(got) : got[m].dev = d =>
            /\ got[m].total = got[k].total /\ got[m].used = got[k].used
        BY <1>6, <2>3, NumbersAre
    <2>6. k \in F
        <3>1. \A m \in 1..(k - 1) : m \in 1..Len(got) /\ m < k
            BY <1>3
        <3>2. \A m \in 1..(k - 1) : ~S!SameFilesystem(got[m], got[k])
            BY <2>3, <2>4, <3>1 DEF S!SameFilesystem
        <3> QED BY <1>3, <3>2 DEF S!Firsts
    <2>7. \A m \in F : got[m].dev = d => m = k
        <3> SUFFICES ASSUME NEW m \in F, got[m].dev = d, m # k PROVE FALSE
            OBVIOUS
        <3>1. m \in 1..Len(got) /\ k < m
            BY <1>3, <1>11, <2>4
        <3>2. S!SameFilesystem(got[k], got[m])
            BY <2>3, <2>5, <3>1 DEF S!SameFilesystem
        <3>3. k \in 1..(m - 1)
            BY <1>3, <3>1
        <3> QED BY <3>2, <3>3 DEF S!Firsts
    <2> DEFINE s == place[k]
    <2>8. s \in 1..Cardinality(F) /\ list[s] = S!Measured(table[i], d) /\ list[s].dev = d
        BY <1>9, <2>3, <2>6
    <2>9. \A z \in 1..Cardinality(F) : list[z].dev = d => z = s
        <3> SUFFICES ASSUME NEW z \in 1..Cardinality(F), list[z].dev = d PROVE z = s
            OBVIOUS
        <3>1. PICK m \in F : place[m] = z
            BY <1>9
        <3>2. got[m].dev = d
            BY <1>9, <3>1
        <3> QED BY <2>7, <3>1, <3>2
    <2> HIDE DEF F, list, s
    <2>10. S!Shows(d)' = {s} /\ s \in DOMAIN mounts' /\ mounts'[s] = S!Measured(table[i], d)
        BY <1>1, <1>8, <1>10, <2>8, <2>9
    <2> QED BY <1>14, <2>1, <2>10
<1> QED BY <1>13, <1>14

LEMMA MountsStart == S!Init => MountsInv
<1> SUFFICES ASSUME S!Init PROVE MountsInv
    OBVIOUS
<1>1. PICK l \in Mountable : table = <<l>>
    BY DEF S!Init
<1>2. table \in Seq(Mountable) /\ ~reading
    BY <1>1 DEF S!Init
<1> QED BY <1>2 DEF MountsInv

LEMMA CollectorsReadMounts == CollectorsSpec => S!Spec
<1>1. CollectorsInit => S!Init
    BY DEF CollectorsInit
<1>2. [CollectorsNext]_allVars => [S!Next]_S!vars
    BY DEF CollectorsNext, allVars, slowVars, S!vars, S!mountVars, S!linkVars
<1> QED BY <1>1, <1>2, PTL DEF CollectorsSpec, S!Spec

\* However filesystems come, go and are mounted again elsewhere: a list put
\* together while nothing changed, and with nothing mounted over another, has
\* each of them once, at the first of its paths that can be read, with its own
\* numbers (scan_mounts, dedupe_bind_mounts).
THEOREM FilesystemsAreOwn == CollectorsSpec => FilesystemsAreTrue
<1>1. CollectorsSpec => []MountsInv
    <2>1. MountsInv /\ [S!Next]_S!vars => MountsInv'
        BY MountsStep DEF slowVars, S!vars, S!mountVars, S!linkVars
    <2> QED BY <2>1, MountsStart, CollectorsReadMounts, PTL DEF S!Spec
<1>2. MountsInv => ListIsTrue
    BY ScanLists
<1>3. CollectorsSpec => [][ListIsTrue]_S!vars
    <2> HIDE DEF ListIsTrue
    <2> QED BY <1>1, <1>2, PTL
<1>4. ListIsTrue => (S!EndScan /\ steady /\ (\A i \in DOMAIN table : ~S!Hidden(i)) =>
        \A d \in S!Devices :
            LET at == {i \in DOMAIN table : S!Real(i) /\ table[i].dev = d
                                              /\ ~S!Garbled(table[i].path)}
            IN  IF at = {} THEN S!Shows(d)' = {}
                ELSE \E s \in DOMAIN mounts' :
                        /\ S!Shows(d)' = {s}
                        /\ \E i \in at :
                            /\ \A j \in at : i <= j
                            /\ mounts'[s] = S!Measured(table[i], d))
    BY DEF ListIsTrue, NoneHidden
<1> QED BY <1>3, <1>4, PTL DEF FilesystemsAreTrue, S!FilesystemsAreTrue, ListIsTrue, NoneHidden
=============================================================================
