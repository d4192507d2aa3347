------------------------------ MODULE Describe ------------------------------
(***************************************************************************)
(* What Explain has to say of a target, on a machine as Pages has it: how  *)
(* many lines each part of the text has, in the order in which they are    *)
(* shown. Of a machine m this also asks                                    *)
(*   physical, clocks, hot   the number of physical cores, some core's     *)
(*                clock, and some core's temperature are known             *)
(*   swap, states, memoryLimited   swap is set up; states processes are    *)
(*                in; a cgroup limits the memory                           *)
(* of a card its maker, processes and whether their list is complete, of   *)
(* an interface its addresses and whether it is virtual, of a process      *)
(* whether it is another user's, and of a core (m.places) whether its      *)
(* place in the machine is known and shared.                               *)
(***************************************************************************)
EXTENDS FocusTree

Text(summary, current, formula, source, how, pitfalls, commands, related, permission) ==
    <<summary, current, formula, source, how, pitfalls, commands, related, permission>>

\* compose: a part with something in it has a heading, and an empty line above
\* unless it is the first. The related are on one line.
Lines(text) ==
    LET parts == {i \in 1..9 : text[i] \in Nat \ {0}}
    IN  SumFunctionOnSet(text, parts) + 2 * Cardinality(parts) - 1

-----------------------------------------------------------------------------
(* knowledge: by metric the number of sources, pitfalls and commands *)

Article(sources, pitfalls, commands) ==
    [sources |-> sources, pitfalls |-> pitfalls, commands |-> commands]

CgroupArticles ==
    [id \in {"cgroup.cpu", "cgroup.memory"} |->
        IF id = "cgroup.cpu" THEN Article(2, 3, 2) ELSE Article(2, 2, 2)]

CpuArticles ==
    [id \in {"cpu.ctxt", "cpu.forks", "cpu.freq", "cpu.intr", "cpu.iowait", "cpu.load",
             "cpu.load_per_core"} |->
        CASE id \in {"cpu.freq", "cpu.load_per_core"} -> Article(2, 4, 3)
          [] id = "cpu.intr"                          -> Article(1, 5, 4)
          [] id \in {"cpu.iowait", "cpu.load"}        -> Article(1, 4, 3)
          [] id = "cpu.ctxt"                          -> Article(1, 3, 2)
          [] id = "cpu.forks"                         -> Article(1, 2, 2)]

\* The CPU's other ones.
MoreCpuArticles ==
    [id \in {"cpu.logical", "cpu.model", "cpu.running_blocked", "cpu.steal", "cpu.temp",
             "cpu.usage"} |->
        CASE id = "cpu.logical"                             -> Article(1, 5, 4)
          [] id \in {"cpu.model", "cpu.running_blocked"}    -> Article(1, 3, 2)
          [] id = "cpu.steal"                               -> Article(1, 3, 3)
          [] id = "cpu.temp"                                -> Article(2, 4, 2)
          [] id = "cpu.usage"                               -> Article(1, 4, 4)]

MemoryArticles ==
    [id \in {"mem.available", "mem.cached", "mem.swap", "mem.used"} |->
        IF id = "mem.available" THEN Article(1, 3, 2) ELSE Article(1, 3, 3)]

DiskArticles ==
    [id \in {"disk.inodes", "disk.iops", "disk.throughput", "disk.usage", "disk.util"} |->
        CASE id = "disk.usage"      -> Article(1, 4, 4)
          [] id = "disk.throughput" -> Article(1, 3, 3)
          [] OTHER                  -> Article(1, 3, 2)]

GpuArticles ==
    [id \in {"gpu.clock", "gpu.fan", "gpu.intel_util", "gpu.pcie", "gpu.power", "gpu.process",
             "gpu.pstate", "gpu.temp", "gpu.util", "gpu.vram"} |->
        CASE id \in {"gpu.clock", "gpu.temp"}          -> Article(2, 2, 2)
          [] id = "gpu.fan"                            -> Article(2, 5, 2)
          [] id \in {"gpu.intel_util", "gpu.vram"}     -> Article(1, 4, 2)
          [] id = "gpu.pcie"                           -> Article(1, 2, 2)
          [] id \in {"gpu.power", "gpu.process"}       -> Article(1, 3, 2)
          [] id = "gpu.pstate"                         -> Article(1, 2, 1)
          [] id = "gpu.util"                           -> Article(1, 4, 4)]

NetworkArticles ==
    [id \in {"net.errors", "net.ip", "net.mac", "net.sockets", "net.throughput"} |->
        CASE id = "net.errors"     -> Article(1, 3, 3)
          [] id = "net.ip"         -> Article(1, 4, 3)
          [] id = "net.mac"        -> Article(1, 4, 2)
          [] id = "net.sockets"    -> Article(2, 3, 3)
          [] id = "net.throughput" -> Article(1, 3, 4)]

ProcessArticles ==
    [id \in {"proc.count", "proc.cpu", "proc.rss", "proc.state", "proc.threads", "proc.virt"} |->
        CASE id = "proc.count"                    -> Article(1, 2, 3)
          [] id \in {"proc.cpu", "proc.rss"}      -> Article(1, 3, 3)
          [] id \in {"proc.state", "proc.virt"}   -> Article(1, 3, 2)
          [] id = "proc.threads"                  -> Article(1, 2, 2)]

StorageArticle == [id \in {"storage.user"} |-> Article(1, 4, 3)]

SystemArticles ==
    [id \in {"sys.highlights", "sys.uptime"} |->
        IF id = "sys.highlights" THEN Article(4, 4, 4) ELSE Article(1, 3, 4)]

Tables == <<CgroupArticles, CpuArticles, MoreCpuArticles, MemoryArticles, DiskArticles,
            GpuArticles, NetworkArticles, ProcessArticles, StorageArticle, SystemArticles>>

Articles ==
    [id \in UNION {DOMAIN Tables[i] : i \in DOMAIN Tables} |->
        Tables[CHOOSE i \in DOMAIN Tables : id \in DOMAIN Tables[i]][id]]

\* lookup
IsKnown(id) == id \in DOMAIN Articles

-----------------------------------------------------------------------------
(* for_metric: lines of what a metric is on this machine *)

OneIf(condition) == IF condition THEN 1 ELSE 0
Count(s, Test(_)) == Len(SelectSeq(s, Test))

CgroupFields(id, m) ==
    IF id = "cgroup.cpu" THEN 1 + OneIf(m.limited) ELSE 1 + OneIf(m.memoryLimited)

CpuFields(id, m) ==
    CASE id \in {"cpu.usage", "cpu.model", "cpu.load_per_core"} -> 3
      [] id = "cpu.logical" -> 3 + OneIf(m.physical)
      [] id = "cpu.freq"    -> 1 + OneIf(m.clocks)
      [] id = "cpu.temp"    -> 1 + 3 * OneIf(m.hot)
      [] id \in {"cpu.steal", "cpu.ctxt", "cpu.forks"} -> 1
      [] OTHER              -> 2

MemoryFields(id, m) ==
    CASE id = "mem.cached"    -> 3
      [] id = "mem.swap"      -> 1 + OneIf(m.swap)
      [] OTHER                -> 2

DiskFields(id, m) ==
    CASE id \in {"disk.usage", "disk.inodes"} -> Len(m.mounts)
      [] id = "disk.throughput"               -> 2
      [] id \in {"disk.iops", "disk.util"}    -> Len(m.disks)

NetworkFields(id, m) ==
    CASE id = "net.throughput"           -> 2
      [] id \in {"net.mac", "net.ip"}    -> Len(m.ifaces)
      [] id = "net.errors"               -> Count(m.ifaces, LAMBDA i : ~i.virtual)
      [] id = "net.sockets"              -> 4

\* The processes on the cards, with a line for a list that is not complete.
ProcessesOnCards(m) ==
    FoldLeft(LAMBDA n, card : IF card.procs = 0 THEN n ELSE n + card.procs + OneIf(~card.complete),
             0, m.gpus)

GpuFields(id, m) ==
    IF id = "gpu.process" THEN Larger(ProcessesOnCards(m), 1) ELSE Len(m.gpus)

ProcessFields(id, m) ==
    CASE id = "proc.count" -> 2
      [] id = "proc.state" -> Smaller(m.states, 6)
      [] OTHER             -> Smaller(Len(m.procs), 5)

SystemFields(id) == IF id = "sys.uptime" THEN 2 ELSE 0

Fields(id, m) ==
    CASE id \in DOMAIN CgroupArticles  -> CgroupFields(id, m)
      [] id \in DOMAIN CpuArticles \cup DOMAIN MoreCpuArticles -> CpuFields(id, m)
      [] id \in DOMAIN MemoryArticles  -> MemoryFields(id, m)
      [] id \in DOMAIN DiskArticles    -> DiskFields(id, m)
      [] id \in DOMAIN NetworkArticles -> NetworkFields(id, m)
      [] id \in DOMAIN GpuArticles     -> GpuFields(id, m)
      [] id \in DOMAIN ProcessArticles -> ProcessFields(id, m)
      [] id \in DOMAIN StorageArticle  -> 1
      [] id \in DOMAIN SystemArticles  -> SystemFields(id)

\* describe_metric, from_definition; of the cards' metrics the source is what
\* is in use here (runtime_gpu_source). An unknown metric is an internal error.
AboutMetric(id, m) ==
    LET inUse == id \in DOMAIN GpuArticles /\ m.gpus # <<>>
    IN  IF ~IsKnown(id) THEN Text(1, 0, 0, 0, 0, 0, 0, 0, 0)
        ELSE Text(1, Fields(id, m), 1,
                  IF inUse THEN Len(m.gpus) ELSE Articles[id].sources, OneIf(inUse),
                  Articles[id].pitfalls, Articles[id].commands, 1, 0)

-----------------------------------------------------------------------------
(* entity: a thing is looked up when it is told of, and may be gone *)

JustSummary == Text(1, 0, 0, 0, 0, 0, 0, 0, 0)

\* Slip: a process is known by its number.
SameProcessId(p, t) == p.pid = t.name

\* A number may have come to another process.
SameProcess(p, t) == p.pid = t.name /\ p.since = t.nr

\* The process told of, as a sequence of at most one.
ProcessTold(t, m) ==
    LET same == {i \in DOMAIN m.procs : SameProcess(m.procs[i], t)}
    IN  IF same = {} THEN <<>> ELSE <<m.procs[Min(same)]>>

AboutProcess(t, m) ==
    LET told == ProcessTold(t, m)
    IN  IF told = <<>> THEN Text(1, 1, 0, 1, 0, 1, 1, 0, 0)
        ELSE Text(1, 11, 0, 3, 1, 4, 3, 1, OneIf(told[1].foreign))

AboutInterface(i) == Text(1, 8 + Larger(i.addresses, 1), 0, 5, 1, 3, 3, 1, 0)

\* Pitfalls and commands go by the maker. Five readings always have a line.
AboutGpu(card) ==
    Text(1, 11 + Cardinality(card.has \cap {"driver", "pstate", "range", "pcie"}), 0, 1, 1,
         CASE card.maker = "NVIDIA" -> 4 [] card.maker = "Intel" -> 3 [] card.maker = "AMD" -> 1,
         CASE card.maker = "NVIDIA" -> 5 [] card.maker = "Intel" -> 4 [] card.maker = "AMD" -> 3,
         1, OneIf(~card.complete /\ card.procs > 0))

AboutMount == Text(1, 8, 1, 2, 1, 3, 4, 1, 0)
AboutDisk == Text(1, 9, 1, 5, 0, 3, 3, 1, 0)

\* cpu_core: m.places has what is known of the place of each.
AboutCore(i, m) ==
    IF i >= m.cores THEN Text(1, 1, 0, 0, 0, 0, 0, 0, 0)
    ELSE LET place == m.places[i + 1]
         IN  Text(1, 3 + OneIf(place.hot) + OneIf(place.known) + OneIf(place.known /\ place.shared),
                  1, 3, 0, 3, 3, 1, 0)

\* Entities on a list are found by name.
OfList(list, name, About(_)) ==
    LET found == SelectSeq(list, LAMBDA x : x.name = name)
    IN  IF found = <<>> THEN JustSummary ELSE About(found[1])

AboutThing(t, m) ==
    CASE t.kind = "process"   -> AboutProcess(t, m)
      [] t.kind = "interface" -> OfList(m.ifaces, t.name, AboutInterface)
      [] t.kind = "gpu"       -> OfList(m.gpus, t.name, AboutGpu)
      [] t.kind = "mount"     -> IF t.name \in ToSet(m.mounts) THEN AboutMount ELSE JustSummary
      [] t.kind = "disk"      -> OfList(m.disks, t.name, LAMBDA d : AboutDisk)
      [] t.kind = "core"      -> AboutCore(t.nr, m)

\* describe
About(t, m) == IF t.kind = "metric" THEN AboutMetric(t.name, m) ELSE AboutThing(t, m)
=============================================================================
