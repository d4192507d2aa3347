-------------------------------- MODULE Pages --------------------------------
(***************************************************************************)
(* What each page registers, for a terminal of a given size and a machine  *)
(* of a given make. Of what a page writes only the room it takes is here.  *)
(*                                                                         *)
(* A machine m is a record of what the pages depend on:                    *)
(*   highlights   for each, in order, its width and what it tells of       *)
(*   cores        logical processors                                       *)
(*   heatmap      the user asked for the heat map                          *)
(*   unread       readings of the CPU not yet known, by metric             *)
(*   limited      a cgroup limits the CPU                                  *)
(*   diagnostics  lines of NVIDIA diagnostics, -1 when the driver works    *)
(*   gpus         for each card its name, maker, and the readings it has   *)
(*   mounts       names of the filesystems                                 *)
(*   disks        for each disk its name, and the readings not yet known   *)
(*   ifaces       for each interface its name                              *)
(*   procs        processes that pass the filter, in order: pid, start     *)
(*   unlocked     the administrator page is unlocked                       *)
(*   users        for each administrator tab the length of its list        *)
(*   detail       a user's storage detail is open                          *)
(***************************************************************************)
EXTENDS FocusTree

\* app.rs: VIEWS, ADMIN_TABS (the width of each title with its blanks).
Views == <<"overview", "cpu", "memory", "gpu", "storage", "network", "process", "admin">>
TabWidths == <<14, 13, 11, 9>>
AllTabs == DOMAIN TabWidths

\* EntityRef, as far as pages tell of them; what a machine may be.
Entities == {"process", "interface", "gpu", "mount", "disk", "core"}
IsEntity(t) == t.kind \in Entities /\ t = Thing(t.kind, t.name, t.nr)
IsList(s) == s \in Seq(ToSet(s))
IsMachine(m) ==
    /\ m.cores \in Nat
    /\ IsList(m.highlights) /\ IsList(m.gpus) /\ IsList(m.mounts)
    /\ IsList(m.disks) /\ IsList(m.ifaces) /\ IsList(m.procs)
    /\ \A i \in DOMAIN m.highlights :
         m.highlights[i].tells = Metric("sys.highlights") \/ IsEntity(m.highlights[i].tells)

DivUp(a, b) == (a + b - 1) \div b
Plain(rect, id) == Panel(rect, FALSE, Metric(id), <<>>)
Plains(rects, ids) == [i \in DOMAIN ids |-> Plain(rects[i], ids[i])]

\* Lines about metrics; one whose reading is not known yet names none.
MetricKeys(ids, unread) ==
    [i \in DOMAIN ids |-> IF ids[i] \in unread THEN NoTarget ELSE Metric(ids[i])]

\* Slip: the last panel of a column keeps its height.
StackingUncut(r, each, i) == Rect(r.x, r.y + (i - 1) * each, r.w, each)

\* How far the panels of a column have come, when each takes `each' lines.
Stacking(r, each, i) ==
    LET y == r.y + (i - 1) * each
    IN  Rect(r.x, y, r.w, Smaller(each, Minus(r.y + r.h, y)))

-----------------------------------------------------------------------------
(* Overview *)

\* Density::of
Density(a) ==
    CASE a.w < 50 \/ a.h < 12 -> "too small"
      [] a.w >= 132 /\ a.h >= 26 -> "wide"
      [] a.w \in 96..131 /\ a.h >= 30 -> "tall"
      [] OTHER -> "compact"

\* reserve_strip
HasStrip(a) == a.h >= 21

\* highlights_strip: the heading takes 14 columns, 5 lie between two items, and
\* an item that does not fit ends the strip.
HighlightLines(a, items) ==
    [i \in DOMAIN items |->
        LET before == FoldLeft(LAMBDA w, item : w + item.width, 0, SubSeq(items, 1, i - 1))
            rect == Rect(a.x + 14 + before + 5 * (i - 1), a.y, items[i].width, 1)
        IN  Cell(Where(rect.x + rect.w <= a.x + a.w, rect), items[i].tells)]

Strip(a, m) ==
    LET rect == Where(HasStrip(a) /\ a.w >= 24 /\ m.highlights # <<>>, Below(a, a.h - 1))
    IN  <<Panel(rect, TRUE, Metric("sys.highlights"), HighlightLines(rect, m.highlights))>>

AboveStrip(a) == IF HasStrip(a) THEN Top(a, a.h - 1) ELSE a

\* Registered from the CPU to the processes, whichever column they are in.
Summaries == <<"cpu.usage", "mem.used", "gpu.util", "disk.usage", "net.throughput", "proc.cpu">>
OverviewPage(a, m) ==
    LET above == AboveStrip(a)
        halves == Cols(above, <<1, 1>>)
        left == Rows(halves[1], <<5, 4, 4>>)
        right == Rows(halves[2], <<3, 4, 5>>)
    IN  CASE Density(a) = "wide" ->
               Plains(<<left[1], right[1], left[2], right[2], left[3], right[3]>>, Summaries)
                 \o Strip(a, m)
          [] Density(a) = "tall" -> Plains(Rows(above, <<5, 3, 4, 3, 3, 4>>), Summaries)
                                      \o Strip(a, m)
          [] Density(a) = "compact" -> Plains(Rows(a, <<4, 3, 3, 4>>),
                                              <<"cpu.usage", "mem.used", "gpu.util", "proc.cpu">>)
          [] Density(a) = "too small" -> <<>>

-----------------------------------------------------------------------------
(* CPU *)

\* CPUs are numbered from 0.
Core(i) == Thing("core", "", i - 1)

\* render_core_heatmap: at most 16 cells of 3 columns in a row, more when the
\* rows would not do, after 4 columns for the number of the first.
HeatmapCells(r, n) ==
    LET fit == Larger(Minus(r.w, 4) \div 3, 1)
        height == Larger(Minus(r.h, 2), 1)
        wanted == Clamp(Smaller(fit, n), 1, 16)
        perRow == IF DivUp(n, wanted) > height
                  THEN Larger(Smaller(DivUp(n, height), fit), wanted)
                  ELSE wanted
    IN  [i \in 1..(IF r.w < 12 THEN 0 ELSE n) |->
            LET row == (i - 1) \div perRow
                rect == Rect(r.x + 4 + 3 * ((i - 1) % perRow), r.y + row, 3, 1)
            IN  Cell(Where(row < height /\ rect.x + 3 <= r.x + r.w, rect), Core(i))]

\* One bar for each processor, in two columns where there is room.
CoreBars(r, n) ==
    LET columns == IF r.w >= 64 THEN 2 ELSE 1
        width == r.w \div columns
    IN  [i \in 1..n |->
            Cell(Where(i <= columns * r.h,
                       Rect(r.x + ((i - 1) \div r.h) * width, r.y + ((i - 1) % r.h),
                            Minus(width, 1), 1)), Core(i))]

CoreLines(r, m) ==
    LET needed == DivUp(m.cores, IF r.w >= 64 THEN 2 ELSE 1)
    IN  IF r.w < 20 \/ r.h = 0 THEN <<>>
        ELSE IF m.heatmap \/ (needed > r.h /\ m.cores >= 8) THEN HeatmapCells(r, m.cores)
        ELSE CoreBars(r, m.cores)

CoreStatistics(m) ==
    MetricKeys(<<"cpu.model", "cpu.logical", "cpu.freq", "cpu.temp", "cpu.load",
                 "cpu.load_per_core", "cpu.iowait", "cpu.steal", "cpu.ctxt", "cpu.intr",
                 "cpu.forks", "cpu.running_blocked", "sys.uptime">>
                   \o IF m.limited THEN <<"cgroup.cpu">> ELSE <<>>, m.unread)

GraphHeight(a) == Clamp(a.h \div 3, 6, 12)

CpuPage(a, m) ==
    LET graph == Top(a, GraphHeight(a))
        halves == Cols(Below(a, GraphHeight(a)), <<11, 9>>)
        stats == Top(halves[2], halves[2].h \div 2)
        consumers == Below(halves[2], halves[2].h \div 2)
    IN  <<Plain(graph, "cpu.usage"),
          Panel(halves[1], FALSE, Metric("cpu.freq"), CoreLines(Content(halves[1]), m)),
          Panel(stats, FALSE, Metric("cpu.load"), KeyLines(Content(stats), CoreStatistics(m))),
          Plain(consumers, "proc.cpu")>>

-----------------------------------------------------------------------------
(* Memory *)

MemoryPage(a) ==
    LET graphs == Cols(Top(a, GraphHeight(a)), <<1, 1>>)
        rest == Below(a, GraphHeight(a))
        composition == IF rest.h >= 14 THEN 6 ELSE 5
    IN  Plains(graphs \o <<Top(rest, composition)>> \o Cols(Below(rest, composition), <<11, 9>>),
               <<"mem.used", "mem.swap", "mem.cached", "mem.available", "proc.rss">>)

-----------------------------------------------------------------------------
(* GPU *)

\* The lines of a card: a reading it does not have takes none.
CardKeys(card) ==
    LET lines == << <<"temp", "gpu.temp">>, <<"power", "gpu.power">>, <<"clock", "gpu.clock">>,
                    <<"range", "gpu.clock">>, <<"memory clock", "gpu.clock">>, <<"fan", "gpu.fan">>,
                    <<"pstate", "gpu.pstate">>, <<"pcie", "gpu.pcie">>,
                    <<"estimated", "gpu.intel_util">> >>
        had == Picked(lines, {i \in DOMAIN lines : lines[i][1] \in card.has})
    IN  MetricKeys([i \in DOMAIN had |-> had[i][2]] \o <<"gpu.process">>, {})

\* The readings of a card stand in the right part of its panel.
CardLines(r, card) ==
    LET right == Cols(r, <<11, 9>>)[2]
    IN  KeyLines(Rect(right.x + 2, right.y, Minus(right.w, 2), right.h), CardKeys(card))

\* Each card takes its part of the page, from 7 to 11 lines; the last may have
\* fewer, and one with fewer than 5 is left out.
Cards(r, cards) ==
    LET each == Smaller(Larger(r.h \div Len(cards), 7), 11)
    IN  [i \in DOMAIN cards |->
            LET rect == Stacking(r, each, i)
            IN  Panel(Where(rect.h >= 5, rect), FALSE, Named("gpu", cards[i].name),
                      CardLines(Content(rect), cards[i]))]

GpuPage(a, m) ==
    LET height == IF m.diagnostics = -1 THEN 0
                  ELSE Larger(Smaller(m.diagnostics + 4, a.h \div 2), 5)
        rest == Below(a, height)
    IN  <<Plain(Top(a, height), "gpu.util")>>
          \o IF m.gpus = <<>>
             THEN <<Panel(rest, FALSE, Metric("gpu.util"),
                          KeyLines(Content(rest), <<Metric("gpu.util")>>))>>
             ELSE Cards(rest, m.gpus)

-----------------------------------------------------------------------------
(* Storage *)

\* Below the heading, as many as there is room for: this list does not scroll.
MountLines(r, mounts) ==
    [i \in DOMAIN mounts |-> Cell(Where(i < r.h, Line(r, i)), Named("mount", mounts[i]))]

\* At most 3 disks, of 6 to 8 lines; the last may have 5.
Disks(r, disks) ==
    LET each == Smaller(Larger(r.h \div Smaller(Len(disks), 3), 6), 8)
    IN  [i \in DOMAIN disks |->
            LET rect == Stacking(r, each, i)
            IN  Panel(Where(i <= 3 /\ rect.h >= 5, rect), FALSE, Named("disk", disks[i].name),
                      KeyLines(Cols(Content(rect), <<4, 4, 3>>)[3],
                               MetricKeys(<<"disk.throughput", "disk.throughput",
                                            "disk.iops", "disk.util">>, disks[i].unread)))]

StoragePage(a, m) ==
    LET height == Larger(Smaller(Len(m.mounts) + 4, a.h \div 2), 5)
        mounts == Top(a, height)
    IN  <<Panel(mounts, TRUE, Metric("disk.usage"), MountLines(Content(mounts), m.mounts))>>
          \o Disks(Below(a, height), m.disks)

-----------------------------------------------------------------------------
(* Network *)

\* Traffic, errors and address of the card on the left, the first of its
\* network addresses on the right.
InterfaceLines(r) ==
    LET parts == Cols(r, <<5, 4>>)
        keys == <<"net.throughput", "net.throughput", "net.errors", "net.mac">>
    IN  KeyLines(parts[1], MetricKeys(keys, {})) \o KeyLines(parts[2], <<Metric("net.ip")>>)

Interfaces(r, ifaces) ==
    [i \in DOMAIN ifaces |->
        LET rect == Stacking(r, 6, i)
        IN  Panel(Where(rect.h >= 5, rect), FALSE, Named("interface", ifaces[i].name),
                  InterfaceLines(Content(rect)))]

\* The graph is one mirrored panel where there is room, two otherwise.
NetworkPage(a, m) ==
    LET height == Clamp(a.h \div 4, 5, 12)
        graph == Top(a, height)
        rest == Below(a, height)
        graphs == IF graph.h >= 6 /\ graph.w >= 40 THEN <<graph>> ELSE Cols(graph, <<1, 1>>)
        sockets == Below(rest, Minus(rest.h, 6))
        about == Metric("net.sockets")
    IN  [i \in DOMAIN graphs |-> Plain(graphs[i], "net.throughput")]
          \o Interfaces(Top(rest, Minus(rest.h, 6)), m.ifaces)
          \o <<Panel(Where(sockets.h >= 3, sockets), FALSE, about,
                     KeyLines(Content(sockets), [i \in 1..5 |-> about]))>>

-----------------------------------------------------------------------------
(* Processes *)

\* Lines of processes below the heading.
VisibleProcesses(a) == Minus(Content(a).h, 1)

\* set_scroll_bound; no bound is set where no list is drawn.
ScrollBound(view, a, m) ==
    IF view = "process" /\ VisibleProcesses(a) > 0 THEN Minus(Len(m.procs), VisibleProcesses(a)) ELSE 0

ProcessPage(a, m, scroll) ==
    LET start == Smaller(scroll, Minus(Len(m.procs), VisibleProcesses(a)))
        Told(i) == Thing("process", m.procs[start + i].pid, m.procs[start + i].since)
    IN  <<Panel(a, TRUE, Metric("proc.cpu"),
                [i \in 1..Smaller(Len(m.procs), VisibleProcesses(a)) |->
                    Cell(Line(Content(a), i), Told(i))])>>

-----------------------------------------------------------------------------
(* Administrator page *)

TabTells == <<"storage.user", "proc.rss", "gpu.vram", "net.sockets">>

TabX(r, t) == r.x + 1 + FoldLeft(+, 0, SubSeq(TabWidths, 1, t - 1)) + (t - 1)

\* render_tabs: the open tab is a list, and a tab that does not fit is left out.
TabsIn(r, open) ==
    LET shown == {t \in AllTabs : TabX(r, t) + TabWidths[t] <= r.x + r.w}
    IN  [t \in 1..Cardinality(shown) |->
            Region(Rect(TabX(r, t), r.y, TabWidths[t], 1), Root, t = open, NoIndex, t,
                   Metric(TabTells[t]))]

\* window(): the part of n users that shows the selected one.
WindowStart(selected, n, visible) ==
    Smaller(Minus(selected, visible \div 2), Minus(n, visible))

\* add_row for each user in the window; the first line is the heading.
UserRows(regs, parent, area, visible, n, selected, id) ==
    LET start == WindowStart(selected, n, visible)
    IN  regs \o [i \in 1..Smaller(visible, n - start) |->
                    Region(Line(area, i), parent, FALSE, start + i - 1, NoTab, Metric(id))]

\* Room is made for the grid of shares (5 lines) and for the detail of a user.
StorageTab(regs, parent, r, m, selected, decorated) ==
    LET listed == IF m.detail /\ r.h > 10 THEN Top(r, r.h \div 2) ELSE r
        grid == decorated /\ m.users[1] >= 2 /\ r.h >= 14 /\ listed.h > 8
        area == IF grid THEN Top(listed, listed.h - 5) ELSE listed
    IN  UserRows(regs, parent, area, Minus(area.h, 1), m.users[1], selected, TabTells[1])

MemoryTab(regs, parent, r, m, selected) ==
    UserRows(regs, parent, r, Minus(r.h, 1), m.users[2], selected, TabTells[2])

\* The lower half is the list of processes.
GpuTab(regs, parent, r, m, selected) ==
    LET area == Top(r, r.h \div 2)
    IN  UserRows(regs, parent, area, Minus(area.h, 1), m.users[3], selected, TabTells[3])

\* The last line is kept for a note.
SocketTab(regs, parent, r, m, selected) ==
    UserRows(regs, parent, r, Minus(r.h, 2), m.users[4], selected, TabTells[4])

\* The rows hang on the open tab, or on a panel of their own when that tab is
\* not shown.
OpenTab(regs, body, m, tab, selected, decorated) ==
    LET parent == IF Exists(regs, tab) THEN tab ELSE Len(regs) + 1
        shown == IF Exists(regs, tab) THEN regs
                 ELSE Append(regs, Region(body, Root, TRUE, NoIndex, tab, Metric(TabTells[tab])))
        r == Content(body)
    IN  CASE tab = 1 -> StorageTab(shown, parent, r, m, selected, decorated)
          [] tab = 2 -> MemoryTab(shown, parent, r, m, selected)
          [] tab = 3 -> GpuTab(shown, parent, r, m, selected)
          [] tab = 4 -> SocketTab(shown, parent, r, m, selected)

AdminPage(a, m, tab, selected, decorated) ==
    IF m.unlocked
    THEN OpenTab(TabsIn(Top(Below(a, 1), 1), tab), Below(a, 2), m, tab, selected, decorated)
    ELSE Register(<<Plain(a, "storage.user")>>)

-----------------------------------------------------------------------------
(* draw *)

\* chrome: two lines above, one below; another for the frame's name if there is
\* room.
Body(size) == Rect(0, 2, size.w, size.h - 3)
Drawable(size) == IF Body(size).h > 6 THEN Top(Body(size), Body(size).h - 1) ELSE Body(size)

\* Decoration::resolve: at least Minimal, with the setting as it comes.
Decorated(size) == size.w >= 90 /\ size.h >= 22

\* render_body
PanelsOf(view, a, m, scroll) ==
    CASE view = "overview" -> OverviewPage(a, m)
      [] view = "cpu"      -> CpuPage(a, m)
      [] view = "memory"   -> MemoryPage(a)
      [] view = "gpu"      -> GpuPage(a, m)
      [] view = "storage"  -> StoragePage(a, m)
      [] view = "network"  -> NetworkPage(a, m)
      [] view = "process"  -> ProcessPage(a, m, scroll)

Page(view, size, m, scroll, tab, selected) ==
    IF view = "admin" THEN AdminPage(Drawable(size), m, tab, selected, Decorated(size))
    ELSE Register(PanelsOf(view, Drawable(size), m, scroll))
=============================================================================
