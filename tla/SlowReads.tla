----------------------------- MODULE SlowReads -----------------------------
(***************************************************************************)
(* What is not read in every round, because it is slow or changes seldom:  *)
(* the filesystems, with a system call for each, and the addresses of the  *)
(* interfaces. The two share nothing: a behaviour watches one (kind).      *)
(*                                                                         *)
(* A path is a number, in the order of the names. Left out are the inodes, *)
(* counted like the blocks, and the hardware address and the speed of an   *)
(* interface, read like its state.                                         *)
(***************************************************************************)
EXTENDS Integers, Sequences, FiniteSets, Functions, SequencesExt

CONSTANTS
    Mountable,  \* lines of /proc/mounts: device, path, and whether it is real
    RootPath,   \* where the first of them stands
    Size,       \* by device: blocks, of which Kept are root's own
    Kept,
    Escaped,    \* paths with a character that the kernel writes in octal
    Wide,       \* paths with one that takes several bytes
    Addresses,  \* by interface: what it may have, link-local ones included
    LinkLocal,
    NoDevice,
    Period,     \* the rounds are numbered by time: how long nothing is read
    Until,      \* bound: when the behaviour ends
    Events      \* bound: what may change meanwhile

Devices == DOMAIN Size
Interfaces == DOMAIN Addresses

\* Lines name a device, sizes are numbers.
MountBounds ==
    /\ \A l \in Mountable : l.dev \in Devices /\ l.path \in Nat /\ l.real \in BOOLEAN
    /\ NoDevice \notin Devices
    /\ \A d \in Devices : Size[d] \in Nat

VARIABLES
    kind,       \* "mounts" or "links"
    clock, events,
    table,      \* /proc/mounts
    used,       \* by device: blocks
    reading,    \* scan_mounts is under way
    todo, got,  \* the lines still to ask about, and what was found out
    mounts,     \* the list on the page
    scanned,    \* last_mount_scan, or Never
    steady,     \* history: nothing has changed since it began
    links,      \* by interface that is there: addresses, and whether it is up
    shown,      \* by interface on the page: likewise
    asked       \* last_addr_scan, or Never

mountVars == <<table, used, reading, todo, got, mounts, scanned, steady>>
linkVars == <<links, shown, asked>>
vars == <<kind, clock, events, mountVars, linkVars>>

Never == -1
Most(a, b) == IF a > b THEN a ELSE b
Line(dev, path, real) == [dev |-> dev, path |-> path, real |-> real]

Init ==
    /\ kind \in {"mounts", "links"}
    /\ clock = 0 /\ events = Events
    /\ table \in {<<l>> : l \in {m \in Mountable : m.path = RootPath}}
    /\ used = [d \in Devices |-> 1]
    /\ reading = FALSE
    /\ todo = <<>> /\ got = <<>> /\ mounts = <<>>
    /\ scanned = Never /\ steady = TRUE
    /\ links = << >> /\ shown = << >>
    /\ asked = Never

\* update, of both: nothing was read yet, or not for a while.
Due(last) == last = Never \/ clock - last >= Period

-----------------------------------------------------------------------------
(* External: the machine *)

TimePasses ==
    /\ ~reading /\ clock < Until
    /\ clock' = clock + 1
    /\ UNCHANGED <<kind, events, mountVars, linkVars>>

Happens(k) ==
    /\ kind = k /\ events > 0
    /\ events' = events - 1
    /\ UNCHANGED <<kind, clock>>

\* The table is in order of mounting; what is mounted over another hides it.
Mounts(l) ==
    /\ Happens("mounts")
    /\ l \notin Range(table)
    /\ table' = Append(table, l) /\ steady' = FALSE
    /\ UNCHANGED <<used, reading, todo, got, mounts, scanned, linkVars>>

Unmounts(i) ==
    /\ Happens("mounts")
    /\ table[i].path # RootPath
    /\ table' = RemoveAt(table, i) /\ steady' = FALSE
    /\ UNCHANGED <<used, reading, todo, got, mounts, scanned, linkVars>>

Writes(d) ==
    /\ Happens("mounts")
    /\ \E n \in 0..Size[d] : n # used[d] /\ used' = [used EXCEPT ![d] = n]
    /\ steady' = FALSE
    /\ UNCHANGED <<table, reading, todo, got, mounts, scanned, linkVars>>

LinkChanges(i) ==
    /\ Happens("links")
    /\ \/ \E a \in SUBSET Addresses[i], up \in BOOLEAN :
            links' = [n \in DOMAIN links \cup {i} |->
                        IF n = i THEN [addrs |-> a, up |-> up] ELSE links[n]]
       \/ /\ i \in DOMAIN links
          /\ links' = [n \in DOMAIN links \ {i} |-> links[n]]
    /\ UNCHANGED <<mountVars, shown, asked>>

-----------------------------------------------------------------------------
(* Filesystems *)

\* unescape_mount goes through a path byte by byte once there is a backslash in
\* it: a character of several bytes comes out as several others. There is no
\* such path.
Garbled(path) == path \in Escaped \cap Wide

\* statvfs tells of what is mounted last there; when nothing is any more, of the
\* filesystem the empty directory is on, or nothing when it is gone as well.
At(path) ==
    LET on == {i \in DOMAIN table : table[i].path = path}
    IN  IF Garbled(path) THEN {}
        ELSE IF on = {} THEN {table[1].dev, NoDevice}
        ELSE {table[i].dev : i \in {j \in on : \A k \in on : k <= j}}

\* mount_from_statvfs: of the blocks of d. The share is what df says: root's own
\* blocks are not counted as free.
Measured(l, d) ==
    LET free == Most(Size[d] - used[d] - Kept, 0)
    IN  [dev |-> l.dev, path |-> l.path, total |-> Size[d], used |-> used[d],
         share |-> IF used[d] + free = 0 THEN Never ELSE (100 * used[d]) \div (used[d] + free)]

\* Slip: two disks of one size that are equally full are one.
SameNumbers(m, n) == <<m.total, m.used>> = <<n.total, n.used>>

\* A filesystem that is mounted again somewhere else.
SameFilesystem(m, n) == <<m.dev, m.total, m.used>> = <<n.dev, n.total, n.used>>

\* dedupe_bind_mounts: only the first of each, the largest first.
Firsts(found) ==
    {i \in DOMAIN found : \A j \in 1..(i - 1) : ~SameFilesystem(found[j], found[i])}

\* The order of the list; the sort is stable.
Ahead(found, i, j) ==
    LET m == found[i]
        n == found[j]
    IN  \/ m.total > n.total
        \/ m.total = n.total /\ m.path < n.path
        \/ m.total = n.total /\ m.path = n.path /\ i < j

Listed(found) ==
    LET rank(j) == Cardinality({i \in Firsts(found) : Ahead(found, i, j)}) + 1
    IN  [k \in 1..Cardinality(Firsts(found)) |->
            found[CHOOSE j \in Firsts(found) : rank(j) = k]]

\* update of DiskCollector, scan_mounts: whether or not the table can be read,
\* it is read again a while later only.
BeginScan ==
    /\ kind = "mounts" /\ ~reading
    /\ Due(scanned)
    /\ scanned' = clock
    /\ \E readable \in BOOLEAN :
        /\ reading' = readable
        /\ todo' = IF readable THEN table ELSE <<>>
    /\ got' = <<>> /\ steady' = TRUE
    /\ UNCHANGED <<kind, clock, events, table, used, mounts, linkVars>>

\* One line. Pseudo filesystems are passed over; what has no blocks is left out.
AskNext ==
    /\ reading /\ todo # <<>>
    /\ todo' = Tail(todo)
    /\ LET at == IF Head(todo).real THEN At(Head(todo).path) ELSE {}
           telling == {d \in at \ {NoDevice} : Size[d] > 0}
       IN  \/ (at = {} \/ at # telling) /\ UNCHANGED got
           \/ \E d \in telling : got' = Append(got, Measured(Head(todo), d))
    /\ UNCHANGED <<kind, clock, events, table, used, reading, mounts, scanned, steady, linkVars>>

EndScan ==
    /\ reading /\ todo = <<>>
    /\ mounts' = Listed(got)
    /\ reading' = FALSE /\ got' = <<>>
    /\ UNCHANGED <<kind, clock, events, table, used, todo, scanned, steady, linkVars>>

-----------------------------------------------------------------------------
(* Interfaces *)

NoLink == [addrs |-> {}, up |-> FALSE]

\* update of NetCollector: interfaces not seen before are added in every round;
\* read_addrs forgets all addresses before it asks, read_link_info takes a file
\* that is not there for an interface that is down.
NetRound ==
    /\ kind = "links"
    /\ \E counted, answered \in BOOLEAN :
        LET known == DOMAIN shown \cup IF counted THEN DOMAIN links ELSE {}
            Before(i) == IF i \in DOMAIN shown THEN shown[i] ELSE NoLink
            Now(i) == IF i \in DOMAIN links
                      THEN [addrs |-> IF answered THEN links[i].addrs \ LinkLocal ELSE {},
                            up |-> links[i].up]
                      ELSE NoLink
        IN  /\ shown' = [i \in known |-> IF Due(asked) THEN Now(i) ELSE Before(i)]
            /\ asked' = IF Due(asked) THEN clock ELSE asked
    /\ UNCHANGED <<kind, clock, events, mountVars, links>>

Next ==
    \/ TimePasses
    \/ \E l \in Mountable : Mounts(l)
    \/ \E i \in 2..Len(table) : Unmounts(i)
    \/ \E d \in Devices : Writes(d)
    \/ \E i \in Interfaces : LinkChanges(i)
    \/ BeginScan \/ AskNext \/ EndScan
    \/ NetRound

Spec == Init /\ [][Next]_vars

-----------------------------------------------------------------------------
(* Properties *)

Real(i) == table[i].real /\ Size[table[i].dev] > 0
Hidden(i) == \E j \in (i + 1)..Len(table) : table[j].path = table[i].path
Shows(d) == {i \in DOMAIN mounts : mounts[i].dev = d}

\* However filesystems were mounted, and mounted again elsewhere, before: a list
\* that was put together while nothing changed has each of them once, at the
\* first of its paths that can be read, with its own numbers, none of another's,
\* and no pseudo filesystem (dedupe_bind_mounts, is_real_filesystem).
FilesystemsAreTrue ==
    [][EndScan /\ steady /\ (\A i \in DOMAIN table : ~Hidden(i)) =>
        \A d \in Devices :
            LET at == {i \in DOMAIN table : Real(i) /\ table[i].dev = d
                                              /\ ~Garbled(table[i].path)}
            IN  IF at = {} THEN Shows(d)' = {}
                ELSE \E s \in DOMAIN mounts' :
                        /\ Shows(d)' = {s}
                        /\ \E i \in at :
                            /\ \A j \in at : i <= j
                            /\ mounts'[s] = Measured(table[i], d)]_vars

\* What disk.rs says of its decoding, and tests: a filesystem is in the list also
\* when there is a space in its path.
EveryMountListed ==
    [][EndScan /\ steady =>
        \A i \in DOMAIN table : Real(i) => Shows(table[i].dev)' # {}]_vars
=============================================================================
