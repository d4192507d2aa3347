---------------------------- MODULE StorageScan -----------------------------
(***************************************************************************)
(* storage_users: the accounts of the password database, and for each of   *)
(* them scan_directory over its home: a depth-first walk with a limit on   *)
(* entries, a deadline that is looked at every so many entries, a limit on *)
(* depth, a flag to cancel it, hard links counted once, other file systems *)
(* left out, and a tree that changes while it is walked.                   *)
(*                                                                         *)
(* The recursion of Walker::walk is a stack of frames, one per directory   *)
(* being read; the lowest is the loop of scan_directory over the home      *)
(* itself, which has rules of its own. readdir gives entries in any order. *)
(***************************************************************************)
EXTENDS Naturals, Sequences, FiniteSets, Functions

CONSTANTS
    Database,    \* the password database: a sequence of accounts
    Nodes,       \* the entries of all homes
    Dirs,        \* those that are directories
    Parent,      \* the directory an entry is in; a home is in itself
    Inode,       \* entries with one inode are hard links
    Space,       \* the blocks of an inode
    Foreign,     \* those of the directories on another file system
    Unreadable,  \* those that may not be read
    MaxEntries,  \* limit on the entries of one scan
    MaxDepth,    \* limit on the depth
    ClockEvery,  \* the clock is looked at every so many entries, not 0
    KeepChildren,\* how many first-level entries a result lists, not 0
    MaxChanges   \* bound: entries that disappear or are replaced

VARIABLES
    todo,      \* accounts still to be scanned
    at,        \* "next", "enter", "walk" or "done"
    home,      \* the home being scanned
    entering,  \* the directory about to be opened
    stack,     \* the directories being read
    entries, denied, stop, seen,   \* Walker
    bytes, loose, children,        \* scan_directory
    late,      \* the deadline has passed
    cancelled, \* the Cancel flag
    changed,   \* entries that are gone or no longer what they were
    results    \* what is reported, account by account

walker == <<entries, denied, stop, seen>>
sums == <<bytes, loose, children>>
outside == <<late, cancelled, changed>>
vars == <<todo, at, home, entering, stack, walker, sums, outside, results>>

-----------------------------------------------------------------------------
(* The accounts *)

\* An account of a person, with a home that is one.
Real == {i \in DOMAIN Database : Database[i].real /\ Database[i].home \in Nodes}

\* The order of the names; the sort is stable.
Before(i, j) ==
    \/ Database[i].name < Database[j].name
    \/ Database[i].name = Database[j].name /\ i < j

SameId(i, j) == Database[i].uid = Database[j].uid

\* real_users: of neighbours with one id the first.
RealUsers ==
    {i \in Real : ~\E j \in Real :
        /\ Before(j, i) /\ SameId(j, i)
        /\ \A k \in Real : Before(j, k) /\ Before(k, i) => SameId(k, i)}

-----------------------------------------------------------------------------
(* Walker *)

InDir(d) == {n \in Nodes : Parent[n] = d /\ n # d}
Frame(d, depth) == [dir |-> d, todo |-> InDir(d), total |-> 0, depth |-> depth]
Top == stack[Len(stack)]
Pop == SubSeq(stack, 1, Len(stack) - 1)
HardLink(n) == \E m \in Nodes \ {n} : Inode[m] = Inode[n]

\* budget_exhausted: what would be stored in stop, "complete" for go on.
Budget ==
    CASE cancelled                              -> "cancelled"
      [] ~cancelled /\ entries >= MaxEntries    -> "entries"
      [] ~cancelled /\ entries < MaxEntries
           /\ entries % ClockEvery = 0 /\ late  -> "deadline"
      [] OTHER                                  -> "complete"
Exhausted == Budget # "complete"
NoteBudget == stop' = IF Exhausted THEN Budget ELSE stop

\* Adding to what the top of a stack has counted; the lowest frame counts
\* into the sums of the whole scan.
Counted(s, blocks) ==
    IF Len(s) = 1 THEN s ELSE [s EXCEPT ![Len(s)].total = @ + blocks]

\* scan_directory begins: lstat of the home, which may fail, and opening it.
Starts(d) ==
    /\ home' = d
    /\ entries' = 0
    /\ stop' = "complete"
    /\ seen' = {}
    /\ loose' = 0
    /\ children' = [n \in {} |-> 0]
    /\ late' = FALSE
    /\ IF d \in changed
       THEN /\ denied' = 1
            /\ bytes' = 0
            /\ results' = Append(results,
                  [home |-> d, bytes |-> 0, complete |-> TRUE])
            /\ UNCHANGED <<at, stack>>
       ELSE /\ denied' = IF d \in Unreadable THEN 1 ELSE 0
            /\ bytes' = Space[Inode[d]]
            /\ stack' = <<IF d \in Unreadable
                          THEN [Frame(d, 0) EXCEPT !.todo = {}]
                          ELSE Frame(d, 0)>>
            /\ at' = "walk"
            /\ UNCHANGED results
    /\ UNCHANGED <<entering, cancelled, changed>>

\* The next account, in the order of the names.
NextAccount ==
    /\ at = "next"
    /\ \E i \in todo :
        /\ \A j \in todo \ {i} : Before(i, j)
        /\ todo' = todo \ {i}
        /\ Starts(Database[i].home)

\* All accounts are scanned.
NoAccountLeft ==
    /\ at = "next"
    /\ todo = {}
    /\ at' = "done"
    /\ UNCHANGED <<todo, home, entering, stack, walker, sums, outside, results>>

\* Slip: hard links are only looked for below the first level.
TwiceBelow(n) == n \notin Dirs /\ HardLink(n) /\ Inode[n] \in seen /\ Len(stack) > 1

\* A hard link whose other name has been counted.
Twice(n) == n \notin Dirs /\ HardLink(n) /\ Inode[n] \in seen

\* What counts as an entry and adds nothing: a mount point, a second name.
Skipped(n) == n \in Foreign \/ Twice(n)

\* One turn of the loop over a directory: the budget, then lstat, then a file
\* is counted and a directory entered. What disappeared meanwhile is passed
\* over; on the first level it is put down as denied.
Visit(n) ==
    /\ at = "walk"
    /\ n \in Top.todo
    /\ ~Exhausted
    /\ LET s == [stack EXCEPT ![Len(stack)].todo = @ \ {n}]
           first == Len(stack) = 1
           b == IF Skipped(n) THEN 0 ELSE Space[Inode[n]]
       IN  IF n \in changed
           THEN /\ stack' = s
                /\ denied' = IF first THEN denied + 1 ELSE denied
                /\ UNCHANGED <<at, entering, entries, seen, bytes, loose>>
           ELSE /\ entries' = entries + 1
                /\ IF n \in Dirs /\ ~Skipped(n)
                   THEN /\ at' = "enter"
                        /\ entering' = n
                        /\ stack' = s
                        /\ UNCHANGED <<seen, bytes, loose>>
                   ELSE /\ stack' = Counted(s, b)
                        /\ seen' = IF HardLink(n) THEN seen \cup {Inode[n]} ELSE seen
                        /\ bytes' = IF first THEN bytes + b ELSE bytes
                        /\ loose' = IF first THEN loose + b ELSE loose
                        /\ UNCHANGED <<at, entering>>
                /\ UNCHANGED denied
    /\ UNCHANGED <<todo, home, stop, children, outside, results>>

\* The budget is used up with entries left: the loop is left.
Breaks ==
    /\ at = "walk"
    /\ Top.todo # {}
    /\ Exhausted
    /\ NoteBudget
    /\ stack' = [stack EXCEPT ![Len(stack)].todo = {}]
    /\ UNCHANGED <<todo, at, home, entering, entries, denied, seen, sums, outside,
                   results>>

\* What a walk of d that found w blocks means for the directory d is in: its
\* own blocks come on top, and a child of the home is listed.
Entered(d, s, w) ==
    LET sub == w + Space[Inode[d]]
    IN  /\ stack' = Counted(s, sub)
        /\ IF Len(s) = 1
           THEN /\ bytes' = bytes + sub
                /\ children' = [c \in DOMAIN children \cup {d} |->
                               IF c = d THEN sub ELSE children[c]]
           ELSE UNCHANGED <<bytes, children>>
        /\ UNCHANGED loose

\* walk(): too deep, out of budget, replaced since lstat, or not readable
\* ends it at once; else the directory is read.
Enter ==
    /\ at = "enter"
    /\ at' = "walk"
    /\ LET d == entering
           depth == Top.depth + 1
       IN  IF depth > MaxDepth \/ Exhausted \/ d \in changed \/ d \in Unreadable
           THEN /\ Entered(d, stack, 0)
                /\ stop' = IF depth <= MaxDepth /\ Exhausted THEN Budget ELSE stop
                /\ denied' = IF depth <= MaxDepth /\ ~Exhausted
                                /\ d \in Unreadable \ changed
                             THEN denied + 1 ELSE denied
           ELSE /\ stack' = Append(stack, Frame(d, depth))
                /\ UNCHANGED <<sums, stop, denied>>
    /\ UNCHANGED <<todo, home, entering, entries, seen, outside, results>>

\* Slip: it returns only while there is budget left.
LeaveInBudget ==
    /\ at = "walk"
    /\ Len(stack) > 1
    /\ Top.todo = {}
    /\ ~Exhausted
    /\ Entered(Top.dir, Pop, Top.total)
    /\ UNCHANGED <<todo, at, home, entering, walker, outside, results>>

\* walk() returns to the directory above.
Leave ==
    /\ at = "walk"
    /\ Len(stack) > 1
    /\ Top.todo = {}
    /\ Entered(Top.dir, Pop, Top.total)
    /\ UNCHANGED <<todo, at, home, entering, walker, outside, results>>

\* The rows of a result: the children, and the loose files as one row, under
\* the home itself.
Rows ==
    [n \in DOMAIN children \cup (IF loose > 0 THEN {home} ELSE {}) |->
        IF n = home THEN loose ELSE children[n]]

\* The rows that are listed: the largest. Of rows alike those that readdir gave
\* first.
Largest(rows) ==
    {kept \in SUBSET DOMAIN rows :
        /\ Cardinality(kept) <= KeepChildren
        /\ kept = DOMAIN rows \/ Cardinality(kept) = KeepChildren
        /\ \A a \in kept, b \in DOMAIN rows \ kept : rows[a] >= rows[b]}

\* scan_directory returns and the account is reported.
Report ==
    /\ at = "walk"
    /\ Len(stack) = 1
    /\ Top.todo = {}
    /\ at' = "next"
    /\ stack' = << >>
    /\ results' = Append(results, [home |-> home, bytes |-> bytes,
                                   complete |-> stop = "complete"])
    /\ \E kept \in Largest(Rows) : children' = [n \in kept |-> Rows[n]]
    /\ UNCHANGED <<todo, home, entering, walker, bytes, loose, outside>>

-----------------------------------------------------------------------------
(* Outside *)

TimePasses ==
    /\ at \in {"walk", "enter"}
    /\ ~late
    /\ late' = TRUE
    /\ UNCHANGED <<todo, at, home, entering, stack, walker, sums, cancelled,
                   changed, results>>

Cancels ==
    /\ at # "done"
    /\ ~cancelled
    /\ cancelled' = TRUE
    /\ UNCHANGED <<todo, at, home, entering, stack, walker, sums, late, changed,
                   results>>

\* An entry is deleted, or a directory replaced by something else.
Changes(n) ==
    /\ at # "done"
    /\ Cardinality(changed) < MaxChanges
    /\ changed' = changed \cup {n}
    /\ UNCHANGED <<todo, at, home, entering, stack, walker, sums, late, cancelled,
                   results>>

-----------------------------------------------------------------------------

Init ==
    /\ todo = RealUsers
    /\ at = "next"
    /\ home \in {n \in Nodes : Parent[n] = n}
    /\ entering = home
    /\ stack = << >>
    /\ entries = 0 /\ denied = 0 /\ stop = "complete" /\ seen = {}
    /\ bytes = 0 /\ loose = 0 /\ children = [n \in {} |-> 0]
    /\ late = FALSE /\ cancelled = FALSE /\ changed = {}
    /\ results = << >>

Scanning ==
    \/ NextAccount
    \/ NoAccountLeft
    \/ \E n \in Nodes : Visit(n)
    \/ Breaks
    \/ Enter
    \/ Leave
    \/ Report

Next ==
    \/ Scanning
    \/ TimePasses
    \/ Cancels
    \/ \E n \in Nodes : Changes(n)

Spec == Init /\ [][Next]_vars

\* One process that runs on: no step of it waits for anybody.
FairSpec == Spec /\ WF_vars(Scanning)

-----------------------------------------------------------------------------
(* What must hold *)

\* The walk is never deeper than its limit, and counts of one scan stay
\* within what was visited.
TypeOK ==
    /\ at \in {"next", "enter", "walk", "done"}
    /\ home \in Nodes /\ entering \in Nodes
    /\ Len(stack) <= MaxDepth + 1
    /\ \A i \in DOMAIN stack : stack[i] \in [dir : Dirs, todo : SUBSET Nodes,
                                            total : Nat, depth : 0 .. MaxDepth]
    /\ entries \in 0 .. MaxEntries /\ denied \in Nat
    /\ stop \in {"complete", "deadline", "entries", "cancelled"}
    /\ seen \subseteq {Inode[n] : n \in Nodes}
    /\ bytes \in Nat /\ loose \in 0 .. bytes
    /\ late \in BOOLEAN /\ cancelled \in BOOLEAN /\ changed \subseteq Nodes

\* What du counts: every inode once that is reached through readable
\* directories of this file system, down to the limit on depth.
Above[n \in Nodes] ==
    IF Parent[n] = n THEN {} ELSE {Parent[n]} \cup Above[Parent[n]]
Due(h) ==
    {n \in Nodes : /\ n = h \/ h \in Above[n]
                   /\ n \notin Foreign
                   /\ Above[n] \cap (Foreign \cup Unreadable) = {}
                   /\ Cardinality(Above[n]) <= MaxDepth + 1}
DiskUsage(h) ==
    SumFunctionOnSet(Space, {Inode[n] : n \in Due(h)})

\* What the directories being read have come to so far.
Held == SumFunctionOnSet([i \in DOMAIN stack |-> stack[i].total], DOMAIN stack)

\* A result marked complete is what du says, in whatever order the entries
\* came: what is missing is never passed off as nothing (StopReason).
ExactWhenComplete ==
    \A i \in DOMAIN results :
        results[i].complete /\ changed = {}
            => results[i].bytes = DiskUsage(results[i].home)

\* At no time has a scan counted more than there is, whatever disappears.
NeverTooMuch ==
    at \in {"walk", "enter"} =>
        bytes + Held <= DiskUsage(home)

\* The rows of a result and the home itself make up its total, unless rows
\* were cut off.
RowsAddUp ==
    at = "next" /\ results # << >> /\ bytes > 0 =>
        LET listed == Space[Inode[home]] + SumFunctionOnSet(children, DOMAIN children)
        IN  /\ listed <= bytes
            /\ Cardinality(DOMAIN children) < KeepChildren => listed = bytes

\* Every person is reported, and once where the accounts that share an id are
\* neighbours in the order of the names.
IdsTogether ==
    \A i, j, k \in Real :
        Before(i, j) /\ Before(j, k) /\ SameId(i, k) => SameId(j, k)
EachPersonOnce ==
    at = "done" =>
        LET people == {Database[i].uid : i \in Real}
        IN  /\ Len(results) >= Cardinality(people)
            /\ IdsTogether => Len(results) = Cardinality(people)

\* Taken together: what the page shows of a home is what is there, all of it
\* or marked as part of it, with rows that add up, one home for each person.
SoundResults == ExactWhenComplete /\ NeverTooMuch /\ RowsAddUp /\ EachPersonOnce

\* A scan ends, and the helper comes to its answer.
ScanEnds == <>(at = "done")
=============================================================================
