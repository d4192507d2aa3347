------------------------------ MODULE MCHelper ------------------------------
(* The helper for TLC, and the scan of home directories it runs for the    *)
(* storage operations. Helper has a scan as seconds that pass, StorageScan *)
(* as the walk: a behaviour watches the calls or one walk (watched), and   *)
(* the other stands.                                                       *)
EXTENDS Helper

CONSTANTS Database, Nodes, Dirs, Parent, Inode, Space, Foreign, Unreadable,
          MaxEntries, MaxDepth, ClockEvery, KeepChildren, MaxChanges

\* The entries are a tree, or several: every entry but a home is in a directory,
\* and above every set of them there is one that is not in any of them.
ASSUME TreeAssumption ==
    /\ IsFiniteSet(Nodes) /\ Parent \in [Nodes -> Dirs]
    /\ Dirs \subseteq Nodes /\ Foreign \subseteq Dirs /\ Unreadable \subseteq Dirs
    /\ \A S \in SUBSET Nodes :
          S # {} => \E n \in S : Parent[n] = n \/ Parent[n] \notin S
    /\ \A n \in Foreign : Parent[n] # n

\* A directory has one name, and everything takes some space or none.
ASSUME InodeAssumption ==
    /\ \A d \in Dirs, n \in Nodes : Inode[n] = Inode[d] => n = d
    /\ \A n \in Nodes : Space[Inode[n]] \in Nat

\* The accounts are a list, and a home is not inside another.
ASSUME AccountAssumption ==
    /\ IsFiniteSet(DOMAIN Database) /\ DOMAIN Database \subseteq Nat
    /\ \A i \in DOMAIN Database :
          /\ Database[i].name \in Nat
          /\ Database[i].home \in Nodes =>
                Database[i].home \in Dirs /\ Parent[Database[i].home] = Database[i].home

ASSUME LimitAssumption ==
    /\ MaxEntries \in Nat /\ MaxDepth \in Nat
    /\ ClockEvery \in Nat \ {0} /\ KeepChildren \in Nat \ {0}

VARIABLES watched, todo, at, home, entering, stack, entries, denied, stop, seen,
          bytes, loose, children, scanLate, cancelled, changed, results

Walk == INSTANCE StorageScan WITH late <- scanLate

walkVars == <<todo, at, home, entering, stack, entries, denied, stop, seen,
              bytes, loose, children, scanLate, cancelled, changed, results>>
all == <<watched, vars, walkVars>>

InCalls(A) == watched = "calls" /\ A /\ UNCHANGED <<watched, walkVars>>
InWalk(A) == watched = "walk" /\ A /\ UNCHANGED <<watched, vars>>
WalkOver == watched = "walk" /\ at = "done" /\ UNCHANGED all

BothInit ==
    /\ watched \in {"calls", "walk"} /\ Init /\ Walk!Init
    /\ watched = "calls" => home = Database[1].home
BothNext == InCalls(Next) \/ InWalk(Walk!Next) \/ WalkOver

\* The fairness of either.
BothFairness ==
    /\ \A r \in Runs : /\ WF_all(InCalls(SudoDecides(r)))
                       /\ WF_all(InCalls(HelperRuns(r)))
                       /\ WF_all(InCalls(WaitEnds(r) \/ Returns(r)))
    /\ WF_all(InWalk(Walk!Scanning))

BothSpec == BothInit /\ [][BothNext]_all /\ BothFairness

\* What StorageScan states.
SoundResults == Walk!SoundResults
\* Likewise, of a behaviour that watches a walk.
ScanEnds == watched = "walk" => Walk!ScanEnds

Line(sub, flags) == [sub |-> sub, flags |-> flags]

\* A signal to init, a signal that is not on the list, a priority raised and
\* one lowered too far, the same flag twice, a flag that does not belong, no
\* start time, and a good line.
MCHandArgv ==
    << Line("process-signal", << <<"pid", 1>>, <<"starttime", 1>>, <<"signal", "TERM">> >>),
       Line("process-signal", << <<"pid", 2>>, <<"starttime", 1>>, <<"signal", "KILL">> >>),
       Line("renice", << <<"pid", 2>>, <<"starttime", 1>>, <<"nice", -1>> >>),
       Line("renice", << <<"nice", 20>>, <<"pid", 2>>, <<"starttime", 1>> >>),
       Line("renice", << <<"pid", 2>>, <<"pid", 2>>, <<"starttime", 1>>, <<"nice", 5>> >>),
       Line("storage-users", << <<"user", "name">> >>),
       Line("renice", << <<"pid", 2>>, <<"starttime", 0>>, <<"nice", 5>> >>),
       Line("exec", << >>) >>

\* One nice value that is accepted and the first that is not.
MCNices == {5, 20}

\* Two homes. The first has directories three deep, a file with two names in
\* different directories, a mount point, and a directory that may not be read;
\* the second is small.
MCNodes == {"alice", "src", "deep", "deeper", "a", "b", "mount", "private",
            "note", "bob", "todo"}
MCDirs == {"alice", "src", "deep", "deeper", "mount", "private", "bob"}
MCParent ==
    [n \in MCNodes |->
        CASE n \in {"alice", "src", "mount", "private", "a"} -> "alice"
          [] n \in {"deep", "b"} -> "src"
          [] n = "deeper"        -> "deep"
          [] n = "note"          -> "deeper"
          [] OTHER               -> "bob"]
\* a and b are one file.
MCInode == [n \in MCNodes |-> IF n = "b" THEN "a" ELSE n]
MCBlocks == [n \in MCNodes |-> IF n \in MCDirs THEN 1 ELSE 5]

\* A system account, one without a home, and two names for one id.
MCDatabase ==
    << [name |-> 3, uid |-> "b", real |-> TRUE,  home |-> "bob"],
       [name |-> 1, uid |-> "d", real |-> FALSE, home |-> "alice"],
       [name |-> 2, uid |-> "a", real |-> TRUE,  home |-> "alice"],
       [name |-> 5, uid |-> "c", real |-> TRUE,  home |-> "/"],
       [name |-> 4, uid |-> "b", real |-> TRUE,  home |-> "bob"] >>
=============================================================================
