------------------------------ MODULE MCExplain ------------------------------
(* Machines for the window that tells of what is framed. *)
EXTENDS Integers, Sequences

Size(w, h) == [w |-> w, h |-> h]
MCSizes == {Size(132, 30), Size(80, 16)}

Process(pid, since, foreign) == [pid |-> pid, since |-> since, foreign |-> foreign]
Card(name, maker, has, procs, complete) ==
    [name |-> name, maker |-> maker, has |-> has, procs |-> procs, complete |-> complete]
Target(kind, name, nr) == [kind |-> kind, name |-> name, nr |-> nr]
Place(hot, known, shared) == [hot |-> hot, known |-> known, shared |-> shared]

Busy ==
    [highlights |-> <<[width |-> 20, tells |-> Target("process", "p1", 1)]>>,
     cores |-> 2, heatmap |-> FALSE, unread |-> {}, limited |-> FALSE, diagnostics |-> -1,
     gpus |-> <<Card("card0", "Intel", {"clock", "range", "estimated"}, 0, TRUE),
                Card("nv0", "NVIDIA", {"temp", "power", "driver", "pstate"}, 2, FALSE)>>,
     mounts |-> <<"/">>,
     disks |-> <<[name |-> "sda", unread |-> {}]>>,
     ifaces |-> <<[name |-> "eth0", addresses |-> 2, virtual |-> FALSE]>>,
     procs |-> <<Process("p1", 1, FALSE), Process("p2", 1, TRUE), Process("p3", 1, FALSE)>>,
     unlocked |-> FALSE, users |-> <<0, 0, 0, 0>>, detail |-> FALSE,
     physical |-> TRUE, clocks |-> TRUE, hot |-> TRUE, swap |-> TRUE, states |-> 3,
     memoryLimited |-> FALSE, places |-> <<Place(TRUE, TRUE, TRUE), Place(FALSE, TRUE, TRUE)>>]

\* Later: the list is sorted anew, p1's number is another's, p3 is gone, and so
\* are a filesystem and a card; the CPU's temperature cannot be read any more.
MCMachines == {"before", "later"}
MCMake ==
    [m \in MCMachines |->
        IF m = "before" THEN Busy
        ELSE [Busy EXCEPT !.procs = <<Process("p2", 1, TRUE), Process("p1", 2, FALSE)>>,
                          !.mounts = <<>>, !.gpus = SubSeq(@, 1, 1), !.hot = FALSE,
                          !.unread = {"cpu.temp"}, !.cores = 1]]
MCOpenViews == {"overview", "cpu", "storage", "process"}
=============================================================================
